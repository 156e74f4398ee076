-------------------------- MODULE ExcelDownloadsProofs --------------------------
(***************************************************************************)
(* For any number of links, downloads, instances and ticks of the clock: a   *)
(* link serves one download, its own, and a download is served exactly when  *)
(* one is due.                                                               *)
(*                                                                           *)
(* The invariant ties an entry of the store to the link it is for: while it  *)
(* is there the link is not spent and expires when it says; when it is gone  *)
(* the link is spent or has expired.                                         *)
(***************************************************************************)
EXTENDS ExcelDownloads, TLAPS

EntryIsLive(i, t) ==
  downloads[i][t] # None =>
    /\ home[t] = i
    /\ link[t] = "open"
    /\ downloads[i][t].report = t
    /\ downloads[i][t].expires = issued[t] + TTL
    /\ ~Spent(t)

GoneForGood(t) ==
  link[t] = "open" /\ downloads[home[t]][t] = None => Spent(t) \/ ~Fresh(t)

AskedIsOpen(k) ==
  /\ take[k] = "idle" => asked[k] = None
  /\ asked[k] # None => link[asked[k]] = "open"
  /\ Served(k) => asked[k] # None

DInv ==
  /\ DTypeOK
  /\ \A i \in Instances, t \in Links : EntryIsLive(i, t)
  /\ \A t \in Links : GoneForGood(t)
  /\ \A k \in Takers : AskedIsOpen(k)
  /\ ServedOnce

USE LinksAssumption, TakersAssumption, TimeAssumption, InstancesAssumption, EntriesAssumption

LEMMA CleanedType ==
  ASSUME DInv, NEW i \in Instances
  PROVE  Cleaned(i) \in [Links -> Entries \cup {None}]
BY DEF DInv, DTypeOK, Cleaned

(* The store without its expired entries holds what it held. *)
LEMMA CleanedFacts ==
  ASSUME DInv, NEW i \in Instances, NEW t \in Links
  PROVE  /\ Cleaned(i)[t] # None <=> downloads[i][t] # None /\ now =< issued[t] + TTL
         /\ Cleaned(i)[t] # None => Cleaned(i)[t] = downloads[i][t]
<1>1. EntryIsLive(i, t) BY DEF DInv
<1>2. issued[t] \in Nat /\ now \in Nat BY DEF DInv, DTypeOK
<1>3. Cleaned(i)[t] = IF Expired(downloads[i][t]) THEN None ELSE downloads[i][t] BY DEF Cleaned
<1>. QED BY <1>1, <1>2, <1>3 DEF EntryIsLive, Expired

(* What a taker finds in the store is there exactly when its download is due. *)
LEMMA HeldIsDue ==
  ASSUME DInv, NEW k \in Takers, take[k] = "asked"
  PROVE  /\ Held(k) # None <=> Due(k)
         /\ Held(k) # None => asked[k] \in Links /\ Held(k).report = asked[k]
<1>1. CASE asked[k] = None BY <1>1 DEF Held, Due
<1>2. CASE asked[k] # None
  <2>. DEFINE t == asked[k]
              i == home[k]
  <2>1. t \in Links /\ i \in Instances /\ home[t] \in Instances /\ issued[t] \in Nat /\ now \in Nat
    BY <1>2 DEF DInv, DTypeOK
  <2>2. Held(k) = Cleaned(i)[t] BY <1>2 DEF Held
  <2>3. link[t] = "open" BY <1>2 DEF DInv, AskedIsOpen
  <2>4. EntryIsLive(i, t) /\ GoneForGood(t) BY <2>1 DEF DInv
  <2>5. /\ Cleaned(i)[t] # None <=> downloads[i][t] # None /\ now =< issued[t] + TTL
        /\ Cleaned(i)[t] # None => Cleaned(i)[t] = downloads[i][t]
    BY <2>1, CleanedFacts
  <2>6. Held(k) # None => Due(k) BY <1>2, <2>2, <2>4, <2>5 DEF EntryIsLive, Due, Fresh
  <2>7. Due(k) => Held(k) # None BY <2>2, <2>3, <2>4, <2>5 DEF GoneForGood, Due, Fresh
  <2>. QED BY <2>1, <2>2, <2>4, <2>5, <2>6, <2>7 DEF EntryIsLive
<1>. QED BY <1>1, <1>2

LEMMA InitDInv == DInit => DInv
<1>. SUFFICES ASSUME DInit PROVE DInv OBVIOUS
<1>1. DTypeOK BY DEF DInit, DTypeOK, Instances, Entries
<1>2. \A i \in Instances, t \in Links : EntryIsLive(i, t) BY DEF DInit, EntryIsLive
<1>3. \A t \in Links : GoneForGood(t) BY DEF DInit, GoneForGood
<1>4. \A k \in Takers : AskedIsOpen(k) BY DEF DInit, AskedIsOpen, Served
<1>5. ServedOnce BY DEF DInit, ServedOnce, Served
<1>. QED BY <1>1, <1>2, <1>3, <1>4, <1>5 DEF DInv

(* A step that only moves a link that is not open, and its instance. *)
LEMMA LinkStepDInv ==
  ASSUME DInv, NEW g \in Links, link[g] # "open", NEW to \in {"generating", "store", "sent", "failed"},
         link' = [link EXCEPT ![g] = to],
         NEW i0 \in Instances, home' = [home EXCEPT ![g] = i0],
         UNCHANGED <<now, instance, downloads, take, asked, got, issued>>
  PROVE  DInv'
<1>1. DTypeOK' BY DEF DInv, DTypeOK
<1>2. \A t \in Links : link'[t] = "open" <=> link[t] = "open" /\ t # g BY DEF DInv, DTypeOK
<1>3. \A t \in Links : t # g => link'[t] = link[t] /\ home'[t] = home[t] BY DEF DInv, DTypeOK
<1>4. \A t \in Links : Spent(t)' <=> Spent(t) BY DEF Spent, Served
<1>5. \A t \in Links : Fresh(t)' <=> Fresh(t) BY DEF Fresh
<1>6. \A i \in Instances, t \in Links : EntryIsLive(i, t)'
  BY <1>2, <1>3, <1>4 DEF DInv, EntryIsLive
<1>7. \A t \in Links : GoneForGood(t)' BY <1>2, <1>3, <1>4, <1>5 DEF DInv, GoneForGood
<1>8. \A k \in Takers : AskedIsOpen(k)'
  BY <1>2 DEF DInv, DTypeOK, AskedIsOpen, Served
<1>9. ServedOnce' BY DEF DInv, ServedOnce, Served
<1>. QED BY <1>1, <1>6, <1>7, <1>8, <1>9 DEF DInv

LEMMA StoreDInv ==
  ASSUME DInv, NEW g \in Links, StoreExcelReportDownload(g)
  PROVE  DInv'
<1>. DEFINE i0 == home[g]
            entry == [report |-> g, expires |-> now + TTL]
<1>1. i0 \in Instances /\ now \in Nat /\ entry \in Entries /\ entry # None
      /\ link \in [Links -> {"idle", "generating", "store", "open", "sent", "failed"}]
      /\ issued \in [Links -> Nat]
      /\ downloads \in [Instances -> [Links -> Entries \cup {None}]]
  BY DEF DInv, DTypeOK, Entries
<1>2. link[g] = "store" /\ link' = [link EXCEPT ![g] = "open"] BY DEF StoreExcelReportDownload, Goto
<1>3. UNCHANGED <<now, instance, home, take, asked, got>> /\ issued' = [issued EXCEPT ![g] = now]
  BY DEF StoreExcelReportDownload
<1>4. downloads' = [downloads EXCEPT ![i0] = [Cleaned(i0) EXCEPT ![g] = entry]]
  BY DEF StoreExcelReportDownload
<1>. HIDE DEF entry, i0
<1>5. Cleaned(i0) \in [Links -> Entries \cup {None}] BY <1>1, CleanedType
<1>6. downloads'[i0][g] = entry BY <1>1, <1>4, <1>5
<1>7. ASSUME NEW t \in Links, t # g PROVE downloads'[i0][t] = Cleaned(i0)[t] BY <1>1, <1>4, <1>5, <1>7
<1>8. ASSUME NEW i \in Instances, i # i0 PROVE downloads'[i] = downloads[i] BY <1>1, <1>4, <1>8
<1>9. \A t \in Links : Spent(t)' <=> Spent(t) BY <1>3 DEF Spent, Served
<1>10. \A t \in Links : t # g => link'[t] = link[t] /\ issued'[t] = issued[t] BY <1>1, <1>2, <1>3
<1>11. link'[g] = "open" /\ issued'[g] = now BY <1>1, <1>2, <1>3
<1>12. ~Spent(g) BY <1>2 DEF DInv, Spent, AskedIsOpen
<1>13. DTypeOK' BY <1>1, <1>2, <1>3, <1>4, <1>5 DEF DInv, DTypeOK
<1>14. ASSUME NEW i \in Instances, NEW t \in Links PROVE EntryIsLive(i, t)'
  <2>1. CASE i = i0 /\ t = g
    BY <2>1, <1>1, <1>3, <1>6, <1>9, <1>11, <1>12 DEF EntryIsLive, entry, i0
  <2>2. CASE i = i0 /\ t # g
    BY <2>2, <1>1, <1>3, <1>7, <1>9, <1>10, CleanedFacts DEF DInv, EntryIsLive
  <2>3. CASE i # i0 /\ t = g BY <2>3, <1>2, <1>8 DEF DInv, EntryIsLive
  <2>4. CASE i # i0 /\ t # g BY <2>4, <1>3, <1>8, <1>9, <1>10 DEF DInv, EntryIsLive
  <2>. QED BY <2>1, <2>2, <2>3, <2>4
<1>15. ASSUME NEW t \in Links PROVE GoneForGood(t)'
  <2>1. CASE t = g BY <2>1, <1>1, <1>3, <1>6 DEF GoneForGood, i0
  <2>2. CASE t # g /\ home[t] = i0
    <3>1. GoneForGood(t) /\ issued[t] \in Nat BY <1>1 DEF DInv
    <3>2. Cleaned(i0)[t] # None <=> downloads[i0][t] # None /\ now =< issued[t] + TTL BY <1>1, CleanedFacts
    <3>. QED BY <2>2, <3>1, <3>2, <1>1, <1>3, <1>7, <1>9, <1>10 DEF GoneForGood, Fresh
  <2>3. CASE t # g /\ home[t] # i0
    <3>1. GoneForGood(t) /\ home[t] \in Instances BY DEF DInv, DTypeOK
    <3>. QED BY <2>3, <3>1, <1>3, <1>8, <1>9, <1>10 DEF GoneForGood, Fresh
  <2>. QED BY <2>1, <2>2, <2>3
<1>16. \A k \in Takers : AskedIsOpen(k)'
  BY <1>2, <1>3, <1>10, <1>11 DEF DInv, DTypeOK, AskedIsOpen, Served
<1>17. ServedOnce' BY <1>3 DEF DInv, ServedOnce, Served
<1>. QED BY <1>13, <1>14, <1>15, <1>16, <1>17 DEF DInv

LEMMA AskDInv ==
  ASSUME DInv, NEW k \in Takers, NEW t0 \in Links \cup {None}, Ask(k, t0)
  PROVE  DInv'
<1>1. take \in [Takers -> {"idle", "asked", "served", "refused"}] /\ asked \in [Takers -> Links \cup {None}]
      /\ home \in [Links \cup Takers -> Instances] /\ instance \in Instances
  BY DEF DInv, DTypeOK
<1>2. /\ take[k] = "idle" /\ (t0 # None => link[t0] = "open")
      /\ take' = [take EXCEPT ![k] = "asked"] /\ asked' = [asked EXCEPT ![k] = t0]
      /\ home' = [home EXCEPT ![k] = instance]
      /\ UNCHANGED <<now, instance, link, downloads, got, issued>>
  BY DEF Ask
<1>3. \A j \in Takers : Served(j)' <=> Served(j) BY <1>1, <1>2 DEF Served
<1>4. \A j \in Takers : Served(j) => j # k /\ asked'[j] = asked[j] BY <1>1, <1>2 DEF Served
<1>5. \A t \in Links : home'[t] = home[t] BY <1>1, <1>2
<1>6. \A t \in Links : (Spent(t)' <=> Spent(t)) /\ (Fresh(t)' <=> Fresh(t))
  BY <1>2, <1>3, <1>4 DEF Spent, Fresh
<1>7. DTypeOK' BY <1>1, <1>2 DEF DInv, DTypeOK
<1>8. \A i \in Instances, t \in Links : EntryIsLive(i, t)' BY <1>2, <1>5, <1>6 DEF DInv, EntryIsLive
<1>9. \A t \in Links : GoneForGood(t)' BY <1>2, <1>5, <1>6 DEF DInv, GoneForGood
<1>10. \A j \in Takers : AskedIsOpen(j)' BY <1>1, <1>2 DEF DInv, AskedIsOpen, Served
<1>11. ServedOnce' BY <1>2, <1>3, <1>4 DEF DInv, ServedOnce
<1>. QED BY <1>7, <1>8, <1>9, <1>10, <1>11 DEF DInv

(* How a download ends, in terms of what is due. *)
LEMMA TakeFacts ==
  ASSUME DInv, NEW k \in Takers, TakeExcelReportDownload(k)
  PROVE  /\ Served(k)' <=> Due(k)
         /\ Served(k)' => asked[k] \in Links /\ got'[k] = asked[k]
         /\ take'[k] \in {"served", "refused"} /\ got' \in [Takers -> Links \cup {None}]
         /\ \A j \in Takers \ {k} : take'[j] = take[j] /\ got'[j] = got[j]
<1>1. take \in [Takers -> {"idle", "asked", "served", "refused"}] /\ got \in [Takers -> Links \cup {None}]
  BY DEF DInv, DTypeOK
<1>2. take[k] = "asked" /\ (Serve(k) \/ Refuse(k)) BY DEF TakeExcelReportDownload
<1>3. /\ Held(k) # None <=> Due(k)
      /\ Held(k) # None => asked[k] \in Links /\ Held(k).report = asked[k]
  BY <1>2, HeldIsDue
<1>4. CASE Serve(k) BY <1>1, <1>3, <1>4 DEF Serve, Served
<1>5. CASE Refuse(k) BY <1>1, <1>3, <1>5 DEF Refuse, Served
<1>. QED BY <1>2, <1>4, <1>5

LEMMA TakeDInv ==
  ASSUME DInv, NEW k \in Takers, TakeExcelReportDownload(k)
  PROVE  DInv'
<1>. DEFINE i0 == home[k]
<1>1. i0 \in Instances /\ take \in [Takers -> {"idle", "asked", "served", "refused"}]
      /\ downloads \in [Instances -> [Links -> Entries \cup {None}]] /\ issued \in [Links -> Nat] /\ now \in Nat
      /\ asked \in [Takers -> Links \cup {None}] /\ home \in [Links \cup Takers -> Instances]
  BY DEF DInv, DTypeOK
<1>2. /\ take[k] = "asked"
      /\ downloads' = [downloads EXCEPT ![i0] = [t \in Links |-> IF t = asked[k] THEN None ELSE Cleaned(i0)[t]]]
      /\ UNCHANGED <<now, instance, home, link, asked, issued>>
  BY DEF TakeExcelReportDownload
<1>3. /\ Served(k)' <=> Due(k)
      /\ Served(k)' => asked[k] \in Links /\ got'[k] = asked[k]
      /\ take'[k] \in {"served", "refused"} /\ got' \in [Takers -> Links \cup {None}]
      /\ \A j \in Takers \ {k} : take'[j] = take[j] /\ got'[j] = got[j]
  BY TakeFacts
<1>4. take' \in [Takers -> {"idle", "asked", "served", "refused"}]
  BY <1>1, <1>2 DEF TakeExcelReportDownload, Serve, Refuse
<1>. HIDE DEF i0
<1>5. Cleaned(i0) \in [Links -> Entries \cup {None}] BY <1>1, CleanedType
<1>6. \A t \in Links : downloads'[i0][t] = IF t = asked[k] THEN None ELSE Cleaned(i0)[t] BY <1>1, <1>2
<1>7. \A i \in Instances : i # i0 => downloads'[i] = downloads[i] BY <1>1, <1>2
<1>8. \A j \in Takers \ {k} : Served(j)' <=> Served(j) BY <1>3 DEF Served
<1>9. ~Served(k) BY <1>2 DEF Served
<1>10. \A t \in Links : Spent(t)' <=> Spent(t) \/ (Due(k) /\ asked[k] = t)
  BY <1>2, <1>3, <1>8, <1>9 DEF Spent
<1>11. \A t \in Links : Fresh(t)' <=> Fresh(t) BY <1>2 DEF Fresh
<1>12. DTypeOK'
  <2>1. [t \in Links |-> IF t = asked[k] THEN None ELSE Cleaned(i0)[t]] \in [Links -> Entries \cup {None}]
    BY <1>5
  <2>. QED BY <2>1, <1>1, <1>2, <1>3, <1>4 DEF DInv, DTypeOK
<1>13. ASSUME NEW i \in Instances, NEW t \in Links PROVE EntryIsLive(i, t)'
  <2>1. EntryIsLive(i, t) BY DEF DInv
  <2>2. CASE i = i0
    <3>1. CASE t = asked[k] BY <3>1, <2>2, <1>6 DEF EntryIsLive
    <3>2. CASE t # asked[k]
      <4>1. Spent(t)' <=> Spent(t) BY <3>2, <1>10
      <4>. QED BY <4>1, <3>2, <2>1, <2>2, <1>1, <1>2, <1>6, CleanedFacts DEF EntryIsLive
    <3>. QED BY <3>1, <3>2
  <2>3. CASE i # i0
    <3>1. home[t] = i => ~(Due(k) /\ asked[k] = t) BY <2>3 DEF Due, i0
    <3>. QED BY <3>1, <2>1, <2>3, <1>2, <1>7, <1>10 DEF EntryIsLive
  <2>. QED BY <2>2, <2>3
<1>14. ASSUME NEW t \in Links PROVE GoneForGood(t)'
  <2>1. GoneForGood(t) /\ home[t] \in Instances /\ issued[t] \in Nat BY <1>1 DEF DInv
  <2>2. CASE home[t] # i0 BY <2>1, <2>2, <1>2, <1>7, <1>10, <1>11 DEF GoneForGood
  <2>3. CASE home[t] = i0 /\ t # asked[k]
    <3>1. Cleaned(i0)[t] # None <=> downloads[i0][t] # None /\ now =< issued[t] + TTL BY <1>1, CleanedFacts
    <3>. QED BY <2>1, <2>3, <3>1, <1>1, <1>2, <1>6, <1>10, <1>11 DEF GoneForGood, Fresh
  <2>4. CASE home[t] = i0 /\ t = asked[k]
    <3>1. Due(k) \/ ~Fresh(t) \/ Spent(t) BY <2>4 DEF Due, i0
    <3>. QED BY <2>4, <3>1, <1>10, <1>11 DEF GoneForGood
  <2>. QED BY <2>2, <2>3, <2>4
<1>15. \A j \in Takers : AskedIsOpen(j)'
  <2>1. \A j \in Takers : AskedIsOpen(j) BY DEF DInv
  <2>2. AskedIsOpen(k)' BY <2>1, <1>2, <1>3 DEF AskedIsOpen, Served
  <2>3. \A j \in Takers \ {k} : AskedIsOpen(j)' BY <2>1, <1>2, <1>3 DEF AskedIsOpen, Served
  <2>. QED BY <2>2, <2>3
<1>16. ServedOnce'
  <2>1. \A j \in Takers : Served(j)' => got'[j] = asked'[j] BY <1>2, <1>3, <1>8 DEF DInv, ServedOnce
  <2>2. ASSUME NEW j \in Takers \ {k}, Served(k)', Served(j)' PROVE asked'[j] # asked'[k]
    <3>1. Served(j) /\ asked[j] = asked'[j] /\ asked[k] = asked'[k] BY <2>2, <1>2, <1>8
    <3>2. Due(k) BY <2>2, <1>3
    <3>. QED BY <3>1, <3>2 DEF Due, Spent
  <2>3. \A j1, j2 \in Takers \ {k} : Served(j1)' /\ Served(j2)' /\ asked'[j1] = asked'[j2] => j1 = j2
    BY <1>2, <1>8 DEF DInv, ServedOnce
  <2>. QED BY <2>1, <2>2, <2>3 DEF ServedOnce
<1>. QED BY <1>12, <1>13, <1>14, <1>15, <1>16 DEF DInv

LEMMA TickDInv == ASSUME DInv, Tick PROVE DInv'
<1>1. now \in Nat /\ now' = now + 1 /\ UNCHANGED <<instance, home, link, downloads, take, asked, got, issued>>
  BY DEF DInv, DTypeOK, Tick
<1>2. \A t \in Links : Spent(t)' <=> Spent(t) BY <1>1 DEF Spent, Served
<1>3. \A t \in Links : Fresh(t)' => Fresh(t) BY <1>1 DEF DInv, DTypeOK, Fresh
<1>4. DTypeOK' BY <1>1 DEF DInv, DTypeOK
<1>5. \A i \in Instances, t \in Links : EntryIsLive(i, t)' BY <1>1, <1>2 DEF DInv, EntryIsLive
<1>6. \A t \in Links : GoneForGood(t)' BY <1>1, <1>2, <1>3 DEF DInv, GoneForGood
<1>7. \A k \in Takers : AskedIsOpen(k)' BY <1>1 DEF DInv, AskedIsOpen, Served
<1>8. ServedOnce' BY <1>1 DEF DInv, ServedOnce, Served
<1>. QED BY <1>4, <1>5, <1>6, <1>7, <1>8 DEF DInv

(* A step that changes neither the store nor what was asked of it. *)
LEMMA StillDInv ==
  ASSUME DInv, instance' \in Instances, UNCHANGED <<now, home, link, downloads, take, asked, got, issued>>
  PROVE  DInv'
<1>1. DTypeOK' BY DEF DInv, DTypeOK
<1>2. \A t \in Links : (Spent(t)' <=> Spent(t)) /\ (Fresh(t)' <=> Fresh(t)) BY DEF Spent, Served, Fresh
<1>3. \A i \in Instances, t \in Links : EntryIsLive(i, t)' BY <1>2 DEF DInv, EntryIsLive
<1>4. \A t \in Links : GoneForGood(t)' BY <1>2 DEF DInv, GoneForGood
<1>5. \A k \in Takers : AskedIsOpen(k)' BY DEF DInv, AskedIsOpen, Served
<1>6. ServedOnce' BY DEF DInv, ServedOnce, Served
<1>. QED BY <1>1, <1>3, <1>4, <1>5, <1>6 DEF DInv

LEMMA NextDInv == ASSUME DInv, [DNext]_dvars PROVE DInv'
<1>0. home \in [Links \cup Takers -> Instances] /\ instance \in Instances BY DEF DInv, DTypeOK
<1>1. ASSUME NEW g \in Links, Begin(g) PROVE DInv'
  BY <1>0, <1>1, LinkStepDInv DEF Begin, Goto
<1>2. ASSUME NEW g \in Links, Generated(g) \/ GenerationFails(g) \/ TokenFails(g) PROVE DInv'
  <2>1. home' = [home EXCEPT ![g] = home[g]] /\ home[g] \in Instances
    BY <1>0, <1>2 DEF Generated, GenerationFails, TokenFails
  <2>. QED BY <2>1, <1>2, LinkStepDInv DEF Generated, GenerationFails, TokenFails, Goto
<1>3. ASSUME Replace PROVE DInv'
  <2>1. instance' \in Instances BY <1>0, <1>3 DEF Replace, Instances
  <2>. QED BY <2>1, <1>3, StillDInv DEF Replace
<1>4. ASSUME UNCHANGED dvars PROVE DInv'
  <2>1. instance' \in Instances BY <1>0, <1>4 DEF dvars
  <2>. QED BY <2>1, <1>4, StillDInv DEF dvars
<1>. QED
  BY <1>1, <1>2, <1>3, <1>4, StoreDInv, AskDInv, TakeDInv, TickDInv
  DEF DNext, StoreStep, TakeStep, WorldStep, LinkStep

THEOREM AlwaysDInv == DSpec => []DInv
BY InitDInv, NextDInv, PTL DEF DSpec

(* Every variable keeps its type: the handlers' places, the stores of all    *)
(* instances, the tokens asked for and what was sent.                        *)
THEOREM TypeCorrect == DSpec => []DTypeOK
<1>1. DInv => DTypeOK BY DEF DInv
<1>. QED BY <1>1, AlwaysDInv, PTL

(* takeExcelReportDownload hands a workbook out once, and only the one the   *)
(* token was made for.                                                       *)
THEOREM EachServedOnce == DSpec => []ServedOnce
<1>1. DInv => ServedOnce BY DEF DInv
<1>. QED BY <1>1, AlwaysDInv, PTL

(* takeExcelReportDownload serves a request exactly when its token was made  *)
(* by this instance, has not expired and is not spent: the clean-up under    *)
(* the same lock takes no entry too early and leaves none too long.          *)
THEOREM EveryTakeExact == DSpec => TakesAreExact
<1>1. ASSUME DInv, [DNext]_dvars, NEW k \in Takers, take[k] = "asked", take'[k] # "asked"
      PROVE  Served(k)' <=> Due(k)
  <2>1. take \in [Takers -> {"idle", "asked", "served", "refused"}] BY <1>1 DEF DInv, DTypeOK
  <2>2. ASSUME NEW j \in Takers, NEW t \in Links \cup {None}, Ask(j, t) PROVE FALSE
    BY <2>2, <2>1, <1>1 DEF Ask
  <2>3. ASSUME NEW j \in Takers, TakeExcelReportDownload(j) PROVE j = k
    BY <2>3, <1>1, TakeFacts
  <2>4. PICK j \in Takers : TakeExcelReportDownload(j)
    BY <2>2, <1>1 DEF DNext, StoreStep, TakeStep, WorldStep, LinkStep, StoreExcelReportDownload, TokenFails,
       Tick, Replace, Begin, Generated, GenerationFails, dvars
  <2>. QED BY <2>3, <2>4, <1>1, TakeFacts
<1>2. DInv /\ [DNext]_dvars =>
        [\A k \in Takers : take[k] = "asked" /\ take'[k] # "asked" => (Served(k)' <=> Due(k))]_dvars
  BY <1>1
<1>. QED BY <1>2, AlwaysDInv, PTL DEF DSpec, TakesAreExact
===============================================================================
