----------------------------- MODULE ExcelDownloads -----------------------------
(***************************************************************************)
(* One-time download links (excelReport.go): report/generate-link generates  *)
(* a workbook and keeps it under a token for five minutes, report/download   *)
(* takes it.  The workbooks are kept by the instance of the datasource that  *)
(* served the request; when its settings are saved Grafana makes a new one,  *)
(* while requests under way go on with the old one.                          *)
(*                                                                           *)
(* A token is 16 random bytes: it is named by the request that made it, and  *)
(* so is the workbook.  How a workbook is generated is ExcelReport's matter. *)
(***************************************************************************)
EXTENDS Naturals

CONSTANTS
  Links,         \* the requests of report/generate-link and report/generate
  Takers,        \* the requests of report/download
  TTL,           \* excelReportDownloadTTL
  Horizon,       \* bound: the last time the clock shows
  MaxInstances,  \* bound: how many instances of the datasource there are
  None           \* no token, no workbook

ASSUME LinksAssumption == None \notin Links
ASSUME TakersAssumption == Links \cap Takers = {}
ASSUME TimeAssumption == TTL \in Nat /\ Horizon \in Nat
ASSUME InstancesAssumption == MaxInstances \in Nat \ {0}

Entries == [report : Links, expires : Nat]   \* excelReportDownload

ASSUME EntriesAssumption == None \notin Entries

VARIABLES
  now,        \* the clock
  instance,   \* the instance that serves requests which come now
  home,       \* home[r]: the instance that serves, or served, request r
  link,       \* link[g]: where the handler of g stands, or how it ended
  downloads,  \* downloads[i][t]: excelDownloads[t] of instance i, or None
  take,       \* take[k]: where the handler of k stands, or how it ended
  asked,      \* asked[k]: the token k asks for
  got,        \* got[k]: the workbook k was sent
  issued      \* history: when the token of g was stored

dvars == <<now, instance, home, link, downloads, take, asked, got, issued>>

Instances == 1..MaxInstances

DInit ==
  /\ now = 0
  /\ instance = 1
  /\ home = [r \in Links \cup Takers |-> 1]
  /\ link = [g \in Links |-> "idle"]
  /\ downloads = [i \in Instances |-> [t \in Links |-> None]]
  /\ take = [k \in Takers |-> "idle"]
  /\ asked = [k \in Takers |-> None]
  /\ got = [k \in Takers |-> None]
  /\ issued = [g \in Links |-> 0]

Goto(g, from, to) ==
  /\ link[g] = from
  /\ link' = [link EXCEPT ![g] = to]

Begin(g) ==
  /\ Goto(g, "idle", "generating")
  /\ home' = [home EXCEPT ![g] = instance]
  /\ UNCHANGED <<now, instance, downloads, take, asked, got, issued>>

(* A workbook made is stored under a token, or sent at once (report/generate). *)
Generated(g) ==
  /\ \E to \in {"store", "sent"} : Goto(g, "generating", to)
  /\ UNCHANGED <<now, instance, home, downloads, take, asked, got, issued>>

GenerationFails(g) ==
  /\ Goto(g, "generating", "failed")
  /\ UNCHANGED <<now, instance, home, downloads, take, asked, got, issued>>

TokenFails(g) ==
  /\ Goto(g, "store", "failed")
  /\ UNCHANGED <<now, instance, home, downloads, take, asked, got, issued>>

(* Bug: an entry expires at its time, not after it. *)
ExpiredEarly(entry) == entry # None /\ now >= entry.expires

Expired(entry) == entry # None /\ now > entry.expires

(* cleanupExpiredExcelReportDownloadsLocked *)
Cleaned(i) == [t \in Links |-> IF Expired(downloads[i][t]) THEN None ELSE downloads[i][t]]

StoreExcelReportDownload(g) ==
  /\ Goto(g, "store", "open")
  /\ downloads' = [downloads EXCEPT ![home[g]] =
                     [Cleaned(home[g]) EXCEPT ![g] = [report |-> g, expires |-> now + TTL]]]
  /\ issued' = [issued EXCEPT ![g] = now]
  /\ UNCHANGED <<now, instance, home, take, asked, got>>

(* A client asks for the token of a link it was sent, or for one that never  *)
(* was; it may ask again and again.                                          *)
Ask(k, t) ==
  /\ take[k] = "idle"
  /\ t # None => link[t] = "open"
  /\ take' = [take EXCEPT ![k] = "asked"]
  /\ asked' = [asked EXCEPT ![k] = t]
  /\ home' = [home EXCEPT ![k] = instance]
  /\ UNCHANGED <<now, instance, link, downloads, got, issued>>

(* What excelDownloads[asked[k]] holds once the expired entries are gone. *)
Held(k) == IF asked[k] = None THEN None ELSE Cleaned(home[k])[asked[k]]

Serve(k) ==
  /\ Held(k) # None
  /\ take' = [take EXCEPT ![k] = "served"]
  /\ got' = [got EXCEPT ![k] = Held(k).report]

Refuse(k) ==
  /\ Held(k) = None
  /\ take' = [take EXCEPT ![k] = "refused"]
  /\ UNCHANGED got

(* Bug: the entry is not deleted. *)
TakeKeeping(k) ==
  /\ take[k] = "asked"
  /\ Serve(k) \/ Refuse(k)
  /\ downloads' = [downloads EXCEPT ![home[k]] = Cleaned(home[k])]
  /\ UNCHANGED <<now, instance, home, link, asked, issued>>

TakeExcelReportDownload(k) ==
  /\ take[k] = "asked"
  /\ Serve(k) \/ Refuse(k)
  /\ downloads' = [downloads EXCEPT ![home[k]] =
                     [t \in Links |-> IF t = asked[k] THEN None ELSE Cleaned(home[k])[t]]]
  /\ UNCHANGED <<now, instance, home, link, asked, issued>>

Tick ==
  /\ now < Horizon
  /\ now' = now + 1
  /\ UNCHANGED <<instance, home, link, downloads, take, asked, got, issued>>

(* Grafana replaces the instance when the settings are saved. *)
Replace ==
  /\ instance < MaxInstances
  /\ instance' = instance + 1
  /\ UNCHANGED <<now, home, link, downloads, take, asked, got, issued>>

StoreStep == \E g \in Links : StoreExcelReportDownload(g) \/ TokenFails(g)
TakeStep == \E k \in Takers : TakeExcelReportDownload(k) \/ \E t \in Links \cup {None} : Ask(k, t)
WorldStep == Tick \/ Replace
LinkStep(g) == Begin(g) \/ Generated(g) \/ GenerationFails(g)

DNext == StoreStep \/ TakeStep \/ WorldStep \/ \E g \in Links : LinkStep(g)

DSpec == DInit /\ [][DNext]_dvars
-----------------------------------------------------------------------------
DTypeOK ==
  /\ now \in Nat
  /\ instance \in Instances
  /\ home \in [Links \cup Takers -> Instances]
  /\ link \in [Links -> {"idle", "generating", "store", "open", "sent", "failed"}]
  /\ downloads \in [Instances -> [Links -> Entries \cup {None}]]
  /\ take \in [Takers -> {"idle", "asked", "served", "refused"}]
  /\ asked \in [Takers -> Links \cup {None}]
  /\ got \in [Takers -> Links \cup {None}]
  /\ issued \in [Links -> Nat]

Served(k) == take[k] = "served"
Spent(t) == \E k \in Takers : Served(k) /\ asked[k] = t
Fresh(t) == now =< issued[t] + TTL

(* A link serves one download, and its own workbook, however many ask for it *)
(* at once.                                                                  *)
ServedOnce ==
  /\ \A k \in Takers : Served(k) => got[k] = asked[k]
  /\ \A k1, k2 \in Takers : Served(k1) /\ Served(k2) /\ asked[k1] = asked[k2] => k1 = k2

(* A download is refused only if its token never was, is spent, has expired  *)
(* or belongs to another instance of the datasource; and it is served in no  *)
(* such case.  No store, take or clean-up of others comes in between.        *)
Due(k) ==
  /\ asked[k] # None
  /\ Fresh(asked[k])
  /\ ~Spent(asked[k])
  /\ home[k] = home[asked[k]]

TakesAreExact == [][\A k \in Takers : take[k] = "asked" /\ take'[k] # "asked" => (Served(k)' <=> Due(k))]_dvars
===============================================================================
