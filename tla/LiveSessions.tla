------------------------------ MODULE LiveSessions ------------------------------
(* The page's side of a push stream (src/src/datasource.ts): one session per   *)
(* stream and retention, shared by every panel that subscribes, fed by the     *)
(* frames the runs of PushStream send, and kept for as long as the page is.    *)
EXTENDS PushStream, Integers, FiniteSets, SequencesExt

CONSTANTS
  Keys,       \* the frames of a stream: reference ID and name
  RowLimits,  \* the Max Rows settings of the panels that subscribe
  Retention   \* the retention, part of the session's key; 0 for none

(* What is published are frames: each has one of the keys, a schema and rows,  *)
(* of which only the time matters, if there is one.                           *)
ASSUME PayloadsAssumption ==
  \A payload \in Payloads :
    /\ payload \in Seq(ToSet(payload))
    /\ \A k \in DOMAIN payload : /\ DOMAIN payload[k] = {"key", "schema", "rows"}
                                  /\ payload[k].key \in Keys
                                  /\ payload[k].schema # None
                                  /\ payload[k].rows \in Seq(Int \cup {None})

(* The editor takes digits only, and 0 or nothing for Max Rows is a default;   *)
(* a time is a number, and None none.                                         *)
ASSUME RetentionAssumption ==
  /\ RowLimits \subseteq Nat \ {0}
  /\ Retention \in Nat
  /\ None \notin Int

VARIABLES
  session,  \* the session of the stream, as long as its state is not "none"
  heard,    \* history: the frames that arrived, in order, since the session exists
  limits    \* history: the Max Rows settings subscribed with

pageVars == <<session, heard, limits>>
vars == <<streamVars, pageVars>>

Empty == [schema |-> None, rows |-> <<>>]
NoSession == [frames |-> [k \in Keys |-> Empty], maxRows |-> 0, state |-> "none", source |-> "none"]

Init ==
  /\ StreamInit
  /\ session = NoSession
  /\ heard = <<>>
  /\ limits = {}

Larger(a, b) == IF a > b THEN a ELSE b

-----------------------------------------------------------------------------
(* retentionStartIndex, counting from 1: the first row that is kept. *)
StartIndex(rows, maxRows) ==
  LET byCount == Larger(1, Len(rows) - maxRows + 1)
      latest == rows[Len(rows)].time
      recent == {i \in DOMAIN rows : rows[i].time # None /\ rows[i].time + Retention >= latest}
  IN IF Retention = 0 \/ rows = <<>> THEN byCount
     ELSE IF latest = None \/ recent = {} THEN byCount
     ELSE Larger(byCount, CHOOSE i \in recent : \A k \in recent : i <= k)

(* Mutant: the rows beyond the limit are taken from the new end. *)
TrimmedAtTheEnd(rows, maxRows) == SubSeq(rows, 1, IF Len(rows) < maxRows THEN Len(rows) ELSE maxRows)

Trimmed(rows, maxRows) == SubSeq(rows, StartIndex(rows, maxRows), Len(rows))

(* appendFrame: rows of another schema replace what there is. *)
Appended(existing, incoming, maxRows) ==
  [schema |-> incoming.schema,
   rows |-> Trimmed(IF existing.schema = incoming.schema THEN existing.rows \o incoming.rows
                                                         ELSE incoming.rows, maxRows)]

(* getOrCreateStreamSession and the subscription in runLiveQuery: a session *)
(* that exists is used whatever its state, and its limit only grows.        *)
Subscribe(maxRows) ==
  /\ session' = IF session.state = "none"
                  THEN [session EXCEPT !.maxRows = maxRows, !.state = "streaming", !.source = "on"]
                  ELSE [session EXCEPT !.maxRows = Larger(@, maxRows)]
  /\ limits' = limits \cup {maxRows}
  /\ UNCHANGED <<heard, streamVars>>

(* Mutant: the source goes on after a terminal status. *)
ReceivesAndGoesOn(f) ==
  IF f.state = "data"
    THEN session' = [session EXCEPT !.state = "streaming",
                                    !.frames[f.frame.key] = Appended(@, f.frame, session.maxRows)]
    ELSE session' = [session EXCEPT !.state = IF f.state \in Terminal THEN f.state ELSE "streaming"]

(* The map over the events of the channel: a status sets the state, a terminal *)
(* one completes the source (takeWhile), rows are appended.                    *)
Receives(f) ==
  IF f.state = "data"
    THEN session' = [session EXCEPT !.state = "streaming",
                                    !.frames[f.frame.key] = Appended(@, f.frame, session.maxRows)]
    ELSE session' = [session EXCEPT !.state = IF f.state \in Terminal THEN f.state ELSE "streaming",
                                    !.source = IF f.state \in Terminal THEN "completed" ELSE @]

(* A frame arrives: nothing of the page listens once the source has completed. *)
Arrive ==
  /\ Forward
  /\ IF session.source = "on"
       THEN Receives(Head(wire))
       ELSE UNCHANGED session
  /\ heard' = Append(heard, Head(wire))
  /\ UNCHANGED limits

(* The connection of the page to Grafana was down: the frame is not sent again. *)
Lose == Forward /\ UNCHANGED pageVars

-----------------------------------------------------------------------------
(* A run begins for a page that subscribed. Nothing a panel does ends the      *)
(* subscription of the session (shareReplay without a count). A frame sent     *)
(* arrives or is lost before the next step of a run or of kdb+: frames arrive  *)
(* in order, and what the page does with one depends on nothing else there.    *)
Stream == session.state # "none" /\ wire = <<>> /\ StreamStep /\ UNCHANGED pageVars

Next == Stream \/ (\E maxRows \in RowLimits : Subscribe(maxRows)) \/ Arrive \/ Lose

Spec == Init /\ [][Next]_vars /\ StreamFairness /\ WF_vars(Arrive \/ Lose)

-----------------------------------------------------------------------------
(* A session that ended has completed: only a terminal status does either. It *)
(* exists once a panel has subscribed, and nothing is sent to a page before.  *)
TypeOK ==
  /\ StreamTypeOK
  /\ session.state \in {"none", "streaming"} \cup Terminal
  /\ session.source = "completed" <=> session.state \in Terminal
  /\ IF session.state = "none" THEN limits = {} /\ wire = <<>> /\ heard = <<>>
                               ELSE session.maxRows \in limits
  /\ \A k \in Keys : session.frames[k].schema = None => session.frames[k].rows = <<>>

(* What arrived before the first terminal status. *)
BeforeTheEnd ==
  LET ends == {i \in DOMAIN heard : heard[i].state \in Terminal}
  IN IF ends = {} THEN heard ELSE SubSeq(heard, 1, CHOOSE i \in ends : \A k \in ends : i <= k)

(* The arrivals of a frame since its schema last changed, and their rows. *)
Mine(arrived, key) == {n \in DOMAIN arrived : arrived[n].state = "data" /\ arrived[n].frame.key = key}
Since(arrived, key) ==
  {n \in Mine(arrived, key) :
     \A m \in Mine(arrived, key) : m > n => arrived[m].frame.schema = arrived[n].frame.schema}
RowsOf(arrived, key) ==
  FlattenSeq([n \in DOMAIN arrived |-> IF n \in Since(arrived, key) THEN arrived[n].frame.rows ELSE <<>>])
RowsSince(key) == RowsOf(BeforeTheEnd, key)

Ascending(rows) == \A i, k \in DOMAIN rows : i < k => rows[i].time # None /\ rows[k].time # None /\ rows[i].time <= rows[k].time

(* The page shows the latest rows, none twice, none out of order and none of  *)
(* an ended stream's successor: its rows are a tail of what arrived before the *)
(* end, no more than asked for, and trimming at every arrival has dropped      *)
(* nothing that trimming once would keep, where the limit did not change and   *)
(* times ascend. (datasource.ts:337 keeps the ended session.)                  *)
LatestRows ==
  session.state # "none" =>
    \A key \in Keys :
      LET rows == session.frames[key].rows
          since == RowsSince(key)
      IN /\ Len(rows) <= session.maxRows
         /\ IsSuffix(rows, since)
         /\ Cardinality(limits) = 1 /\ Ascending(since) => rows = Trimmed(since, session.maxRows)
         /\ since # <<>> => rows # <<>>
=============================================================================
