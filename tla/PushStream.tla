------------------------------- MODULE PushStream -------------------------------
(* The kdb+ push streams of the plugin (src/pkg/plugin/kdbStream.go) and the   *)
(* registrations of the q helper they feed on (src/q/asyncq_grafana.q), for    *)
(* one stream ID, which is stable: every run of the stream uses the same one.  *)
(*                                                                             *)
(* A run is one call of RunStream: a dial, a start call, and a loop that reads *)
(* what kdb+ pushes and sends it to the page. A goroutine watches its context, *)
(* stops the stream over a connection of its own and closes the run's. q keeps *)
(* one registration for the ID, the handle to push to, and a handle of q names *)
(* whichever connection has it now. A stop names the ID, not the run.          *)
EXTENDS Naturals, Sequences

CONSTANTS
  MaxRuns,    \* bound: runs of the stream
  Handles,    \* bound: the handles kdb+ gives to connections, and gives again
  Payloads,   \* what is published: sequences of frames [key, schema, rows]
  MaxPubs,    \* bound: publications
  MaxBreaks,  \* bound: connections the network breaks
  Pool,       \* a connection of the sync pool
  None

Runs == 1..MaxRuns

ASSUME StreamAssumption ==
  /\ MaxRuns \in Nat
  /\ Pool \notin Runs
  /\ None \notin Handles /\ None \notin Runs /\ None # Pool /\ None \notin [run : Runs, handle : Handles]

VARIABLES
  pc,       \* where the code of each run is
  ctx,      \* each run's context: "none" before it begins, "live", "ended"
  watcher,  \* its watching goroutine
  link,     \* its connection, seen from the plugin
  handle,   \* the handle kdb+ gave that connection
  inbox,    \* the messages of kdb+ it has not read yet
  hand,     \* the frames of the message in hand it has still to send
  owner,    \* kdb+: who has each handle: None, a run, or a connection of the sync pool
  asked,    \* kdb+: the runs whose start call it has yet to process
  reg,      \* kdb+: the registration of the ID
  pubs,     \* kdb+: publications so far
  wire,     \* the frames sent to the page and not yet arrived
  breaks,   \* the breaks so far
  left,     \* history: runs that ended, or lost their connection, without an answered stop
  late,     \* history: the earlier runs that had yet to end when each run began
  robbed    \* history: runs whose registration such an earlier run's stop or start took

runVars == <<pc, ctx, watcher, link, inbox, hand>>
kdbVars == <<handle, owner, asked, reg, pubs>>
seenVars == <<left, late, robbed>>
streamVars == <<runVars, kdbVars, seenVars, wire, breaks>>

StreamInit ==
  /\ pc = [r \in Runs |-> "idle"]
  /\ ctx = [r \in Runs |-> "none"]
  /\ watcher = [r \in Runs |-> "none"]
  /\ link = [r \in Runs |-> "none"]
  /\ handle = [r \in Runs |-> None]
  /\ inbox = [r \in Runs |-> <<>>]
  /\ hand = [r \in Runs |-> <<>>]
  /\ owner = [h \in Handles |-> None]
  /\ asked = {}
  /\ reg = None
  /\ pubs = 0
  /\ wire = <<>>
  /\ breaks = 0
  /\ left = {}
  /\ late = [r \in Runs |-> {}]
  /\ robbed = {}

-----------------------------------------------------------------------------
(* What the code shares. *)

(* A message of kdb+: an answer to start ("reply", "fail") or something pushed *)
(* for the run that is registered.                                             *)
Message(kind, r, frames) == [kind |-> kind, run |-> r, frames |-> frames]
Terminal == {"done", "error"}

(* A frame for the page: a status, or rows. *)
StatusFrame(state) == [state |-> state, frame |-> None]
DataFrame(frame) == [state |-> "data", frame |-> frame]

Goes(r, place) == pc' = [pc EXCEPT ![r] = place]
Leaves(r) == left' = left \cup {r}

(* Sending succeeds only while the page's side of the stream is there. *)
Sends(r, frame) == ctx[r] = "live" /\ wire' = Append(wire, frame)
TriesToSend(r, frame) == Sends(r, frame) \/ UNCHANGED wire

(* Mutant: the watcher of a run that returned is not told. *)
ReturnsUntold(r) ==
  /\ Goes(r, "ended")
  /\ UNCHANGED watcher
  /\ link' = [link EXCEPT ![r] = "closed"]
  /\ inbox' = [inbox EXCEPT ![r] = <<>>]
  /\ hand' = [hand EXCEPT ![r] = <<>>]

(* The deferred calls of a return: the watcher that waits is told, the connection closed. *)
Returns(r) ==
  /\ Goes(r, "ended")
  /\ watcher' = [watcher EXCEPT ![r] = IF @ = "waiting" THEN "gone" ELSE @]
  /\ link' = [link EXCEPT ![r] = "closed"]
  /\ inbox' = [inbox EXCEPT ![r] = <<>>]
  /\ hand' = [hand EXCEPT ![r] = <<>>]

(* Run r's start or stop takes the registration of a later run. *)
RobsLater(r) ==
  robbed' = IF reg # None /\ reg.run # r /\ r \in late[reg.run]
              THEN robbed \cup {reg.run} ELSE robbed

(* stopKdbStream, for run r: kdb+ removes the registration of the ID, whoever *)
(* it is for, or the call fails.  One that kdb+ leaves without an answer is a *)
(* step not taken: it has no timeout, and its caller stays where it is.       *)
StopsStream(r) ==
  \/ /\ reg' = None
     /\ RobsLater(r)
     /\ UNCHANGED left
  \/ Leaves(r) /\ UNCHANGED <<reg, robbed>>

-----------------------------------------------------------------------------
(* The code of a run: runKdbPushStream. *)

(* Grafana runs the stream when no earlier run of it is wanted any more; the *)
(* request may not be one that can be decoded and prepared.                  *)
Begin(r) ==
  /\ pc[r] = "idle"
  /\ \A e \in 1..(r - 1) : pc[e] = "ended" \/ ctx[e] = "ended"
  /\ \/ Goes(r, "dial")
     \/ Goes(r, "ended")
  /\ ctx' = [ctx EXCEPT ![r] = "live"]
  /\ late' = [late EXCEPT ![r] =
                            {e \in 1..(r - 1) : pc[e] # "ended" \/ e \in asked \/ watcher[e] \in {"spawned", "stopping"}}]
  /\ UNCHANGED <<watcher, link, inbox, hand, kdbVars, left, robbed, wire, breaks>>

(* The connection is made, and the start call sent on it. *)
Dial(r) ==
  /\ pc[r] = "dial"
  /\ \E h \in Handles :
       /\ owner[h] = None
       /\ owner' = [owner EXCEPT ![h] = r]
       /\ handle' = [handle EXCEPT ![r] = h]
  /\ link' = [link EXCEPT ![r] = "open"]
  /\ asked' = asked \cup {r}
  /\ Goes(r, "start")
  /\ UNCHANGED <<ctx, watcher, inbox, hand, reg, pubs, seenVars, wire, breaks>>

DialFails(r) ==
  /\ pc[r] = "dial"
  /\ Goes(r, "ended")
  /\ UNCHANGED <<ctx, watcher, link, inbox, hand, kdbVars, seenVars, wire, breaks>>

(* The first message read is taken for the answer, whatever it is. *)
Started(r) ==
  /\ pc[r] = "start"
  /\ inbox[r] # <<>>
  /\ IF Head(inbox[r]).kind = "fail"
       THEN Returns(r) /\ UNCHANGED left
       ELSE /\ Goes(r, "started")
            /\ inbox' = [inbox EXCEPT ![r] = Tail(@)]
            /\ left' = IF Head(inbox[r]).kind = "reply" THEN left ELSE left \cup {r}
            /\ UNCHANGED <<watcher, link, hand>>
  /\ UNCHANGED <<ctx, kdbVars, late, robbed, wire, breaks>>

StartFails(r) ==
  /\ pc[r] = "start"
  /\ link[r] # "open" /\ inbox[r] = <<>>
  /\ Returns(r)
  /\ UNCHANGED <<ctx, kdbVars, seenVars, wire, breaks>>

SendStarted(r) ==
  /\ pc[r] = "started"
  /\ \/ /\ Sends(r, StatusFrame("running"))
        /\ Goes(r, "check")
        /\ watcher' = [watcher EXCEPT ![r] = "spawned"]
        /\ UNCHANGED <<link, inbox, hand, left>>
     \/ Returns(r) /\ Leaves(r) /\ UNCHANGED wire
  /\ UNCHANGED <<ctx, kdbVars, late, robbed, breaks>>

(* The head of the loop. *)
CheckContext(r) ==
  /\ pc[r] = "check"
  /\ Goes(r, IF ctx[r] = "ended" THEN "stop" ELSE "read")
  /\ UNCHANGED <<ctx, watcher, link, inbox, hand, kdbVars, seenVars, wire, breaks>>

StopAndReturn(r) ==
  /\ pc[r] = "stop"
  /\ StopsStream(r)
  /\ Returns(r)
  /\ UNCHANGED <<ctx, handle, owner, asked, pubs, late, wire, breaks>>

ReadFails(r) ==
  /\ pc[r] = "read"
  /\ link[r] = "closed" \/ (link[r] = "broken" /\ inbox[r] = <<>>)
  /\ IF ctx[r] = "ended"
       THEN Returns(r)
       ELSE Goes(r, "stop") /\ UNCHANGED <<watcher, link, inbox, hand>>
  /\ UNCHANGED <<ctx, kdbVars, seenVars, wire, breaks>>

ReadMessage(r) ==
  /\ pc[r] = "read"
  /\ link[r] # "closed" /\ inbox[r] # <<>>
  /\ LET m == Head(inbox[r])
         Next1 == inbox' = [inbox EXCEPT ![r] = Tail(@)]
     IN \/ /\ m.kind \in Terminal
           /\ TriesToSend(r, StatusFrame(m.kind))
           /\ Returns(r)
           /\ left' = IF m.run = r THEN left ELSE left \cup {r}
        \/ /\ m.kind \in {"reply", "fail"}
           /\ Next1
           /\ Sends(r, StatusFrame("running"))
           /\ Goes(r, "check")
           /\ UNCHANGED <<watcher, link, hand, left>>
        \/ /\ m.kind \in {"reply", "fail"}
           /\ Returns(r) /\ Leaves(r) /\ UNCHANGED wire
        \/ /\ m.kind = "bad"
           /\ TriesToSend(r, StatusFrame("error"))
           /\ Returns(r) /\ Leaves(r)
        \/ /\ m.kind = "data"
           /\ Next1
           /\ hand' = [hand EXCEPT ![r] = m.frames]
           /\ Goes(r, "data")
           /\ UNCHANGED <<watcher, link, left, wire>>
  /\ UNCHANGED <<ctx, kdbVars, late, robbed, breaks>>

SendData(r) ==
  /\ pc[r] = "data"
  /\ hand[r] # <<>>
  /\ \/ /\ Sends(r, DataFrame(Head(hand[r])))
        /\ hand' = [hand EXCEPT ![r] = Tail(@)]
        /\ UNCHANGED <<pc, watcher, link, inbox, left>>
     \/ Returns(r) /\ Leaves(r) /\ UNCHANGED wire
  /\ UNCHANGED <<ctx, kdbVars, late, robbed, breaks>>

AllSent(r) ==
  /\ pc[r] = "data"
  /\ hand[r] = <<>>
  /\ Goes(r, "check")
  /\ UNCHANGED <<ctx, watcher, link, inbox, hand, kdbVars, seenVars, wire, breaks>>

RunStep(r) ==
  \/ Dial(r) \/ DialFails(r) \/ Started(r) \/ StartFails(r) \/ SendStarted(r)
  \/ CheckContext(r) \/ StopAndReturn(r)
  \/ ReadFails(r) \/ ReadMessage(r) \/ SendData(r) \/ AllSent(r)

-----------------------------------------------------------------------------
(* The watching goroutine. *)

(* Its select: once it waits, the first event takes it (see CtxEnds, Returns); *)
(* before, it finds what has happened by then, in either order.                *)
WatcherLooks(r) ==
  /\ watcher[r] = "spawned"
  /\ \/ ctx[r] = "ended" /\ watcher' = [watcher EXCEPT ![r] = "stopping"]
     \/ pc[r] = "ended" /\ watcher' = [watcher EXCEPT ![r] = "gone"]
     \/ ctx[r] = "live" /\ pc[r] # "ended" /\ watcher' = [watcher EXCEPT ![r] = "waiting"]
  /\ UNCHANGED <<pc, ctx, link, inbox, hand, kdbVars, seenVars, wire, breaks>>

(* Mutant: the watcher closes the connection without a stop. *)
WatcherStopsNothing(r) ==
  /\ watcher[r] = "stopping"
  /\ watcher' = [watcher EXCEPT ![r] = "closing"]
  /\ UNCHANGED <<pc, ctx, link, inbox, hand, kdbVars, seenVars, wire, breaks>>

WatcherStops(r) ==
  /\ watcher[r] = "stopping"
  /\ StopsStream(r)
  /\ watcher' = [watcher EXCEPT ![r] = "closing"]
  /\ UNCHANGED <<pc, ctx, link, inbox, hand, handle, owner, asked, pubs, late, wire, breaks>>

(* Mutant: it stops the stream and leaves the connection to the run. *)
WatcherClosesNothing(r) ==
  /\ watcher[r] = "closing"
  /\ watcher' = [watcher EXCEPT ![r] = "gone"]
  /\ UNCHANGED <<pc, ctx, link, inbox, hand, kdbVars, seenVars, wire, breaks>>

(* Closing the connection makes the run's read fail. *)
WatcherCloses(r) ==
  /\ watcher[r] = "closing"
  /\ watcher' = [watcher EXCEPT ![r] = "gone"]
  /\ link' = [link EXCEPT ![r] = "closed"]
  /\ inbox' = [inbox EXCEPT ![r] = <<>>]
  /\ UNCHANGED <<pc, ctx, hand, kdbVars, seenVars, wire, breaks>>

WatcherStep(r) == WatcherLooks(r) \/ WatcherStops(r) \/ WatcherCloses(r)

(* The stream is wanted no more. *)
CtxEnds(r) ==
  /\ ctx[r] = "live"
  /\ ctx' = [ctx EXCEPT ![r] = "ended"]
  /\ watcher' = [watcher EXCEPT ![r] = IF @ = "waiting" THEN "stopping" ELSE @]
  /\ UNCHANGED <<pc, link, inbox, hand, kdbVars, seenVars, wire, breaks>>

-----------------------------------------------------------------------------
(* kdb+ with the helper loaded. *)

(* What kdb+ writes to a handle reaches the connection that has it now. *)
Push(h, m) ==
  inbox' = IF owner[h] \in Runs /\ link[owner[h]] = "open"
             THEN [inbox EXCEPT ![owner[h]] = Append(@, m)] ELSE inbox

(* stream.start, of a request that may not be one the helper takes. *)
StreamStart(r) ==
  /\ r \in asked
  /\ asked' = asked \ {r}
  /\ \/ /\ reg' = [run |-> r, handle |-> handle[r]]
        /\ RobsLater(r)
        /\ Push(handle[r], Message("reply", r, <<>>))
     \/ /\ UNCHANGED <<reg, robbed>>
        /\ Push(handle[r], Message("fail", r, <<>>))
  /\ UNCHANGED <<pc, ctx, watcher, link, hand, handle, owner, pubs, left, late, wire, breaks>>

(* The rows of a publication, with its number and their place in it. *)
Stamped(payload, n) ==
  [k \in DOMAIN payload |->
     [payload[k] EXCEPT !.rows = [i \in DOMAIN @ |-> [pub |-> n, i |-> i, time |-> @[i]]]]]

(* stream.publish of a table, or of something the plugin cannot parse. *)
Publish ==
  /\ reg # None
  /\ pubs < MaxPubs
  /\ pubs' = pubs + 1
  /\ \/ \E payload \in Payloads :
          Push(reg.handle, Message("data", reg.run, Stamped(payload, pubs')))
     \/ Push(reg.handle, Message("bad", reg.run, <<>>))
  /\ UNCHANGED <<pc, ctx, watcher, link, hand, handle, owner, asked, reg, seenVars, wire, breaks>>

(* stream.done and stream.error; a handle of no connection is an error before the stop. *)
StreamEnd ==
  /\ reg # None
  /\ owner[reg.handle] # None
  /\ \E kind \in Terminal : Push(reg.handle, Message(kind, reg.run, <<>>))
  /\ reg' = None
  /\ UNCHANGED <<pc, ctx, watcher, link, hand, handle, owner, asked, pubs, seenVars, wire, breaks>>

(* kdb+ finds a connection closed when it has processed what arrived on it; *)
(* the helper does not look.                                                *)
HandleCloses(h) ==
  /\ owner[h] \in Runs
  /\ owner[h] \notin asked
  /\ link[owner[h]] # "open"
  /\ owner' = [owner EXCEPT ![h] = None]
  /\ UNCHANGED <<runVars, handle, asked, reg, pubs, seenVars, wire, breaks>>

(* A connection of the sync pool takes a handle, or gives it back. *)
PoolConnection(h) ==
  /\ owner[h] \in {None, Pool}
  /\ owner' = [owner EXCEPT ![h] = IF @ = None THEN Pool ELSE None]
  /\ UNCHANGED <<runVars, handle, asked, reg, pubs, seenVars, wire, breaks>>

(* The network breaks a connection: the start call on it may be lost, and the *)
(* last of the messages.                                                      *)
Break(r) ==
  /\ link[r] = "open"
  /\ breaks < MaxBreaks
  /\ breaks' = breaks + 1
  /\ link' = [link EXCEPT ![r] = "broken"]
  /\ \E n \in 0..Len(inbox[r]) : inbox' = [inbox EXCEPT ![r] = SubSeq(@, 1, n)]
  /\ asked' \in {asked, asked \ {r}}
  /\ Leaves(r)
  /\ UNCHANGED <<pc, ctx, watcher, hand, handle, owner, reg, pubs, late, robbed, wire>>

-----------------------------------------------------------------------------
StreamStep ==
  \/ \E r \in Runs : Begin(r) \/ RunStep(r) \/ WatcherStep(r) \/ CtxEnds(r) \/ StreamStart(r) \/ Break(r)
  \/ \E h \in Handles : HandleCloses(h) \/ PoolConnection(h)
  \/ Publish \/ StreamEnd

(* A frame leaves for the page. *)
Forward ==
  /\ wire # <<>>
  /\ wire' = Tail(wire)
  /\ UNCHANGED <<runVars, kdbVars, seenVars, breaks>>

StreamNext == StreamStep \/ Forward

(* The goroutines are scheduled, a call to kdb+ is answered or fails. *)
StreamFairness ==
  \A r \in Runs : WF_streamVars(RunStep(r)) /\ WF_streamVars(WatcherStep(r)) /\ WF_streamVars(StreamStart(r))

-----------------------------------------------------------------------------
(* The places of runs and watchers, and what goes with them: a watcher exists *)
(* once the start status was sent, frames in hand only where they are sent, a *)
(* connection is gone once the run has ended.                                 *)
StreamTypeOK ==
  /\ pc \in [Runs -> {"idle", "dial", "start", "started", "check", "read", "data", "stop", "ended"}]
  /\ ctx \in [Runs -> {"none", "live", "ended"}]
  /\ watcher \in [Runs -> {"none", "spawned", "waiting", "stopping", "closing", "gone"}]
  /\ link \in [Runs -> {"none", "open", "broken", "closed"}]
  /\ handle \in [Runs -> Handles \cup {None}]
  /\ owner \in [Handles -> Runs \cup {None, Pool}]
  /\ asked \subseteq Runs
  /\ reg \in [run : Runs, handle : Handles] \cup {None}
  /\ pubs \in Nat /\ breaks \in Nat
  /\ left \subseteq Runs /\ robbed \subseteq Runs
  /\ late \in [Runs -> SUBSET Runs]
  /\ \A r \in Runs :
       /\ pc[r] = "idle" <=> ctx[r] = "none"
       /\ pc[r] \in {"check", "read", "data", "stop"} => watcher[r] # "none"
       /\ pc[r] = "ended" => link[r] \in {"none", "closed"}
       /\ hand[r] # <<>> => pc[r] = "data"

(* What kdb+ pushes for a stream goes to the run that asked for it, never to  *)
(* another connection that was given the same handle: the registration of a   *)
(* run whose connection kdb+ has closed is gone, unless the run is one of     *)
(* those that end without an answered stop (a send that fails, a payload that *)
(* does not parse, a broken connection, a stop that fails).                   *)
PushesOnlyToOwner ==
  reg # None => owner[reg.handle] = reg.run \/ reg.run \in left

(* A run that is wanted and waits on a connection that works is registered,   *)
(* so what is published reaches it: no start or stop but its own takes the    *)
(* registration, except one of an earlier run that had not finished ending    *)
(* when it began, which kdbStream.go:498 and :516 allow because they name the *)
(* stream and not the run.                                                    *)
LiveRunRegistered ==
  \A r \in Runs :
    (/\ pc[r] \in {"started", "check", "read", "data"}
     /\ ctx[r] = "live"
     /\ link[r] = "open"
     /\ r \notin left
     /\ \A k \in DOMAIN inbox[r] : inbox[r][k].kind \notin Terminal)
    => (reg # None /\ reg.run = r) \/ r \in robbed

(* A run whose context ended ends, and its watcher with it, wherever the end *)
(* found it: waiting for kdb+ to push, in a send, in the start call.         *)
CancelledRunsEnd ==
  \A r \in Runs : ctx[r] = "ended" ~> pc[r] = "ended" /\ watcher[r] \in {"none", "gone"}
=============================================================================
