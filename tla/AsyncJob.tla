------------------------------- MODULE AsyncJob -------------------------------
(***************************************************************************)
(* Asynchronous execution: the runs of Grafana Live (kdbStream.go,           *)
(* kdbLegacyAsync.go) and of the resource async/run-and-wait                 *)
(* (kdbAsyncResource.go), which follow the same three protocols, against the *)
(* jobs on the kdb+ side (asyncq_grafana.q, or a gateway like it).           *)
(*                                                                           *)
(*   helper   submit a job, poll its status, fetch its result, cancel it     *)
(*   legacy   the same through functions of a gateway, in a job slot         *)
(*   plugin   one blocking call in a job slot (also deferred async)          *)
(*                                                                           *)
(* A run is one goroutine with a connection of its own and at most one call  *)
(* under way over it; a call is a further goroutine, and what it has written *)
(* may reach kdb+ long after the run has closed the connection.              *)
(***************************************************************************)
EXTENDS Naturals, Sequences, FiniteSets

CONSTANTS
  Runs,     \* the calls of RunStream and of async/run-and-wait
  MaxJobs,  \* AsyncMaxJobs, the capacity of asyncJobs
  Kinds,    \* the execution modes that occur: "helper", "legacy", "plugin"
  Vias,     \* "live" (Grafana Live), "wait" (run-and-wait)
  None

ASSUME RunsAssumption == IsFiniteSet(Runs)
ASSUME MaxJobsAssumption == MaxJobs \in Nat \ {0}
ASSUME KindsAssumption == Kinds \subseteq {"helper", "legacy", "plugin"} /\ Vias \subseteq {"live", "wait"}
ASSUME NoneAssumption == None \notin {"progress", "done", "error", "cancelled", "timeout", "gone", "panic"}

VARIABLES
  kind, via,  \* how each run executes, and for whom
  pc,         \* where each run stands
  cancelled,  \* the runs whose context was cancelled
  expired,    \* the runs whose timeout has passed
  open,       \* the runs whose connection this side has not closed
  reply,      \* reply[r]: what the goroutine of r's last call has got, "sent" while it waits
  inbox,      \* the requests <<run, function>> on their way to kdb+
  job,        \* job[r]: what kdb+ has made of r's request
  jobs,       \* the number of tokens in the channel asyncJobs
  shut,       \* Dispose has closed asyncJobs
  frames,     \* frames[r]: the control frames sent, or the status events: ends, and "progress"
  end,        \* end[r]: why the run ended, or is about to, or None
  asked       \* asked[r]: bestEffortAsyncCancel has sent its call, has failed to, or None

cvars == <<kind, via>>
kvars == <<open, reply, inbox, job>>
fvars == <<frames, end, asked>>
env == <<cancelled, expired, shut>>
vars == <<cvars, pc, kvars, jobs, fvars, env>>

Slotted(r) == kind[r] # "helper"
Live(r) == via[r] = "live"

(* jobCtx.Err() # nil, and what made it so; ctx.Err() is looked at first.    *)
Over(r) == r \in cancelled \cup expired
Cause(r) == IF r \in cancelled THEN "cancelled" ELSE IF r \in expired THEN "timeout" ELSE "error"

Init ==
  /\ kind \in [Runs -> Kinds]
  /\ via \in [Runs -> Vias]
  /\ pc = [r \in Runs |-> "start"]
  /\ cancelled = {} /\ expired = {} /\ shut = FALSE
  /\ open = {}
  /\ reply = [r \in Runs |-> None]
  /\ inbox = {}
  /\ job = [r \in Runs |-> "none"]
  /\ jobs = 0
  /\ frames = [r \in Runs |-> <<>>]
  /\ end = [r \in Runs |-> None]
  /\ asked = [r \in Runs |-> None]

Goto(r, from, to) ==
  /\ pc[r] = from
  /\ pc' = [pc EXCEPT ![r] = to]

(* sendControlFrame, or addStatus: whatever is not the end of a query counts *)
(* as progress, and progress that is repeated is logged once.                *)
Logged(log) == IF log # <<>> /\ log[Len(log)] = "progress" THEN log ELSE Append(log, "progress")
Send(r) == frames' = [frames EXCEPT ![r] = Logged(@)]

(* The terminal frame, or the end of the response (fail, complete), and the  *)
(* return that follows it.                                                   *)
Finish(r, from, state, cause, to) ==
  /\ Goto(r, from, to)
  /\ frames' = [frames EXCEPT ![r] = Append(@, state)]
  /\ end' = [end EXCEPT ![r] = cause]
  /\ UNCHANGED asked

(* An error that a live run returns without a frame. *)
ReturnError(r, from, cause) ==
  /\ Goto(r, from, "close")
  /\ end' = [end EXCEPT ![r] = cause]
  /\ UNCHANGED <<frames, asked>>

(* A status that is not the last; a live client that is gone makes the send  *)
(* fail, and the run returns.                                                *)
Report(r, from, to) ==
  \/ /\ Goto(r, from, to)
     /\ Send(r)
     /\ UNCHANGED <<end, asked>>
  \/ Live(r) /\ ReturnError(r, from, "gone")

(* A call: conn.Call in a goroutine. *)
Request(r, from, fn, to) ==
  /\ Goto(r, from, to)
  /\ reply' = [reply EXCEPT ![r] = "sent"]
  /\ inbox' = inbox \cup {<<r, fn>>}

-----------------------------------------------------------------------------
(* The query cannot be prepared, or the legacy adapter is not configured. *)
Reject(r) ==
  /\ Finish(r, "start", "error", "error", "ended")
  /\ UNCHANGED <<cvars, kvars, jobs, env>>

(* acquireAsyncSlot; a send on the channel that Dispose has closed panics.   *)
AcquireSlot(r, refused) ==
  /\ Slotted(r)
  /\ \/ /\ ~shut /\ jobs < MaxJobs
        /\ Goto(r, "start", IF kind[r] = "plugin" THEN "queued" ELSE "dial")
        /\ jobs' = jobs + 1
        /\ UNCHANGED fvars
     \/ /\ r \in cancelled \/ (~shut /\ jobs = MaxJobs)
        /\ Finish(r, "start", "error", "error", refused)
        /\ UNCHANGED jobs
     \/ /\ shut
        /\ Goto(r, "start", "ended")
        /\ end' = [end EXCEPT ![r] = "panic"]
        /\ UNCHANGED <<jobs, frames, asked>>
  /\ UNCHANGED <<cvars, kvars, env>>

(* Bug: the release is deferred before the acquisition is known to succeed. *)
AcquireDeferringFirst(r) == AcquireSlot(r, "release")

AcquireAsyncSlot(r) == AcquireSlot(r, "ended")

NoSlot(r) ==
  /\ ~Slotted(r)
  /\ Goto(r, "start", "dial")
  /\ UNCHANGED <<cvars, kvars, jobs, fvars, env>>

ReportQueued(r) ==
  /\ Report(r, "queued", "dial")
  /\ UNCHANGED <<cvars, kvars, jobs, env>>

(* Only a live helper run says nothing when it cannot connect or submit. *)
Fail(r, from, cause) ==
  \/ Live(r) /\ kind[r] = "helper" /\ ReturnError(r, from, cause)
  \/ ~(Live(r) /\ kind[r] = "helper") /\ Finish(r, from, "error", cause, "close")

(* newConnection *)
Dial(r) ==
  /\ \/ /\ Goto(r, "dial", "submit")
        /\ open' = open \cup {r}
        /\ IF kind[r] = "plugin" /\ ~Live(r) THEN Send(r) ELSE UNCHANGED frames
        /\ UNCHANGED <<end, asked>>
     \/ /\ Fail(r, "dial", "error")
        /\ UNCHANGED open
  /\ UNCHANGED <<cvars, reply, inbox, job, jobs, env>>

Submit(r) ==
  /\ \/ /\ IF kind[r] = "plugin" THEN Request(r, "submit", "query", "running")
                                 ELSE Request(r, "submit", "submit", "submitting")
        /\ UNCHANGED fvars
     \/ /\ kind[r] = "legacy"  \* the request cannot be built
        /\ Finish(r, "submit", "error", "error", "close")
        /\ UNCHANGED <<reply, inbox>>
  /\ UNCHANGED <<cvars, open, job, jobs, env>>

(* callKdbFunctionWithContext: the context wins over the answer, and closes  *)
(* the connection.                                                           *)
Abandon(r) == Over(r) /\ open' = open \ {r}

AwaitSubmit(r) ==
  /\ \/ reply[r] = "ok" /\ Report(r, "submitting", "poll") /\ UNCHANGED open
     \/ /\ reply[r] = "ok" /\ kind[r] = "legacy"  \* no job ID in the response
        /\ Finish(r, "submitting", "error", "error", "close")
        /\ UNCHANGED open
     \/ reply[r] = "failed" /\ Fail(r, "submitting", Cause(r)) /\ UNCHANGED open
     \/ Abandon(r) /\ Fail(r, "submitting", Cause(r))
  /\ UNCHANGED <<cvars, reply, inbox, job, jobs, env>>

-----------------------------------------------------------------------------
(* The poll loop of a helper or legacy run. *)
Poll(r) ==
  /\ Request(r, "poll", "status", "asking")
  /\ UNCHANGED <<cvars, open, job, jobs, fvars, env>>

(* finishContext decides between cancellation and timeout before it cancels. *)
FinishContext(r, from) ==
  /\ Over(r)
  /\ Goto(r, from, "cancel")
  /\ end' = [end EXCEPT ![r] = Cause(r)]
  /\ UNCHANGED <<frames, asked>>

GiveUp(r) ==
  /\ FinishContext(r, "poll")
  /\ UNCHANGED <<cvars, kvars, jobs, env>>

CallErrorCancelling(r, from) ==  \* Bug: every error cancels the job, as the end of the context does
  \/ FinishContext(r, from)
  \/ ~Over(r) /\ Goto(r, from, "cancel") /\ end' = [end EXCEPT ![r] = "error"] /\ UNCHANGED <<frames, asked>>

(* An error of the call, of kdb+ or of the connection, unless the context    *)
(* is over.                                                                  *)
CallError(r, from) ==
  \/ FinishContext(r, from)
  \/ ~Over(r) /\ Finish(r, from, "error", "error", "close")

(* What the resource has logged of a status before it acts upon it. *)
Told(r) == IF Live(r) THEN frames[r] ELSE Logged(frames[r])

(* What a status leads to; "error" is where it cannot be parsed as well, for  *)
(* a legacy run, or says done without there being a result.                  *)
ActOnStatus(r) ==
  \/ reply[r] = "failed" /\ CallError(r, "asking") /\ UNCHANGED <<open, reply, inbox>>
  \/ reply[r] = "running" /\ Report(r, "asking", "poll") /\ UNCHANGED <<open, reply, inbox>>
  \/ /\ \E state \in {reply[r]} \cup (IF kind[r] = "legacy" THEN {"error"} ELSE {}) :
           /\ state \in {"error", "cancelled"}
           /\ reply[r] \notin {"sent", "failed"}
           /\ frames' = [frames EXCEPT ![r] = Append(Told(r), state)]
     /\ Goto(r, "asking", "close")
     /\ end' = [end EXCEPT ![r] = "error"]
     /\ UNCHANGED <<open, reply, inbox, asked>>
  \/ /\ reply[r] = "done"
     /\ frames' = [frames EXCEPT ![r] = Told(r)]
     /\ \/ Request(r, "asking", "result", "fetching")
        \/ kind[r] = "legacy" /\ Goto(r, "asking", "data")  \* the payload came with the status
           /\ UNCHANGED <<reply, inbox>>
     /\ UNCHANGED <<open, end, asked>>

(* Bug: the call does not watch the context. *)
AwaitStatusForever(r) == ActOnStatus(r) /\ UNCHANGED <<cvars, job, jobs, env>>

AwaitStatus(r) ==
  /\ \/ Abandon(r) /\ FinishContext(r, "asking") /\ UNCHANGED <<reply, inbox>>
     \/ ActOnStatus(r)
  /\ UNCHANGED <<cvars, job, jobs, env>>

AwaitResult(r) ==
  /\ \/ Abandon(r) /\ FinishContext(r, "fetching")
     \/ reply[r] = "failed" /\ CallError(r, "fetching") /\ UNCHANGED open
     \/ reply[r] = "ok" /\ Goto(r, "fetching", "data") /\ UNCHANGED <<open, fvars>>
  /\ UNCHANGED <<cvars, reply, inbox, job, jobs, env>>

(* The select of a plugin managed run: any case that is ready may win. *)
AwaitQuery(r) ==
  /\ \/ reply[r] = "failed" /\ Finish(r, "running", "error", "error", "close") /\ UNCHANGED open
     \/ reply[r] = "ok" /\ Goto(r, "running", "data") /\ UNCHANGED <<open, fvars>>
  /\ UNCHANGED <<cvars, reply, inbox, job, jobs, env>>

StopQuery(r) ==
  /\ \/ r \in cancelled /\ Finish(r, "running", "cancelled", "cancelled", "close")
     \/ r \in expired /\ Finish(r, "running", "error", "timeout", "close")
  /\ open' = open \ {r}
  /\ UNCHANGED <<cvars, reply, inbox, job, jobs, env>>

Running(r) ==
  /\ Live(r)
  /\ Report(r, "running", "running")
  /\ UNCHANGED <<cvars, kvars, jobs, env>>

(* The result parsed and sent, and the terminal frame; or neither. *)
Deliver(r) ==
  /\ \/ Finish(r, "data", "done", "done", "close")
     \/ Finish(r, "data", "error", "error", "close")  \* it cannot be parsed
     \/ Live(r) /\ ReturnError(r, "data", "gone")
  /\ UNCHANGED <<cvars, kvars, jobs, env>>

-----------------------------------------------------------------------------
(* bestEffortAsyncCancel, over a connection of its own: it may have no       *)
(* function to call or not connect.                                          *)
CancelOverOwnConnection(r) ==  \* Bug: over the run's connection, which may be closed
  /\ Goto(r, "cancel", "cancelling")
  /\ asked' = [asked EXCEPT ![r] = "sent"]
  /\ inbox' = IF r \in open THEN inbox \cup {<<r, "cancel">>} ELSE inbox
  /\ UNCHANGED <<cvars, open, reply, job, jobs, frames, end, env>>

Cancel(r) ==
  /\ Goto(r, "cancel", "cancelling")
  /\ \/ /\ inbox' = inbox \cup {<<r, "cancel">>}
        /\ asked' = [asked EXCEPT ![r] = "sent"]
     \/ /\ asked' = [asked EXCEPT ![r] = "failed"]
        /\ UNCHANGED inbox
  /\ UNCHANGED <<cvars, open, reply, job, jobs, frames, end, env>>

(* The cancel was answered, failed, or took longer than two seconds, in which *)
(* case it may still arrive; the terminal frame follows.                      *)
GivenUp(r, state, to) ==
  /\ Goto(r, "cancelling", to)
  /\ frames' = [frames EXCEPT ![r] = Append(@, state)]
  /\ \/ UNCHANGED <<inbox, asked>>
     \/ /\ <<r, "cancel">> \in inbox
        /\ inbox' = inbox \ {<<r, "cancel">>}
        /\ asked' = [asked EXCEPT ![r] = "failed"]
  /\ UNCHANGED <<cvars, open, reply, job, jobs, end, env>>

(* Bug: the run goes on polling after it has cancelled its job. *)
ReportGivenUpAndPoll(r) == GivenUp(r, IF end[r] = "cancelled" THEN "cancelled" ELSE "error", "poll")

(* Bug: a timeout is reported as a cancellation. *)
ReportGivenUpAsCancelled(r) == GivenUp(r, "cancelled", "close")

ReportGivenUp(r) == GivenUp(r, IF end[r] = "cancelled" THEN "cancelled" ELSE "error", "close")

(* The deferred calls, last first: conn.Close, then releaseAsyncSlot. *)
Close(r) ==
  /\ Goto(r, "close", IF Slotted(r) THEN "release" ELSE "ended")
  /\ open' = open \ {r}
  /\ UNCHANGED <<cvars, reply, inbox, job, jobs, fvars, env>>

ReleaseAsyncSlot(r) ==
  /\ Goto(r, "release", "ended")
  /\ jobs' = IF jobs > 0 THEN jobs - 1 ELSE jobs
  /\ UNCHANGED <<cvars, kvars, fvars, env>>

-----------------------------------------------------------------------------
(* kdb+: it takes one request at a time, from connections still open or not. *)
Take(r, fn) ==
  /\ <<r, fn>> \in inbox
  /\ inbox' = inbox \ {<<r, fn>>}
  /\ UNCHANGED <<cvars, pc, open, jobs, fvars, env>>

Answer(r, a) == reply' = IF r \in open /\ reply[r] = "sent" THEN [reply EXCEPT ![r] = a] ELSE reply

QSubmitUnrecorded(r) ==  \* Bug: the answer is sent before the job is recorded
  /\ Take(r, "submit")
  /\ Answer(r, "ok")
  /\ UNCHANGED job

(* async.submit evaluates the job before it returns; a gateway may leave it  *)
(* to a worker.                                                              *)
QSubmit(r) ==
  /\ Take(r, "submit")
  /\ \/ job' \in {[job EXCEPT ![r] = s] : s \in {"running", "done", "error"}} /\ Answer(r, "ok")
     \/ UNCHANGED job /\ Answer(r, "failed")

QStatus(r) ==
  /\ Take(r, "status")
  /\ Answer(r, job[r])
  /\ UNCHANGED job

QResult(r) ==
  /\ Take(r, "result")
  /\ Answer(r, IF job[r] = "done" THEN "ok" ELSE "failed")
  /\ UNCHANGED job

QCancel(r) ==
  /\ Take(r, "cancel")
  /\ job' = [job EXCEPT ![r] = IF @ \in {"none", "done", "error"} THEN @ ELSE "cancelled"]
  /\ UNCHANGED reply

QQuery(r) ==
  /\ Take(r, "query")
  /\ \/ job' = [job EXCEPT ![r] = "done"] /\ Answer(r, "ok")
     \/ job' = [job EXCEPT ![r] = "error"] /\ Answer(r, "failed")

WorkerEnds(r) ==
  /\ job[r] = "running"
  /\ job' \in {[job EXCEPT ![r] = s] : s \in {"done", "error"}}
  /\ UNCHANGED <<cvars, pc, open, reply, inbox, jobs, fvars, env>>

(* The call fails; it does so for certain once this side has closed the      *)
(* connection.  The request may have got through all the same.               *)
CallFails(r) ==
  /\ reply[r] = "sent"
  /\ reply' = [reply EXCEPT ![r] = "failed"]
  /\ \/ UNCHANGED inbox
     \/ inbox' = {m \in inbox : m[1] # r \/ m[2] = "cancel"}
  /\ UNCHANGED <<cvars, pc, open, job, jobs, fvars, env>>

-----------------------------------------------------------------------------
(* The panel or the client goes away; the timeout passes; Dispose.  What      *)
(* happens to a run that nothing looks at any more is left out.               *)
Attended == {"start", "queued", "dial", "submit", "submitting", "poll", "asking", "fetching", "running"}
Timed == Attended \ {"start", "queued", "dial"}

CancelContext(r) ==
  /\ pc[r] \in Attended /\ r \notin cancelled
  /\ cancelled' = cancelled \cup {r}
  /\ UNCHANGED <<cvars, pc, kvars, jobs, fvars, expired, shut>>

Expire(r) ==
  /\ pc[r] \in Timed /\ r \notin expired
  /\ expired' = expired \cup {r}
  /\ UNCHANGED <<cvars, pc, kvars, jobs, fvars, cancelled, shut>>

Dispose ==
  /\ ~shut
  /\ shut' = TRUE
  /\ UNCHANGED <<cvars, pc, kvars, jobs, fvars, cancelled, expired>>

-----------------------------------------------------------------------------
RunStep(r) ==
  \/ AcquireAsyncSlot(r) \/ NoSlot(r) \/ ReportQueued(r) \/ Dial(r) \/ Submit(r)
  \/ AwaitSubmit(r) \/ Poll(r) \/ AwaitStatus(r) \/ AwaitResult(r) \/ AwaitQuery(r)
  \/ Deliver(r) \/ Cancel(r) \/ ReportGivenUp(r)
  \/ Close(r) \/ ReleaseAsyncSlot(r)

KdbStep(r) ==
  \/ QSubmit(r) \/ QStatus(r) \/ QResult(r) \/ QQuery(r)

Terminated ==
  /\ \A r \in Runs : pc[r] = "ended" /\ reply[r] # "sent"
  /\ inbox = {}
  /\ UNCHANGED vars

Next ==
  \/ \E r \in Runs : \/ Reject(r) \/ RunStep(r) \/ GiveUp(r) \/ StopQuery(r) \/ Running(r)
                     \/ KdbStep(r) \/ QCancel(r) \/ WorkerEnds(r) \/ CallFails(r)
                     \/ CancelContext(r) \/ Expire(r)
  \/ Dispose
  \/ Terminated

Spec == Init /\ [][Next]_vars

(* A run goes on and its timeout passes.  The select of the poll loop picks  *)
(* among its ready cases at random, and the ticker is not ready most of the  *)
(* time: once the context is over the loop does not choose the ticker for    *)
(* ever.  A cancel that has been sent reaches kdb+, and a call over a         *)
(* connection this side has closed fails.                                    *)
FairSpec ==
  /\ Spec
  /\ \A r \in Runs : /\ WF_vars(RunStep(r)) /\ WF_vars(Expire(r))
                     /\ SF_vars(GiveUp(r)) /\ WF_vars(StopQuery(r))
                     /\ WF_vars(QCancel(r))
                     /\ WF_vars(r \notin open /\ CallFails(r))

-----------------------------------------------------------------------------
SlotPCs == {"queued", "dial", "submit", "submitting", "poll", "asking", "fetching", "running",
            "data", "cancel", "cancelling", "close", "release"}

TypeOK ==
  /\ kind \in [Runs -> Kinds] /\ via \in [Runs -> Vias]
  /\ pc \in [Runs -> SlotPCs \cup {"start", "ended"}]
  /\ cancelled \subseteq Runs /\ expired \subseteq Runs /\ shut \in BOOLEAN
  /\ open \subseteq Runs
  /\ reply \in [Runs -> {None, "sent", "failed", "ok", "running", "done", "error", "cancelled"}]
  /\ inbox \subseteq Runs \X {"submit", "status", "result", "query", "cancel"}
  /\ job \in [Runs -> {"none", "running", "done", "error", "cancelled"}]
  /\ jobs \in Nat
  /\ frames \in [Runs -> Seq({"progress", "error", "cancelled", "done"})]
  /\ end \in [Runs -> {None, "done", "error", "cancelled", "timeout", "gone", "panic"}]
  /\ asked \in [Runs -> {None, "sent", "failed"}]

(* Tokens and their owners agree on every path, through Dispose as well: the *)
(* receive with a default in releaseAsyncSlot never hides a double release,  *)
(* no run keeps a slot, and never more than AsyncMaxJobs legacy and plugin   *)
(* managed runs have a connection to kdb+.                                   *)
SlotOwners == {r \in Runs : Slotted(r) /\ pc[r] \in SlotPCs}
SlotAccounting ==
  /\ jobs = Cardinality(SlotOwners)
  /\ jobs =< MaxJobs
  /\ \A r \in open : Slotted(r) => r \in SlotOwners

(* A run tells one end of its query, and nothing after it; a run that ended  *)
(* without one returned an error to Grafana Live, or panicked.               *)
Finals(r) == {i \in 1..Len(frames[r]) : frames[r][i] # "progress"}
OneFinal ==
  \A r \in Runs :
    /\ \A i \in Finals(r) : i = Len(frames[r])
    /\ Finals(r) # {} => pc[r] \in {"close", "release", "ended"}
    /\ pc[r] = "ended" /\ Finals(r) = {} => end[r] = "panic" \/ Live(r)

(* What a run reports is what kdb+ did: done only if the job was evaluated   *)
(* and not cancelled, a q-side cancellation only if somebody asked for it.   *)
ReportsTruth ==
  \A r \in Runs : \A i \in Finals(r) :
    /\ frames[r][i] = "done" => job[r] = "done"
    /\ frames[r][i] = "cancelled" => r \in cancelled \/ job[r] = "cancelled"

(* The state of AsyncRun: a run goes on from its admission to its last       *)
(* deferred call, and the end told is a frame that is no progress.           *)
StageOf(place) == IF place = "start" THEN "new" ELSE IF place = "ended" THEN "over" ELSE "going"
Stages == [r \in Runs |-> StageOf(pc[r])]
EndTold(log) == IF log = <<>> \/ log[Len(log)] = "progress" THEN None ELSE log[Len(log)]
ToldEnds == [r \in Runs |-> EndTold(frames[r])]

Run == INSTANCE AsyncRun WITH limited <- {r \in Runs : Slotted(r)}, live <- {r \in Runs : Live(r)},
                              stage <- Stages, told <- ToldEnds

(* However calls, answers, cancellations, timeouts and late requests race,   *)
(* the runs implement AsyncRun: admitted while there is a slot, one true end *)
(* told, one job each, which nobody stops for a client that still waits.     *)
RunSpec == Run!ASpec

(* Every run that begins returns, whatever kdb+ does, and then gives back    *)
(* its slot and leaves neither connection nor blocked goroutine behind.      *)
RunsEnd ==
  \A r \in Runs : pc[r] # "start" ~> [](pc[r] = "ended" /\ r \notin open /\ reply[r] # "sent")

(* A job whose run gave it up is not left running if the cancel got through. *)
GivenUpJobEnds ==
  \A r \in Runs : asked[r] = "sent" /\ pc[r] = "ended" ~> job[r] # "running" \/ asked[r] = "failed"

(* CHANGELOG: "total async timeout enforcement for helper async and legacy   *)
(* async submit/status/result flows, with best-effort cancel on timeout".    *)
TimeoutCancels ==
  \A r \in Runs : kind[r] # "plugin" /\ pc[r] = "ended" /\ end[r] = "timeout" => asked[r] # None
===============================================================================
