------------------------------- MODULE AsyncRun -------------------------------
(***************************************************************************)
(* What the asynchronous execution of queries promises, with no call, poll,  *)
(* status or connection in sight: no more runs of the limited kinds at a     *)
(* time than there are slots, at most one job of a run and one end told of   *)
(* it, which is the truth about the job, and no job of kdb+ stopped unless   *)
(* its client went away or its time was up.  AsyncJob implements it.         *)
(***************************************************************************)
EXTENDS Naturals, FiniteSets

CONSTANTS
  Runs,     \* the asynchronous executions
  MaxJobs,  \* AsyncMaxJobs
  None      \* no end told

VARIABLES
  limited,    \* the runs that need a slot
  live,       \* the runs for Grafana Live, whose client may leave
  stage,      \* stage[r]: "new", "going" or "over"
  told,       \* told[r]: "done", "error", "cancelled", or None
  job,        \* job[r]: what has become of r's job on kdb+
  cancelled,  \* the runs whose client has cancelled
  expired,    \* the runs whose time is up
  shut        \* the datasource is disposed

avars == <<limited, live, stage, told, job, cancelled, expired, shut>>

AInit ==
  /\ limited \subseteq Runs /\ live \subseteq Runs
  /\ stage = [r \in Runs |-> "new"]
  /\ told = [r \in Runs |-> None]
  /\ job = [r \in Runs |-> "none"]
  /\ cancelled = {} /\ expired = {} /\ shut = FALSE

Stage(r, from, to) ==
  /\ stage[r] = from
  /\ stage' = [stage EXCEPT ![r] = to]
  /\ UNCHANGED <<limited, live, job, cancelled, expired, shut>>

(* A limited run is admitted while there is a slot and a datasource. *)
Admit(r) ==
  /\ Stage(r, "new", "going")
  /\ r \in limited => ~shut /\ Cardinality({x \in limited : stage[x] = "going"}) < MaxJobs
  /\ UNCHANGED told

(* A run that is refused says so, unless there is no datasource any more. *)
Refuse(r) ==
  /\ Stage(r, "new", "over")
  /\ \/ told' = [told EXCEPT ![r] = "error"]
     \/ shut /\ r \in limited /\ UNCHANGED told

(* The end of the query, once, and as it is on kdb+. *)
Tell(r) ==
  /\ stage[r] = "going" /\ told[r] = None
  /\ \E state \in {"done", "error", "cancelled"} :
       /\ told' = [told EXCEPT ![r] = state]
       /\ state = "done" => job[r] = "done"
       /\ state = "cancelled" => r \in cancelled \/ job[r] = "cancelled"
  /\ UNCHANGED <<limited, live, stage, job, cancelled, expired, shut>>

(* Only a live client may be left without an end. *)
Leave(r) ==
  /\ Stage(r, "going", "over")
  /\ told[r] # None \/ r \in live
  /\ UNCHANGED told

(* kdb+ has one job of a run, which ends once: by itself or because the run  *)
(* has been given up.  A request may reach kdb+ after the end of its run.     *)
Becomes(r, from, states) ==
  /\ job[r] = from
  /\ \E state \in states : job' = [job EXCEPT ![r] = state]
  /\ UNCHANGED <<limited, live, stage, told, cancelled, expired, shut>>

Create(r) == stage[r] # "new" /\ Becomes(r, "none", {"running", "done", "error"})

Work(r) == Becomes(r, "running", {"done", "error"})

Drop(r) == r \in cancelled \cup expired /\ Becomes(r, "running", {"cancelled"})

(* The client cancels a run that has not told its end, or its time is up. *)
Interrupt(r) ==
  /\ stage[r] # "over" /\ told[r] = None
  /\ \/ cancelled' = cancelled \cup {r} /\ UNCHANGED expired
     \/ expired' = expired \cup {r} /\ UNCHANGED cancelled
  /\ UNCHANGED <<limited, live, stage, told, job, shut>>

Shut ==
  /\ shut' = TRUE
  /\ UNCHANGED <<limited, live, stage, told, job, cancelled, expired>>

ANext ==
  \/ \E r \in Runs : \/ Admit(r) \/ Refuse(r) \/ Tell(r) \/ Leave(r)
                     \/ Create(r) \/ Work(r) \/ Drop(r) \/ Interrupt(r)
  \/ Shut

ASpec == AInit /\ [][ANext]_avars
===============================================================================
