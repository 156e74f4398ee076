---------------------------- MODULE AsyncJobProofs ----------------------------
(***************************************************************************)
(* For any number of runs, of any kinds, and any number of slots: the tokens *)
(* are those of the runs that hold a slot, a run tells one end of its query, *)
(* and what it tells is what kdb+ did: the runs implement AsyncRun.          *)
(*                                                                           *)
(* A step is a step of one run, or of kdb+ for one run: what is said of the  *)
(* other runs is kept because nothing of theirs changes.                     *)
(***************************************************************************)
EXTENDS AsyncJob, FiniteSetTheorems, TLAPS

Functions == {"submit", "status", "result", "query", "cancel"}
States == {"progress", "error", "cancelled", "done"}
JobStates == {"none", "running", "done", "error", "cancelled"}
Replies == {None, "sent", "failed", "ok", "running", "done", "error", "cancelled"}
Ends == {None, "done", "error", "cancelled", "timeout", "gone", "panic"}
Early == {"start", "queued", "dial", "submit"}
Ending == {"close", "release", "ended"}
Going == Early \cup {"submitting", "poll", "asking", "fetching", "running", "data", "cancel", "cancelling"}
Connected == SlotPCs \ {"queued", "dial", "release"}

(* The requests of a run that kdb+ has not taken yet. *)
Sent(r) == {fn \in Functions : <<r, fn>> \in inbox}
Answered(r) == reply[r] \notin {"sent", "failed"}
OnlyProgress(s) == \A i \in 1..Len(s) : s[i] = "progress"

(* While a run waits for the answer to a request no other one of it is under *)
(* way; and none is once it has been answered.                               *)
OneCall(r) ==
  /\ pc[r] \in Early \cup {"poll", "data"} => Sent(r) = {}
  /\ pc[r] = "submitting" => Sent(r) \subseteq {"submit"}
  /\ pc[r] = "asking" => Sent(r) \subseteq {"status"}
  /\ pc[r] = "fetching" => Sent(r) \subseteq {"result"}
  /\ pc[r] = "running" => Sent(r) \subseteq {"query"}
  /\ pc[r] \in {"submitting", "asking", "fetching", "running"} /\ Answered(r) => Sent(r) = {}

(* The request that makes a job comes once, before there is one; only after  *)
(* it the run asks for the job's status.                                     *)
OneJob(r) ==
  /\ ~({"submit", "query"} \subseteq Sent(r))
  /\ pc[r] \in Early \/ "submit" \in Sent(r) \/ "query" \in Sent(r) => job[r] = "none"
  /\ pc[r] \in {"poll", "asking"} \/ "status" \in Sent(r) => job[r] # "none"
  /\ pc[r] = "submitting" /\ reply[r] = "ok" => job[r] # "none"

(* What the run knows of its job stays true. *)
Knows(r) ==
  /\ pc[r] \in {"fetching", "data"} => job[r] = "done"
  /\ pc[r] = "asking" /\ reply[r] = "done" => job[r] = "done"
  /\ pc[r] = "asking" /\ reply[r] = "cancelled" => job[r] = "cancelled"
  /\ pc[r] = "running" /\ reply[r] = "ok" => job[r] = "done"

Dialogue(r) == OneCall(r) /\ OneJob(r) /\ Knows(r)

(* Before the end there is progress only, and the end says what happened. *)
Tells(r) ==
  /\ pc[r] \notin Ending => OnlyProgress(frames[r])
  /\ pc[r] \in Ending /\ OnlyProgress(frames[r]) => end[r] = "panic" \/ Live(r)
  /\ \A i \in Finals(r) : /\ i = Len(frames[r])
                          /\ frames[r][i] = "done" => job[r] = "done"
                          /\ frames[r][i] = "cancelled" => r \in cancelled \/ job[r] = "cancelled"
  /\ pc[r] \in {"cancel", "cancelling"} /\ end[r] = "cancelled" => r \in cancelled

(* Every token has its run, no run has a connection outside its slot, and    *)
(* none gives back a token that it has not got.                              *)
Slots ==
  /\ jobs = Cardinality(SlotOwners) /\ jobs =< MaxJobs
  /\ \A r \in open : pc[r] \in Connected
  /\ \A r \in Runs : pc[r] = "release" => Slotted(r)

Protocol == \A r \in Runs : Dialogue(r) /\ Tells(r)

IInv == TypeOK /\ Slots /\ Protocol

-----------------------------------------------------------------------------
(* Steps of one run. *)

(* Nothing of the others' changes, nor the kind of any run. *)
Only(r) ==
  /\ UNCHANGED <<kind, via>>
  /\ cancelled \subseteq cancelled'
  /\ \A x \in Runs \ {r} :
       /\ pc'[x] = pc[x] /\ reply'[x] = reply[x] /\ job'[x] = job[x]
       /\ frames'[x] = frames[x] /\ end'[x] = end[x]
       /\ \A fn \in Functions : <<x, fn>> \in inbox' <=> <<x, fn>> \in inbox

LEMMA OthersKeep ==
  ASSUME Protocol, NEW r \in Runs, Only(r), Dialogue(r)', Tells(r)'
  PROVE  Protocol'
<1>. SUFFICES ASSUME NEW x \in Runs \ {r} PROVE Dialogue(x)' /\ Tells(x)' BY DEF Protocol
<1>1. /\ pc'[x] = pc[x] /\ reply'[x] = reply[x] /\ job'[x] = job[x]
      /\ frames'[x] = frames[x] /\ end'[x] = end[x] /\ via' = via /\ cancelled \subseteq cancelled'
  BY DEF Only
<1>2. Sent(x)' = Sent(x) BY DEF Only, Sent
<1>3. Dialogue(x) /\ Tells(x) BY DEF Protocol
<1>4. Dialogue(x)' BY <1>1, <1>2, <1>3 DEF Dialogue, OneCall, OneJob, Knows, Answered
<1>5. Tells(x)' BY <1>1, <1>3 DEF Tells, Live, Finals
<1>. QED BY <1>4, <1>5

LEMMA Moved ==
  ASSUME TypeOK, NEW r \in Runs, NEW from, NEW to, Goto(r, from, to)
  PROVE  pc[r] = from /\ pc'[r] = to /\ \A x \in Runs \ {r} : pc'[x] = pc[x]
BY DEF TypeOK, Goto

(* A run stops, or has not begun to talk to kdb+; it may send a cancel. *)
LEMMA StopDialogue ==
  ASSUME TypeOK, NEW r \in Runs, Dialogue(r), NEW from, NEW to, Goto(r, from, to), UNCHANGED <<reply, job>>,
         to \notin {"submitting", "poll", "asking", "fetching", "running", "data"},
         to \in Early => from \in Early /\ inbox' = inbox,
         \A fn \in Functions \ {"cancel"} : <<r, fn>> \in inbox' => <<r, fn>> \in inbox
  PROVE  Dialogue(r)'
<1>1. pc[r] = from /\ pc'[r] = to BY Moved
<1>2. /\ \A fn \in Sent(r)' : fn = "cancel" \/ fn \in Sent(r)
      /\ to \in Early => Sent(r)' = Sent(r)
  BY DEF Sent
<1>3. OneCall(r)' BY <1>1, <1>2 DEF Dialogue, OneCall, Early
<1>4. OneJob(r)' BY <1>1, <1>2 DEF Dialogue, OneJob, Early
<1>5. Knows(r)' BY <1>1 DEF Knows
<1>. QED BY <1>3, <1>4, <1>5 DEF Dialogue

(* A run acts upon an answer without a further request. *)
LEMMA ContinueDialogue ==
  ASSUME TypeOK, NEW r \in Runs, Dialogue(r), NEW from, NEW to, Goto(r, from, to), UNCHANGED <<reply, job, inbox>>,
         from \in {"submitting", "asking", "fetching", "running"}, Answered(r),
         \/ to = "poll" /\ job[r] # "none"
         \/ to = "data" /\ job[r] = "done"
  PROVE  Dialogue(r)'
<1>1. pc[r] = from /\ pc'[r] = to BY Moved
<1>2. Sent(r) = {} /\ Sent(r)' = {} BY <1>1 DEF Dialogue, OneCall, Sent
<1>3. OneCall(r)' BY <1>1, <1>2 DEF OneCall
<1>4. OneJob(r)' BY <1>1, <1>2 DEF Dialogue, OneJob, Early
<1>5. Knows(r)' BY <1>1 DEF Knows
<1>. QED BY <1>3, <1>4, <1>5 DEF Dialogue

(* A run sends a request. *)
LEMMA RequestDialogue ==
  ASSUME TypeOK, NEW r \in Runs, Dialogue(r), NEW from, NEW fn, NEW to, Request(r, from, fn, to), UNCHANGED job,
         Sent(r) = {},
         \/ from = "submit" /\ <<fn, to>> \in {<<"submit", "submitting">>, <<"query", "running">>}
         \/ from = "poll" /\ <<fn, to>> = <<"status", "asking">>
         \/ from = "asking" /\ <<fn, to>> = <<"result", "fetching">> /\ job[r] = "done"
  PROVE  Dialogue(r)'
<1>1. pc[r] = from /\ pc'[r] = to BY Moved DEF Request
<1>2. reply'[r] = "sent" BY DEF Request, TypeOK
<1>3. Sent(r)' = {fn} BY DEF Request, Sent, Functions
<1>4. OneCall(r)' BY <1>1, <1>2, <1>3 DEF OneCall, Answered, Early
<1>5. OneJob(r)' BY <1>1, <1>2, <1>3 DEF Dialogue, OneJob, Early
<1>6. Knows(r)' BY <1>1, <1>2 DEF Knows
<1>. QED BY <1>4, <1>5, <1>6 DEF Dialogue

-----------------------------------------------------------------------------
(* The frames of a run. *)
LEMMA LoggedFacts ==
  ASSUME NEW s \in Seq(States)
  PROVE  Logged(s) \in Seq(States) /\ (OnlyProgress(s) => OnlyProgress(Logged(s)))
<1>1. CASE Logged(s) = s BY <1>1
<1>2. CASE Logged(s) = Append(s, "progress")
  <2>1. /\ Append(s, "progress") \in Seq(States) /\ Len(Append(s, "progress")) = Len(s) + 1
        /\ \A i \in 1..Len(s) : Append(s, "progress")[i] = s[i]
        /\ Append(s, "progress")[Len(s) + 1] = "progress" /\ Len(s) \in Nat
    BY DEF States
  <2>2. \A i \in 1..Len(s) + 1 : i \in 1..Len(s) \/ i = Len(s) + 1 BY <2>1
  <2>. QED BY <1>2, <2>1, <2>2 DEF OnlyProgress
<1>. QED BY <1>1, <1>2 DEF Logged

(* The end of a query is the last frame and the only one that is no progress. *)
LEMMA FinalFacts ==
  ASSUME NEW s \in Seq(States), OnlyProgress(s), NEW state \in States \ {"progress"}
  PROVE  LET t == Append(s, state)
         IN  /\ t \in Seq(States) /\ ~OnlyProgress(t)
             /\ \A i \in 1..Len(t) : t[i] # "progress" => i = Len(t) /\ t[i] = state
<1>1. /\ Append(s, state) \in Seq(States) /\ Len(Append(s, state)) = Len(s) + 1
      /\ \A i \in 1..Len(s) : Append(s, state)[i] = s[i]
      /\ Append(s, state)[Len(s) + 1] = state /\ Len(s) \in Nat
  OBVIOUS
<1>2. \A i \in 1..Len(s) + 1 : i \in 1..Len(s) \/ i = Len(s) + 1 BY <1>1
<1>3. Len(s) + 1 \in 1..Len(s) + 1 BY <1>1
<1>. QED BY <1>1, <1>2, <1>3 DEF OnlyProgress

(* A run that goes on. *)
LEMMA GoOnTells ==
  ASSUME TypeOK, NEW r \in Runs, NEW from, NEW to, Goto(r, from, to), to \notin Ending, OnlyProgress(frames[r])',
         to \in {"cancel", "cancelling"} /\ end'[r] = "cancelled" => r \in cancelled'
  PROVE  Tells(r)'
<1>1. pc'[r] = to BY Moved
<1>2. Finals(r)' = {} BY DEF Finals, OnlyProgress
<1>. QED BY <1>1, <1>2 DEF Tells, Ending

(* A run that ends with a frame. *)
LEMMA FinalTells ==
  ASSUME TypeOK, NEW r \in Runs, NEW from, NEW to, Goto(r, from, to), to \in Ending,
         NEW s \in Seq(States), OnlyProgress(s), NEW state \in States \ {"progress"},
         frames' = [frames EXCEPT ![r] = Append(s, state)],
         state = "done" => job'[r] = "done",
         state = "cancelled" => r \in cancelled' \/ job'[r] = "cancelled"
  PROVE  Tells(r)'
<1>1. pc'[r] = to BY Moved
<1>2. frames'[r] = Append(s, state) BY DEF TypeOK
<1>3. ~OnlyProgress(frames'[r])
      /\ \A i \in 1..Len(frames'[r]) : frames'[r][i] # "progress" => i = Len(frames'[r]) /\ frames'[r][i] = state
  BY <1>2, FinalFacts
<1>. QED BY <1>1, <1>3 DEF Tells, Finals, Ending

(* A run that ends without one. *)
LEMMA NoFinalTells ==
  ASSUME TypeOK, NEW r \in Runs, NEW from, NEW to, Goto(r, from, to), to \in Ending, OnlyProgress(frames[r])',
         end'[r] = "panic" \/ Live(r)'
  PROVE  Tells(r)'
<1>1. pc'[r] = to BY Moved
<1>2. Finals(r)' = {} BY DEF Finals, OnlyProgress
<1>. QED BY <1>1, <1>2 DEF Tells, Ending

(* Steps that neither move a run nor say anything. *)
LEMMA StillTells ==
  ASSUME NEW r \in Runs, Tells(r), pc'[r] = pc[r] \/ {pc[r], pc'[r]} \subseteq Ending,
         frames'[r] = frames[r], end'[r] = end[r], via' = via, cancelled \subseteq cancelled',
         job[r] \in {"done", "cancelled"} => job'[r] = job[r]
  PROVE  Tells(r)'
<1>1. Finals(r)' = Finals(r) /\ Live(r)' = Live(r) BY DEF Finals, Live
<1>2. pc'[r] \in Ending <=> pc[r] \in Ending OBVIOUS
<1>3. pc'[r] \in {"cancel", "cancelling"} => pc'[r] = pc[r] BY DEF Ending
<1>. QED BY <1>1, <1>2, <1>3 DEF Tells

-----------------------------------------------------------------------------
(* A step of a run or of its calls changes nothing of the others'. *)
LEMMA MoveOnly ==
  ASSUME TypeOK, NEW r \in Runs, UNCHANGED <<kind, via, cancelled, job>>, NEW from, NEW to, Goto(r, from, to),
         reply' = reply \/ (\E x : reply' = [reply EXCEPT ![r] = x]),
         frames' = frames \/ (\E x : frames' = [frames EXCEPT ![r] = x]),
         end' = end \/ (\E x : end' = [end EXCEPT ![r] = x]),
         \E S : inbox' \in {inbox \cup ({r} \X S), inbox \ ({r} \X S)}
  PROVE  Only(r)
<1>1. \A x \in Runs \ {r} : pc'[x] = pc[x] BY Moved
<1>2. \A x \in Runs \ {r} : reply'[x] = reply[x] BY DEF TypeOK
<1>3. \A x \in Runs \ {r} : frames'[x] = frames[x] BY DEF TypeOK
<1>4. \A x \in Runs \ {r} : end'[x] = end[x] BY DEF TypeOK
<1>5. \A x \in Runs \ {r}, fn \in Functions : <<x, fn>> \in inbox' <=> <<x, fn>> \in inbox OBVIOUS
<1>. QED BY <1>1, <1>2, <1>3, <1>4, <1>5 DEF Only

(* A step of a run that leaves what it has sent. *)
LEMMA QuietOnly ==
  ASSUME TypeOK, NEW r \in Runs, UNCHANGED <<kind, via, cancelled, job, reply, inbox>>, NEW from, NEW to, Goto(r, from, to),
         frames' = frames \/ (\E x : frames' = [frames EXCEPT ![r] = x]),
         end' = end \/ (\E x : end' = [end EXCEPT ![r] = x])
  PROVE  Only(r)
<1>1. inbox' = inbox \cup ({r} \X {}) OBVIOUS
<1>. QED BY <1>1, MoveOnly

LEMMA RunFacts ==
  ASSUME IInv, NEW r \in Runs
  PROVE  /\ TypeOK /\ Protocol /\ Dialogue(r) /\ Tells(r)
         /\ frames[r] \in Seq(States)
         /\ pc[r] \notin Ending => OnlyProgress(frames[r])
<1>1. TypeOK /\ Protocol BY DEF IInv
<1>. QED BY <1>1 DEF TypeOK, States, Protocol, Tells

(* The four ways in which a run's step speaks. *)
LEMMA FinishKeeps ==
  ASSUME IInv, NEW r \in Runs, NEW from \in Going, NEW state \in States \ {"progress"}, NEW cause, NEW to \in {"close", "ended"},
         Finish(r, from, state, cause, to), UNCHANGED <<kind, via, cancelled, reply, inbox, job>>,
         state = "done" => job[r] = "done",
         state = "cancelled" => r \in cancelled
  PROVE  Protocol'
<1>1. /\ Goto(r, from, to) /\ frames' = [frames EXCEPT ![r] = Append(frames[r], state)]
      /\ end' = [end EXCEPT ![r] = cause]
  BY DEF Finish
<1>2. pc[r] = from /\ frames[r] \in Seq(States) /\ OnlyProgress(frames[r]) /\ TypeOK /\ Protocol /\ Dialogue(r)
  BY <1>1, RunFacts, Moved DEF Going, Early, Ending
<1>3. Only(r) BY <1>1, <1>2, QuietOnly
<1>4. Dialogue(r)' BY <1>1, <1>2, StopDialogue DEF Early
<1>5. Tells(r)' BY <1>1, <1>2, FinalTells DEF Ending
<1>. QED BY <1>2, <1>3, <1>4, <1>5, OthersKeep

LEMMA ReturnErrorKeeps ==
  ASSUME IInv, NEW r \in Runs, NEW from \in Going, NEW cause, Live(r),
         ReturnError(r, from, cause), UNCHANGED <<kind, via, cancelled, reply, inbox, job>>
  PROVE  Protocol'
<1>1. /\ Goto(r, from, "close") /\ frames' = frames /\ end' = [end EXCEPT ![r] = cause]
  BY DEF ReturnError
<1>2. pc[r] = from /\ OnlyProgress(frames[r]) /\ TypeOK /\ Protocol /\ Dialogue(r)
  BY <1>1, RunFacts, Moved DEF Going, Early, Ending
<1>3. Only(r) BY <1>1, <1>2, QuietOnly
<1>4. Dialogue(r)' BY <1>1, <1>2, StopDialogue DEF Early
<1>5. Tells(r)'
  <2>1. OnlyProgress(frames[r])' /\ Live(r)' BY <1>1, <1>2 DEF OnlyProgress, Live
  <2>. QED BY <1>1, <1>2, <2>1, NoFinalTells DEF Ending
<1>. QED BY <1>2, <1>3, <1>4, <1>5, OthersKeep

(* Progress is told, or nothing; the run and kdb+ go on as the caller shows. *)
LEMMA ProgressKeeps ==
  ASSUME IInv, NEW r \in Runs, NEW from \in Going, NEW to \in Going \ {"cancel", "cancelling"}, Goto(r, from, to),
         frames' \in {frames, [frames EXCEPT ![r] = Logged(frames[r])]}, Only(r), Dialogue(r)'
  PROVE  Protocol'
<1>1. pc[r] = from /\ frames[r] \in Seq(States) /\ OnlyProgress(frames[r]) /\ TypeOK /\ Protocol
  BY RunFacts, Moved DEF Going, Early, Ending
<1>2. frames'[r] \in {frames[r], Logged(frames[r])} BY <1>1 DEF TypeOK
<1>3. OnlyProgress(frames'[r]) BY <1>1, <1>2, LoggedFacts
<1>4. OnlyProgress(frames[r])' BY <1>3 DEF OnlyProgress
<1>5. Tells(r)' BY <1>1, <1>4, GoOnTells DEF Going, Early, Ending
<1>. QED BY <1>1, <1>5, OthersKeep

LEMMA ReportKeeps ==
  ASSUME IInv, NEW r \in Runs, NEW from \in Going, NEW to \in Going \ {"cancel", "cancelling"},
         Report(r, from, to), UNCHANGED <<kind, via, cancelled, reply, inbox, job>>,
         Goto(r, from, to) => Dialogue(r)'
  PROVE  Protocol'
<1>1. CASE Goto(r, from, to) /\ Send(r) /\ UNCHANGED <<end, asked>>
  <2>1. frames' = [frames EXCEPT ![r] = Logged(frames[r])] BY <1>1 DEF Send
  <2>2. Only(r) BY <1>1, <2>1, QuietOnly, RunFacts
  <2>. QED BY <1>1, <2>1, <2>2, ProgressKeeps
<1>2. CASE Live(r) /\ ReturnError(r, from, "gone") BY <1>2, ReturnErrorKeeps
<1>. QED BY <1>1, <1>2 DEF Report

LEMMA FailKeeps ==
  ASSUME IInv, NEW r \in Runs, NEW from \in Going, NEW cause,
         Fail(r, from, cause), UNCHANGED <<kind, via, cancelled, reply, inbox, job>>
  PROVE  Protocol'
BY ReturnErrorKeeps, FinishKeeps DEF Fail, States

(* A run whose context is over goes on to cancel its job. *)
LEMMA FinishContextKeeps ==
  ASSUME IInv, NEW r \in Runs, NEW from \in Going,
         FinishContext(r, from), UNCHANGED <<kind, via, cancelled, reply, inbox, job>>
  PROVE  Protocol'
<1>1. /\ Goto(r, from, "cancel") /\ frames' = frames /\ end' = [end EXCEPT ![r] = Cause(r)]
  BY DEF FinishContext
<1>2. pc[r] = from /\ OnlyProgress(frames[r]) /\ TypeOK /\ Protocol /\ Dialogue(r)
  BY <1>1, RunFacts, Moved DEF Going, Early, Ending
<1>3. Only(r) BY <1>1, <1>2, QuietOnly
<1>4. Dialogue(r)' BY <1>1, <1>2, StopDialogue DEF Early
<1>5. Tells(r)'
  <2>1. OnlyProgress(frames[r])' BY <1>1, <1>2 DEF OnlyProgress
  <2>2. end'[r] = Cause(r) BY <1>1, <1>2 DEF TypeOK
  <2>3. Cause(r) = "cancelled" => r \in cancelled BY DEF Cause
  <2>. QED BY <1>1, <1>2, <2>1, <2>2, <2>3, GoOnTells DEF Ending
<1>. QED BY <1>2, <1>3, <1>4, <1>5, OthersKeep

LEMMA CallErrorKeeps ==
  ASSUME IInv, NEW r \in Runs, NEW from \in Going,
         CallError(r, from), UNCHANGED <<kind, via, cancelled, reply, inbox, job>>
  PROVE  Protocol'
BY FinishContextKeeps, FinishKeeps DEF CallError, States

-----------------------------------------------------------------------------
(* The protocol, step by step of a run. *)

LEMMA StartKeeps ==
  ASSUME IInv, NEW r \in Runs, Reject(r) \/ AcquireAsyncSlot(r) \/ NoSlot(r)
  PROVE  Protocol'
<1>1. UNCHANGED <<kind, via, cancelled, reply, inbox, job>>
  BY DEF Reject, AcquireAsyncSlot, AcquireSlot, NoSlot, cvars, kvars, env
<1>2. "start" \in Going BY DEF Going, Early
<1>3. ASSUME NEW to \in {"queued", "dial"}, Goto(r, "start", to), frames' = frames, end' = end PROVE Protocol'
  <2>1. Dialogue(r)' BY <1>1, <1>3, RunFacts, StopDialogue DEF Early
  <2>2. Only(r) BY <1>1, <1>3, RunFacts, QuietOnly
  <2>3. to \in Going \ {"cancel", "cancelling"} BY DEF Going, Early
  <2>. QED BY <1>2, <1>3, <2>1, <2>2, <2>3, ProgressKeeps
<1>4. CASE Finish(r, "start", "error", "error", "ended") BY <1>1, <1>2, <1>4, FinishKeeps DEF States
<1>5. CASE Goto(r, "start", "ended") /\ end' = [end EXCEPT ![r] = "panic"] /\ frames' = frames
  <2>1. pc[r] = "start" /\ OnlyProgress(frames[r]) /\ TypeOK /\ Protocol /\ Dialogue(r)
    BY <1>5, RunFacts, Moved DEF Ending
  <2>2. Dialogue(r)' BY <1>1, <1>5, <2>1, StopDialogue DEF Early
  <2>3. Only(r) BY <1>1, <1>5, <2>1, QuietOnly
  <2>4. OnlyProgress(frames[r])' /\ end'[r] = "panic" BY <1>5, <2>1 DEF OnlyProgress, TypeOK
  <2>5. Tells(r)' BY <1>5, <2>1, <2>4, NoFinalTells DEF Ending
  <2>. QED BY <2>1, <2>2, <2>3, <2>5, OthersKeep
<1>. QED BY <1>3, <1>4, <1>5 DEF Reject, AcquireAsyncSlot, AcquireSlot, NoSlot, fvars

LEMMA DialKeeps == ASSUME IInv, NEW r \in Runs, ReportQueued(r) \/ Dial(r) PROVE Protocol'
<1>1. UNCHANGED <<kind, via, cancelled, reply, inbox, job>> BY DEF ReportQueued, Dial, cvars, kvars, env
<1>2. ASSUME NEW from, NEW to, <<from, to>> \in {<<"queued", "dial">>, <<"dial", "submit">>}, Goto(r, from, to)
      PROVE  Dialogue(r)'
  BY <1>1, <1>2, RunFacts, StopDialogue DEF Early
<1>3. {"queued", "dial", "submit"} \subseteq Going \ {"cancel", "cancelling"} BY DEF Going, Early
<1>4. CASE ReportQueued(r)
  <2>1. Report(r, "queued", "dial") BY <1>4 DEF ReportQueued
  <2>2. Goto(r, "queued", "dial") => Dialogue(r)' BY <1>2
  <2>. QED BY <1>1, <1>3, <2>1, <2>2, ReportKeeps
<1>5. CASE Dial(r)
  <2>1. CASE Fail(r, "dial", "error") BY <1>1, <1>3, <2>1, FailKeeps
  <2>2. CASE Goto(r, "dial", "submit") /\ (Send(r) \/ UNCHANGED frames) /\ UNCHANGED end
    <3>1. frames' \in {frames, [frames EXCEPT ![r] = Logged(frames[r])]} BY <2>2 DEF Send
    <3>2. Only(r) BY <1>1, <2>2, <3>1, RunFacts, QuietOnly
    <3>3. Dialogue(r)' BY <1>2, <2>2
    <3>. QED BY <1>3, <2>2, <3>1, <3>2, <3>3, ProgressKeeps
  <2>. QED BY <1>5, <2>1, <2>2 DEF Dial
<1>. QED BY <1>4, <1>5

(* A request that a run makes next. *)
LEMMA RequestKeeps ==
  ASSUME IInv, NEW r \in Runs, NEW from \in Going, NEW fn, NEW to, Request(r, from, fn, to),
         UNCHANGED <<kind, via, cancelled, job, end>>, frames' \in {frames, [frames EXCEPT ![r] = Logged(frames[r])]},
         \/ from = "submit" /\ <<fn, to>> \in {<<"submit", "submitting">>, <<"query", "running">>}
         \/ from = "poll" /\ <<fn, to>> = <<"status", "asking">>
         \/ from = "asking" /\ <<fn, to>> = <<"result", "fetching">> /\ reply[r] = "done"
  PROVE  Protocol'
<1>1. /\ Goto(r, from, to) /\ reply' = [reply EXCEPT ![r] = "sent"] /\ inbox' = inbox \cup {<<r, fn>>}
  BY DEF Request
<1>2. pc[r] = from /\ TypeOK /\ Dialogue(r) BY <1>1, RunFacts, Moved
<1>3. Only(r)
  <2>1. inbox' = inbox \cup ({r} \X {fn}) BY <1>1
  <2>. QED BY <1>1, <1>2, <2>1, MoveOnly
<1>4. Sent(r) = {} BY <1>2 DEF Dialogue, OneCall, Answered, Early
<1>5. from = "asking" => job[r] = "done" BY <1>2 DEF Dialogue, Knows
<1>6. Dialogue(r)' BY <1>2, <1>4, <1>5, RequestDialogue
<1>7. to \in Going \ {"cancel", "cancelling"} BY DEF Going
<1>. QED BY <1>1, <1>3, <1>6, <1>7, ProgressKeeps

LEMMA SubmitKeeps == ASSUME IInv, NEW r \in Runs, Submit(r) \/ Poll(r) PROVE Protocol'
<1>1. UNCHANGED <<kind, via, cancelled, job>> BY DEF Submit, Poll, cvars, env
<1>2. {"submit", "poll"} \subseteq Going BY DEF Going, Early
<1>3. CASE /\ Request(r, "submit", "query", "running") \/ Request(r, "submit", "submit", "submitting")
              \/ Request(r, "poll", "status", "asking")
           /\ frames' = frames /\ end' = end
  BY <1>1, <1>2, <1>3, RequestKeeps
<1>4. CASE Finish(r, "submit", "error", "error", "close") /\ UNCHANGED <<reply, inbox>>
  BY <1>1, <1>2, <1>4, FinishKeeps DEF States
<1>. QED BY <1>3, <1>4 DEF Submit, Poll, fvars

(* A run that looks at the job again, or has its result. *)
LEMMA ContinueKeeps ==
  ASSUME IInv, NEW r \in Runs, NEW from \in {"submitting", "asking", "fetching", "running"}, NEW to \in {"poll", "data"},
         Goto(r, from, to), UNCHANGED <<reply, job, inbox>>,
         \/ <<from, to>> = <<"submitting", "poll">> /\ reply[r] = "ok"
         \/ <<from, to>> = <<"asking", "poll">> /\ reply[r] = "running"
         \/ <<from, to>> = <<"asking", "data">> /\ reply[r] = "done"
         \/ to = "data" /\ from # "asking" /\ from # "submitting" /\ reply[r] = "ok"
  PROVE  Dialogue(r)'
<1>1. pc[r] = from /\ TypeOK /\ Dialogue(r) BY RunFacts, Moved
<1>2. Answered(r) BY DEF Answered
<1>3. \/ to = "poll" /\ job[r] # "none"
      \/ to = "data" /\ job[r] = "done"
  BY <1>1 DEF Dialogue, OneJob, Knows
<1>. QED BY <1>1, <1>2, <1>3, ContinueDialogue

LEMMA AwaitSubmitKeeps == ASSUME IInv, NEW r \in Runs, AwaitSubmit(r) PROVE Protocol'
<1>1. UNCHANGED <<kind, via, cancelled, reply, inbox, job>> BY DEF AwaitSubmit, cvars, env
<1>2. "submitting" \in Going /\ "poll" \in Going \ {"cancel", "cancelling"} BY DEF Going
<1>3. CASE reply[r] = "ok" /\ Report(r, "submitting", "poll")
  <2>1. Goto(r, "submitting", "poll") => Dialogue(r)' BY <1>1, <1>3, ContinueKeeps
  <2>. QED BY <1>1, <1>2, <1>3, <2>1, ReportKeeps
<1>4. CASE Finish(r, "submitting", "error", "error", "close") BY <1>1, <1>2, <1>4, FinishKeeps DEF States
<1>5. CASE Fail(r, "submitting", Cause(r)) BY <1>1, <1>2, <1>5, FailKeeps
<1>. QED BY <1>3, <1>4, <1>5 DEF AwaitSubmit

LEMMA AwaitStatusKeeps == ASSUME IInv, NEW r \in Runs, AwaitStatus(r) PROVE Protocol'
<1>1. UNCHANGED <<kind, via, cancelled, job>> BY DEF AwaitStatus, cvars, env
<1>2. "asking" \in Going /\ {"poll", "data"} \subseteq Going \ {"cancel", "cancelling"} BY DEF Going
<1>3. CASE FinishContext(r, "asking") /\ UNCHANGED <<reply, inbox>> BY <1>1, <1>2, <1>3, FinishContextKeeps
<1>4. CASE CallError(r, "asking") /\ UNCHANGED <<reply, inbox>> BY <1>1, <1>2, <1>4, CallErrorKeeps
<1>5. CASE reply[r] = "running" /\ Report(r, "asking", "poll") /\ UNCHANGED <<reply, inbox>>
  <2>1. Goto(r, "asking", "poll") => Dialogue(r)' BY <1>1, <1>5, ContinueKeeps
  <2>. QED BY <1>1, <1>2, <1>5, <2>1, ReportKeeps
<1>6. CASE /\ \E state \in {"error", "cancelled"} :
                /\ state = "cancelled" => reply[r] = "cancelled"
                /\ frames' = [frames EXCEPT ![r] = Append(Told(r), state)]
           /\ Goto(r, "asking", "close") /\ end' = [end EXCEPT ![r] = "error"] /\ UNCHANGED <<reply, inbox>>
  <2>1. pc[r] = "asking" /\ frames[r] \in Seq(States) /\ OnlyProgress(frames[r]) /\ TypeOK /\ Protocol /\ Dialogue(r)
    BY <1>6, RunFacts, Moved DEF Ending
  <2>2. Told(r) \in Seq(States) /\ OnlyProgress(Told(r)) BY <2>1, LoggedFacts DEF Told
  <2>3. PICK state \in {"error", "cancelled"} :
          /\ state = "cancelled" => reply[r] = "cancelled"
          /\ frames' = [frames EXCEPT ![r] = Append(Told(r), state)]
    BY <1>6
  <2>4. state = "cancelled" => job[r] = "cancelled" BY <2>1, <2>3 DEF Dialogue, Knows
  <2>5. Tells(r)' BY <1>1, <1>6, <2>1, <2>2, <2>3, <2>4, FinalTells DEF Ending, States
  <2>6. Only(r) BY <1>1, <1>6, <2>1, QuietOnly
  <2>7. Dialogue(r)' BY <1>1, <1>6, <2>1, StopDialogue DEF Early
  <2>. QED BY <2>1, <2>5, <2>6, <2>7, OthersKeep
<1>7. CASE /\ reply[r] = "done" /\ frames' = [frames EXCEPT ![r] = Told(r)] /\ UNCHANGED end
           /\ \/ Request(r, "asking", "result", "fetching")
              \/ Goto(r, "asking", "data") /\ UNCHANGED <<reply, inbox>>
  <2>1. frames' \in {frames, [frames EXCEPT ![r] = Logged(frames[r])]} BY <1>7 DEF Told, IInv, TypeOK
  <2>2. CASE Request(r, "asking", "result", "fetching") BY <1>1, <1>2, <1>7, <2>1, <2>2, RequestKeeps
  <2>3. CASE Goto(r, "asking", "data") /\ UNCHANGED <<reply, inbox>>
    <3>1. Dialogue(r)' BY <1>1, <1>7, <2>3, ContinueKeeps
    <3>2. Only(r) BY <1>1, <1>7, <2>3, RunFacts, QuietOnly
    <3>. QED BY <1>2, <2>1, <2>3, <3>1, <3>2, ProgressKeeps
  <2>. QED BY <1>7, <2>2, <2>3
<1>. QED BY <1>3, <1>4, <1>5, <1>6, <1>7 DEF AwaitStatus, ActOnStatus

LEMMA AwaitResultKeeps == ASSUME IInv, NEW r \in Runs, AwaitResult(r) \/ AwaitQuery(r) PROVE Protocol'
<1>1. UNCHANGED <<kind, via, cancelled, reply, inbox, job>> BY DEF AwaitResult, AwaitQuery, cvars, env
<1>2. {"fetching", "running"} \subseteq Going /\ "data" \in Going \ {"cancel", "cancelling"} BY DEF Going
<1>3. CASE FinishContext(r, "fetching") BY <1>1, <1>2, <1>3, FinishContextKeeps
<1>4. CASE CallError(r, "fetching") BY <1>1, <1>2, <1>4, CallErrorKeeps
<1>5. CASE Finish(r, "running", "error", "error", "close") BY <1>1, <1>2, <1>5, FinishKeeps DEF States
<1>6. ASSUME NEW from \in {"fetching", "running"}, reply[r] = "ok", Goto(r, from, "data"), UNCHANGED <<frames, end>>
      PROVE  Protocol'
  <2>1. Dialogue(r)' BY <1>1, <1>6, ContinueKeeps
  <2>2. Only(r) BY <1>1, <1>6, RunFacts, QuietOnly
  <2>. QED BY <1>2, <1>6, <2>1, <2>2, ProgressKeeps
<1>. QED BY <1>3, <1>4, <1>5, <1>6 DEF AwaitResult, AwaitQuery, fvars

LEMMA StopKeeps == ASSUME IInv, NEW r \in Runs, GiveUp(r) \/ StopQuery(r) \/ Running(r) \/ Deliver(r) PROVE Protocol'
<1>1. UNCHANGED <<kind, via, cancelled, reply, inbox, job>>
  BY DEF GiveUp, StopQuery, Running, Deliver, cvars, kvars, env
<1>2. {"poll", "data"} \subseteq Going /\ "running" \in Going \ {"cancel", "cancelling"} BY DEF Going
<1>3. CASE FinishContext(r, "poll") BY <1>1, <1>2, <1>3, FinishContextKeeps
<1>4. CASE \/ r \in cancelled /\ Finish(r, "running", "cancelled", "cancelled", "close")
           \/ Finish(r, "running", "error", "timeout", "close")
  BY <1>1, <1>2, <1>4, FinishKeeps DEF States
<1>5. CASE Report(r, "running", "running")
  <2>1. Goto(r, "running", "running") => Dialogue(r)'
    <3>. SUFFICES ASSUME Goto(r, "running", "running") PROVE Dialogue(r)' OBVIOUS
    <3>1. pc'[r] = pc[r] BY RunFacts, Moved
    <3>. QED BY <1>1, <3>1, RunFacts DEF Dialogue, OneCall, OneJob, Knows, Sent, Answered
  <2>. QED BY <1>1, <1>2, <1>5, <2>1, ReportKeeps
<1>6. CASE \/ Finish(r, "data", "done", "done", "close") \/ Finish(r, "data", "error", "error", "close")
  <2>1. job[r] = "done"
    <3>1. pc[r] = "data" BY <1>6 DEF Finish, Goto
    <3>. QED BY <3>1, RunFacts DEF Dialogue, Knows
  <2>. QED BY <1>1, <1>2, <1>6, <2>1, FinishKeeps DEF States
<1>7. CASE Live(r) /\ ReturnError(r, "data", "gone") BY <1>1, <1>2, <1>7, ReturnErrorKeeps
<1>. QED BY <1>3, <1>4, <1>5, <1>6, <1>7 DEF GiveUp, StopQuery, Running, Deliver

LEMMA CancelKeeps == ASSUME IInv, NEW r \in Runs, Cancel(r) PROVE Protocol'
<1>1. /\ Goto(r, "cancel", "cancelling") /\ UNCHANGED <<kind, via, cancelled, reply, job, frames, end>>
      /\ inbox' \in {inbox, inbox \cup {<<r, "cancel">>}}
  BY DEF Cancel, cvars, env
<1>2. pc[r] = "cancel" /\ OnlyProgress(frames[r]) /\ TypeOK /\ Protocol /\ Dialogue(r) /\ Tells(r)
  BY <1>1, RunFacts, Moved DEF Ending
<1>3. Only(r)
  <2>1. inbox' \in {inbox \cup ({r} \X {}), inbox \cup ({r} \X {"cancel"})} BY <1>1
  <2>. QED BY <1>1, <1>2, <2>1, MoveOnly
<1>4. Dialogue(r)' BY <1>1, <1>2, StopDialogue DEF Early
<1>5. Tells(r)'
  <2>1. OnlyProgress(frames[r])' BY <1>1, <1>2 DEF OnlyProgress
  <2>2. end'[r] = "cancelled" => r \in cancelled' BY <1>1, <1>2 DEF Tells
  <2>. QED BY <1>1, <1>2, <2>1, <2>2, GoOnTells DEF Ending
<1>. QED BY <1>2, <1>3, <1>4, <1>5, OthersKeep

LEMMA GivenUpKeeps == ASSUME IInv, NEW r \in Runs, ReportGivenUp(r) PROVE Protocol'
<1>. DEFINE state == IF end[r] = "cancelled" THEN "cancelled" ELSE "error"
<1>1. /\ Goto(r, "cancelling", "close") /\ UNCHANGED <<kind, via, cancelled, reply, job, end>>
      /\ frames' = [frames EXCEPT ![r] = Append(frames[r], state)]
      /\ inbox' \in {inbox, inbox \ {<<r, "cancel">>}}
  BY DEF ReportGivenUp, GivenUp, cvars, env
<1>2. /\ pc[r] = "cancelling" /\ frames[r] \in Seq(States) /\ OnlyProgress(frames[r])
      /\ TypeOK /\ Protocol /\ Dialogue(r) /\ Tells(r)
  BY <1>1, RunFacts, Moved DEF Ending
<1>3. Only(r)
  <2>1. inbox' \in {inbox \ ({r} \X {}), inbox \ ({r} \X {"cancel"})} BY <1>1
  <2>. QED BY <1>1, <1>2, <2>1, MoveOnly
<1>4. Dialogue(r)' BY <1>1, <1>2, StopDialogue DEF Early
<1>5. Tells(r)'
  <2>1. state = "cancelled" => r \in cancelled' BY <1>1, <1>2 DEF Tells
  <2>2. state \in States \ {"progress"} /\ state # "done" BY DEF States
  <2>. HIDE DEF state
  <2>. QED BY <1>1, <1>2, <2>1, <2>2, FinalTells DEF Ending
<1>. QED BY <1>2, <1>3, <1>4, <1>5, OthersKeep

LEMMA CloseKeeps == ASSUME IInv, NEW r \in Runs, Close(r) \/ ReleaseAsyncSlot(r) PROVE Protocol'
<1>1. UNCHANGED <<kind, via, cancelled, reply, inbox, job, frames, end>>
  BY DEF Close, ReleaseAsyncSlot, cvars, kvars, fvars, env
<1>2. PICK from \in {"close", "release"}, to \in {"release", "ended"} : Goto(r, from, to)
  BY DEF Close, ReleaseAsyncSlot
<1>3. pc[r] = from /\ pc'[r] = to /\ TypeOK /\ Protocol /\ Dialogue(r) /\ Tells(r) BY <1>2, RunFacts, Moved
<1>4. Only(r) BY <1>1, <1>2, <1>3, QuietOnly
<1>5. Dialogue(r)' BY <1>1, <1>2, <1>3, StopDialogue DEF Early
<1>6. Tells(r)' BY <1>1, <1>3, StillTells DEF Ending
<1>. QED BY <1>3, <1>4, <1>5, <1>6, OthersKeep

-----------------------------------------------------------------------------
(* The protocol, step by step of kdb+ and of the calls. *)

(* What kdb+ does for a run does not touch what the others say or know. *)
LEMMA KdbKeeps ==
  ASSUME IInv, NEW r \in Runs, UNCHANGED <<kind, via, cancelled, pc, frames, end>>,
         reply' = reply \/ (\E x : reply' = [reply EXCEPT ![r] = x]),
         job' = job \/ (\E x : job' = [job EXCEPT ![r] = x]),
         \E S : inbox' = inbox \ ({r} \X S),
         job[r] \in {"done", "cancelled"} => job'[r] = job[r],
         Dialogue(r)'
  PROVE  Protocol'
<1>1. TypeOK /\ Protocol /\ Tells(r) BY RunFacts
<1>2. Only(r)
  <2>1. \A x \in Runs \ {r} : reply'[x] = reply[x] /\ job'[x] = job[x] BY <1>1 DEF TypeOK
  <2>2. \A x \in Runs \ {r}, fn \in Functions : <<x, fn>> \in inbox' <=> <<x, fn>> \in inbox OBVIOUS
  <2>. QED BY <2>1, <2>2 DEF Only
<1>3. Tells(r)' BY <1>1, StillTells
<1>. QED BY <1>1, <1>2, <1>3, OthersKeep

(* kdb+ has one request less, and the call has an answer if it waits for it. *)
LEMMA TakeFacts ==
  ASSUME TypeOK, NEW r \in Runs, NEW fn \in Functions, Take(r, fn), NEW a, Answer(r, a)
  PROVE  /\ UNCHANGED <<kind, via, cancelled, pc, frames, end>>
         /\ fn \in Sent(r) /\ Sent(r)' = Sent(r) \ {fn}
         /\ \E S : inbox' = inbox \ ({r} \X S)
         /\ reply' = reply \/ reply' = [reply EXCEPT ![r] = a]
         /\ reply'[r] = reply[r] \/ (reply[r] = "sent" /\ reply'[r] = a)
<1>1. UNCHANGED <<kind, via, cancelled, pc, frames, end>> /\ <<r, fn>> \in inbox /\ inbox' = inbox \ {<<r, fn>>}
  BY DEF Take, cvars, fvars, env
<1>2. inbox' = inbox \ ({r} \X {fn}) BY <1>1
<1>3. fn \in Sent(r) /\ Sent(r)' = Sent(r) \ {fn} BY <1>1 DEF Sent
<1>. QED BY <1>1, <1>2, <1>3 DEF Answer, TypeOK

LEMMA QSubmitKeeps == ASSUME IInv, NEW r \in Runs, QSubmit(r) PROVE Protocol'
<1>1. TypeOK /\ Dialogue(r) BY RunFacts
<1>2. PICK a \in {"ok", "failed"} :
        /\ Take(r, "submit") /\ Answer(r, a)
        /\ \/ a = "ok" /\ \E x \in {"running", "done", "error"} : job' = [job EXCEPT ![r] = x]
           \/ a = "failed" /\ job' = job
  BY DEF QSubmit
<1>3. /\ UNCHANGED <<kind, via, cancelled, pc, frames, end>>
      /\ "submit" \in Sent(r) /\ Sent(r)' = Sent(r) \ {"submit"}
      /\ \E S : inbox' = inbox \ ({r} \X S)
      /\ reply' = reply \/ reply' = [reply EXCEPT ![r] = a]
      /\ reply'[r] = reply[r] \/ (reply[r] = "sent" /\ reply'[r] = a)
  BY <1>1, <1>2, TakeFacts DEF Functions
<1>4. job[r] = "none" /\ "query" \notin Sent(r) /\ "status" \notin Sent(r) BY <1>1, <1>3 DEF Dialogue, OneJob
<1>5. \/ a = "ok" /\ job'[r] \in {"running", "done", "error"}
      \/ a = "failed" /\ job'[r] = "none"
  BY <1>1, <1>2, <1>4 DEF TypeOK
<1>6. pc[r] \notin Early \cup {"poll", "data", "asking", "fetching", "running"} BY <1>1, <1>3 DEF Dialogue, OneCall
<1>7. OneCall(r)' BY <1>1, <1>3, <1>6 DEF Dialogue, OneCall
<1>8. OneJob(r)'
  <2>1. pc[r] = "submitting" => reply[r] # "ok" BY <1>1, <1>3 DEF Dialogue, OneCall, Answered
  <2>. QED BY <1>3, <1>4, <1>5, <1>6, <2>1 DEF OneJob
<1>9. Knows(r)' BY <1>3, <1>6 DEF Knows
<1>. QED BY <1>2, <1>3, <1>4, <1>7, <1>8, <1>9, KdbKeeps DEF Dialogue

LEMMA QStatusKeeps == ASSUME IInv, NEW r \in Runs, QStatus(r) PROVE Protocol'
<1>1. TypeOK /\ Dialogue(r) BY RunFacts
<1>2. Take(r, "status") /\ Answer(r, job[r]) /\ job' = job BY DEF QStatus
<1>3. /\ UNCHANGED <<kind, via, cancelled, pc, frames, end>>
      /\ "status" \in Sent(r) /\ Sent(r)' = Sent(r) \ {"status"}
      /\ \E S : inbox' = inbox \ ({r} \X S)
      /\ reply' = reply \/ reply' = [reply EXCEPT ![r] = job[r]]
      /\ reply'[r] = reply[r] \/ (reply[r] = "sent" /\ reply'[r] = job[r])
  BY <1>1, <1>2, TakeFacts DEF Functions
<1>4. pc[r] \notin Early \cup {"poll", "data", "submitting", "fetching", "running"} BY <1>1, <1>3 DEF Dialogue, OneCall
<1>5. OneCall(r)' BY <1>1, <1>3, <1>4 DEF Dialogue, OneCall
<1>6. OneJob(r)' BY <1>1, <1>2, <1>3, <1>4 DEF Dialogue, OneJob
<1>7. Knows(r)' BY <1>1, <1>2, <1>3, <1>4 DEF Dialogue, Knows
<1>. QED BY <1>2, <1>3, <1>5, <1>6, <1>7, KdbKeeps DEF Dialogue

LEMMA QResultKeeps == ASSUME IInv, NEW r \in Runs, QResult(r) PROVE Protocol'
<1>1. TypeOK /\ Dialogue(r) BY RunFacts
<1>2. PICK a \in {"ok", "failed"} : Take(r, "result") /\ Answer(r, a) /\ job' = job BY DEF QResult
<1>3. /\ UNCHANGED <<kind, via, cancelled, pc, frames, end>>
      /\ "result" \in Sent(r) /\ Sent(r)' = Sent(r) \ {"result"}
      /\ \E S : inbox' = inbox \ ({r} \X S)
      /\ reply' = reply \/ reply' = [reply EXCEPT ![r] = a]
      /\ reply'[r] = reply[r] \/ (reply[r] = "sent" /\ reply'[r] = a)
  BY <1>1, <1>2, TakeFacts DEF Functions
<1>4. pc[r] \notin Early \cup {"poll", "data", "submitting", "asking", "running"} BY <1>1, <1>3 DEF Dialogue, OneCall
<1>5. OneCall(r)' BY <1>1, <1>3, <1>4 DEF Dialogue, OneCall
<1>6. OneJob(r)' BY <1>1, <1>2, <1>3, <1>4 DEF Dialogue, OneJob
<1>7. Knows(r)' BY <1>1, <1>2, <1>3, <1>4 DEF Dialogue, Knows
<1>. QED BY <1>2, <1>3, <1>5, <1>6, <1>7, KdbKeeps DEF Dialogue

LEMMA QQueryKeeps == ASSUME IInv, NEW r \in Runs, QQuery(r) PROVE Protocol'
<1>1. TypeOK /\ Dialogue(r) BY RunFacts
<1>2. PICK a \in {"ok", "failed"} :
        /\ Take(r, "query") /\ Answer(r, a)
        /\ job' = [job EXCEPT ![r] = IF a = "ok" THEN "done" ELSE "error"]
  BY DEF QQuery
<1>3. /\ UNCHANGED <<kind, via, cancelled, pc, frames, end>>
      /\ "query" \in Sent(r) /\ Sent(r)' = Sent(r) \ {"query"}
      /\ \E S : inbox' = inbox \ ({r} \X S)
      /\ reply' = reply \/ reply' = [reply EXCEPT ![r] = a]
      /\ reply'[r] = reply[r] \/ (reply[r] = "sent" /\ reply'[r] = a)
  BY <1>1, <1>2, TakeFacts DEF Functions
<1>4. job[r] = "none" /\ "submit" \notin Sent(r) /\ "status" \notin Sent(r) BY <1>1, <1>3 DEF Dialogue, OneJob
<1>5. job'[r] = (IF a = "ok" THEN "done" ELSE "error") BY <1>1, <1>2 DEF TypeOK
<1>6. pc[r] \notin Early \cup {"poll", "data", "submitting", "asking", "fetching"} BY <1>1, <1>3 DEF Dialogue, OneCall
<1>7. OneCall(r)' BY <1>1, <1>3, <1>6 DEF Dialogue, OneCall
<1>8. OneJob(r)' BY <1>3, <1>4, <1>5, <1>6 DEF OneJob
<1>9. Knows(r)'
  <2>1. pc[r] = "running" => reply[r] # "ok" BY <1>1, <1>3 DEF Dialogue, OneCall, Answered
  <2>. QED BY <1>3, <1>5, <1>6, <2>1 DEF Knows
<1>. QED BY <1>2, <1>3, <1>4, <1>7, <1>8, <1>9, KdbKeeps DEF Dialogue

LEMMA QCancelKeeps == ASSUME IInv, NEW r \in Runs, QCancel(r) PROVE Protocol'
<1>1. TypeOK /\ Dialogue(r) BY RunFacts
<1>2. /\ UNCHANGED <<kind, via, cancelled, pc, frames, end, reply>>
      /\ <<r, "cancel">> \in inbox /\ inbox' = inbox \ {<<r, "cancel">>}
      /\ job' = [job EXCEPT ![r] = IF job[r] \in {"none", "done", "error"} THEN job[r] ELSE "cancelled"]
  BY DEF QCancel, Take, cvars, fvars, env
<1>3. "cancel" \in Sent(r) /\ Sent(r)' = Sent(r) \ {"cancel"} BY <1>2 DEF Sent, Functions
<1>4. inbox' = inbox \ ({r} \X {"cancel"}) BY <1>2
<1>5. job'[r] = IF job[r] \in {"none", "done", "error"} THEN job[r] ELSE "cancelled" BY <1>1, <1>2 DEF TypeOK
<1>6. pc[r] \notin Early \cup {"poll", "data", "submitting", "asking", "fetching", "running"}
  BY <1>1, <1>3 DEF Dialogue, OneCall
<1>7. OneCall(r)' BY <1>2, <1>6 DEF OneCall
<1>8. OneJob(r)' BY <1>1, <1>2, <1>3, <1>5, <1>6 DEF Dialogue, OneJob
<1>9. Knows(r)' BY <1>2, <1>6 DEF Knows
<1>10. job[r] \in {"done", "cancelled"} => job'[r] = job[r] BY <1>5
<1>. QED BY <1>2, <1>4, <1>7, <1>8, <1>9, <1>10, KdbKeeps DEF Dialogue

LEMMA WorkerEndsKeeps == ASSUME IInv, NEW r \in Runs, WorkerEnds(r) PROVE Protocol'
<1>1. TypeOK /\ Dialogue(r) BY RunFacts
<1>2. /\ UNCHANGED <<kind, via, cancelled, pc, frames, end, reply, inbox>>
      /\ job[r] = "running" /\ \E x \in {"done", "error"} : job' = [job EXCEPT ![r] = x]
  BY DEF WorkerEnds, cvars, fvars, env
<1>3. job'[r] \in {"done", "error"} BY <1>1, <1>2 DEF TypeOK
<1>4. Sent(r)' = Sent(r) BY <1>2 DEF Sent
<1>5. Dialogue(r)' BY <1>1, <1>2, <1>3, <1>4 DEF Dialogue, OneCall, OneJob, Knows, Answered
<1>6. inbox' = inbox \ ({r} \X {}) BY <1>2
<1>. QED BY <1>2, <1>5, <1>6, KdbKeeps

LEMMA CallFailsKeeps == ASSUME IInv, NEW r \in Runs, CallFails(r) PROVE Protocol'
<1>1. TypeOK /\ Dialogue(r) BY RunFacts
<1>2. /\ UNCHANGED <<kind, via, cancelled, pc, frames, end, job>>
      /\ reply' = [reply EXCEPT ![r] = "failed"]
      /\ inbox' = inbox \/ inbox' = {m \in inbox : m[1] # r \/ m[2] = "cancel"}
  BY DEF CallFails, cvars, fvars, env
<1>3. reply'[r] = "failed" BY <1>1, <1>2 DEF TypeOK
<1>4. Sent(r)' \subseteq Sent(r) BY <1>2 DEF Sent
<1>5. \E S : inbox' = inbox \ ({r} \X S)
  <2>1. CASE inbox' = inbox
    <3>1. inbox' = inbox \ ({r} \X {}) BY <2>1
    <3>. QED BY <3>1
  <2>2. CASE inbox' = {m \in inbox : m[1] # r \/ m[2] = "cancel"}
    <3>1. inbox \subseteq Runs \X Functions BY <1>1 DEF TypeOK, Functions
    <3>2. inbox' = inbox \ ({r} \X (Functions \ {"cancel"})) BY <2>2, <3>1
    <3>. QED BY <3>2
  <2>. QED BY <1>2, <2>1, <2>2
<1>6. Dialogue(r)' BY <1>1, <1>2, <1>3, <1>4 DEF Dialogue, OneCall, OneJob, Knows, Answered
<1>. QED BY <1>2, <1>5, <1>6, KdbKeeps

LEMMA NextProtocol == ASSUME IInv, [Next]_vars PROVE Protocol'
<1>1. ASSUME NEW r \in Runs, RunStep(r) \/ Reject(r) \/ GiveUp(r) \/ StopQuery(r) \/ Running(r) PROVE Protocol'
  BY <1>1, StartKeeps, DialKeeps, SubmitKeeps, AwaitSubmitKeeps, AwaitStatusKeeps, AwaitResultKeeps, StopKeeps,
     CancelKeeps, GivenUpKeeps, CloseKeeps DEF RunStep
<1>2. ASSUME NEW r \in Runs, KdbStep(r) \/ QCancel(r) \/ WorkerEnds(r) \/ CallFails(r) PROVE Protocol'
  BY <1>2, QSubmitKeeps, QStatusKeeps, QResultKeeps, QQueryKeeps, QCancelKeeps, WorkerEndsKeeps, CallFailsKeeps
  DEF KdbStep
<1>3. ASSUME UNCHANGED <<kind, via, pc, reply, job, frames, end, inbox>>, cancelled \subseteq cancelled' PROVE Protocol'
  <2>. SUFFICES ASSUME NEW r \in Runs PROVE Dialogue(r)' /\ Tells(r)' BY DEF Protocol
  <2>1. Sent(r)' = Sent(r) BY <1>3 DEF Sent
  <2>2. Dialogue(r)' BY <1>3, <2>1, RunFacts DEF Dialogue, OneCall, OneJob, Knows, Answered
  <2>3. Tells(r)' BY <1>3, RunFacts, StillTells
  <2>. QED BY <2>2, <2>3
<1>4. ASSUME NEW r \in Runs, CancelContext(r) \/ Expire(r) PROVE Protocol'
  BY <1>3, <1>4 DEF CancelContext, Expire, cvars, kvars, fvars
<1>5. CASE Dispose \/ UNCHANGED vars
  BY <1>3, <1>5 DEF Dispose, vars, cvars, kvars, fvars, env
<1>. QED BY <1>1, <1>2, <1>4, <1>5 DEF Next, Terminated

-----------------------------------------------------------------------------
(* Types. *)

Places == SlotPCs \cup {"start", "ended"}

LEMMA FrameTypes ==
  ASSUME TypeOK, NEW r \in Runs
  PROVE  /\ \A state \in States : Append(frames[r], state) \in Seq(States) /\ Append(Told(r), state) \in Seq(States)
         /\ Logged(frames[r]) \in Seq(States) /\ Told(r) \in Seq(States)
<1>1. frames[r] \in Seq(States) BY DEF TypeOK, States
<1>2. Logged(frames[r]) \in Seq(States) BY <1>1, LoggedFacts
<1>3. Told(r) \in Seq(States) BY <1>1, <1>2 DEF Told
<1>. QED BY <1>1, <1>2, <1>3

(* A run's step is typed when what it writes is. *)
LEMMA MoveTypes ==
  ASSUME TypeOK, NEW r \in Runs, NEW from, NEW to \in Places, Goto(r, from, to),
         UNCHANGED <<kind, via, job, cancelled, expired, shut>>,
         open' \in {open, open \cup {r}, open \ {r}},
         reply' \in {reply, [reply EXCEPT ![r] = "sent"]},
         inbox' \subseteq inbox \cup ({r} \X Functions),
         jobs' \in Nat,
         frames' = frames \/ (\E s \in Seq(States) : frames' = [frames EXCEPT ![r] = s]),
         end' = end \/ (\E x \in Ends : end' = [end EXCEPT ![r] = x]),
         asked' = asked \/ (\E x \in {"sent", "failed"} : asked' = [asked EXCEPT ![r] = x])
  PROVE  TypeOK'
<1>1. pc' \in [Runs -> SlotPCs \cup {"start", "ended"}] BY DEF TypeOK, Goto, Places
<1>2. open' \subseteq Runs BY DEF TypeOK
<1>3. reply' \in [Runs -> {None, "sent", "failed", "ok", "running", "done", "error", "cancelled"}] BY DEF TypeOK
<1>4. inbox' \subseteq Runs \X {"submit", "status", "result", "query", "cancel"} BY DEF TypeOK, Functions
<1>5. frames' \in [Runs -> Seq({"progress", "error", "cancelled", "done"})]
  <2>1. frames \in [Runs -> Seq(States)] BY DEF TypeOK, States
  <2>2. frames' \in [Runs -> Seq(States)] BY <2>1
  <2>. QED BY <2>2 DEF States
<1>6. end' \in [Runs -> {None, "done", "error", "cancelled", "timeout", "gone", "panic"}] BY DEF TypeOK, Ends
<1>7. asked' \in [Runs -> {None, "sent", "failed"}] BY DEF TypeOK
<1>. QED BY <1>1, <1>2, <1>3, <1>4, <1>5, <1>6, <1>7 DEF TypeOK

(* The ways a run's step speaks. *)
LEMMA SpeakTypes ==
  ASSUME TypeOK, NEW r \in Runs, NEW from, NEW to \in Places, NEW cause \in Ends, NEW state \in States,
         \/ Finish(r, from, state, cause, to)
         \/ ReturnError(r, from, cause)
         \/ Report(r, from, to)
         \/ Fail(r, from, cause)
         \/ FinishContext(r, from)
         \/ CallError(r, from)
  PROVE  /\ \E t \in Places : Goto(r, from, t)
         /\ frames' = frames \/ (\E s \in Seq(States) : frames' = [frames EXCEPT ![r] = s])
         /\ end' = end \/ (\E x \in Ends : end' = [end EXCEPT ![r] = x])
         /\ asked' = asked
<1>1. {"close", "cancel", "ended"} \subseteq Places BY DEF Places, SlotPCs
<1>2. Cause(r) \in Ends /\ "gone" \in Ends /\ "error" \in Ends BY DEF Cause, Ends
<1>3. \A x \in States : Append(frames[r], x) \in Seq(States) BY FrameTypes
<1>4. Logged(frames[r]) \in Seq(States) /\ "error" \in States BY FrameTypes DEF States
<1>. QED BY <1>1, <1>2, <1>3, <1>4 DEF Finish, ReturnError, Report, Send, Fail, FinishContext, CallError

LEMMA RunTypes ==
  ASSUME IInv, NEW r \in Runs, RunStep(r) \/ Reject(r) \/ GiveUp(r) \/ StopQuery(r) \/ Running(r)
  PROVE  TypeOK'
<1>1. TypeOK BY DEF IInv
<1>2. {"start", "queued", "dial", "submit", "submitting", "poll", "asking", "fetching", "running", "data",
       "cancel", "cancelling", "close", "release", "ended"} \subseteq Places
  BY DEF Places, SlotPCs
<1>3. {"done", "error", "cancelled", "timeout", "gone", "panic"} \subseteq Ends /\ Cause(r) \in Ends
  BY DEF Cause, Ends
<1>4. {"progress", "error", "cancelled", "done"} = States BY DEF States
<1>5. jobs \in Nat /\ jobs + 1 \in Nat /\ (jobs > 0 => jobs - 1 \in Nat) BY <1>1 DEF TypeOK
<1>6. /\ \A state \in States : Append(frames[r], state) \in Seq(States) /\ Append(Told(r), state) \in Seq(States)
      /\ Logged(frames[r]) \in Seq(States) /\ Told(r) \in Seq(States)
  BY <1>1, FrameTypes
<1>7. ASSUME NEW from, NEW to \in Places, NEW cause \in Ends, NEW state \in States,
             \/ Finish(r, from, state, cause, to)
             \/ ReturnError(r, from, cause)
             \/ Report(r, from, to)
             \/ Fail(r, from, cause)
             \/ FinishContext(r, from)
             \/ CallError(r, from),
             UNCHANGED <<kind, via, job, cancelled, expired, shut, reply, inbox, jobs>>,
             open' \in {open, open \ {r}}
      PROVE  TypeOK'
  <2>1. PICK t \in Places : Goto(r, from, t) BY <1>1, <1>7, SpeakTypes
  <2>2. /\ frames' = frames \/ (\E s \in Seq(States) : frames' = [frames EXCEPT ![r] = s])
        /\ end' = end \/ (\E x \in Ends : end' = [end EXCEPT ![r] = x])
        /\ asked' = asked
    BY <1>1, <1>7, SpeakTypes
  <2>. QED BY <1>1, <1>5, <1>7, <2>1, <2>2, MoveTypes
<1>8. CASE Reject(r) BY <1>2, <1>3, <1>4, <1>7, <1>8 DEF Reject, cvars, kvars, env
<1>9. CASE AcquireAsyncSlot(r)
  <2>1. UNCHANGED <<kind, via, job, cancelled, expired, shut, reply, inbox, open>>
    BY <1>9 DEF AcquireAsyncSlot, AcquireSlot, cvars, kvars, env
  <2>2. CASE Finish(r, "start", "error", "error", "ended") /\ UNCHANGED jobs
    BY <1>2, <1>3, <1>4, <1>7, <2>1, <2>2
  <2>3. CASE /\ \E to \in {"queued", "dial"} : Goto(r, "start", to)
             /\ jobs' = jobs + 1 /\ UNCHANGED <<frames, end, asked>>
    BY <1>1, <1>2, <1>5, <2>1, <2>3, MoveTypes
  <2>4. CASE Goto(r, "start", "ended") /\ end' = [end EXCEPT ![r] = "panic"] /\ UNCHANGED <<jobs, frames, asked>>
    BY <1>1, <1>2, <1>3, <1>5, <2>1, <2>4, MoveTypes
  <2>. QED BY <1>9, <2>2, <2>3, <2>4 DEF AcquireAsyncSlot, AcquireSlot, fvars
<1>10. CASE NoSlot(r)
  BY <1>1, <1>2, <1>5, <1>10, MoveTypes DEF NoSlot, cvars, kvars, fvars, env
<1>11. CASE ReportQueued(r) BY <1>2, <1>3, <1>4, <1>7, <1>11 DEF ReportQueued, cvars, kvars, env
<1>12. CASE Dial(r)
  <2>1. UNCHANGED <<kind, via, job, cancelled, expired, shut, reply, inbox, jobs>> BY <1>12 DEF Dial, cvars, env
  <2>2. CASE Fail(r, "dial", "error") /\ UNCHANGED open BY <1>2, <1>3, <1>4, <1>7, <2>1, <2>2
  <2>3. CASE /\ Goto(r, "dial", "submit") /\ open' = open \cup {r} /\ UNCHANGED <<end, asked>>
             /\ Send(r) \/ UNCHANGED frames
    <3>1. frames' = frames \/ (\E s \in Seq(States) : frames' = [frames EXCEPT ![r] = s])
      BY <1>6, <2>3 DEF Send
    <3>. QED BY <1>1, <1>2, <1>5, <2>1, <2>3, <3>1, MoveTypes
  <2>. QED BY <1>12, <2>2, <2>3 DEF Dial
<1>13. CASE Submit(r) \/ Poll(r)
  <2>1. UNCHANGED <<kind, via, job, cancelled, expired, shut, open, jobs>> BY <1>13 DEF Submit, Poll, cvars, env
  <2>2. CASE Finish(r, "submit", "error", "error", "close") /\ UNCHANGED <<reply, inbox>>
    BY <1>2, <1>3, <1>4, <1>7, <2>1, <2>2
  <2>3. ASSUME NEW from, NEW fn \in Functions, NEW to \in Places, Request(r, from, fn, to), UNCHANGED <<frames, end, asked>>
        PROVE  TypeOK'
    <3>1. Goto(r, from, to) /\ reply' = [reply EXCEPT ![r] = "sent"] /\ inbox' \subseteq inbox \cup ({r} \X Functions)
      BY <2>3 DEF Request
    <3>. QED BY <1>1, <1>5, <2>1, <2>3, <3>1, MoveTypes
  <2>. QED BY <1>2, <1>13, <2>2, <2>3 DEF Submit, Poll, fvars, Functions
<1>14. CASE AwaitSubmit(r)
  BY <1>2, <1>3, <1>4, <1>7, <1>14 DEF AwaitSubmit, Abandon, cvars, env
<1>15. CASE AwaitStatus(r)
  <2>1. UNCHANGED <<kind, via, job, cancelled, expired, shut, jobs>> BY <1>15 DEF AwaitStatus, cvars, env
  <2>2. CASE Abandon(r) /\ FinishContext(r, "asking") /\ UNCHANGED <<reply, inbox>>
    BY <1>2, <1>3, <1>4, <1>7, <2>1, <2>2 DEF Abandon
  <2>3. CASE CallError(r, "asking") /\ UNCHANGED <<open, reply, inbox>>
    BY <1>2, <1>3, <1>4, <1>7, <2>1, <2>3
  <2>4. CASE Report(r, "asking", "poll") /\ UNCHANGED <<open, reply, inbox>>
    BY <1>2, <1>3, <1>4, <1>7, <2>1, <2>4
  <2>5. CASE /\ \E state \in {"error", "cancelled"} : frames' = [frames EXCEPT ![r] = Append(Told(r), state)]
             /\ Goto(r, "asking", "close") /\ end' = [end EXCEPT ![r] = "error"]
             /\ UNCHANGED <<open, reply, inbox, asked>>
    BY <1>1, <1>2, <1>3, <1>4, <1>5, <1>6, <2>1, <2>5, MoveTypes
  <2>6. CASE /\ frames' = [frames EXCEPT ![r] = Told(r)] /\ UNCHANGED <<open, end, asked>>
             /\ \/ Request(r, "asking", "result", "fetching")
                \/ Goto(r, "asking", "data") /\ UNCHANGED <<reply, inbox>>
    <3>1. PICK to \in Places : Goto(r, "asking", to) BY <1>2, <2>6 DEF Request
    <3>2. /\ reply' \in {reply, [reply EXCEPT ![r] = "sent"]}
          /\ inbox' \subseteq inbox \cup ({r} \X Functions)
      BY <2>6 DEF Request, Functions
    <3>. QED BY <1>1, <1>5, <1>6, <2>1, <2>6, <3>1, <3>2, MoveTypes
  <2>. QED BY <1>15, <2>2, <2>3, <2>4, <2>5, <2>6 DEF AwaitStatus, ActOnStatus
<1>16. CASE AwaitResult(r) \/ AwaitQuery(r)
  <2>1. UNCHANGED <<kind, via, job, cancelled, expired, shut, reply, inbox, jobs>>
    BY <1>16 DEF AwaitResult, AwaitQuery, cvars, env
  <2>2. CASE \/ Abandon(r) /\ FinishContext(r, "fetching")
             \/ CallError(r, "fetching") /\ UNCHANGED open
             \/ Finish(r, "running", "error", "error", "close") /\ UNCHANGED open
    BY <1>2, <1>3, <1>4, <1>7, <2>1, <2>2 DEF Abandon
  <2>3. CASE /\ Goto(r, "fetching", "data") \/ Goto(r, "running", "data")
             /\ UNCHANGED <<open, frames, end, asked>>
    BY <1>1, <1>2, <1>5, <2>1, <2>3, MoveTypes
  <2>. QED BY <1>16, <2>2, <2>3 DEF AwaitResult, AwaitQuery, fvars
<1>17. CASE GiveUp(r) \/ Running(r) \/ Deliver(r) \/ StopQuery(r)
  BY <1>2, <1>3, <1>4, <1>7, <1>17 DEF GiveUp, Running, Deliver, StopQuery, cvars, kvars, env
<1>18. CASE Cancel(r)
  <2>1. /\ Goto(r, "cancel", "cancelling") /\ UNCHANGED <<kind, via, job, cancelled, expired, shut, open, reply, jobs, frames, end>>
        /\ inbox' \subseteq inbox \cup ({r} \X Functions)
        /\ \E x \in {"sent", "failed"} : asked' = [asked EXCEPT ![r] = x]
    BY <1>18 DEF Cancel, Functions, cvars, env
  <2>. QED BY <1>1, <1>2, <1>5, <2>1, MoveTypes
<1>19. CASE ReportGivenUp(r)
  <2>1. /\ Goto(r, "cancelling", "close") /\ UNCHANGED <<kind, via, job, cancelled, expired, shut, open, reply, jobs, end>>
        /\ inbox' \subseteq inbox
        /\ asked' = asked \/ asked' = [asked EXCEPT ![r] = "failed"]
        /\ \E state \in States : frames' = [frames EXCEPT ![r] = Append(frames[r], state)]
    BY <1>19 DEF ReportGivenUp, GivenUp, States, cvars, env
  <2>. QED BY <1>1, <1>2, <1>5, <1>6, <2>1, MoveTypes
<1>20. CASE Close(r) \/ ReleaseAsyncSlot(r)
  <2>1. /\ \E from, to \in Places : Goto(r, from, to)
        /\ UNCHANGED <<kind, via, job, cancelled, expired, shut, reply, inbox, frames, end, asked>>
        /\ open' \in {open, open \ {r}}
        /\ jobs' \in Nat
    BY <1>2, <1>5, <1>20 DEF Close, ReleaseAsyncSlot, cvars, kvars, fvars, env
  <2>. QED BY <1>1, <2>1, MoveTypes
<1>. QED BY <1>8, <1>9, <1>10, <1>11, <1>12, <1>13, <1>14, <1>15, <1>16, <1>17, <1>18, <1>19, <1>20 DEF RunStep

LEMMA KdbTypes ==
  ASSUME IInv, NEW r \in Runs, KdbStep(r) \/ QCancel(r) \/ WorkerEnds(r) \/ CallFails(r)
  PROVE  TypeOK'
<1>1. TypeOK BY DEF IInv
<1>2. /\ UNCHANGED <<kind, via, pc, cancelled, expired, shut, open, jobs, frames, end, asked>>
      /\ inbox' \subseteq inbox
  BY DEF KdbStep, QSubmit, QStatus, QResult, QQuery, QCancel, WorkerEnds, CallFails, Take, cvars, fvars, env
<1>3. job' = job \/ (\E x \in JobStates : job' = [job EXCEPT ![r] = x])
  <2>1. job[r] \in JobStates BY <1>1 DEF TypeOK, JobStates
  <2>. QED BY <2>1 DEF KdbStep, QSubmit, QStatus, QResult, QQuery, QCancel, WorkerEnds, CallFails, JobStates
<1>4. reply' = reply \/ (\E x \in Replies : reply' = [reply EXCEPT ![r] = x])
  <2>1. QStatus(r) => job[r] \in Replies
    <3>. SUFFICES ASSUME QStatus(r) PROVE job[r] \in Replies OBVIOUS
    <3>1. "status" \in Sent(r) BY DEF QStatus, Take, Sent, Functions
    <3>2. job[r] # "none" BY <3>1, RunFacts DEF Dialogue, OneJob
    <3>. QED BY <1>1, <3>2 DEF TypeOK, Replies
  <2>2. {"ok", "failed"} \subseteq Replies BY DEF Replies
  <2>. QED BY <2>1, <2>2 DEF KdbStep, QSubmit, QStatus, QResult, QQuery, QCancel, WorkerEnds, CallFails, Answer
<1>5. job' \in [Runs -> {"none", "running", "done", "error", "cancelled"}] BY <1>1, <1>3 DEF TypeOK, JobStates
<1>6. reply' \in [Runs -> {None, "sent", "failed", "ok", "running", "done", "error", "cancelled"}]
  BY <1>1, <1>4 DEF TypeOK, Replies
<1>. QED BY <1>1, <1>2, <1>5, <1>6 DEF TypeOK

LEMMA NextTypes == ASSUME IInv, [Next]_vars PROVE TypeOK'
<1>1. TypeOK BY DEF IInv
<1>2. CASE UNCHANGED vars BY <1>1, <1>2 DEF TypeOK, vars, cvars, kvars, fvars, env
<1>3. ASSUME NEW r \in Runs, CancelContext(r) \/ Expire(r) PROVE TypeOK'
  BY <1>1, <1>3 DEF TypeOK, CancelContext, Expire, cvars, kvars, fvars
<1>4. CASE Dispose BY <1>1, <1>4 DEF TypeOK, Dispose, cvars, kvars, fvars
<1>. QED BY <1>2, <1>3, <1>4, RunTypes, KdbTypes DEF Next, Terminated

-----------------------------------------------------------------------------
(* Slots. *)
LEMMA OwnersFinite == IsFiniteSet(SlotOwners) /\ Cardinality(SlotOwners) \in Nat
<1>1. SlotOwners \subseteq Runs BY DEF SlotOwners
<1>. QED BY <1>1, RunsAssumption, FS_Subset, FS_CardinalityType

(* A run that moves without a token changing hands. *)
LEMMA MoveSlots ==
  ASSUME IInv, NEW r \in Runs, UNCHANGED <<kind, jobs>>, NEW from, NEW to, Goto(r, from, to),
         (from \in SlotPCs <=> to \in SlotPCs) \/ ~Slotted(r),
         open' \subseteq open \cup {r}, r \in open' => to \in Connected,
         to = "release" => Slotted(r)
  PROVE  Slots'
<1>1. pc[r] = from /\ pc'[r] = to /\ (\A x \in Runs \ {r} : pc'[x] = pc[x]) BY Moved DEF IInv
<1>2. SlotOwners' = SlotOwners BY <1>1 DEF SlotOwners, Slotted
<1>3. open' \subseteq Runs BY DEF IInv, TypeOK
<1>4. \A x \in open' : pc'[x] \in Connected BY <1>1, <1>3 DEF IInv, Slots
<1>5. \A x \in Runs : pc'[x] = "release" => Slotted(x)' BY <1>1 DEF IInv, Slots, Slotted
<1>. QED BY <1>2, <1>4, <1>5 DEF IInv, Slots

LEMMA AcquireSlots == ASSUME IInv, NEW r \in Runs, AcquireAsyncSlot(r) PROVE Slots'
<1>1. UNCHANGED <<kind, open>> /\ Slotted(r) BY DEF AcquireAsyncSlot, AcquireSlot, cvars, kvars
<1>2. "start" \notin SlotPCs /\ "ended" \notin SlotPCs /\ {"queued", "dial"} \subseteq SlotPCs
      /\ "start" \notin Connected
  BY DEF SlotPCs, Connected
<1>3. CASE Goto(r, "start", "ended") /\ UNCHANGED jobs
  <2>1. r \notin open BY <1>2, <1>3 DEF IInv, Slots, Goto
  <2>. QED BY <1>1, <1>2, <1>3, <2>1, MoveSlots
<1>4. CASE jobs < MaxJobs /\ jobs' = jobs + 1 /\ \E to \in {"queued", "dial"} : Goto(r, "start", to)
  <2>1. PICK to \in {"queued", "dial"} : Goto(r, "start", to) BY <1>4
  <2>2. pc[r] = "start" /\ pc'[r] = to /\ (\A x \in Runs \ {r} : pc'[x] = pc[x]) BY <2>1, Moved DEF IInv
  <2>3. SlotOwners' = SlotOwners \cup {r} /\ r \notin SlotOwners BY <1>1, <1>2, <2>2 DEF SlotOwners, Slotted
  <2>4. Cardinality(SlotOwners') = Cardinality(SlotOwners) + 1 BY <2>3, OwnersFinite, FS_AddElement
  <2>5. jobs' = Cardinality(SlotOwners') /\ jobs' =< MaxJobs
    BY <1>4, <2>4, MaxJobsAssumption DEF IInv, Slots, TypeOK
  <2>6. \A x \in open' : pc'[x] \in Connected
    <3>1. \A x \in open : x \in Runs /\ x # r BY <1>2, <2>2 DEF IInv, Slots, TypeOK
    <3>. QED BY <1>1, <2>2, <3>1 DEF IInv, Slots
  <2>7. \A x \in Runs : pc'[x] = "release" => Slotted(x)' BY <1>1, <2>2 DEF IInv, Slots, Slotted
  <2>. QED BY <2>5, <2>6, <2>7 DEF Slots
<1>. QED BY <1>3, <1>4 DEF AcquireAsyncSlot, AcquireSlot, Finish

(* A release takes back the token of its run: there is one. *)
LEMMA ReleaseSlots == ASSUME IInv, NEW r \in Runs, ReleaseAsyncSlot(r) PROVE Slots'
<1>1. UNCHANGED <<kind, open>> /\ jobs' = (IF jobs > 0 THEN jobs - 1 ELSE jobs) /\ Goto(r, "release", "ended")
  BY DEF ReleaseAsyncSlot, cvars, kvars
<1>2. pc[r] = "release" /\ pc'[r] = "ended" /\ (\A x \in Runs \ {r} : pc'[x] = pc[x]) BY <1>1, Moved DEF IInv
<1>3. "ended" \notin SlotPCs /\ "release" \in SlotPCs /\ "release" \notin Connected BY DEF SlotPCs, Connected
<1>0. Slotted(r) BY <1>2 DEF IInv, Slots
<1>4. SlotOwners' = SlotOwners \ {r} /\ r \in SlotOwners BY <1>0, <1>1, <1>2, <1>3 DEF SlotOwners, Slotted
<1>5. Cardinality(SlotOwners') = Cardinality(SlotOwners) - 1 BY <1>4, OwnersFinite, FS_RemoveElement
<1>6. SlotOwners # {} BY <1>4
<1>7. Cardinality(SlotOwners) # 0 BY <1>6, OwnersFinite, FS_EmptySet
<1>8. jobs > 0 BY <1>7, OwnersFinite DEF IInv, Slots
<1>9. jobs' = Cardinality(SlotOwners') /\ jobs' =< MaxJobs
  BY <1>1, <1>5, <1>8, MaxJobsAssumption, OwnersFinite DEF IInv, Slots
<1>10. \A x \in open' : pc'[x] \in Connected
  <2>1. \A x \in open : x \in Runs /\ x # r BY <1>2, <1>3 DEF IInv, Slots, TypeOK
  <2>. QED BY <1>1, <1>2, <2>1 DEF IInv, Slots
<1>11. \A x \in Runs : pc'[x] = "release" => Slotted(x)' BY <1>1, <1>2 DEF IInv, Slots, Slotted
<1>. QED BY <1>9, <1>10, <1>11 DEF Slots

(* Steps of kdb+, of the calls and of the environment. *)
LEMMA StillSlots == ASSUME IInv, UNCHANGED <<kind, pc, jobs, open>> PROVE Slots'
BY DEF IInv, Slots, SlotOwners, Slotted

(* The steps of a run between its first and its last. *)
LEMMA SpeakSlots ==
  ASSUME IInv, NEW r \in Runs, NEW from \in Going \ {"start"}, NEW cause, NEW state,
         NEW to \in {"dial", "poll", "running", "close"}, to = "dial" => from = "queued",
         \/ Finish(r, from, state, cause, "close")
         \/ Report(r, from, to)
         \/ ReturnError(r, from, cause)
         \/ Fail(r, from, cause)
         \/ FinishContext(r, from)
         \/ CallError(r, from),
         UNCHANGED <<kind, jobs>>, open' \in {open, open \ {r}}
  PROVE  Slots'
<1>1. PICK t \in {to, "close", "cancel"} : Goto(r, from, t)
  BY DEF Finish, Report, ReturnError, Fail, FinishContext, CallError
<1>2. from \in SlotPCs /\ t \in SlotPCs /\ t # "release" BY DEF Going, Early, SlotPCs
<1>3. r \in open' => t \in Connected
  <2>1. pc[r] = from BY <1>1, Moved DEF IInv
  <2>2. "queued" \notin Connected /\ {"poll", "running", "close", "cancel"} \subseteq Connected BY DEF Connected, SlotPCs
  <2>3. r \in open => from # "queued" BY <2>1, <2>2 DEF IInv, Slots
  <2>. QED BY <2>2, <2>3
<1>. QED BY <1>1, <1>2, <1>3, MoveSlots

LEMMA RunSlots ==
  ASSUME IInv, NEW r \in Runs, RunStep(r) \/ Reject(r) \/ GiveUp(r) \/ StopQuery(r) \/ Running(r)
  PROVE  Slots'
<1>. DEFINE Held == {"submit", "submitting", "poll", "asking", "fetching", "running", "data", "cancel", "cancelling", "close"}
<1>1. /\ Held \subseteq SlotPCs /\ Held \subseteq Connected /\ {"queued", "dial", "release"} \subseteq SlotPCs
      /\ "start" \notin SlotPCs /\ "ended" \notin SlotPCs
      /\ {"start", "queued", "dial", "release", "ended"} \cap Connected = {}
  BY DEF SlotPCs, Connected
<1>2. {"queued", "dial", "submit", "submitting", "poll", "asking", "fetching", "running", "data"} \subseteq Going \ {"start"}
  BY DEF Going, Early
<1>3. ASSUME NEW from \in Held, NEW to \in Held, Goto(r, from, to), UNCHANGED <<kind, jobs, open>> PROVE Slots'
  <2>1. open' \subseteq Runs BY <1>3 DEF IInv, TypeOK
  <2>. QED BY <1>1, <1>3, <2>1, MoveSlots
<1>4. CASE Reject(r) \/ NoSlot(r)
  <2>1. /\ UNCHANGED <<kind, jobs, open>>
        /\ Goto(r, "start", "ended") \/ (~Slotted(r) /\ Goto(r, "start", "dial"))
    BY <1>4 DEF Reject, NoSlot, Finish, cvars, kvars
  <2>2. r \notin open BY <1>1, <2>1 DEF IInv, Slots, Goto
  <2>. QED BY <1>1, <2>1, <2>2, MoveSlots
<1>5. CASE ReportQueued(r) BY <1>2, <1>5, SpeakSlots DEF ReportQueued, cvars, kvars
<1>6. CASE Dial(r)
  <2>1. UNCHANGED <<kind, jobs>> BY <1>6 DEF Dial, cvars
  <2>2. CASE Fail(r, "dial", "error") /\ UNCHANGED open BY <1>2, <2>1, <2>2, SpeakSlots
  <2>3. CASE Goto(r, "dial", "submit") /\ open' = open \cup {r} BY <1>1, <2>1, <2>3, MoveSlots
  <2>. QED BY <1>6, <2>2, <2>3 DEF Dial
<1>7. CASE Submit(r) \/ Poll(r)
  <2>1. UNCHANGED <<kind, jobs, open>> BY <1>7 DEF Submit, Poll, cvars
  <2>2. CASE Finish(r, "submit", "error", "error", "close") BY <1>2, <2>1, <2>2, SpeakSlots
  <2>3. CASE \E to \in {"submitting", "running", "asking"} : Goto(r, "submit", to) \/ Goto(r, "poll", to)
    BY <1>3, <2>1, <2>3
  <2>. QED BY <1>7, <2>2, <2>3 DEF Submit, Poll, Request
<1>8. CASE AwaitSubmit(r) BY <1>2, <1>8, SpeakSlots DEF AwaitSubmit, Abandon, cvars
<1>9. CASE AwaitStatus(r)
  <2>1. UNCHANGED <<kind, jobs>> BY <1>9 DEF AwaitStatus, cvars
  <2>2. CASE \/ Abandon(r) /\ FinishContext(r, "asking")
             \/ CallError(r, "asking") /\ UNCHANGED open
             \/ Report(r, "asking", "poll") /\ UNCHANGED open
    BY <1>2, <2>1, <2>2, SpeakSlots DEF Abandon
  <2>3. CASE UNCHANGED open /\ \E to \in {"close", "fetching", "data"} : Goto(r, "asking", to) BY <1>3, <2>1, <2>3
  <2>. QED BY <1>9, <2>2, <2>3 DEF AwaitStatus, ActOnStatus, Request
<1>10. CASE AwaitResult(r) \/ AwaitQuery(r)
  <2>1. UNCHANGED <<kind, jobs>> BY <1>10 DEF AwaitResult, AwaitQuery, cvars
  <2>2. CASE \/ Abandon(r) /\ FinishContext(r, "fetching")
             \/ CallError(r, "fetching") /\ UNCHANGED open
             \/ Finish(r, "running", "error", "error", "close") /\ UNCHANGED open
    BY <1>2, <2>1, <2>2, SpeakSlots DEF Abandon
  <2>3. CASE UNCHANGED open /\ \E from \in {"fetching", "running"} : Goto(r, from, "data") BY <1>3, <2>1, <2>3
  <2>. QED BY <1>10, <2>2, <2>3 DEF AwaitResult, AwaitQuery
<1>11. CASE GiveUp(r) \/ StopQuery(r) \/ Running(r) \/ Deliver(r)
  BY <1>2, <1>11, SpeakSlots DEF GiveUp, StopQuery, Running, Deliver, cvars, kvars
<1>12. CASE Cancel(r) \/ ReportGivenUp(r)
  <2>1. /\ UNCHANGED <<kind, jobs, open>>
        /\ Goto(r, "cancel", "cancelling") \/ Goto(r, "cancelling", "close")
    BY <1>12 DEF Cancel, ReportGivenUp, GivenUp, cvars
  <2>. QED BY <1>3, <2>1
<1>13. CASE Close(r)
  <2>1. /\ UNCHANGED <<kind, jobs>> /\ open' = open \ {r}
        /\ (Slotted(r) /\ Goto(r, "close", "release")) \/ (~Slotted(r) /\ Goto(r, "close", "ended"))
    BY <1>13 DEF Close, cvars
  <2>. QED BY <1>1, <2>1, MoveSlots
<1>. QED BY <1>4, <1>5, <1>6, <1>7, <1>8, <1>9, <1>10, <1>11, <1>12, <1>13, AcquireSlots, ReleaseSlots DEF RunStep

LEMMA NextSlots == ASSUME IInv, [Next]_vars PROVE Slots'
<1>1. ASSUME NEW r \in Runs, KdbStep(r) \/ QCancel(r) \/ WorkerEnds(r) \/ CallFails(r) \/ CancelContext(r) \/ Expire(r)
      PROVE  Slots'
  BY <1>1, StillSlots DEF KdbStep, QSubmit, QStatus, QResult, QQuery, QCancel, WorkerEnds, CallFails, Take,
     CancelContext, Expire, cvars, kvars
<1>2. CASE Dispose \/ UNCHANGED vars BY <1>2, StillSlots DEF Dispose, vars, cvars, kvars
<1>. QED BY <1>1, <1>2, RunSlots DEF Next, Terminated

-----------------------------------------------------------------------------
LEMMA InitInv == Init => IInv
<1>. SUFFICES ASSUME Init PROVE IInv OBVIOUS
<1>1. \A r \in Runs : /\ pc[r] = "start" /\ frames[r] = <<>> /\ job[r] = "none" /\ Sent(r) = {}
  BY DEF Init, Sent
<1>2. "start" \in Early /\ "start" \notin SlotPCs /\ "start" \notin Ending BY DEF Early, SlotPCs, Ending
<1>3. TypeOK
  <2>1. /\ frames \in [Runs -> Seq({"progress", "error", "cancelled", "done"})]
        /\ pc \in [Runs -> SlotPCs \cup {"start", "ended"}]
    BY DEF Init
  <2>2. /\ open \subseteq Runs /\ inbox \subseteq Runs \X {"submit", "status", "result", "query", "cancel"}
        /\ cancelled \subseteq Runs /\ expired \subseteq Runs /\ shut \in BOOLEAN /\ jobs \in Nat
    BY DEF Init
  <2>. QED BY <2>1, <2>2 DEF Init, TypeOK
<1>4. Slots
  <2>1. SlotOwners = {} BY <1>1, <1>2 DEF SlotOwners
  <2>. QED BY <1>1, <2>1, FS_EmptySet, MaxJobsAssumption DEF Slots, Init
<1>5. ASSUME NEW r \in Runs PROVE Dialogue(r) /\ Tells(r)
  <2>1. Len(frames[r]) = 0 BY <1>1
  <2>2. Finals(r) = {} /\ OnlyProgress(frames[r]) BY <2>1 DEF Finals, OnlyProgress
  <2>. QED BY <1>1, <1>2, <2>2 DEF Dialogue, OneCall, OneJob, Knows, Tells
<1>. QED BY <1>3, <1>4, <1>5 DEF IInv, Protocol

(* What holds of the runs, whatever kdb+, the clients and Dispose do. *)
THEOREM Inductive == Spec => []IInv
<1>1. IInv /\ [Next]_vars => IInv' BY NextTypes, NextSlots, NextProtocol DEF IInv
<1>. QED BY <1>1, InitInv, PTL DEF Spec

(* Runs, calls and jobs stay at their places; a status is never asked of a   *)
(* job that kdb+ does not have.                                              *)
THEOREM TypeCorrect == Spec => []TypeOK
<1>1. IInv => TypeOK BY DEF IInv
<1>. QED BY <1>1, Inductive, PTL

(* acquireAsyncSlot and releaseAsyncSlot keep the tokens of the channel those *)
(* of the legacy and plugin managed runs under way, of which there are never  *)
(* more than AsyncMaxJobs; a run has its slot for as long as its connection.  *)
THEOREM SlotsAccounted == Spec => []SlotAccounting
<1>1. IInv => SlotAccounting
  <2>. SUFFICES ASSUME IInv PROVE SlotAccounting OBVIOUS
  <2>1. \A r \in open : Slotted(r) => r \in SlotOwners BY DEF IInv, TypeOK, Slots, SlotOwners, Connected
  <2>. QED BY <2>1 DEF IInv, Slots, SlotAccounting
<1>. QED BY <1>1, Inductive, PTL

(* A client is told one end of its query, as the last thing, and only a live *)
(* run or one that panicked in acquireAsyncSlot returns without telling one. *)
THEOREM OneEndTold == Spec => []OneFinal
<1>1. IInv => OneFinal
  <2>. SUFFICES ASSUME IInv, NEW r \in Runs
                PROVE  /\ \A i \in Finals(r) : i = Len(frames[r])
                       /\ Finals(r) # {} => pc[r] \in {"close", "release", "ended"}
                       /\ pc[r] = "ended" /\ Finals(r) = {} => end[r] = "panic" \/ Live(r)
    BY DEF OneFinal
  <2>1. Tells(r) BY RunFacts
  <2>2. OnlyProgress(frames[r]) <=> Finals(r) = {} BY DEF OnlyProgress, Finals
  <2>. QED BY <2>1, <2>2 DEF Tells, Ending
<1>. QED BY <1>1, Inductive, PTL

(* A client is told that its query is done only if kdb+ evaluated the job,    *)
(* and that it was cancelled only if somebody asked for that, however the     *)
(* answers, the cancellation and the timeout race.                            *)
THEOREM TruthReported == Spec => []ReportsTruth
<1>1. IInv => ReportsTruth BY RunFacts DEF ReportsTruth, Tells
<1>. QED BY <1>1, Inductive, PTL

-----------------------------------------------------------------------------
(* AsyncJob implements AsyncRun. *)

(* Nobody asks kdb+ to cancel a job before its run's context is over, and    *)
(* only a run that has ended has panicked.                                   *)
Asks ==
  \A r \in Runs :
    /\ pc[r] \in {"cancel", "cancelling"} \/ <<r, "cancel">> \in inbox => Over(r)
    /\ end[r] = "panic" => pc[r] = "ended"

(* The steps that ask for nothing. *)
LEMMA KeepAsks ==
  ASSUME IInv, Asks, NEW r \in Runs, cancelled \subseteq cancelled', expired \subseteq expired',
         \A x \in Runs \ {r} : pc'[x] = pc[x] /\ end'[x] = end[x] /\ (<<x, "cancel">> \in inbox' => <<x, "cancel">> \in inbox),
         pc'[r] \in {"cancel", "cancelling"} \/ <<r, "cancel">> \in inbox' => Over(r),
         end'[r] = "panic" => pc'[r] = "ended"
  PROVE  Asks'
BY DEF Asks, Over

(* A run's step that neither cancels nor panics. *)
LEMMA MoveAsks ==
  ASSUME IInv, Asks, NEW r \in Runs, UNCHANGED <<cancelled, expired>>, NEW from, NEW to, Goto(r, from, to), from # "ended",
         to \in {"cancel", "cancelling"} => Over(r),
         end' = end \/ (\E x : x # "panic" /\ end' = [end EXCEPT ![r] = x]),
         \A x \in Runs : <<x, "cancel">> \in inbox' => <<x, "cancel">> \in inbox \/ (x = r /\ Over(r))
  PROVE  Asks'
<1>1. pc[r] = from /\ pc'[r] = to /\ \A x \in Runs \ {r} : pc'[x] = pc[x] BY Moved DEF IInv
<1>2. end'[r] # "panic" /\ \A x \in Runs \ {r} : end'[x] = end[x] BY <1>1 DEF IInv, TypeOK, Asks
<1>3. <<r, "cancel">> \in inbox' => Over(r) BY DEF Asks
<1>. QED BY <1>1, <1>2, <1>3, KeepAsks

LEMMA SpeakAsks ==
  ASSUME IInv, Asks, NEW r \in Runs, UNCHANGED <<cancelled, expired, inbox>>, NEW from \in Going, NEW to \in Places \ {"cancel", "cancelling"},
         NEW cause \in Ends \ {"panic"}, NEW state,
         \/ Finish(r, from, state, cause, to)
         \/ ReturnError(r, from, cause)
         \/ Report(r, from, to)
         \/ Fail(r, from, cause)
         \/ FinishContext(r, from)
         \/ CallError(r, from)
  PROVE  Asks'
<1>1. from # "ended" BY DEF Going, Early
<1>2. Cause(r) # "panic" BY DEF Cause
<1>3. \E t : Goto(r, from, t) /\ (t \in {"cancel", "cancelling"} => Over(r))
  BY DEF Finish, ReturnError, Report, Fail, FinishContext, CallError
<1>4. end' = end \/ (\E x : x # "panic" /\ end' = [end EXCEPT ![r] = x])
  BY <1>2 DEF Finish, ReturnError, Report, Fail, FinishContext, CallError
<1>. QED BY <1>1, <1>3, <1>4, MoveAsks

LEMMA RunAsks ==
  ASSUME IInv, Asks, NEW r \in Runs, RunStep(r) \/ Reject(r) \/ GiveUp(r) \/ StopQuery(r) \/ Running(r)
  PROVE  Asks'
<1>1. UNCHANGED <<cancelled, expired>>
  BY DEF RunStep, Reject, GiveUp, StopQuery, Running, AcquireAsyncSlot, AcquireSlot, NoSlot, ReportQueued, Dial, Submit,
     AwaitSubmit, Poll, AwaitStatus, AwaitResult, AwaitQuery, Deliver, Cancel, ReportGivenUp, GivenUp, Close,
     ReleaseAsyncSlot, env
<1>2. {"start", "queued", "dial", "submit", "submitting", "poll", "asking", "fetching", "running", "data"} \subseteq Going
  BY DEF Going, Early
<1>3. {"queued", "dial", "submit", "poll", "running", "data", "close", "ended"} \subseteq Places \ {"cancel", "cancelling"}
  BY DEF Places, SlotPCs
<1>4. {"done", "error", "cancelled", "timeout", "gone"} \subseteq Ends \ {"panic"} /\ Cause(r) \in Ends \ {"panic"}
  BY DEF Ends, Cause
<1>5. ASSUME NEW from, NEW to, Goto(r, from, to), from # "ended", to \notin {"cancel", "cancelling"},
             end' = end \/ end' = [end EXCEPT ![r] = "error"],
             \/ inbox' = inbox
             \/ \E fn \in Functions \ {"cancel"} : inbox' = inbox \cup {<<r, fn>>}
      PROVE  Asks'
  <2>1. \A x \in Runs : <<x, "cancel">> \in inbox' => <<x, "cancel">> \in inbox BY <1>5
  <2>. QED BY <1>1, <1>5, <2>1, MoveAsks
<1>6. CASE Reject(r) BY <1>1, <1>2, <1>3, <1>4, <1>6, SpeakAsks DEF Reject, kvars
<1>7. CASE AcquireAsyncSlot(r)
  <2>1. inbox' = inbox BY <1>7 DEF AcquireAsyncSlot, AcquireSlot, kvars
  <2>2. CASE Finish(r, "start", "error", "error", "ended") BY <1>1, <1>2, <1>3, <1>4, <2>1, <2>2, SpeakAsks
  <2>3. CASE UNCHANGED end /\ \E to \in {"queued", "dial"} : Goto(r, "start", to) BY <1>5, <2>1, <2>3
  <2>4. CASE Goto(r, "start", "ended") /\ end' = [end EXCEPT ![r] = "panic"]
    <3>1. pc[r] = "start" /\ pc'[r] = "ended" /\ \A x \in Runs \ {r} : pc'[x] = pc[x] BY <2>4, Moved DEF IInv
    <3>2. \A x \in Runs \ {r} : end'[x] = end[x] BY <2>4 DEF IInv, TypeOK
    <3>3. <<r, "cancel">> \in inbox' => Over(r) BY <2>1 DEF Asks
    <3>. QED BY <1>1, <2>1, <3>1, <3>2, <3>3, KeepAsks
  <2>. QED BY <1>7, <2>2, <2>3, <2>4 DEF AcquireAsyncSlot, AcquireSlot, fvars
<1>8. CASE NoSlot(r) BY <1>5, <1>8 DEF NoSlot, kvars, fvars
<1>9. CASE ReportQueued(r) BY <1>1, <1>2, <1>3, <1>4, <1>9, SpeakAsks DEF ReportQueued, kvars
<1>10. CASE Dial(r)
  <2>1. inbox' = inbox BY <1>10 DEF Dial
  <2>2. CASE Fail(r, "dial", "error") BY <1>1, <1>2, <1>3, <1>4, <2>1, <2>2, SpeakAsks
  <2>3. CASE Goto(r, "dial", "submit") /\ UNCHANGED end BY <1>5, <2>1, <2>3
  <2>. QED BY <1>10, <2>2, <2>3 DEF Dial
<1>11. CASE Submit(r) \/ Poll(r)
  <2>1. CASE Finish(r, "submit", "error", "error", "close") /\ UNCHANGED inbox
    BY <1>1, <1>2, <1>3, <1>4, <2>1, SpeakAsks
  <2>2. CASE UNCHANGED end /\ \/ Request(r, "submit", "query", "running")
                              \/ Request(r, "submit", "submit", "submitting")
                              \/ Request(r, "poll", "status", "asking")
    BY <1>5, <2>2 DEF Request, Functions
  <2>. QED BY <1>11, <2>1, <2>2 DEF Submit, Poll, fvars
<1>12. CASE AwaitSubmit(r)
  BY <1>1, <1>2, <1>3, <1>4, <1>12, SpeakAsks DEF AwaitSubmit
<1>13. CASE AwaitStatus(r)
  <2>1. CASE UNCHANGED inbox /\ \/ FinishContext(r, "asking") \/ CallError(r, "asking") \/ Report(r, "asking", "poll")
    BY <1>1, <1>2, <1>3, <1>4, <2>1, SpeakAsks
  <2>2. CASE UNCHANGED inbox /\ Goto(r, "asking", "close") /\ end' = [end EXCEPT ![r] = "error"] BY <1>5, <2>2
  <2>3. CASE UNCHANGED inbox /\ Goto(r, "asking", "data") /\ UNCHANGED end BY <1>5, <2>3
  <2>4. CASE Request(r, "asking", "result", "fetching") /\ UNCHANGED end BY <1>5, <2>4 DEF Request, Functions
  <2>. QED BY <1>13, <2>1, <2>2, <2>3, <2>4 DEF AwaitStatus, ActOnStatus
<1>14. CASE AwaitResult(r) \/ AwaitQuery(r)
  <2>1. inbox' = inbox BY <1>14 DEF AwaitResult, AwaitQuery
  <2>2. CASE FinishContext(r, "fetching") \/ CallError(r, "fetching") \/ Finish(r, "running", "error", "error", "close")
    BY <1>1, <1>2, <1>3, <1>4, <2>1, <2>2, SpeakAsks
  <2>3. CASE UNCHANGED end /\ \E from \in {"fetching", "running"} : Goto(r, from, "data") BY <1>5, <2>1, <2>3
  <2>. QED BY <1>14, <2>2, <2>3 DEF AwaitResult, AwaitQuery, fvars
<1>15. CASE GiveUp(r) \/ StopQuery(r) \/ Running(r) \/ Deliver(r)
  BY <1>1, <1>2, <1>3, <1>4, <1>15, SpeakAsks DEF GiveUp, StopQuery, Running, Deliver, kvars
<1>16. CASE Cancel(r)
  <2>1. /\ Goto(r, "cancel", "cancelling") /\ UNCHANGED end
        /\ inbox' = inbox \/ inbox' = inbox \cup {<<r, "cancel">>}
    BY <1>16 DEF Cancel
  <2>2. Over(r)
    <3>1. pc[r] = "cancel" BY <2>1, Moved DEF IInv
    <3>. QED BY <3>1 DEF Asks
  <2>. QED BY <1>1, <2>1, <2>2, MoveAsks
<1>17. CASE ReportGivenUp(r)
  <2>1. /\ Goto(r, "cancelling", "close") /\ UNCHANGED end
        /\ inbox' = inbox \/ inbox' = inbox \ {<<r, "cancel">>}
    BY <1>17 DEF ReportGivenUp, GivenUp
  <2>. QED BY <1>1, <2>1, MoveAsks
<1>18. CASE Close(r) \/ ReleaseAsyncSlot(r)
  BY <1>5, <1>18 DEF Close, ReleaseAsyncSlot, kvars, fvars
<1>. QED BY <1>6, <1>7, <1>8, <1>9, <1>10, <1>11, <1>12, <1>13, <1>14, <1>15, <1>16, <1>17, <1>18 DEF RunStep

LEMMA NextAsks == ASSUME IInv, Asks, [Next]_vars PROVE Asks'
<1>1. ASSUME NEW r \in Runs, KdbStep(r) \/ QCancel(r) \/ WorkerEnds(r) \/ CallFails(r) \/ CancelContext(r) \/ Expire(r)
      PROVE  Asks'
  <2>1. /\ UNCHANGED <<pc, end>> /\ cancelled \subseteq cancelled' /\ expired \subseteq expired' /\ inbox' \subseteq inbox
    BY <1>1 DEF KdbStep, QSubmit, QStatus, QResult, QQuery, QCancel, WorkerEnds, CallFails, Take,
       CancelContext, Expire, kvars, fvars, env
  <2>. QED BY <2>1 DEF Asks, Over
<1>2. CASE Dispose \/ UNCHANGED vars BY <1>2 DEF Dispose, vars, cvars, kvars, fvars, env, Asks, Over
<1>. QED BY <1>1, <1>2, RunAsks DEF Next, Terminated

LEMMA AlwaysAsks == Spec => []Asks
<1>1. Init => Asks BY NoneAssumption DEF Init, Asks
<1>2. IInv /\ Asks /\ [Next]_vars => Asks' BY NextAsks
<1>. QED BY <1>1, <1>2, Inductive, PTL DEF Spec

-----------------------------------------------------------------------------
(* The refinement.  A step of a run is a step of AsyncRun for it, or is not  *)
(* visible there.                                                            *)
RefStep == [Run!ANext]_(Run!avars)

World == <<kind, via, cancelled, expired, shut>>

LEMMA Unseen ==
  ASSUME Stages' = Stages, ToldEnds' = ToldEnds, UNCHANGED World, UNCHANGED job
  PROVE  RefStep
<1>1. {r \in Runs : Slotted(r)}' = {r \in Runs : Slotted(r)} /\ {r \in Runs : Live(r)}' = {r \in Runs : Live(r)}
  BY DEF World, Slotted, Live
<1>. QED BY <1>1 DEF RefStep, World, Run!avars

(* The ends told by the frames of a run. *)
LEMMA EndsTold ==
  ASSUME NEW s \in Seq(States)
  PROVE  /\ OnlyProgress(s) => EndTold(s) = None
         /\ EndTold(Logged(s)) \in {None, EndTold(s)}
         /\ \A state \in States \ {"progress"} : EndTold(Append(s, state)) = state
         /\ ~OnlyProgress(s) /\ (\A i \in 1..Len(s) : s[i] # "progress" => i = Len(s)) => EndTold(s) # None
<1>1. Len(s) \in Nat /\ (s # <<>> => Len(s) \in 1..Len(s)) OBVIOUS
<1>2. OnlyProgress(s) => EndTold(s) = None BY <1>1 DEF OnlyProgress, EndTold
<1>3. \A x \in States : /\ Append(s, x) # <<>> /\ Append(s, x)[Len(Append(s, x))] = x
  OBVIOUS
<1>4. EndTold(Logged(s)) \in {None, EndTold(s)} BY <1>3 DEF EndTold, Logged, States
<1>5. \A state \in States \ {"progress"} : EndTold(Append(s, state)) = state BY <1>3 DEF EndTold
<1>6. ASSUME ~OnlyProgress(s), \A i \in 1..Len(s) : s[i] # "progress" => i = Len(s) PROVE EndTold(s) # None
  <2>1. PICK i \in 1..Len(s) : s[i] # "progress" BY <1>6 DEF OnlyProgress
  <2>2. i = Len(s) /\ s[Len(s)] \in States \ {"progress"} BY <1>6, <2>1
  <2>3. s # <<>> BY <2>1
  <2>. QED BY <2>2, <2>3, NoneAssumption DEF EndTold, States
<1>. QED BY <1>2, <1>4, <1>5, <1>6

LEMMA ToldMoves ==
  ASSUME TypeOK, NEW r \in Runs
  PROVE  /\ frames' = frames => ToldEnds' = ToldEnds
         /\ \A s : frames' = [frames EXCEPT ![r] = s] => ToldEnds' = [ToldEnds EXCEPT ![r] = EndTold(s)]
<1>1. frames' = frames => ToldEnds' = ToldEnds BY DEF ToldEnds
<1>2. ASSUME NEW s, frames' = [frames EXCEPT ![r] = s] PROVE ToldEnds' = [ToldEnds EXCEPT ![r] = EndTold(s)]
  <2>1. frames'[r] = s /\ \A x \in Runs \ {r} : frames'[x] = frames[x] BY <1>2 DEF TypeOK
  <2>. QED BY <2>1 DEF ToldEnds
<1>. QED BY <1>1, <1>2

LEMMA StageMoves ==
  ASSUME TypeOK, NEW r \in Runs, NEW from, NEW to, Goto(r, from, to)
  PROVE  /\ Stages[r] = StageOf(from)
         /\ Stages' = [Stages EXCEPT ![r] = StageOf(to)]
         /\ StageOf(from) = StageOf(to) => Stages' = Stages
<1>1. pc[r] = from /\ pc'[r] = to /\ \A x \in Runs \ {r} : pc'[x] = pc[x] BY Moved
<1>. QED BY <1>1 DEF Stages

(* A run that goes on, with or without a word. *)
LEMMA GoesOn ==
  ASSUME IInv, NEW r \in Runs, NEW from, NEW to, Goto(r, from, to), StageOf(from) = StageOf(to),
         \/ frames' = frames
         \/ from \notin Ending /\ frames' = [frames EXCEPT ![r] = Logged(frames[r])],
         UNCHANGED World, UNCHANGED job
  PROVE  RefStep
<1>1. TypeOK /\ frames[r] \in Seq(States) BY RunFacts
<1>2. Stages' = Stages BY <1>1, StageMoves
<1>3. ToldEnds' = ToldEnds
  <2>1. CASE frames' = frames BY <1>1, <2>1, ToldMoves
  <2>2. CASE from \notin Ending /\ frames' = [frames EXCEPT ![r] = Logged(frames[r])]
    <3>1. pc[r] = from BY <1>1, Moved
    <3>2. EndTold(frames[r]) = None BY <1>1, <2>2, <3>1, RunFacts, EndsTold
    <3>3. EndTold(Logged(frames[r])) = EndTold(frames[r]) BY <1>1, <3>2, EndsTold
    <3>4. ToldEnds' = [ToldEnds EXCEPT ![r] = EndTold(frames[r])] BY <1>1, <2>2, <3>3, ToldMoves
    <3>. QED BY <3>4 DEF ToldEnds
  <2>. QED BY <2>1, <2>2
<1>. QED BY <1>2, <1>3, Unseen

(* A run that tells its end. *)
LEMMA TellsEnd ==
  ASSUME IInv, NEW r \in Runs, NEW from \in Going \ {"start"}, Goto(r, from, "close"),
         NEW s \in Seq(States), NEW state \in States \ {"progress"}, frames' = [frames EXCEPT ![r] = Append(s, state)],
         state = "done" => job[r] = "done", state = "cancelled" => r \in cancelled \/ job[r] = "cancelled",
         UNCHANGED World, UNCHANGED job
  PROVE  RefStep
<1>1. TypeOK /\ frames[r] \in Seq(States) BY RunFacts
<1>2. pc[r] = from /\ OnlyProgress(frames[r]) BY <1>1, RunFacts, Moved DEF Going, Early, Ending
<1>3. StageOf(from) = "going" /\ StageOf("close") = "going" BY DEF Going, Early, StageOf
<1>4. Stages' = Stages /\ Stages[r] = "going" BY <1>1, <1>3, StageMoves
<1>5. ToldEnds[r] = None BY <1>1, <1>2, EndsTold DEF ToldEnds
<1>6. ToldEnds' = [ToldEnds EXCEPT ![r] = state]
  <2>1. EndTold(Append(s, state)) = state BY EndsTold
  <2>. QED BY <1>1, <2>1, ToldMoves
<1>7. {x \in Runs : Slotted(x)}' = {x \in Runs : Slotted(x)} /\ {x \in Runs : Live(x)}' = {x \in Runs : Live(x)}
  BY DEF World, Slotted, Live
<1>8. state \in {"done", "error", "cancelled"} BY DEF States
<1>9. Run!Tell(r) BY <1>4, <1>5, <1>6, <1>7, <1>8 DEF Run!Tell, World
<1>. QED BY <1>9 DEF RefStep, Run!ANext

(* A run is over. *)
LEMMA Leaves ==
  ASSUME IInv, Asks, NEW r \in Runs, NEW from \in {"close", "release"}, Goto(r, from, "ended"), frames' = frames,
         UNCHANGED World, UNCHANGED job
  PROVE  RefStep
<1>1. TypeOK /\ frames[r] \in Seq(States) /\ Tells(r) BY RunFacts
<1>2. pc[r] = from BY <1>1, Moved
<1>3. ToldEnds' = ToldEnds BY <1>1, ToldMoves
<1>4. Stages[r] = "going" /\ Stages' = [Stages EXCEPT ![r] = "over"] BY <1>1, StageMoves DEF StageOf
<1>5. ToldEnds[r] # None \/ Live(r)
  <2>1. CASE OnlyProgress(frames[r])
    <3>1. end[r] # "panic" BY <1>2 DEF Asks
    <3>. QED BY <1>1, <1>2, <2>1, <3>1 DEF Tells, Ending
  <2>2. CASE ~OnlyProgress(frames[r])
    <3>1. \A i \in 1..Len(frames[r]) : frames[r][i] # "progress" => i = Len(frames[r]) BY <1>1 DEF Tells, Finals
    <3>. QED BY <1>1, <2>2, <3>1, EndsTold DEF ToldEnds
  <2>. QED BY <2>1, <2>2
<1>6. {x \in Runs : Slotted(x)}' = {x \in Runs : Slotted(x)} /\ {x \in Runs : Live(x)}' = {x \in Runs : Live(x)}
  BY DEF World, Slotted, Live
<1>7. Run!Leave(r) BY <1>3, <1>4, <1>5, <1>6 DEF Run!Leave, Run!Stage, World
<1>. QED BY <1>7 DEF RefStep, Run!ANext

(* The ways in which a run between its first step and its last speaks. *)
LEMMA SpeaksRefined ==
  ASSUME IInv, NEW r \in Runs, NEW from \in Going \ {"start"}, NEW to \in Going \ {"start"}, NEW cause,
         NEW state \in States \ {"progress"}, state = "done" => job[r] = "done", state = "cancelled" => r \in cancelled,
         \/ Finish(r, from, state, cause, "close")
         \/ ReturnError(r, from, cause)
         \/ Report(r, from, to)
         \/ Fail(r, from, cause)
         \/ FinishContext(r, from)
         \/ CallError(r, from),
         UNCHANGED World, UNCHANGED job
  PROVE  RefStep
<1>1. frames[r] \in Seq(States) BY RunFacts
<1>2. \A x \in (Going \ {"start"}) \cup {"close"} : StageOf(x) = "going" BY DEF Going, Early, StageOf
<1>3. from \notin Ending /\ "cancel" \in Going \ {"start"} BY DEF Going, Early, Ending
<1>4. ASSUME NEW why, NEW x \in States \ {"progress"}, Finish(r, from, x, why, "close"),
             x = "done" => job[r] = "done", x = "cancelled" => r \in cancelled
      PROVE  RefStep
  <2>1. Goto(r, from, "close") /\ frames' = [frames EXCEPT ![r] = Append(frames[r], x)] BY <1>4 DEF Finish
  <2>. QED BY <1>1, <1>4, <2>1, TellsEnd
<1>5. ASSUME NEW why, Finish(r, from, "error", why, "close") PROVE RefStep BY <1>4, <1>5 DEF States
<1>6. ASSUME NEW why, ReturnError(r, from, why) PROVE RefStep
  <2>1. Goto(r, from, "close") /\ frames' = frames BY <1>6 DEF ReturnError
  <2>. QED BY <1>2, <2>1, GoesOn
<1>7. CASE Report(r, from, to)
  <2>1. CASE Goto(r, from, to) /\ Send(r)
    <3>1. frames' = [frames EXCEPT ![r] = Logged(frames[r])] BY <2>1 DEF Send
    <3>. QED BY <1>2, <1>3, <2>1, <3>1, GoesOn
  <2>. QED BY <1>6, <1>7, <2>1 DEF Report
<1>8. ASSUME FinishContext(r, from) PROVE RefStep
  <2>1. Goto(r, from, "cancel") /\ frames' = frames BY <1>8 DEF FinishContext
  <2>. QED BY <1>2, <1>3, <2>1, GoesOn
<1>. QED BY <1>4, <1>5, <1>6, <1>7, <1>8 DEF Fail, CallError

(* A limited run is admitted when there is a token for it. *)
LEMMA StartRefined ==
  ASSUME IInv, NEW r \in Runs, Reject(r) \/ AcquireAsyncSlot(r) \/ NoSlot(r)
  PROVE  RefStep
<1>1. UNCHANGED World /\ UNCHANGED job
  BY DEF Reject, AcquireAsyncSlot, AcquireSlot, NoSlot, cvars, kvars, env, World
<1>2. TypeOK /\ frames[r] \in Seq(States) BY RunFacts
<1>3. {x \in Runs : Slotted(x)}' = {x \in Runs : Slotted(x)} /\ {x \in Runs : Live(x)}' = {x \in Runs : Live(x)}
  BY <1>1 DEF World, Slotted, Live
<1>4. \A to : Goto(r, "start", to) => Stages[r] = "new" /\ Stages' = [Stages EXCEPT ![r] = StageOf(to)]
  BY <1>2, StageMoves DEF StageOf
<1>5. CASE Finish(r, "start", "error", "error", "ended")
  <2>1. Goto(r, "start", "ended") /\ frames' = [frames EXCEPT ![r] = Append(frames[r], "error")]
    BY <1>5 DEF Finish
  <2>2. EndTold(Append(frames[r], "error")) = "error" BY <1>2, EndsTold DEF States
  <2>3. ToldEnds' = [ToldEnds EXCEPT ![r] = "error"] BY <1>2, <2>1, <2>2, ToldMoves
  <2>4. Stages[r] = "new" /\ Stages' = [Stages EXCEPT ![r] = "over"] BY <1>4, <2>1 DEF StageOf
  <2>5. Run!Refuse(r) BY <1>1, <1>3, <2>3, <2>4 DEF Run!Refuse, Run!Stage, World
  <2>. QED BY <2>5 DEF RefStep, Run!ANext
<1>6. CASE Goto(r, "start", "ended") /\ frames' = frames /\ shut /\ Slotted(r)
  <2>1. ToldEnds' = ToldEnds BY <1>2, <1>6, ToldMoves
  <2>2. Stages[r] = "new" /\ Stages' = [Stages EXCEPT ![r] = "over"] BY <1>4, <1>6 DEF StageOf
  <2>3. Run!Refuse(r) BY <1>1, <1>3, <1>6, <2>1, <2>2 DEF Run!Refuse, Run!Stage, World
  <2>. QED BY <2>3 DEF RefStep, Run!ANext
<1>7. ASSUME NEW to \in {"queued", "dial"}, Goto(r, "start", to), frames' = frames, Slotted(r) => ~shut /\ jobs < MaxJobs
      PROVE  RefStep
  <2>1. ToldEnds' = ToldEnds BY <1>2, <1>7, ToldMoves
  <2>2. Stages[r] = "new" /\ Stages' = [Stages EXCEPT ![r] = "going"] BY <1>4, <1>7 DEF StageOf
  <2>3. {x \in {y \in Runs : Slotted(y)} : Stages[x] = "going"} = SlotOwners
    <3>1. \A x \in Runs : Stages[x] = "going" <=> pc[x] \in SlotPCs
      BY <1>2 DEF TypeOK, Stages, StageOf, SlotPCs
    <3>. QED BY <3>1 DEF SlotOwners
  <2>4. Run!Cardinality(SlotOwners) = jobs
    <3>1. Run!Cardinality(SlotOwners) = Cardinality(SlotOwners) BY DEF Cardinality, Run!Cardinality
    <3>. QED BY <3>1 DEF IInv, Slots
  <2>5. Run!Admit(r) BY <1>1, <1>3, <1>7, <2>1, <2>2, <2>3, <2>4 DEF Run!Admit, Run!Stage, World
  <2>. QED BY <2>5 DEF RefStep, Run!ANext
<1>. QED BY <1>5, <1>6, <1>7 DEF Reject, AcquireAsyncSlot, AcquireSlot, NoSlot, fvars

LEMMA RunRefined ==
  ASSUME IInv, Asks, NEW r \in Runs, RunStep(r) \/ GiveUp(r) \/ StopQuery(r) \/ Running(r)
  PROVE  RefStep
<1>1. UNCHANGED World /\ UNCHANGED job
  BY DEF RunStep, GiveUp, StopQuery, Running, AcquireAsyncSlot, AcquireSlot, NoSlot, ReportQueued, Dial, Submit,
     AwaitSubmit, Poll, AwaitStatus, AwaitResult, AwaitQuery, Deliver, Cancel, ReportGivenUp, GivenUp, Close,
     ReleaseAsyncSlot, cvars, kvars, env, World
<1>2. {"queued", "dial", "submit", "submitting", "poll", "asking", "fetching", "running", "data"} \subseteq Going \ {"start"}
  BY DEF Going, Early
<1>3. {"done", "error", "cancelled"} = States \ {"progress"} BY DEF States
<1>4. ASSUME NEW from, NEW to, Goto(r, from, to), {from, to} \cap {"start", "ended"} = {}, frames' = frames PROVE RefStep
  <2>1. StageOf(from) = StageOf(to) BY <1>4 DEF StageOf
  <2>. QED BY <1>1, <1>4, <2>1, GoesOn
<1>5. CASE ReportQueued(r) BY <1>1, <1>2, <1>3, <1>5, SpeaksRefined DEF ReportQueued
<1>6. CASE Dial(r)
  <2>1. CASE Fail(r, "dial", "error") BY <1>1, <1>2, <1>3, <2>1, SpeaksRefined
  <2>2. CASE Goto(r, "dial", "submit") /\ (Send(r) \/ UNCHANGED frames)
    <3>1. StageOf("dial") = StageOf("submit") /\ "dial" \notin Ending BY DEF StageOf, Ending
    <3>. QED BY <1>1, <2>2, <3>1, GoesOn DEF Send
  <2>. QED BY <1>6, <2>1, <2>2 DEF Dial
<1>7. CASE Submit(r) \/ Poll(r)
  <2>1. CASE Finish(r, "submit", "error", "error", "close") BY <1>1, <1>2, <1>3, <2>1, SpeaksRefined
  <2>2. CASE UNCHANGED frames /\ \/ Request(r, "submit", "query", "running")
                                 \/ Request(r, "submit", "submit", "submitting")
                                 \/ Request(r, "poll", "status", "asking")
    BY <1>4, <2>2 DEF Request
  <2>. QED BY <1>7, <2>1, <2>2 DEF Submit, Poll, fvars
<1>8. CASE AwaitSubmit(r) BY <1>1, <1>2, <1>3, <1>8, SpeaksRefined DEF AwaitSubmit
<1>9. CASE AwaitStatus(r)
  <2>1. CASE FinishContext(r, "asking") \/ CallError(r, "asking") \/ Report(r, "asking", "poll")
    BY <1>1, <1>2, <1>3, <2>1, SpeaksRefined
  <2>2. frames[r] \in Seq(States) /\ Told(r) \in {frames[r], Logged(frames[r])} /\ Told(r) \in Seq(States)
    BY RunFacts, LoggedFacts DEF Told
  <2>3. ASSUME NEW state \in {"error", "cancelled"}, state = "cancelled" => reply[r] = "cancelled",
               Goto(r, "asking", "close"), frames' = [frames EXCEPT ![r] = Append(Told(r), state)]
        PROVE  RefStep
    <3>1. pc[r] = "asking" BY <2>3, RunFacts, Moved
    <3>2. state = "cancelled" => job[r] = "cancelled" BY <2>3, <3>1, RunFacts DEF Dialogue, Knows
    <3>. QED BY <1>1, <1>2, <1>3, <2>2, <2>3, <3>2, TellsEnd
  <2>4. ASSUME NEW to \in {"fetching", "data"}, Goto(r, "asking", to), frames' = [frames EXCEPT ![r] = Told(r)]
        PROVE  RefStep
    <3>1. frames' = frames \/ frames' = [frames EXCEPT ![r] = Logged(frames[r])]
      BY <2>2, <2>4, RunFacts DEF TypeOK
    <3>2. StageOf("asking") = StageOf(to) /\ "asking" \notin Ending BY DEF StageOf, Ending
    <3>. QED BY <1>1, <2>4, <3>1, <3>2, GoesOn
  <2>. QED BY <1>9, <2>1, <2>3, <2>4 DEF AwaitStatus, ActOnStatus, Request
<1>10. CASE AwaitResult(r) \/ AwaitQuery(r)
  <2>1. CASE FinishContext(r, "fetching") \/ CallError(r, "fetching") \/ Finish(r, "running", "error", "error", "close")
    BY <1>1, <1>2, <1>3, <2>1, SpeaksRefined
  <2>2. CASE UNCHANGED frames /\ \E from \in {"fetching", "running"} : Goto(r, from, "data") BY <1>4, <2>2
  <2>. QED BY <1>10, <2>1, <2>2 DEF AwaitResult, AwaitQuery, fvars
<1>11. CASE GiveUp(r) \/ StopQuery(r) \/ Running(r)
  BY <1>1, <1>2, <1>3, <1>11, SpeaksRefined DEF GiveUp, StopQuery, Running
<1>12. CASE Deliver(r)
  <2>1. job[r] = "done"
    <3>1. pc[r] = "data" BY <1>12 DEF Deliver, Finish, ReturnError, Goto
    <3>. QED BY <3>1, RunFacts DEF Dialogue, Knows
  <2>. QED BY <1>1, <1>2, <1>3, <1>12, <2>1, SpeaksRefined DEF Deliver
<1>13. CASE Cancel(r) BY <1>4, <1>13 DEF Cancel
<1>14. CASE ReportGivenUp(r)
  <2>. DEFINE state == IF end[r] = "cancelled" THEN "cancelled" ELSE "error"
  <2>1. Goto(r, "cancelling", "close") /\ frames' = [frames EXCEPT ![r] = Append(frames[r], state)]
    BY <1>14 DEF ReportGivenUp, GivenUp
  <2>2. pc[r] = "cancelling" /\ frames[r] \in Seq(States) BY <2>1, RunFacts, Moved
  <2>3. state = "cancelled" => r \in cancelled BY <2>2, RunFacts DEF Tells
  <2>4. state \in States \ {"progress"} /\ state # "done" /\ "cancelling" \in Going \ {"start"} BY DEF States, Going
  <2>. HIDE DEF state
  <2>. QED BY <1>1, <2>1, <2>2, <2>3, <2>4, TellsEnd
<1>15. CASE Close(r) \/ ReleaseAsyncSlot(r)
  <2>1. frames' = frames /\ \/ Goto(r, "close", "release")
                            \/ Goto(r, "close", "ended")
                            \/ Goto(r, "release", "ended")
    BY <1>15 DEF Close, ReleaseAsyncSlot, fvars
  <2>2. CASE Goto(r, "close", "release") BY <1>4, <2>1, <2>2
  <2>. QED BY <1>1, <2>1, <2>2, Leaves
<1>. QED BY <1>5, <1>6, <1>7, <1>8, <1>9, <1>10, <1>11, <1>12, <1>13, <1>14, <1>15, StartRefined DEF RunStep

(* A job becomes what the instance says of it. *)
LEMMA JobRefined ==
  ASSUME TypeOK, NEW r \in Runs, UNCHANGED <<kind, via, pc, frames, cancelled, expired, shut>>,
         NEW to, job' = [job EXCEPT ![r] = to],
         \/ to = job[r]
         \/ job[r] = "none" /\ to \in {"running", "done", "error"} /\ pc[r] # "start"
         \/ job[r] = "running" /\ to \in {"done", "error"}
         \/ job[r] = "running" /\ to = "cancelled" /\ Over(r)
  PROVE  RefStep
<1>1. UNCHANGED World BY DEF World
<1>2. Stages' = Stages /\ ToldEnds' = ToldEnds BY DEF Stages, ToldEnds
<1>3. {x \in Runs : Slotted(x)}' = {x \in Runs : Slotted(x)} /\ {x \in Runs : Live(x)}' = {x \in Runs : Live(x)}
  BY DEF Slotted, Live
<1>4. CASE to = job[r]
  <2>1. job' = job BY <1>4 DEF TypeOK
  <2>. QED BY <1>1, <1>2, <2>1, Unseen
<1>5. ASSUME NEW from, job[r] = from, NEW states, to \in states PROVE Run!Becomes(r, from, states)
  BY <1>2, <1>3, <1>5 DEF Run!Becomes
<1>6. CASE job[r] = "none" /\ to \in {"running", "done", "error"} /\ pc[r] # "start"
  <2>1. Stages[r] # "new" BY <1>6 DEF Stages, StageOf
  <2>2. Run!Create(r) BY <1>5, <1>6, <2>1 DEF Run!Create
  <2>. QED BY <2>2 DEF RefStep, Run!ANext
<1>7. CASE job[r] = "running" /\ to \in {"done", "error"}
  <2>1. Run!Work(r) BY <1>5, <1>7 DEF Run!Work
  <2>. QED BY <2>1 DEF RefStep, Run!ANext
<1>8. CASE job[r] = "running" /\ to = "cancelled" /\ Over(r)
  <2>1. Run!Drop(r) BY <1>5, <1>8 DEF Run!Drop, Over
  <2>. QED BY <2>1 DEF RefStep, Run!ANext
<1>. QED BY <1>4, <1>6, <1>7, <1>8

LEMMA KdbRefined ==
  ASSUME IInv, Asks, NEW r \in Runs, KdbStep(r) \/ QCancel(r) \/ WorkerEnds(r) \/ CallFails(r)
  PROVE  RefStep
<1>1. TypeOK /\ Dialogue(r) BY RunFacts
<1>2. UNCHANGED <<kind, via, pc, frames, cancelled, expired, shut>>
  BY DEF KdbStep, QSubmit, QStatus, QResult, QQuery, QCancel, WorkerEnds, CallFails, Take, cvars, fvars, env
<1>3. job[r] \in JobStates /\ job = [job EXCEPT ![r] = job[r]] BY <1>1 DEF TypeOK, JobStates
<1>4. ASSUME job' = job PROVE RefStep BY <1>1, <1>2, <1>3, <1>4, JobRefined
<1>5. CASE QSubmit(r) \/ QQuery(r)
  <2>1. "submit" \in Sent(r) \/ "query" \in Sent(r) BY <1>5 DEF QSubmit, QQuery, Take, Sent, Functions
  <2>2. job[r] = "none" /\ pc[r] # "start" BY <1>1, <2>1 DEF Dialogue, OneJob, OneCall, Early
  <2>3. job' = job \/ \E to \in {"running", "done", "error"} : job' = [job EXCEPT ![r] = to]
    BY <1>5 DEF QSubmit, QQuery
  <2>. QED BY <1>1, <1>2, <1>4, <2>2, <2>3, JobRefined
<1>6. CASE QStatus(r) \/ QResult(r) \/ CallFails(r) BY <1>4, <1>6 DEF QStatus, QResult, CallFails
<1>7. CASE QCancel(r)
  <2>1. Over(r) BY <1>7 DEF QCancel, Take, Asks
  <2>2. job' = [job EXCEPT ![r] = IF job[r] \in {"none", "done", "error"} THEN job[r] ELSE "cancelled"] BY <1>7 DEF QCancel
  <2>3. CASE job[r] \in {"none", "done", "error", "cancelled"}
    <3>1. job' = job BY <1>3, <2>2, <2>3
    <3>. QED BY <1>4, <3>1
  <2>4. CASE job[r] = "running"
    <3>1. job' = [job EXCEPT ![r] = "cancelled"] BY <2>2, <2>4
    <3>. QED BY <1>1, <1>2, <2>1, <2>4, <3>1, JobRefined
  <2>. QED BY <1>3, <2>3, <2>4 DEF JobStates
<1>8. CASE WorkerEnds(r)
  <2>1. job[r] = "running" /\ \E to \in {"done", "error"} : job' = [job EXCEPT ![r] = to] BY <1>8 DEF WorkerEnds
  <2>. QED BY <1>1, <1>2, <2>1, JobRefined
<1>. QED BY <1>5, <1>6, <1>7, <1>8 DEF KdbStep

LEMMA WorldRefined ==
  ASSUME IInv, (\E r \in Runs : CancelContext(r) \/ Expire(r)) \/ Dispose
  PROVE  RefStep
<1>1. UNCHANGED <<kind, via, pc, frames, job>> BY DEF CancelContext, Expire, Dispose, cvars, kvars, fvars
<1>2. Stages' = Stages /\ ToldEnds' = ToldEnds BY <1>1 DEF Stages, ToldEnds
<1>3. {x \in Runs : Slotted(x)}' = {x \in Runs : Slotted(x)} /\ {x \in Runs : Live(x)}' = {x \in Runs : Live(x)}
  BY <1>1 DEF Slotted, Live
<1>4. CASE Dispose
  <2>1. Run!Shut BY <1>1, <1>2, <1>3, <1>4 DEF Run!Shut, Dispose
  <2>. QED BY <2>1 DEF RefStep, Run!ANext
<1>5. ASSUME NEW r \in Runs, CancelContext(r) \/ Expire(r) PROVE RefStep
  <2>1. /\ pc[r] \in Attended /\ shut' = shut
        /\ \/ cancelled' = cancelled \cup {r} /\ expired' = expired
           \/ expired' = expired \cup {r} /\ cancelled' = cancelled
    BY <1>5 DEF CancelContext, Expire, Timed
  <2>2. pc[r] # "ended" /\ pc[r] \notin Ending BY <2>1 DEF Attended, Ending
  <2>3. Stages[r] # "over" BY <2>2 DEF Stages, StageOf
  <2>4. ToldEnds[r] = None BY <2>2, RunFacts, EndsTold DEF ToldEnds
  <2>5. Run!Interrupt(r) BY <1>1, <1>2, <1>3, <2>1, <2>3, <2>4 DEF Run!Interrupt
  <2>. QED BY <2>5 DEF RefStep, Run!ANext
<1>. QED BY <1>4, <1>5

LEMMA RefInit == Init => Run!AInit
<1>. SUFFICES ASSUME Init PROVE Run!AInit OBVIOUS
<1>1. Stages = [r \in Runs |-> "new"] BY DEF Init, Stages, StageOf
<1>2. ToldEnds = [r \in Runs |-> None] BY DEF Init, ToldEnds, EndTold
<1>. QED BY <1>1, <1>2 DEF Init, Run!AInit

LEMMA RefNext == ASSUME IInv, Asks, [Next]_vars PROVE RefStep
<1>1. CASE UNCHANGED vars
  <2>1. UNCHANGED World /\ UNCHANGED <<pc, frames, job>> BY <1>1 DEF vars, World, cvars, kvars, fvars, env
  <2>2. Stages' = Stages /\ ToldEnds' = ToldEnds BY <2>1 DEF Stages, ToldEnds
  <2>. QED BY <2>1, <2>2, Unseen
<1>2. ASSUME NEW r \in Runs, Reject(r) PROVE RefStep BY <1>2, StartRefined
<1>. QED BY <1>1, <1>2, RunRefined, KdbRefined, WorldRefined DEF Next, Terminated

(* The runs of the three kinds implement AsyncRun, for any number of runs and *)
(* slots: however calls, answers, cancellations, timeouts, late requests and *)
(* Dispose race, limited runs have a slot, a run tells one end, as it is on  *)
(* kdb+, and no job is stopped whose client still waits in time.             *)
THEOREM RunsImplementAsyncRun == Spec => RunSpec
<1>1. IInv /\ Asks /\ [Next]_vars => [Run!ANext]_(Run!avars) BY RefNext DEF RefStep
<1>. QED BY <1>1, RefInit, Inductive, AlwaysAsks, PTL DEF Spec, RunSpec, Run!ASpec
=============================================================================
