------------------------------ MODULE MCLiveStream ------------------------------
(* Publications of one or two frames, of two schemas and times that ascend or *)
(* do not.                                                                    *)
EXTENDS LiveSessions

F(key, schema, times) == [key |-> key, schema |-> schema, rows |-> times]

MCPayloads ==
  {<<F("a", "s", <<1, 4>>), F("b", "s", <<2>>)>>, <<F("a", "s", <<5>>)>>, <<F("a", "t", <<3, None>>)>>}

(* The page under everything that can be published, while nothing fails. *)
QuietBackend ==
  /\ breaks = 0 /\ left = {} /\ \A r \in Runs : late[r] = {} /\ ctx[r] # "ended" /\ Len(inbox[r]) <= 1
  /\ \A r \in Runs : /\ inbox[r] # <<>> => pc[r] \in {"start", "read"}
                     /\ watcher[r] = "spawned" => pc[r] \in {"check", "ended"}
  /\ \A h \in Handles : owner[h] # Pool
  /\ limits # {3}

(* Every failure and interleaving of the runs, while the page hears nothing; *)
(* the sync pool takes a handle the first run had, the network breaks the     *)
(* first run's connection.                                                   *)
Plain(frames) == \A k \in DOMAIN frames : frames[k].key = "a" /\ frames[k].schema = "s" /\ Len(frames[k].rows) = 1
QuietPage ==
  /\ heard = <<>> /\ limits \subseteq {2} /\ pubs <= 1
  /\ \A r \in Runs : Plain(hand[r]) /\ \A k \in DOMAIN inbox[r] : Plain(inbox[r][k].frames) /\ inbox[r][k].kind # "error"
  /\ \A h \in Handles : owner[h] = Pool => h = handle[1]
  /\ link[2] # "broken"

(* The handles are alike. *)
FirstHandleFirst == handle[1] \in {None, CHOOSE h \in Handles : TRUE}

Small == FirstHandleFirst /\ (QuietBackend \/ QuietPage)
=============================================================================
