---------------------------- MODULE AtomicStore ----------------------------
(***************************************************************************)
(* What the server promises the clients of its stores: every GET, SET,     *)
(* DELETE and KEYS takes effect at one instant between the arrival of the  *)
(* command and its reply, on the store the connection selected and on no   *)
(* other, and the reply tells what happened at that instant.               *)
(*                                                                         *)
(* LOAD promises less: while one is under way it changes its store entry   *)
(* by entry, in view of everybody.  A SET or DELETE that took effect may   *)
(* yet be answered with ERROR, when its autosave fails.  The process may   *)
(* end at any time, and the stores with it.                                *)
(***************************************************************************)
CONSTANTS Threads, Tokens, Keys, Values, Absent, Null, Request, Response

VARIABLES
  dict,   \* dict[tok][k]: the value of k in store tok
  call,   \* call[t]: the command thread t has to answer, or Null
  ret     \* ret[t]: its answer, once it has taken effect, or Null

avars == <<dict, call, ret>>

Init ==
  /\ dict = [tok \in Tokens |-> [k \in Keys |-> Absent]]
  /\ call = [t \in Threads |-> Null]
  /\ ret = [t \in Threads |-> Null]

Call(t) ==
  /\ call[t] = Null
  /\ \E r \in Request : call' = [call EXCEPT ![t] = r]
  /\ UNCHANGED <<dict, ret>>

Pending(t, op) == call[t] # Null /\ ret[t] = Null /\ call[t].op = op

Answers(t, r) == ret' = [ret EXCEPT ![t] = r] /\ UNCHANGED call

Get(t) ==
  /\ Pending(t, "GET")
  /\ LET v == dict[call[t].tok][call[t].key]
     IN  Answers(t, IF v = Absent THEN <<"NOT_FOUND">> ELSE <<"VALUE", v>>)
  /\ UNCHANGED dict

Set(t) ==
  /\ Pending(t, "SET")
  /\ dict' = [dict EXCEPT ![call[t].tok][call[t].key] = call[t].val]
  /\ Answers(t, <<"OK">>)

Delete(t) ==
  /\ Pending(t, "DELETE")
  /\ Answers(t, IF dict[call[t].tok][call[t].key] = Absent THEN <<"NOT_FOUND">> ELSE <<"OK">>)
  /\ dict' = [dict EXCEPT ![call[t].tok][call[t].key] = Absent]

ListKeys(t) ==
  /\ Pending(t, "KEYS")
  /\ Answers(t, <<"KEYS", {k \in Keys : dict[call[t].tok][k] # Absent}>>)
  /\ UNCHANGED dict

\* The commands that leave every store alone say whether they succeeded;
\* what JSON shows is another matter.
Other(t) ==
  /\ \E op \in {"AUTOSAVE", "SAVE", "LOAD", "OTHER", "QUIT"} : Pending(t, op)
  /\ Answers(t, <<"OK">>) \/ Answers(t, <<"ERROR">>)
  /\ UNCHANGED dict

Json(t) ==
  /\ Pending(t, "JSON")
  /\ \E r \in Response : r[1] = "JSON" /\ Answers(t, r)
  /\ UNCHANGED dict

LoadEntry(t) ==
  /\ Pending(t, "LOAD")
  /\ \E k \in Keys, v \in Values \cup {Absent} :
       dict' = [dict EXCEPT ![call[t].tok][k] = v]
  /\ UNCHANGED <<call, ret>>

AutosaveFails(t) ==
  /\ call[t] # Null
  /\ call[t].op \in {"SET", "DELETE"}
  /\ ret[t] # Null
  /\ Answers(t, <<"ERROR">>)
  /\ UNCHANGED dict

Return(t) ==
  /\ ret[t] # Null
  /\ call' = [call EXCEPT ![t] = Null]
  /\ ret' = [ret EXCEPT ![t] = Null]
  /\ UNCHANGED dict

Crash ==
  /\ dict' = [tok \in Tokens |-> [k \in Keys |-> Absent]]
  /\ call' = [t \in Threads |-> Null]
  /\ ret' = [t \in Threads |-> Null]

Next ==
  \/ \E t \in Threads :
       \/ Call(t) \/ Get(t) \/ Set(t) \/ Delete(t) \/ ListKeys(t) \/ Other(t)
       \/ Json(t) \/ LoadEntry(t) \/ AutosaveFails(t) \/ Return(t)
  \/ Crash

Spec == Init /\ [][Next]_avars

=============================================================================
