-------------------------- MODULE TCPServerAtomic --------------------------
(***************************************************************************)
(* The command loop implements AtomicStore.  A command takes effect in the *)
(* critical section of its store; `res' holds the answer from then on,     *)
(* except that a GET only has its pointer until it reads through it.       *)
(*                                                                         *)
(* This is about what the threads do to the stores in which order: that    *)
(* the object behind the pointer is still there when it is read is another *)
(* question (PointersLive in TCPServer), so "freed" is no fault here.      *)
(***************************************************************************)
EXTENDS TCPServer

Answered ==
  [t \in Threads |-> IF pc[t] = "getRead" THEN <<"VALUE", ptr[t].val>> ELSE res[t]]

A == INSTANCE AtomicStore WITH dict <- store, call <- job, ret <- Answered

\* GET, SET, DELETE and KEYS are atomic and answered truthfully, in whatever
\* order the steps of the threads come and whatever saves and loads do.
Atomic == A!Spec

=============================================================================
