----------------------------- MODULE TCPServer -----------------------------
(***************************************************************************)
(* The command loop of the TCP server: TCPServer::handleCommand, run by    *)
(* one detached thread per connection, over the StoreManager singleton.    *)
(*                                                                         *)
(* A thread of `Threads' serves one connection after another; `sel' is the *)
(* selectedToken of the connection.  Everything a command does is a        *)
(* sequence of steps, each one critical section of the code or one access  *)
(* to a file, and the steps of the threads interleave.                     *)
(***************************************************************************)
EXTENDS StoreManager, Naturals, FiniteSets

CONSTANT Ops    \* the commands clients send, a subset of AllOps

VARIABLES
  sel,        \* sel[t]: selectedToken of the connection, or Null
  up          \* whether the process runs, or has been aborted

vars == <<kvVars, mgrVars, threadVars, sel, up>>

AllOps == {"GET", "SET", "DELETE", "AUTOSAVE", "SAVE", "LOAD", "KEYS", "JSON", "OTHER", "QUIT"}

ASSUME OpsAssumption == Ops \subseteq AllOps /\ Null \notin Tokens

\* The first step of each command once it has its store.  OTHER stands for
\* the commands that are refused after getStore: wrong number of words,
\* AUTOSAVE with a word that is neither ON nor OFF, an unknown command.
Entry(op) ==
  CASE op = "GET"      -> "get"
    [] op = "SET"      -> "put"
    [] op = "DELETE"   -> "delete"
    [] op = "AUTOSAVE" -> "setAutosave"
    [] op = "SAVE"     -> "saveLock"
    [] op = "LOAD"     -> "loadLock"
    [] op = "KEYS"     -> "keys"
    [] op = "JSON"     -> "snapKeys"
    [] op = "OTHER"    -> "answer"
    [] op = "QUIT"     -> "answer"

\* The commands that may save their store.
Saving == {"SET", "DELETE", "AUTOSAVE", "SAVE"}

Labels ==
  {"idle", "getStore", "get", "getRead", "put", "delete", "flag", "setAutosave",
   "keys", "answer", "done", "saveLock", "snapKeys", "snapGet", "snapRead",
   "open", "write", "loadLock", "loadKeys", "loadClear", "loadPut"}

TypeOK ==
  /\ KVTypeOK
  /\ known \in SUBSET Tokens
  /\ mgr \in Threads \cup {Null}
  /\ disk \in [Files -> FileImage \cup {NoFile}]
  /\ pc \in [Threads -> Labels]
  /\ job \in [Threads -> Request \cup {Null}]
  /\ todo \in [Threads -> SUBSET Keys]
  /\ image \in [Threads -> FileImage \cup {Null}]
  /\ res \in [Threads -> Response \cup {Null}]
  /\ sel \in [Threads -> Tokens \cup {Null}]
  /\ up \in {"up", "aborted"}

Init ==
  /\ ManagerInit
  /\ sel = [t \in Threads |-> Null]
  /\ up = "up"

-----------------------------------------------------------------------------
(* The connection.  Commands that never get past their own text (an empty  *)
(* line, a malformed SELECT, any command before the first SELECT) change   *)
(* nothing and are left out.                                               *)
Select(t) ==
  /\ pc[t] = "idle"
  /\ \E tok \in Tokens : sel' = [sel EXCEPT ![t] = tok]
  /\ UNCHANGED <<kvVars, mgrVars, threadVars>>

\* The client goes away and the next connection has selected nothing.
Disconnect(t) ==
  /\ pc[t] = "idle"
  /\ sel[t] # Null
  /\ sel' = [sel EXCEPT ![t] = Null]
  /\ UNCHANGED <<kvVars, mgrVars, threadVars>>

Receive(t) ==
  /\ pc[t] = "idle"
  /\ sel[t] # Null
  /\ \E r \in Request :
       /\ r.op \in Ops
       /\ r.tok = sel[t]
       /\ job' = [job EXCEPT ![t] = r]
  /\ Goto(t, "getStore")
  /\ UNCHANGED <<kvVars, mgrVars, todo, image, res, sel>>

\* send(): the response leaves, and the thread waits for the next line, or
\* leaves its connection after a QUIT.  (A QUIT in lower case or followed by
\* other words gets the same response and does not end the connection.)
Reply(t) ==
  /\ pc[t] = "done"
  /\ Goto(t, "idle")
  /\ \/ UNCHANGED sel
     \/ job[t].op = "QUIT" /\ sel' = [sel EXCEPT ![t] = Null]
  /\ job' = [job EXCEPT ![t] = Null]
  /\ res' = [res EXCEPT ![t] = Null]
  /\ UNCHANGED <<kvVars, mgrVars, todo, image>>

-----------------------------------------------------------------------------
(* handleCommand, command by command.                                      *)
GetKey(t) ==
  /\ pc[t] = "get"
  /\ Get(t, job[t].tok, job[t].key)
  /\ IF store[job[t].tok][job[t].key] = Absent
     THEN Finish(t, <<"NOT_FOUND">>)
     ELSE Goto(t, "getRead") /\ UNCHANGED <<job, todo, image, res>>
  /\ UNCHANGED <<mgrVars, sel>>

\* getValueString() through the pointer, with no lock held.
GetRead(t) ==
  /\ pc[t] = "getRead"
  /\ \E v \in Dereferenced(t) : Finish(t, <<"VALUE", v>>)
  /\ DropPointer(t)
  /\ UNCHANGED <<mgrVars, sel>>

\* SET, where the type is the registered one.
PutKey(t) ==
  /\ pc[t] = "put"
  /\ Put(job[t].tok, job[t].key, job[t].val)
  /\ Goto(t, "flag")
  /\ res' = [res EXCEPT ![t] = <<"OK">>]
  /\ UNCHANGED <<mgrVars, job, todo, image, sel>>

\* Mutated: the result of deleteKey() is not looked at.
EraseKeySaysOK(t) ==
  /\ pc[t] = "delete"
  /\ DeleteKey(job[t].tok, job[t].key)
  /\ Goto(t, "flag")
  /\ res' = [res EXCEPT ![t] = <<"OK">>]
  /\ UNCHANGED <<mgrVars, job, todo, image, sel>>

EraseKey(t) ==
  /\ pc[t] = "delete"
  /\ DeleteKey(job[t].tok, job[t].key)
  /\ Goto(t, "flag")
  /\ res' = [res EXCEPT ![t] =
               IF store[job[t].tok][job[t].key] = Absent THEN <<"NOT_FOUND">> ELSE <<"OK">>]
  /\ UNCHANGED <<mgrVars, job, todo, image, sel>>

\* getAutosave() after a SET or DELETE decides whether the store is saved.
CheckAutosave(t) ==
  /\ pc[t] = "flag"
  /\ IF autosave[job[t].tok]
     THEN Goto(t, "saveLock") /\ UNCHANGED <<job, todo, image, res>>
     ELSE Finish(t, res[t])
  /\ UNCHANGED <<kvVars, mgrVars, sel>>

\* Mutated: AUTOSAVE ON only sets the flag.
TurnAutosaveOnly(t) ==
  /\ pc[t] = "setAutosave"
  /\ SetAutosave(job[t].tok, job[t].on)
  /\ Finish(t, <<"OK">>)
  /\ UNCHANGED <<mgrVars, sel>>

\* AUTOSAVE ON and AUTOSAVE OFF both save at once.
TurnAutosave(t) ==
  /\ pc[t] = "setAutosave"
  /\ SetAutosave(job[t].tok, job[t].on)
  /\ Goto(t, "saveLock")
  /\ UNCHANGED <<mgrVars, job, todo, image, res, sel>>

ListKeys(t) ==
  /\ pc[t] = "keys"
  /\ Finish(t, <<"KEYS", Present(store[job[t].tok])>>)
  /\ UNCHANGED <<kvVars, mgrVars, sel>>

\* Commands that need nothing of the store they were given.
Answer(t) ==
  /\ pc[t] = "answer"
  /\ Finish(t, IF job[t].op = "QUIT" THEN <<"OK">> ELSE <<"ERROR">>)
  /\ UNCHANGED <<kvVars, mgrVars, sel>>

Command(t) ==
  \/ GetStore(t, Entry(job[t].op)) /\ UNCHANGED sel
  \/ GetKey(t) \/ GetRead(t) \/ PutKey(t) \/ EraseKey(t) \/ CheckAutosave(t)
  \/ TurnAutosave(t) \/ ListKeys(t) \/ Answer(t)
  \/ (Snapshot(t) \/ Save(t) \/ Load(t)) /\ UNCHANGED sel

-----------------------------------------------------------------------------
(* The end of the process.                                                 *)

\* SET of a value of another type: put() throws, neither handleCommand nor
\* handleClient catches it, and std::terminate ends the server.
SetAborts(t) ==
  /\ pc[t] = "put"
  /\ Mismatch(job[t].tok, job[t].val)
  /\ Dies
  /\ sel' = [u \in Threads |-> Null]
  /\ up' = "aborted"

\* A read through a pointer into freed memory may as well fault.
FreedReadAborts(t) ==
  /\ "freed" \in Faults
  /\ pc[t] \in {"getRead", "snapRead"}
  /\ ~ptr[t].live
  /\ Dies
  /\ sel' = [u \in Threads |-> Null]
  /\ up' = "aborted"

\* The operator kills the server (or main returns while detached threads
\* are still at work) and starts it again.
Kill ==
  /\ "kill" \in Faults
  /\ Dies
  /\ sel' = [u \in Threads |-> Null]
  /\ UNCHANGED up

Restart ==
  /\ up = "aborted"
  /\ up' = "up"
  /\ UNCHANGED <<kvVars, mgrVars, threadVars, sel>>

Serve(t) ==
  /\ up = "up"
  /\ Select(t) \/ Disconnect(t) \/ Receive(t) \/ Reply(t) \/ Command(t)
  /\ UNCHANGED up

Abort(t) == up = "up" /\ (SetAborts(t) \/ FreedReadAborts(t))

Next ==
  \/ \E t \in Threads : Serve(t) \/ Abort(t)
  \/ up = "up" /\ Kill
  \/ Restart

Spec == Init /\ [][Next]_vars

\* The operating system runs every thread that can take a step.  std::mutex
\* is not fair: a waiting thread may be overtaken for ever, so no more than
\* weak fairness is assumed.  Clients owe nothing.
Runs(t) == (up = "up" /\ (Reply(t) \/ Command(t)) /\ UNCHANGED up) \/ Abort(t)

FairSpec == Spec /\ \A t \in Threads : WF_vars(Runs(t))

-----------------------------------------------------------------------------
(* Safety.                                                                 *)

\* The mutex of the StoreManager is held by exactly the thread that is
\* inside saveStore or loadStore: every way out, the exceptions too, gives
\* it back, and no two threads are ever in there together.
LockDiscipline == \A t \in Threads : mgr = t <=> Locked(t)

\* "Store not found" is never thrown to a client: a thread that gets to
\* saveStore has had its store created by getStore, and nothing removes it.
SaveFindsStore ==
  \A t \in Threads : pc[t] = "saveLock" => job[t].tok \in known

\* One type per attribute: whatever the threads SET, DELETE and LOAD, the
\* entries of a store all have the type its registry holds.
TypesUniform ==
  \A tok \in Tokens : \A k \in Present(store[tok]) :
    registry[tok] = TypeOf[store[tok][k]]

\* While files can be opened and written and the process does not end, a
\* LOAD never gets a file another thread is in the middle of writing.
LoadsWholeFile ==
  \A t \in Threads :
    pc[t] \in {"loadKeys", "loadClear", "loadPut"} => image[t].autosave # "missing"

\* Thread t has changed store tok, or its flag, and has not finished saving
\* it (or found autosave off); or it is loading it.
Unsettled(t, tok) ==
  /\ job[t] # Null
  /\ job[t].tok = tok
  /\ pc[t] \in {"flag", "saveLock"} \/ Locked(t)

\* Autosave keeps its promise across threads: whenever autosave is on and
\* no thread is between a change of the store and the end of its save, the
\* store's file holds what the store holds, and says that autosave is on.
AutosaveCurrent ==
  \A tok \in Tokens :
    autosave[tok] /\ (\A t \in Threads : ~Unsettled(t, tok))
      => disk[FileOf[tok]] = [map |-> store[tok], autosave |-> "true"]

\* What this asks of the clients: a SAVE names the file of its own store.
SavesOwnFile ==
  \A t \in Threads :
    job[t] # Null /\ job[t].op = "SAVE" => job[t].file = FileOf[job[t].tok]

\* No command makes the server terminate.
StaysUp == up = "up"

\* A ValueObject is still owned by its store when it is read.
PointersLive ==
  \A t \in Threads : pc[t] \in {"getRead", "snapRead"} => ptr[t].live

\* The steps a save or load has before it at most, where thread t is.
StepsLeft(t) ==
  CASE pc[t] = "snapKeys"  -> 2 * Cardinality(Keys) + 4
    [] pc[t] = "snapGet"   -> 2 * Cardinality(todo[t]) + 3
    [] pc[t] = "snapRead"  -> 2 * Cardinality(todo[t]) + 4
    [] pc[t] = "open"      -> 2
    [] pc[t] = "write"     -> 1
    [] pc[t] = "loadKeys"  -> 2 * Cardinality(Keys) + 3
    [] pc[t] = "loadClear" -> Cardinality(todo[t]) + Cardinality(Keys) + 2
    [] pc[t] = "loadPut"   -> Cardinality(todo[t]) + 1
    [] OTHER               -> 0

\* The others cannot keep a thread in the mutex: however they change the store
\* that it walks over, empties or fills, each of its steps brings it nearer to
\* its end, and none of theirs takes it back.
HolderProgresses ==
  [][\A t \in Threads : mgr = t /\ mgr' = t =>
       \/ UNCHANGED <<pc[t], todo[t]>>
       \/ StepsLeft(t)' < StepsLeft(t)]_vars

-----------------------------------------------------------------------------
(* Liveness.                                                               *)

\* A save or load always comes to its end, whatever the other threads do to
\* the store meanwhile.
MutexReleased == \A t \in Threads : mgr = t ~> mgr # t

\* A command can go unanswered for ever only because the threads it waits
\* for answer others for ever: the server as a whole never stops serving.
NoneStuck ==
  \A t \in Threads :
    <>[](pc[t] # "idle") => []<>(\E u \in Threads : pc[u] = "done")

=============================================================================
