-------------------------- MODULE TCPServerProofs --------------------------
(***************************************************************************)
(* Type correctness and mutual exclusion of TCPServer, and what it keeps   *)
(* true of its stores, for every value of its constants.                   *)
(*                                                                         *)
(* TypeOK is not inductive: that a step at "put" finds a value in its      *)
(* command, or a step at "write" a text in its image, depends on how the   *)
(* thread got there.  Inv adds, for each thread, what its position says    *)
(* about its command (JobFits), about what it has read (DataFits) and      *)
(* about the mutex (mgr = t <=> Locked(t)).  A step of a thread disturbs   *)
(* no other thread's part, except that it may make its pointer dangle      *)
(* (Keeps, Frame); so there is one lemma for each action, which shows the  *)
(* part of the thread that takes it, and NextInv collects them.            *)
(*                                                                         *)
(* From Inv follow, with a lemma for each action again: that the entries   *)
(* of a store have one type (TypesCorrect), that a save finds its store    *)
(* (SaveCorrect), and that each step of a save or load is one of the       *)
(* finitely many it has left (MutexHeldBriefly).                           *)
(***************************************************************************)
EXTENDS TCPServer, FiniteSetTheorems, TLAPS

\* Which commands get to which steps.
JobFits(t) ==
  /\ pc[t] = "idle" <=> job[t] = Null
  /\ pc[t] \in {"get", "getRead"} => job[t].op = "GET"
  /\ pc[t] = "put" => job[t].op = "SET"
  /\ pc[t] = "delete" => job[t].op = "DELETE"
  /\ pc[t] = "flag" => job[t].op \in {"SET", "DELETE"}
  /\ pc[t] = "setAutosave" => job[t].op = "AUTOSAVE"
  /\ pc[t] = "keys" => job[t].op = "KEYS"
  /\ pc[t] = "answer" => job[t].op \in {"OTHER", "QUIT"}
  /\ pc[t] \in {"saveLock", "open", "write"} => job[t].op \in Saving
  /\ pc[t] \in {"snapKeys", "snapGet", "snapRead"} => job[t].op \in Saving \cup {"JSON"}
  /\ pc[t] \in {"loadLock", "loadKeys", "loadClear", "loadPut"} => job[t].op = "LOAD"

\* What has been read before each step.
DataFits(t) ==
  /\ pc[t] \in {"snapGet", "snapRead", "open", "write", "loadKeys", "loadClear", "loadPut"}
       => image[t] # Null
  /\ pc[t] \in {"getRead", "snapRead"} => ptr[t] # Null
  /\ pc[t] = "loadPut" => todo[t] \subseteq Present(image[t].map)

\* All that is known of one thread.
Fits(t) == JobFits(t) /\ DataFits(t) /\ (mgr = t <=> Locked(t))

\* The conjuncts of TypeOK.
ThreadTypeOK ==
  /\ pc \in [Threads -> Labels]
  /\ job \in [Threads -> Request \cup {Null}]
  /\ todo \in [Threads -> SUBSET Keys]
  /\ image \in [Threads -> FileImage \cup {Null}]
  /\ res \in [Threads -> Response \cup {Null}]

ManagerTypeOK ==
  /\ known \in SUBSET Tokens
  /\ mgr \in Threads \cup {Null}
  /\ disk \in [Files -> FileImage \cup {NoFile}]

ConnectionTypeOK ==
  /\ sel \in [Threads -> Tokens \cup {Null}]
  /\ up \in {"up", "aborted"}

\* The conjuncts of TypeOK, by the component whose state they type.
LEMMA TypeParts == TypeOK <=> KVTypeOK /\ ManagerTypeOK /\ ThreadTypeOK /\ ConnectionTypeOK
BY DEF TypeOK, ManagerTypeOK, ThreadTypeOK, ConnectionTypeOK

\* The inductive invariant.
Inv == KVTypeOK /\ ManagerTypeOK /\ ThreadTypeOK /\ ConnectionTypeOK /\ \A t \in Threads : Fits(t)

\* What a command of each kind carries.
LEMMA RequestFacts ==
  ASSUME NEW r \in Request
  PROVE  /\ r.tok \in Tokens
         /\ r.op \in AllOps
         /\ r.op \in {"GET", "SET", "DELETE"} => r.key \in Keys
         /\ r.op = "SET" => r.val \in Values
         /\ r.op = "AUTOSAVE" => r.on \in BOOLEAN
         /\ r.op \in {"SAVE", "LOAD"} => r.file \in Files
         /\ r # Null
BY AbsenceAssumption DEF Request, AllOps

\* The responses handleCommand gives.
LEMMA ResponseFacts ==
  /\ <<"OK">> \in Response /\ <<"NOT_FOUND">> \in Response /\ <<"ERROR">> \in Response
  /\ \A v \in Values : <<"VALUE", v>> \in Response
  /\ \A S \in SUBSET Keys : <<"KEYS", S>> \in Response
  /\ \A i \in FileImage : <<"JSON", i>> \in Response
  /\ Null \notin Response
BY AbsenceAssumption DEF Response

\* get() gives a pointer where there is an entry, and touches no other thread.
LEMMA GetFacts ==
  ASSUME KVTypeOK, NEW t \in Threads, NEW tok \in Tokens, NEW k \in Keys, Get(t, tok, k)
  PROVE  /\ KVTypeOK'
         /\ store[tok][k] # Absent => ptr'[t] # Null
         /\ \A u \in Threads \ {t} : ptr'[u] = ptr[u]
<1>1. store[tok][k] \in Values \cup {Absent}
  BY DEF KVTypeOK, Contents
<1>2. ASSUME store[tok][k] # Absent
      PROVE  [tok |-> tok, key |-> k, val |-> store[tok][k], live |-> TRUE] \in Pointer
  BY <1>1, <1>2 DEF Pointer
<1>. QED BY <1>1, <1>2, PointerAssumption DEF KVTypeOK, Get

\* A pointer to a freed entry dangles, but is a pointer still.
LEMMA FreedFacts ==
  ASSUME KVTypeOK, NEW tok, NEW k
  PROVE  /\ Freed(tok, k) \in [Threads -> Pointer \cup {Null}]
         /\ \A u \in Threads : ptr[u] # Null => Freed(tok, k)[u] # Null
<1>1. ASSUME NEW u \in Threads, ptr[u] # Null
      PROVE  [ptr[u] EXCEPT !.live = FALSE] \in Pointer
  BY <1>1 DEF KVTypeOK, Pointer
<1>. QED BY <1>1, PointerAssumption DEF KVTypeOK, Freed

\* put() keeps the types, and every pointer a pointer.
LEMMA PutFacts ==
  ASSUME KVTypeOK, NEW tok \in Tokens, NEW k \in Keys, NEW v \in Values, Put(tok, k, v)
  PROVE  KVTypeOK' /\ \A u \in Threads : ptr[u] # Null => ptr'[u] # Null
<1>1. TypeOf[v] \in Types
  BY StoreAssumption
<1>. QED BY <1>1, FreedFacts DEF KVTypeOK, Put, Contents

\* deleteKey() keeps the types, and every pointer a pointer.
LEMMA DeleteFacts ==
  ASSUME KVTypeOK, NEW tok \in Tokens, NEW k \in Keys, DeleteKey(tok, k)
  PROVE  KVTypeOK' /\ \A u \in Threads : ptr[u] # Null => ptr'[u] # Null
BY FreedFacts DEF KVTypeOK, DeleteKey, Contents

\* What a step of thread t leaves to the other threads.
Keeps(t) ==
  \A u \in Threads \ {t} :
    /\ pc'[u] = pc[u] /\ job'[u] = job[u] /\ todo'[u] = todo[u] /\ image'[u] = image[u]
    /\ ptr[u] # Null => ptr'[u] # Null
    /\ mgr' = u <=> mgr = u

\* The invariant of the threads that take no step.
LEMMA Frame ==
  ASSUME NEW t \in Threads, \A u \in Threads : Fits(u), Keeps(t), Fits(t)'
  PROVE  \A u \in Threads : Fits(u)'
<1>1. ASSUME NEW u \in Threads \ {t} PROVE Fits(u)'
  BY <1>1 DEF Keeps, Fits, JobFits, DataFits, Locked
<1>. QED BY <1>1

\* The end of a command, for the thread that ends it and for the others.
LEMMA FinishFacts ==
  ASSUME ThreadTypeOK, NEW t \in Threads, NEW r \in Response \cup {Null}, Finish(t, r)
  PROVE  /\ ThreadTypeOK'
         /\ pc'[t] = "done" /\ job'[t] = job[t]
         /\ \A u \in Threads \ {t} :
              pc'[u] = pc[u] /\ todo'[u] = todo[u] /\ image'[u] = image[u] /\ job'[u] = job[u]
BY DEF ThreadTypeOK, Finish, Goto, Labels

\* A jump of one thread.
LEMMA GotoFacts ==
  ASSUME pc \in [Threads -> Labels], NEW t \in Threads, NEW l \in Labels, Goto(t, l)
  PROVE  /\ pc' \in [Threads -> Labels]
         /\ pc'[t] = l
         /\ \A u \in Threads \ {t} : pc'[u] = pc[u]
BY DEF Goto

\* What save and load make of a file is a file.
LEMMA FileFacts ==
  /\ Blank \in FileImage
  /\ \A i \in FileImage, k \in Keys, v \in Values : [i EXCEPT !.map[k] = v] \in FileImage
  /\ \A i \in FileImage, on \in BOOLEAN : [i EXCEPT !.autosave = FlagText(on)] \in FileImage
  /\ \A i \in FileImage : Cuts(i) \subseteq FileImage
  /\ \A i \in FileImage : i # Null /\ i # NoFile
<1>1. Blank \in FileImage
  BY DEF Blank, FileImage, Contents, EmptyStore
<1>2. ASSUME NEW i \in FileImage, NEW k \in Keys, NEW v \in Values
      PROVE  [i EXCEPT !.map[k] = v] \in FileImage
  BY DEF FileImage, Contents
<1>3. ASSUME NEW i \in FileImage, NEW on \in BOOLEAN
      PROVE  [i EXCEPT !.autosave = FlagText(on)] \in FileImage
  BY DEF FileImage, FlagText
<1>4. ASSUME NEW i \in FileImage PROVE Cuts(i) \subseteq FileImage
  <2>1. ASSUME NEW S \in SUBSET Present(i.map)
        PROVE  [map |-> [k \in Keys |-> IF k \in S THEN i.map[k] ELSE Absent],
                autosave |-> "missing"] \in FileImage
    BY DEF FileImage, Contents
  <2>2. [i EXCEPT !.autosave = "false"] \in FileImage
    BY DEF FileImage
  <2>. QED BY <2>1, <2>2 DEF Cuts
<1>. QED BY <1>1, <1>2, <1>3, <1>4, AbsenceAssumption

\* A thread that is not idle has a command, whose fields are what they should be.
LEMMA JobFacts ==
  ASSUME Inv, NEW t \in Threads, pc[t] # "idle"
  PROVE  /\ job[t] \in Request
         /\ job[t].tok \in Tokens
         /\ job[t].op \in AllOps
         /\ job[t].op \in {"GET", "SET", "DELETE"} => job[t].key \in Keys
         /\ job[t].op = "SET" => job[t].val \in Values
         /\ job[t].op = "AUTOSAVE" => job[t].on \in BOOLEAN
         /\ Target(t) \in Files
<1>1. job[t] \in Request
  BY DEF Inv, Fits, JobFits, ThreadTypeOK
<1>2. FileOf[job[t].tok] \in Files
  BY <1>1, RequestFacts, ManagerAssumption
<1>. QED BY <1>1, <1>2, RequestFacts DEF Target

\* Where a pointer is read there is one, and what is read is a value.
LEMMA PointerFacts ==
  ASSUME Inv, NEW t \in Threads, pc[t] \in {"getRead", "snapRead"}
  PROVE  ptr[t] \in Pointer /\ ptr[t].key \in Keys /\ Dereferenced(t) \subseteq Values
<1>1. ptr[t] \in Pointer
  BY DEF Inv, Fits, DataFits, KVTypeOK
<1>. QED BY <1>1 DEF Pointer, Dereferenced

\* Forgetting a pointer touches no other thread.
LEMMA DropFacts ==
  ASSUME KVTypeOK, NEW t \in Threads, DropPointer(t)
  PROVE  KVTypeOK' /\ \A u \in Threads \ {t} : ptr'[u] = ptr[u]
BY DEF KVTypeOK, DropPointer

\* The response a save ends with.
LEMMA SettledFacts ==
  ASSUME ThreadTypeOK, NEW t \in Threads
  PROVE  Settled(t) \in Response
BY ResponseFacts DEF ThreadTypeOK, Settled

\* Select keeps Inv.
LEMMA SelectStep ==
  ASSUME Inv, NEW t \in Threads, Select(t), UNCHANGED up
  PROVE  Inv'
<1>2. KVTypeOK' /\ ptr' = ptr
  BY DEF Inv, Select, kvVars, KVTypeOK
<1>3. ManagerTypeOK' /\ ConnectionTypeOK'
  BY DEF Inv, Select, mgrVars, ManagerTypeOK, ConnectionTypeOK
<1>4. Keeps(t) /\ Fits(t)' /\ ThreadTypeOK'
  BY <1>2
  DEF Inv, Select, mgrVars, Keeps, Fits, JobFits, DataFits, Locked, threadVars, ThreadTypeOK
<1>. QED BY <1>2, <1>3, <1>4, Frame DEF Inv

\* Disconnect keeps Inv.
LEMMA DisconnectStep ==
  ASSUME Inv, NEW t \in Threads, Disconnect(t), UNCHANGED up
  PROVE  Inv'
<1>2. KVTypeOK' /\ ptr' = ptr
  BY DEF Inv, Disconnect, kvVars, KVTypeOK
<1>3. ManagerTypeOK' /\ ConnectionTypeOK'
  BY DEF Inv, Disconnect, mgrVars, ManagerTypeOK, ConnectionTypeOK
<1>4. Keeps(t) /\ Fits(t)' /\ ThreadTypeOK'
  BY <1>2
  DEF Inv, Disconnect, mgrVars, Keeps, Fits, JobFits, DataFits, Locked, threadVars, ThreadTypeOK
<1>. QED BY <1>2, <1>3, <1>4, Frame DEF Inv

\* Receive keeps Inv.
LEMMA ReceiveStep ==
  ASSUME Inv, NEW t \in Threads, Receive(t), UNCHANGED up
  PROVE  Inv'
<1>2. KVTypeOK' /\ ptr' = ptr
  BY DEF Inv, Receive, kvVars, KVTypeOK
<1>3. ManagerTypeOK' /\ ConnectionTypeOK'
  BY DEF Inv, Receive, mgrVars, ManagerTypeOK, ConnectionTypeOK
<1>4. Keeps(t) /\ Fits(t)' /\ ThreadTypeOK'
  BY <1>2, RequestFacts
  DEF Inv, Receive, mgrVars, Keeps, Fits, JobFits, DataFits, Locked, ThreadTypeOK, Goto, Labels
<1>. QED BY <1>2, <1>3, <1>4, Frame DEF Inv

\* Reply keeps Inv.
LEMMA ReplyStep ==
  ASSUME Inv, NEW t \in Threads, Reply(t), UNCHANGED up
  PROVE  Inv'
<1>1. pc[t] # "idle"
  BY DEF Reply
<1>2. KVTypeOK' /\ ptr' = ptr
  BY DEF Inv, Reply, kvVars, KVTypeOK
<1>3. ManagerTypeOK' /\ ConnectionTypeOK'
  BY DEF Inv, Reply, mgrVars, ManagerTypeOK, ConnectionTypeOK
<1>4. Keeps(t) /\ Fits(t)' /\ ThreadTypeOK'
  BY <1>2
  DEF Inv, Reply, mgrVars, Keeps, Fits, JobFits, DataFits, Locked, ThreadTypeOK, Goto, Labels
<1>. QED BY <1>2, <1>3, <1>4, Frame DEF Inv

\* GetKey keeps Inv.
LEMMA GetKeyStep ==
  ASSUME Inv, NEW t \in Threads, GetKey(t), UNCHANGED up
  PROVE  Inv'
<1>1. job[t] \in Request /\ job[t].tok \in Tokens /\ job[t].key \in Keys /\ job[t].op = "GET"
  BY RequestFacts DEF Inv, Fits, JobFits, ThreadTypeOK, GetKey
<1>2. KVTypeOK' /\ (store[job[t].tok][job[t].key] # Absent => ptr'[t] # Null)
      /\ \A u \in Threads \ {t} : ptr'[u] = ptr[u]
  BY <1>1, GetFacts DEF Inv, GetKey
<1>3. ManagerTypeOK' /\ ConnectionTypeOK'
  BY DEF Inv, GetKey, mgrVars, ManagerTypeOK, ConnectionTypeOK
<1>4. CASE store[job[t].tok][job[t].key] = Absent
  <2>1. Finish(t, <<"NOT_FOUND">>)
    BY <1>4 DEF GetKey
  <2>2. Keeps(t) /\ Fits(t)' /\ ThreadTypeOK'
    BY <1>1, <1>2, <2>1, FinishFacts, ResponseFacts
    DEF Inv, Keeps, Fits, JobFits, DataFits, Locked, GetKey, mgrVars
  <2>. QED BY <1>2, <1>3, <2>2, Frame DEF Inv
<1>5. CASE store[job[t].tok][job[t].key] # Absent
  <2>1. Goto(t, "getRead") /\ UNCHANGED <<job, todo, image, res>>
    BY <1>5 DEF GetKey
  <2>2. Keeps(t) /\ Fits(t)' /\ ThreadTypeOK'
    BY <1>1, <1>2, <1>5, <2>1, GotoFacts
    DEF Inv, Keeps, Fits, JobFits, DataFits, Locked, GetKey, mgrVars, ThreadTypeOK, Labels
  <2>. QED BY <1>2, <1>3, <2>2, Frame DEF Inv
<1>. QED BY <1>4, <1>5

\* GetRead keeps Inv.
LEMMA GetReadStep ==
  ASSUME Inv, NEW t \in Threads, GetRead(t), UNCHANGED up
  PROVE  Inv'
<1>1. pc[t] # "idle"
  BY DEF GetRead
<1>2. KVTypeOK' /\ \A u \in Threads \ {t} : ptr'[u] = ptr[u]
  BY DropFacts DEF Inv, GetRead
<1>3. ManagerTypeOK' /\ ConnectionTypeOK'
  BY DEF Inv, GetRead, mgrVars, ManagerTypeOK, ConnectionTypeOK
<1>4. Keeps(t) /\ Fits(t)' /\ ThreadTypeOK'
  BY <1>2, JobFacts, PointerFacts, FinishFacts, ResponseFacts
  DEF Inv, GetRead, mgrVars, Keeps, Fits, JobFits, DataFits, Locked
<1>. QED BY <1>2, <1>3, <1>4, Frame DEF Inv

\* PutKey keeps Inv.
LEMMA PutKeyStep ==
  ASSUME Inv, NEW t \in Threads, PutKey(t), UNCHANGED up
  PROVE  Inv'
<1>1. pc[t] # "idle"
  BY DEF PutKey
<1>2. KVTypeOK' /\ \A u \in Threads : ptr[u] # Null => ptr'[u] # Null
  BY <1>1, JobFacts, PutFacts DEF Inv, PutKey, Fits, JobFits
<1>3. ManagerTypeOK' /\ ConnectionTypeOK'
  BY DEF Inv, PutKey, mgrVars, ManagerTypeOK, ConnectionTypeOK
<1>4. Keeps(t) /\ Fits(t)' /\ ThreadTypeOK'
  BY <1>2, JobFacts, GotoFacts, ResponseFacts
  DEF Inv, PutKey, mgrVars, Keeps, Fits, JobFits, DataFits, Locked, ThreadTypeOK, Labels
<1>. QED BY <1>2, <1>3, <1>4, Frame DEF Inv

\* EraseKey keeps Inv.
LEMMA EraseKeyStep ==
  ASSUME Inv, NEW t \in Threads, EraseKey(t), UNCHANGED up
  PROVE  Inv'
<1>1. pc[t] # "idle"
  BY DEF EraseKey
<1>2. KVTypeOK' /\ \A u \in Threads : ptr[u] # Null => ptr'[u] # Null
  BY <1>1, JobFacts, DeleteFacts DEF Inv, EraseKey, Fits, JobFits
<1>3. ManagerTypeOK' /\ ConnectionTypeOK'
  BY DEF Inv, EraseKey, mgrVars, ManagerTypeOK, ConnectionTypeOK
<1>4. Keeps(t) /\ Fits(t)' /\ ThreadTypeOK'
  BY <1>2, JobFacts, GotoFacts, ResponseFacts
  DEF Inv, EraseKey, mgrVars, Keeps, Fits, JobFits, DataFits, Locked, ThreadTypeOK, Labels
<1>. QED BY <1>2, <1>3, <1>4, Frame DEF Inv

\* TurnAutosave keeps Inv.
LEMMA TurnAutosaveStep ==
  ASSUME Inv, NEW t \in Threads, TurnAutosave(t), UNCHANGED up
  PROVE  Inv'
<1>1. pc[t] # "idle"
  BY DEF TurnAutosave
<1>2. KVTypeOK' /\ ptr' = ptr
  BY <1>1, JobFacts DEF Inv, TurnAutosave, Fits, JobFits, SetAutosave, KVTypeOK
<1>3. ManagerTypeOK' /\ ConnectionTypeOK'
  BY DEF Inv, TurnAutosave, mgrVars, ManagerTypeOK, ConnectionTypeOK
<1>4. Keeps(t) /\ Fits(t)' /\ ThreadTypeOK'
  BY <1>2, JobFacts, GotoFacts
  DEF Inv, TurnAutosave, mgrVars, Keeps, Fits, JobFits, DataFits, Locked, Saving, ThreadTypeOK, Labels
<1>. QED BY <1>2, <1>3, <1>4, Frame DEF Inv

\* ListKeys keeps Inv.
LEMMA ListKeysStep ==
  ASSUME Inv, NEW t \in Threads, ListKeys(t), UNCHANGED up
  PROVE  Inv'
<1>1. pc[t] # "idle"
  BY DEF ListKeys
<1>2. KVTypeOK' /\ ptr' = ptr
  BY DEF Inv, ListKeys, kvVars, KVTypeOK
<1>3. ManagerTypeOK' /\ ConnectionTypeOK'
  BY DEF Inv, ListKeys, mgrVars, ManagerTypeOK, ConnectionTypeOK
<1>4. Keeps(t) /\ Fits(t)' /\ ThreadTypeOK'
  BY <1>2, <1>1, JobFacts, FinishFacts, ResponseFacts
  DEF Inv, ListKeys, mgrVars, Keeps, Fits, JobFits, DataFits, Locked, Present
<1>. QED BY <1>2, <1>3, <1>4, Frame DEF Inv

\* Answer keeps Inv.
LEMMA AnswerStep ==
  ASSUME Inv, NEW t \in Threads, Answer(t), UNCHANGED up
  PROVE  Inv'
<1>1. pc[t] # "idle"
  BY DEF Answer
<1>2. KVTypeOK' /\ ptr' = ptr
  BY DEF Inv, Answer, kvVars, KVTypeOK
<1>3. ManagerTypeOK' /\ ConnectionTypeOK'
  BY DEF Inv, Answer, mgrVars, ManagerTypeOK, ConnectionTypeOK
<1>4. Keeps(t) /\ Fits(t)' /\ ThreadTypeOK'
  BY <1>2, <1>1, JobFacts, FinishFacts, ResponseFacts
  DEF Inv, Answer, mgrVars, Keeps, Fits, JobFits, DataFits, Locked
<1>. QED BY <1>2, <1>3, <1>4, Frame DEF Inv

\* SnapKeys keeps Inv.
LEMMA SnapKeysStep ==
  ASSUME Inv, NEW t \in Threads, SnapKeys(t), UNCHANGED <<sel, up>>
  PROVE  Inv'
<1>1. pc[t] # "idle"
  BY DEF SnapKeys
<1>2. KVTypeOK' /\ ptr' = ptr
  BY DEF Inv, SnapKeys, kvVars, KVTypeOK
<1>3. ManagerTypeOK' /\ ConnectionTypeOK'
  BY DEF Inv, SnapKeys, mgrVars, ManagerTypeOK, ConnectionTypeOK
<1>4. Keeps(t) /\ Fits(t)' /\ ThreadTypeOK'
  BY <1>2, FileFacts
  DEF Inv, SnapKeys, mgrVars, Keeps, Fits, JobFits, DataFits, Locked, ThreadTypeOK, Goto, Labels, Present
<1>. QED BY <1>2, <1>3, <1>4, Frame DEF Inv

\* OpenFile keeps Inv.
LEMMA OpenFileStep ==
  ASSUME Inv, NEW t \in Threads, OpenFile(t), UNCHANGED <<sel, up>>
  PROVE  Inv'
<1>1. pc[t] # "idle"
  BY DEF OpenFile
<1>2. KVTypeOK' /\ ptr' = ptr
  BY DEF Inv, OpenFile, kvVars, KVTypeOK
<1>3. ManagerTypeOK' /\ ConnectionTypeOK'
  BY <1>1, JobFacts, FileFacts
  DEF Inv, OpenFile, mgrVars, ManagerTypeOK, ConnectionTypeOK
<1>4. Keeps(t) /\ Fits(t)' /\ ThreadTypeOK'
  BY <1>2
  DEF Inv, OpenFile, mgrVars, Keeps, Fits, JobFits, DataFits, Locked, ThreadTypeOK, Goto, Labels
<1>. QED BY <1>2, <1>3, <1>4, Frame DEF Inv

\* OpenFails keeps Inv.
LEMMA OpenFailsStep ==
  ASSUME Inv, NEW t \in Threads, OpenFails(t), UNCHANGED <<sel, up>>
  PROVE  Inv'
<1>1. pc[t] # "idle"
  BY DEF OpenFails
<1>2. KVTypeOK' /\ ptr' = ptr
  BY DEF Inv, OpenFails, kvVars, KVTypeOK
<1>3. ManagerTypeOK' /\ ConnectionTypeOK'
  BY DEF Inv, OpenFails, mgrVars, ManagerTypeOK, ConnectionTypeOK
<1>4. Keeps(t) /\ Fits(t)' /\ ThreadTypeOK'
  BY <1>2, StoreAssumption, FinishFacts, ResponseFacts
  DEF Inv, OpenFails, mgrVars, Keeps, Fits, JobFits, DataFits, Locked
<1>. QED BY <1>2, <1>3, <1>4, Frame DEF Inv

\* LoadKeys keeps Inv.
LEMMA LoadKeysStep ==
  ASSUME Inv, NEW t \in Threads, LoadKeys(t), UNCHANGED <<sel, up>>
  PROVE  Inv'
<1>1. pc[t] # "idle"
  BY DEF LoadKeys
<1>2. KVTypeOK' /\ ptr' = ptr
  BY DEF Inv, LoadKeys, kvVars, KVTypeOK
<1>3. ManagerTypeOK' /\ ConnectionTypeOK'
  BY DEF Inv, LoadKeys, mgrVars, ManagerTypeOK, ConnectionTypeOK
<1>4. Keeps(t) /\ Fits(t)' /\ ThreadTypeOK'
  BY <1>2
  DEF Inv, LoadKeys, mgrVars, Keeps, Fits, JobFits, DataFits, Locked, ThreadTypeOK, Goto, Labels, Present
<1>. QED BY <1>2, <1>3, <1>4, Frame DEF Inv

\* LoadParse keeps Inv.
LEMMA LoadParseStep ==
  ASSUME Inv, NEW t \in Threads, LoadParse(t), UNCHANGED <<sel, up>>
  PROVE  Inv'
<1>1. pc[t] # "idle"
  BY DEF LoadParse
<1>2. KVTypeOK' /\ ptr' = ptr
  BY DEF Inv, LoadParse, kvVars, KVTypeOK
<1>3. ManagerTypeOK' /\ ConnectionTypeOK'
  BY DEF Inv, LoadParse, mgrVars, ManagerTypeOK, ConnectionTypeOK
<1>4. Keeps(t) /\ Fits(t)' /\ ThreadTypeOK'
  BY <1>2
  DEF Inv, LoadParse, mgrVars, Keeps, Fits, JobFits, DataFits, Locked, ThreadTypeOK, Goto, Labels, Present
<1>. QED BY <1>2, <1>3, <1>4, Frame DEF Inv

\* LoadMissing keeps Inv.
LEMMA LoadMissingStep ==
  ASSUME Inv, NEW t \in Threads, LoadMissing(t), UNCHANGED <<sel, up>>
  PROVE  Inv'
<1>1. pc[t] # "idle"
  BY DEF LoadMissing
<1>2. KVTypeOK' /\ ptr' = ptr
  BY DEF Inv, LoadMissing, kvVars, KVTypeOK
<1>3. ManagerTypeOK' /\ ConnectionTypeOK'
  BY <1>1, JobFacts
  DEF Inv, LoadMissing, mgrVars, ManagerTypeOK, ConnectionTypeOK
<1>4. Keeps(t) /\ Fits(t)' /\ ThreadTypeOK'
  BY <1>2, FinishFacts, ResponseFacts
  DEF Inv, LoadMissing, mgrVars, Keeps, Fits, JobFits, DataFits, Locked
<1>. QED BY <1>2, <1>3, <1>4, Frame DEF Inv

\* LoadUnreadable keeps Inv.
LEMMA LoadUnreadableStep ==
  ASSUME Inv, NEW t \in Threads, LoadUnreadable(t), UNCHANGED <<sel, up>>
  PROVE  Inv'
<1>1. pc[t] # "idle"
  BY DEF LoadUnreadable
<1>2. KVTypeOK' /\ ptr' = ptr
  BY DEF Inv, LoadUnreadable, kvVars, KVTypeOK
<1>3. ManagerTypeOK' /\ ConnectionTypeOK'
  BY <1>1, JobFacts
  DEF Inv, LoadUnreadable, mgrVars, ManagerTypeOK, ConnectionTypeOK
<1>4. Keeps(t) /\ Fits(t)' /\ ThreadTypeOK'
  BY <1>2, FinishFacts, ResponseFacts
  DEF Inv, LoadUnreadable, mgrVars, Keeps, Fits, JobFits, DataFits, Locked
<1>. QED BY <1>2, <1>3, <1>4, Frame DEF Inv

\* LoadThrows keeps Inv.
LEMMA LoadThrowsStep ==
  ASSUME Inv, NEW t \in Threads, LoadThrows(t), UNCHANGED <<sel, up>>
  PROVE  Inv'
<1>1. pc[t] # "idle"
  BY DEF LoadThrows
<1>2. KVTypeOK' /\ ptr' = ptr
  BY DEF Inv, LoadThrows, kvVars, KVTypeOK
<1>3. ManagerTypeOK' /\ ConnectionTypeOK'
  BY DEF Inv, LoadThrows, mgrVars, ManagerTypeOK, ConnectionTypeOK
<1>4. Keeps(t) /\ Fits(t)' /\ ThreadTypeOK'
  BY <1>2, StoreAssumption, FinishFacts, ResponseFacts
  DEF Inv, LoadThrows, mgrVars, Keeps, Fits, JobFits, DataFits, Locked
<1>. QED BY <1>2, <1>3, <1>4, Frame DEF Inv


\* Every command has a first step.
LEMMA EntryFacts ==
  ASSUME NEW op \in AllOps
  PROVE  Entry(op) \in Labels
BY DEF AllOps, Entry, Labels

\* GetStore keeps Inv.
LEMMA GetStoreStep ==
  ASSUME Inv, NEW t \in Threads, GetStore(t, Entry(job[t].op)), UNCHANGED <<sel, up>>
  PROVE  Inv'
<1>1. pc[t] # "idle"
  BY DEF GetStore
<1>2. KVTypeOK' /\ ptr' = ptr
  BY DEF Inv, GetStore, kvVars, KVTypeOK
<1>3. ManagerTypeOK' /\ ConnectionTypeOK'
  BY <1>1, JobFacts DEF Inv, GetStore, ManagerTypeOK, ConnectionTypeOK
<1>4. Keeps(t) /\ Fits(t)' /\ ThreadTypeOK'
  <2>1. job[t].op \in AllOps
    BY <1>1, JobFacts
  <2>2. pc' \in [Threads -> Labels] /\ pc'[t] = Entry(job[t].op)
        /\ \A u \in Threads \ {t} : pc'[u] = pc[u]
    BY <2>1, EntryFacts, GotoFacts DEF Inv, ThreadTypeOK, GetStore
  <2>3. ThreadTypeOK' /\ Keeps(t)
    BY <1>2, <2>2 DEF Inv, GetStore, ThreadTypeOK, Keeps
  <2>4. Fits(t)'
    BY <1>1, <1>2, <2>1, <2>2 DEF Inv, GetStore, Entry, AllOps, Saving, Fits, JobFits, DataFits, Locked
  <2>. QED BY <2>3, <2>4
<1>. QED BY <1>2, <1>3, <1>4, Frame DEF Inv

\* CheckAutosave keeps Inv.
LEMMA CheckAutosaveStep ==
  ASSUME Inv, NEW t \in Threads, CheckAutosave(t), UNCHANGED up
  PROVE  Inv'
<1>1. pc[t] # "idle"
  BY DEF CheckAutosave
<1>2. KVTypeOK' /\ ptr' = ptr
  BY DEF Inv, CheckAutosave, kvVars, KVTypeOK
<1>3. ManagerTypeOK' /\ ConnectionTypeOK'
  BY DEF Inv, CheckAutosave, mgrVars, ManagerTypeOK, ConnectionTypeOK
<1>4. Keeps(t) /\ Fits(t)' /\ ThreadTypeOK'
  <2>1. CASE autosave[job[t].tok]
    BY <1>2, <2>1, GotoFacts DEF Inv, CheckAutosave, mgrVars, Saving, ThreadTypeOK, Labels, Keeps, Fits, JobFits, DataFits, Locked
  <2>2. CASE ~autosave[job[t].tok]
    <3>1. Finish(t, res[t]) /\ res[t] \in Response \cup {Null}
      BY <2>2 DEF Inv, CheckAutosave, ThreadTypeOK
    <3>. QED BY <1>2, <3>1, FinishFacts DEF Inv, CheckAutosave, mgrVars, Keeps, Fits, JobFits, DataFits, Locked
  <2>. QED BY <2>1, <2>2
<1>. QED BY <1>2, <1>3, <1>4, Frame DEF Inv

\* SnapGet keeps Inv.
LEMMA SnapGetStep ==
  ASSUME Inv, NEW t \in Threads, SnapGet(t), UNCHANGED <<sel, up>>
  PROVE  Inv'
<1>1. pc[t] # "idle"
  BY DEF SnapGet
<1>k. PICK k \in Keys : /\ k \in todo[t]
                      /\ Get(t, job[t].tok, k)
                      /\ todo' = [todo EXCEPT ![t] = @ \ {k}]
                      /\ Goto(t, IF store[job[t].tok][k] = Absent THEN "snapGet" ELSE "snapRead")
  BY DEF Inv, ThreadTypeOK, SnapGet
<1>2. KVTypeOK' /\ (store[job[t].tok][k] # Absent => ptr'[t] # Null)
      /\ \A u \in Threads \ {t} : ptr'[u] = ptr[u]
  BY <1>1, <1>k, JobFacts, GetFacts DEF Inv
<1>3. ManagerTypeOK' /\ ConnectionTypeOK'
  BY DEF Inv, SnapGet, mgrVars, ManagerTypeOK, ConnectionTypeOK
<1>4. Keeps(t) /\ Fits(t)' /\ ThreadTypeOK'
  BY <1>k, <1>2 DEF Inv, SnapGet, mgrVars, ThreadTypeOK, Goto, Labels, Keeps, Fits, JobFits, DataFits, Locked
<1>. QED BY <1>2, <1>3, <1>4, Frame DEF Inv

\* SnapRead keeps Inv.
LEMMA SnapReadStep ==
  ASSUME Inv, NEW t \in Threads, SnapRead(t), UNCHANGED <<sel, up>>
  PROVE  Inv'
<1>1. pc[t] # "idle"
  BY DEF SnapRead
<1>v. PICK v \in Values : image' = [image EXCEPT ![t].map[ptr[t].key] = v]
  BY PointerFacts DEF SnapRead
<1>2. KVTypeOK' /\ \A u \in Threads \ {t} : ptr'[u] = ptr[u]
  BY DropFacts DEF Inv, SnapRead
<1>3. ManagerTypeOK' /\ ConnectionTypeOK'
  BY DEF Inv, SnapRead, mgrVars, ManagerTypeOK, ConnectionTypeOK
<1>4. Keeps(t) /\ Fits(t)' /\ ThreadTypeOK'
  <2>1. image[t] \in FileImage /\ ptr[t].key \in Keys
    BY PointerFacts DEF Inv, SnapRead, Fits, DataFits, ThreadTypeOK
  <2>2. image'[t] \in FileImage /\ image'[t] # Null /\ image' \in [Threads -> FileImage \cup {Null}]
        /\ \A u \in Threads \ {t} : image'[u] = image[u]
    BY <1>v, <2>1, FileFacts DEF Inv, ThreadTypeOK
  <2>. QED BY <1>2, <2>2, GotoFacts DEF Inv, SnapRead, mgrVars, ThreadTypeOK, Labels, Keeps, Fits, JobFits, DataFits, Locked
<1>. QED BY <1>2, <1>3, <1>4, Frame DEF Inv

\* SnapFlag keeps Inv.
LEMMA SnapFlagStep ==
  ASSUME Inv, NEW t \in Threads, SnapFlag(t), UNCHANGED <<sel, up>>
  PROVE  Inv'
<1>1. pc[t] # "idle"
  BY DEF SnapFlag
<1>2. KVTypeOK' /\ ptr' = ptr
  BY DEF Inv, SnapFlag, kvVars, KVTypeOK
<1>3. ManagerTypeOK' /\ ConnectionTypeOK'
  BY DEF Inv, SnapFlag, mgrVars, ManagerTypeOK, ConnectionTypeOK
<1>4. Keeps(t) /\ Fits(t)' /\ ThreadTypeOK'
  <2> DEFINE whole == [image[t] EXCEPT !.autosave = FlagText(autosave[job[t].tok])]
  <2>1. whole \in FileImage /\ whole # Null
    <3>1. image[t] \in FileImage
      BY DEF Inv, SnapFlag, Fits, DataFits, ThreadTypeOK
    <3>2. autosave[job[t].tok] \in BOOLEAN
      BY <1>1, JobFacts DEF Inv, KVTypeOK
    <3>. QED BY <3>1, <3>2, FileFacts
  <2>2. CASE job[t].op = "JSON"
    <3>1. Finish(t, <<"JSON", whole>>)
      BY <2>2 DEF SnapFlag
    <3>. QED BY <1>2, <2>1, <2>2, <3>1, FinishFacts, ResponseFacts DEF Inv, SnapFlag, mgrVars, Keeps, Fits, JobFits, DataFits, Locked
  <2>3. CASE job[t].op # "JSON"
    <3>1. image' = [image EXCEPT ![t] = whole] /\ Goto(t, "open") /\ UNCHANGED <<job, todo, res>>
      BY <2>3 DEF SnapFlag
    <3>. QED BY <1>2, <2>1, <2>3, <3>1, GotoFacts
         DEF Inv, SnapFlag, mgrVars, ThreadTypeOK, Labels, Keeps, Fits, JobFits, DataFits, Locked
  <2>. QED BY <2>2, <2>3
<1>. QED BY <1>2, <1>3, <1>4, Frame DEF Inv

\* SaveLock keeps Inv.
LEMMA SaveLockStep ==
  ASSUME Inv, NEW t \in Threads, SaveLock(t), UNCHANGED <<sel, up>>
  PROVE  Inv'
<1>1. pc[t] # "idle"
  BY DEF SaveLock
<1>2. KVTypeOK' /\ ptr' = ptr
  BY DEF Inv, SaveLock, kvVars, KVTypeOK
<1>3. ManagerTypeOK' /\ ConnectionTypeOK'
  BY DEF Inv, SaveLock, mgrVars, ManagerTypeOK, ConnectionTypeOK
<1>4. Keeps(t) /\ Fits(t)' /\ ThreadTypeOK'
  BY <1>2, StoreAssumption DEF Inv, SaveLock, ThreadTypeOK, Goto, Labels, Saving, Keeps, Fits, JobFits, DataFits, Locked
<1>. QED BY <1>2, <1>3, <1>4, Frame DEF Inv

\* WriteFile keeps Inv.
LEMMA WriteFileStep ==
  ASSUME Inv, NEW t \in Threads, WriteFile(t), UNCHANGED <<sel, up>>
  PROVE  Inv'
<1>1. pc[t] # "idle"
  BY DEF WriteFile
<1>2. KVTypeOK' /\ ptr' = ptr
  BY DEF Inv, WriteFile, kvVars, KVTypeOK
<1>3. ManagerTypeOK' /\ ConnectionTypeOK'
  <2>1. image[t] \in FileImage
    BY DEF Inv, WriteFile, Fits, DataFits, ThreadTypeOK
  <2>. QED BY <1>1, <2>1, JobFacts DEF Inv, WriteFile, ManagerTypeOK, ConnectionTypeOK
<1>4. Keeps(t) /\ Fits(t)' /\ ThreadTypeOK'
  BY <1>2, StoreAssumption, SettledFacts, FinishFacts DEF Inv, WriteFile, Keeps, Fits, JobFits, DataFits, Locked
<1>. QED BY <1>2, <1>3, <1>4, Frame DEF Inv

\* WriteShort keeps Inv.
LEMMA WriteShortStep ==
  ASSUME Inv, NEW t \in Threads, WriteShort(t), UNCHANGED <<sel, up>>
  PROVE  Inv'
<1>1. pc[t] # "idle"
  BY DEF WriteShort
<1>2. KVTypeOK' /\ ptr' = ptr
  BY DEF Inv, WriteShort, kvVars, KVTypeOK
<1>3. ManagerTypeOK' /\ ConnectionTypeOK'
  <2>1. Cuts(image[t]) \subseteq FileImage
    BY FileFacts DEF Inv, WriteShort, Fits, DataFits, ThreadTypeOK
  <2>. QED BY <1>1, <2>1, JobFacts DEF Inv, WriteShort, ManagerTypeOK, ConnectionTypeOK
<1>4. Keeps(t) /\ Fits(t)' /\ ThreadTypeOK'
  BY <1>2, StoreAssumption, SettledFacts, FinishFacts DEF Inv, WriteShort, Keeps, Fits, JobFits, DataFits, Locked
<1>. QED BY <1>2, <1>3, <1>4, Frame DEF Inv

\* LoadLock keeps Inv.
LEMMA LoadLockStep ==
  ASSUME Inv, NEW t \in Threads, LoadLock(t), UNCHANGED <<sel, up>>
  PROVE  Inv'
<1>1. pc[t] # "idle"
  BY DEF LoadLock
<1>2. KVTypeOK' /\ ptr' = ptr
  BY DEF Inv, LoadLock, kvVars, KVTypeOK
<1>3. ManagerTypeOK' /\ ConnectionTypeOK'
  BY <1>1, JobFacts
  DEF Inv, LoadLock, mgrVars, ManagerTypeOK, ConnectionTypeOK
<1>4. Keeps(t) /\ Fits(t)' /\ ThreadTypeOK'
  <2>1. disk[Target(t)] \in FileImage /\ disk[Target(t)] # Null
    BY <1>1, JobFacts, FileFacts DEF Inv, LoadLock, ManagerTypeOK
  <2>. QED BY <1>2, <2>1, StoreAssumption DEF Inv, LoadLock, ThreadTypeOK, Goto, Labels, Keeps, Fits, JobFits, DataFits, Locked
<1>. QED BY <1>2, <1>3, <1>4, Frame DEF Inv

\* LoadClear keeps Inv.
LEMMA LoadClearStep ==
  ASSUME Inv, NEW t \in Threads, LoadClear(t), UNCHANGED <<sel, up>>
  PROVE  Inv'
<1>1. pc[t] # "idle"
  BY DEF LoadClear
<1>k. PICK k \in Keys : DeleteKey(job[t].tok, k) /\ todo' = [todo EXCEPT ![t] = @ \ {k}]
  BY DEF Inv, ThreadTypeOK, LoadClear
<1>2. KVTypeOK' /\ \A u \in Threads : ptr[u] # Null => ptr'[u] # Null
  BY <1>1, <1>k, JobFacts, DeleteFacts DEF Inv
<1>3. ManagerTypeOK' /\ ConnectionTypeOK'
  BY DEF Inv, LoadClear, mgrVars, ManagerTypeOK, ConnectionTypeOK
<1>4. Keeps(t) /\ Fits(t)' /\ ThreadTypeOK'
  BY <1>2, <1>k DEF Inv, LoadClear, mgrVars, ThreadTypeOK, Keeps, Fits, JobFits, DataFits, Locked
<1>. QED BY <1>2, <1>3, <1>4, Frame DEF Inv

\* LoadPut keeps Inv.
LEMMA LoadPutStep ==
  ASSUME Inv, NEW t \in Threads, LoadPut(t), UNCHANGED <<sel, up>>
  PROVE  Inv'
<1>1. pc[t] # "idle"
  BY DEF LoadPut
<1>k. PICK k \in Keys : /\ k \in todo[t]
                      /\ Put(job[t].tok, k, Reloaded[image[t].map[k]])
                      /\ todo' = [todo EXCEPT ![t] = @ \ {k}]
  BY DEF Inv, ThreadTypeOK, LoadPut
<1>2. KVTypeOK' /\ \A u \in Threads : ptr[u] # Null => ptr'[u] # Null
  <2>1. image[t] \in FileImage /\ image[t].map[k] # Absent
    BY <1>k DEF Inv, LoadPut, Fits, DataFits, ThreadTypeOK, Present
  <2>2. Reloaded[image[t].map[k]] \in Values
    BY <2>1, ManagerAssumption DEF FileImage, Contents
  <2>. QED BY <1>1, <1>k, <2>2, JobFacts, PutFacts DEF Inv
<1>3. ManagerTypeOK' /\ ConnectionTypeOK'
  BY DEF Inv, LoadPut, mgrVars, ManagerTypeOK, ConnectionTypeOK
<1>4. Keeps(t) /\ Fits(t)' /\ ThreadTypeOK'
  BY <1>2, <1>k DEF Inv, LoadPut, mgrVars, ThreadTypeOK, Keeps, Fits, JobFits, DataFits, Locked
<1>. QED BY <1>2, <1>3, <1>4, Frame DEF Inv

\* LoadFlag keeps Inv.
LEMMA LoadFlagStep ==
  ASSUME Inv, NEW t \in Threads, LoadFlag(t), UNCHANGED <<sel, up>>
  PROVE  Inv'
<1>1. pc[t] # "idle"
  BY DEF LoadFlag
<1>2. KVTypeOK' /\ ptr' = ptr
  BY <1>1, JobFacts DEF Inv, LoadFlag, kvVars, KVTypeOK, SetAutosave
<1>3. ManagerTypeOK' /\ ConnectionTypeOK'
  BY DEF Inv, LoadFlag, mgrVars, ManagerTypeOK, ConnectionTypeOK
<1>4. Keeps(t) /\ Fits(t)' /\ ThreadTypeOK'
  BY <1>2, StoreAssumption, ResponseFacts, FinishFacts DEF Inv, LoadFlag, Keeps, Fits, JobFits, DataFits, Locked
<1>. QED BY <1>2, <1>3, <1>4, Frame DEF Inv

\* The end of the process, whichever way it comes.
LEMMA DiesStep ==
  ASSUME Inv, Dies, sel' = [u \in Threads |-> Null], up' \in {"up", "aborted"}
  PROVE  Inv'
<1>1. KVTypeOK'
  BY DEF Dies, Wiped, KVTypeOK, Contents, EmptyStore
<1>2. disk' \in [Files -> FileImage \cup {NoFile}]
  <2>1. CASE mgr # Null /\ pc[mgr] = "write"
    <3>1. mgr \in Threads
      BY <2>1 DEF Inv, ManagerTypeOK
    <3>2. image[mgr] \in FileImage /\ Target(mgr) \in Files
      BY <2>1, <3>1, JobFacts DEF Inv, Fits, DataFits, ThreadTypeOK
    <3>3. PICK part \in Cuts(image[mgr]) \cup {image[mgr]} : disk' = [disk EXCEPT ![Target(mgr)] = part]
      BY <2>1 DEF Dies
    <3>4. part \in FileImage
      BY <3>2, FileFacts
    <3>. QED BY <3>2, <3>3, <3>4 DEF Inv, ManagerTypeOK
  <2>2. CASE ~(mgr # Null /\ pc[mgr] = "write")
    BY <2>2 DEF Dies, Inv, ManagerTypeOK
  <2>. QED BY <2>1, <2>2
<1>3. ManagerTypeOK' /\ ConnectionTypeOK'
  BY <1>2 DEF Dies, ManagerTypeOK, ConnectionTypeOK
<1>4. ThreadTypeOK'
  BY DEF Dies, ThreadTypeOK, Labels
<1>5. \A u \in Threads : Fits(u)'
  BY StoreAssumption DEF Dies, Fits, JobFits, DataFits, Locked
<1>. QED BY <1>1, <1>3, <1>4, <1>5 DEF Inv

\* The server starts with Inv.
LEMMA InitInv == Init => Inv
<1>. SUFFICES ASSUME Init PROVE Inv
  OBVIOUS
<1>1. KVTypeOK
  BY DEF Init, ManagerInit, KVInit, KVTypeOK, Contents, EmptyStore
<1>2. ManagerTypeOK /\ ConnectionTypeOK /\ ThreadTypeOK
  BY DEF Init, ManagerInit, ManagerTypeOK, ConnectionTypeOK, ThreadTypeOK, Labels
<1>3. \A u \in Threads : Fits(u)
  BY StoreAssumption DEF Init, ManagerInit, KVInit, Fits, JobFits, DataFits, Locked
<1>. QED BY <1>1, <1>2, <1>3 DEF Inv

\* Every step of the server keeps Inv.
LEMMA NextInv == Inv /\ [Next]_vars => Inv'
<1>. SUFFICES ASSUME Inv, [Next]_vars PROVE Inv'
  OBVIOUS
<1>1. CASE UNCHANGED vars
  BY <1>1 DEF Inv, vars, kvVars, mgrVars, threadVars, KVTypeOK, ManagerTypeOK, ThreadTypeOK,
              ConnectionTypeOK, Fits, JobFits, DataFits, Locked
<1>2. ASSUME NEW t \in Threads, Serve(t) PROVE Inv'
  <2>1. CASE Select(t) \/ Disconnect(t) \/ Receive(t) \/ Reply(t)
    BY <1>2, <2>1, SelectStep, DisconnectStep, ReceiveStep, ReplyStep DEF Serve
  <2>2. CASE GetStore(t, Entry(job[t].op)) /\ UNCHANGED sel
    BY <1>2, <2>2, GetStoreStep DEF Serve
  <2>3. CASE \/ GetKey(t) \/ GetRead(t) \/ PutKey(t) \/ EraseKey(t) \/ CheckAutosave(t)
             \/ TurnAutosave(t) \/ ListKeys(t) \/ Answer(t)
    BY <1>2, <2>3, GetKeyStep, GetReadStep, PutKeyStep, EraseKeyStep, CheckAutosaveStep,
       TurnAutosaveStep, ListKeysStep, AnswerStep DEF Serve
  <2>4. CASE Snapshot(t) /\ UNCHANGED sel
    BY <1>2, <2>4, SnapKeysStep, SnapGetStep, SnapReadStep, SnapFlagStep DEF Serve, Snapshot
  <2>5. CASE Save(t) /\ UNCHANGED sel
    BY <1>2, <2>5, SaveLockStep, OpenFileStep, OpenFailsStep, WriteFileStep, WriteShortStep
    DEF Serve, Save
  <2>6. CASE Load(t) /\ UNCHANGED sel
    BY <1>2, <2>6, LoadLockStep, LoadMissingStep, LoadUnreadableStep, LoadKeysStep, LoadClearStep,
       LoadParseStep, LoadPutStep, LoadThrowsStep, LoadFlagStep DEF Serve, Load
  <2>. QED BY <1>2, <2>1, <2>2, <2>3, <2>4, <2>5, <2>6 DEF Serve, Command
<1>3. ASSUME NEW t \in Threads, Abort(t) PROVE Inv'
  BY <1>3, DiesStep DEF Abort, SetAborts, FreedReadAborts
<1>4. CASE up = "up" /\ Kill
  BY <1>4, DiesStep DEF Kill
<1>5. CASE Restart
  BY <1>5 DEF Restart, Inv, kvVars, mgrVars, threadVars, KVTypeOK, ManagerTypeOK, ThreadTypeOK,
              ConnectionTypeOK, Fits, JobFits, DataFits, Locked
<1>. QED BY <1>1, <1>2, <1>3, <1>4, <1>5 DEF Next

\* Inv holds in every reachable state.
LEMMA Invariance == Spec => []Inv
BY InitInv, NextInv, PTL DEF Spec

\* Every variable keeps its type, for any numbers of threads, stores, keys and
\* values and any faults.
THEOREM TypeCorrect == Spec => []TypeOK
<1>1. Inv => TypeOK
  BY TypeParts DEF Inv
<1>. QED BY <1>1, Invariance, PTL

\* The StoreManager mutex is held exactly by the thread inside saveStore or
\* loadStore: it is never kept after a command, nor held by two.
THEOREM MutexCorrect == Spec => []LockDiscipline
<1>1. Inv => LockDiscipline
  BY DEF Inv, Fits, LockDiscipline
<1>. QED BY <1>1, Invariance, PTL

-----------------------------------------------------------------------------
(* The stores.  Their contents and registered types change only by put(),  *)
(* by deleteKey() and with the end of the process (StoreChanges).  So an   *)
(* invariant about the two, such as TypesUniform, has three cases where it *)
(* would have one for each action.                                         *)

\* The ways in which a step may change the contents and types of stores.
StoreChanges ==
  \/ UNCHANGED <<store, registry>>
  \/ \E tok \in Tokens, k \in Keys : DeleteKey(tok, k)
  \/ \E tok \in Tokens, k \in Keys, v \in Values : Put(tok, k, v)
  \/ Wiped

\* No step changes a store in any other way.
LEMMA StepChangesStore == Inv /\ [Next]_vars => StoreChanges
<1>. SUFFICES ASSUME Inv, [Next]_vars PROVE StoreChanges
  OBVIOUS
<1>1. CASE UNCHANGED vars
  BY <1>1 DEF vars, kvVars, StoreChanges
<1>2. ASSUME NEW t \in Threads, Serve(t) PROVE StoreChanges
  <2>1. CASE Select(t) \/ Disconnect(t) \/ Receive(t) \/ Reply(t)
    BY <2>1 DEF Select, Disconnect, Receive, Reply, kvVars, StoreChanges
  <2>2. CASE GetStore(t, Entry(job[t].op))
    BY <2>2 DEF GetStore, kvVars, StoreChanges
  <2>3. CASE GetKey(t) \/ GetRead(t) \/ CheckAutosave(t) \/ TurnAutosave(t) \/ ListKeys(t) \/ Answer(t)
    BY <2>3 DEF GetKey, GetRead, CheckAutosave, TurnAutosave, ListKeys, Answer,
                Get, DropPointer, SetAutosave, kvVars, StoreChanges
  <2>4. CASE PutKey(t)
    <3>1. pc[t] # "idle" /\ job[t].op = "SET"
      BY <2>4 DEF PutKey, Inv, Fits, JobFits
    <3>. QED BY <2>4, <3>1, JobFacts DEF PutKey, StoreChanges
  <2>5. CASE EraseKey(t)
    <3>1. pc[t] # "idle" /\ job[t].op = "DELETE"
      BY <2>5 DEF EraseKey, Inv, Fits, JobFits
    <3>. QED BY <2>5, <3>1, JobFacts DEF EraseKey, StoreChanges
  <2>6. CASE Snapshot(t)
    BY <2>6 DEF Snapshot, SnapKeys, SnapGet, SnapRead, SnapFlag, Get, DropPointer, kvVars, StoreChanges
  <2>7. CASE Save(t)
    BY <2>7 DEF Save, SaveLock, OpenFile, OpenFails, WriteFile, WriteShort, kvVars, StoreChanges
  <2>8. CASE \/ LoadLock(t) \/ LoadMissing(t) \/ LoadUnreadable(t) \/ LoadKeys(t)
             \/ LoadParse(t) \/ LoadThrows(t) \/ LoadFlag(t)
    BY <2>8 DEF LoadLock, LoadMissing, LoadUnreadable, LoadKeys, LoadParse, LoadThrows, LoadFlag,
                SetAutosave, kvVars, StoreChanges
  <2>9. CASE LoadClear(t)
    <3>1. PICK k \in todo[t] : DeleteKey(job[t].tok, k)
      BY <2>9 DEF LoadClear
    <3>2. k \in Keys
      BY DEF Inv, ThreadTypeOK
    <3>3. job[t].tok \in Tokens
      BY <2>9, JobFacts DEF LoadClear
    <3>. QED BY <3>1, <3>2, <3>3 DEF StoreChanges
  <2>10. CASE LoadPut(t)
    <3>1. PICK k \in todo[t] : Put(job[t].tok, k, Reloaded[image[t].map[k]])
      BY <2>10 DEF LoadPut
    <3>2. k \in Keys
      BY DEF Inv, ThreadTypeOK
    <3>3. job[t].tok \in Tokens
      BY <2>10, JobFacts DEF LoadPut
    <3>4. Reloaded[image[t].map[k]] \in Values
      <4>1. image[t] \in FileImage /\ image[t].map[k] # Absent
        BY <2>10 DEF Inv, LoadPut, Fits, DataFits, ThreadTypeOK, Present
      <4>. QED BY <3>2, <4>1, ManagerAssumption DEF FileImage, Contents
    <3>. QED BY <3>1, <3>2, <3>3, <3>4 DEF StoreChanges
  <2>. QED BY <1>2, <2>1, <2>2, <2>3, <2>4, <2>5, <2>6, <2>7, <2>8, <2>9, <2>10
       DEF Serve, Command, Load
<1>3. ASSUME NEW t \in Threads, Abort(t) PROVE StoreChanges
  BY <1>3 DEF Abort, SetAborts, FreedReadAborts, Dies, StoreChanges
<1>4. CASE (up = "up" /\ Kill) \/ Restart
  BY <1>4 DEF Kill, Restart, Dies, kvVars, StoreChanges
<1>. QED BY <1>1, <1>2, <1>3, <1>4 DEF Next

-----------------------------------------------------------------------------
\* put() checks the type it is given before it stores the value, and when no
\* type is registered there is no entry.
LEMMA PutKeepsTypes ==
  ASSUME KVTypeOK, TypesUniform,
         NEW tok \in Tokens, NEW k \in Keys, NEW v \in Values, Put(tok, k, v)
  PROVE  TypesUniform'
<1>. SUFFICES ASSUME NEW t2 \in Tokens, NEW k2 \in Present(store'[t2])
              PROVE  registry'[t2] = TypeOf[store'[t2][k2]]
  BY DEF TypesUniform
<1>1. k2 \in Keys /\ store'[t2][k2] # Absent
  BY DEF Present
<1>2. CASE t2 = tok /\ k2 = k
  BY <1>1, <1>2 DEF Put, KVTypeOK, Contents
<1>3. CASE ~(t2 = tok /\ k2 = k)
  <2>1. store'[t2][k2] = store[t2][k2]
    BY <1>1, <1>3 DEF Put, KVTypeOK, Contents
  <2>2. registry[t2] = TypeOf[store[t2][k2]] /\ store[t2][k2] \in Values
    BY <1>1, <2>1 DEF TypesUniform, Present, KVTypeOK, Contents
  <2>3. registry[t2] # "none"
    BY <2>2, StoreAssumption DEF Types
  <2>4. t2 = tok => registry[t2] = TypeOf[v]
    BY <2>3 DEF Put, Mismatch
  <2>5. registry'[t2] = registry[t2]
    BY <2>4 DEF Put, KVTypeOK
  <2>. QED BY <2>1, <2>2, <2>5
<1>. QED BY <1>2, <1>3

\* The registry only forgets with the process, and there the entries go too.
LEMMA OtherChangesKeepTypes ==
  ASSUME KVTypeOK, TypesUniform,
         \/ UNCHANGED <<store, registry>>
         \/ \E tok \in Tokens, k \in Keys : DeleteKey(tok, k)
         \/ Wiped
  PROVE  TypesUniform'
<1>1. CASE UNCHANGED <<store, registry>>
  BY <1>1 DEF TypesUniform, Present
<1>2. ASSUME NEW tok \in Tokens, NEW k \in Keys, DeleteKey(tok, k) PROVE TypesUniform'
  BY <1>2 DEF DeleteKey, TypesUniform, Present, KVTypeOK, Contents
<1>3. CASE Wiped
  BY <1>3 DEF Wiped, TypesUniform, Present, EmptyStore
<1>. QED BY <1>1, <1>2, <1>3

\* One type per store: whatever the clients SET, DELETE and LOAD, in whatever
\* order their steps come and however the process ends, the entries of a store
\* all have the type its registry holds.
THEOREM TypesCorrect == Spec => []TypesUniform
<1>1. Init => TypesUniform
  BY DEF Init, ManagerInit, KVInit, TypesUniform, Present, EmptyStore
<1>2. Inv /\ TypesUniform /\ [Next]_vars => TypesUniform'
  BY StepChangesStore, PutKeepsTypes, OtherChangesKeepTypes DEF StoreChanges, Inv
<1>. QED BY <1>1, <1>2, Invariance, PTL DEF Spec

-----------------------------------------------------------------------------
\* A thread past getStore has a store, and keeps it.
Served == \A t \in Threads : pc[t] \notin {"idle", "getStore"} => job[t].tok \in known

\* What a step of a command does to commands and to the map of stores.
LEMMA CommandEffect ==
  ASSUME Inv, NEW t \in Threads, Command(t)
  PROVE  /\ job' = job
         /\ known \subseteq known'
         /\ \A u \in Threads \ {t} : pc'[u] = pc[u]
         /\ pc[t] = "getStore" => job[t].tok \in known'
         /\ pc[t] # "idle"
BY DEF Inv, ThreadTypeOK, Goto, Finish, mgrVars,
       Command, GetStore, GetKey, GetRead, PutKey, EraseKey, CheckAutosave, TurnAutosave,
       ListKeys, Answer, Snapshot, SnapKeys, SnapGet, SnapRead, SnapFlag,
       Save, SaveLock, OpenFile, OpenFails, WriteFile, WriteShort,
       Load, LoadLock, LoadMissing, LoadUnreadable, LoadKeys, LoadClear, LoadParse, LoadPut,
       LoadThrows, LoadFlag

\* No store is forgotten but with the process.
LEMMA StepKeepsServed == Inv /\ Served /\ [Next]_vars => Served'
<1>. SUFFICES ASSUME Inv, Served, [Next]_vars PROVE Served'
  OBVIOUS
<1>1. CASE UNCHANGED vars
  BY <1>1 DEF Served, vars, mgrVars, threadVars
<1>2. ASSUME NEW t \in Threads, Select(t) \/ Disconnect(t) PROVE Served'
  BY <1>2 DEF Served, Select, Disconnect, threadVars, mgrVars
<1>3. ASSUME NEW t \in Threads, Receive(t) \/ Reply(t) PROVE Served'
  BY <1>3 DEF Served, Receive, Reply, Goto, mgrVars, Inv, ThreadTypeOK
<1>4. ASSUME NEW t \in Threads, Command(t) PROVE Served'
  BY <1>4, CommandEffect DEF Served
<1>5. ASSUME NEW t \in Threads, Abort(t) PROVE Served'
  BY <1>5 DEF Served, Abort, SetAborts, FreedReadAborts, Dies
<1>6. CASE up = "up" /\ Kill
  BY <1>6 DEF Served, Kill, Dies
<1>7. CASE Restart
  BY <1>7 DEF Served, Restart, threadVars, mgrVars
<1>. QED BY <1>1, <1>2, <1>3, <1>4, <1>5, <1>6, <1>7 DEF Next, Serve

\* saveStore never throws "Store not found" in the server: the store of every
\* command that saves has been created by getStore and is not removed.
THEOREM SaveCorrect == Spec => []SaveFindsStore
<1>1. Init => Served
  BY DEF Init, ManagerInit, Served
<1>2. Served => SaveFindsStore
  BY DEF Served, SaveFindsStore
<1>. QED BY <1>1, <1>2, StepKeepsServed, Invariance, PTL DEF Spec

-----------------------------------------------------------------------------
(* How long the mutex is held.                                             *)

\* A loop has as many keys before it as are left of todo.
LEMMA TodoFacts ==
  ASSUME IsFiniteSet(Keys), Inv, NEW t \in Threads
  PROVE  /\ IsFiniteSet(todo[t]) /\ Cardinality(todo[t]) \in Nat
         /\ Cardinality(Keys) \in Nat /\ Cardinality(todo[t]) <= Cardinality(Keys)
         /\ \A k \in todo[t] : Cardinality(todo[t] \ {k}) = Cardinality(todo[t]) - 1
<1>1. todo[t] \subseteq Keys
  BY DEF Inv, ThreadTypeOK
<1>. QED BY <1>1, FS_Subset, FS_CardinalityType, FS_RemoveElement

\* The steps of the holder.
LEMMA HolderStep ==
  ASSUME IsFiniteSet(Keys), Inv, NEW t \in Threads, Serve(t), mgr = t, mgr' = t
  PROVE  StepsLeft(t)' < StepsLeft(t)
<1>. USE DEF Inv, ThreadTypeOK, Goto, Finish, StepsLeft
<1>1. Locked(t)
  BY DEF Fits
<1>2. CASE Select(t) \/ Disconnect(t) \/ Receive(t) \/ Reply(t) \/ GetStore(t, Entry(job[t].op))
  BY <1>1, <1>2 DEF Select, Disconnect, Receive, Reply, GetStore, Locked
<1>3. CASE \/ GetKey(t) \/ GetRead(t) \/ PutKey(t) \/ EraseKey(t) \/ CheckAutosave(t)
           \/ TurnAutosave(t) \/ ListKeys(t) \/ Answer(t)
  BY <1>1, <1>3
  DEF GetKey, GetRead, PutKey, EraseKey, CheckAutosave, TurnAutosave, ListKeys, Answer, Locked
<1>4. CASE SnapKeys(t)
  <2>1. pc[t] = "snapKeys" /\ pc'[t] = "snapGet" /\ todo'[t] \subseteq Keys
    BY <1>4 DEF SnapKeys, Present
  <2>2. Cardinality(todo'[t]) \in Nat /\ Cardinality(todo'[t]) <= Cardinality(Keys)
    BY <2>1, FS_Subset, FS_CardinalityType
  <2>. QED BY <2>1, <2>2, TodoFacts
<1>5. CASE SnapGet(t)
  <2>1. PICK k \in todo[t] : /\ todo' = [todo EXCEPT ![t] = @ \ {k}]
                             /\ pc' = [pc EXCEPT ![t] = IF store[job[t].tok][k] = Absent
                                                        THEN "snapGet" ELSE "snapRead"]
    BY <1>5 DEF SnapGet
  <2>2. pc[t] = "snapGet" /\ pc'[t] \in {"snapGet", "snapRead"} /\ todo'[t] = todo[t] \ {k}
    BY <1>5, <2>1 DEF SnapGet
  <2>. QED BY <2>2, TodoFacts
<1>6. CASE SnapRead(t)
  <2>1. pc[t] = "snapRead" /\ pc'[t] = "snapGet" /\ todo'[t] = todo[t]
    BY <1>6 DEF SnapRead
  <2>. QED BY <2>1, TodoFacts
<1>7. CASE SnapFlag(t)
  <2>1. pc[t] = "snapGet" /\ pc'[t] = "open"
    BY <1>1, <1>7 DEF SnapFlag, Locked
  <2>. QED BY <2>1, TodoFacts
<1>8. CASE Save(t)
  <2>1. pc[t] = "open" /\ pc'[t] = "write"
    BY <1>1, <1>8, StoreAssumption
    DEF Save, SaveLock, OpenFile, OpenFails, WriteFile, WriteShort, Locked
  <2>. QED BY <2>1
<1>9. CASE LoadLock(t) \/ LoadMissing(t) \/ LoadUnreadable(t) \/ LoadThrows(t) \/ LoadFlag(t)
  BY <1>9, StoreAssumption DEF LoadLock, LoadMissing, LoadUnreadable, LoadThrows, LoadFlag
<1>10. CASE LoadKeys(t)
  <2>1. pc[t] = "loadKeys" /\ pc'[t] = "loadClear" /\ todo'[t] \subseteq Keys
    BY <1>10 DEF LoadKeys, Present
  <2>2. Cardinality(todo'[t]) \in Nat /\ Cardinality(todo'[t]) <= Cardinality(Keys)
    BY <2>1, FS_Subset, FS_CardinalityType
  <2>. QED BY <2>1, <2>2, TodoFacts
<1>11. CASE LoadClear(t) \/ LoadPut(t)
  <2>1. PICK k \in todo[t] : todo' = [todo EXCEPT ![t] = @ \ {k}]
    BY <1>11 DEF LoadClear, LoadPut
  <2>2. pc[t] \in {"loadClear", "loadPut"} /\ pc' = pc /\ todo'[t] = todo[t] \ {k}
    BY <1>11, <2>1 DEF LoadClear, LoadPut
  <2>. QED BY <2>2, TodoFacts
<1>12. CASE LoadParse(t)
  <2>1. pc[t] = "loadClear" /\ pc'[t] = "loadPut" /\ todo'[t] \subseteq Keys
    BY <1>12 DEF LoadParse, Present
  <2>2. Cardinality(todo'[t]) \in Nat /\ Cardinality(todo'[t]) <= Cardinality(Keys)
    BY <2>1, FS_Subset, FS_CardinalityType
  <2>. QED BY <2>1, <2>2, TodoFacts
<1>. QED BY <1>2, <1>3, <1>4, <1>5, <1>6, <1>7, <1>8, <1>9, <1>10, <1>11, <1>12
     DEF Serve, Command, Snapshot, Load

\* The others cannot keep a thread in the mutex: whatever they do to the stores,
\* a save or load takes 2 |Keys| + 4 steps at most, and they take none of them back.
THEOREM MutexHeldBriefly ==
  ASSUME IsFiniteSet(Keys)
  PROVE  Spec => HolderProgresses
<1>1. ASSUME Inv, [Next]_vars, NEW t \in Threads, mgr = t, mgr' = t
      PROVE  UNCHANGED <<pc[t], todo[t]>> \/ StepsLeft(t)' < StepsLeft(t)
  <2>1. CASE Restart \/ UNCHANGED vars
    BY <2>1 DEF Restart, vars, threadVars
  <2>2. ~Dies
    BY <1>1, StoreAssumption DEF Dies
  <2>3. ASSUME Serve(t) PROVE StepsLeft(t)' < StepsLeft(t)
    BY <1>1, <2>3, HolderStep
  <2>4. ASSUME NEW u \in Threads, Serve(u), u # t PROVE UNCHANGED <<pc[t], todo[t]>>
    BY <1>1, <2>4
    DEF Inv, ThreadTypeOK, Goto, Finish, threadVars,
        Serve, Select, Disconnect, Receive, Reply,
        Command, GetStore, GetKey, GetRead, PutKey, EraseKey, CheckAutosave, TurnAutosave,
        ListKeys, Answer, Snapshot, SnapKeys, SnapGet, SnapRead, SnapFlag,
        Save, SaveLock, OpenFile, OpenFails, WriteFile, WriteShort,
        Load, LoadLock, LoadMissing, LoadUnreadable, LoadKeys, LoadClear, LoadParse, LoadPut,
        LoadThrows, LoadFlag
  <2>. QED BY <1>1, <2>1, <2>2, <2>3, <2>4 DEF Next, Abort, SetAborts, FreedReadAborts, Kill
<1>2. Inv /\ [Next]_vars =>
        [\A t \in Threads : mgr = t /\ mgr' = t =>
           \/ UNCHANGED <<pc[t], todo[t]>>
           \/ StepsLeft(t)' < StepsLeft(t)]_vars
  BY <1>1
<1>. QED BY <1>2, Invariance, PTL DEF Spec, HolderProgresses

=============================================================================
