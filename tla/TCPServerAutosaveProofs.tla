---------------------- MODULE TCPServerAutosaveProofs ----------------------
(***************************************************************************)
(* Autosave keeps every file current, for every value of the constants in  *)
(* which files can be opened and written and no two stores share a file,   *)
(* as long as every SAVE names the file of its own store and nobody sends  *)
(* a LOAD.  With a LOAD, or with a shared file, it does not hold.          *)
(*                                                                         *)
(* AutosaveCurrent speaks of the moments when nobody is at work on a       *)
(* store.  What is inductive (StoreFits) speaks of the moments when nobody *)
(* OWES the store a save, that is, nobody is between a change of it and    *)
(* the mutex: then the save that is under way, if there is one, has seen   *)
(* every change so far (WalkCurrent), and otherwise the file is current.   *)
(* A walk that reads memory that was freed does no harm: whoever freed it  *)
(* owes the store a save.                                                  *)
(***************************************************************************)
EXTENDS TCPServerProofs

\* What the theorem asks of the environment, the file names and the clients.
Orderly ==
  /\ "io" \notin Faults
  /\ "LOAD" \notin Ops
  /\ \A a, b \in Tokens : FileOf[a] = FileOf[b] => a = b

\* Thread t has changed store tok, or its flag, and has yet to save it.
Owes(t, tok) == job[t] # Null /\ job[t].tok = tok /\ pc[t] \in {"flag", "saveLock"}

\* Thread t is saving store tok.
Saves(t, tok) == mgr = t /\ job[t].tok = tok

\* A walk has put down nothing for the keys it has not got to.
WalkFits(t) ==
  /\ pc[t] \in {"snapGet", "snapRead"} => \A k \in todo[t] : image[t].map[k] = Absent
  /\ pc[t] = "snapRead" => ptr[t].key \notin todo[t] /\ ptr[t].tok = job[t].tok

\* The walk of store tok by thread t has seen the store as it is.
WalkCurrent(t, tok) ==
  /\ pc[t] = "snapGet" =>
       \A k \in Keys \ todo[t] : image[t].map[k] = store[tok][k]
  /\ pc[t] = "snapRead" =>
       /\ \A k \in Keys \ todo[t] : k # ptr[t].key => image[t].map[k] = store[tok][k]
       /\ ptr[t].val = store[tok][ptr[t].key] /\ ptr[t].live
  /\ pc[t] \in {"open", "write"} => image[t] = [map |-> store[tok], autosave |-> "true"]

\* While nobody owes store tok a save: the save under way is current, or the
\* file is.
StoreFits(tok) ==
  autosave[tok] /\ (\A t \in Threads : ~Owes(t, tok)) =>
    /\ \A t \in Threads : Saves(t, tok) => WalkCurrent(t, tok)
    /\ (\A t \in Threads : ~Saves(t, tok)) =>
         disk[FileOf[tok]] = [map |-> store[tok], autosave |-> "true"]

\* Clients send commands of Ops only.
OpsFit == \A t \in Threads : job[t] # Null => job[t].op \in Ops

\* What is said of the walks and of the stores.
Current == (\A t \in Threads : WalkFits(t)) /\ (\A tok \in Tokens : StoreFits(tok))

\* The inductive invariant.
AInv == Inv /\ OpsFit /\ Current

-----------------------------------------------------------------------------
\* The pointers of the other threads point to what they did.
PointersKept(t) ==
  \A u \in Threads \ {t} :
    ptr[u] # Null =>
      ptr'[u].tok = ptr[u].tok /\ ptr'[u].key = ptr[u].key /\ ptr'[u].val = ptr[u].val

\* The store, its flag and its file are left alone, and the pointers of the other
\* threads into it stay live.
StoreKept(t, tok) ==
  /\ store'[tok] = store[tok]
  /\ autosave'[tok] = autosave[tok]
  /\ disk'[FileOf[tok]] = disk[FileOf[tok]]
  /\ \A u \in Threads \ {t} :
       ptr[u] # Null /\ ptr[u].tok = tok => ptr'[u].live = ptr[u].live

\* What is freed keeps its store, its key and its value.
LEMMA FreedKeeps ==
  ASSUME KVTypeOK, NEW tok, NEW k, ptr' = Freed(tok, k), NEW t \in Threads
  PROVE  /\ PointersKept(t)
         /\ \A u \in Threads : ptr[u] # Null /\ ptr[u].tok # tok => ptr'[u].live = ptr[u].live
<1>1. ASSUME NEW u \in Threads, ptr[u] # Null
      PROVE  /\ ptr'[u].tok = ptr[u].tok /\ ptr'[u].key = ptr[u].key /\ ptr'[u].val = ptr[u].val
             /\ ptr[u].tok # tok => ptr'[u].live = ptr[u].live
  <2>1. ptr[u] \in Pointer
    BY <1>1 DEF KVTypeOK
  <2>. QED BY <2>1 DEF Freed, Pointer
<1>. QED BY <1>1 DEF PointersKept

\* The walks of the threads that take no step are as they were.
LEMMA WalkFrame ==
  ASSUME AInv, NEW t \in Threads, Keeps(t), PointersKept(t), WalkFits(t)'
  PROVE  \A u \in Threads : WalkFits(u)'
<1>1. ASSUME NEW u \in Threads \ {t} PROVE WalkFits(u)'
  <2>1. pc[u] = "snapRead" => ptr[u] # Null
    BY DEF AInv, Inv, Fits, DataFits
  <2>. QED BY <1>1, <2>1 DEF AInv, Current, WalkFits, Keeps, PointersKept
<1>. QED BY <1>1

\* A store stays as it should be if it is left alone by a step of a thread that
\* does not save it and owes it no less than before.
LEMMA StoreFrame ==
  ASSUME AInv, NEW t \in Threads, NEW tok \in Tokens,
         Keeps(t), PointersKept(t), StoreKept(t, tok),
         ~Saves(t, tok), ~Saves(t, tok)', Owes(t, tok) => Owes(t, tok)'
  PROVE  StoreFits(tok)'
<1>. SUFFICES ASSUME autosave'[tok], \A u \in Threads : ~Owes(u, tok)'
              PROVE  /\ \A u \in Threads : Saves(u, tok)' => WalkCurrent(u, tok)'
                     /\ (\A u \in Threads : ~Saves(u, tok)') =>
                          disk'[FileOf[tok]] = [map |-> store'[tok], autosave |-> "true"]
  BY DEF StoreFits
<1>1. autosave[tok] /\ \A u \in Threads : ~Owes(u, tok)
  BY DEF StoreKept, Keeps, Owes
<1>2. \A u \in Threads : Saves(u, tok)' <=> Saves(u, tok)
  BY DEF Keeps, Saves
<1>3. ASSUME NEW u \in Threads, Saves(u, tok)' PROVE WalkCurrent(u, tok)'
  <2>1. u # t /\ WalkCurrent(u, tok)
    BY <1>1, <1>2, <1>3 DEF AInv, Current, StoreFits
  <2>2. pc[u] = "snapRead" => ptr[u] # Null /\ ptr[u].tok = tok
    BY <1>2, <1>3 DEF AInv, Inv, Fits, DataFits, Current, WalkFits, Saves
  <2>. QED BY <2>1, <2>2 DEF WalkCurrent, Keeps, PointersKept, StoreKept
<1>4. ASSUME \A u \in Threads : ~Saves(u, tok)'
      PROVE  disk'[FileOf[tok]] = [map |-> store'[tok], autosave |-> "true"]
  BY <1>1, <1>2, <1>4 DEF AInv, Current, StoreFits, StoreKept
<1>. QED BY <1>3, <1>4

\* A step of a thread outside the mutex that changes no store.
LEMMA AsideFrame ==
  ASSUME AInv, NEW t \in Threads, Keeps(t), PointersKept(t), WalkFits(t)',
         mgr # t, mgr' # t, \A tok \in Tokens : StoreKept(t, tok), pc[t] \notin {"flag", "saveLock"}
  PROVE  Current'
<1>1. ASSUME NEW tok \in Tokens PROVE StoreFits(tok)'
  BY <1>1, StoreFrame DEF Saves, Owes
<1>. QED BY <1>1, WalkFrame DEF Current

\* A step of a thread outside the mutex that changes its own store, and owes
\* the store a save then unless autosave is off.
LEMMA OwnerFrame ==
  ASSUME AInv, NEW t \in Threads, Keeps(t), PointersKept(t), WalkFits(t)',
         mgr # t, mgr' # t, job[t] # Null, job' = job,
         \A tok \in Tokens : tok # job[t].tok => StoreKept(t, tok),
         Owes(t, job[t].tok)' \/ ~autosave'[job[t].tok]
  PROVE  Current'
<1>1. ASSUME NEW tok \in Tokens, tok # job[t].tok PROVE StoreFits(tok)'
  BY <1>1, StoreFrame DEF Saves, Owes
<1>2. StoreFits(job[t].tok)'
  BY DEF StoreFits, Owes
<1>. QED BY <1>1, <1>2, WalkFrame DEF Current

\* A step of the thread that holds the mutex to save its store, after which the
\* walk is current if nobody owes the store a save.
LEMMA SaverFrame ==
  ASSUME AInv, NEW t \in Threads, Keeps(t), PointersKept(t), WalkFits(t)',
         mgr' = t, job' = job, job[t] # Null,
         \A tok \in Tokens : tok # job[t].tok => StoreKept(t, tok),
         autosave'[job[t].tok] /\ (\A u \in Threads : ~Owes(u, job[t].tok)') =>
           WalkCurrent(t, job[t].tok)'
  PROVE  Current'
<1>1. ASSUME NEW tok \in Tokens, tok # job[t].tok PROVE StoreFits(tok)'
  BY <1>1, StoreFrame DEF Saves, Owes
<1>2. StoreFits(job[t].tok)'
  BY DEF StoreFits, Saves
<1>. QED BY <1>1, <1>2, WalkFrame DEF Current

-----------------------------------------------------------------------------
\* Steps outside the mutex that change no store.
Aside(t) ==
  \/ Select(t) \/ Disconnect(t) \/ Receive(t) \/ Reply(t) \/ GetStore(t, Entry(job[t].op))
  \/ GetKey(t) \/ GetRead(t) \/ ListKeys(t) \/ Answer(t)

\* They leave every store and every walk as it was.
LEMMA AsideStep ==
  ASSUME AInv, NEW t \in Threads, Aside(t)
  PROVE  Current'
<1>1. mgr # t /\ mgr' = mgr /\ pc[t] \notin {"flag", "saveLock"}
  BY DEF AInv, Inv, Fits, Locked, Aside, Select, Disconnect, Receive, Reply, GetStore, GetKey,
         GetRead, ListKeys, Answer, mgrVars
<1>2. \A u \in Threads \ {t} : ptr'[u] = ptr[u]
  BY DEF AInv, Inv, KVTypeOK, Aside, Select, Disconnect, Receive, Reply, GetStore, GetKey, Get,
         GetRead, DropPointer, ListKeys, Answer, kvVars
<1>3. \A tok \in Tokens : StoreKept(t, tok)
  BY <1>2 DEF StoreKept, Aside, Select, Disconnect, Receive, Reply, GetStore, GetKey, Get, GetRead,
         DropPointer, ListKeys, Answer, mgrVars, kvVars
<1>4. Keeps(t) /\ PointersKept(t)
  BY <1>1, <1>2 DEF AInv, Inv, ThreadTypeOK, Keeps, PointersKept, Aside, Select, Disconnect,
         Receive, Reply, GetStore, GetKey, GetRead, ListKeys, Answer, Goto, Finish, threadVars
<1>5. pc'[t] \notin {"snapGet", "snapRead"}
  <2>1. CASE GetStore(t, Entry(job[t].op))
    <3>1. job[t].op \in AllOps
      BY <2>1, JobFacts DEF AInv, GetStore
    <3>. QED BY <2>1, <3>1 DEF AInv, Inv, ThreadTypeOK, GetStore, Goto, Entry, AllOps
  <2>2. CASE ~GetStore(t, Entry(job[t].op))
    BY <2>2 DEF AInv, Inv, ThreadTypeOK, Aside, Select, Disconnect, Receive, Reply, GetKey,
           GetRead, ListKeys, Answer, Goto, Finish, threadVars
  <2>. QED BY <2>1, <2>2
<1>. QED BY <1>1, <1>3, <1>4, <1>5, AsideFrame DEF WalkFits

\* Steps that change a store or its flag, and the test of the flag after them.
Change(t) == PutKey(t) \/ EraseKey(t) \/ TurnAutosave(t) \/ CheckAutosave(t)

\* They leave their thread owing the store a save, unless autosave is off.
LEMMA ChangeStep ==
  ASSUME AInv, NEW t \in Threads, Change(t)
  PROVE  Current'
<1>1. mgr # t /\ mgr' = mgr /\ job[t] # Null /\ job' = job
  BY DEF AInv, Inv, Fits, JobFits, Locked, Change, PutKey, EraseKey, TurnAutosave, CheckAutosave,
         Finish, mgrVars
<1>2. /\ PointersKept(t)
      /\ \A u \in Threads : ptr[u] # Null /\ ptr[u].tok # job[t].tok => ptr'[u].live = ptr[u].live
  <2>1. CASE PutKey(t) \/ EraseKey(t)
    BY <2>1, FreedKeeps DEF AInv, Inv, PutKey, Put, EraseKey, DeleteKey
  <2>2. CASE TurnAutosave(t) \/ CheckAutosave(t)
    BY <2>2 DEF PointersKept, TurnAutosave, SetAutosave, CheckAutosave, kvVars
  <2>. QED BY <2>1, <2>2 DEF Change
<1>3. ASSUME NEW tok \in Tokens, tok # job[t].tok PROVE StoreKept(t, tok)
  <2>1. /\ store'[tok] = store[tok] /\ autosave'[tok] = autosave[tok]
        /\ disk'[FileOf[tok]] = disk[FileOf[tok]]
    BY <1>3 DEF AInv, Inv, KVTypeOK, Change, PutKey, Put, EraseKey, DeleteKey, TurnAutosave,
                SetAutosave, CheckAutosave, mgrVars, kvVars
  <2>. QED BY <1>2, <1>3, <2>1 DEF StoreKept
<1>4. \A u \in Threads : ptr[u] # Null => ptr'[u] # Null
  BY FreedFacts DEF AInv, Inv, Change, PutKey, Put, EraseKey, DeleteKey, TurnAutosave,
                    SetAutosave, CheckAutosave, kvVars
<1>5. Keeps(t)
  <2>1. \A u \in Threads \ {t} : pc'[u] = pc[u] /\ todo'[u] = todo[u] /\ image'[u] = image[u]
    BY DEF AInv, Inv, ThreadTypeOK, Change, PutKey, EraseKey, TurnAutosave, CheckAutosave, Goto,
           Finish
  <2>. QED BY <1>1, <1>4, <2>1 DEF Keeps
<1>6. CASE PutKey(t) \/ EraseKey(t) \/ TurnAutosave(t) \/ autosave[job[t].tok]
  <2>1. pc'[t] \in {"flag", "saveLock"}
    BY <1>6 DEF AInv, Inv, ThreadTypeOK, Change, PutKey, EraseKey, TurnAutosave, CheckAutosave,
                Goto
  <2>2. Owes(t, job[t].tok)'
    BY <1>1, <2>1 DEF Owes
  <2>. QED BY <1>1, <1>2, <1>3, <1>5, <2>1, <2>2, OwnerFrame DEF WalkFits
<1>7. CASE CheckAutosave(t) /\ ~autosave[job[t].tok]
  <2>1. pc'[t] = "done"
    BY <1>7 DEF AInv, Inv, ThreadTypeOK, CheckAutosave, Goto, Finish
  <2>2. autosave' = autosave
    BY <1>7 DEF CheckAutosave, kvVars
  <2>3. ~autosave'[job[t].tok]
    BY <1>7, <1>1, <2>2
  <2>. QED BY <1>1, <1>2, <1>3, <1>5, <2>1, <2>3, OwnerFrame DEF WalkFits
<1>. QED BY <1>6, <1>7 DEF Change

-----------------------------------------------------------------------------
\* A step of a walk, of a save or of the JSON command, that keeps a walk current.
LEMMA WalkerFrame ==
  ASSUME AInv, NEW t \in Threads, Keeps(t), WalkFits(t)',
         \A u \in Threads \ {t} : ptr'[u] = ptr[u],
         pc[t] \in {"snapKeys", "snapGet", "snapRead"},
         UNCHANGED <<mgr, job, store, autosave, disk>>,
         mgr = t /\ WalkCurrent(t, job[t].tok) => WalkCurrent(t, job[t].tok)'
  PROVE  Current'
<1>1. job[t] # Null /\ job[t].tok \in Tokens
  BY JobFacts DEF AInv, Inv, Fits, JobFits
<1>2. PointersKept(t) /\ \A tok \in Tokens : StoreKept(t, tok)
  BY DEF PointersKept, StoreKept
<1>3. CASE mgr # t
  BY <1>2, <1>3, AsideFrame
<1>4. CASE mgr = t
  <2>1. ASSUME autosave'[job[t].tok], \A u \in Threads : ~Owes(u, job[t].tok)'
        PROVE  WalkCurrent(t, job[t].tok)'
    <3>1. Saves(t, job[t].tok)
      BY <1>4 DEF Saves
    <3>2. autosave[job[t].tok] /\ \A u \in Threads : ~Owes(u, job[t].tok)
      BY <2>1 DEF Keeps, Owes
    <3>. QED BY <1>1, <1>4, <3>1, <3>2 DEF AInv, Current, StoreFits
  <2>. QED BY <1>1, <1>2, <1>4, <2>1, SaverFrame
<1>. QED BY <1>3, <1>4

\* A walk starts with the keys of the store.
LEMMA WalkKeysStep ==
  ASSUME AInv, NEW t \in Threads, SnapKeys(t)
  PROVE  Current'
<1>1. pc[t] = "snapKeys" /\ UNCHANGED <<mgr, job, store, autosave, disk, ptr>>
  BY DEF SnapKeys, kvVars, mgrVars
<1>2. job[t].tok \in Tokens
  BY <1>1, JobFacts DEF AInv
<1>3. /\ pc'[t] = "snapGet" /\ todo'[t] = Present(store[job[t].tok]) /\ image'[t] = Blank
      /\ Keeps(t)
  BY <1>1 DEF AInv, Inv, ThreadTypeOK, SnapKeys, Goto, Keeps
<1>4. WalkFits(t)' /\ WalkCurrent(t, job[t].tok)'
  BY <1>1, <1>2, <1>3
  DEF AInv, Inv, KVTypeOK, Contents, WalkFits, WalkCurrent, Present, Blank, EmptyStore
<1>. QED BY <1>1, <1>3, <1>4, WalkerFrame

\* A walk gets the pointer to an entry, or finds the key gone.
LEMMA WalkGetStep ==
  ASSUME AInv, NEW t \in Threads, SnapGet(t)
  PROVE  Current'
<1> DEFINE tok == job[t].tok
<1>1. pc[t] = "snapGet" /\ UNCHANGED <<mgr, job, store, autosave, disk, image>>
  BY DEF SnapGet, Get, mgrVars
<1>2. tok \in Tokens
  BY <1>1, JobFacts DEF AInv
<1>3. PICK k \in Keys :
        /\ k \in todo[t]
        /\ Get(t, tok, k)
        /\ todo' = [todo EXCEPT ![t] = @ \ {k}]
        /\ Goto(t, IF store[tok][k] = Absent THEN "snapGet" ELSE "snapRead")
  BY DEF AInv, Inv, ThreadTypeOK, SnapGet
<1>4. \A u \in Threads \ {t} : ptr'[u] = ptr[u]
  BY <1>3 DEF AInv, Inv, KVTypeOK, Get
<1>5. Keeps(t)
  BY <1>1, <1>3, <1>4 DEF AInv, Inv, ThreadTypeOK, Goto, Keeps
<1>6. image[t].map[k] = Absent /\ todo'[t] = todo[t] \ {k}
  BY <1>1, <1>3 DEF AInv, Inv, ThreadTypeOK, Current, WalkFits
<1>7. CASE store[tok][k] = Absent
  <2>1. pc'[t] = "snapGet"
    BY <1>3, <1>7 DEF AInv, Inv, ThreadTypeOK, Goto
  <2>2. WalkFits(t)'
    BY <1>1, <1>6, <2>1 DEF AInv, Current, WalkFits
  <2>3. WalkCurrent(t, tok) => WalkCurrent(t, tok)'
    BY <1>1, <1>6, <1>7, <2>1 DEF WalkCurrent
  <2>. QED BY <1>1, <1>4, <1>5, <2>2, <2>3, WalkerFrame
<1>8. CASE store[tok][k] # Absent
  <2>1. pc'[t] = "snapRead"
    BY <1>3, <1>8 DEF AInv, Inv, ThreadTypeOK, Goto
  <2>2. /\ ptr'[t].tok = tok /\ ptr'[t].key = k
        /\ ptr'[t].val = store[tok][k] /\ ptr'[t].live
    BY <1>3, <1>8 DEF AInv, Inv, KVTypeOK, Get
  <2>3. WalkFits(t)'
    BY <1>1, <1>6, <2>1, <2>2 DEF AInv, Current, WalkFits
  <2>4. WalkCurrent(t, tok) => WalkCurrent(t, tok)'
    BY <1>1, <1>6, <2>1, <2>2 DEF WalkCurrent
  <2>. QED BY <1>1, <1>4, <1>5, <2>3, <2>4, WalkerFrame
<1>. QED BY <1>7, <1>8

\* A walk reads the entry.  If the entry has been freed since, whoever freed it
\* owes the store a save, and it does not matter what is read.
LEMMA WalkReadStep ==
  ASSUME AInv, NEW t \in Threads, SnapRead(t)
  PROVE  Current'
<1> DEFINE tok == job[t].tok
           k == ptr[t].key
<1>1. pc[t] = "snapRead" /\ UNCHANGED <<mgr, job, store, autosave, disk, todo>>
  BY DEF SnapRead, DropPointer, mgrVars
<1>2. k \in Keys /\ image[t] \in FileImage
  BY <1>1, PointerFacts DEF AInv, Inv, Fits, DataFits, ThreadTypeOK
<1>3. PICK v \in Dereferenced(t) : image' = [image EXCEPT ![t].map[k] = v]
  BY DEF SnapRead
<1>4. pc'[t] = "snapGet" /\ \A u \in Threads \ {t} : ptr'[u] = ptr[u]
  BY DEF AInv, Inv, KVTypeOK, ThreadTypeOK, SnapRead, DropPointer, Goto
<1>5. Keeps(t)
  BY <1>1, <1>3, <1>4 DEF AInv, Inv, ThreadTypeOK, SnapRead, Goto, Keeps
<1>6. /\ image'[t].map[k] = v
      /\ \A j \in Keys : j # k => image'[t].map[j] = image[t].map[j]
  BY <1>2, <1>3 DEF AInv, Inv, ThreadTypeOK, FileImage, Contents
<1>7. WalkFits(t)'
  BY <1>1, <1>4, <1>6 DEF AInv, Inv, ThreadTypeOK, Current, WalkFits
<1>8. ASSUME WalkCurrent(t, tok) PROVE WalkCurrent(t, tok)'
  <2>1. v = store[tok][k]
    BY <1>1, <1>8 DEF WalkCurrent, Dereferenced
  <2>. QED BY <1>1, <1>4, <1>6, <1>8, <2>1 DEF WalkCurrent
<1>. QED BY <1>1, <1>4, <1>5, <1>7, <1>8, WalkerFrame

\* A walk that is over has the whole store in its image; JSON answers with it.
LEMMA WalkEndStep ==
  ASSUME AInv, NEW t \in Threads, SnapFlag(t)
  PROVE  Current'
<1> DEFINE tok == job[t].tok
           whole == [image[t] EXCEPT !.autosave = FlagText(autosave[tok])]
<1>1. pc[t] = "snapGet" /\ todo[t] = {} /\ UNCHANGED <<mgr, store, autosave, disk, ptr>>
  BY DEF SnapFlag, kvVars, mgrVars
<1>2. tok \in Tokens /\ job[t] # Null /\ job' = job /\ image[t] \in FileImage
  BY <1>1, JobFacts DEF AInv, Inv, Fits, JobFits, DataFits, ThreadTypeOK, SnapFlag, Finish
<1>3. Keeps(t) /\ PointersKept(t)
  BY <1>1 DEF AInv, Inv, ThreadTypeOK, SnapFlag, Finish, Goto, Keeps, PointersKept
<1>4. \A s \in Tokens : StoreKept(t, s)
  BY <1>1 DEF StoreKept
<1>5. CASE job[t].op = "JSON"
  <2>1. mgr # t
    BY <1>1, <1>5 DEF AInv, Inv, Fits, Locked
  <2>2. pc'[t] = "done"
    BY <1>5 DEF AInv, Inv, ThreadTypeOK, SnapFlag, Finish, Goto
  <2>. QED BY <1>1, <1>3, <1>4, <2>1, <2>2, AsideFrame DEF WalkFits
<1>6. CASE job[t].op # "JSON"
  <2>1. mgr = t
    BY <1>1, <1>2, <1>6 DEF AInv, Inv, Fits, Locked
  <2>2. pc'[t] = "open" /\ image'[t] = whole
    BY <1>6 DEF AInv, Inv, ThreadTypeOK, SnapFlag, Goto
  <2>3. ASSUME autosave'[tok], \A u \in Threads : ~Owes(u, tok)'
        PROVE  image'[t] = [map |-> store'[tok], autosave |-> "true"]
    <3>1. autosave[tok] /\ \A u \in Threads : ~Owes(u, tok)
      BY <1>1, <1>2, <1>3, <2>3 DEF Keeps, Owes
    <3>2. \A k \in Keys : image[t].map[k] = store[tok][k]
      <4>1. WalkCurrent(t, tok)
        BY <1>2, <2>1, <3>1 DEF AInv, Current, StoreFits, Saves
      <4>. QED BY <1>1, <4>1 DEF WalkCurrent
    <3>3. image[t].map \in Contents /\ store[tok] \in Contents
      BY <1>2 DEF AInv, Inv, KVTypeOK, FileImage
    <3>4. image[t].map = store[tok]
      BY <3>2, <3>3 DEF Contents
    <3>5. whole = [map |-> store[tok], autosave |-> "true"]
      BY <1>2, <3>1, <3>4 DEF FileImage, FlagText
    <3>. QED BY <1>1, <2>2, <3>5
  <2>. QED BY <1>1, <1>2, <1>3, <1>4, <2>1, <2>2, <2>3, SaverFrame DEF WalkFits, WalkCurrent
<1>. QED BY <1>5, <1>6

-----------------------------------------------------------------------------
\* A save begins: the thread owes nothing any more, and its walk is yet to start.
LEMMA SaveBegins ==
  ASSUME AInv, NEW t \in Threads, SaveLock(t)
  PROVE  Current'
<1>1. /\ job[t] # Null /\ job' = job /\ mgr' = t /\ pc'[t] = "snapKeys"
      /\ UNCHANGED <<store, autosave, disk, ptr>>
  BY DEF AInv, Inv, Fits, JobFits, ThreadTypeOK, SaveLock, Goto, kvVars
<1>2. Keeps(t) /\ PointersKept(t)
  BY <1>1, StoreAssumption
  DEF AInv, Inv, ThreadTypeOK, SaveLock, Goto, Keeps, PointersKept
<1>3. \A tok \in Tokens : StoreKept(t, tok)
  BY <1>1 DEF StoreKept
<1>. QED BY <1>1, <1>2, <1>3, SaverFrame DEF WalkFits, WalkCurrent

\* Whoever saves writes the file of its own store, which no other store shares.
LEMMA OwnFile ==
  ASSUME Orderly, AInv, SavesOwnFile, NEW t \in Threads, pc[t] \in {"open", "write"}
  PROVE  /\ job[t] # Null /\ job[t].tok \in Tokens /\ mgr = t
         /\ Target(t) = FileOf[job[t].tok] /\ Target(t) \in Files
         /\ \A tok \in Tokens : tok # job[t].tok => FileOf[tok] # Target(t)
<1>1. job[t] # Null /\ job[t].tok \in Tokens /\ mgr = t /\ Target(t) \in Files
  BY JobFacts DEF AInv, Inv, Fits, JobFits, Locked
<1>2. job[t].op # "LOAD"
  BY <1>1 DEF Orderly, AInv, OpsFit
<1>3. Target(t) = FileOf[job[t].tok]
  BY <1>1, <1>2 DEF Target, SavesOwnFile
<1>. QED BY <1>1, <1>3 DEF Orderly

\* Opening the file loses what it held, and nothing else.
LEMMA OpenStep ==
  ASSUME Orderly, AInv, SavesOwnFile, NEW t \in Threads, OpenFile(t)
  PROVE  Current'
<1> DEFINE tok == job[t].tok
<1>1. pc[t] = "open" /\ pc'[t] = "write" /\ UNCHANGED <<mgr, job, image, store, autosave, ptr>>
  BY DEF AInv, Inv, ThreadTypeOK, OpenFile, Goto, kvVars
<1>2. /\ job[t] # Null /\ tok \in Tokens /\ mgr = t
      /\ \A s \in Tokens : s # tok => FileOf[s] # Target(t)
  BY <1>1, OwnFile
<1>3. Keeps(t) /\ PointersKept(t)
  BY <1>1 DEF AInv, Inv, ThreadTypeOK, OpenFile, Goto, Keeps, PointersKept
<1>4. ASSUME NEW s \in Tokens, s # tok PROVE StoreKept(t, s)
  <2>1. FileOf[s] \in Files /\ FileOf[s] # Target(t)
    BY <1>2, <1>4, ManagerAssumption
  <2>. QED BY <1>1, <2>1 DEF AInv, Inv, ManagerTypeOK, StoreKept, OpenFile
<1>5. ASSUME autosave'[tok], \A u \in Threads : ~Owes(u, tok)'
      PROVE  WalkCurrent(t, tok)'
  <2>1. autosave[tok] /\ \A u \in Threads : ~Owes(u, tok)
    BY <1>1, <1>3, <1>5 DEF Keeps, Owes
  <2>2. WalkCurrent(t, tok)
    BY <1>2, <2>1 DEF AInv, Current, StoreFits, Saves
  <2>. QED BY <1>1, <2>2 DEF WalkCurrent
<1>. QED BY <1>1, <1>2, <1>3, <1>4, <1>5, SaverFrame DEF WalkFits

\* A save ends with its image in the file.
LEMMA WriteStep ==
  ASSUME Orderly, AInv, SavesOwnFile, NEW t \in Threads, WriteFile(t)
  PROVE  Current'
<1> DEFINE tok == job[t].tok
<1>1. /\ pc[t] = "write" /\ pc'[t] = "done" /\ mgr' = Null
      /\ UNCHANGED <<job, store, autosave, ptr>>
  BY DEF AInv, Inv, ThreadTypeOK, WriteFile, Finish, Goto, kvVars
<1>2. /\ job[t] # Null /\ tok \in Tokens /\ mgr = t
      /\ Target(t) = FileOf[tok] /\ Target(t) \in Files
      /\ \A s \in Tokens : s # tok => FileOf[s] # Target(t)
  BY <1>1, OwnFile
<1>3. Keeps(t) /\ PointersKept(t) /\ WalkFits(t)'
  BY <1>1, <1>2, StoreAssumption
  DEF AInv, Inv, ThreadTypeOK, WriteFile, Finish, Goto, Keeps, PointersKept, WalkFits
<1>4. ASSUME NEW s \in Tokens, s # tok PROVE StoreFits(s)'
  <2>1. FileOf[s] \in Files /\ FileOf[s] # Target(t)
    BY <1>2, <1>4, ManagerAssumption
  <2>2. StoreKept(t, s)
    BY <1>1, <2>1 DEF AInv, Inv, ManagerTypeOK, StoreKept, WriteFile
  <2>. QED BY <1>1, <1>3, <1>4, <2>2, StoreFrame DEF Saves, Owes
<1>5. ASSUME NEW s \in Tokens, s = tok PROVE StoreFits(s)'
  <2>1. \A u \in Threads : ~Saves(u, s)'
    BY <1>1, StoreAssumption DEF Saves
  <2>2. ASSUME autosave'[s], \A u \in Threads : ~Owes(u, s)'
        PROVE  disk'[FileOf[s]] = [map |-> store'[s], autosave |-> "true"]
    <3>1. autosave[s] /\ \A u \in Threads : ~Owes(u, s)
      BY <1>1, <1>3, <2>2 DEF Keeps, Owes
    <3>2. image[t] = [map |-> store[s], autosave |-> "true"]
      BY <1>1, <1>2, <1>5, <3>1 DEF AInv, Current, StoreFits, Saves, WalkCurrent
    <3>. QED BY <1>1, <1>2, <1>5, <3>2 DEF AInv, Inv, ManagerTypeOK, WriteFile
  <2>. QED BY <2>1, <2>2 DEF StoreFits
<1>. QED BY <1>3, <1>4, <1>5, WalkFrame DEF Current

-----------------------------------------------------------------------------
\* The end of the process turns every autosave off.
LEMMA DiesCurrent ==
  ASSUME Dies
  PROVE  Current'
<1>1. \A t \in Threads : WalkFits(t)'
  BY DEF Dies, WalkFits
<1>2. \A tok \in Tokens : StoreFits(tok)'
  BY DEF Dies, Wiped, StoreFits
<1>. QED BY <1>1, <1>2 DEF Current

\* Commands are what they were when they came.
LEMMA OpsKept ==
  ASSUME AInv, [Next]_vars
  PROVE  OpsFit'
<1>1. ASSUME NEW t \in Threads, Serve(t) PROVE OpsFit'
  <2>1. CASE Receive(t)
    BY <2>1 DEF AInv, Inv, ThreadTypeOK, OpsFit, Receive
  <2>2. CASE Reply(t)
    BY <2>2 DEF AInv, Inv, ThreadTypeOK, OpsFit, Reply
  <2>3. CASE ~Receive(t) /\ ~Reply(t)
    <3>1. job' = job
      BY <1>1, <2>3 DEF Serve, Select, Disconnect, Command, GetStore, GetKey, GetRead, PutKey,
         EraseKey, CheckAutosave, TurnAutosave, ListKeys, Answer, Snapshot, SnapKeys, SnapGet,
         SnapRead, SnapFlag, Save, SaveLock, OpenFile, OpenFails, WriteFile, WriteShort, Load,
         LoadLock, LoadMissing, LoadUnreadable, LoadKeys, LoadClear, LoadParse, LoadPut,
         LoadThrows, LoadFlag, Finish, threadVars
    <3>. QED BY <3>1 DEF AInv, OpsFit
  <2>. QED BY <2>1, <2>2, <2>3
<1>2. CASE Dies
  BY <1>2 DEF Dies, OpsFit
<1>3. CASE Restart \/ UNCHANGED vars
  BY <1>3 DEF AInv, OpsFit, Restart, vars, threadVars
<1>. QED BY <1>1, <1>2, <1>3 DEF Next, Abort, SetAborts, FreedReadAborts, Kill

\* Every step keeps the walks and the stores as they should be.
LEMMA CurrentKept ==
  ASSUME Orderly, AInv, SavesOwnFile, [Next]_vars
  PROVE  Current'
<1>1. ASSUME NEW t \in Threads, Serve(t) PROVE Current'
  <2>1. CASE Aside(t) \/ Change(t)
    BY <2>1, AsideStep, ChangeStep
  <2>2. CASE Snapshot(t)
    BY <2>2, WalkKeysStep, WalkGetStep, WalkReadStep, WalkEndStep DEF Snapshot
  <2>3. CASE Save(t)
    <3>1. ~OpenFails(t) /\ ~WriteShort(t)
      BY DEF Orderly, OpenFails, WriteShort
    <3>. QED BY <2>3, <3>1, SaveBegins, OpenStep, WriteStep DEF Save
  <2>4. CASE Load(t)
    <3>1. job[t] # Null /\ job[t].op = "LOAD"
      BY <2>4 DEF AInv, Inv, Fits, JobFits, Load, LoadLock, LoadMissing, LoadUnreadable,
             LoadKeys, LoadClear, LoadParse, LoadPut, LoadThrows, LoadFlag
    <3>. QED BY <3>1 DEF Orderly, AInv, OpsFit
  <2>. QED BY <1>1, <2>1, <2>2, <2>3, <2>4 DEF Serve, Command, Aside, Change
<1>2. CASE Dies
  BY <1>2, DiesCurrent
<1>3. CASE Restart \/ UNCHANGED vars
  <2>1. UNCHANGED <<kvVars, mgrVars, threadVars>>
    BY <1>3 DEF Restart, vars
  <2>2. \A t \in Threads : WalkFits(t)'
    BY <2>1 DEF AInv, Current, WalkFits, kvVars, threadVars
  <2>3. \A tok \in Tokens : StoreFits(tok)'
    BY <2>1 DEF AInv, Current, StoreFits, Owes, Saves, WalkCurrent, kvVars, mgrVars, threadVars
  <2>. QED BY <2>2, <2>3 DEF Current
<1>. QED BY <1>1, <1>2, <1>3 DEF Next, Abort, SetAborts, FreedReadAborts, Kill

\* Whenever autosave is on and no thread is between a change of the store and the
\* end of its save, the file of the store holds what the store holds, for any
\* numbers of threads, stores, keys and values, whatever a walk reads in freed
\* memory and whenever the process is killed or terminates, as long as clients
\* SAVE their stores to the files of these stores.
THEOREM AutosaveKeepsFile ==
  ASSUME Orderly
  PROVE  Spec /\ []SavesOwnFile => []AutosaveCurrent
<1>1. Init => AInv
  <2>1. Init => OpsFit /\ Current
    BY DEF Init, ManagerInit, KVInit, OpsFit, Current, WalkFits, StoreFits
  <2>. QED BY <2>1, InitInv DEF AInv
<1>2. AInv /\ SavesOwnFile /\ [Next]_vars => AInv'
  BY NextInv, OpsKept, CurrentKept DEF AInv
<1>3. AInv => AutosaveCurrent
  <2>1. ASSUME AInv, NEW tok \in Tokens, autosave[tok], \A t \in Threads : ~Unsettled(t, tok)
        PROVE  disk[FileOf[tok]] = [map |-> store[tok], autosave |-> "true"]
    <3>1. \A t \in Threads : ~Owes(t, tok)
      BY <2>1 DEF Owes, Unsettled
    <3>2. \A t \in Threads : ~Saves(t, tok)
      BY <2>1 DEF AInv, Inv, Fits, Locked, Saves, Unsettled
    <3>. QED BY <2>1, <3>1, <3>2 DEF AInv, Current, StoreFits
  <2>. QED BY <2>1 DEF AutosaveCurrent
<1>. QED BY <1>1, <1>2, <1>3, PTL DEF Spec

=============================================================================
