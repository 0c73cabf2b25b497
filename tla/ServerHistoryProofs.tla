------------------------ MODULE ServerHistoryProofs ------------------------
(***************************************************************************)
(* What the saves and loads of TCPServer see, for every value of the       *)
(* constants.                                                              *)
(*                                                                         *)
(* A walk over a store shows values of its own time (WalkSeen), and a load *)
(* leaves what the file has under every key that nobody else has changed   *)
(* (LoadSeen): both say of each key whether the loop has come to it.  They *)
(* speak of one thread each, and what the others do meanwhile only adds    *)
(* to `past' and `touched' (OthersKept).                                   *)
(*                                                                         *)
(* A file is not whole only while a thread stands between opening it and   *)
(* writing it, and that thread holds the mutex a LOAD waits for, or after  *)
(* that thread's write was cut short (FilesWhole).  That no write is cut   *)
(* short needs every other end of a save to be excluded: a full disk, a    *)
(* kill, a fault in freed memory, and a SET of another type (RegistryFits  *)
(* says that there is none).                                               *)
(*                                                                         *)
(* A change that has been acknowledged is followed to where it may be.     *)
(* The stores that are not adrift, and what walks have seen of them, may   *)
(* be written (MemoryKept), and what the files hold may stay (FilesKept).  *)
(* A LOAD makes its store adrift and steady again: Holds says what it has  *)
(* left of each key so far, for any set that grows by what is given to the *)
(* key (HoldsStep), so that the store is as it was given when the LOAD has *)
(* gone through.  Changes are acknowledged where a write ends, by the one  *)
(* thread in the mutex, so no walk is under way that could have missed one *)
(* (AcknowledgedAtWrite) and no LOAD either.                               *)
(***************************************************************************)
EXTENDS TCPServerProofs, ServerHistory

\* What a step of thread t does to the others: their positions, commands, loops,
\* texts and responses stay, and so does what their pointers are read for.
OthersKept(t) ==
  \A u \in Threads \ {t} :
    /\ pc'[u] = pc[u] /\ job'[u] = job[u] /\ todo'[u] = todo[u]
    /\ image'[u] = image[u] /\ res'[u] = res[u]
    /\ ptr[u] # Null => ptr'[u].key = ptr[u].key /\ ptr'[u].val = ptr[u].val

\* Whoever frees an entry leaves the key and the value of pointers to it.
LEMMA PointersKept ==
  ASSUME Inv, NEW t \in Threads, Serve(t), NEW u \in Threads \ {t}, ptr[u] # Null
  PROVE  ptr'[u].key = ptr[u].key /\ ptr'[u].val = ptr[u].val
<1>1. ASSUME NEW tok, NEW k, ptr' = Freed(tok, k)
      PROVE  ptr'[u].key = ptr[u].key /\ ptr'[u].val = ptr[u].val
  <2>1. ptr[u] \in Pointer
    BY DEF Inv, KVTypeOK
  <2>. QED BY <1>1, <2>1 DEF Freed, Pointer
<1>2. \/ ptr'[u] = ptr[u]
      \/ \E tok \in Tokens, k \in Keys : ptr' = Freed(tok, k)
  <2>. USE DEF Inv, KVTypeOK
  <2>1. CASE Select(t) \/ Disconnect(t) \/ Receive(t) \/ Reply(t) \/ GetStore(t, Entry(job[t].op))
    BY <2>1 DEF Select, Disconnect, Receive, Reply, GetStore, kvVars
  <2>2. CASE GetKey(t) \/ GetRead(t) \/ CheckAutosave(t) \/ TurnAutosave(t) \/ ListKeys(t) \/ Answer(t)
    BY <2>2 DEF GetKey, GetRead, CheckAutosave, TurnAutosave, ListKeys, Answer, Get, DropPointer,
                SetAutosave, kvVars
  <2>3. CASE PutKey(t)
    <3>1. job[t].tok \in Tokens /\ job[t].key \in Keys
      BY <2>3, JobFacts DEF PutKey, Fits, JobFits
    <3>. QED BY <2>3, <3>1 DEF PutKey, Put
  <2>4. CASE EraseKey(t)
    <3>1. job[t].tok \in Tokens /\ job[t].key \in Keys
      BY <2>4, JobFacts DEF EraseKey, Fits, JobFits
    <3>. QED BY <2>4, <3>1 DEF EraseKey, DeleteKey
  <2>5. CASE Snapshot(t) \/ Save(t)
    BY <2>5 DEF Snapshot, SnapKeys, SnapGet, SnapRead, SnapFlag, Save, SaveLock, OpenFile, OpenFails,
                WriteFile, WriteShort, Get, DropPointer, kvVars
  <2>6. CASE LoadClear(t) \/ LoadPut(t)
    <3>1. job[t].tok \in Tokens /\ todo[t] \subseteq Keys
      BY <2>6, JobFacts DEF LoadClear, LoadPut, ThreadTypeOK
    <3>. QED BY <2>6, <3>1 DEF LoadClear, LoadPut, Put, DeleteKey
  <2>7. CASE Load(t) /\ ~LoadClear(t) /\ ~LoadPut(t)
    BY <2>7 DEF Load, LoadLock, LoadMissing, LoadUnreadable, LoadKeys, LoadParse, LoadThrows, LoadFlag,
                SetAutosave, kvVars
  <2>. QED BY <2>1, <2>2, <2>3, <2>4, <2>5, <2>6, <2>7 DEF Serve, Command
<1>. QED BY <1>1, <1>2

\* The other threads stay where they are.
LEMMA StepKeepsOthers ==
  ASSUME Inv, NEW t \in Threads, Serve(t)
  PROVE  OthersKept(t)
<1>1. ASSUME NEW u \in Threads \ {t}
      PROVE  /\ pc'[u] = pc[u] /\ job'[u] = job[u] /\ todo'[u] = todo[u]
             /\ image'[u] = image[u] /\ res'[u] = res[u]
  BY DEF Inv, ThreadTypeOK, Goto, Finish, threadVars,
         Serve, Select, Disconnect, Receive, Reply,
         Command, GetStore, GetKey, GetRead, PutKey, EraseKey, CheckAutosave, TurnAutosave,
         ListKeys, Answer, Snapshot, SnapKeys, SnapGet, SnapRead, SnapFlag,
         Save, SaveLock, OpenFile, OpenFails, WriteFile, WriteShort,
         Load, LoadLock, LoadMissing, LoadUnreadable, LoadKeys, LoadClear, LoadParse, LoadPut,
         LoadThrows, LoadFlag
<1>. QED BY <1>1, PointersKept DEF OthersKept

-----------------------------------------------------------------------------
(* Walks.                                                                  *)

\* The store of thread t had x under key k at some moment of its walk.
Seen(t, k, x) == x \in past[t][k]

\* Responses that do not come out of a walk, before the command is done.
Plain == {Null, <<"OK">>, <<"NOT_FOUND">>}

\* What the walk of thread t has put down was there in its time, and it has put
\* down nothing for the keys it has not got to.
WalkSeen(t) ==
  /\ pc[t] \in {"snapGet", "snapRead"} =>
       /\ \A k \in Keys : Seen(t, k, store[job[t].tok][k])
       /\ \A k \in todo[t] : image[t].map[k] = Absent
  /\ pc[t] = "snapGet" => \A k \in Keys \ todo[t] : Seen(t, k, image[t].map[k])
  /\ pc[t] = "snapRead" =>
       /\ ptr[t].key \notin todo[t]
       /\ Seen(t, ptr[t].key, ptr[t].val)
       /\ \A k \in Keys \ todo[t] : k # ptr[t].key => Seen(t, k, image[t].map[k])
  /\ pc[t] \in {"open", "write"} => \A k \in Keys : Seen(t, k, image[t].map[k])
  /\ pc[t] # "done" => res[t] \in Plain
  /\ pc[t] = "flag" => res[t] # Null
  /\ pc[t] = "done" /\ res[t][1] = "JSON" => \A k \in Keys : Seen(t, k, res[t][2].map[k])

\* History grows while a walk goes on.
LEMMA PastGrows ==
  ASSUME Record, NEW t \in Threads, pc'[t] \in Walking
  PROVE  \A k \in Keys :
           /\ past[t][k] \subseteq past'[t][k]
           /\ pc'[t] \notin {"snapGet", "snapRead"} => past'[t][k] = past[t][k]
           /\ pc'[t] \in {"snapGet", "snapRead"} =>
                past'[t][k] = past[t][k] \cup {store'[job[t].tok][k]}
BY DEF Record, PastOf

\* What has been seen stays seen.
LEMMA SeenKept ==
  ASSUME Record, NEW t \in Threads, pc'[t] \in Walking, NEW k \in Keys, NEW x, Seen(t, k, x)
  PROVE  Seen(t, k, x)'
BY PastGrows DEF Seen

\* The walk of a thread that takes no step.
LEMMA WalkKept ==
  ASSUME Inv, NEW t \in Threads, WalkSeen(t), Record,
         pc'[t] = pc[t], job'[t] = job[t], todo'[t] = todo[t], image'[t] = image[t], res'[t] = res[t],
         ptr[t] # Null => ptr'[t].key = ptr[t].key /\ ptr'[t].val = ptr[t].val
  PROVE  WalkSeen(t)'
<1>1. pc[t] \in Walking => \A k \in Keys : \A x : Seen(t, k, x) => Seen(t, k, x)'
  BY SeenKept
<1>2. pc[t] \in {"snapGet", "snapRead"} => \A k \in Keys : Seen(t, k, store[job[t].tok][k])'
  BY PastGrows DEF Walking, Seen
<1>3. pc[t] = "snapRead" => ptr[t] # Null /\ ptr[t].key \in Keys
  BY PointerFacts DEF Inv, Fits, DataFits
<1>4. pc[t] = "snapRead" => Seen(t, ptr[t].key, ptr[t].val)'
  BY <1>1, <1>3 DEF WalkSeen, Walking, Seen
<1>. QED BY <1>1, <1>2, <1>3, <1>4 DEF WalkSeen, Walking

\* A step that neither walks nor ends a command.
LEMMA NoWalk ==
  ASSUME NEW t \in Threads,
         pc'[t] \notin {"snapGet", "snapRead", "open", "write", "done"},
         res'[t] \in Plain, pc'[t] = "flag" => res'[t] # Null
  PROVE  WalkSeen(t)'
BY DEF WalkSeen

\* A step that ends a command with something else than a walk.
LEMMA PlainEnd ==
  ASSUME Inv, NEW t \in Threads, NEW r, Finish(t, r), r[1] # "JSON"
  PROVE  WalkSeen(t)'
BY DEF Inv, ThreadTypeOK, Finish, Goto, WalkSeen

\* The responses of saves, and of a SET or DELETE without one, are plain.
LEMMA SettledPlain ==
  ASSUME NEW t \in Threads, WalkSeen(t), pc[t] # "done"
  PROVE  Settled(t)[1] # "JSON"
BY DEF WalkSeen, Plain, Settled

\* The connection and the commands that do not walk.
LEMMA WalkPlainStep ==
  ASSUME Inv, NEW t \in Threads, WalkSeen(t),
         \/ Select(t) \/ Disconnect(t) \/ Receive(t) \/ Reply(t)
         \/ GetStore(t, Entry(job[t].op))
         \/ GetKey(t) \/ GetRead(t) \/ PutKey(t) \/ EraseKey(t) \/ CheckAutosave(t)
         \/ TurnAutosave(t) \/ ListKeys(t) \/ Answer(t)
  PROVE  WalkSeen(t)'
<1>. USE DEF Inv, ThreadTypeOK, Goto
<1>1. CASE Select(t) \/ Disconnect(t) \/ Receive(t) \/ Reply(t)
  BY <1>1, NoWalk DEF Select, Disconnect, Receive, Reply, threadVars, WalkSeen, Plain
<1>2. CASE GetStore(t, Entry(job[t].op))
  <2>1. job[t].op \in AllOps
    BY <1>2, JobFacts DEF GetStore
  <2>2. pc'[t] \notin {"snapGet", "snapRead", "open", "write", "done", "flag"} /\ res' = res
    BY <1>2, <2>1 DEF GetStore, Entry, AllOps
  <2>. QED BY <1>2, <2>2, NoWalk DEF GetStore, WalkSeen
<1>3. CASE GetKey(t)
  BY <1>3, NoWalk, PlainEnd DEF GetKey, WalkSeen
<1>4. CASE GetRead(t)
  BY <1>4, PlainEnd DEF GetRead
<1>5. CASE PutKey(t) \/ EraseKey(t)
  <2>1. pc'[t] = "flag" /\ res'[t] \in Plain /\ res'[t] # Null
    BY <1>5, ResponseFacts DEF PutKey, EraseKey, Plain
  <2>. QED BY <2>1, NoWalk
<1>6. CASE CheckAutosave(t)
  <2>1. res[t] \in {<<"OK">>, <<"NOT_FOUND">>}
    BY <1>6 DEF CheckAutosave, WalkSeen, Plain
  <2>2. CASE autosave[job[t].tok]
    BY <1>6, <2>2, NoWalk DEF CheckAutosave, WalkSeen
  <2>3. CASE ~autosave[job[t].tok]
    BY <1>6, <2>1, <2>3, PlainEnd DEF CheckAutosave
  <2>. QED BY <2>2, <2>3
<1>7. CASE TurnAutosave(t)
  BY <1>7, NoWalk DEF TurnAutosave, WalkSeen
<1>8. CASE ListKeys(t) \/ Answer(t)
  BY <1>8, PlainEnd DEF ListKeys, Answer
<1>. QED BY <1>1, <1>2, <1>3, <1>4, <1>5, <1>6, <1>7, <1>8

\* Saves, once their walk is over, and loads.
LEMMA WalkFileStep ==
  ASSUME Inv, NEW t \in Threads, WalkSeen(t), Record, Save(t) \/ Load(t)
  PROVE  WalkSeen(t)'
<1>. USE DEF Inv, ThreadTypeOK, Goto
<1>1. CASE SaveLock(t)
  BY <1>1, NoWalk DEF SaveLock, WalkSeen
<1>2. CASE OpenFile(t)
  <2>1. /\ pc[t] = "open" /\ pc'[t] = "write" /\ image'[t] = image[t] /\ res'[t] = res[t]
    BY <1>2 DEF OpenFile
  <2>2. \A k \in Keys : \A x : Seen(t, k, x) => Seen(t, k, x)'
    BY <2>1, SeenKept DEF Walking
  <2>. QED BY <2>1, <2>2 DEF WalkSeen
<1>3. CASE OpenFails(t) \/ WriteFile(t) \/ WriteShort(t)
  BY <1>3, PlainEnd, SettledPlain DEF OpenFails, WriteFile, WriteShort
<1>4. CASE LoadLock(t) \/ LoadKeys(t) \/ LoadClear(t) \/ LoadParse(t) \/ LoadPut(t)
  BY <1>4, NoWalk DEF LoadLock, LoadKeys, LoadClear, LoadParse, LoadPut, WalkSeen
<1>5. CASE LoadMissing(t) \/ LoadUnreadable(t) \/ LoadThrows(t) \/ LoadFlag(t)
  BY <1>5, PlainEnd DEF LoadMissing, LoadUnreadable, LoadThrows, LoadFlag
<1>. QED BY <1>1, <1>2, <1>3, <1>4, <1>5 DEF Save, Load

\* keys(), and the keys that are not there are shown as absent.
LEMMA WalkKeysSeen ==
  ASSUME Inv, NEW t \in Threads, WalkSeen(t), Record, SnapKeys(t)
  PROVE  WalkSeen(t)'
<1>1. /\ pc[t] = "snapKeys" /\ pc'[t] = "snapGet" /\ store' = store /\ job' = job /\ res' = res
      /\ todo'[t] = Present(store[job[t].tok]) /\ image'[t] = Blank
  BY DEF Inv, ThreadTypeOK, SnapKeys, Goto, kvVars
<1>2. \A k \in Keys : Seen(t, k, store[job[t].tok][k])'
  BY <1>1, PastGrows DEF Walking, Seen
<1>3. \A k \in Keys : Blank.map[k] = Absent
  BY DEF Blank, EmptyStore
<1>4. \A k \in Keys \ Present(store[job[t].tok]) : store[job[t].tok][k] = Absent
  BY DEF Present
<1>5. \A k \in todo'[t] : k \in Keys
  BY <1>1 DEF Present
<1>. QED BY <1>1, <1>2, <1>3, <1>4, <1>5 DEF WalkSeen, Seen

\* get(): the entry is as the store has it now, and so is the absence of one.
LEMMA WalkGetSeen ==
  ASSUME Inv, NEW t \in Threads, WalkSeen(t), Record, SnapGet(t)
  PROVE  WalkSeen(t)'
<1> DEFINE tok == job[t].tok
<1>1. PICK k \in todo[t] :
        /\ Get(t, tok, k)
        /\ todo' = [todo EXCEPT ![t] = @ \ {k}]
        /\ Goto(t, IF store[tok][k] = Absent THEN "snapGet" ELSE "snapRead")
  BY DEF SnapGet
<1>2. /\ pc[t] = "snapGet" /\ job' = job /\ image' = image /\ res' = res /\ store' = store
      /\ pc'[t] = IF store[tok][k] = Absent THEN "snapGet" ELSE "snapRead"
      /\ todo'[t] = todo[t] \ {k}
  BY <1>1 DEF Inv, ThreadTypeOK, SnapGet, Goto, Get
<1>3. /\ k \in Keys /\ image[t].map[k] = Absent
      /\ \A j \in Keys : Seen(t, j, store[tok][j])'
  BY <1>2, PastGrows DEF Inv, ThreadTypeOK, WalkSeen, Walking, Seen
<1>4. \A j \in Keys : \A x : Seen(t, j, x) => Seen(t, j, x)'
  BY <1>2, SeenKept DEF Walking
<1>5. \A j \in Keys \ todo[t] : Seen(t, j, image[t].map[j])'
  BY <1>2, <1>4 DEF WalkSeen
<1>6. CASE store[tok][k] = Absent
  <2>1. Seen(t, k, image[t].map[k])'
    BY <1>2, <1>3, <1>6 DEF Seen
  <2>. QED BY <1>2, <1>3, <1>5, <1>6, <2>1 DEF WalkSeen
<1>7. CASE store[tok][k] # Absent
  <2>1. ptr'[t].key = k /\ ptr'[t].val = store[tok][k]
    BY <1>1, <1>7 DEF Get, Inv, KVTypeOK
  <2>2. Seen(t, ptr[t].key, ptr[t].val)' /\ k \notin todo'[t]
    BY <1>2, <1>3, <2>1 DEF Seen, Inv, ThreadTypeOK
  <2>. QED BY <1>2, <1>3, <1>5, <1>7, <2>1, <2>2 DEF WalkSeen
<1>. QED BY <1>6, <1>7

\* The value is read through the pointer, whatever has become of the entry.
LEMMA WalkReadSeen ==
  ASSUME "freed" \notin Faults, Inv, NEW t \in Threads, WalkSeen(t), Record, SnapRead(t)
  PROVE  WalkSeen(t)'
<1>1. /\ pc[t] = "snapRead" /\ pc'[t] = "snapGet" /\ todo' = todo /\ job' = job /\ res' = res
      /\ image' = [image EXCEPT ![t].map[ptr[t].key] = ptr[t].val] /\ store' = store
  BY DEF Inv, ThreadTypeOK, SnapRead, Goto, DropPointer, Dereferenced
<1>2. image[t] \in FileImage /\ ptr[t].key \in Keys
  BY <1>1, PointerFacts DEF Inv, Fits, DataFits, ThreadTypeOK
<1>3. \A j \in Keys : image'[t].map[j] = IF j = ptr[t].key THEN ptr[t].val ELSE image[t].map[j]
  BY <1>1, <1>2 DEF Inv, ThreadTypeOK, FileImage, Contents
<1>4. \A j \in Keys : \A x : Seen(t, j, x) => Seen(t, j, x)'
  BY <1>1, SeenKept DEF Walking
<1>5. \A j \in Keys : Seen(t, j, store[job[t].tok][j])'
  BY <1>1, PastGrows DEF Walking, Seen
<1>6. todo[t] \subseteq Keys
  BY DEF Inv, ThreadTypeOK
<1>. QED BY <1>1, <1>2, <1>3, <1>4, <1>5, <1>6 DEF WalkSeen

\* The walk is over: its text goes to the file or into the reply.
LEMMA WalkFlagSeen ==
  ASSUME Inv, NEW t \in Threads, WalkSeen(t), Record, SnapFlag(t)
  PROVE  WalkSeen(t)'
<1>1. image[t] \in FileImage
  BY DEF Inv, Fits, DataFits, ThreadTypeOK, SnapFlag
<1>2. PICK whole :
        /\ whole = [image[t] EXCEPT !.autosave = FlagText(autosave[job[t].tok])]
        /\ whole.map = image[t].map
  <2>1. [image[t] EXCEPT !.autosave = FlagText(autosave[job[t].tok])].map = image[t].map
    BY <1>1 DEF FileImage
  <2>. QED BY <2>1, Zenon
<1>3. \A k \in Keys : Seen(t, k, whole.map[k])
  BY <1>2 DEF Inv, ThreadTypeOK, SnapFlag, WalkSeen
<1>4. pc'[t] \in {"open", "done"}
  BY DEF Inv, ThreadTypeOK, SnapFlag, Finish, Goto
<1>5. \A k \in Keys : whole.map[k] \in past'[t][k]
  BY <1>3, <1>4, PastGrows DEF Walking, Seen
<1>6. CASE job[t].op = "JSON"
  <2>1. pc'[t] = "done" /\ res'[t] = <<"JSON", whole>>
    BY <1>2, <1>6 DEF Inv, ThreadTypeOK, SnapFlag, Finish, Goto
  <2>2. res'[t][2] = whole
    BY <2>1
  <2>. QED BY <1>5, <2>1, <2>2 DEF WalkSeen, Seen
<1>7. CASE job[t].op # "JSON"
  <2>1. pc[t] = "snapGet" /\ pc'[t] = "open" /\ res' = res /\ image'[t] = whole
    BY <1>2, <1>7 DEF Inv, ThreadTypeOK, SnapFlag, Goto
  <2>. QED BY <1>5, <2>1 DEF WalkSeen, Seen
<1>. QED BY <1>6, <1>7

\* Every step keeps what the walks say.
LEMMA StepKeepsWalks ==
  ASSUME "freed" \notin Faults, Inv, \A t \in Threads : WalkSeen(t), [HNext]_<<vars, histVars>>
  PROVE  \A t \in Threads : WalkSeen(t)'
<1>1. CASE UNCHANGED <<vars, histVars>>
  BY <1>1 DEF vars, histVars, kvVars, mgrVars, threadVars, WalkSeen, Seen
<1>2. ASSUME NEW t \in Threads, Serve(t), Record PROVE \A u \in Threads : WalkSeen(u)'
  <2>1. WalkSeen(t)'
    BY <1>2, WalkPlainStep, WalkFileStep, WalkKeysSeen, WalkGetSeen, WalkReadSeen, WalkFlagSeen
    DEF Serve, Command, Snapshot
  <2>2. ASSUME NEW u \in Threads \ {t} PROVE WalkSeen(u)'
    BY <1>2, StepKeepsOthers, WalkKept DEF OthersKept, Inv, Fits
  <2>. QED BY <2>1, <2>2
<1>3. CASE Dies
  BY <1>3 DEF Dies, WalkSeen, Plain
<1>4. CASE Restart /\ Record
  BY <1>4, WalkKept DEF Restart, kvVars, mgrVars, threadVars, Inv, Fits
<1>. QED BY <1>1, <1>2, <1>3, <1>4 DEF HNext, Next, Abort, SetAborts, FreedReadAborts, Kill

\* The history variables change nothing.
LEMMA HistoryInvariance == HSpec => []Inv
<1>1. HInit => Inv
  BY InitInv DEF HInit
<1>2. Inv /\ [HNext]_<<vars, histVars>> => Inv'
  BY NextInv DEF HNext
<1>. QED BY <1>1, <1>2, PTL DEF HSpec

\* A save or a JSON reply shows every key as the store had it at some moment of
\* the walk, for any number of clients that change the store meanwhile, where
\* memory that was freed is not reused.
THEOREM WalksAreRecent ==
  ASSUME "freed" \notin Faults
  PROVE  HSpec => []WalkIsRecent
<1> DEFINE Walks == \A t \in Threads : WalkSeen(t)
<1>1. HInit => Walks
  BY DEF HInit, Init, ManagerInit, WalkSeen, Plain
<1>2. Inv /\ Walks /\ [HNext]_<<vars, histVars>> => Walks'
  BY StepKeepsWalks
<1>3. Walks => WalkIsRecent
  BY DEF WalkSeen, Seen, WalkIsRecent, ReadAll
<1>. QED BY <1>1, <1>2, <1>3, HistoryInvariance, PTL DEF HSpec

-----------------------------------------------------------------------------
(* Loads.                                                                  *)

\* What a load makes of key k.
Installed(t, k) ==
  IF image[t].map[k] = Absent THEN Absent ELSE Reloaded[image[t].map[k]]

\* Every key that no other thread has touched is as the load of thread t has left
\* it so far: gone where it has been cleared, and as in the file where the file has
\* no more to say of it.
LoadSeen(t) ==
  /\ pc[t] = "loadClear" =>
       \A k \in Keys \ touched[t] : store[job[t].tok][k] # Absent => k \in todo[t]
  /\ pc[t] = "loadPut" =>
       \A k \in Keys \ touched[t] : k \notin todo[t] => store[job[t].tok][k] = Installed(t, k)

\* A key of the store that is not among the touched ones after a step was not
\* before, and the step has changed it only if the thread itself has taken it.
LEMMA Untouched ==
  ASSUME Record, NEW t \in Threads, pc'[t] \in {"loadKeys", "loadClear", "loadPut"},
         NEW k \in Keys \ touched'[t]
  PROVE  /\ k \notin touched[t]
         /\ (\E u \in Threads \ {t} : pc'[u] # pc[u]) => store'[job[t].tok][k] = store[job[t].tok][k]
BY DEF Record, TouchedOf

\* A thread outside the mutex that changes a store moves on.
LEMMA ChangesMove ==
  ASSUME Inv, NEW t \in Threads, Serve(t), mgr # t
  PROVE  pc'[t] # pc[t] \/ store' = store
<1>. USE DEF Inv, ThreadTypeOK, Goto
<1>1. CASE Select(t) \/ Disconnect(t) \/ Receive(t) \/ Reply(t) \/ GetStore(t, Entry(job[t].op))
  BY <1>1 DEF Select, Disconnect, Receive, Reply, GetStore, kvVars
<1>2. CASE \/ GetKey(t) \/ GetRead(t) \/ CheckAutosave(t) \/ TurnAutosave(t) \/ ListKeys(t)
           \/ Answer(t) \/ Snapshot(t) \/ Save(t)
  BY <1>2 DEF GetKey, GetRead, CheckAutosave, TurnAutosave, ListKeys, Answer, Snapshot, SnapKeys,
              SnapGet, SnapRead, SnapFlag, Save, SaveLock, OpenFile, OpenFails, WriteFile, WriteShort,
              Get, DropPointer, SetAutosave, kvVars
<1>3. CASE PutKey(t) \/ EraseKey(t)
  BY <1>3 DEF PutKey, EraseKey
<1>4. CASE Load(t) /\ ~LoadClear(t) /\ ~LoadPut(t)
  BY <1>4 DEF Load, LoadLock, LoadMissing, LoadUnreadable, LoadKeys, LoadParse, LoadThrows, LoadFlag,
              SetAutosave, kvVars
<1>5. CASE LoadClear(t) \/ LoadPut(t)
  <2>1. Locked(t)
    BY <1>5 DEF LoadClear, LoadPut, Fits, JobFits, Locked
  <2>. QED BY <2>1 DEF Fits
<1>. QED BY <1>1, <1>2, <1>3, <1>4, <1>5 DEF Serve, Command

\* The load of a thread that takes no step.
LEMMA LoadKept ==
  ASSUME Inv, NEW t \in Threads, LoadSeen(t), Record,
         NEW u \in Threads \ {t}, Serve(u)
  PROVE  LoadSeen(t)'
<1>1. pc'[t] = pc[t] /\ job'[t] = job[t] /\ todo'[t] = todo[t] /\ image'[t] = image[t]
  BY StepKeepsOthers DEF OthersKept
<1>2. ASSUME pc[t] \in {"loadClear", "loadPut"}, NEW k \in Keys \ touched'[t]
      PROVE  k \notin touched[t] /\ store'[job[t].tok][k] = store[job[t].tok][k]
  <2>1. mgr # u
    BY <1>2 DEF Inv, Fits, JobFits, Locked
  <2>. QED BY <1>1, <1>2, <2>1, ChangesMove, Untouched
<1>. QED BY <1>1, <1>2 DEF LoadSeen, Installed

\* The steps of the load itself.
LEMMA LoadOwn ==
  ASSUME Inv, NEW t \in Threads, LoadSeen(t), Record, Load(t)
  PROVE  LoadSeen(t)'
<1>. USE DEF Inv, ThreadTypeOK, KVTypeOK, Contents, Goto
<1>1. pc[t] # "idle" /\ job[t].tok \in Tokens /\ job' = job /\ todo[t] \subseteq Keys
  <2>1. pc[t] # "idle" /\ job' = job
    BY DEF Load, LoadLock, LoadMissing, LoadUnreadable, LoadKeys, LoadClear, LoadParse, LoadPut,
           LoadThrows, LoadFlag, Finish
  <2>. QED BY <2>1, JobFacts
<1>2. pc'[t] \in {"loadKeys", "loadClear", "loadPut"} => touched[t] \subseteq touched'[t]
  BY DEF Record, TouchedOf
<1>3. CASE LoadLock(t) \/ LoadMissing(t) \/ LoadUnreadable(t) \/ LoadThrows(t) \/ LoadFlag(t)
  BY <1>3 DEF LoadLock, LoadMissing, LoadUnreadable, LoadThrows, LoadFlag, Finish, LoadSeen
<1>4. CASE LoadKeys(t)
  BY <1>4 DEF LoadKeys, kvVars, LoadSeen, Present
<1>5. CASE LoadClear(t)
  <2>1. PICK k \in todo[t] : DeleteKey(job[t].tok, k) /\ todo' = [todo EXCEPT ![t] = @ \ {k}]
    BY <1>5 DEF LoadClear
  <2>2. \A j \in Keys : store'[job[t].tok][j] = IF j = k THEN Absent ELSE store[job[t].tok][j]
    BY <1>1, <2>1 DEF DeleteKey
  <2>3. pc[t] = "loadClear" /\ pc'[t] = "loadClear" /\ todo'[t] = todo[t] \ {k}
    BY <1>5, <2>1 DEF LoadClear
  <2>. QED BY <1>1, <1>2, <2>2, <2>3 DEF LoadSeen
<1>6. CASE LoadParse(t)
  <2>1. /\ pc[t] = "loadClear" /\ pc'[t] = "loadPut" /\ store' = store /\ image' = image
        /\ todo[t] = {} /\ todo'[t] = Present(image[t].map)
    BY <1>6 DEF LoadParse, kvVars
  <2>2. ASSUME NEW k \in Keys \ touched'[t], k \notin todo'[t]
        PROVE  store[job[t].tok][k] = Absent /\ image[t].map[k] = Absent
    BY <1>2, <2>1, <2>2 DEF LoadSeen, Present
  <2>. QED BY <1>1, <2>1, <2>2 DEF LoadSeen, Installed
<1>7. CASE LoadPut(t)
  <2>1. PICK k \in todo[t] :
          /\ Put(job[t].tok, k, Reloaded[image[t].map[k]])
          /\ todo' = [todo EXCEPT ![t] = @ \ {k}]
    BY <1>7 DEF LoadPut
  <2>2. /\ pc[t] = "loadPut" /\ pc'[t] = "loadPut" /\ image' = image
        /\ todo'[t] = todo[t] \ {k}
    BY <1>7, <2>1 DEF LoadPut
  <2>3. image[t].map[k] # Absent
    BY <2>2 DEF Fits, DataFits, Present
  <2>4. \A j \in Keys : store'[job[t].tok][j] = IF j = k THEN Reloaded[image[t].map[k]]
                                                ELSE store[job[t].tok][j]
    BY <1>1, <2>1 DEF Put
  <2>. QED BY <1>1, <1>2, <2>2, <2>3, <2>4 DEF LoadSeen, Installed
<1>. QED BY <1>3, <1>4, <1>5, <1>6, <1>7 DEF Load

\* No other step comes to a load's loops.
LEMMA LoadAway ==
  ASSUME Inv, NEW t \in Threads, Serve(t), ~Load(t)
  PROVE  pc'[t] \notin {"loadClear", "loadPut"}
<1>. USE DEF Inv, ThreadTypeOK, Goto, Finish
<1>1. CASE Select(t) \/ Disconnect(t) \/ Receive(t) \/ Reply(t)
  BY <1>1 DEF Select, Disconnect, Receive, Reply, threadVars
<1>2. CASE GetStore(t, Entry(job[t].op))
  <2>1. job[t].op \in AllOps
    BY <1>2, JobFacts DEF GetStore
  <2>. QED BY <1>2, <2>1 DEF GetStore, Entry, AllOps
<1>3. CASE \/ GetKey(t) \/ GetRead(t) \/ PutKey(t) \/ EraseKey(t) \/ CheckAutosave(t)
           \/ TurnAutosave(t) \/ ListKeys(t) \/ Answer(t)
  BY <1>3 DEF GetKey, GetRead, PutKey, EraseKey, CheckAutosave, TurnAutosave, ListKeys, Answer
<1>4. CASE Snapshot(t) \/ Save(t)
  BY <1>4 DEF Snapshot, SnapKeys, SnapGet, SnapRead, SnapFlag, Save, SaveLock, OpenFile, OpenFails,
              WriteFile, WriteShort
<1>. QED BY <1>1, <1>2, <1>3, <1>4 DEF Serve, Command

\* Every step keeps what the loads say.
LEMMA StepKeepsLoads ==
  ASSUME Inv, \A t \in Threads : LoadSeen(t), [HNext]_<<vars, histVars>>
  PROVE  \A t \in Threads : LoadSeen(t)'
<1>1. CASE UNCHANGED <<vars, histVars>>
  BY <1>1 DEF vars, histVars, kvVars, mgrVars, threadVars, LoadSeen, Installed
<1>2. ASSUME NEW t \in Threads, Serve(t), Record PROVE \A u \in Threads : LoadSeen(u)'
  <2>1. LoadSeen(t)'
    <3>1. CASE Load(t)
      BY <1>2, <3>1, LoadOwn
    <3>2. CASE ~Load(t)
      BY <1>2, <3>2, LoadAway DEF LoadSeen
    <3>. QED BY <3>1, <3>2
  <2>. QED BY <1>2, <2>1, LoadKept
<1>3. CASE Dies
  BY <1>3 DEF Dies, LoadSeen
<1>4. CASE Restart /\ Record
  <2>1. \A t \in Threads : pc'[t] \in {"loadClear", "loadPut"} => touched[t] \subseteq touched'[t]
    BY <1>4 DEF Record, TouchedOf
  <2>. QED BY <1>4, <2>1 DEF Restart, kvVars, mgrVars, threadVars, LoadSeen, Installed
<1>. QED BY <1>1, <1>2, <1>3, <1>4 DEF HNext, Next, Abort, SetAborts, FreedReadAborts, Kill

\* A LOAD leaves the file in the store, but for the keys that others have changed
\* meanwhile, whatever they did and whichever faults occur.
THEOREM LoadsInstall == HSpec => []LoadInstallsFile
<1> DEFINE Loads == \A t \in Threads : LoadSeen(t)
<1>1. HInit => Loads
  BY DEF HInit, Init, ManagerInit, LoadSeen
<1>2. Inv /\ Loads /\ [HNext]_<<vars, histVars>> => Loads'
  BY StepKeepsLoads
<1>3. Loads => LoadInstallsFile
  BY DEF LoadSeen, LoadInstallsFile, Installed, AsLoaded
<1>. QED BY <1>1, <1>2, <1>3, HistoryInvariance, PTL DEF HSpec

-----------------------------------------------------------------------------
(* Files.                                                                  *)

\* Only a file that a thread has opened and not yet written is not whole, or one
\* whose last write was cut short.
FilesWhole ==
  \A f \in Files : disk[f] # NoFile /\ disk[f].autosave = "missing" =>
    f \in torn \/ \E t \in Threads : pc[t] = "write" /\ Target(t) = f

\* A text to be written is whole, and so is one that is being loaded, unless it
\* comes from such a file.
ImagesWhole ==
  \A t \in Threads :
    /\ pc[t] \in {"open", "write"} => image[t].autosave # "missing"
    /\ Loading(t) /\ image[t].autosave = "missing" => Target(t) \in torn

Whole == FilesWhole /\ ImagesWhole

TornTypeOK == torn \in SUBSET Files

NothingCut == torn = {}

\* The inductive invariant.
LInv == Inv /\ Whole

\* Only the thread that saves is between opening a file and writing it.
LEMMA OneWrites ==
  ASSUME Inv, NEW t \in Threads, pc[t] = "write"
  PROVE  mgr = t
BY StoreAssumption DEF Inv, Fits, JobFits, Locked

\* A thread that loads keeps all the others from writing.
LEMMA LoadKeepsOut ==
  ASSUME Inv, NEW t \in Threads, Loading(t)
  PROVE  mgr = t /\ \A u \in Threads : pc[u] # "write"
<1>1. mgr = t
  BY DEF Inv, Fits, JobFits, Locked, Loading
<1>. QED BY <1>1, OneWrites DEF Loading

\* While no write ends, what has been cut short stays so.
LEMMA TornKept ==
  ASSUME Record, TornTypeOK, \A t \in Threads : pc[t] = "write" => pc'[t] = "write"
  PROVE  torn' = torn
BY DEF TornTypeOK, Record, CutShort, Closes

-----------------------------------------------------------------------------
\* A step of thread t at which no file is opened, written or read.
Apart(t) ==
  /\ disk' = disk
  /\ pc[t] # "write" \/ pc'[t] = "write"
  /\ pc[t] = "write" \/ Loading(t)' => job'[t] = job[t]
  /\ \A u \in Threads \ {t} : pc'[u] = pc[u] /\ job'[u] = job[u] /\ image'[u] = image[u]
  /\ pc'[t] \in {"open", "write"} => image'[t].autosave # "missing"
  /\ Loading(t)' /\ image'[t].autosave = "missing" => Target(t) \in torn

\* It leaves files and texts as they were.
LEMMA ApartKeepsWhole ==
  ASSUME LInv, TornTypeOK, Record, NEW t \in Threads, Apart(t)
  PROVE  Whole'
<1>1. torn' = torn
  BY TornKept DEF Apart
<1>2. \A u \in Threads : pc[u] = "write" => pc'[u] = "write" /\ Target(u)' = Target(u)
  BY DEF Apart, Target
<1>3. \A u \in Threads : Loading(u)' => Target(u)' = Target(u)
  BY DEF Apart, Target
<1>4. FilesWhole'
  BY <1>1, <1>2 DEF Apart, LInv, Whole, FilesWhole
<1>5. ImagesWhole'
  BY <1>1, <1>3 DEF Apart, LInv, Whole, ImagesWhole, Loading
<1>. QED BY <1>4, <1>5 DEF Whole

\* The connection, and the commands that touch no file.
LEMMA PlainIsApart ==
  ASSUME LInv, NEW t \in Threads,
         \/ Select(t) \/ Disconnect(t) \/ Receive(t) \/ Reply(t)
         \/ GetStore(t, Entry(job[t].op))
         \/ GetKey(t) \/ GetRead(t) \/ PutKey(t) \/ EraseKey(t) \/ CheckAutosave(t)
         \/ TurnAutosave(t) \/ ListKeys(t) \/ Answer(t)
  PROVE  Apart(t)
<1>. USE DEF LInv, Inv, ThreadTypeOK, Whole, ImagesWhole, Loading, Goto, Finish, mgrVars, threadVars
<1>1. CASE Select(t) \/ Disconnect(t) \/ Receive(t) \/ Reply(t)
  BY <1>1 DEF Select, Disconnect, Receive, Reply, Apart
<1>2. CASE GetStore(t, Entry(job[t].op))
  <2>1. job[t].op \in AllOps
    BY <1>2, JobFacts DEF GetStore
  <2>. QED BY <1>2, <2>1 DEF GetStore, Entry, AllOps, Apart
<1>3. CASE \/ GetKey(t) \/ GetRead(t) \/ PutKey(t) \/ EraseKey(t) \/ CheckAutosave(t)
           \/ TurnAutosave(t) \/ ListKeys(t) \/ Answer(t)
  BY <1>3 DEF GetKey, GetRead, PutKey, EraseKey, CheckAutosave, TurnAutosave, ListKeys, Answer, Apart
<1>. QED BY <1>1, <1>2, <1>3

\* The walk ends with the autosave field, which is true or false.
LEMMA SnapshotIsApart ==
  ASSUME LInv, NEW t \in Threads, Snapshot(t)
  PROVE  Apart(t)
<1>. USE DEF LInv, Inv, ThreadTypeOK, Loading, Goto, mgrVars
<1>1. CASE SnapKeys(t) \/ SnapGet(t) \/ SnapRead(t)
  BY <1>1 DEF SnapKeys, SnapGet, SnapRead, Apart
<1>2. CASE SnapFlag(t)
  <2>1. image[t] \in FileImage
    BY <1>2 DEF SnapFlag, Fits, DataFits
  <2>2. [image[t] EXCEPT !.autosave = FlagText(autosave[job[t].tok])].autosave # "missing"
    BY <2>1 DEF FileImage, FlagText
  <2>. QED BY <1>2, <2>2 DEF SnapFlag, Finish, Apart
<1>. QED BY <1>1, <1>2 DEF Snapshot

\* A LOAD that gets the mutex finds no file that is being written.
LEMMA LoadIsApart ==
  ASSUME LInv, NEW t \in Threads, Load(t)
  PROVE  Apart(t)
<1>. USE DEF LInv, Inv, ThreadTypeOK, Loading, Goto, Finish, mgrVars
<1>1. CASE LoadLock(t)
  <2>1. Target(t) \in Files
    BY <1>1, JobFacts DEF LoadLock
  <2>2. \A u \in Threads : pc[u] # "write"
    BY <1>1, OneWrites, StoreAssumption DEF LoadLock
  <2>3. disk[Target(t)].autosave = "missing" => Target(t) \in torn
    BY <1>1, <2>1, <2>2 DEF LoadLock, Whole, FilesWhole
  <2>. QED BY <1>1, <2>3 DEF LoadLock, Apart
<1>2. CASE LoadMissing(t) \/ LoadUnreadable(t) \/ LoadThrows(t) \/ LoadFlag(t)
  BY <1>2 DEF LoadMissing, LoadUnreadable, LoadThrows, LoadFlag, Apart
<1>3. CASE LoadKeys(t) \/ LoadClear(t) \/ LoadParse(t) \/ LoadPut(t)
  BY <1>3 DEF LoadKeys, LoadClear, LoadParse, LoadPut, Whole, ImagesWhole, Apart
<1>. QED BY <1>1, <1>2, <1>3 DEF Load

\* A write that ends leaves a whole file or is recorded.
LEMMA WriteKeepsFiles ==
  ASSUME LInv, TornTypeOK, Record, NEW t \in Threads, pc[t] = "write", pc'[t] # "write",
         \A f \in Files \ {Target(t)} : disk'[f] = disk[f]
  PROVE  FilesWhole'
<1>1. \A u \in Threads \ {t} : pc[u] # "write"
  BY OneWrites DEF LInv
<1>2. ASSUME NEW f \in Files, disk'[f] # NoFile, disk'[f].autosave = "missing" PROVE f \in torn'
  <2>1. CASE f = Target(t)
    <3>1. disk'[f] # image[t]
      BY <1>2 DEF LInv, Whole, ImagesWhole
    <3>. QED BY <2>1, <3>1 DEF Record, CutShort, Closes
  <2>2. CASE f # Target(t)
    <3>1. f \in torn
      BY <1>1, <1>2, <2>2 DEF LInv, Whole, FilesWhole
    <3>. QED BY <1>1, <2>2, <3>1 DEF Record, Closes
  <2>. QED BY <2>1, <2>2
<1>. QED BY <1>2 DEF FilesWhole

\* A save opens a file, and writes a whole text into it.
LEMMA SaveKeepsWhole ==
  ASSUME LInv, TornTypeOK, Record, NEW t \in Threads, Save(t)
  PROVE  Whole'
<1>. USE DEF LInv, Inv, ThreadTypeOK, Goto, Finish
<1>1. CASE SaveLock(t) \/ OpenFails(t)
  <2>1. Apart(t)
    BY <1>1 DEF SaveLock, OpenFails, Loading, Apart
  <2>. QED BY <2>1, ApartKeepsWhole
<1>2. CASE OpenFile(t)
  <2>1. \A u \in Threads : Target(u)' = Target(u)
    BY <1>2 DEF OpenFile, Target
  <2>2. pc'[t] = "write" /\ \A u \in Threads : pc[u] = "write" => pc'[u] = "write"
    BY <1>2 DEF OpenFile
  <2>3. \A f \in Files \ {Target(t)} : disk'[f] = disk[f]
    BY <1>2 DEF OpenFile, ManagerTypeOK
  <2>4. torn' = torn
    BY <2>2, TornKept
  <2>5. FilesWhole'
    BY <2>1, <2>2, <2>3, <2>4 DEF Whole, FilesWhole
  <2>6. ImagesWhole'
    BY <1>2, <2>1, <2>4 DEF OpenFile, Whole, ImagesWhole, Loading
  <2>. QED BY <2>5, <2>6 DEF Whole
<1>3. CASE WriteFile(t) \/ WriteShort(t)
  <2>1. pc[t] = "write" /\ pc'[t] = "done" /\ \A u \in Threads \ {t} : pc'[u] = pc[u]
    BY <1>3 DEF WriteFile, WriteShort
  <2>2. \A f \in Files \ {Target(t)} : disk'[f] = disk[f]
    BY <1>3 DEF WriteFile, WriteShort, ManagerTypeOK
  <2>3. FilesWhole'
    BY <2>1, <2>2, WriteKeepsFiles
  <2>4. \A u \in Threads : ~Loading(u)
    BY <2>1, LoadKeepsOut
  <2>5. ImagesWhole'
    BY <1>3, <2>1, <2>4 DEF WriteFile, WriteShort, Whole, ImagesWhole, Loading
  <2>. QED BY <2>3, <2>5 DEF Whole
<1>. QED BY <1>1, <1>2, <1>3 DEF Save

\* The end of the process leaves the file that was being written, at worst, cut
\* short.
LEMMA DiesKeepsWhole ==
  ASSUME LInv, TornTypeOK, Record, Dies
  PROVE  Whole'
<1>1. ImagesWhole'
  BY DEF Dies, ImagesWhole, Loading
<1>2. \A u \in Threads : pc'[u] = "idle"
  BY DEF Dies
<1>3. CASE \E t \in Threads : pc[t] = "write"
  <2>1. PICK t \in Threads : pc[t] = "write"
    BY <1>3
  <2>2. mgr = t
    BY <2>1, OneWrites DEF LInv
  <2>3. \A f \in Files \ {Target(t)} : disk'[f] = disk[f]
    BY <2>1, <2>2 DEF Dies, LInv, Inv, ManagerTypeOK
  <2>. QED BY <1>1, <1>2, <2>1, <2>3, WriteKeepsFiles DEF Whole
<1>4. CASE \A t \in Threads : pc[t] # "write"
  <2>1. disk' = disk
    BY <1>4 DEF Dies, LInv, Inv, ManagerTypeOK
  <2>2. torn' = torn
    BY <1>4, TornKept
  <2>. QED BY <1>1, <1>4, <2>1, <2>2 DEF LInv, Whole, FilesWhole
<1>. QED BY <1>3, <1>4

\* Every step keeps the files whole, but for those it records.
LEMMA StepKeepsWhole ==
  ASSUME LInv, TornTypeOK, [HNext]_<<vars, histVars>>
  PROVE  Whole' /\ TornTypeOK'
<1>1. CASE UNCHANGED <<vars, histVars>>
  BY <1>1 DEF vars, histVars, mgrVars, threadVars, LInv, Whole, FilesWhole, ImagesWhole, Loading, Target,
              TornTypeOK
<1>2. CASE HNext
  <2>1. Record
    BY <1>2 DEF HNext
  <2>2. ASSUME Restart PROVE Whole'
    <3>1. UNCHANGED <<disk, pc, job, image>>
      BY <2>2 DEF Restart, mgrVars, threadVars
    <3>2. torn' = torn
      BY <2>1, <3>1, TornKept
    <3>. QED BY <3>1, <3>2 DEF LInv, Whole, FilesWhole, ImagesWhole, Loading, Target
  <2>3. ASSUME NEW t \in Threads, Serve(t) PROVE Whole'
    <3>1. CASE Save(t)
      BY <2>1, <3>1, SaveKeepsWhole
    <3>2. CASE ~Save(t)
      BY <2>1, <2>3, <3>2, PlainIsApart, SnapshotIsApart, LoadIsApart, ApartKeepsWhole
      DEF Serve, Command
    <3>. QED BY <3>1, <3>2
  <2>4. ASSUME Dies PROVE Whole'
    BY <2>1, <2>4, DiesKeepsWhole
  <2>5. TornTypeOK'
    BY <2>1 DEF Record, TornTypeOK
  <2>. QED BY <1>2, <2>2, <2>3, <2>4, <2>5 DEF HNext, Next, Abort, SetAborts, FreedReadAborts, Kill
<1>. QED BY <1>1, <1>2

\* A LOAD never gets a file another thread is in the middle of writing, whatever
\* stores and files the clients' saves and loads have in common and whatever fails:
\* what it gets is not whole only where a write was cut short.
THEOREM LoadsFindWhole == HSpec => []PartialWasCut
<1>1. HInit => Whole /\ TornTypeOK
  BY DEF HInit, Init, ManagerInit, KVInit, Whole, FilesWhole, ImagesWhole, Loading, TornTypeOK
<1>2. Inv /\ Whole /\ TornTypeOK /\ [HNext]_<<vars, histVars>>
        => Whole' /\ TornTypeOK'
  BY StepKeepsWhole DEF LInv
<1>3. Whole => PartialWasCut
  BY DEF Whole, ImagesWhole, PartialWasCut
<1>. QED BY <1>1, <1>2, <1>3, HistoryInvariance, PTL DEF HSpec

-----------------------------------------------------------------------------
\* Nothing fails, and all values are of one type.
Quiet ==
  /\ Faults = {}
  /\ \A v, w \in Values : TypeOf[v] = TypeOf[w]

\* Types are registered by values only.
RegistryFits ==
  \A tok \in Tokens : registry[tok] # "none" => \E v \in Values : registry[tok] = TypeOf[v]

\* A type is registered by put() and forgotten with the process.
LEMMA StepKeepsRegistry ==
  ASSUME Inv, RegistryFits, [Next]_vars
  PROVE  RegistryFits'
<1>1. StoreChanges
  BY StepChangesStore
<1>2. CASE UNCHANGED <<store, registry>>
  BY <1>2 DEF RegistryFits
<1>3. ASSUME NEW tok \in Tokens, NEW k \in Keys, DeleteKey(tok, k) PROVE RegistryFits'
  BY <1>3 DEF DeleteKey, RegistryFits
<1>4. ASSUME NEW tok \in Tokens, NEW k \in Keys, NEW v \in Values, Put(tok, k, v) PROVE RegistryFits'
  BY <1>4 DEF Put, RegistryFits, Inv, KVTypeOK
<1>5. CASE Wiped
  BY <1>5 DEF Wiped, RegistryFits
<1>. QED BY <1>1, <1>2, <1>3, <1>4, <1>5 DEF StoreChanges

\* So nothing ends the process.
LEMMA NoEnd ==
  ASSUME Quiet, Inv, RegistryFits
  PROVE  ~Kill /\ \A t \in Threads : ~Abort(t)
<1>1. ~Kill
  BY DEF Quiet, Kill
<1>2. ASSUME NEW t \in Threads, Abort(t) PROVE FALSE
  <2>1. SetAborts(t)
    BY <1>2 DEF Quiet, Abort, FreedReadAborts
  <2>2. job[t].tok \in Tokens /\ job[t].val \in Values
    BY <2>1, JobFacts DEF SetAborts, Inv, Fits, JobFits
  <2>. QED BY <2>1, <2>2 DEF SetAborts, Mismatch, RegistryFits, Quiet
<1>. QED BY <1>1, <1>2

\* And no write is cut short.
LEMMA NothingTorn ==
  ASSUME Quiet, Inv, RegistryFits, torn = {}, [HNext]_<<vars, histVars>>
  PROVE  torn' = {}
<1>1. CASE UNCHANGED <<vars, histVars>>
  BY <1>1 DEF histVars
<1>2. CASE HNext
  <2>1. ASSUME NEW t \in Threads, NEW f \in Files, Closes(t, f) PROVE disk'[f] = image[t]
    <3>1. PICK u \in Threads : Serve(u)
      BY <1>2, <2>1, NoEnd DEF HNext, Next, Restart, threadVars, Closes
    <3>2. u = t
      BY <2>1, <3>1, StepKeepsOthers DEF OthersKept, Closes
    <3>3. WriteFile(t)
      BY <2>1, <3>1, <3>2
      DEF Closes, Quiet, Serve, Select, Disconnect, Receive, Reply, Command, GetStore, GetKey, GetRead,
          PutKey, EraseKey, CheckAutosave, TurnAutosave, ListKeys, Answer, Snapshot, SnapKeys, SnapGet,
          SnapRead, SnapFlag, Save, SaveLock, OpenFile, OpenFails, WriteShort, Load, LoadLock,
          LoadMissing, LoadUnreadable, LoadKeys, LoadClear, LoadParse, LoadPut, LoadThrows, LoadFlag,
          threadVars
    <3>. QED BY <2>1, <3>3 DEF Closes, WriteFile, Inv, ManagerTypeOK
  <2>. QED BY <1>2, <2>1 DEF HNext, Record, CutShort
<1>. QED BY <1>1, <1>2

\* So where nothing fails and all values are of one type, every file a LOAD gets
\* is whole.
THEOREM LoadsWhole ==
  ASSUME Quiet
  PROVE  HSpec => []LoadsWholeFile
<1>1. HInit => RegistryFits /\ NothingCut
  BY DEF HInit, Init, ManagerInit, KVInit, RegistryFits, NothingCut
<1>2. Inv /\ RegistryFits /\ NothingCut /\ [HNext]_<<vars, histVars>> => RegistryFits' /\ NothingCut'
  <2>1. [HNext]_<<vars, histVars>> => [Next]_vars
    BY DEF HNext
  <2>. QED BY <2>1, StepKeepsRegistry, NothingTorn DEF NothingCut
<1>3. PartialWasCut /\ NothingCut => LoadsWholeFile
  BY DEF PartialWasCut, Loading, LoadsWholeFile, NothingCut
<1>. QED BY <1>1, <1>2, <1>3, LoadsFindWhole, HistoryInvariance, PTL DEF HSpec

-----------------------------------------------------------------------------
(* Acknowledged changes.                                                   *)

\* Thread t walks its store to write it, or is about to write it.
Writing(t) == pc[t] \in {"snapGet", "snapRead", "open", "write"} /\ job[t].op # "JSON"

\* Store tok holds under k something of S, unless it is adrift; and it will once a
\* LOAD under way has gone through, or what the file has.
Holds(tok, k, S) ==
  /\ tok \notin adrift => store[tok][k] \in S
  /\ \A t \in Threads : job[t] # Null /\ job[t].tok = tok /\ k \notin todo[t] =>
       /\ pc[t] = "loadClear" => store[tok][k] \in S \cup {Absent}
       /\ pc[t] = "loadPut" => store[tok][k] \in S \cup {AsLoaded(image[t].map[k])}

\* It does so after this step.
WillHold(tok, k, S) ==
  /\ tok \notin adrift' => store'[tok][k] \in S
  /\ \A t \in Threads : job'[t] # Null /\ job'[t].tok = tok /\ k \notin todo'[t] =>
       /\ pc'[t] = "loadClear" => store'[tok][k] \in S \cup {Absent}
       /\ pc'[t] = "loadPut" => store'[tok][k] \in S \cup {AsLoaded(image'[t].map[k])}

\* What thread t has seen of its store may be written: it is late enough for what
\* has been acknowledged, and for the change that t is to acknowledge.
Late(t) ==
  \A k \in Keys :
    /\ past[t][k] \subseteq kept[job[t].tok][k]
    /\ Changing(t) /\ k = job[t].key => past[t][k] \subseteq since[t]

\* The stores that nothing has put adrift may be written, and so may what has been
\* seen of them for a save.
MemoryKept ==
  /\ \A tok \in Tokens, k \in Keys :
       kept[tok][k] \subseteq Anything /\ Holds(tok, k, kept[tok][k])
  /\ \A t \in Threads :
       /\ Loading(t) => job[t].tok \in adrift
       /\ Changing(t) => Holds(job[t].tok, job[t].key, since[t])
       /\ \A k \in Keys :
            /\ pc[t] \notin Walking => past[t][k] = {}
            /\ Writing(t) => past[t][k] \subseteq Anything
       /\ Writing(t) /\ job[t].tok \notin adrift => Late(t)

\* What the files hold that nobody is writing may stay.
FilesKept ==
  \A tok \in Tokens : \A k \in Keys :
    \/ \E t \in Threads : pc[t] = "write" /\ Target(t) = FileOf[tok]
    \/ disk[FileOf[tok]] = NoFile /\ kept[tok][k] = Anything
    \/ disk[FileOf[tok]] # NoFile /\ disk[FileOf[tok]].map[k] \in kept[tok][k]

\* The inductive invariant.
KInv == Inv /\ (\A t \in Threads : WalkSeen(t)) /\ MemoryKept /\ FilesKept

\* A change is acknowledged where its write ends.
LEMMA AcknowledgedAtWrite ==
  ASSUME Inv, Next, NEW t \in Threads, NEW tok, NEW k, Acknowledges(t, tok, k)
  PROVE  pc[t] = "write" /\ mgr = t /\ mgr' = Null /\ store' = store
<1>1. PICK u \in Threads : Serve(u)
  BY DEF Next, Abort, SetAborts, FreedReadAborts, Kill, Dies, Restart, threadVars, Acknowledges, Changing
<1>2. u = t
  BY <1>1, StepKeepsOthers DEF OthersKept, Acknowledges, Changing
<1>3. job[t].op \in {"SET", "DELETE"} /\ pc[t] \notin {"getStore", "put", "delete", "done"}
  BY DEF Acknowledges, Changing
<1>4. pc'[t] = "done" /\ res'[t] # <<"ERROR">> /\ (pc[t] = "flag" => autosave[job[t].tok])
  BY DEF Acknowledges
<1>. USE DEF Inv, ThreadTypeOK, Goto
<1>5. CASE Select(t) \/ Disconnect(t) \/ Receive(t) \/ Reply(t)
  BY <1>4, <1>5 DEF Select, Disconnect, Receive, Reply, threadVars
<1>6. CASE \/ GetStore(t, Entry(job[t].op)) \/ GetKey(t) \/ GetRead(t) \/ PutKey(t) \/ EraseKey(t)
           \/ TurnAutosave(t) \/ ListKeys(t) \/ Answer(t)
  <2>1. pc[t] # "answer"
    BY <1>3 DEF Fits, JobFits
  <2>. QED BY <1>3, <1>4, <1>6, <2>1
       DEF GetStore, GetKey, GetRead, PutKey, EraseKey, TurnAutosave, ListKeys, Answer, Fits, JobFits
<1>7. CASE CheckAutosave(t)
  BY <1>4, <1>7 DEF CheckAutosave
<1>8. CASE Snapshot(t)
  BY <1>3, <1>4, <1>8 DEF Snapshot, SnapKeys, SnapGet, SnapRead, SnapFlag
<1>9. CASE Save(t)
  <2>1. WriteFile(t) \/ WriteShort(t)
    BY <1>4, <1>9 DEF Save, SaveLock, OpenFile, OpenFails, Finish
  <2>. QED BY <2>1, OneWrites DEF WriteFile, WriteShort, kvVars
<1>10. CASE Load(t)
  BY <1>3, <1>10 DEF Load, LoadLock, LoadMissing, LoadUnreadable, LoadKeys, LoadClear, LoadParse, LoadPut,
                     LoadThrows, LoadFlag, Fits, JobFits
<1>. QED BY <1>1, <1>2, <1>5, <1>6, <1>7, <1>8, <1>9, <1>10 DEF Serve, Command

\* A thread that is to write what it walks over has been walking already, or begins.
LEMMA WritingGoesOn ==
  ASSUME Inv, Next, NEW t \in Threads, Writing(t)'
  PROVE  job'[t] = job[t] /\ (Writing(t) \/ pc[t] = "snapKeys") /\ mgr' = t
<1>1. mgr' = t
  <2>1. Inv'
    BY NextInv
  <2>. QED BY <2>1, StoreAssumption DEF Inv, Fits, JobFits, Locked, Writing, Saving
<1>2. CASE Restart
  BY <1>1, <1>2 DEF Restart, threadVars, Writing
<1>3. CASE Dies
  BY <1>3 DEF Dies, Writing
<1>4. ASSUME NEW u \in Threads, Serve(u), u # t
      PROVE  job'[t] = job[t] /\ (Writing(t) \/ pc[t] = "snapKeys")
  BY <1>4, StepKeepsOthers DEF OthersKept, Writing
<1>5. ASSUME Serve(t)
      PROVE  job'[t] = job[t] /\ (Writing(t) \/ pc[t] = "snapKeys")
  <2>. USE DEF Inv, ThreadTypeOK, Goto, Finish, Writing
  <2>1. CASE Select(t) \/ Disconnect(t) \/ Receive(t) \/ Reply(t)
    BY <2>1 DEF Select, Disconnect, Receive, Reply, threadVars
  <2>2. CASE GetStore(t, Entry(job[t].op))
    <3>1. job[t].op \in AllOps
      BY <2>2, JobFacts DEF GetStore
    <3>. QED BY <2>2, <3>1 DEF GetStore, Entry, AllOps
  <2>3. CASE \/ GetKey(t) \/ GetRead(t) \/ PutKey(t) \/ EraseKey(t) \/ CheckAutosave(t)
             \/ TurnAutosave(t) \/ ListKeys(t) \/ Answer(t)
    BY <2>3 DEF GetKey, GetRead, PutKey, EraseKey, CheckAutosave, TurnAutosave, ListKeys, Answer
  <2>4. CASE Snapshot(t) \/ Save(t)
    BY <2>4 DEF Snapshot, SnapKeys, SnapGet, SnapRead, SnapFlag, Save, SaveLock, OpenFile, OpenFails,
                WriteFile, WriteShort
  <2>5. CASE Load(t)
    BY <2>5 DEF Load, LoadLock, LoadMissing, LoadUnreadable, LoadKeys, LoadClear, LoadParse, LoadPut,
                LoadThrows, LoadFlag
  <2>. QED BY <1>5, <2>1, <2>2, <2>3, <2>4, <2>5 DEF Serve, Command
<1>. QED BY <1>1, <1>2, <1>3, <1>4, <1>5 DEF Next, Abort, SetAborts, FreedReadAborts, Kill

-----------------------------------------------------------------------------
(* What stores hold.                                                       *)

\* Nothing else is given to a key than a value, or its absence.
LEMMA GivenFits ==
  ASSUME Inv, Inv', NEW tok \in Tokens, NEW k \in Keys
  PROVE  Given(tok, k) \subseteq Anything
<1>1. store'[tok][k] \in Anything /\ store[tok][k] \in Anything
  BY DEF Inv, KVTypeOK, Contents, Anything
<1>2. ASSUME NEW t \in Threads, pc[t] = "loadPut" PROVE AsLoaded(image[t].map[k]) \in Anything
  <2>1. image[t] \in FileImage
    BY <1>2 DEF Inv, ThreadTypeOK, Fits, DataFits
  <2>. QED BY <2>1, ManagerAssumption DEF FileImage, Contents, AsLoaded, Anything
<1>. QED BY <1>1, <1>2 DEF Given, Installs

\* Outside the mutex only a SET or DELETE changes a store.
LEMMA ClientChanges ==
  ASSUME Inv, NEW t \in Threads, Serve(t), ~LoadClear(t), ~LoadPut(t),
         NEW tok \in Tokens, NEW k \in Keys, store'[tok][k] # store[tok][k]
  PROVE  Changes(t, tok, k)
<1>. USE DEF Inv, ThreadTypeOK, Goto
<1>1. CASE PutKey(t) \/ EraseKey(t)
  <2>1. job[t] # Null /\ job[t].op \in {"SET", "DELETE"} /\ job' = job
    BY <1>1 DEF PutKey, EraseKey, Fits, JobFits
  <2>2. pc[t] \in {"put", "delete"} /\ pc'[t] = "flag"
    BY <1>1 DEF PutKey, EraseKey
  <2>3. job[t].tok = tok /\ job[t].key = k
    <3>1. job[t].tok \in Tokens /\ job[t].key \in Keys
      BY <2>1, RequestFacts
    <3>. QED BY <1>1, <3>1 DEF PutKey, EraseKey, Put, DeleteKey, KVTypeOK, Contents
  <2>. QED BY <2>1, <2>2, <2>3 DEF Changes, Changing
<1>2. CASE Select(t) \/ Disconnect(t) \/ Receive(t) \/ Reply(t) \/ GetStore(t, Entry(job[t].op))
  BY <1>2 DEF Select, Disconnect, Receive, Reply, GetStore, kvVars
<1>3. CASE \/ GetKey(t) \/ GetRead(t) \/ CheckAutosave(t) \/ TurnAutosave(t) \/ ListKeys(t)
           \/ Answer(t) \/ Snapshot(t) \/ Save(t)
  BY <1>3 DEF GetKey, GetRead, CheckAutosave, TurnAutosave, ListKeys, Answer, Snapshot, SnapKeys,
              SnapGet, SnapRead, SnapFlag, Save, SaveLock, OpenFile, OpenFails, WriteFile, WriteShort,
              Get, DropPointer, SetAutosave, kvVars
<1>4. CASE Load(t)
  BY <1>4 DEF Load, LoadLock, LoadMissing, LoadUnreadable, LoadKeys, LoadParse, LoadThrows, LoadFlag,
              SetAutosave, kvVars
<1>. QED BY <1>1, <1>2, <1>3, <1>4 DEF Serve, Command

\* A LOAD's own steps, and what it has left of each key so far.
LEMMA LoadHolds ==
  ASSUME Inv, NEW t \in Threads, Load(t), NEW tok \in Tokens, job[t].tok = tok,
         NEW k \in Keys, k \notin todo'[t], NEW S, Holds(tok, k, S)
  PROVE  /\ pc'[t] = "loadClear" => store'[tok][k] \in S \cup {Absent}
         /\ pc'[t] = "loadPut" => store'[tok][k] \in S \cup {AsLoaded(image'[t].map[k])}
<1>. USE DEF Inv, ThreadTypeOK, KVTypeOK, Contents, Goto
<1>1. job[t] # Null /\ todo[t] \subseteq Keys
  BY DEF Load, LoadLock, LoadMissing, LoadUnreadable, LoadKeys, LoadClear, LoadParse, LoadPut,
         LoadThrows, LoadFlag, Fits, JobFits
<1>2. CASE LoadLock(t) \/ LoadMissing(t) \/ LoadUnreadable(t) \/ LoadThrows(t) \/ LoadFlag(t)
  BY <1>2 DEF LoadLock, LoadMissing, LoadUnreadable, LoadThrows, LoadFlag, Finish
<1>3. CASE LoadKeys(t)
  BY <1>3 DEF LoadKeys, kvVars, Present
<1>4. CASE LoadClear(t)
  <2>1. PICK j \in todo[t] : DeleteKey(tok, j) /\ todo' = [todo EXCEPT ![t] = @ \ {j}]
    BY <1>4 DEF LoadClear
  <2>2. store'[tok][k] = IF k = j THEN Absent ELSE store[tok][k]
    BY <1>1, <2>1 DEF DeleteKey
  <2>3. pc[t] = "loadClear" /\ pc'[t] = "loadClear" /\ todo'[t] = todo[t] \ {j}
    BY <1>4, <2>1 DEF LoadClear
  <2>. QED BY <1>1, <2>2, <2>3 DEF Holds
<1>5. CASE LoadParse(t)
  <2>1. /\ pc[t] = "loadClear" /\ pc'[t] = "loadPut" /\ store' = store /\ image' = image
        /\ todo[t] = {} /\ todo'[t] = Present(image[t].map)
    BY <1>5 DEF LoadParse, kvVars
  <2>2. image'[t].map[k] = Absent
    BY <2>1 DEF Present
  <2>. QED BY <1>1, <2>1, <2>2 DEF Holds, AsLoaded
<1>6. CASE LoadPut(t)
  <2>1. PICK j \in todo[t] :
          /\ Put(tok, j, Reloaded[image[t].map[j]])
          /\ todo' = [todo EXCEPT ![t] = @ \ {j}]
    BY <1>6 DEF LoadPut
  <2>2. /\ pc[t] = "loadPut" /\ pc'[t] = "loadPut" /\ image' = image
        /\ todo'[t] = todo[t] \ {j}
    BY <1>6, <2>1 DEF LoadPut
  <2>3. image[t].map[j] # Absent
    BY <2>2 DEF Fits, DataFits, Present
  <2>4. store'[tok][k] = IF k = j THEN Reloaded[image[t].map[j]] ELSE store[tok][k]
    BY <1>1, <2>1 DEF Put
  <2>. QED BY <1>1, <2>2, <2>3, <2>4 DEF Holds, AsLoaded
<1>. QED BY <1>2, <1>3, <1>4, <1>5, <1>6 DEF Load

\* A LOAD that goes through has put every entry, and changes the store no more.
LEMMA InstallsAll ==
  ASSUME Inv, NEW t \in Threads, Serve(t), NEW tok \in Tokens, Installs(t, tok)
  PROVE  todo[t] = {} /\ store' = store /\ job[t] # Null
<1>. USE DEF Inv, ThreadTypeOK, Goto, Finish, Installs
<1>1. LoadFlag(t)
  BY DEF Serve, Select, Disconnect, Receive, Reply, Command, GetStore, GetKey, GetRead, PutKey, EraseKey,
         CheckAutosave, TurnAutosave, ListKeys, Answer, Snapshot, SnapKeys, SnapGet, SnapRead, SnapFlag,
         Save, SaveLock, OpenFile, OpenFails, WriteFile, WriteShort, Load, LoadLock, LoadMissing,
         LoadUnreadable, LoadKeys, LoadClear, LoadParse, LoadPut, LoadThrows
<1>. QED BY <1>1 DEF LoadFlag, SetAutosave, kvVars, Fits, JobFits

\* A write that ends gives the mutex back and changes no store, unless the process
\* ends.
LEMMA WriteEnds ==
  ASSUME Inv, Next, NEW t \in Threads, pc[t] = "write", pc'[t] # "write"
  PROVE  /\ pc'[t] \in {"done", "idle"}
         /\ known' = {} \/ store' = store
         /\ \A u \in Threads : pc'[u] \notin {"loadClear", "loadPut"}
<1>. USE DEF Inv, ThreadTypeOK
<1>1. CASE Restart
  BY <1>1 DEF Restart, threadVars
<1>2. CASE Dies
  BY <1>2 DEF Dies
<1>3. ASSUME NEW u \in Threads, Serve(u), u # t PROVE FALSE
  BY <1>3, StepKeepsOthers DEF OthersKept
<1>4. CASE Serve(t)
  <2>1. WriteFile(t) \/ WriteShort(t)
    BY <1>4
    DEF Serve, Select, Disconnect, Receive, Reply, Command, GetStore, GetKey, GetRead,
        PutKey, EraseKey, CheckAutosave, TurnAutosave, ListKeys, Answer, Snapshot, SnapKeys, SnapGet,
        SnapRead, SnapFlag, Save, SaveLock, OpenFile, OpenFails, Load, LoadLock,
        LoadMissing, LoadUnreadable, LoadKeys, LoadClear, LoadParse, LoadPut, LoadThrows, LoadFlag
  <2>2. store' = store /\ pc' = [pc EXCEPT ![t] = "done"]
    BY <2>1 DEF WriteFile, WriteShort, Finish, Goto, kvVars
  <2>3. \A u \in Threads : pc[u] \notin {"loadClear", "loadPut"}
    BY LoadKeepsOut DEF Loading
  <2>. QED BY <2>2, <2>3
<1>. QED BY <1>1, <1>2, <1>3, <1>4 DEF Next, Abort, SetAborts, FreedReadAborts, Kill

\* What a step changes of key k in store tok is given to it.
LEMMA StoresGiven ==
  ASSUME Inv, NEW u \in Threads, Serve(u), NEW tok \in Tokens, NEW k \in Keys,
         ~((LoadClear(u) \/ LoadPut(u)) /\ job[u].tok = tok)
  PROVE  store'[tok][k] = store[tok][k] \/ store'[tok][k] \in Given(tok, k)
<1>1. CASE LoadClear(u) \/ LoadPut(u)
  BY <1>1 DEF LoadClear, LoadPut, DeleteKey, Put, Inv, KVTypeOK
<1>2. CASE ~LoadClear(u) /\ ~LoadPut(u) /\ store'[tok][k] # store[tok][k]
  <2>1. Changes(u, tok, k)
    BY <1>2, ClientChanges
  <2>. QED BY <2>1 DEF Given
<1>. QED BY <1>1, <1>2

\* A store that is not adrift after the step.
LEMMA SteadyHolds ==
  ASSUME Inv, MemoryKept, NEW u \in Threads, Serve(u), Record,
         NEW tok \in Tokens, NEW k \in Keys, NEW S, NEW T,
         Holds(tok, k, S), S \subseteq T, Given(tok, k) \subseteq T, tok \notin adrift'
  PROVE  store'[tok][k] \in T
<1>1. ~Emptied(tok) /\ (tok \in adrift => Settles(tok))
  BY DEF Record
<1>2. CASE tok \notin adrift
  <2>1. ~((LoadClear(u) \/ LoadPut(u)) /\ job[u].tok = tok)
    BY <1>1 DEF Emptied, LoadClear, LoadPut, Loading
  <2>. QED BY <1>2, <2>1, StoresGiven DEF Holds
<1>3. CASE tok \in adrift
  <2>1. PICK t \in Threads : Installs(t, tok) \/ Closes(t, FileOf[tok])
    BY <1>1, <1>3 DEF Settles
  <2>2. t = u
    BY <2>1, StepKeepsOthers DEF OthersKept, Installs, Closes
  <2>3. CASE Installs(u, tok)
    <3>1. todo[u] = {} /\ store' = store /\ job[u] # Null
      BY <2>3, InstallsAll
    <3>2. store[tok][k] \in S \cup {AsLoaded(image[u].map[k])}
      BY <2>3, <3>1 DEF Installs, Holds
    <3>3. AsLoaded(image[u].map[k]) \in Given(tok, k)
      BY <2>3 DEF Given
    <3>. QED BY <3>1, <3>2, <3>3
  <2>4. CASE Closes(u, FileOf[tok])
    <3>1. known' = {} \/ store' = store
      BY <2>4, WriteEnds DEF Closes, Next
    <3>2. store' = store
      BY <1>1, <3>1 DEF Emptied
    <3>. QED BY <1>3, <2>4, <3>2 DEF Given, StartsOver
  <2>. QED BY <2>1, <2>2, <2>3, <2>4
<1>. QED BY <1>2, <1>3

\* Sets that grow by what is given hold what the stores do.
LEMMA HoldsStep ==
  ASSUME Inv, MemoryKept, Next, Record,
         NEW tok \in Tokens, NEW k \in Keys, NEW S, NEW T,
         Holds(tok, k, S), S \subseteq T, Given(tok, k) \subseteq T
  PROVE  WillHold(tok, k, T)
<1>1. CASE Restart
  <2>1. UNCHANGED <<store, known, pc, job, todo, image>>
    BY <1>1 DEF Restart, kvVars, mgrVars, threadVars
  <2>2. tok \notin adrift' => tok \notin adrift
    BY <2>1 DEF Record, Settles, Installs, Closes
  <2>. QED BY <2>1, <2>2 DEF Holds, WillHold
<1>2. CASE Dies
  BY <1>2 DEF Dies, Record, Emptied, WillHold
<1>3. ASSUME NEW u \in Threads, Serve(u) PROVE WillHold(tok, k, T)
  <2>1. tok \notin adrift' => store'[tok][k] \in T
    BY <1>3, SteadyHolds
  <2>2. ASSUME NEW t \in Threads, job'[t] # Null, job'[t].tok = tok, k \notin todo'[t],
               pc'[t] \in {"loadClear", "loadPut"}
        PROVE  /\ pc'[t] = "loadClear" => store'[tok][k] \in T \cup {Absent}
               /\ pc'[t] = "loadPut" => store'[tok][k] \in T \cup {AsLoaded(image'[t].map[k])}
    <3>1. CASE t = u
      <4>1. Load(t)
        BY <1>3, <2>2, <3>1, LoadAway
      <4>2. job[t] = job'[t]
        BY <2>2, <4>1 DEF Load, LoadLock, LoadMissing, LoadUnreadable, LoadKeys, LoadClear, LoadParse,
              LoadPut, LoadThrows, LoadFlag, Finish, Inv, ThreadTypeOK
      <4>. QED BY <2>2, <4>1, <4>2, LoadHolds
    <3>2. CASE t # u
      <4>1. pc'[t] = pc[t] /\ job'[t] = job[t] /\ todo'[t] = todo[t] /\ image'[t] = image[t]
        BY <1>3, <3>2, StepKeepsOthers DEF OthersKept
      <4>2. mgr # u
        BY <2>2, <3>2, <4>1, LoadKeepsOut DEF Loading
      <4>3. ~LoadClear(u) /\ ~LoadPut(u)
        BY <4>2 DEF LoadClear, LoadPut, Inv, Fits, JobFits, Locked
      <4>4. store'[tok][k] = store[tok][k] \/ store'[tok][k] \in T
        BY <1>3, <4>3, StoresGiven
      <4>. QED BY <2>2, <4>1, <4>4 DEF Holds
    <3>. QED BY <3>1, <3>2
  <2>. QED BY <2>1, <2>2 DEF WillHold
<1>. QED BY <1>1, <1>2, <1>3 DEF Next, Abort, SetAborts, FreedReadAborts, Kill

\* While nothing is acknowledged and no store that was adrift is saved, what may be
\* written stays so.
LEMMA KeptGrows ==
  ASSUME Record, MemoryKept, NEW tok \in Tokens, NEW k \in Keys,
         \A t \in Threads : ~Acknowledges(t, tok, k) /\ ~StartsOver(t, tok)
  PROVE  kept[tok][k] \subseteq kept'[tok][k]
BY DEF Record, KeptOf, MemoryKept

\* A save acknowledges the change of its own command only.
LEMMA AcknowledgedCloses ==
  ASSUME Inv, Next, NEW t \in Threads, NEW tok, NEW k, Acknowledges(t, tok, k)
  PROVE  Closes(t, FileOf[tok])
BY AcknowledgedAtWrite DEF Acknowledges, Changing, Closes, Target

\* What the stores hold may be written, whatever is acknowledged.
LEMMA KeptStep ==
  ASSUME Inv, Inv', MemoryKept, Next, Record, NEW tok \in Tokens, NEW k \in Keys
  PROVE  kept'[tok][k] \subseteq Anything /\ WillHold(tok, k, kept'[tok][k])
<1>1. kept'[tok][k] = KeptOf(tok, k)
  BY DEF Record
<1>2. kept'[tok][k] \subseteq Anything
  <2>1. ASSUME NEW t \in Threads, StartsOver(t, tok) PROVE past[t][k] \subseteq Anything
    BY <2>1 DEF StartsOver, Closes, MemoryKept, Writing, Inv, Fits, JobFits, Saving
  <2>. QED BY <1>1, <2>1, GivenFits DEF KeptOf, MemoryKept
<1>3. ASSUME NEW t \in Threads, Closes(t, FileOf[tok]), store[tok][k] \in kept'[tok][k]
      PROVE  WillHold(tok, k, kept'[tok][k])
  <2>1. known' = {} => tok \in adrift'
    BY DEF Record, Emptied
  <2>. QED BY <1>3, <2>1, WriteEnds DEF Closes, WillHold
<1>4. CASE CutShort(FileOf[tok])
  <2>1. PICK t \in Threads : Closes(t, FileOf[tok])
    BY <1>4 DEF CutShort
  <2>2. store[tok][k] \in Anything
    BY DEF Inv, KVTypeOK, Contents, Anything
  <2>3. kept'[tok][k] = Anything
    BY <1>1, <1>4 DEF KeptOf
  <2>. QED BY <1>3, <2>1, <2>2, <2>3
<1>5. ASSUME ~CutShort(FileOf[tok]), NEW t \in Threads, StartsOver(t, tok)
      PROVE  WillHold(tok, k, kept'[tok][k])
  <2>1. store[tok][k] \in kept'[tok][k]
    BY <1>1, <1>5 DEF KeptOf, Given
  <2>. QED BY <1>3, <1>5, <2>1 DEF StartsOver
<1>6. ASSUME ~CutShort(FileOf[tok]), \A t \in Threads : ~StartsOver(t, tok)
      PROVE  WillHold(tok, k, kept'[tok][k])
  <2>1. kept'[tok][k] = {x \in kept[tok][k] \cup Given(tok, k) :
                           \A t \in Threads : Acknowledges(t, tok, k) => x \in since[t]}
    BY <1>1, <1>6 DEF KeptOf
  <2>2. CASE \A t \in Threads : ~Acknowledges(t, tok, k)
    BY <2>1, <2>2, HoldsStep DEF MemoryKept
  <2>3. ASSUME NEW t \in Threads, Acknowledges(t, tok, k)
        PROVE  WillHold(tok, k, kept'[tok][k])
    <3>1. Closes(t, FileOf[tok])
      BY <2>3, AcknowledgedCloses
    <3>2. tok \notin adrift
      BY <1>6, <3>1 DEF StartsOver
    <3>3. store[tok][k] \in kept[tok][k]
      BY <3>2 DEF MemoryKept, Holds
    <3>4. ASSUME NEW u \in Threads, Acknowledges(u, tok, k) PROVE store[tok][k] \in since[u]
      BY <3>2, <3>4 DEF MemoryKept, Holds, Acknowledges
    <3>5. store[tok][k] \in kept'[tok][k]
      BY <2>1, <3>3, <3>4
    <3>. QED BY <1>3, <3>1, <3>5
  <2>. QED BY <2>2, <2>3
<1>. QED BY <1>2, <1>4, <1>5, <1>6

\* A thread that is to acknowledge a change goes on with the command that asks for it.
LEMMA ChangingGoesOn ==
  ASSUME Inv, Next, NEW t \in Threads, Changing(t)'
  PROVE  job'[t] = job[t]
<1>. USE DEF Inv, ThreadTypeOK, Goto, Changing
<1>1. CASE Restart
  BY <1>1 DEF Restart, threadVars
<1>2. CASE Dies
  BY <1>2 DEF Dies
<1>3. ASSUME NEW u \in Threads, Serve(u), u # t PROVE job'[t] = job[t]
  BY <1>3, StepKeepsOthers DEF OthersKept
<1>4. CASE Serve(t)
  <2>1. CASE Select(t) \/ Disconnect(t) \/ Receive(t) \/ Reply(t)
    BY <2>1 DEF Select, Disconnect, Receive, Reply, threadVars
  <2>2. CASE Command(t)
    BY <2>2 DEF Command, GetStore, GetKey, GetRead, PutKey, EraseKey, CheckAutosave, TurnAutosave,
      ListKeys, Answer, Snapshot, SnapKeys, SnapGet, SnapRead, SnapFlag, Save, SaveLock, OpenFile,
      OpenFails, WriteFile, WriteShort, Load, LoadLock, LoadMissing, LoadUnreadable, LoadKeys,
      LoadClear, LoadParse, LoadPut, LoadThrows, LoadFlag, Finish
  <2>. QED BY <1>4, <2>1, <2>2 DEF Serve
<1>. QED BY <1>1, <1>2, <1>3, <1>4 DEF Next, Abort, SetAborts, FreedReadAborts, Kill

\* What the stores hold is late enough for the changes to be acknowledged.
LEMMA SinceStep ==
  ASSUME Inv, MemoryKept, Next, Record, NEW t \in Threads, Changing(t)'
  PROVE  WillHold(job'[t].tok, job'[t].key, since'[t])
<1>1. job'[t] = job[t] /\ job[t] # Null /\ job[t].op \in {"SET", "DELETE"}
  BY ChangingGoesOn DEF Changing
<1>2. job[t].tok \in Tokens /\ job[t].key \in Keys
  <2>1. job[t] \in Request
    BY <1>1 DEF Inv, ThreadTypeOK
  <2>. QED BY <1>1, <2>1, RequestFacts
<1>3. since'[t] = since[t] \cup Given(job[t].tok, job[t].key)
  BY DEF Record, SinceOf
<1>4. CASE Changing(t)
  BY <1>1, <1>2, <1>3, <1>4, HoldsStep DEF MemoryKept
<1>5. CASE ~Changing(t)
  <2>1. Changes(t, job[t].tok, job[t].key)
    BY <1>5 DEF Changes
  <2>2. store'[job[t].tok][job[t].key] \in since'[t]
    BY <1>3, <2>1 DEF Given
  <2>. QED BY <1>1, <2>2 DEF WillHold
<1>. QED BY <1>4, <1>5

\* A store that is being walked over to be written is not settled meanwhile.
LEMMA WritingUnsettled ==
  ASSUME Inv, Inv', Next, NEW t \in Threads, Writing(t)', NEW tok \in Tokens
  PROVE  ~Settles(tok) /\ \A u \in Threads : ~StartsOver(u, tok)
<1>1. job'[t] = job[t] /\ (Writing(t) \/ pc[t] = "snapKeys")
  BY WritingGoesOn
<1>2. mgr = t
  BY <1>1 DEF Inv, Fits, JobFits, Locked, Writing
<1>3. ASSUME NEW u \in Threads, Loading(u) PROVE FALSE
  BY <1>1, <1>2, <1>3, LoadKeepsOut DEF Writing, Loading
<1>4. ASSUME NEW u \in Threads, Closes(u, FileOf[tok]) PROVE FALSE
  <2>1. u = t
    BY <1>2, <1>4, OneWrites DEF Closes
  <2>. QED BY <1>4, <2>1, WriteEnds DEF Closes, Writing
<1>. QED BY <1>3, <1>4 DEF Settles, StartsOver, Installs, Loading

\* What a walk has seen are values, or their absence.
LEMMA PastFits ==
  ASSUME Inv, Inv', MemoryKept, Next, Record, NEW t \in Threads, Writing(t)', NEW k \in Keys
  PROVE  past'[t][k] \subseteq Anything
<1>1. job'[t] = job[t] /\ (Writing(t) \/ pc[t] = "snapKeys")
  BY WritingGoesOn
<1>2. past[t][k] \subseteq Anything
  BY <1>1 DEF MemoryKept, Walking
<1>3. store'[job[t].tok][k] \in Anything /\ pc'[t] \in Walking
  <2>1. job'[t] # Null /\ job'[t] \in Request \cup {Null}
    BY DEF Writing, Inv, ThreadTypeOK, Fits, JobFits
  <2>2. job[t].tok \in Tokens
    BY <1>1, <2>1, RequestFacts
  <2>. QED BY <2>2 DEF Inv, KVTypeOK, Contents, Anything, Writing, Walking
<1>. QED BY <1>2, <1>3 DEF Record, PastOf

\* What a walk has seen stays late enough until it is written.
LEMMA PastStep ==
  ASSUME Inv, Inv', MemoryKept, Next, Record, NEW t \in Threads, Writing(t)',
         job'[t].tok \notin adrift'
  PROVE  Late(t)'
<1>1. job'[t] = job[t] /\ (Writing(t) \/ pc[t] = "snapKeys") /\ mgr' = t
  BY WritingGoesOn
<1>2. job'[t] # Null /\ job'[t].tok \in Tokens /\ pc'[t] \in Walking
  <2>1. job'[t] # Null /\ job'[t] \in Request \cup {Null}
    BY DEF Writing, Inv, ThreadTypeOK, Fits, JobFits
  <2>. QED BY <2>1, RequestFacts DEF Writing, Walking
<1> DEFINE tok == job[t].tok
<1>3. tok \in Tokens /\ tok \notin adrift /\ tok \notin adrift'
  <2>1. tok \in Tokens /\ tok \notin adrift'
    BY <1>1, <1>2
  <2>2. ~Settles(tok)
    BY <2>1, WritingUnsettled
  <2>. QED BY <2>1, <2>2 DEF Record
<1>4. \A u \in Threads, k \in Keys : ~Acknowledges(u, tok, k) /\ ~StartsOver(u, tok)
  BY <1>1, <1>3, WritingUnsettled, AcknowledgedAtWrite, StoreAssumption
<1>5. ASSUME NEW k \in Keys
      PROVE  kept[tok][k] \subseteq kept'[tok][k] /\ store'[tok][k] \in kept'[tok][k]
  BY <1>3, <1>4, KeptGrows, KeptStep DEF WillHold
<1>6. ASSUME Changing(t)'
      PROVE  /\ since[t] \subseteq since'[t] /\ store'[tok][job[t].key] \in since'[t]
             /\ Writing(t) => Changing(t)
  <2>1. since[t] \subseteq since'[t]
    BY <1>6 DEF Record, SinceOf
  <2>2. store'[tok][job[t].key] \in since'[t]
    BY <1>1, <1>3, <1>6, SinceStep DEF WillHold
  <2>. QED BY <1>1, <1>6, <2>1, <2>2 DEF Changing, Writing
<1>7. \A k \in Keys : past'[t][k] \subseteq past[t][k] \cup {store'[tok][k]}
  BY <1>2, PastGrows
<1>8. CASE Writing(t)
  <2>1. Late(t)
    BY <1>3, <1>8 DEF MemoryKept
  <2>. QED BY <1>1, <1>5, <1>6, <1>7, <1>8, <2>1 DEF Late
<1>9. CASE ~Writing(t)
  <2>1. \A k \in Keys : past[t][k] = {}
    BY <1>1, <1>9 DEF MemoryKept, Walking
  <2>. QED BY <1>1, <1>5, <1>6, <1>7, <2>1 DEF Late
<1>. QED BY <1>8, <1>9

\* A store that is being loaded is adrift.
LEMMA AdriftStep ==
  ASSUME Inv', Record, NEW t \in Threads, Loading(t)'
  PROVE  job'[t].tok \in adrift'
<1>1. job'[t].tok \in Tokens
  <2>1. job'[t] # Null /\ job'[t] \in Request \cup {Null}
    BY DEF Loading, Inv, ThreadTypeOK, Fits, JobFits
  <2>. QED BY <2>1, RequestFacts
<1>. QED BY <1>1 DEF Record, Emptied

\* Memory.
LEMMA MemoryStep ==
  ASSUME Inv, MemoryKept, Next, Record
  PROVE  MemoryKept'
<1>1. Inv'
  BY NextInv
<1>2. ASSUME NEW tok \in Tokens, NEW k \in Keys
      PROVE  kept'[tok][k] \subseteq Anything /\ Holds(tok, k, kept[tok][k])'
  BY <1>1, KeptStep DEF WillHold, Holds
<1>3. ASSUME NEW t \in Threads
      PROVE  /\ Loading(t)' => job'[t].tok \in adrift'
             /\ Changing(t)' => Holds(job[t].tok, job[t].key, since[t])'
             /\ \A k \in Keys :
                  /\ pc'[t] \notin Walking => past'[t][k] = {}
                  /\ Writing(t)' => past'[t][k] \subseteq Anything
             /\ Writing(t)' /\ job'[t].tok \notin adrift' => Late(t)'
  <2>1. Loading(t)' => job'[t].tok \in adrift'
    BY <1>1, AdriftStep
  <2>2. ASSUME Changing(t)' PROVE Holds(job[t].tok, job[t].key, since[t])'
    <3>1. WillHold(job'[t].tok, job'[t].key, since'[t])
      BY <2>2, SinceStep
    <3>. QED BY <3>1 DEF WillHold, Holds
  <2>3. ASSUME NEW k \in Keys, pc'[t] \notin Walking PROVE past'[t][k] = {}
    BY <2>3 DEF Record, PastOf
  <2>4. Writing(t)' /\ job'[t].tok \notin adrift' => Late(t)'
    BY <1>1, PastStep
  <2>5. ASSUME NEW k \in Keys, Writing(t)' PROVE past'[t][k] \subseteq Anything
    BY <1>1, <2>5, PastFits
  <2>. QED BY <2>1, <2>2, <2>3, <2>4, <2>5
<1>. QED BY <1>2, <1>3 DEF MemoryKept

\* Only a thread that writes a file, or opens it to write it, changes it.
LEMMA FileMoves ==
  ASSUME Inv, Next, NEW f \in Files,
         \A t \in Threads : pc[t] = "write" => Target(t) # f,
         \A t \in Threads : pc'[t] = "write" => Target(t)' # f
  PROVE  disk'[f] = disk[f]
<1>. USE DEF Inv, ManagerTypeOK
<1>1. CASE Restart
  BY <1>1 DEF Restart, mgrVars
<1>2. CASE Dies
  BY <1>2 DEF Dies
<1>3. ASSUME NEW t \in Threads, Serve(t) PROVE disk'[f] = disk[f]
  <2>1. CASE Select(t) \/ Disconnect(t) \/ Receive(t) \/ Reply(t)
    BY <2>1 DEF Select, Disconnect, Receive, Reply, mgrVars
  <2>2. CASE GetStore(t, Entry(job[t].op))
    BY <2>2 DEF GetStore
  <2>3. CASE \/ GetKey(t) \/ GetRead(t) \/ PutKey(t) \/ EraseKey(t) \/ CheckAutosave(t)
             \/ TurnAutosave(t) \/ ListKeys(t) \/ Answer(t) \/ Snapshot(t)
    BY <2>3 DEF GetKey, GetRead, PutKey, EraseKey, CheckAutosave, TurnAutosave, ListKeys, Answer,
                Snapshot, SnapKeys, SnapGet, SnapRead, SnapFlag, mgrVars
  <2>4. CASE Load(t)
    BY <2>4 DEF Load, LoadLock, LoadMissing, LoadUnreadable, LoadKeys, LoadClear, LoadParse, LoadPut,
                LoadThrows, LoadFlag, mgrVars
  <2>5. CASE SaveLock(t) \/ OpenFails(t) \/ WriteFile(t) \/ WriteShort(t)
    BY <2>5 DEF SaveLock, OpenFails, WriteFile, WriteShort
  <2>6. CASE OpenFile(t)
    <3>1. pc'[t] = "write" /\ Target(t)' = Target(t)
      BY <2>6 DEF OpenFile, Goto, ThreadTypeOK, Target
    <3>. QED BY <2>6, <3>1 DEF OpenFile
  <2>. QED BY <1>3, <2>1, <2>2, <2>3, <2>4, <2>5, <2>6 DEF Serve, Command, Save
<1>. QED BY <1>1, <1>2, <1>3 DEF Next, Abort, SetAborts, FreedReadAborts, Kill

\* A write that ends leaves a file.
LEMMA WriteLeaves ==
  ASSUME Inv, Next, NEW t \in Threads, pc[t] = "write", pc'[t] # "write"
  PROVE  disk'[Target(t)] \in FileImage
<1>1. Target(t) \in Files /\ image[t] \in FileImage
  BY FileFacts, JobFacts DEF Inv, ThreadTypeOK, Fits, DataFits
<1>2. Cuts(image[t]) \subseteq FileImage
  BY <1>1, FileFacts
<1>. USE DEF Inv, ManagerTypeOK
<1>3. ASSUME Serve(t) PROVE disk'[Target(t)] \in FileImage
  <2>1. WriteFile(t) \/ WriteShort(t)
    BY <1>3
    DEF Serve, Select, Disconnect, Receive, Reply, Command, GetStore, GetKey, GetRead,
        PutKey, EraseKey, CheckAutosave, TurnAutosave, ListKeys, Answer, Snapshot, SnapKeys, SnapGet,
        SnapRead, SnapFlag, Save, SaveLock, OpenFile, OpenFails, Load, LoadLock,
        LoadMissing, LoadUnreadable, LoadKeys, LoadClear, LoadParse, LoadPut, LoadThrows, LoadFlag
  <2>. QED BY <1>1, <1>2, <2>1 DEF WriteFile, WriteShort
<1>4. ASSUME NEW u \in Threads, Serve(u), u # t PROVE FALSE
  BY <1>4, StepKeepsOthers DEF OthersKept
<1>5. CASE Restart
  BY <1>5 DEF Restart, threadVars
<1>6. CASE Dies
  <2>1. mgr = t
    BY OneWrites
  <2>. QED BY <1>1, <1>2, <1>6, <2>1, StoreAssumption DEF Dies
<1>. QED BY <1>3, <1>4, <1>5, <1>6 DEF Next, Abort, SetAborts, FreedReadAborts, Kill

\* A write goes on in the same file.
LEMMA WriteGoesOn ==
  ASSUME Inv, Next, NEW t \in Threads, pc[t] = "write", pc'[t] = "write"
  PROVE  Target(t)' = Target(t)
<1>1. job'[t] = job[t]
  BY WritingGoesOn, NextInv DEF Writing, Inv, Fits, JobFits, Saving
<1>. QED BY <1>1 DEF Target

\* No two stores are saved in one file.
FilesApart == \A a, b \in Tokens : FileOf[a] = FileOf[b] => a = b

\* A write that ends leaves what has been acknowledged, or later.
LEMMA WriteKeeps ==
  ASSUME FilesApart, KInv, SavesOwnFile, Next, Record,
         NEW t \in Threads, pc[t] = "write", pc'[t] # "write",
         NEW tok \in Tokens, Target(t) = FileOf[tok], NEW k \in Keys
  PROVE  disk'[FileOf[tok]] # NoFile /\ disk'[FileOf[tok]].map[k] \in kept'[tok][k]
<1>. USE DEF KInv
<1>1. disk'[FileOf[tok]] \in FileImage
  BY WriteLeaves
<1>2. disk'[FileOf[tok]] # NoFile /\ disk'[FileOf[tok]].map[k] \in Anything
  BY <1>1, AbsenceAssumption DEF FileImage, Contents, Anything
<1>3. kept'[tok][k] = KeptOf(tok, k)
  BY DEF Record
<1>4. CASE CutShort(FileOf[tok])
  BY <1>2, <1>3, <1>4 DEF KeptOf
<1>5. PICK m \in past[t][k] : m = image[t].map[k]
  BY DEF WalkSeen, Seen
<1>6. CASE ~CutShort(FileOf[tok]) /\ tok \in adrift
  <2>1. disk'[FileOf[tok]] = image[t]
    BY <1>6 DEF CutShort, Closes
  <2>2. StartsOver(t, tok)
    BY <1>6 DEF StartsOver, Closes
  <2>. QED BY <1>2, <1>3, <1>5, <1>6, <2>1, <2>2 DEF KeptOf
<1>7. CASE ~CutShort(FileOf[tok]) /\ tok \notin adrift
  <2>1. disk'[FileOf[tok]] = image[t]
    BY <1>7 DEF CutShort, Closes
  <2>2. job[t].op \in Saving /\ job[t].tok \in Tokens /\ job[t] # Null
    BY JobFacts DEF Inv, Fits, JobFits
  <2>3. job[t].tok = tok
    BY <2>2 DEF Target, SavesOwnFile, Saving, FilesApart
  <2>4. Late(t)
    BY <1>7, <2>2, <2>3 DEF MemoryKept, Writing, Saving
  <2>5. image[t].map[k] \in kept[tok][k]
    BY <1>5, <2>3, <2>4 DEF Late
  <2>6. ASSUME NEW u \in Threads, Acknowledges(u, tok, k) PROVE image[t].map[k] \in since[u]
    <3>1. u = t
      BY <2>6, AcknowledgedAtWrite, OneWrites
    <3>. QED BY <1>5, <2>4, <2>6, <3>1 DEF Late, Acknowledges
  <2>7. \A u \in Threads : ~StartsOver(u, tok)
    BY <1>7 DEF StartsOver
  <2>. QED BY <1>2, <1>3, <1>7, <2>1, <2>5, <2>6, <2>7 DEF KeptOf
<1>. QED BY <1>4, <1>6, <1>7

\* Files.
LEMMA FilesStep ==
  ASSUME FilesApart, KInv, SavesOwnFile, Next, Record
  PROVE  FilesKept'
<1>. USE DEF KInv
<1>1. Inv' /\ MemoryKept'
  BY NextInv, MemoryStep
<1>2. ASSUME NEW tok \in Tokens, NEW k \in Keys,
             \A t \in Threads : pc'[t] = "write" => Target(t)' # FileOf[tok]
      PROVE  \/ disk'[FileOf[tok]] = NoFile /\ kept'[tok][k] = Anything
             \/ disk'[FileOf[tok]] # NoFile /\ disk'[FileOf[tok]].map[k] \in kept'[tok][k]
  <2>1. CASE \E t \in Threads : pc[t] = "write" /\ Target(t) = FileOf[tok]
    <3>1. PICK t \in Threads : pc[t] = "write" /\ Target(t) = FileOf[tok]
      BY <2>1
    <3>2. pc'[t] # "write"
      BY <1>2, <3>1, WriteGoesOn
    <3>. QED BY <3>1, <3>2, WriteKeeps
  <2>2. CASE \A t \in Threads : pc[t] = "write" => Target(t) # FileOf[tok]
    <3>1. FileOf[tok] \in Files
      BY ManagerAssumption
    <3>2. disk'[FileOf[tok]] = disk[FileOf[tok]]
      BY <1>2, <2>2, <3>1, FileMoves
    <3>3. ASSUME NEW t \in Threads, Acknowledges(t, tok, k) PROVE FALSE
      <4>1. pc[t] = "write"
        BY <3>3, AcknowledgedAtWrite
      <4>2. job[t].tok = tok /\ job[t].op \in {"SET", "DELETE"}
        BY <3>3 DEF Acknowledges, Changing
      <4>. QED BY <2>2, <4>1, <4>2 DEF Target
    <3>4. kept[tok][k] \subseteq kept'[tok][k]
      BY <2>2, <3>3, KeptGrows DEF StartsOver, Closes
    <3>5. kept'[tok][k] \subseteq Anything
      BY <1>1, KeptStep
    <3>. QED BY <2>2, <3>2, <3>4, <3>5 DEF FilesKept
  <2>. QED BY <2>1, <2>2
<1>. QED BY <1>2 DEF FilesKept

\* Every step keeps what may be written, in memory and in the files.
LEMMA StepKeepsAcknowledged ==
  ASSUME FilesApart, "freed" \notin Faults, KInv, SavesOwnFile, [HNext]_<<vars, histVars>>
  PROVE  KInv'
<1>1. Inv' /\ \A t \in Threads : WalkSeen(t)'
  BY NextInv, StepKeepsWalks DEF KInv, HNext
<1>2. CASE UNCHANGED <<vars, histVars>>
  BY <1>1, <1>2
  DEF KInv, vars, histVars, kvVars, mgrVars, threadVars, MemoryKept, FilesKept, Holds, Loading, Changing,
      Writing, Late, Target
<1>3. CASE HNext
  BY <1>1, <1>3, MemoryStep, FilesStep DEF KInv, HNext
<1>. QED BY <1>2, <1>3

\* At the start nothing is kept but everything.
LEMMA InitKInv == HInit => KInv
<1>1. HInit => Inv
  BY InitInv DEF HInit
<1>2. HInit => \A t \in Threads : WalkSeen(t)
  BY DEF HInit, Init, ManagerInit, WalkSeen, Plain
<1>3. HInit => MemoryKept /\ FilesKept
  BY ManagerAssumption
  DEF HInit, Init, ManagerInit, MemoryKept, FilesKept, Holds, Loading, Changing, Writing
<1>. QED BY <1>1, <1>2, <1>3 DEF KInv

\* What the server has acknowledged is in the file, or what the key was given later,
\* for any number of clients that change, save and load the stores meanwhile, when
\* LOADs fail half way, files cannot be opened and the process is killed or ends at
\* any moment: until a write of the file is itself cut short, or somebody saves the
\* store while it is adrift, before he has loaded it in a new process or after a
\* LOAD that failed, and so replaces what was acknowledged by what he finds.  As long
\* as no two stores have one file, SAVE names the file of its own store, and memory
\* that was freed is not reused.
THEOREM AcknowledgedSurvives ==
  ASSUME FilesApart, "freed" \notin Faults
  PROVE  HSpec /\ []SavesOwnFile => []AcknowledgedKept
<1>1. HInit => KInv
  BY InitKInv
<1>2. KInv /\ SavesOwnFile /\ [HNext]_<<vars, histVars>> => KInv'
  BY StepKeepsAcknowledged
<1>3. KInv => AcknowledgedKept
  BY DEF KInv, FilesKept, AcknowledgedKept
<1>. QED BY <1>1, <1>2, <1>3, PTL DEF HSpec

-----------------------------------------------------------------------------
(* What comes back.                                                        *)

\* A thread that loads has read of each key what was kept when it took the mutex,
\* whichever store the file is that of.
DueRead ==
  \A t \in Threads, tok \in Tokens :
    Loading(t) /\ Target(t) = FileOf[tok] =>
      \A k \in Keys : image[t].map[k] \in due[t][tok][k]

\* Thread t goes on loading with the text it has read.
GoesOn(t) ==
  Loading(t)' => Loading(t) /\ job'[t] = job[t] /\ image'[t] = image[t]

\* What it has read is then still what was kept.
LEMMA DueStays ==
  ASSUME DueRead, Record, NEW t \in Threads, GoesOn(t), NEW tok \in Tokens,
         Loading(t)', Target(t)' = FileOf[tok], NEW k \in Keys
  PROVE  image'[t].map[k] \in due'[t][tok][k]
<1>1. Loading(t) /\ image'[t] = image[t] /\ Target(t) = FileOf[tok]
  BY DEF GoesOn, Target
<1>2. due'[t] = due[t]
  BY <1>1 DEF Record, DueOf
<1>. QED BY <1>1, <1>2 DEF DueRead

\* A file that is read is one that nobody is writing.
LEMMA DueBegins ==
  ASSUME KInv, Record, NEW t \in Threads, LoadLock(t), NEW tok \in Tokens,
         Target(t)' = FileOf[tok], NEW k \in Keys
  PROVE  image'[t].map[k] \in due'[t][tok][k]
<1>. USE DEF KInv, Inv, ThreadTypeOK
<1>1. /\ job' = job /\ image'[t] = disk[Target(t)]
      /\ pc[t] = "loadLock" /\ pc'[t] = "loadKeys"
  BY DEF LoadLock, Goto
<1>2. Target(t) = FileOf[tok]
  BY <1>1 DEF Target
<1>3. \A u \in Threads : pc[u] # "write"
  BY OneWrites, StoreAssumption DEF LoadLock
<1>4. disk[FileOf[tok]].map[k] \in kept[tok][k]
  BY <1>2, <1>3 DEF LoadLock, FilesKept
<1>5. due'[t] = kept
  BY <1>1 DEF Record, DueOf, Loading
<1>. QED BY <1>1, <1>2, <1>4, <1>5

\* All other steps of a thread go on with a text, or have none.
LEMMA ThreadGoesOn ==
  ASSUME Inv, NEW t \in Threads, Serve(t), ~LoadLock(t)
  PROVE  GoesOn(t)
<1>. USE DEF Inv, ThreadTypeOK, Goto, Finish, Loading, GoesOn
<1>1. CASE Select(t) \/ Disconnect(t) \/ Receive(t) \/ Reply(t)
  BY <1>1 DEF Select, Disconnect, Receive, Reply, threadVars
<1>2. CASE GetStore(t, Entry(job[t].op))
  <2>1. job[t].op \in AllOps
    BY <1>2, JobFacts DEF GetStore
  <2>. QED BY <1>2, <2>1 DEF GetStore, Entry, AllOps
<1>3. CASE \/ GetKey(t) \/ GetRead(t) \/ PutKey(t) \/ EraseKey(t) \/ CheckAutosave(t)
           \/ TurnAutosave(t) \/ ListKeys(t) \/ Answer(t)
  BY <1>3 DEF GetKey, GetRead, PutKey, EraseKey, CheckAutosave, TurnAutosave, ListKeys, Answer
<1>4. CASE Snapshot(t) \/ Save(t)
  BY <1>4 DEF Snapshot, SnapKeys, SnapGet, SnapRead, SnapFlag, Save, SaveLock, OpenFile, OpenFails,
              WriteFile, WriteShort
<1>5. CASE Load(t)
  BY <1>5 DEF Load, LoadMissing, LoadUnreadable, LoadKeys, LoadClear, LoadParse, LoadPut, LoadThrows,
              LoadFlag
<1>. QED BY <1>1, <1>2, <1>3, <1>4, <1>5 DEF Serve, Command

\* Every step keeps what loads have read.
LEMMA StepKeepsDue ==
  ASSUME KInv, DueRead, [HNext]_<<vars, histVars>>
  PROVE  DueRead'
<1>. USE DEF KInv
<1>1. CASE UNCHANGED <<vars, histVars>>
  BY <1>1 DEF vars, histVars, mgrVars, threadVars, DueRead, Loading, Target
<1>2. CASE HNext
  <2>. USE DEF HNext
  <2>1. ASSUME NEW t \in Threads, GoesOn(t) \/ LoadLock(t), NEW tok \in Tokens,
               Loading(t)', Target(t)' = FileOf[tok], NEW k \in Keys
        PROVE  image'[t].map[k] \in due'[t][tok][k]
    BY <1>2, <2>1, DueStays, DueBegins
  <2>2. ASSUME NEW t \in Threads PROVE GoesOn(t) \/ LoadLock(t)
    <3>1. CASE Restart
      BY <3>1 DEF Restart, threadVars, GoesOn, Loading
    <3>2. CASE Dies
      BY <3>2 DEF Dies, GoesOn, Loading
    <3>3. ASSUME NEW u \in Threads, Serve(u) PROVE GoesOn(t) \/ LoadLock(t)
      <4>1. CASE u = t
        BY <3>3, <4>1, ThreadGoesOn
      <4>2. CASE u # t
        BY <3>3, <4>2, StepKeepsOthers DEF OthersKept, GoesOn, Loading
      <4>. QED BY <4>1, <4>2
    <3>. QED BY <1>2, <3>1, <3>2, <3>3 DEF Next, Abort, SetAborts, FreedReadAborts, Kill
  <2>. QED BY <2>1, <2>2 DEF DueRead
<1>. QED BY <1>1, <1>2

\* What has been acknowledged comes back: the store that a LOAD of a store's file
\* has filled has each key that nobody else changes meanwhile as the last change of
\* it that was acknowledged and to be saved has left it, or as it was given later,
\* for any number of clients, through kills and aborts, files that cannot be opened
\* and LOADs that fail half way; with the two exceptions and under the conditions of
\* AcknowledgedSurvives.
THEOREM AcknowledgedReturns ==
  ASSUME FilesApart, "freed" \notin Faults
  PROVE  HSpec /\ []SavesOwnFile => []LoadRestores
<1>1. HInit => KInv
  BY InitKInv
<1>2. KInv /\ SavesOwnFile /\ [HNext]_<<vars, histVars>> => KInv'
  BY StepKeepsAcknowledged
<1>3. HInit => DueRead
  BY DEF HInit, Init, ManagerInit, DueRead, Loading
<1>4. KInv /\ DueRead /\ [HNext]_<<vars, histVars>> => DueRead'
  BY StepKeepsDue
<1>5. DueRead /\ LoadInstallsFile => LoadRestores
  BY DEF DueRead, LoadInstallsFile, LoadRestores, Loading
<1>. QED BY <1>1, <1>2, <1>3, <1>4, <1>5, LoadsInstall, PTL DEF HSpec

=============================================================================
