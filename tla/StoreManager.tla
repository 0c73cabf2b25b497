---------------------------- MODULE StoreManager ----------------------------
(***************************************************************************)
(* kvstore::StoreManager and the PersistenceManager it drives: the map of  *)
(* stores under StoreManager::mutex_, and saveStore/loadStore, which hold  *)
(* that mutex from beginning to end while they walk the store one locked   *)
(* operation at a time and touch the file.                                 *)
(*                                                                         *)
(* A thread's position is pc[t]; a front end (module TCPServer, module     *)
(* CLI) puts a command in job[t], drives pc[t] to the first step of one    *)
(* of the procedures below and takes over again at "done".                 *)
(*                                                                         *)
(* A file is what parsing its JSON gives: the entries, and the autosave    *)
(* field, which save() writes last.                                        *)
(***************************************************************************)
EXTENDS KeyValueStore

CONSTANTS
  Files,      \* paths under store/
  FileOf,     \* FileOf[tok]: the path saveStore makes of tok + ".json"
  Reloaded,   \* Reloaded[v]: what writing v as JSON and parsing it gives
  NoFile,     \* the file does not exist
  Faults      \* which failures of the environment may occur:
              \*   "kill"   the process is killed (and started again)
              \*   "io"     a file cannot be opened, or the disk is full
              \*   "freed"  memory freed under a reader is reused or unmapped

ASSUME ManagerAssumption ==
  /\ FileOf \in [Tokens -> Files]
  /\ Reloaded \in [Values -> Values]
  /\ Faults \subseteq {"kill", "io", "freed"}

VARIABLES
  known,      \* tokens that have a store in stores_
  mgr,        \* the thread that holds StoreManager::mutex_, or Null
  disk,       \* disk[f]: contents of file f, or NoFile
  pc,         \* pc[t]: the step thread t takes next
  job,        \* job[t]: the command thread t runs, or Null
  todo,       \* todo[t]: keys a loop of thread t has still to visit
  image,      \* image[t]: JSON text being assembled or parsed, or Null
  res         \* res[t]: the response so far, or Null

threadVars == <<pc, job, todo, image, res>>
mgrVars == <<known, mgr, disk>>

-----------------------------------------------------------------------------
\* Commands and responses.
Request ==
  [op: {"GET", "DELETE"}, tok: Tokens, key: Keys]
    \cup [op: {"SET"}, tok: Tokens, key: Keys, val: Values]
    \cup [op: {"AUTOSAVE"}, tok: Tokens, on: BOOLEAN]
    \cup [op: {"SAVE", "LOAD"}, tok: Tokens, file: Files]
    \cup [op: {"KEYS", "JSON", "OTHER", "QUIT"}, tok: Tokens]

FileImage == [map: Contents, autosave: {"true", "false", "missing"}]

Response ==
  {<<"OK">>, <<"NOT_FOUND">>, <<"ERROR">>}
    \cup {<<"VALUE", v>> : v \in Values}
    \cup {<<"KEYS", S>> : S \in SUBSET Keys}
    \cup {<<"JSON", i>> : i \in FileImage}

ASSUME AbsenceAssumption ==
  Null \notin Request \cup FileImage \cup Response /\ NoFile \notin FileImage

\* A file that was opened for writing and holds nothing yet, and the JSON
\* text before its first entry.
Blank == [map |-> EmptyStore, autosave |-> "missing"]

FlagText(on) == IF on THEN "true" ELSE "false"

\* The file a save or load of thread t names: SAVE and LOAD say it, the
\* autosaves use the token.
Target(t) == IF job[t].op \in {"SAVE", "LOAD"} THEN job[t].file
             ELSE FileOf[job[t].tok]

Goto(t, label) == pc' = [pc EXCEPT ![t] = label]

\* The command of thread t is over with response r, unless an earlier step
\* (DELETE of a missing key) has fixed the response.
Finish(t, r) ==
  /\ Goto(t, "done")
  /\ res' = [res EXCEPT ![t] = r]
  /\ todo' = [todo EXCEPT ![t] = {}]
  /\ image' = [image EXCEPT ![t] = Null]
  /\ UNCHANGED job

Settled(t) == IF res[t] = Null THEN <<"OK">> ELSE res[t]

\* Dereference of the pointer thread t holds, after mtx_ was released.  If
\* the object has been freed meanwhile the read is undefined: the old value,
\* any other, or (module TCPServer, FreedReadAborts) no value at all.
Dereferenced(t) ==
  IF ptr[t].live \/ "freed" \notin Faults THEN {ptr[t].val} ELSE Values

-----------------------------------------------------------------------------
\* Mutated: find() in place of operator[].
GetStoreCreatesNone(t, next) ==
  /\ pc[t] = "getStore"
  /\ mgr = Null
  /\ Goto(t, next)
  /\ UNCHANGED <<kvVars, known, mgr, disk, job, todo, image, res>>

(* getStore(): takes mutex_, creates the store if there is none.           *)
GetStore(t, next) ==
  /\ pc[t] = "getStore"
  /\ mgr = Null
  /\ known' = known \cup {job[t].tok}
  /\ Goto(t, next)
  /\ UNCHANGED <<kvVars, mgr, disk, job, todo, image, res>>

-----------------------------------------------------------------------------
(* PersistenceManager::save() and the JSON command read the store the same *)
(* way: keys(), get() and a dereference for each key, getAutosave().       *)
\* Mutated: a save adds to what the file holds.
SnapKeysOverFile(t) ==
  /\ pc[t] = "snapKeys"
  /\ todo' = [todo EXCEPT ![t] = Present(store[job[t].tok])]
  /\ image' = [image EXCEPT ![t] = IF disk[Target(t)] = NoFile THEN Blank ELSE disk[Target(t)]]
  /\ Goto(t, "snapGet")
  /\ UNCHANGED <<kvVars, mgrVars, job, res>>

SnapKeys(t) ==
  /\ pc[t] = "snapKeys"
  /\ todo' = [todo EXCEPT ![t] = Present(store[job[t].tok])]
  /\ image' = [image EXCEPT ![t] = Blank]
  /\ Goto(t, "snapGet")
  /\ UNCHANGED <<kvVars, mgrVars, job, res>>

\* Mutated: the loop does not step over a key that has gone.
SnapGetAgain(t) ==
  /\ pc[t] = "snapGet"
  /\ \E k \in todo[t] :
       /\ Get(t, job[t].tok, k)
       /\ IF store[job[t].tok][k] = Absent THEN UNCHANGED <<todo, pc>>
          ELSE /\ todo' = [todo EXCEPT ![t] = @ \ {k}]
               /\ Goto(t, "snapRead")
  /\ UNCHANGED <<mgrVars, job, image, res>>

\* A key that has been deleted since keys() gives no pointer and is skipped.
SnapGet(t) ==
  /\ pc[t] = "snapGet"
  /\ \E k \in todo[t] :
       /\ Get(t, job[t].tok, k)
       /\ todo' = [todo EXCEPT ![t] = @ \ {k}]
       /\ Goto(t, IF store[job[t].tok][k] = Absent THEN "snapGet" ELSE "snapRead")
  /\ UNCHANGED <<mgrVars, job, image, res>>

SnapRead(t) ==
  /\ pc[t] = "snapRead"
  /\ \E v \in Dereferenced(t) :
       image' = [image EXCEPT ![t].map[ptr[t].key] = v]
  /\ DropPointer(t)
  /\ Goto(t, "snapGet")
  /\ UNCHANGED <<mgrVars, job, todo, res>>

\* The autosave field is read last; JSON answers, save() goes on to the file.
SnapFlag(t) ==
  LET whole == [image[t] EXCEPT !.autosave = FlagText(autosave[job[t].tok])]
  IN  /\ pc[t] = "snapGet"
      /\ todo[t] = {}
      /\ IF job[t].op = "JSON"
         THEN Finish(t, <<"JSON", whole>>)
         ELSE /\ image' = [image EXCEPT ![t] = whole]
              /\ Goto(t, "open")
              /\ UNCHANGED <<job, todo, res>>
      /\ UNCHANGED <<kvVars, mgrVars>>

-----------------------------------------------------------------------------
(* saveStore(): mutex_ is held until the file is closed.                   *)
SaveLock(t) ==
  /\ pc[t] = "saveLock"
  /\ mgr = Null
  /\ job[t].tok \in known
  /\ mgr' = t
  /\ Goto(t, "snapKeys")
  /\ UNCHANGED <<kvVars, known, disk, job, todo, image, res>>

\* Mutated: the mutex covers the walk but not the file.
OpenFileUnlocked(t) ==
  /\ pc[t] = "open"
  /\ disk' = [disk EXCEPT ![Target(t)] = Blank]
  /\ mgr' = Null
  /\ Goto(t, "write")
  /\ UNCHANGED <<kvVars, known, job, todo, image, res>>

\* std::ofstream truncates the file when it opens it.
OpenFile(t) ==
  /\ pc[t] = "open"
  /\ disk' = [disk EXCEPT ![Target(t)] = Blank]
  /\ Goto(t, "write")
  /\ UNCHANGED <<kvVars, known, mgr, job, todo, image, res>>

\* Mutated: unlock() is not reached when the file cannot be opened.
OpenFailsLocked(t) ==
  /\ "io" \in Faults
  /\ pc[t] = "open"
  /\ Finish(t, <<"ERROR">>)
  /\ UNCHANGED <<kvVars, mgrVars>>

\* It cannot be opened: the exception unwinds saveStore, the command says so.
OpenFails(t) ==
  /\ "io" \in Faults
  /\ pc[t] = "open"
  /\ mgr' = Null
  /\ Finish(t, <<"ERROR">>)
  /\ UNCHANGED <<kvVars, known, disk>>

WriteFile(t) ==
  /\ pc[t] = "write"
  /\ disk' = [disk EXCEPT ![Target(t)] = image[t]]
  /\ mgr' = Null
  /\ Finish(t, Settled(t))
  /\ UNCHANGED <<kvVars, known>>

\* What a prefix of the text holds: some entries and no autosave field, or
\* all of them and a piece of the field, which is read as false.
Cuts(i) ==
  {[map |-> [k \in Keys |-> IF k \in S THEN i.map[k] ELSE Absent],
    autosave |-> "missing"] : S \in SUBSET Present(i.map)}
    \cup {[i EXCEPT !.autosave = "false"]}

\* The disk is full: writeFile never looks at the stream after the <<.
WriteShort(t) ==
  /\ "io" \in Faults
  /\ pc[t] = "write"
  /\ \E part \in Cuts(image[t]) : disk' = [disk EXCEPT ![Target(t)] = part]
  /\ mgr' = Null
  /\ Finish(t, Settled(t))
  /\ UNCHANGED <<kvVars, known>>

-----------------------------------------------------------------------------
(* loadStore(): mutex_ is held while the store is emptied and refilled.    *)

\* The file is read whole before the store is touched.
LoadLock(t) ==
  /\ pc[t] = "loadLock"
  /\ mgr = Null
  /\ known' = known \cup {job[t].tok}
  /\ disk[Target(t)] # NoFile
  /\ mgr' = t
  /\ image' = [image EXCEPT ![t] = disk[Target(t)]]
  /\ Goto(t, "loadKeys")
  /\ UNCHANGED <<kvVars, disk, job, todo, res>>

\* No such file: load() returns and the command succeeds.
LoadMissing(t) ==
  /\ pc[t] = "loadLock"
  /\ mgr = Null
  /\ known' = known \cup {job[t].tok}
  /\ disk[Target(t)] = NoFile
  /\ Finish(t, <<"OK">>)
  /\ UNCHANGED <<kvVars, mgr, disk>>

LoadUnreadable(t) ==
  /\ "io" \in Faults
  /\ pc[t] = "loadLock"
  /\ mgr = Null
  /\ known' = known \cup {job[t].tok}
  /\ disk[Target(t)] # NoFile
  /\ Finish(t, <<"ERROR">>)
  /\ UNCHANGED <<kvVars, mgr, disk>>

\* Mutated: the file is merged into the store.
LoadKeysNone(t) ==
  /\ pc[t] = "loadKeys"
  /\ todo' = [todo EXCEPT ![t] = {}]
  /\ Goto(t, "loadClear")
  /\ UNCHANGED <<kvVars, mgrVars, job, image, res>>

LoadKeys(t) ==
  /\ pc[t] = "loadKeys"
  /\ todo' = [todo EXCEPT ![t] = Present(store[job[t].tok])]
  /\ Goto(t, "loadClear")
  /\ UNCHANGED <<kvVars, mgrVars, job, image, res>>

\* Mutated: keys() is asked again after each key.
LoadClearAgain(t) ==
  /\ pc[t] = "loadClear"
  /\ \E k \in todo[t] :
       /\ DeleteKey(job[t].tok, k)
       /\ todo' = [todo EXCEPT ![t] = Present(store[job[t].tok]) \ {k}]
  /\ UNCHANGED <<mgrVars, pc, job, image, res>>

LoadClear(t) ==
  /\ pc[t] = "loadClear"
  /\ \E k \in todo[t] :
       /\ DeleteKey(job[t].tok, k)
       /\ todo' = [todo EXCEPT ![t] = @ \ {k}]
  /\ UNCHANGED <<mgrVars, pc, job, image, res>>

LoadParse(t) ==
  /\ pc[t] = "loadClear"
  /\ todo[t] = {}
  /\ todo' = [todo EXCEPT ![t] = Present(image[t].map)]
  /\ Goto(t, "loadPut")
  /\ UNCHANGED <<kvVars, mgrVars, job, image, res>>

\* jsonToValueObject and put() of one entry.  The order of the entries in
\* the file is that of an unordered_map, so any entry may come next.
LoadPut(t) ==
  /\ pc[t] = "loadPut"
  /\ \E k \in todo[t] :
       /\ Put(job[t].tok, k, Reloaded[image[t].map[k]])
       /\ todo' = [todo EXCEPT ![t] = @ \ {k}]
  /\ UNCHANGED <<mgrVars, pc, job, image, res>>

\* An entry of another type than the registered one: load() gives up, with
\* the store already emptied and some entries loaded.
LoadThrows(t) ==
  /\ pc[t] = "loadPut"
  /\ \E k \in todo[t] : Mismatch(job[t].tok, Reloaded[image[t].map[k]])
  /\ mgr' = Null
  /\ Finish(t, <<"ERROR">>)
  /\ UNCHANGED <<kvVars, known, disk>>

LoadFlag(t) ==
  /\ pc[t] = "loadPut"
  /\ todo[t] = {}
  /\ IF image[t].autosave = "missing" THEN UNCHANGED kvVars
     ELSE SetAutosave(job[t].tok, image[t].autosave = "true")
  /\ mgr' = Null
  /\ Finish(t, <<"OK">>)
  /\ UNCHANGED <<known, disk>>

-----------------------------------------------------------------------------
Snapshot(t) == SnapKeys(t) \/ SnapGet(t) \/ SnapRead(t) \/ SnapFlag(t)

Save(t) == SaveLock(t) \/ OpenFile(t) \/ OpenFails(t) \/ WriteFile(t) \/ WriteShort(t)

Load(t) ==
  \/ LoadLock(t) \/ LoadMissing(t) \/ LoadUnreadable(t) \/ LoadKeys(t)
  \/ LoadClear(t) \/ LoadParse(t) \/ LoadPut(t) \/ LoadThrows(t) \/ LoadFlag(t)

(* The process ends, whatever its threads are doing: memory is gone, and   *)
(* a file that is being written keeps what had reached the disk.           *)
Dies ==
  /\ disk' \in IF mgr # Null /\ pc[mgr] = "write"
               THEN {[disk EXCEPT ![Target(mgr)] = part] :
                        part \in Cuts(image[mgr]) \cup {image[mgr]}}
               ELSE {disk}
  /\ Wiped
  /\ known' = {}
  /\ mgr' = Null
  /\ pc' = [t \in Threads |-> "idle"]
  /\ job' = [t \in Threads |-> Null]
  /\ todo' = [t \in Threads |-> {}]
  /\ image' = [t \in Threads |-> Null]
  /\ res' = [t \in Threads |-> Null]

ManagerInit ==
  /\ KVInit
  /\ known = {}
  /\ mgr = Null
  /\ disk = [f \in Files |-> NoFile]
  /\ pc = [t \in Threads |-> "idle"]
  /\ job = [t \in Threads |-> Null]
  /\ todo = [t \in Threads |-> {}]
  /\ image = [t \in Threads |-> Null]
  /\ res = [t \in Threads |-> Null]

\* Steps taken while StoreManager::mutex_ is held by a save or a load.
Locked(t) ==
  /\ job[t] # Null
  /\ \/ pc[t] \in {"open", "write", "loadKeys", "loadClear", "loadPut"}
     \/ pc[t] \in {"snapKeys", "snapGet", "snapRead"} /\ job[t].op # "JSON"

=============================================================================
