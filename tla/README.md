# Verification of KVS++

TLA+ modules for the key-value store in `src/`: an in-memory store with typed
values, a manager that keeps one store per token and saves and loads them as
JSON files, a TCP server with one thread per connection, and an interactive
CLI. TLC checks the modules on small instances; TLAPS proves the theorems
listed below for every value of the constants.

## 1. The system

| Component | State | Operations | Talks to |
|---|---|---|---|
| `KeyValueStore` (`core/KeyValueStore.cpp`) | map key -> `ValueObject`, autosave flag, mutex `mtx_` | `get`, `put`, `deleteKey`, `keys`, `search`, `size`, `empty`, `clear`, autosave setters, `save`, `load` | its `TypeRegistry`, `PersistenceManager` |
| `TypeRegistry` (`core/TypeRegistry.cpp`) | attribute name -> registered type, a mutex of its own | `validateAndRegisterType`, `isTypeRegistered`, `clear` | called under `mtx_` by `put` |
| `ValueObject` (`core/ValueObject.cpp`) | attributes of one entry (`std::variant`) | text -> value, value -> text | owned by the store; `get` hands out a raw pointer |
| `StoreManager` (`core/StoreManager.cpp`) | token -> store, one process-wide mutex | `getStore`, `put`, `get`, `remove`, `saveStore`, `loadStore` | stores, `PersistenceManager` |
| `PersistenceManager` (`persistence/PersistenceManager.cpp`) | the files under `store/` | `save`, `load` | store operations one at a time, the file system |
| `TCPServer` (`net/TCPServer.cpp`, `tcp_main.cpp`) | listening socket, `running_`, one detached thread per connection with its `selectedToken` | `start`, `run`, `stop`, `handleClient`, `handleCommand` | `StoreManager` |
| `CLI` (`cli/CLI.cpp`, `cli_main.cpp`) | `autoSave_`, output modes | `get`, `put`, `delete`, `save`, `load`; the other commands print "not yet implemented" | `StoreManager` |

How they interact. A connection thread asks the `StoreManager` for its store
(global mutex, released before the reference is used), then calls operations of
the store, each under the store's own `mtx_`. SAVE, LOAD and the automatic saves
after SET, DELETE and AUTOSAVE take the global mutex and keep it while they walk
the store one locked operation at a time and access the file. So commands on
stores interleave with a walk; saves, loads and `getStore` do not interleave with
each other.

What is hard about it:

- **Concurrency.** Store operations are atomic one by one, compositions of them
  (read the flag after the put; `keys` then `get`s; clear then refill) are not;
  the pointer `get` returns outlives its lock.
- **Failure.** The type mismatch exception of `put` is caught for LOAD and not
  for SET; a save truncates its target before writing; a file that cannot be
  opened is noticed and a short write is not; the process may end anywhere.
- **Ordering.** Saves of the same store are ordered by the global mutex and not
  by the changes they save; `load` sets the autosave flag after the entries.
- **Liveness.** Everything queues for one mutex, held across file access.

What makes each component correct:

- `KeyValueStore`, `TypeRegistry`: all entries of a store have the type
  registered for the attribute; operations are atomic; a pointer is read only
  while its object lives.
- `StoreManager`: the mutex is held by exactly the thread in `saveStore` or
  `loadStore`; a saving thread finds its store.
- `PersistenceManager`: a save shows the store as it was during the walk; a load
  makes the store what the file is; a load never reads a file that is being written;
  walks come to an end whatever changes under them.
- `TCPServer`, commands: each command is answered as if it took effect at one
  instant; autosave keeps the file current, and what it has acknowledged stays in the
  file and comes back, but for a write that is cut short and a save of a store that was
  not loaded; no command ends the server; nobody is stuck.
- `TCPServer`, connections: the stream of a client is answered line by line and in
  order, however `recv` cuts it; a thread uses only descriptors it has opened, and
  gives them back, and the double close at the end reaches one number only; a client that connects is accepted; `stop` comes to an end.
- `CLI`: a store that was saved to its file or loaded from it comes back from there in
  the next process; a file that was cut short still loads; entries keep their types.

`PROJECT.json` lists every hazard with its line and the properties aimed at it.

## 2. Modules

```
KeyValueStore      stores, registry, pointers        (KeyValueStore, TypeRegistry)
  StoreManager     getStore, saveStore, loadStore    (StoreManager, PersistenceManager)
    TCPServer      the command loop, its faults      (TCPServer::handleCommand, tcp_main)
      TCPServerAtomic   INSTANCE AtomicStore         (what the clients are promised)
      ServerHistory     history variables for saves, loads and acknowledged changes
      TCPServerProofs                                types, the mutex: the invariant Inv; one type
                                                     per store; how long the mutex is held
        ServerHistoryProofs                          what walks and loads see, and what is kept
                                                     of acknowledged changes and comes back
                                                     (ServerHistory)
        TCPServerAutosaveProofs                      autosave keeps the file current
        TCPServerAtomicProofs                        TCPServerAtomic implements AtomicStore
  CLI              commands, processes, files        (CLI, cli_main, StoreManager::put/get/remove)
    CLIHistory     which stores are in step with their files
      CLIText      the files of CLIHistory as texts (StoreText)
        CLIProofs                                    one type; files and stores; loads; what the
                                                     scanner finds in the files
TCPSession         one connection: recv, lines       (TCPServer::handleClient)
  INSTANCE LineSession                               (what a connection promises)
  TCPSessionProofs                                   types; TCPSession implements LineSession
TCPConnections     sockets, descriptors, threads     (TCPServer::start, run, stop, tcp_main)
  TCPConnectionsProofs                               who has which descriptor; the end of run
ValueObject        text -> value -> text / JSON -> value
  StoreText        the text of a file, and the scanner that reads it
FileNames          file name -> path
  ConversionsProofs                                  what a save and a load make of a value; file
                                                     names; what the scanner finds in a text
MCTCPServer, MCTCPServerAtomic, MCServerHistory, MCTCPSession, MCCLI    instances for TLC
```

The server is modelled in three parts that meet in `handleClient`. `TCPServer` has
what commands do to stores and files, one command of a thread after the other;
`TCPSession` has how commands come out of the bytes of one connection, and shows its
client's commands to be answered in the order `TCPServer` executes them; in
`TCPConnections` a session is a thread that may open and close files and may end in
any of the ways `TCPSession` says (`quit`, `closed`, `killed`). They share no other
state: what a command does depends on nothing of the connection but its line, and
descriptors are no part of what a command says, except that an `open` may fail.

### Correspondence with the code

*Position.* `pc[t]` is where thread `t` is in `handleCommand` and in the
functions it has called; a label is the next critical section of `mtx_`, the
next acquisition of the global mutex, or the next access to a file.
`job[t]` is the command with its arguments, `res[t]` the response chosen so far,
`todo[t]` what is left of a `for` loop over keys, `image[t]` the JSON text being
built or parsed, `ptr[t]` the local `const ValueObject*`.

| Code | Actions |
|---|---|
| `handleClient`: SELECT, `recv`, `send`, end of a connection | `Select`, `Receive`, `Reply`, `Disconnect` |
| `getStore` | `GetStore` |
| GET: `get`, then the read through the pointer | `GetKey`, `GetRead` |
| SET: `put`, `getAutosave`, `saveStore` | `PutKey` or `SetAborts`, `CheckAutosave`, `Save` |
| DELETE | `EraseKey`, `CheckAutosave`, `Save` |
| AUTOSAVE | `TurnAutosave`, `Save` |
| KEYS; refused commands and QUIT | `ListKeys`; `Answer` |
| JSON and the walk of `save` | `SnapKeys`, `SnapGet`, `SnapRead`, `SnapFlag` |
| `saveStore`, `writeFile` | `SaveLock`, `OpenFile`, `OpenFails`, `WriteFile`, `WriteShort` |
| `loadStore`, `readFile`, `parseStoreSection` | `LoadLock`, `LoadMissing`, `LoadUnreadable`, `LoadKeys`, `LoadClear`, `LoadParse`, `LoadPut`, `LoadThrows`, `LoadFlag` |
| `std::terminate`, a fault in freed memory, a kill, a start | `SetAborts`, `FreedReadAborts`, `Kill`, `Restart` |

| Code | Actions of `TCPSession` |
|---|---|
| `recv` into `buffer`, `partial += buffer` | `Recv`, with `CString` for where the C string ends |
| `recv` returns 0 or -1, the socket is closed | `RecvEnds` |
| `find('\n')`, `substr`, the `\r`, `handleCommand`, `send`; QUIT returns | `Answer` |
| no line end left: back to `recv` | `NoLine` |
| `send` raises SIGPIPE | `Killed` |

| Code | Actions of `TCPConnections` |
|---|---|
| `tcp_main`: `start`, the wait for Enter, `stop`, the destructor | `Start`, `Enter`, `StopCloses`, `Join`, `Exit` |
| `run`: `socket`, `bind`, `listen`, and their early returns | `Socket`, `BindListen`, `RunFails` |
| `run`: the loop over `accept` and the `close` behind it | `CheckRunning`, `CallAccept`, `Accept`, `AcceptFails`, `RunCloses` |
| `handleClient`: its ends | `Quit`, `RecvEnds`, `CloseSocket`, `Killed` |
| files opened by SAVE, LOAD and autosaves | `OpenFile`, `CloseFile` |

| Code | Actions and operators of `CLI` and `StoreText` |
|---|---|
| `cli_main`, the loop of `runInteractive` and its ends | `Start`, `Exit`, `Kill`, `Refused` |
| `cmdGet`, `cmdPut`, `cmdDelete` with their autosave | `cmdGet`, `cmdPut`, `cmdDelete`, `SaveChange`, `Write` |
| `cmdSave` | `cmdSave` |
| `cmdLoad` with what `load` makes of the file | `cmdLoadNothing`, `cmdLoad`, `cmdLoadThrows`, `Readings` |
| `escapeJsonString`, `attributeValueToJson`, `save`'s text | `escape`, `valueText`, `entryText`, `storeText` |
| `findJsonValue`, `parseStoreSection`, `jsonToValueObject` | `closing`, `loaded`, `parse`, `objectValue`, `unescape` |

*Data.* A value is a member of `Values`; its type is `TypeOf[v]` and what a save
and a load make of it is `Reloaded[v]`. The MC modules compute both from module
`ValueObject`, which models the conversions of the code on texts reduced to what
the parsers tell apart. A file is what parsing it gives: the entries and the
autosave field, which `save` writes last; so a prefix is some of the entries
without the field (`Cuts`).

`CLI` has the same abstraction of a file, and one more: the scanner that looks for
keys knows no escapes and takes the key `autosave` for the flag, so an entry may be
read under another key (`KeyRead`), or not at all; two entries may fall on one key,
of which the last in the file wins (`Readings`). That this is what the text and the
scanner do is not assumed: `StoreText` writes a store as a sequence of the pieces the
scanner tells apart and reads it with the loops of the code, and the invariant
`TextReads` says, of every file the processes leave behind and for every order of
its entries, that the scanner finds one of its `Readings` and the flag.

*Bytes.* In `TCPSession` a reply is the line it answers. `partial` ends at the first
NUL that `recv` returned, since `partial += buffer` takes a C string.

*Descriptors.* `fds[d]` says what number `d` refers to; a call that opens something
gets the lowest free number, and closing a number gives it back whoever has opened
it. `accept` holds on to the socket: closing its number does not wake it.

*Histories.* `ServerHistory` adds variables that no action reads. `past` and `touched`
record what a walk's store has been and what others have changed under a load. `torn` are
the files that a write of them, cut short, has left. `kept[tok][k]` is the set of values
that would do for key `k` in the file of `tok`. It shrinks when a SET or DELETE that saw
autosave on is answered without an error, to what the key has been given since that thread
changed it (`since`). It grows by what a key is *given*, and by nothing else (`Given`): by a
SET or DELETE of it, and by a LOAD that goes through, which gives each key what the file
has. Memory that is empty because the process has just begun, or because a LOAD is filling
the store or has failed half way, is given by nobody; the stores that hold such memory are
`adrift`, until a LOAD goes through. Two steps give up what was acknowledged, and no other:
a write of the file that is cut short, after which anything would do (`CutShort`), and the
end of a save of a store that is adrift, after which what that save has seen would do
(`StartsOver`). `due[t]` is what was kept when the LOAD of `t` took the mutex.

*Undefined behaviour.* A read through a pointer whose object has been freed gives
the old value, any other, or ends the process ("freed" in `Faults`).

### Steps that are merged

- An operation of `KeyValueStore` is one step: it holds `mtx_` from its first
  statement to its last and waits for nothing but the registry's mutex, which
  nobody holds across a wait.
- In `load`, the type check of an entry is inside `put`; `LoadPut` is the parse of
  one entry and its `put`, and touches shared state only in the `put`.
- The last write to a file, its close and the release of the global mutex are one
  step. In between the thread accesses nothing that others can see without that
  mutex. What a crash between opening and closing leaves behind is in `Dies`.
- Commands that are refused before `getStore` change nothing and are left out.
  Those refused after it create the store: `OTHER`.
- A command of the CLI is one step, with its autosave: the process has one thread, so
  nobody sees it half done but those who read a file of a process that was killed.
  `Kill` leaves there every cut of every text the process could be writing.
- Splitting off one line, its command and its reply are one step of `TCPSession`; the
  client acts between any two.
- `bind` and `listen` touch only the socket; each is one step with its check.
- Opening and reading a file for a load is one step with the acquisition of the
  global mutex: files are written only under that mutex.

## 3. The runs

| Run | Instance | Shows |
|---|---|---|
| `faults` | 2 threads, 2 keys, a string and an int, every command, every fault | `TypeOK`, `LockDiscipline`, `SaveFindsStore`, `TypesUniform`, `HolderProgresses` |
| `autosave` | 2 threads, 2 stores, 2 keys; SET, DELETE, AUTOSAVE, SAVE to the own file | `AutosaveCurrent`: with autosave on and nobody on the way to a save, the file is the store |
| `live` | 2 threads, 1 key, two types, every command, failing files | `MutexReleased`, `NoneStuck` |
| `atomic` | 2 threads, 2 keys, 2 values; failing autosaves; LOAD | `Atomic`: the server implements `AtomicStore` |
| `walks` | 2 threads, 2 keys, an infinity and the string a LOAD makes of it; SET, DELETE, AUTOSAVE ON, LOAD, JSON; kills, aborts | `WalkIsRecent`, `LoadInstallsFile`, `PartialWasCut`, `AcknowledgedKept`, `LoadRestores` |
| `cli` | 1 token, 2 files, keys `a"`, `a\`, `autosave`; an int, infinity, the string `inf`; failing and short writes, kills | `CLITypeOK`, `OneType`, `FileIsStore`, `TextReads`, `NewStoreLoads` |
| `session` | streams of up to 6 bytes, `recv` of up to 3, QUIT of 2 | `SessionTypeOK`, `LinesInOrder` (implements `LineSession`), `LinesAnswered` |
| `connections` | 3 connections, 4 descriptors, every call may fail | `ConnTypeOK`, `OwnDescriptors`, `DoubleCloseConfined`, `StopConverges`, `StopHangsInAccept`, `Accepted`, `Released` |

Runs in which TLC finds what the code does against what the repository says:

| Run | Property violated | Why |
|---|---|---|
| `aborts` | `StaysUp` | a SET of another type throws out of a detached thread |
| `freed` | `PointersLive` | GET reads through a pointer that a SET has freed |
| `types` | `TypesAcrossSessions` | an infinity is put as a DOUBLE, saved as a bare word and loaded as a STRING (`PersistenceManager.hpp:15` promises type consistency across sessions) |
| `quit` | `QuitDisconnects` | QUIT returns from `handleClient` without closing the socket (`TCP_PROTOCOL.md:17`) |

`quit` and `connections` belong together: connections that said QUIT are the only
descriptors lost (`OwnDescriptors`, `Released`), and they are what `Accepted` and
`AcceptFails` are about, since with them the descriptors run out. In the same way
`atomic` holds although `freed` does not: the stores are linearizable, the unlocked
reads are not.

`AutosaveCurrent` and `AcknowledgedKept` are the two halves of what autosave is for. The
first says that the file is the store, of moments when nobody is at work, and fails with
LOAD or a full disk. The second says of one key what a client may rely on: once its SET or
DELETE has been answered, with autosave on when the thread looked, the file has that
change, or what a later SET, DELETE or completed LOAD gave the key, at every moment at which
nobody is writing it. Neither the end of the process nor a LOAD that fails takes it away. Two
things do, and `AcknowledgedKept` says that nothing else does:

- A write that is cut short, since it is the only copy that is truncated
  (`PersistenceManager.cpp:276`), and the short write is answered with OK (`:281`).
- A save of a store that is adrift. In a new process the store is empty until a LOAD; a
  LOAD that meets an entry of another type leaves it half filled. A client who then says
  AUTOSAVE ON or OFF, SAVE, or SET with autosave still on, saves that over the file, and
  what had been acknowledged there is gone although nobody has changed it. The code does
  that, and no text of the repository says that it would not. From that save on the
  property is about what was saved.

`LoadRestores` is the end of that story: what has been kept comes back with a LOAD, in the
same process or after a kill and a restart, and after any number of LOADs that have failed;
unless one of the two things above has come between. It says the same as the
two properties it rests on, `AcknowledgedKept` of the file and `LoadInstallsFile` of the
store, only if nothing can come between the two, and so depends on the mutex: that
nobody writes the file while it is read, and nobody is acknowledged while it is loaded.

`StopConverges` is the safety half of `StopHangsInAccept`: it does not say that `run` goes
on, but that every step it makes is one of seven, so that `stop` waits for a call and
never for the loop.

`HolderProgresses` is the safety half of `MutexReleased`: the loops over `keys()` run
while other clients change the store, and it says that no such change makes them longer.

`FileIsStore` is the promise of the CLI's saving that survives everything the runs
throw at it. It says nothing of a store that has not been loaded: the first `put` of
a new process saves a store of one entry over the file of the process before, which
is what the code does (`CLI.cpp:191`) and what no text of the repository denies.

**Bounds.** Nothing but `MaxBytes` counts, so the other bounds are the sizes of the
constants. Two threads: every hazard listed is between two, the mutex is symmetric
in those that wait, and pairs of threads already show every order of their critical
sections. Two keys: a walk then has a key before and a key after an interleaved
change, and a load an entry loaded and one not yet. Two values: an old and a new
one; two types: a match and a mismatch. One store, and two where stores could
disturb one another (`autosave`). SAVE and LOAD name the autosave file,
which is the case in which they interfere with autosaves.
`autosave` has no faults: the theorem `AutosaveKeepsFile` covers kills, aborts and
reads of freed memory. Its constraint `SavesOwnFile` says of the clients what the theorem
assumes of them. `walks` has the two values of which one becomes the other when it is saved
and loaded, with another type: so the next LOAD of a store's own file may stop half way,
in the process in which it was written, and a SET may end the process. Its bound is the
constraint `TurnOnOnly`: clients turn autosave on and never off. It is off in a new process
and after the LOAD of a file whose last field was cut, so both values of the flag occur. The
run has 1.9 million states and takes two minutes. SAVE, AUTOSAVE OFF, failing opens and
short writes are left to the theorems about the same properties, which have them all
(`WalksAreRecent`, `LoadsInstall`, `LoadsFindWhole`, `AcknowledgedSurvives`,
`AcknowledgedReturns`); a write is cut short in the run by the end of the process.
`int` is four bits wide in `ValueObject` and a number has two decimals, of which
one is printed: ranges, rounding and boundaries all occur.

`cli`: the key `a"` is the shortest that the scanner misreads, and what it makes of
it, `a\`, is a key too, so that both can stand in one file and fall on one another;
`autosave` is the key taken for the flag. TLC evaluates `TextAssumption` and `CLIAssumption`
on these keys and values. The values are one that comes back as it
was, one that changes its type, and what that one becomes. Of the files one is the
token's own, the other any other. `VIEW StateOnly` leaves out what was printed
last: no command reads it, the invariants do not mention it, and the action property
is about the step and not about what was printed before it.
`session`: six bytes are two commands of two letters with their line ends, or a QUIT
with more behind it, cut by `recv` in every way three bytes allow; a NUL, a `\r` at
the end and in the middle, and an empty line all occur.
`connections`: with four descriptors and three clients, the listener and three
connections leave none free, the listener, two connections and a file neither, and
the next `accept` fails; three is what it takes for one client to keep, one to leave
and one to wait. Each connection is made once.

**Symmetry** (threads and keys) is used only in runs of safety properties whose
formulas do not tell threads or keys apart; `live` uses none.

**Fairness.** `FairSpec` has weak fairness of `Runs(t)` for every thread: the
operating system schedules every thread that can run. `std::mutex` is not fair, so
no thread is promised the mutex; hence `NoneStuck` says that a command is left
unanswered only while others are answered for ever, and not that it is answered.
Clients, kills and restarts are under no fairness.

`FairSession` has weak fairness of the thread of the connection, where `recv` can
return when bytes or the end of the stream are there. `FairConnections` has weak
fairness of `main`, of `run` and of the thread of each connection, and strong
fairness of `RecvEnds(c)`: a client that has left has sent finitely many bytes, so
its thread does not open and close files for ever and comes to the `recv` that
returns 0. Nobody has to press Enter, to connect, to leave or to say QUIT. With that

- `StopHangsInAccept` says for which single reason `stop` may wait for ever: `run` is
  in `accept`, which closing the listening socket does not wake, and no connection
  comes. It would be false if the loop could be stuck or run on anywhere else.
- `Accepted` says that a client waits for ever only if the descriptors run out again
  and again, and `Released` that a client that leaves gives its descriptor back.

**Deadlock** is checked in every run of the command loop and of the CLI. In `session`,
`connections` and `quit` it is not: a session ends, and a process does.

## 4. The proofs

The eight proof modules start from the assumptions named in the modules they are about,
which only say what the constants are (types of values, files of tokens, `Null` and
the like distinct from data). `CLIAssumption` says two things more: what is saved and
loaded twice is as after the first time (`Reloaded`, `KeyRead`). Both are proved of the
code: of its conversions (`ReloadTwice`, and `ReloadedFits` in the form in which it is
assumed) and of its scanner (`KeyReadFits`). Where a
theorem needs more of the environment, the last column says it.

| Theorem | Statement | Argument | Also assumes |
|---|---|---|---|
| `TypeCorrect` | `Spec => []TypeOK` | `Inv` is inductive and implies it | |
| `MutexCorrect` | `Spec => []LockDiscipline` | a conjunct of `Inv` | |
| `TypesCorrect` | `Spec => []TypesUniform` | `Inv /\ TypesUniform` is inductive; stores change only by `put`, `deleteKey` and the end of the process (`StepChangesStore`) | |
| `SaveCorrect` | `Spec => []SaveFindsStore` | strengthened to `Served`: from `getStore` on a thread's store is known | |
| `MutexHeldBriefly` | `Spec => HolderProgresses` | from `Inv`: every step of the holder lessens `StepsLeft` (`HolderStep`), nobody else moves it | `Keys` is finite |
| `ServerIsAtomic` | `Spec => Atomic` | `RInv` is inductive, and every step from it is an abstract step or a stutter (`StepRefines`) | freed memory is not reused |
| `AutosaveKeepsFile` | `Spec => []AutosaveCurrent` | `AInv` is inductive and implies it | `Orderly`: files can be opened and written ("io" is not in `Faults`), no two stores share one, no LOAD; and `[]SavesOwnFile`: a SAVE names the file of its own store |
| `WalksAreRecent` | `HSpec => []WalkIsRecent` | `WalkSeen` is inductive | freed memory is not reused |
| `LoadsInstall` | `HSpec => []LoadInstallsFile` | `LoadSeen` is inductive | |
| `LoadsFindWhole` | `HSpec => []PartialWasCut` | `LInv` is inductive | |
| `LoadsWhole` | `HSpec => []LoadsWholeFile` | from `LoadsFindWhole`: `torn` stays empty | `Quiet`: nothing fails, and all values are of one type |
| `AcknowledgedReturns` | `HSpec => []LoadRestores` | `DueRead`, of what a load has read, is kept by every step from `KInv`; with `LoadsInstall` | as `AcknowledgedSurvives` |
| `AcknowledgedSurvives` | `HSpec => []AcknowledgedKept` | `KInv` is inductive | no two stores share a file, freed memory is not reused; and `[]SavesOwnFile` |
| `SessionTypeCorrect` | `SessionSpec => []SessionTypeOK` | `SInv` is inductive and implies it | |
| `SessionIsLines` | `SessionSpec => LinesInOrder` | every step from `SInv` is a step of `LineSession` or a stutter | |
| `ConnTypeCorrect` | `ConnSpec => []ConnTypeOK` | a conjunct of `ConnInv` | |
| `DescriptorsCorrect` | `ConnSpec => []OwnDescriptors` | `ConnInv` is inductive | |
| `ConfinedCorrect` | `ConnSpec => []DoubleCloseConfined` | inductive together with the types and `Stages` | |
| `StopConvergesCorrect` | `ConnSpec => StopConverges` | `running` stays false from `stop` on (`Cleared`) | |
| `ReloadTwice` | what has been loaded is saved and loaded unchanged | what is rounded rounds to itself (`RoundedStays`) | |
| `ReloadKeepsType` | a value comes back with its type, a double within half a unit of the last digit; only an infinity becomes a string | by the kind of value (`ReloadCases`) | |
| `UnescapeEscape` | `unescape(escape(t)) = t` | induction on the length of `t` | |
| `LoadedStore` | `loaded(storeText(E, flag))` is `reads(E)`, one behind another, and `flag` | induction on the number of entries, and on the pieces of each | `EntriesFit(E)` |
| `KeyReadFits` | what the scanner makes of a key it makes of itself again | from `LoadedStore`, of a text with one entry | `KeyFits` |
| `CLITypeCorrect` | `HistorySpec => []CLITypeOK` | `CInv` is inductive | |
| `OneTypeCorrect` | `HistorySpec => []OneType` | a conjunct of `CInv` | |
| `FileIsStoreCorrect` | `HistorySpec => []FileIsStore` | `HInv` is inductive | |
| `NewStoreLoadsCorrect` | `HistorySpec => NewStoreLoads` | from `FilesUniform`: the entries of a file have one type | |
| `TextReadsCorrect` | `HistorySpec => []TextReads` | `LoadedStore` of the entries of a file, in any order (`ImageReads`) | `TextAssumption` |

`TypeOK` alone is not inductive: that the step at `"put"` finds a value in its
command, or the one at `"write"` a text in `image`, follows from how the thread got
there. `Inv` adds for each thread what its position says about its command
(`JobFits`), about what it has read (`DataFits`) and about the mutex. A step of one
thread leaves the others' part alone except that it may make their pointers dangle
(`Keeps`, `Frame`), so each action has one lemma and `NextInv` collects them.

`RInv` adds to `Inv` from which position on a command has its response (`ResFits`).
With it the abstract answer of a thread can be read off its position: a GET has it
from `get` on, in the entry its pointer points to; a SET or DELETE from `put` or
`deleteKey` on, in `res`. A step changes the answer of no other thread
(`AnsweredAlone`): a `put` may make the pointer of another thread dangle, and the
assumption that freed memory is not reused is what keeps the value behind it.

`AutosaveCurrent` speaks of the moments when nobody is at work on a store, and says
nothing of a save under way. `AInv` speaks of the moments when nobody *owes* the
store a save, that is, nobody is between a change and the mutex (`Owes`): then
either a thread is saving the store and its walk has seen every change so far
(`WalkCurrent`), or the file is current (`StoreFits`). A change of the store while a
walk is on makes its thread owe a save, so a stale walk is never the last one, even
if it has read memory that was freed. A SAVE of the client's is one more walk of the
store by somebody who holds the mutex, and so fits in as long as it writes the store's
own file. Each assumption is needed. With LOAD, the flag
that a file turns on becomes true after the entries are in, and a SET in between has
seen it false and is not saved. With a shared file (tokens `x` and `store/x`), the
file is that of the store saved last.

`WalkSeen` and `LoadSeen` say of each key whether the loop of the thread has come to it:
what a walk has put down was in its store at some moment since `keys()`, and what a
load has cleared is gone and what it has put is there, but for keys in `touched`. The
steps of other threads add to the two history variables and take nothing away
(`OthersKept`); `LoadSeen` also needs that a thread outside the mutex that changes a
store moves on in doing so (`ChangesMove`), since that is how `touched` tells whose a
change was. `LInv` adds to `Inv` that a file without its autosave field is one that a
thread stands before writing, or is in `torn` (`FilesWhole`), and the same of the text a
load has read (`ImagesWhole`); a load that gets the mutex finds no such thread. That
`torn` stays empty needs more: no full disk, and no end of the process, by a SET of
another type either; so `Quiet` asks that there is one type.

`AcknowledgedKept` follows a change from the store to the file, past three kinds of
threads: the one that is acknowledged, those that change the key, and those that
save. `KInv` says for each place where a value may be that it is one of `kept`:

- in memory (`MemoryKept`): what a store that is not adrift has is in `kept`, and what a
  thread that has made its change would leave is in its `since`. A store becomes steady
  again when a LOAD of it goes through, so something has to be said of it before:
  `Holds(tok, k, S)` says of each key that the LOAD has come to that it is gone, or as the
  file has it, or has been given since, for any set `S` of what the key has been given; and
  `HoldsStep` that a step keeps it for every set that grows by `Given`;
- in a walk: all it has seen of a store that is not adrift lies within `since` of whoever
  holds the mutex to save its own change, and within `kept` (`Late`), and a text about to
  be written shows each key as it was during the walk (`WalkSeen`). Nobody can be
  acknowledged while a walk is under way, since that needs the mutex too
  (`AcknowledgedAtWrite`);
- in a file (`FilesKept`): what nobody is writing has for each key a value in `kept`.

So a write that ends puts into the file what is in `kept` before and after the
acknowledgement it brings (`WriteKeeps`), and every other step leaves the file and only
adds to `kept` (`KeptGrows`). The save of a store that is adrift ends with what its walk
has seen, which is what `kept` is from then on. Without `[]SavesOwnFile` a SAVE to another
store's file puts other values there; with freed memory a walk may show what never was.

`StepsLeft` counts the keys left to do. A walk takes `keys()` once and never looks at it
again, so a key that others add is not one more to do, and a key they delete is still
looked at; the lemma on each step is about the cardinality of `todo` less one key, which
is why `Keys` has to be finite.

`SInv` adds to `SessionTypeOK` that `recv` is called only when `partial` holds no line
end, which makes `RecvEnds` a step of `LineSession`: it may close when no whole line is
left. The steps are about where sequences are cut: `CutFirst` and `CutSecond` say what
taking a piece off the first or the second of two concatenated sequences leaves, and
with them splitting a line off `partial` is splitting it off `partial \o wire`, and
bytes lost behind a NUL are a `Lost` of the abstract session.

`ConnInv` adds to `OwnDescriptors` where `main` and `run` are (`Stages`): `serverSock`
is a descriptor from `socket` on, the loop of `run` is left only after `stop` has begun,
and a command has a file open only while it runs. From `stop` on the
code closes a number twice, and `OwnDescriptors` is false. What stays true is
`DoubleCloseConfined`, in every state of the program: every `close` outside of the
threads of connections is of `serverSock`, whose number is set once, by `socket`, when
nothing has been lost yet, so a descriptor of any other number is where its opener has
put it (`ConfinedClose`, `ConfinedMain`). A handler that has been left without its
descriptor closes what may be somebody else's, but again that one number
(`ConfinedHandler`).

`CInv` is the types with `OneType`, without which a load could not be shown to find
the type it registers. `FileIsStore` compares what the store and its file *read as*,
since a load changes values and keys. The lemma `ReadTwice` is the reason it is kept by
a load: reading what was read gives it back. `HInv` says it for one store at a time, and the
commands either bring a store into step (`Joins`), leave its file and its store alone
(`Kept`), or end its being in step. For `NewStoreLoads` the files need an invariant of
their own, for they outlive the process: `FilesUniform` says that what stands in a
file, or in a cut of it, was in one store at one time and so has one type.

`DueRead` says of a thread that is loading that what it has read was kept when it took the
mutex. That is true when it reads, since nobody is then writing the file (`DueBegins`, from
`FilesKept`), and stays true since neither its text nor `due` changes until it is done
(`DueStays`).

*Texts.* The loops of the writer and the scanner are recursive functions on the number of
pieces, and what is said of them is proved by induction on that number (`NatInd`, over
finite sets, since the induction theorems of the library cannot be instantiated here). A text is
taken apart as it was put together: an escaped text has no bare quote, so that a scan
that enters it in a string leaves it in that string (`escape`'s lemmas); hence one entry is
scanned from its first quote to behind its closing brace in one round of the loop, whatever
stands behind it, and the rounds follow the entries (`LoadedStore`). `ImageReads`
compares the result with `Readings`: the last entry that the scan puts under a
key is one of those that `KeyRead` sends there. What the theorems ask of the texts is what
makes the scan go astray in the code:

- `KeyFits`: a key with a quote has no `{` in it. The key ends at its first quote for the
  scanner, and the object would begin at that brace.
- `NoComma`: the value of an entry with the key `autosave` has no comma. The scan goes on
  behind the first one it finds, which has to be the one behind the entry.
- `ValueFits`: a number or a boolean is spelled in one piece without quotes, braces or
  commas, as `std::to_string` does.

Strings may have any of these in their values, quotes, backslashes and line ends in any number;
keys without a quote may have any piece in them.

Every invariant and every action property of the passing runs is proved. Only
model-checked: liveness (`MutexReleased`, `NoneStuck`, `LinesAnswered`,
`StopHangsInAccept`, `Accepted`, `Released`), since TLAPS does not reason about ENABLED and
fairness. None of `Atomic`, `WalkIsRecent`, `AcknowledgedKept` and `LoadRestores` is claimed
where freed memory is reused (run `freed` shows the read).

## 5. Not modelled

- `search`, `size`, `empty`, `clear`, `clearAllStores`, `TypeRegistry::clear`,
  `CLI::runSingleCommand`: nothing in the repository calls them.
- `--file`, which the code reads and does not use; the splitting of a line of the CLI
  or the server into words; output colours, help texts and tables.
- Files written by hand, and with them entries with several attributes; a comma in the
  value of an entry whose key is `autosave`, where the scan goes on in the middle of
  the value.
- Two processes over one `store/` directory.
- Static objects being destroyed while detached threads of clients still run: the end
  of the process is one step.
- The growth of `partial` under a client that sends no line end: a question of memory
  and time.
- Exception classes, `Helpers`, build files and the Windows branches, which keep no
  state.

## 6. Where it could go

All of the plan is done: stores, manager, command loop, faults, refinement, histories; the
CLI over a sequence of processes; the text of files and its scanner; sessions; connections
and the life of the server; and the theorems above. What would be worth adding:

1. The server over texts: `StoreManager`'s LOAD puts under the key that was saved, where
   the scanner has `KeyRead`; `CLI` and `CLIText` have the difference.
2. Entries with several attributes, should the commands come to write them.
3. A server that connects, serves and stops in one module, if the three parts of it should
   come to share more than descriptors.
