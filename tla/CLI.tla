-------------------------------- MODULE CLI --------------------------------
(***************************************************************************)
(* The interactive command line: cli_main, CLI and the operations of       *)
(* StoreManager it calls.  One process with one thread, started over and   *)
(* over again on the files that earlier processes have left.               *)
(*                                                                         *)
(* Nobody sees a command half done, except through what a process that     *)
(* is killed leaves in a file; so a command is one step, with the saving   *)
(* it includes, and Kill has the rest.                                     *)
(*                                                                         *)
(* A file is what its JSON text says: the entries as they were written,    *)
(* and the autosave field.  What load() makes of the entries is Readings:  *)
(* values change as Reloaded says, and the scan for keys, which knows no   *)
(* escapes and takes the key "autosave" for the field, may find an entry   *)
(* under another key or none (KeyRead; module StoreText has the scan).     *)
(***************************************************************************)
EXTENDS KeyValueStore

CONSTANTS
  Files,      \* paths under store/
  FileOf,     \* FileOf[tok]: the path saveStore makes of tok + ".json"
  Reloaded,   \* Reloaded[v]: what writing v as JSON and parsing it gives
  KeyRead,    \* KeyRead[k]: the key a load puts the entry k under, or Null
  NoFile,     \* the file does not exist
  Faults      \* "kill": the process is killed; "io": a file cannot be opened
              \* or the disk is full

ASSUME CLIAssumption ==
  /\ FileOf \in [Tokens -> Files]
  /\ Reloaded \in [Values -> Values]
  /\ \A v \in Values : Reloaded[Reloaded[v]] = Reloaded[v]
  /\ KeyRead \in [Keys -> Keys \cup {Null}]
  /\ \A k \in Keys : KeyRead[k] # Null => KeyRead[KeyRead[k]] = KeyRead[k]
  /\ Null \notin Keys
  /\ Faults \subseteq {"kill", "io"}

VARIABLES
  known,      \* tokens that have a store in stores_
  disk,       \* disk[f]: contents of file f, or NoFile
  up,         \* whether a process runs
  auto,       \* autoSave_: every put and delete saves its store
  last        \* the last command and what was printed

cliVars == <<kvVars, known, disk, up, auto, last>>

FileImage == [map: Contents, autosave: {"true", "false", "missing"}]

ASSUME FileAssumption == NoFile \notin FileImage

Ops == {"put", "delete", "get", "save", "load", "other", "start", "exit", "kill"}

\* "unsaved": the command has succeeded and the autosave after it has not;
\* "short" is printed as "ok": the file was not written whole.
Shown ==
  [op: Ops, tok: Tokens \cup {Null}, arg: Keys \cup Files \cup {Null},
   said: {"ok", "short", "unsaved", "error"}]

CLITypeOK ==
  /\ KVTypeOK
  /\ known \in SUBSET Tokens
  /\ disk \in [Files -> FileImage \cup {NoFile}]
  /\ up \in BOOLEAN
  /\ auto \in BOOLEAN
  /\ last \in Shown

Prints(op, tok, arg, said) ==
  last' = [op |-> op, tok |-> tok, arg |-> arg, said |-> said]

CLIInit ==
  /\ KVInit
  /\ known = {}
  /\ disk = [f \in Files |-> NoFile]
  /\ up = FALSE
  /\ auto = TRUE
  /\ last = [op |-> "exit", tok |-> Null, arg |-> Null, said |-> "ok"]

-----------------------------------------------------------------------------
(* Files.                                                                  *)
FlagText(on) == IF on THEN "true" ELSE "false"

Written(map, on) == [map |-> map, autosave |-> FlagText(on)]

Only(S, m) == [k \in Keys |-> IF k \in S THEN m[k] ELSE Absent]

\* Entries whose key is read as the autosave field.
Flags(m) == {k \in Present(m) : KeyRead[k] = Null}

\* What may be left of a text that was not written to its end.
Cuts(i) ==
  [map: {Only(S, i.map) : S \in SUBSET Present(i.map)},
   autosave: {"missing"} \cup {"false" : k \in Flags(i.map)}]
    \cup {[i EXCEPT !.autosave = "false"]}

\* What load() may make of the entries of a file.  Of two entries found under
\* one key the one that stands last in the file is kept, and the order of the
\* file is that of an unordered_map.
Readings(m) ==
  LET ReadAs(j) == {k \in Present(m) : KeyRead[k] = j}
  IN  {r \in Contents : \A j \in Keys :
         IF ReadAs(j) = {} THEN r[j] = Absent
         ELSE \E k \in ReadAs(j) : r[j] = Reloaded[m[k]]}

\* writeFile: all of it, a part of it that nobody notices, or an exception.
Write(f, image, said) ==
  \/ said = "ok" /\ disk' = [disk EXCEPT ![f] = image]
  \/ /\ "io" \in Faults
     /\ said = "short"
     /\ \E part \in Cuts(image) : disk' = [disk EXCEPT ![f] = part]
  \/ "io" \in Faults /\ said = "error" /\ UNCHANGED disk

-----------------------------------------------------------------------------
(* The process.                                                            *)

\* main() with or without --no-autosave.  Of the other options --file has no
\* effect, and --help or an unknown one ends the process before it begins.
Start ==
  /\ ~up
  /\ up' = TRUE
  /\ auto' \in BOOLEAN
  /\ Prints("start", Null, Null, "ok")
  /\ UNCHANGED <<kvVars, known, disk>>

Ends ==
  /\ up' = FALSE
  /\ Wiped
  /\ known' = {}
  /\ UNCHANGED auto

\* exit, quit, q or the end of the input.  Nothing is saved.
Exit == up /\ Ends /\ Prints("exit", Null, Null, "ok") /\ UNCHANGED disk

\* Store tok as the autosave of a put or delete writes it.
Changed(tok) ==
  UNION {{Written([store[tok] EXCEPT ![k] = v], autosave[tok]) : k \in Keys} :
         v \in {w \in Values : ~Mismatch(tok, w)} \cup {Absent}}

\* What a command may be writing to file f.
InFlight(f) ==
  {Written(store[tok], autosave[tok]) : tok \in known}
    \cup UNION {Changed(tok) : tok \in {u \in Tokens : auto /\ FileOf[u] = f}}

Remains(f) == UNION {Cuts(i) \cup {i} : i \in InFlight(f)}

\* The process is killed, perhaps in the middle of a save.
Kill ==
  /\ "kill" \in Faults
  /\ up
  /\ \/ UNCHANGED disk
     \/ \E f \in Files : \E part \in Remains(f) : disk' = [disk EXCEPT ![f] = part]
  /\ Ends
  /\ Prints("kill", Null, Null, "ok")

-----------------------------------------------------------------------------
(* The commands.  All but Refused and save create the store they name.     *)

\* Unknown commands, wrong numbers of words, help, and search, keys, clear,
\* stats and inspect, which are not implemented.
Refused == up /\ Prints("other", Null, Null, "error") /\ UNCHANGED <<kvVars, known, disk, up, auto>>

\* Mutated: a delete is not saved.
SaveChangePutOnly(op, tok, arg) ==
  IF auto /\ op = "put"
  THEN \E said \in {"ok", "short", "error"} :
         /\ Write(FileOf[tok], Written(store'[tok], autosave[tok]), said)
         /\ Prints(op, tok, arg, IF said = "error" THEN "unsaved" ELSE said)
  ELSE Prints(op, tok, arg, "ok") /\ UNCHANGED disk

\* The autosave of put and delete; when it fails the command still succeeds.
SaveChange(op, tok, arg) ==
  IF auto
  THEN \E said \in {"ok", "short", "error"} :
         /\ Write(FileOf[tok], Written(store'[tok], autosave[tok]), said)
         /\ Prints(op, tok, arg, IF said = "error" THEN "unsaved" ELSE said)
  ELSE Prints(op, tok, arg, "ok") /\ UNCHANGED disk

cmdGet(tok, k) ==
  /\ up
  /\ known' = known \cup {tok}
  /\ Prints("get", tok, Null, IF store[tok][k] = Absent THEN "error" ELSE "ok")
  /\ UNCHANGED <<kvVars, disk, up, auto>>

cmdPut(tok, k, v) ==
  /\ up
  /\ known' = known \cup {tok}
  /\ \/ Put(tok, k, v) /\ SaveChange("put", tok, Null)
     \/ Mismatch(tok, v) /\ Prints("put", tok, Null, "error") /\ UNCHANGED <<kvVars, disk>>
  /\ UNCHANGED <<up, auto>>

\* remove() does not say whether there was such a key.
cmdDelete(tok, k) ==
  /\ up
  /\ known' = known \cup {tok}
  /\ DeleteKey(tok, k)
  /\ SaveChange("delete", tok, k)
  /\ UNCHANGED <<up, auto>>

cmdSave(tok, f) ==
  /\ up
  /\ \E said \in {"ok", "short", "error"} :
       /\ IF tok \in known
          THEN Write(f, Written(store[tok], autosave[tok]), said)
          ELSE said = "error" /\ UNCHANGED disk
       /\ Prints("save", tok, f, said)
  /\ UNCHANGED <<kvVars, known, up, auto>>

\* No such file, which is no error, or one that cannot be read.
cmdLoadNothing(tok, f) ==
  /\ up
  /\ known' = known \cup {tok}
  /\ \/ disk[f] = NoFile /\ Prints("load", tok, f, "ok")
     \/ "io" \in Faults /\ disk[f] # NoFile /\ Prints("load", tok, f, "error")
  /\ UNCHANGED <<kvVars, disk, up, auto>>

\* The store is emptied and the entries D of map m are put into it, all of
\* the type ty that is then registered; what was registered before stays.
Installs(tok, m, D, ty) ==
  /\ registry[tok] \in {"none", ty}
  /\ D = {} => ty = registry[tok]
  /\ \A k \in D : TypeOf[Reloaded[m[k]]] = ty
  /\ \E r \in Readings(Only(D, m)) : store' = [store EXCEPT ![tok] = r]
  /\ registry' = [registry EXCEPT ![tok] = ty]
  /\ UNCHANGED ptr

\* load() reads all entries and then the flag; the key "autosave" read on the
\* way has set it to false.
cmdLoad(tok, f) ==
  /\ up
  /\ known' = known \cup {tok}
  /\ disk[f] # NoFile
  /\ LET m == disk[f].map IN
       \E ty \in Types \cup {"none"} :
         /\ Installs(tok, m, Present(m) \ Flags(m), ty)
         /\ autosave' = [autosave EXCEPT ![tok] =
                           IF disk[f].autosave # "missing" THEN disk[f].autosave = "true"
                           ELSE @ /\ Flags(m) = {}]
  /\ Prints("load", tok, f, "ok")
  /\ UNCHANGED <<disk, up, auto>>

\* An entry of another type than the registered one: put() throws, the store
\* keeps the entries D that came before it.
cmdLoadThrows(tok, f) ==
  /\ up
  /\ known' = known \cup {tok}
  /\ disk[f] # NoFile
  /\ LET m == disk[f].map
         Entries == Present(m) \ Flags(m)
     IN  \E D \in SUBSET Entries, ty \in Types :
           /\ \E k \in Entries \ D : TypeOf[Reloaded[m[k]]] # ty
           /\ Installs(tok, m, D, ty)
           /\ \/ UNCHANGED autosave
              \/ Flags(m) # {} /\ autosave' = [autosave EXCEPT ![tok] = FALSE]
  /\ Prints("load", tok, f, "error")
  /\ UNCHANGED <<disk, up, auto>>

Command ==
  \/ Refused
  \/ \E tok \in Tokens :
       \/ \E k \in Keys : cmdGet(tok, k) \/ cmdDelete(tok, k) \/ \E v \in Values : cmdPut(tok, k, v)
       \/ \E f \in Files :
            cmdSave(tok, f) \/ cmdLoadNothing(tok, f) \/ cmdLoad(tok, f) \/ cmdLoadThrows(tok, f)

CLINext == Start \/ Exit \/ Kill \/ Command

CLISpec == CLIInit /\ [][CLINext]_cliVars

-----------------------------------------------------------------------------
\* One type per attribute, over puts, loads that go through and loads that
\* stop half way: the entries of a store have the type its registry holds.
OneType ==
  \A tok \in Tokens : \A k \in Present(store[tok]) : registry[tok] = TypeOf[store[tok][k]]

\* The entries of a file come back as values of the types they were saved with.
KeepsTypes(m) == \A k \in Present(m) \ Flags(m) : TypeOf[Reloaded[m[k]]] = TypeOf[m[k]]

\* A store that has registered no type yet (a new process) can load whatever
\* earlier processes have saved, killed ones too: unless a value changes its
\* type on the way, the load does not stop half way with the store emptied.
NewStoreLoads ==
  [][last'.op = "load" /\ last'.said = "error"
       /\ registry[last'.tok] = "none" /\ KeepsTypes(disk[last'.arg].map)
     => UNCHANGED store]_cliVars

\* Types are consistent across sessions: what a load puts into a store has
\* the type of an entry that was saved under its key.
TypesAcrossSessions ==
  [][\A tok \in Tokens, f \in Files :
       last' = [op |-> "load", tok |-> tok, arg |-> f, said |-> "ok"] /\ disk[f] # NoFile =>
         \A k \in Present(store'[tok]) :
           \E j \in Present(disk[f].map) :
             KeyRead[j] = k /\ TypeOf[disk[f].map[j]] = TypeOf[store'[tok][k]]]_cliVars

=============================================================================
