--------------------------- MODULE ServerHistory ---------------------------
(***************************************************************************)
(* TCPServer with history variables, which change nothing and record what  *)
(* its properties about saves, loads and acknowledged changes compare.     *)
(***************************************************************************)
EXTENDS TCPServer

VARIABLES
  past,       \* past[t][k]: the values k has had in t's store since t read
              \* its keys, and {} when t is not at a walk
  touched,    \* touched[t]: keys others have changed in t's store since t's
              \* LOAD took the mutex
  since,      \* since[t]: the values the key of t's SET or DELETE has been
              \* given since t changed it, and {} when t has changed nothing
  kept,       \* kept[tok][k]: the values k has been given in store tok since
              \* the last acknowledged change of k that was to be saved
  adrift,     \* the stores that hold what nobody has given them: the process
              \* has just begun, or a LOAD is filling the store, or has failed;
              \* until a LOAD goes through or the store is saved
  due,        \* due[t]: what was kept when t's LOAD took the mutex
  torn        \* the files that a write of them, cut short, has left

histVars == <<past, touched, since, kept, adrift, due, torn>>

Anything == Values \cup {Absent}

\* What a LOAD puts for x in the file.
AsLoaded(x) == IF x = Absent THEN Absent ELSE Reloaded[x]

HInit ==
  /\ Init
  /\ past = [t \in Threads |-> [k \in Keys |-> {}]]
  /\ touched = [t \in Threads |-> {}]
  /\ since = [t \in Threads |-> {}]
  /\ kept = [tok \in Tokens |-> [k \in Keys |-> Anything]]
  /\ adrift = Tokens
  /\ due = [t \in Threads |-> <<>>]
  /\ torn = {}

\* Thread t walks its store for a save or JSON, or has just done so.
Walking == {"snapGet", "snapRead", "open", "write", "done"}

PastOf(t, k) ==
  IF pc'[t] \notin Walking THEN {}
  ELSE IF pc'[t] \in {"snapGet", "snapRead"} THEN past[t][k] \cup {store'[job[t].tok][k]}
  ELSE past[t][k]

\* Thread t is inside loadStore, and has read the file.
Loading(t) == pc[t] \in {"loadKeys", "loadClear", "loadPut"}

TouchedOf(t) ==
  IF pc'[t] \notin {"loadKeys", "loadClear", "loadPut"} THEN {}
  ELSE touched[t] \cup
         {k \in Keys : /\ store'[job[t].tok][k] # store[job[t].tok][k]
                       /\ \E u \in Threads \ {t} : pc'[u] # pc[u]}

\* Thread t has made the change its command asks for, and is not done.
Changing(t) ==
  /\ job[t] # Null /\ job[t].op \in {"SET", "DELETE"}
  /\ pc[t] \notin {"getStore", "put", "delete", "done"}

\* The SET or DELETE of k by thread t succeeds in this step, and autosave was
\* on when the thread looked.
Acknowledges(t, tok, k) ==
  /\ Changing(t) /\ job[t].tok = tok /\ job[t].key = k
  /\ pc'[t] = "done" /\ res'[t] # <<"ERROR">>
  /\ pc[t] = "flag" => autosave[tok]

\* Thread t's write of file f ends in this step.
Closes(t, f) == pc[t] = "write" /\ pc'[t] # "write" /\ Target(t) = f

\* A write of file f ends in this step with something else in it than was
\* written: the disk is full, or the process ends.
CutShort(f) == \E t \in Threads : Closes(t, f) /\ disk'[f] # image[t]

\* The SET or DELETE of k in store tok by thread t takes effect in this step.
Changes(t, tok, k) ==
  /\ Changing(t)' /\ ~Changing(t)
  /\ job[t].tok = tok /\ job[t].key = k

\* A LOAD into store tok by thread t goes through in this step.
Installs(t, tok) ==
  /\ pc[t] = "loadPut" /\ pc'[t] = "done" /\ res'[t] = <<"OK">>
  /\ job[t].tok = tok

\* In this step thread t ends a save of store tok over what was acknowledged in
\* it: the store that was saved was adrift.
StartsOver(t, tok) == tok \in adrift /\ Closes(t, FileOf[tok])

\* What k is given in store tok in this step: the change of a SET or DELETE, the
\* entry (or the lack of one) in a file that has been loaded, or, once the store
\* has been saved as it was, what it was.
Given(tok, k) ==
  {store'[tok][k] : t \in {u \in Threads : Changes(u, tok, k)}}
    \cup {AsLoaded(image[t].map[k]) : t \in {u \in Threads : Installs(u, tok)}}
    \cup {store[tok][k] : t \in {u \in Threads : StartsOver(u, tok)}}

SinceOf(t) ==
  IF ~Changing(t)' THEN {}
  ELSE since[t] \cup Given(job[t].tok, job[t].key)

\* A write that is cut short may leave anything.  A save of a store that was adrift
\* replaces what was acknowledged by what it has seen.  No other save, no other
\* failure and no end of the process changes what is kept.
KeptOf(tok, k) ==
  IF CutShort(FileOf[tok]) THEN Anything
  ELSE IF \E t \in Threads : StartsOver(t, tok)
  THEN Given(tok, k) \cup UNION {past[t][k] : t \in {u \in Threads : StartsOver(u, tok)}}
  ELSE {x \in kept[tok][k] \cup Given(tok, k) :
          \A t \in Threads : Acknowledges(t, tok, k) => x \in since[t]}

\* Nobody has given store tok what it holds after this step.
Emptied(tok) ==
  tok \notin known' \/ \E t \in Threads : Loading(t)' /\ job'[t].tok = tok

\* What store tok holds is from now on what it has been given.
Settles(tok) ==
  \E t \in Threads : Installs(t, tok) \/ Closes(t, FileOf[tok])

DueOf(t) ==
  CASE ~Loading(t)'              -> <<>>
    [] Loading(t)' /\ Loading(t)  -> due[t]
    [] Loading(t)' /\ ~Loading(t) -> kept

Record ==
  /\ past' = [t \in Threads |-> [k \in Keys |-> PastOf(t, k)]]
  /\ touched' = [t \in Threads |-> TouchedOf(t)]
  /\ since' = [t \in Threads |-> SinceOf(t)]
  /\ kept' = [tok \in Tokens |-> [k \in Keys |-> KeptOf(tok, k)]]
  /\ adrift' = {tok \in Tokens : Emptied(tok) \/ (tok \in adrift /\ ~Settles(tok))}
  /\ due' = [t \in Threads |-> DueOf(t)]
  /\ torn' = {f \in Files : CutShort(f) \/ (f \in torn /\ \A t \in Threads : ~Closes(t, f))}

HNext == Next /\ Record

HSpec == HInit /\ [][HNext]_<<vars, histVars>>

-----------------------------------------------------------------------------
\* What thread t has read of its store, once it has read everything.
ReadAll(t) ==
  IF pc[t] \in {"open", "write"} THEN {image[t].map}
  ELSE IF pc[t] = "done" /\ res[t][1] = "JSON" THEN {res[t][2].map}
  ELSE {}

\* A save or a JSON reply shows every key with a value (or an absence) it had
\* at some moment of the walk: nothing older, nothing deleted before, nothing
\* of another store, however the SETs and DELETEs of others interleave.
WalkIsRecent ==
  \A t \in Threads : \A m \in ReadAll(t) : \A k \in Keys : m[k] \in past[t][k]

\* A LOAD installs the file: when it has put the last entry, every key that
\* nobody else changed meanwhile is as the file has it, present or absent.
LoadInstallsFile ==
  \A t \in Threads : pc[t] = "loadPut" /\ todo[t] = {} =>
    \A k \in Keys \ touched[t] :
      store[job[t].tok][k] = AsLoaded(image[t].map[k])

\* What a LOAD gets is never a file another thread is in the middle of
\* writing: a file that is not whole is one whose last write was cut short.
PartialWasCut ==
  \A t \in Threads :
    Loading(t) /\ image[t].autosave = "missing" => Target(t) \in torn

\* What has been acknowledged is not lost.  Once the server has answered a SET
\* or DELETE that was to be saved, the store's file holds for its key that change,
\* or what a later SET, DELETE or completed LOAD has given the key, whenever nobody
\* is writing the file: whatever the threads save and load meanwhile, through LOADs
\* that fail half way, and after the process has been killed or has terminated.
\* Two things undo this, and nothing else: a write of the file that is itself cut
\* short, and a save of the store while it is adrift, which is what the code lets a
\* client do who saves (or turns autosave on or off) in a new process before he
\* LOADs, or after a LOAD that failed.
AcknowledgedKept ==
  \A tok \in Tokens, k \in Keys :
    /\ kept[tok][k] # Anything
    /\ \A t \in Threads : pc[t] = "write" => Target(t) # FileOf[tok]
    => disk[FileOf[tok]] # NoFile /\ disk[FileOf[tok]].map[k] \in kept[tok][k]

\* And it comes back.  When a LOAD of a store's file, in this process or a later
\* one, has put the last entry, each key that nobody else changed meanwhile is as
\* the last acknowledged change of it that was to be saved has left it, or as it
\* was given later, before the LOAD began.  Emptied memory and half a LOAD count
\* for nothing in this, unless they have been saved.
LoadRestores ==
  \A t \in Threads, tok \in Tokens :
    pc[t] = "loadPut" /\ todo[t] = {} /\ Target(t) = FileOf[tok] =>
      \A k \in Keys \ touched[t] : \E x \in due[t][tok][k] :
        store[job[t].tok][k] = AsLoaded(x)

=============================================================================
