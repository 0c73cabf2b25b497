----------------------- MODULE TCPServerAtomicProofs -----------------------
(***************************************************************************)
(* The command loop implements AtomicStore, for every value of the         *)
(* constants in which memory that was freed is not reused ("freed").       *)
(*                                                                         *)
(* A step of a thread changes at most the abstract answer of that thread   *)
(* (AnsweredAlone): a put() or deleteKey() may make the pointer of another *)
(* thread dangle, and leaves the value it points to.  ResFits says from    *)
(* which position on a command has its answer; with it every action of the *)
(* server is one abstract action or a stutter.                             *)
(***************************************************************************)
EXTENDS TCPServerAtomic, TCPServerProofs

\* The positions at which a command has not taken effect.
Before == {"idle", "getStore", "get", "getRead", "put", "delete", "setAutosave", "keys",
           "answer", "loadLock", "loadKeys", "loadClear", "loadPut"}

\* The positions of the walk and the save that a command may end with.
InSave == {"saveLock", "snapKeys", "snapGet", "snapRead", "open", "write"}

\* When res[t] holds a response.
ResFits(t) ==
  /\ pc[t] \in Before => res[t] = Null
  /\ pc[t] \in {"flag", "done"} => res[t] # Null
  /\ pc[t] \in InSave => (res[t] # Null <=> job[t].op \in {"SET", "DELETE"})
  /\ pc[t] = "keys" => job[t].op = "KEYS"
  /\ pc[t] = "answer" => job[t].op \in {"OTHER", "QUIT"}

\* The invariant the refinement needs.
RInv == Inv /\ \A t \in Threads : ResFits(t)

\* What a step of thread t leaves of the other threads.
Alone(t) ==
  \A u \in Threads \ {t} :
    /\ pc'[u] = pc[u] /\ job'[u] = job[u] /\ res'[u] = res[u]
    /\ pc[u] = "getRead" => ptr'[u].val = ptr[u].val

\* Only the answer of thread t may change.
LEMMA AnsweredAlone ==
  ASSUME NEW t \in Threads, Alone(t)
  PROVE  /\ Answered' = [Answered EXCEPT ![t] = Answered'[t]]
         /\ Answered'[t] = Answered[t] => Answered' = Answered
BY DEF Alone, Answered

\* The answers of the threads that take no step stay where they are.
LEMMA ResFrame ==
  ASSUME NEW t \in Threads, \A u \in Threads : ResFits(u), Alone(t), ResFits(t)'
  PROVE  \A u \in Threads : ResFits(u)'
<1>1. ASSUME NEW u \in Threads \ {t} PROVE ResFits(u)'
  BY <1>1 DEF Alone, ResFits
<1>. QED BY <1>1

\* What is freed keeps its value.
LEMMA FreedValue ==
  ASSUME RInv, NEW tok, NEW k, ptr' = Freed(tok, k), NEW u \in Threads, pc[u] = "getRead"
  PROVE  ptr'[u].val = ptr[u].val
<1>1. ptr[u] \in Pointer
  BY PointerFacts DEF RInv
<1>. QED BY <1>1 DEF Freed, Pointer

\* The end of a command with response r.
LEMMA FinishAnswers ==
  ASSUME RInv, NEW t \in Threads, NEW r, Finish(t, r), ptr' = ptr, r # Null
  PROVE  Alone(t) /\ Answered'[t] = r /\ ResFits(t)' /\ job' = job
BY DEF RInv, Inv, ThreadTypeOK, Finish, Goto, Alone, Answered, ResFits, Before, InSave

-----------------------------------------------------------------------------
\* Steps that take no effect: the positions of a command before its effect and
\* of a save after it.
Silent(t) ==
  \/ Select(t) \/ Disconnect(t) \/ GetStore(t, Entry(job[t].op)) \/ CheckAutosave(t)
  \/ TurnAutosave(t) \/ SnapKeys(t) \/ SnapGet(t) \/ SnapRead(t) \/ SaveLock(t) \/ OpenFile(t)
  \/ LoadLock(t) \/ LoadKeys(t) \/ LoadParse(t)

\* They are stutters of the abstract store.
LEMMA SilentStep ==
  ASSUME RInv, NEW t \in Threads, Silent(t)
  PROVE  Alone(t) /\ ResFits(t)' /\ UNCHANGED A!avars
<1>1. store' = store /\ job' = job /\ Alone(t)
  BY DEF RInv, Inv, ThreadTypeOK, KVTypeOK, Silent, Alone, Select, Disconnect, GetStore,
         CheckAutosave, TurnAutosave, SnapKeys, SnapGet, SnapRead, SaveLock, OpenFile, LoadLock,
         LoadKeys, LoadParse, Get, DropPointer, SetAutosave, Goto, Finish, kvVars, threadVars
<1>2. res'[t] = res[t] /\ pc[t] # "getRead" /\ pc'[t] # "getRead" /\ ResFits(t)'
  <2>1. CASE Select(t) \/ Disconnect(t)
    BY <2>1 DEF RInv, Select, Disconnect, threadVars, ResFits, Before, InSave
  <2>2. CASE GetStore(t, Entry(job[t].op))
    <3>1. pc[t] # "idle" /\ job[t].op \in AllOps
      BY <2>2, JobFacts DEF RInv, GetStore
    <3>2. pc'[t] = Entry(job[t].op) /\ res' = res /\ job' = job /\ pc[t] = "getStore"
      BY <2>2 DEF GetStore, Goto, RInv, Inv, ThreadTypeOK
    <3>3. res[t] = Null
      BY <3>2 DEF RInv, ResFits, Before
    <3>. QED BY <3>1, <3>2, <3>3 DEF Entry, AllOps, ResFits, Before, InSave
  <2>3. CASE CheckAutosave(t)
    BY <2>3 DEF RInv, Inv, Fits, JobFits, ThreadTypeOK, CheckAutosave, Goto, Finish, ResFits,
                Before, InSave
  <2>4. CASE TurnAutosave(t)
    BY <2>4 DEF RInv, Inv, Fits, JobFits, ThreadTypeOK, TurnAutosave, Goto, ResFits, Before, InSave
  <2>5. CASE SnapKeys(t) \/ SnapGet(t) \/ SnapRead(t) \/ SaveLock(t) \/ OpenFile(t)
    BY <2>5 DEF RInv, Inv, ThreadTypeOK, SnapKeys, SnapGet, SnapRead, SaveLock, OpenFile, Goto,
                ResFits, Before, InSave
  <2>6. CASE LoadLock(t) \/ LoadKeys(t) \/ LoadParse(t)
    BY <2>6 DEF RInv, Inv, ThreadTypeOK, LoadLock, LoadKeys, LoadParse, Goto, ResFits, Before, InSave
  <2>. QED BY <2>1, <2>2, <2>3, <2>4, <2>5, <2>6 DEF Silent
<1>3. Answered'[t] = Answered[t]
  BY <1>2 DEF Answered
<1>. QED BY <1>1, <1>2, <1>3, AnsweredAlone DEF A!avars

-----------------------------------------------------------------------------
\* A command arrives.
LEMMA CallStep ==
  ASSUME RInv, NEW t \in Threads, Receive(t)
  PROVE  Alone(t) /\ ResFits(t)' /\ A!Call(t)
<1>1. store' = store /\ ptr' = ptr /\ res' = res /\ Alone(t)
  BY DEF RInv, Inv, ThreadTypeOK, Receive, Goto, kvVars, Alone
<1>2. job[t] = Null /\ \E r \in Request : job' = [job EXCEPT ![t] = r]
  BY DEF RInv, Inv, Fits, JobFits, Receive
<1>3. Answered'[t] = Answered[t] /\ ResFits(t)'
  BY <1>1 DEF RInv, Inv, ThreadTypeOK, Receive, Goto, Answered, ResFits, Before, InSave
<1>. QED BY <1>1, <1>2, <1>3, AnsweredAlone DEF A!Call

\* A response leaves, and the abstract store has no answer for the thread any more.
LEMMA ReturnStep ==
  ASSUME RInv, NEW t \in Threads, Reply(t)
  PROVE  Alone(t) /\ ResFits(t)' /\ A!Return(t)
<1>1. store' = store /\ ptr' = ptr /\ Alone(t) /\ job' = [job EXCEPT ![t] = Null]
  BY DEF RInv, Inv, ThreadTypeOK, Reply, Goto, kvVars, Alone
<1>2. Answered[t] # Null /\ Answered'[t] = Null /\ ResFits(t)'
  BY DEF RInv, Inv, ThreadTypeOK, Reply, Goto, Answered, ResFits, Before, InSave
<1>. QED BY <1>1, <1>2, AnsweredAlone DEF A!Return

-----------------------------------------------------------------------------
\* GET takes effect when it has its pointer, or finds there is no entry.
LEMMA GetEffect ==
  ASSUME RInv, NEW t \in Threads, GetKey(t)
  PROVE  Alone(t) /\ ResFits(t)' /\ A!Get(t)
<1>1. /\ pc[t] = "get" /\ job[t] \in Request /\ job[t].op = "GET"
      /\ job[t].tok \in Tokens /\ job[t].key \in Keys
  BY JobFacts DEF RInv, Inv, Fits, JobFits, GetKey
<1>2. Answered[t] = Null /\ res[t] = Null /\ job[t] # Null
  BY <1>1, RequestFacts DEF RInv, ResFits, Before, Answered
<1>3. store' = store /\ job' = job /\ \A u \in Threads \ {t} : ptr'[u] = ptr[u]
  BY DEF RInv, Inv, KVTypeOK, GetKey, Get, Finish
<1>4. CASE store[job[t].tok][job[t].key] = Absent
  <2>1. Alone(t) /\ ResFits(t)' /\ Answered'[t] = <<"NOT_FOUND">>
    BY <1>3, <1>4, ResponseFacts
    DEF RInv, Inv, ThreadTypeOK, GetKey, Finish, Goto, Alone, ResFits, Answered, Before, InSave
  <2>. QED BY <1>1, <1>2, <1>3, <1>4, <2>1, AnsweredAlone DEF A!Get, A!Pending, A!Answers
<1>5. CASE store[job[t].tok][job[t].key] # Absent
  <2>1. Alone(t) /\ pc'[t] = "getRead" /\ res' = res
    BY <1>3, <1>5 DEF RInv, Inv, ThreadTypeOK, GetKey, Goto, Alone
  <2>2. ptr'[t].val = store[job[t].tok][job[t].key]
    BY <1>1, <1>5 DEF RInv, Inv, KVTypeOK, GetKey, Get
  <2>3. ResFits(t)' /\ Answered'[t] = <<"VALUE", store[job[t].tok][job[t].key]>>
    BY <1>2, <2>1, <2>2 DEF ResFits, Answered, Before, InSave
  <2>. QED BY <1>1, <1>2, <1>3, <1>5, <2>1, <2>3, AnsweredAlone DEF A!Get, A!Pending, A!Answers
<1>. QED BY <1>4, <1>5

\* Reading through the pointer of a GET gives the answer it already has.
LEMMA GetReadSilent ==
  ASSUME RInv, NEW t \in Threads, GetRead(t), "freed" \notin Faults
  PROVE  Alone(t) /\ ResFits(t)' /\ UNCHANGED A!avars
<1>1. /\ pc[t] = "getRead" /\ Finish(t, <<"VALUE", ptr[t].val>>) /\ store' = store
      /\ \A u \in Threads \ {t} : ptr'[u] = ptr[u]
  BY DEF RInv, Inv, KVTypeOK, GetRead, Dereferenced, DropPointer
<1>2. ptr[t].val \in Values
  BY <1>1, PointerFacts DEF RInv, Pointer, Dereferenced
<1>3. Alone(t) /\ ResFits(t)' /\ job' = job /\ Answered'[t] = Answered[t]
  BY <1>1, <1>2, ResponseFacts
  DEF RInv, Inv, ThreadTypeOK, Finish, Goto, Alone, ResFits, Answered, Before, InSave
<1>. QED BY <1>1, <1>3, AnsweredAlone DEF A!avars

\* SET takes effect in put().
LEMMA SetEffect ==
  ASSUME RInv, NEW t \in Threads, PutKey(t)
  PROVE  Alone(t) /\ ResFits(t)' /\ A!Set(t)
<1>1. pc[t] = "put" /\ job[t] \in Request /\ job[t].op = "SET"
  BY JobFacts DEF RInv, Inv, Fits, JobFits, PutKey
<1>2. Answered[t] = Null /\ job[t] # Null
  BY <1>1, RequestFacts DEF RInv, ResFits, Before, Answered
<1>3. Alone(t) /\ ResFits(t)' /\ Answered'[t] = <<"OK">>
  BY <1>1, FreedValue, ResponseFacts
  DEF RInv, Inv, ThreadTypeOK, PutKey, Put, Goto, Alone, ResFits, Answered, Before, InSave
<1>4. job' = job /\ store' = [store EXCEPT ![job[t].tok][job[t].key] = job[t].val]
  BY DEF PutKey, Put
<1>. QED BY <1>1, <1>2, <1>3, <1>4, AnsweredAlone DEF A!Set, A!Pending, A!Answers

\* DELETE takes effect in deleteKey().
LEMMA DeleteEffect ==
  ASSUME RInv, NEW t \in Threads, EraseKey(t)
  PROVE  Alone(t) /\ ResFits(t)' /\ A!Delete(t)
<1> DEFINE r == IF store[job[t].tok][job[t].key] = Absent THEN <<"NOT_FOUND">> ELSE <<"OK">>
<1>1. pc[t] = "delete" /\ job[t] \in Request /\ job[t].op = "DELETE"
  BY JobFacts DEF RInv, Inv, Fits, JobFits, EraseKey
<1>2. Answered[t] = Null /\ job[t] # Null
  BY <1>1, RequestFacts DEF RInv, ResFits, Before, Answered
<1>3. Alone(t) /\ ResFits(t)' /\ Answered'[t] = r
  BY <1>1, FreedValue, ResponseFacts
  DEF RInv, Inv, ThreadTypeOK, EraseKey, DeleteKey, Goto, Alone, ResFits, Answered, Before, InSave
<1>4. job' = job /\ store' = [store EXCEPT ![job[t].tok][job[t].key] = Absent]
  BY DEF EraseKey, DeleteKey
<1>. QED BY <1>1, <1>2, <1>3, <1>4, AnsweredAlone DEF A!Delete, A!Pending, A!Answers

\* KEYS takes effect in keys().
LEMMA KeysEffect ==
  ASSUME RInv, NEW t \in Threads, ListKeys(t)
  PROVE  Alone(t) /\ ResFits(t)' /\ A!ListKeys(t)
<1>1. pc[t] = "keys" /\ job[t] \in Request /\ job[t].op = "KEYS"
  BY JobFacts DEF RInv, ResFits, ListKeys
<1>2. Answered[t] = Null /\ job[t] # Null
  BY <1>1, RequestFacts DEF RInv, ResFits, Before, Answered
<1>3. /\ Finish(t, <<"KEYS", Present(store[job[t].tok])>>) /\ ptr' = ptr /\ store' = store
      /\ <<"KEYS", Present(store[job[t].tok])>> # Null
  BY ResponseFacts DEF ListKeys, kvVars, Present
<1>4. Alone(t) /\ ResFits(t)' /\ job' = job /\ Answered'[t] = <<"KEYS", Present(store[job[t].tok])>>
  BY <1>3, FinishAnswers
<1>. QED BY <1>1, <1>2, <1>3, <1>4, AnsweredAlone DEF A!ListKeys, A!Pending, A!Answers, Present

-----------------------------------------------------------------------------
\* A command that changes no store ends.
LEMMA OtherEnds ==
  ASSUME RInv, NEW t \in Threads, NEW r \in {<<"OK">>, <<"ERROR">>}, Finish(t, r),
         UNCHANGED <<store, ptr>>, res[t] = Null, pc[t] # "getRead", job[t] # Null,
         job[t].op \in {"AUTOSAVE", "SAVE", "LOAD", "OTHER", "QUIT"}
  PROVE  Alone(t) /\ ResFits(t)' /\ A!Other(t)
<1>1. Alone(t) /\ ResFits(t)' /\ job' = job /\ Answered'[t] = r
  BY ResponseFacts, FinishAnswers
<1>2. Answered[t] = Null
  BY DEF Answered
<1>. QED BY <1>1, <1>2, AnsweredAlone DEF A!Other, A!Pending, A!Answers

\* A command that has taken effect ends with the response it has.
LEMMA SettledEnds ==
  ASSUME RInv, NEW t \in Threads, Finish(t, res[t]), UNCHANGED <<store, ptr>>,
         res[t] # Null, pc[t] # "getRead"
  PROVE  Alone(t) /\ ResFits(t)' /\ UNCHANGED A!avars
<1>1. Alone(t) /\ ResFits(t)' /\ job' = job /\ Answered'[t] = res[t]
  BY FinishAnswers
<1>2. Answered[t] = res[t]
  BY DEF Answered
<1>. QED BY <1>1, <1>2, AnsweredAlone DEF A!avars

\* A refused command and a QUIT end without an effect.
LEMMA AnswerEffect ==
  ASSUME RInv, NEW t \in Threads, Answer(t)
  PROVE  Alone(t) /\ ResFits(t)' /\ A!Other(t)
<1>1. res[t] = Null /\ job[t] # Null /\ job[t].op \in {"OTHER", "QUIT"}
  BY DEF RInv, Inv, Fits, JobFits, ResFits, Before, Answer
<1>2. \E r \in {<<"OK">>, <<"ERROR">>} : Finish(t, r)
  BY DEF Answer
<1>3. UNCHANGED <<store, ptr>> /\ pc[t] # "getRead"
  BY DEF Answer, kvVars
<1>. QED BY <1>1, <1>2, <1>3, OtherEnds

\* LOAD ends: the missing file, the unreadable one, the mismatch, the last entry.
LEMMA LoadEnds ==
  ASSUME RInv, NEW t \in Threads,
         LoadMissing(t) \/ LoadUnreadable(t) \/ LoadThrows(t) \/ LoadFlag(t)
  PROVE  Alone(t) /\ ResFits(t)' /\ A!Other(t)
<1>1. res[t] = Null /\ job[t] # Null /\ job[t].op = "LOAD"
  BY DEF RInv, Inv, Fits, JobFits, ResFits, Before, LoadMissing, LoadUnreadable, LoadThrows, LoadFlag
<1>2. \E r \in {<<"OK">>, <<"ERROR">>} : Finish(t, r)
  BY DEF LoadMissing, LoadUnreadable, LoadThrows, LoadFlag
<1>3. UNCHANGED <<store, ptr>> /\ pc[t] # "getRead"
  BY DEF LoadMissing, LoadUnreadable, LoadThrows, LoadFlag, SetAutosave, kvVars
<1>. QED BY <1>1, <1>2, <1>3, OtherEnds

\* While LOAD is at it, it changes its store entry by entry.
LEMMA LoadEffect ==
  ASSUME RInv, NEW t \in Threads, LoadClear(t) \/ LoadPut(t)
  PROVE  Alone(t) /\ ResFits(t)' /\ A!LoadEntry(t)
<1>1. /\ pc[t] \in {"loadClear", "loadPut"} /\ job[t] # Null /\ job[t].op = "LOAD" /\ res[t] = Null
      /\ job' = job /\ res' = res /\ pc' = pc
  BY DEF RInv, Inv, Fits, JobFits, ResFits, Before, LoadClear, LoadPut
<1>2. PICK k \in Keys, v \in Values \cup {Absent} :
        store' = [store EXCEPT ![job[t].tok][k] = v] /\ ptr' = Freed(job[t].tok, k)
  <2>1. CASE LoadClear(t)
    BY <2>1 DEF RInv, Inv, ThreadTypeOK, LoadClear, DeleteKey
  <2>2. CASE LoadPut(t)
    <3>1. PICK k \in todo[t] : Put(job[t].tok, k, Reloaded[image[t].map[k]])
      BY <2>2 DEF LoadPut
    <3>2. k \in Keys /\ image[t] \in FileImage /\ image[t].map[k] # Absent
      BY <2>2 DEF RInv, Inv, ThreadTypeOK, LoadPut, Fits, DataFits, Present
    <3>3. Reloaded[image[t].map[k]] \in Values
      BY <3>2, ManagerAssumption DEF FileImage, Contents
    <3>. QED BY <3>1, <3>2, <3>3 DEF Put
  <2>. QED BY <2>1, <2>2
<1>3. Alone(t)
  BY <1>1, <1>2, FreedValue DEF Alone
<1>4. ResFits(t)' /\ Answered'[t] = Answered[t] /\ Answered[t] = Null
  BY <1>1 DEF RInv, ResFits, Answered
<1>. QED BY <1>1, <1>2, <1>3, <1>4, AnsweredAlone DEF A!LoadEntry, A!Pending

-----------------------------------------------------------------------------
\* JSON answers with what it has read; a save goes on to its file.
LEMMA SnapFlagEffect ==
  ASSUME RInv, NEW t \in Threads, SnapFlag(t)
  PROVE  Alone(t) /\ ResFits(t)' /\ (A!Json(t) \/ UNCHANGED A!avars)
<1> DEFINE whole == [image[t] EXCEPT !.autosave = FlagText(autosave[job[t].tok])]
<1>1. pc[t] = "snapGet" /\ UNCHANGED <<store, ptr>> /\ job[t] # Null
  BY DEF RInv, Inv, Fits, JobFits, SnapFlag, kvVars
<1>2. CASE job[t].op = "JSON"
  <2>1. whole \in FileImage
    <3>1. image[t] \in FileImage
      BY <1>1 DEF RInv, Inv, Fits, DataFits, ThreadTypeOK
    <3>2. autosave[job[t].tok] \in BOOLEAN
      BY <1>1, JobFacts DEF RInv, Inv, KVTypeOK
    <3>. QED BY <3>1, <3>2, FileFacts
  <2>2. <<"JSON", whole>> \in Response /\ <<"JSON", whole>> # Null
    BY <2>1, ResponseFacts
  <2>3. Finish(t, <<"JSON", whole>>)
    BY <1>2 DEF SnapFlag
  <2>4. Alone(t) /\ ResFits(t)' /\ job' = job /\ Answered'[t] = <<"JSON", whole>>
    BY <1>1, <2>2, <2>3, FinishAnswers
  <2>5. Answered[t] = Null
    BY <1>1, <1>2 DEF RInv, ResFits, InSave, Answered
  <2>. QED BY <1>1, <1>2, <2>2, <2>4, <2>5, AnsweredAlone DEF A!Json, A!Pending, A!Answers
<1>3. CASE job[t].op # "JSON"
  <2>1. job' = job /\ res' = res /\ Goto(t, "open")
    BY <1>3 DEF SnapFlag
  <2>2. Alone(t) /\ ResFits(t)' /\ Answered'[t] = Answered[t]
    BY <1>1, <2>1 DEF RInv, Inv, ThreadTypeOK, Goto, Alone, ResFits, Answered, Before, InSave
  <2>. QED BY <1>1, <2>1, <2>2, AnsweredAlone DEF A!avars
<1>. QED BY <1>2, <1>3

\* A save that reaches the file ends its command: with the response of the SET
\* or DELETE, or with the OK of an AUTOSAVE or SAVE.
LEMMA WriteEffect ==
  ASSUME RInv, NEW t \in Threads, WriteFile(t) \/ WriteShort(t)
  PROVE  Alone(t) /\ ResFits(t)' /\ (A!Other(t) \/ UNCHANGED A!avars)
<1>1. /\ pc[t] = "write" /\ job[t] # Null /\ job[t].op \in Saving
      /\ UNCHANGED <<store, ptr>> /\ Finish(t, Settled(t))
  BY DEF RInv, Inv, Fits, JobFits, WriteFile, WriteShort, kvVars
<1>2. CASE job[t].op \in {"SET", "DELETE"}
  <2>1. res[t] # Null
    BY <1>1, <1>2 DEF RInv, ResFits, InSave
  <2>. QED BY <1>1, <2>1, SettledEnds DEF Settled
<1>3. CASE job[t].op \in {"AUTOSAVE", "SAVE"}
  <2>1. res[t] = Null
    BY <1>1, <1>3 DEF RInv, ResFits, InSave
  <2>. QED BY <1>1, <1>3, <2>1, OtherEnds DEF Settled
<1>. QED BY <1>1, <1>2, <1>3 DEF Saving

\* A save that cannot open its file fails its command, after the effect of a SET
\* or DELETE.
LEMMA OpenFailsEffect ==
  ASSUME RInv, NEW t \in Threads, OpenFails(t)
  PROVE  Alone(t) /\ ResFits(t)' /\ (A!Other(t) \/ A!AutosaveFails(t))
<1>1. /\ pc[t] = "open" /\ job[t] # Null /\ job[t].op \in Saving
      /\ UNCHANGED <<store, ptr>> /\ Finish(t, <<"ERROR">>)
  BY DEF RInv, Inv, Fits, JobFits, OpenFails, kvVars
<1>2. CASE job[t].op \in {"SET", "DELETE"}
  <2>1. Answered[t] # Null
    BY <1>1, <1>2 DEF RInv, ResFits, InSave, Answered
  <2>2. Alone(t) /\ ResFits(t)' /\ job' = job /\ Answered'[t] = <<"ERROR">>
    BY <1>1, ResponseFacts, FinishAnswers
  <2>. QED BY <1>1, <1>2, <2>1, <2>2, AnsweredAlone DEF A!AutosaveFails, A!Answers
<1>3. CASE job[t].op \in {"AUTOSAVE", "SAVE"}
  <2>1. res[t] = Null
    BY <1>1, <1>3 DEF RInv, ResFits, InSave
  <2>. QED BY <1>1, <1>3, <2>1, OtherEnds
<1>. QED BY <1>1, <1>2, <1>3 DEF Saving

\* The end of the process is the crash of the abstract store.
LEMMA DiesEffect ==
  ASSUME RInv, Dies
  PROVE  A!Crash /\ \A u \in Threads : ResFits(u)'
<1>1. A!Crash
  BY DEF Dies, Wiped, EmptyStore, Answered, A!Crash
<1>. QED BY <1>1 DEF Dies, ResFits, Before, InSave

-----------------------------------------------------------------------------
\* Every step of one thread is a step of the abstract store for that thread,
\* or a stutter.
LEMMA ServeEffect ==
  ASSUME RInv, NEW t \in Threads, Serve(t), "freed" \notin Faults
  PROVE  Alone(t) /\ ResFits(t)' /\ [A!Next]_(A!avars)
<1>1. CASE Silent(t)
  BY <1>1, SilentStep
<1>2. CASE Receive(t) \/ Reply(t)
  BY <1>2, CallStep, ReturnStep DEF A!Next
<1>3. CASE GetKey(t) \/ GetRead(t) \/ PutKey(t) \/ EraseKey(t) \/ ListKeys(t) \/ Answer(t)
  BY <1>3, GetEffect, GetReadSilent, SetEffect, DeleteEffect, KeysEffect, AnswerEffect DEF A!Next
<1>4. CASE SnapFlag(t) \/ WriteFile(t) \/ WriteShort(t) \/ OpenFails(t)
  BY <1>4, SnapFlagEffect, WriteEffect, OpenFailsEffect DEF A!Next
<1>5. CASE LoadMissing(t) \/ LoadUnreadable(t) \/ LoadThrows(t) \/ LoadFlag(t)
  BY <1>5, LoadEnds DEF A!Next
<1>6. CASE LoadClear(t) \/ LoadPut(t)
  BY <1>6, LoadEffect DEF A!Next
<1>. QED BY <1>1, <1>2, <1>3, <1>4, <1>5, <1>6 DEF Serve, Command, Silent, Snapshot, Save, Load

\* Every step of the server keeps RInv and is a step of the abstract store or a
\* stutter.
LEMMA StepRefines ==
  ASSUME "freed" \notin Faults
  PROVE  RInv /\ [Next]_vars => RInv' /\ [A!Next]_(A!avars)
<1>. SUFFICES ASSUME RInv, [Next]_vars
              PROVE  (\A u \in Threads : ResFits(u)') /\ [A!Next]_(A!avars)
  BY NextInv DEF RInv
<1>1. CASE UNCHANGED vars
  BY <1>1 DEF RInv, ResFits, vars, kvVars, threadVars, Answered, A!avars
<1>2. ASSUME NEW t \in Threads, Serve(t)
      PROVE  (\A u \in Threads : ResFits(u)') /\ [A!Next]_(A!avars)
  BY <1>2, ServeEffect, ResFrame DEF RInv
<1>3. CASE Dies
  BY <1>3, DiesEffect DEF A!Next
<1>4. CASE Restart
  BY <1>4 DEF RInv, ResFits, Restart, kvVars, threadVars, Answered, A!avars
<1>. QED BY <1>1, <1>2, <1>3, <1>4 DEF Next, Abort, SetAborts, FreedReadAborts, Kill

\* GET, SET, DELETE and KEYS take effect atomically and are answered with what
\* happened, for any numbers of threads, stores, keys and values, whatever saves
\* and loads run beside them, whichever files fail and whenever the process ends.
THEOREM ServerIsAtomic ==
  ASSUME "freed" \notin Faults
  PROVE  Spec => Atomic
<1>1. Init => RInv /\ A!Init
  <2>1. Init => \A t \in Threads : ResFits(t)
    BY DEF Init, ManagerInit, ResFits, Before, InSave
  <2>2. Init => A!Init
    BY DEF Init, ManagerInit, KVInit, EmptyStore, Answered, A!Init
  <2>. QED BY <2>1, <2>2, InitInv DEF RInv
<1>2. RInv /\ [Next]_vars => RInv' /\ [A!Next]_(A!avars)
  BY StepRefines
<1>. QED BY <1>1, <1>2, PTL DEF Spec, Atomic, A!Spec

=============================================================================
