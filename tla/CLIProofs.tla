----------------------------- MODULE CLIProofs -----------------------------
(***************************************************************************)
(* Theorems about CLI, for all sets of tokens, keys, values and files, all *)
(* faults, and whatever the JSON text makes of values and keys, as long as *)
(* what has been read once is read as itself (CLIAssumption); and about    *)
(* the texts of the files, for all keys and values that the scanner takes  *)
(* apart as they were put together (TextAssumption).                       *)
(***************************************************************************)
EXTENDS CLIText, ConversionsProofs

-----------------------------------------------------------------------------
(* Entries and files.                                                      *)

LEMMA OnlyType == ASSUME NEW m \in Contents, NEW S PROVE Only(S, m) \in Contents
BY DEF Only, Contents

LEMMA FlagTextType == ASSUME NEW on PROVE FlagText(on) \in {"true", "false"}
BY DEF FlagText

LEMMA WrittenType ==
  ASSUME NEW m \in Contents, NEW on
  PROVE  Written(m, on) \in FileImage /\ Written(m, on).map = m
BY FlagTextType DEF Written, FileImage

LEMMA CutsType == ASSUME NEW i \in FileImage PROVE Cuts(i) \subseteq FileImage
<1>1. i.map \in Contents /\ i = [map |-> i.map, autosave |-> i.autosave]
  BY DEF FileImage
<1>2. {Only(S, i.map) : S \in SUBSET Present(i.map)} \subseteq Contents
  BY <1>1, OnlyType
<1>3. ({"missing"} \cup {"false" : k \in Flags(i.map)}) \subseteq {"true", "false", "missing"}
  OBVIOUS
<1>4. [map: {Only(S, i.map) : S \in SUBSET Present(i.map)},
       autosave: {"missing"} \cup {"false" : k \in Flags(i.map)}] \subseteq FileImage
  BY <1>2, <1>3 DEF FileImage
<1>5. [i EXCEPT !.autosave = "false"] \in FileImage
  BY <1>1 DEF FileImage
<1> QED BY <1>4, <1>5 DEF Cuts

LEMMA WriteType ==
  ASSUME disk \in [Files -> FileImage \cup {NoFile}], NEW f \in Files, NEW image \in FileImage,
         NEW said, Write(f, image, said)
  PROVE  /\ disk' \in [Files -> FileImage \cup {NoFile}]
         /\ \A g \in Files \ {f} : disk'[g] = disk[g]
         /\ said = "ok" => disk'[f] = image
         /\ said = "error" => disk' = disk
<1>1. CASE said = "ok" /\ disk' = [disk EXCEPT ![f] = image]
  BY <1>1
<1>2. ASSUME said = "short", NEW part \in Cuts(image), disk' = [disk EXCEPT ![f] = part]
      PROVE  /\ disk' \in [Files -> FileImage \cup {NoFile}]
             /\ \A g \in Files \ {f} : disk'[g] = disk[g]
             /\ said # "ok" /\ said # "error"
  <2>1. part \in FileImage
    BY CutsType
  <2> QED BY <1>2, <2>1
<1>3. CASE said = "error" /\ UNCHANGED disk
  BY <1>3
<1> QED BY <1>1, <1>2, <1>3 DEF Write

\* What a load finds under key j are values of entries that are read as j.
LEMMA ReadingsDef ==
  ASSUME NEW m \in Contents, NEW r
  PROVE  r \in Readings(m) <=>
           /\ r \in Contents
           /\ \A j \in Keys :
                IF {k \in Present(m) : KeyRead[k] = j} = {} THEN r[j] = Absent
                ELSE \E k \in {l \in Present(m) : KeyRead[l] = j} : r[j] = Reloaded[m[k]]
BY DEF Readings

\* The entries that are not read as the autosave flag are all that a load
\* makes entries of.
LEMMA FlagsAreNoEntries ==
  ASSUME NEW m \in Contents
  PROVE  Readings(Only(Present(m) \ Flags(m), m)) = Readings(m)
<1>1. Only(Present(m) \ Flags(m), m) \in Contents
  BY OnlyType
<1>2. ASSUME NEW j \in Keys
      PROVE  {k \in Present(Only(Present(m) \ Flags(m), m)) : KeyRead[k] = j} = {k \in Present(m) : KeyRead[k] = j}
  <2>1. j # Null
    BY CLIAssumption
  <2> QED BY <2>1 DEF Only, Present, Flags
<1>3. ASSUME NEW j \in Keys, NEW k \in {l \in Present(m) : KeyRead[l] = j}
      PROVE  Only(Present(m) \ Flags(m), m)[k] = m[k]
  <2>1. j # Null
    BY CLIAssumption
  <2> QED BY <2>1 DEF Only, Present, Flags
<1>4. ASSUME NEW r PROVE r \in Readings(Only(Present(m) \ Flags(m), m)) <=> r \in Readings(m)
  <2>1. PICK e : e = Only(Present(m) \ Flags(m), m)
    OBVIOUS
  <2>2. ASSUME NEW j \in Keys
        PROVE  (IF {k \in Present(e) : KeyRead[k] = j} = {} THEN r[j] = Absent
                ELSE \E k \in {l \in Present(e) : KeyRead[l] = j} : r[j] = Reloaded[e[k]])
               <=>
               (IF {k \in Present(m) : KeyRead[k] = j} = {} THEN r[j] = Absent
                ELSE \E k \in {l \in Present(m) : KeyRead[l] = j} : r[j] = Reloaded[m[k]])
    <3>1. {k \in Present(e) : KeyRead[k] = j} = {k \in Present(m) : KeyRead[k] = j}
      BY <1>2, <2>1
    <3>2. \A k \in {l \in Present(m) : KeyRead[l] = j} : e[k] = m[k]
      BY <1>3, <2>1
    <3> QED BY <3>1, <3>2
  <2>3. e \in Contents
    BY <1>1, <2>1
  <2>4. r \in Readings(e) <=>
          /\ r \in Contents
          /\ \A j \in Keys :
               IF {k \in Present(e) : KeyRead[k] = j} = {} THEN r[j] = Absent
               ELSE \E k \in {l \in Present(e) : KeyRead[l] = j} : r[j] = Reloaded[e[k]]
    BY <2>3, ReadingsDef
  <2>5. r \in Readings(m) <=>
          /\ r \in Contents
          /\ \A j \in Keys :
               IF {k \in Present(m) : KeyRead[k] = j} = {} THEN r[j] = Absent
               ELSE \E k \in {l \in Present(m) : KeyRead[l] = j} : r[j] = Reloaded[m[k]]
    BY ReadingsDef
  <2>6. r \in Readings(e) <=> r \in Readings(m)
    BY <2>2, <2>4, <2>5
  <2> QED BY <2>1, <2>6
<1> QED BY <1>4

\* What has been loaded reads, once it is saved, as the file it came from.
LEMMA ReadTwice ==
  ASSUME NEW m \in Contents, NEW r \in Readings(m)
  PROVE  Readings(r) \subseteq Readings(m)
<1>1. r \in Contents
  BY ReadingsDef
<1>2. ASSUME NEW k \in Keys, r[k] # Absent
      PROVE  KeyRead[k] = k /\ \E l \in Present(m) : KeyRead[l] = k /\ r[k] = Reloaded[m[l]]
  <2>1. PICK l \in Present(m) : KeyRead[l] = k /\ r[k] = Reloaded[m[l]]
    BY <1>2, ReadingsDef
  <2>2. l \in Keys /\ k # Null
    BY <2>1, CLIAssumption DEF Present
  <2>3. KeyRead[k] = k
    BY <2>1, <2>2, CLIAssumption
  <2> QED BY <2>1, <2>3
<1>3. ASSUME NEW l \in Present(m) PROVE m[l] \in Values
  BY DEF Present, Contents
<1>4. ASSUME NEW q \in Readings(r), NEW j \in Keys
      PROVE  IF {k \in Present(m) : KeyRead[k] = j} = {} THEN q[j] = Absent
             ELSE \E k \in {l \in Present(m) : KeyRead[l] = j} : q[j] = Reloaded[m[k]]
  <2>1. CASE r[j] = Absent
    <3>1. {k \in Present(m) : KeyRead[k] = j} = {}
      <4>1. ASSUME NEW l \in Present(m), KeyRead[l] = j PROVE FALSE
        <5>1. PICK k \in Present(m) : r[j] = Reloaded[m[k]]
          BY <4>1, ReadingsDef
        <5>2. Reloaded[m[k]] \in Values
          BY <1>3, CLIAssumption
        <5> QED BY <2>1, <5>1, <5>2, StoreAssumption
      <4> QED BY <4>1
    <3>2. {k \in Present(r) : KeyRead[k] = j} = {}
      <4>1. ASSUME NEW k \in Present(r), KeyRead[k] = j PROVE FALSE
        BY <1>2, <2>1, <4>1 DEF Present
      <4> QED BY <4>1
    <3>3. q[j] = Absent
      BY <1>1, <3>2, ReadingsDef
    <3> QED BY <3>1, <3>3
  <2>2. CASE r[j] # Absent
    <3>1. j \in Present(r) /\ KeyRead[j] = j
      BY <1>2, <2>2 DEF Present
    <3>2. PICK k \in Present(r) : KeyRead[k] = j /\ q[j] = Reloaded[r[k]]
      BY <1>1, <3>1, ReadingsDef
    <3>3. k = j
      BY <1>2, <3>2 DEF Present
    <3>4. PICK l \in Present(m) : KeyRead[l] = j /\ r[j] = Reloaded[m[l]]
      BY <1>2, <2>2
    <3>5. q[j] = Reloaded[m[l]]
      BY <1>3, <3>2, <3>3, <3>4, CLIAssumption
    <3> QED BY <3>4, <3>5
  <2> QED BY <2>1, <2>2
<1>5. ASSUME NEW q \in Readings(r) PROVE q \in Readings(m)
  <2>1. q \in Contents
    BY <1>1, ReadingsDef
  <2> QED BY <1>4, <2>1, ReadingsDef
<1> QED BY <1>5

-----------------------------------------------------------------------------
(* Types, and one type for the entries of a store.                         *)

CInv == CLITypeOK /\ OneType

LEMMA FreedType ==
  ASSUME KVTypeOK, NEW tok, NEW k
  PROVE  Freed(tok, k) \in [Threads -> Pointer \cup {Null}]
<1>1. ASSUME NEW u \in Threads, ptr[u] # Null PROVE [ptr[u] EXCEPT !.live = FALSE] \in Pointer
  <2>1. ptr[u] \in Pointer
    BY <1>1 DEF KVTypeOK
  <2> QED BY <2>1 DEF Pointer
<1> QED BY <1>1 DEF Freed, KVTypeOK

LEMMA PutKeeps ==
  ASSUME KVTypeOK, OneType, NEW tok \in Tokens, NEW k \in Keys, NEW v \in Values, Put(tok, k, v)
  PROVE  KVTypeOK' /\ OneType' /\ \A u \in Tokens \ {tok} : store'[u] = store[u]
<1>1. TypeOf[v] \in Types /\ v # Absent
  BY StoreAssumption
<1>2. KVTypeOK'
  <2>1. store' \in [Tokens -> Contents]
    BY DEF Put, KVTypeOK, Contents
  <2>2. registry' \in [Tokens -> Types \cup {"none"}]
    BY <1>1 DEF Put, KVTypeOK
  <2>3. ptr' \in [Threads -> Pointer \cup {Null}]
    BY FreedType DEF Put
  <2> QED BY <2>1, <2>2, <2>3 DEF Put, KVTypeOK
<1>3. ASSUME NEW u \in Tokens \ {tok} PROVE store'[u] = store[u] /\ registry'[u] = registry[u]
  BY DEF Put, KVTypeOK
<1>4. registry[tok] \in {"none", TypeOf[v]} /\ registry'[tok] = TypeOf[v]
  BY DEF Put, Mismatch, KVTypeOK
<1>5. store'[tok] = [store[tok] EXCEPT ![k] = v] /\ store[tok] \in Contents
  BY DEF Put, KVTypeOK
<1>6. ASSUME NEW j \in Keys, store'[tok][j] # Absent PROVE registry'[tok] = TypeOf[store'[tok][j]]
  <2>1. CASE j = k
    BY <1>4, <1>5, <2>1 DEF Contents
  <2>2. CASE j # k
    <3>1. store'[tok][j] = store[tok][j]
      BY <1>5, <2>2 DEF Contents
    <3>2. registry[tok] = TypeOf[store[tok][j]]
      BY <1>6, <3>1 DEF OneType, Present
    <3>3. store[tok][j] \in Values
      BY <1>5, <1>6, <3>1 DEF Contents
    <3>4. registry[tok] # "none"
      BY <3>2, <3>3, StoreAssumption DEF Types
    <3> QED BY <1>4, <3>1, <3>2, <3>4
  <2> QED BY <2>1, <2>2
<1>7. OneType'
  BY <1>3, <1>6 DEF OneType, Present
<1> QED BY <1>2, <1>3, <1>7

LEMMA DeleteKeeps ==
  ASSUME KVTypeOK, OneType, NEW tok \in Tokens, NEW k \in Keys, DeleteKey(tok, k)
  PROVE  KVTypeOK' /\ OneType' /\ \A u \in Tokens \ {tok} : store'[u] = store[u]
<1>1. store' \in [Tokens -> Contents]
  BY DEF DeleteKey, KVTypeOK, Contents
<1>2. ptr' \in [Threads -> Pointer \cup {Null}]
  BY FreedType DEF DeleteKey
<1>3. ASSUME NEW u \in Tokens, NEW j \in Keys, store'[u][j] # Absent PROVE store'[u][j] = store[u][j]
  BY <1>3 DEF DeleteKey, KVTypeOK, Contents
<1>4. \A u \in Tokens \ {tok} : store'[u] = store[u]
  BY DEF DeleteKey, KVTypeOK
<1>5. OneType'
  BY <1>3 DEF OneType, Present, DeleteKey
<1> QED BY <1>1, <1>2, <1>4, <1>5 DEF DeleteKey, KVTypeOK

LEMMA InstallsKeeps ==
  ASSUME KVTypeOK, OneType, NEW tok \in Tokens, NEW m \in Contents, NEW D \in SUBSET Present(m),
         NEW ty \in Types \cup {"none"}, Installs(tok, m, D, ty), autosave' \in [Tokens -> BOOLEAN]
  PROVE  /\ KVTypeOK' /\ OneType'
         /\ \A u \in Tokens \ {tok} : store'[u] = store[u]
         /\ store'[tok] \in Readings(Only(D, m))
<1>1. PICK r \in Readings(Only(D, m)) : store' = [store EXCEPT ![tok] = r]
  BY DEF Installs
<1>2. Only(D, m) \in Contents /\ r \in Contents
  BY OnlyType, ReadingsDef
<1>3. KVTypeOK'
  BY <1>1, <1>2 DEF Installs, KVTypeOK
<1>4. /\ store'[tok] = r /\ registry'[tok] = ty
      /\ \A u \in Tokens \ {tok} : store'[u] = store[u] /\ registry'[u] = registry[u]
  BY <1>1 DEF Installs, KVTypeOK
<1>5. ASSUME NEW j \in Keys, r[j] # Absent PROVE TypeOf[r[j]] = ty
  <2>1. PICK l \in Present(Only(D, m)) : r[j] = Reloaded[Only(D, m)[l]]
    BY <1>2, <1>5, ReadingsDef
  <2>2. l \in D /\ Only(D, m)[l] = m[l]
    BY <2>1 DEF Present, Only
  <2> QED BY <2>1, <2>2 DEF Installs
<1>6. OneType'
  BY <1>4, <1>5 DEF OneType, Present
<1> QED BY <1>1, <1>3, <1>4, <1>6

LEMMA WipedKeeps == ASSUME Wiped PROVE KVTypeOK' /\ OneType'
<1>1. EmptyStore \in Contents
  BY DEF EmptyStore, Contents
<1>2. KVTypeOK'
  BY <1>1 DEF Wiped, KVTypeOK
<1>3. OneType'
  BY DEF Wiped, OneType, Present, EmptyStore
<1> QED BY <1>2, <1>3

LEMMA PrintsType ==
  ASSUME NEW op \in Ops, NEW tok \in Tokens \cup {Null}, NEW arg \in Keys \cup Files \cup {Null},
         NEW said \in {"ok", "short", "unsaved", "error"}, Prints(op, tok, arg, said)
  PROVE  /\ last' \in Shown
         /\ last'.op = op /\ last'.tok = tok /\ last'.arg = arg /\ last'.said = said
BY DEF Prints, Shown

LEMMA SaveChangeType ==
  ASSUME CLITypeOK, store' \in [Tokens -> Contents], NEW op \in Ops, NEW tok \in Tokens,
         NEW arg \in Keys \cup {Null}, SaveChange(op, tok, arg)
  PROVE  /\ disk' \in [Files -> FileImage \cup {NoFile}]
         /\ last' \in Shown /\ last'.op = op /\ last'.tok = tok /\ last'.said # "error"
         /\ \A g \in Files : ~(auto /\ FileOf[tok] = g) => disk'[g] = disk[g]
         /\ auto /\ last'.said = "ok" => disk'[FileOf[tok]] = Written(store'[tok], autosave[tok])
<1>1. FileOf[tok] \in Files /\ Written(store'[tok], autosave[tok]) \in FileImage
  BY WrittenType, CLIAssumption
<1>2. disk \in [Files -> FileImage \cup {NoFile}]
  BY DEF CLITypeOK
<1>3. CASE auto
  <2>1. PICK said \in {"ok", "short", "error"} :
          /\ Write(FileOf[tok], Written(store'[tok], autosave[tok]), said)
          /\ Prints(op, tok, arg, IF said = "error" THEN "unsaved" ELSE said)
    BY <1>3 DEF SaveChange
  <2>2. last' \in Shown /\ last'.op = op /\ last'.tok = tok
        /\ last'.said = IF said = "error" THEN "unsaved" ELSE said
    <3>1. (IF said = "error" THEN "unsaved" ELSE said) \in {"ok", "short", "unsaved", "error"}
      BY <2>1
    <3> QED BY <2>1, <3>1, PrintsType
  <2>3. /\ disk' \in [Files -> FileImage \cup {NoFile}]
        /\ \A g \in Files \ {FileOf[tok]} : disk'[g] = disk[g]
        /\ said = "ok" => disk'[FileOf[tok]] = Written(store'[tok], autosave[tok])
    BY <1>1, <1>2, <2>1, WriteType
  <2> QED BY <1>3, <2>1, <2>2, <2>3
<1>4. CASE ~auto
  BY <1>2, <1>4, PrintsType DEF SaveChange
<1> QED BY <1>3, <1>4

LEMMA UnchangedStores == ASSUME KVTypeOK, OneType, UNCHANGED kvVars PROVE KVTypeOK' /\ OneType'
BY DEF kvVars, KVTypeOK, OneType, Present

LEMMA EndsKeeps == ASSUME Ends PROVE KVTypeOK' /\ OneType' /\ known' = {} /\ ~up'
BY WipedKeeps DEF Ends

LEMMA KillKeeps == ASSUME CInv, Kill PROVE CInv'
<1>1. ASSUME NEW f, NEW part \in Remains(f) PROVE part \in FileImage
  <2>1. PICK i \in InFlight(f) : part \in Cuts(i) \cup {i}
    BY <1>1 DEF Remains
  <2>2. i \in FileImage
    <3>1. CASE i \in {Written(store[tok], autosave[tok]) : tok \in known}
      BY <3>1, WrittenType DEF CInv, CLITypeOK, KVTypeOK
    <3>2. ASSUME NEW tok \in Tokens, NEW k \in Keys,
                 NEW v \in {w \in Values : ~Mismatch(tok, w)} \cup {Absent},
                 i = Written([store[tok] EXCEPT ![k] = v], autosave[tok])
          PROVE  i \in FileImage
      <4>1. store[tok] \in Contents
        BY DEF CInv, CLITypeOK, KVTypeOK
      <4>2. [store[tok] EXCEPT ![k] = v] \in Contents
        BY <4>1 DEF Contents
      <4> QED BY <3>2, <4>2, WrittenType
    <3>3. CASE i \notin {Written(store[tok], autosave[tok]) : tok \in known}
      <4>1. PICK tok \in Tokens : i \in Changed(tok)
        BY <2>1, <3>3 DEF InFlight
      <4>2. PICK k \in Keys, v \in {w \in Values : ~Mismatch(tok, w)} \cup {Absent} :
              i = Written([store[tok] EXCEPT ![k] = v], autosave[tok])
        BY <4>1 DEF Changed
      <4> QED BY <3>2, <4>2
    <3> QED BY <3>1, <3>3
  <2> QED BY <2>1, <2>2, CutsType
<1>2. disk' \in [Files -> FileImage \cup {NoFile}]
  BY <1>1 DEF Kill, CInv, CLITypeOK
<1>3. last' \in Shown
  BY PrintsType DEF Kill, Ops
<1>4. KVTypeOK' /\ OneType' /\ known' = {} /\ up' = FALSE /\ auto' = auto
  BY EndsKeeps DEF Kill, Ends
<1> QED BY <1>2, <1>3, <1>4 DEF CInv, CLITypeOK

LEMMA PutCommandKeeps ==
  ASSUME CInv, NEW tok \in Tokens, NEW k \in Keys, NEW v \in Values, cmdPut(tok, k, v)
  PROVE  CInv'
<1>1. CASE Put(tok, k, v) /\ SaveChange("put", tok, Null)
  <2>1. KVTypeOK' /\ OneType'
    BY <1>1, PutKeeps DEF CInv, CLITypeOK
  <2>2. disk' \in [Files -> FileImage \cup {NoFile}] /\ last' \in Shown
    <3>1. store' \in [Tokens -> Contents]
      BY <2>1 DEF KVTypeOK
    <3> QED BY <1>1, <3>1, SaveChangeType DEF CInv, Ops
  <2> QED BY <2>1, <2>2 DEF cmdPut, CInv, CLITypeOK
<1>2. CASE Prints("put", tok, Null, "error") /\ UNCHANGED <<kvVars, disk>>
  <2>1. KVTypeOK' /\ OneType'
    BY <1>2, UnchangedStores DEF CInv, CLITypeOK
  <2>2. last' \in Shown
    BY <1>2, PrintsType DEF Ops
  <2> QED BY <1>2, <2>1, <2>2 DEF cmdPut, CInv, CLITypeOK
<1> QED BY <1>1, <1>2 DEF cmdPut

LEMMA DeleteCommandKeeps ==
  ASSUME CInv, NEW tok \in Tokens, NEW k \in Keys, cmdDelete(tok, k)
  PROVE  CInv'
<1>1. KVTypeOK' /\ OneType'
  BY DeleteKeeps DEF cmdDelete, CInv, CLITypeOK
<1>2. disk' \in [Files -> FileImage \cup {NoFile}] /\ last' \in Shown
  <2>1. store' \in [Tokens -> Contents]
    BY <1>1 DEF KVTypeOK
  <2> QED BY <2>1, SaveChangeType DEF CInv, Ops, cmdDelete
<1> QED BY <1>1, <1>2 DEF cmdDelete, CInv, CLITypeOK

LEMMA SaveCommandKeeps ==
  ASSUME CInv, NEW tok \in Tokens, NEW f \in Files, cmdSave(tok, f)
  PROVE  CInv'
<1>1. PICK said \in {"ok", "short", "error"} :
        /\ IF tok \in known
           THEN Write(f, Written(store[tok], autosave[tok]), said)
           ELSE said = "error" /\ UNCHANGED disk
        /\ Prints("save", tok, f, said)
  BY DEF cmdSave
<1>2. disk' \in [Files -> FileImage \cup {NoFile}]
  <2>1. Written(store[tok], autosave[tok]) \in FileImage
    BY WrittenType DEF CInv, CLITypeOK, KVTypeOK
  <2>2. disk \in [Files -> FileImage \cup {NoFile}]
    BY DEF CInv, CLITypeOK
  <2> QED BY <1>1, <2>1, <2>2, WriteType
<1>3. last' \in Shown
  BY <1>1, PrintsType DEF Ops
<1>4. KVTypeOK' /\ OneType'
  BY UnchangedStores DEF cmdSave, CInv, CLITypeOK
<1> QED BY <1>2, <1>3, <1>4 DEF cmdSave, CInv, CLITypeOK

\* The entries that a file has.
LEMMA FileMap ==
  ASSUME CInv, NEW f \in Files, disk[f] # NoFile
  PROVE  disk[f].map \in Contents
BY DEF CInv, CLITypeOK, FileImage

LEMMA LoadCommandKeeps ==
  ASSUME CInv, NEW tok \in Tokens, NEW f \in Files, cmdLoad(tok, f)
  PROVE  /\ CInv'
         /\ \A u \in Tokens \ {tok} : store'[u] = store[u]
         /\ store'[tok] \in Readings(disk[f].map)
<1>1. PICK m \in Contents : m = disk[f].map
  BY FileMap DEF cmdLoad
<1>2. PICK ty \in Types \cup {"none"} :
        /\ Installs(tok, m, Present(m) \ Flags(m), ty)
        /\ autosave' = [autosave EXCEPT ![tok] =
                          IF disk[f].autosave # "missing" THEN disk[f].autosave = "true"
                          ELSE @ /\ Flags(m) = {}]
  BY <1>1 DEF cmdLoad
<1>3. autosave' \in [Tokens -> BOOLEAN]
  <2>1. PICK on \in BOOLEAN : autosave' = [autosave EXCEPT ![tok] = on]
    BY <1>2
  <2> QED BY <2>1 DEF CInv, CLITypeOK, KVTypeOK
<1>4. /\ KVTypeOK' /\ OneType'
      /\ \A u \in Tokens \ {tok} : store'[u] = store[u]
      /\ store'[tok] \in Readings(Only(Present(m) \ Flags(m), m))
  BY <1>2, <1>3, InstallsKeeps DEF CInv, CLITypeOK
<1>5. store'[tok] \in Readings(m)
  BY <1>4, FlagsAreNoEntries
<1>6. last' \in Shown
  BY PrintsType DEF cmdLoad, Ops
<1>7. CInv'
  BY <1>4, <1>6 DEF cmdLoad, CInv, CLITypeOK
<1> QED BY <1>1, <1>4, <1>5, <1>7

LEMMA ThrowingLoadKeeps ==
  ASSUME CInv, NEW tok \in Tokens, NEW f \in Files, cmdLoadThrows(tok, f)
  PROVE  CInv' /\ \A u \in Tokens \ {tok} : store'[u] = store[u]
<1>1. PICK m \in Contents : m = disk[f].map
  BY FileMap DEF cmdLoadThrows
<1>2. PICK D \in SUBSET (Present(m) \ Flags(m)), ty \in Types :
        /\ Installs(tok, m, D, ty)
        /\ \/ UNCHANGED autosave
           \/ Flags(m) # {} /\ autosave' = [autosave EXCEPT ![tok] = FALSE]
  BY <1>1 DEF cmdLoadThrows
<1>3. autosave' \in [Tokens -> BOOLEAN]
  BY <1>2 DEF CInv, CLITypeOK, KVTypeOK
<1>4. /\ KVTypeOK' /\ OneType'
      /\ \A u \in Tokens \ {tok} : store'[u] = store[u]
  BY <1>2, <1>3, InstallsKeeps DEF CInv, CLITypeOK
<1>5. last' \in Shown
  BY PrintsType DEF cmdLoadThrows, Ops
<1> QED BY <1>4, <1>5 DEF cmdLoadThrows, CInv, CLITypeOK

LEMMA CStep == ASSUME CInv, [CLINext]_cliVars PROVE CInv'
<1>1. CASE Start
  <2>1. KVTypeOK' /\ OneType' /\ last' \in Shown
    BY <1>1, UnchangedStores, PrintsType DEF Start, CInv, CLITypeOK, Ops
  <2> QED BY <1>1, <2>1 DEF Start, CInv, CLITypeOK
<1>2. CASE Exit
  <2>1. KVTypeOK' /\ OneType' /\ known' = {} /\ last' \in Shown
    BY <1>2, EndsKeeps, PrintsType DEF Exit, Ops
  <2> QED BY <1>2, <2>1 DEF Exit, Ends, CInv, CLITypeOK
<1>3. CASE Kill
  BY <1>3, KillKeeps
<1>4. CASE Refused
  <2>1. KVTypeOK' /\ OneType' /\ last' \in Shown
    BY <1>4, UnchangedStores, PrintsType DEF Refused, CInv, CLITypeOK, Ops
  <2> QED BY <1>4, <2>1 DEF Refused, CInv, CLITypeOK
<1>5. ASSUME NEW tok \in Tokens, NEW k \in Keys, cmdGet(tok, k) PROVE CInv'
  <2>1. KVTypeOK' /\ OneType'
    BY <1>5, UnchangedStores DEF cmdGet, CInv, CLITypeOK
  <2>2. last' \in Shown
    BY <1>5, PrintsType DEF cmdGet, Ops
  <2> QED BY <1>5, <2>1, <2>2 DEF cmdGet, CInv, CLITypeOK
<1>6. ASSUME NEW tok \in Tokens, NEW f \in Files, cmdLoadNothing(tok, f) PROVE CInv'
  <2>1. KVTypeOK' /\ OneType'
    BY <1>6, UnchangedStores DEF cmdLoadNothing, CInv, CLITypeOK
  <2>2. last' \in Shown
    BY <1>6, PrintsType DEF cmdLoadNothing, Ops
  <2> QED BY <1>6, <2>1, <2>2 DEF cmdLoadNothing, CInv, CLITypeOK
<1>7. CASE UNCHANGED cliVars
  BY <1>7, UnchangedStores DEF cliVars, CInv, CLITypeOK
<1> QED
  BY <1>1, <1>2, <1>3, <1>4, <1>5, <1>6, <1>7, PutCommandKeeps, DeleteCommandKeeps,
     SaveCommandKeeps, LoadCommandKeeps, ThrowingLoadKeeps DEF CLINext, Command

LEMMA CStart == ASSUME CLIInit PROVE CInv
<1>1. EmptyStore \in Contents
  BY DEF EmptyStore, Contents
<1>2. KVTypeOK
  BY <1>1 DEF CLIInit, KVInit, KVTypeOK
<1>3. OneType
  BY DEF CLIInit, KVInit, OneType, Present, EmptyStore
<1>4. last \in Shown
  BY DEF CLIInit, Shown, Ops
<1> QED BY <1>2, <1>3, <1>4 DEF CLIInit, CInv, CLITypeOK

LEMMA CInvariant == HistorySpec => []CInv
<1>1. HistoryInit => CInv
  BY CStart DEF HistoryInit
<1>2. CInv /\ [HistoryNext]_<<cliVars, synced>> => CInv'
  BY CStep DEF HistoryNext
<1> QED BY <1>1, <1>2, PTL DEF HistorySpec

\* Stores, files and what is printed have the types declared.
THEOREM CLITypeCorrect == HistorySpec => []CLITypeOK
<1>1. CInv => CLITypeOK
  BY DEF CInv
<1> QED BY <1>1, CInvariant, PTL

\* The entries of a store have one type, over puts and deletes, loads that go
\* through and loads that stop half way, restarts and kills.
THEOREM OneTypeCorrect == HistorySpec => []OneType
<1>1. CInv => OneType
  BY DEF CInv
<1> QED BY <1>1, CInvariant, PTL

-----------------------------------------------------------------------------
(* Store and file.                                                         *)

HInv == synced \subseteq Tokens /\ FileIsStore

\* Neither the store nor its file has changed.
Stays(tok) == store'[tok] = store[tok] /\ disk'[FileOf[tok]] = disk[FileOf[tok]]

\* Store and file agree after this step.
Agree(tok) ==
  /\ disk'[FileOf[tok]] # NoFile
  /\ Readings(store'[tok]) \subseteq Readings(disk'[FileOf[tok]].map)

LEMMA StaysAgree ==
  ASSUME HInv, NEW tok \in synced, Stays(tok)
  PROVE  Agree(tok)
BY DEF HInv, FileIsStore, Stays, Agree

LEMMA WrittenAgree ==
  ASSUME NEW tok \in Tokens, NEW m \in Contents, NEW on, store'[tok] = m,
         disk'[FileOf[tok]] = Written(m, on)
  PROVE  Agree(tok)
BY WrittenType, FileAssumption DEF Agree

\* The stores that the history keeps.
Kept(tok) == tok \in synced /\ ~Parts(tok)

\* put and delete, which save their store.
LEMMA ChangeAgrees ==
  ASSUME CInv, HInv, NEW op \in {"put", "delete"}, NEW t \in Tokens, NEW arg \in Keys \cup {Null},
         store' \in [Tokens -> Contents], autosave' = autosave,
         \A u \in Tokens \ {t} : store'[u] = store[u], SaveChange(op, t, arg),
         NEW tok \in Tokens, Joins(tok) \/ Kept(tok)
  PROVE  Agree(tok)
<1>1. /\ last'.op = op /\ last'.tok = t /\ last'.said # "error"
      /\ \A g \in Files : ~(auto /\ FileOf[t] = g) => disk'[g] = disk[g]
      /\ auto /\ last'.said = "ok" => disk'[FileOf[t]] = Written(store'[t], autosave[t])
  BY SaveChangeType DEF CInv, Ops
<1>2. CASE Joins(tok)
  <2>1. tok = t /\ auto /\ last'.said = "ok"
    BY <1>1, <1>2 DEF Joins
  <2> QED BY <1>1, <2>1, WrittenAgree
<1>3. CASE Kept(tok)
  <2>1. IF auto THEN FileOf[t] # FileOf[tok] ELSE t # tok
    BY <1>1, <1>3 DEF Kept, Parts
  <2>2. FileOf[tok] \in Files
    BY CLIAssumption
  <2>3. Stays(tok)
    BY <1>1, <2>1, <2>2 DEF Stays
  <2> QED BY <1>3, <2>3, StaysAgree DEF Kept
<1> QED BY <1>2, <1>3

LEMMA PutAgrees ==
  ASSUME CInv, HInv, NEW t \in Tokens, NEW k \in Keys, NEW v \in Values, cmdPut(t, k, v),
         NEW tok \in Tokens, Joins(tok) \/ Kept(tok)
  PROVE  Agree(tok)
<1>1. CASE Put(t, k, v) /\ SaveChange("put", t, Null)
  <2>1. KVTypeOK' /\ \A u \in Tokens \ {t} : store'[u] = store[u]
    BY <1>1, PutKeeps DEF CInv, CLITypeOK
  <2>2. store' \in [Tokens -> Contents] /\ autosave' = autosave
    BY <1>1, <2>1 DEF KVTypeOK, Put
  <2> QED BY <1>1, <2>1, <2>2, ChangeAgrees
<1>2. CASE Prints("put", t, Null, "error") /\ UNCHANGED <<kvVars, disk>>
  <2>1. last'.op = "put" /\ last'.said = "error"
    BY <1>2, PrintsType DEF Ops
  <2>2. Kept(tok) /\ Stays(tok)
    BY <1>2, <2>1 DEF Joins, Stays, kvVars
  <2> QED BY <2>2, StaysAgree DEF Kept
<1> QED BY <1>1, <1>2 DEF cmdPut

LEMMA DeleteAgrees ==
  ASSUME CInv, HInv, NEW t \in Tokens, NEW k \in Keys, cmdDelete(t, k),
         NEW tok \in Tokens, Joins(tok) \/ Kept(tok)
  PROVE  Agree(tok)
<1>1. KVTypeOK' /\ \A u \in Tokens \ {t} : store'[u] = store[u]
  BY DeleteKeeps DEF cmdDelete, CInv, CLITypeOK
<1>2. store' \in [Tokens -> Contents] /\ autosave' = autosave
  BY <1>1 DEF KVTypeOK, cmdDelete, DeleteKey
<1> QED BY <1>1, <1>2, ChangeAgrees DEF cmdDelete

LEMMA SaveAgrees ==
  ASSUME CInv, HInv, NEW t \in Tokens, NEW f \in Files, cmdSave(t, f),
         NEW tok \in Tokens, Joins(tok) \/ Kept(tok)
  PROVE  Agree(tok)
<1>1. PICK said \in {"ok", "short", "error"} :
        /\ IF t \in known
           THEN Write(f, Written(store[t], autosave[t]), said)
           ELSE said = "error" /\ UNCHANGED disk
        /\ Prints("save", t, f, said)
  BY DEF cmdSave
<1>2. last'.op = "save" /\ last'.tok = t /\ last'.arg = f /\ last'.said = said
  BY <1>1, PrintsType DEF Ops
<1>3. store[t] \in Contents /\ store' = store /\ FileOf[tok] \in Files
  BY CLIAssumption DEF cmdSave, kvVars, CInv, CLITypeOK, KVTypeOK
<1>4. Written(store[t], autosave[t]) \in FileImage /\ disk \in [Files -> FileImage \cup {NoFile}]
  BY <1>3, WrittenType DEF CInv, CLITypeOK
<1>5. /\ \A g \in Files \ {f} : disk'[g] = disk[g]
      /\ said = "ok" => disk'[f] = Written(store[t], autosave[t])
      /\ said = "error" => disk' = disk
  BY <1>1, <1>4, WriteType
<1>6. CASE Joins(tok)
  <2>1. tok = t /\ said = "ok" /\ f = FileOf[tok]
    BY <1>2, <1>6 DEF Joins
  <2> QED BY <1>3, <1>5, <2>1, WrittenAgree
<1>7. CASE Kept(tok)
  <2>1. said = "error" \/ f # FileOf[tok]
    BY <1>2, <1>7 DEF Kept, Parts
  <2>2. Stays(tok)
    BY <1>3, <1>5, <2>1 DEF Stays
  <2> QED BY <1>7, <2>2, StaysAgree DEF Kept
<1> QED BY <1>6, <1>7

LEMMA LoadAgrees ==
  ASSUME CInv, HInv, NEW t \in Tokens, NEW f \in Files, cmdLoad(t, f),
         NEW tok \in Tokens, Joins(tok) \/ Kept(tok)
  PROVE  Agree(tok)
<1>1. last'.op = "load" /\ last'.tok = t /\ last'.arg = f /\ last'.said = "ok"
  BY PrintsType DEF cmdLoad, Ops
<1>2. /\ \A u \in Tokens \ {t} : store'[u] = store[u]
      /\ store'[t] \in Readings(disk[f].map)
      /\ disk' = disk /\ disk[f] # NoFile
  BY LoadCommandKeeps DEF cmdLoad
<1>3. CASE t = tok
  <2>1. f = FileOf[tok]
    BY <1>1, <1>3 DEF Joins, Kept, Parts
  <2>2. Readings(store'[tok]) \subseteq Readings(disk[f].map)
    BY <1>2, <1>3, FileMap, ReadTwice
  <2> QED BY <1>2, <2>1, <2>2 DEF Agree
<1>4. CASE t # tok
  <2>1. Kept(tok) /\ Stays(tok)
    BY <1>1, <1>2, <1>4 DEF Joins, Stays
  <2> QED BY <2>1, StaysAgree DEF Kept
<1> QED BY <1>3, <1>4

LEMMA ThrowingLoadAgrees ==
  ASSUME CInv, HInv, NEW t \in Tokens, NEW f \in Files, cmdLoadThrows(t, f),
         NEW tok \in Tokens, Joins(tok) \/ Kept(tok)
  PROVE  Agree(tok)
<1>1. last'.op = "load" /\ last'.tok = t /\ last'.said = "error"
  BY PrintsType DEF cmdLoadThrows, Ops
<1>2. Kept(tok) /\ t # tok
  BY <1>1 DEF Joins, Kept, Parts
<1>3. Stays(tok)
  BY <1>2, ThrowingLoadKeeps DEF cmdLoadThrows, Stays
<1> QED BY <1>2, <1>3, StaysAgree DEF Kept

\* The other steps change neither a store nor a file, and bring no store into
\* step with its file.
LEMMA OthersAgree ==
  ASSUME HInv, NEW tok \in Tokens, Joins(tok) \/ Kept(tok), UNCHANGED <<kvVars, disk>>,
         \/ last'.op \in {"start", "get", "other"}
         \/ last'.op = "load" /\ last'.said = "error"
         \/ last'.op = "load" /\ disk[last'.arg] = NoFile
  PROVE  Agree(tok)
<1>1. Stays(tok)
  BY DEF Stays, kvVars
<1>2. Kept(tok)
  BY DEF Joins
<1> QED BY <1>1, <1>2, StaysAgree DEF Kept

LEMMA LoadNothingAgrees ==
  ASSUME HInv, NEW t \in Tokens, NEW f \in Files, cmdLoadNothing(t, f),
         NEW tok \in Tokens, Joins(tok) \/ Kept(tok)
  PROVE  Agree(tok)
<1>1. CASE disk[f] = NoFile /\ Prints("load", t, f, "ok")
  <2>1. last'.op = "load" /\ last'.arg = f
    BY <1>1, PrintsType DEF Ops
  <2> QED BY <1>1, <2>1, OthersAgree DEF cmdLoadNothing
<1>2. CASE Prints("load", t, f, "error")
  <2>1. last'.op = "load" /\ last'.said = "error"
    BY <1>2, PrintsType DEF Ops
  <2> QED BY <2>1, OthersAgree DEF cmdLoadNothing
<1> QED BY <1>1, <1>2 DEF cmdLoadNothing

LEMMA AgreeStep ==
  ASSUME CInv, HInv, CLINext, up', NEW tok \in Tokens, Joins(tok) \/ Kept(tok)
  PROVE  Agree(tok)
<1>1. CASE Start
  <2>1. last'.op = "start"
    BY <1>1, PrintsType DEF Start, Ops
  <2> QED BY <1>1, <2>1, OthersAgree DEF Start
<1>2. ~Exit /\ ~Kill
  BY DEF Exit, Kill, Ends
<1>3. CASE Refused
  <2>1. last'.op = "other"
    BY <1>3, PrintsType DEF Refused, Ops
  <2> QED BY <1>3, <2>1, OthersAgree DEF Refused
<1>4. ASSUME NEW t \in Tokens, NEW k \in Keys, cmdGet(t, k) PROVE Agree(tok)
  <2>1. last'.op = "get"
    BY <1>4, PrintsType DEF cmdGet, Ops
  <2> QED BY <1>4, <2>1, OthersAgree DEF cmdGet
<1> QED
  BY <1>1, <1>2, <1>3, <1>4, PutAgrees, DeleteAgrees, SaveAgrees, LoadNothingAgrees, LoadAgrees,
     ThrowingLoadAgrees DEF CLINext, Command

LEMMA HStep == ASSUME CInv, HInv, [HistoryNext]_<<cliVars, synced>> PROVE HInv'
<1>1. CASE HistoryNext /\ up'
  <2>1. synced' = {tok \in Tokens : Joins(tok) \/ Kept(tok)}
    BY <1>1 DEF HistoryNext, Kept
  <2>2. \A tok \in synced' : Agree(tok)
    BY <1>1, <2>1, AgreeStep DEF HistoryNext
  <2> QED BY <2>1, <2>2 DEF HInv, FileIsStore, Agree
<1>2. CASE HistoryNext /\ ~up'
  BY <1>2 DEF HistoryNext, HInv, FileIsStore
<1>3. CASE UNCHANGED <<cliVars, synced>>
  BY <1>3 DEF cliVars, kvVars, HInv, FileIsStore
<1> QED BY <1>1, <1>2, <1>3

\* A store that was last saved to its file, or loaded from it, comes out of
\* the file as it would from a save of this moment.
THEOREM FileIsStoreCorrect == HistorySpec => []FileIsStore
<1>1. HistoryInit => HInv
  BY DEF HistoryInit, HInv, FileIsStore
<1>2. CInv /\ HInv /\ [HistoryNext]_<<cliVars, synced>> => HInv'
  BY HStep
<1>3. HInv => FileIsStore
  BY DEF HInv
<1> QED BY <1>1, <1>2, <1>3, CInvariant, PTL DEF HistorySpec

-----------------------------------------------------------------------------
(* What a new process can load.                                            *)

Uniform(m) == \A k, l \in Present(m) : TypeOf[m[k]] = TypeOf[m[l]]

\* The entries of each file have one type.
FilesUniform == \A f \in Files : disk[f] # NoFile => Uniform(disk[f].map)

LEMMA CutsUniform ==
  ASSUME NEW i \in FileImage, Uniform(i.map), NEW part \in Cuts(i)
  PROVE  Uniform(part.map)
<1>1. i.map \in Contents /\ i = [map |-> i.map, autosave |-> i.autosave]
  BY DEF FileImage
<1>2. ASSUME NEW S PROVE Uniform(Only(S, i.map))
  <2>1. ASSUME NEW k \in Present(Only(S, i.map)) PROVE k \in Present(i.map) /\ Only(S, i.map)[k] = i.map[k]
    BY DEF Present, Only
  <2> QED BY <2>1 DEF Uniform
<1>3. CASE part = [i EXCEPT !.autosave = "false"]
  BY <1>1, <1>3
<1>4. CASE part \in [map: {Only(S, i.map) : S \in SUBSET Present(i.map)},
                     autosave: {"missing"} \cup {"false" : k \in Flags(i.map)}]
  <2>1. part.map \in {Only(S, i.map) : S \in SUBSET Present(i.map)}
    BY <1>4
  <2> QED BY <1>2, <2>1
<1> QED BY <1>3, <1>4 DEF Cuts

LEMMA WriteUniform ==
  ASSUME CInv, FilesUniform, NEW f \in Files, NEW m \in Contents, Uniform(m), NEW on,
         NEW said, Write(f, Written(m, on), said)
  PROVE  FilesUniform'
<1>1. Written(m, on) \in FileImage /\ Written(m, on).map = m
  BY WrittenType
<1>2. disk \in [Files -> FileImage \cup {NoFile}]
  BY DEF CInv, CLITypeOK
<1>3. CASE disk' = [disk EXCEPT ![f] = Written(m, on)]
  BY <1>1, <1>2, <1>3 DEF FilesUniform
<1>4. ASSUME NEW part \in Cuts(Written(m, on)), disk' = [disk EXCEPT ![f] = part] PROVE FilesUniform'
  <2>1. Uniform(part.map)
    BY <1>1, CutsUniform
  <2> QED BY <1>2, <1>4, <2>1 DEF FilesUniform
<1>5. CASE UNCHANGED disk
  BY <1>5 DEF FilesUniform
<1> QED BY <1>3, <1>4, <1>5 DEF Write

LEMMA StoreUniform == ASSUME OneType, NEW tok \in Tokens PROVE Uniform(store[tok])
BY DEF OneType, Uniform

LEMMA SaveChangeUniform ==
  ASSUME CInv, FilesUniform, KVTypeOK', OneType', NEW op, NEW tok \in Tokens, NEW arg,
         SaveChange(op, tok, arg)
  PROVE  FilesUniform'
<1>1. store'[tok] \in Contents /\ FileOf[tok] \in Files
  BY CLIAssumption DEF KVTypeOK
<1>2. Uniform(store'[tok])
  BY DEF OneType, Uniform, Present
<1>3. CASE auto
  <2>1. PICK said : Write(FileOf[tok], Written(store'[tok], autosave[tok]), said)
    BY <1>3 DEF SaveChange
  <2> QED BY <1>1, <1>2, <2>1, WriteUniform
<1>4. CASE ~auto
  BY <1>4 DEF SaveChange, FilesUniform
<1> QED BY <1>3, <1>4

\* What a killed process was writing has one type as well.
LEMMA RemainsUniform ==
  ASSUME CInv, NEW f, NEW part \in Remains(f)
  PROVE  Uniform(part.map)
<1>1. PICK i \in InFlight(f) : part \in Cuts(i) \cup {i}
  BY DEF Remains
<1>2. ASSUME NEW tok \in Tokens, NEW k \in Keys, NEW v \in {w \in Values : ~Mismatch(tok, w)} \cup {Absent}
      PROVE  /\ [store[tok] EXCEPT ![k] = v] \in Contents
             /\ Uniform([store[tok] EXCEPT ![k] = v])
  <2>1. PICK e : e = [store[tok] EXCEPT ![k] = v]
    OBVIOUS
  <2>2. store[tok] \in Contents /\ registry[tok] \in Types \cup {"none"}
    BY DEF CInv, CLITypeOK, KVTypeOK
  <2>3. e \in Contents /\ e[k] = v /\ \A j \in Keys \ {k} : e[j] = store[tok][j]
    BY <2>1, <2>2 DEF Contents
  <2>4. ASSUME NEW j \in Present(e), j # k
        PROVE  registry[tok] = TypeOf[e[j]] /\ registry[tok] # "none"
    <3>1. j \in Present(store[tok]) /\ e[j] = store[tok][j] /\ e[j] \in Values
      BY <2>3, <2>4 DEF Present, Contents
    <3>2. registry[tok] = TypeOf[e[j]]
      BY <3>1 DEF CInv, OneType
    <3> QED BY <3>1, <3>2, StoreAssumption DEF Types
  <2>5. k \in Present(e) => registry[tok] \in {"none", TypeOf[v]}
    BY <2>3 DEF Present, Mismatch
  <2>6. Uniform(e)
    BY <2>3, <2>4, <2>5 DEF Uniform
  <2> QED BY <2>1, <2>3, <2>6
<1>3. i \in FileImage /\ Uniform(i.map)
  <2>1. CASE i \in {Written(store[tok], autosave[tok]) : tok \in known}
    <3>1. PICK tok \in Tokens : i = Written(store[tok], autosave[tok])
      BY <2>1 DEF CInv, CLITypeOK
    <3>2. store[tok] \in Contents /\ Uniform(store[tok])
      BY StoreUniform DEF CInv, CLITypeOK, KVTypeOK
    <3> QED BY <3>1, <3>2, WrittenType
  <2>2. CASE i \notin {Written(store[tok], autosave[tok]) : tok \in known}
    <3>1. PICK tok \in Tokens : i \in Changed(tok)
      BY <1>1, <2>2 DEF InFlight
    <3>2. PICK k \in Keys, v \in {w \in Values : ~Mismatch(tok, w)} \cup {Absent} :
            i = Written([store[tok] EXCEPT ![k] = v], autosave[tok])
      BY <3>1 DEF Changed
    <3>3. PICK e : e = [store[tok] EXCEPT ![k] = v]
      OBVIOUS
    <3>4. e \in Contents /\ Uniform(e) /\ i = Written(e, autosave[tok])
      BY <1>2, <3>2, <3>3
    <3> QED BY <3>4, WrittenType
  <2> QED BY <2>1, <2>2
<1> QED BY <1>1, <1>3, CutsUniform

LEMMA UniformStep == ASSUME CInv, FilesUniform, [CLINext]_cliVars PROVE FilesUniform'
<1>1. CASE Kill
  <2>1. CASE UNCHANGED disk
    BY <2>1 DEF FilesUniform
  <2>2. ASSUME NEW f \in Files, NEW part \in Remains(f), disk' = [disk EXCEPT ![f] = part]
        PROVE  FilesUniform'
    <3>1. Uniform(part.map)
      BY RemainsUniform
    <3>2. disk \in [Files -> FileImage \cup {NoFile}]
      BY DEF CInv, CLITypeOK
    <3> QED BY <2>2, <3>1, <3>2 DEF FilesUniform
  <2> QED BY <1>1, <2>1, <2>2 DEF Kill
<1>2. ASSUME NEW tok \in Tokens, NEW k \in Keys, NEW v \in Values, cmdPut(tok, k, v) PROVE FilesUniform'
  <2>1. CASE Put(tok, k, v) /\ SaveChange("put", tok, Null)
    <3>1. KVTypeOK' /\ OneType'
      BY <2>1, PutKeeps DEF CInv, CLITypeOK
    <3> QED BY <2>1, <3>1, SaveChangeUniform
  <2>2. CASE UNCHANGED <<kvVars, disk>>
    BY <2>2 DEF FilesUniform
  <2> QED BY <1>2, <2>1, <2>2 DEF cmdPut
<1>3. ASSUME NEW tok \in Tokens, NEW k \in Keys, cmdDelete(tok, k) PROVE FilesUniform'
  <2>1. KVTypeOK' /\ OneType'
    BY <1>3, DeleteKeeps DEF cmdDelete, CInv, CLITypeOK
  <2> QED BY <1>3, <2>1, SaveChangeUniform DEF cmdDelete
<1>4. ASSUME NEW tok \in Tokens, NEW f \in Files, cmdSave(tok, f) PROVE FilesUniform'
  <2>1. CASE UNCHANGED disk
    BY <2>1 DEF FilesUniform
  <2>2. ASSUME NEW said, Write(f, Written(store[tok], autosave[tok]), said) PROVE FilesUniform'
    <3>1. store[tok] \in Contents /\ Uniform(store[tok])
      BY StoreUniform DEF CInv, CLITypeOK, KVTypeOK
    <3> QED BY <2>2, <3>1, WriteUniform
  <2> QED BY <1>4, <2>1, <2>2 DEF cmdSave
<1>5. CASE UNCHANGED disk
  BY <1>5 DEF FilesUniform
<1> QED
  BY <1>1, <1>2, <1>3, <1>4, <1>5
  DEF CLINext, Command, Start, Exit, Refused, cmdGet, cmdLoadNothing, cmdLoad, cmdLoadThrows, cliVars

LEMMA UniformLoads ==
  ASSUME CInv, FilesUniform, CLINext, last'.op = "load", last'.said = "error",
         registry[last'.tok] = "none", KeepsTypes(disk[last'.arg].map)
  PROVE  UNCHANGED store
<1>1. ASSUME NEW tok \in Tokens, NEW f \in Files, cmdLoadThrows(tok, f) PROVE FALSE
  <2>1. last'.tok = tok /\ last'.arg = f
    BY <1>1, PrintsType DEF cmdLoadThrows, Ops
  <2>2. PICK m \in Contents : m = disk[f].map
    BY <1>1, FileMap DEF cmdLoadThrows
  <2>3. PICK D \in SUBSET (Present(m) \ Flags(m)), ty \in Types :
          /\ \E k \in (Present(m) \ Flags(m)) \ D : TypeOf[Reloaded[m[k]]] # ty
          /\ Installs(tok, m, D, ty)
    BY <1>1, <2>2 DEF cmdLoadThrows
  <2>4. PICK k \in (Present(m) \ Flags(m)) \ D : TypeOf[Reloaded[m[k]]] # ty
    BY <2>3
  <2>5. registry[tok] = "none" /\ ty # "none"
    BY <2>1 DEF Types
  <2>6. PICK d \in D : TypeOf[Reloaded[m[d]]] = ty
    BY <2>3, <2>5 DEF Installs
  <2>7. TypeOf[Reloaded[m[k]]] = TypeOf[m[k]] /\ TypeOf[Reloaded[m[d]]] = TypeOf[m[d]]
    BY <2>1, <2>2 DEF KeepsTypes
  <2>8. TypeOf[m[k]] = TypeOf[m[d]]
    BY <1>1, <2>2 DEF FilesUniform, Uniform, cmdLoadThrows
  <2> QED BY <2>4, <2>6, <2>7, <2>8
<1>2. ASSUME NEW tok \in Tokens, NEW f \in Files, cmdLoad(tok, f) PROVE FALSE
  BY <1>2, PrintsType DEF cmdLoad, Ops
<1>3. ASSUME NEW tok \in Tokens, NEW k \in Keys, NEW v \in Values, cmdPut(tok, k, v) PROVE FALSE
  <2>1. CASE Put(tok, k, v) /\ SaveChange("put", tok, Null)
    <3>1. store' \in [Tokens -> Contents]
      BY <2>1, PutKeeps DEF CInv, CLITypeOK, KVTypeOK
    <3> QED BY <2>1, <3>1, SaveChangeType DEF CInv, Ops
  <2>2. CASE Prints("put", tok, Null, "error")
    BY <2>2, PrintsType DEF Ops
  <2> QED BY <1>3, <2>1, <2>2 DEF cmdPut
<1>4. ASSUME NEW tok \in Tokens, NEW k \in Keys, cmdDelete(tok, k) PROVE FALSE
  <2>1. store' \in [Tokens -> Contents]
    BY <1>4, DeleteKeeps DEF cmdDelete, CInv, CLITypeOK, KVTypeOK
  <2> QED BY <1>4, <2>1, SaveChangeType DEF CInv, Ops, cmdDelete
<1>5. ASSUME NEW tok \in Tokens, NEW f \in Files, cmdSave(tok, f) PROVE UNCHANGED store
  BY <1>5 DEF cmdSave, kvVars
<1>6. ASSUME NEW tok \in Tokens, NEW f \in Files, cmdLoadNothing(tok, f) PROVE UNCHANGED store
  BY <1>6 DEF cmdLoadNothing, kvVars
<1>7. CASE Start
  BY <1>7 DEF Start, kvVars
<1>8. ~Exit /\ ~Kill
  BY PrintsType DEF Exit, Kill, Ops
<1>9. ASSUME NEW tok \in Tokens, NEW k \in Keys, cmdGet(tok, k) PROVE UNCHANGED store
  BY <1>9 DEF cmdGet, kvVars
<1>10. CASE Refused
  BY <1>10 DEF Refused, kvVars
<1> QED
  BY <1>1, <1>2, <1>3, <1>4, <1>5, <1>6, <1>7, <1>8, <1>9, <1>10 DEF CLINext, Command

\* A store without a registered type can load any file that processes have
\* left, killed ones and failed saves included: it fails only for an entry
\* that comes back with another type, or before anything is changed.
THEOREM NewStoreLoadsCorrect == HistorySpec => NewStoreLoads
<1>1. HistoryInit => FilesUniform
  BY DEF HistoryInit, CLIInit, FilesUniform
<1>2. CInv /\ FilesUniform /\ [HistoryNext]_<<cliVars, synced>> => FilesUniform'
  BY UniformStep DEF HistoryNext, cliVars
<1>3. CInv /\ FilesUniform /\ [HistoryNext]_<<cliVars, synced>>
        => [last'.op = "load" /\ last'.said = "error"
              /\ registry[last'.tok] = "none" /\ KeepsTypes(disk[last'.arg].map)
            => UNCHANGED store]_cliVars
  BY UniformLoads DEF HistoryNext, cliVars
<1> QED BY <1>1, <1>2, <1>3, CInvariant, PTL DEF HistorySpec, NewStoreLoads

-----------------------------------------------------------------------------
(* Files as texts.                                                         *)

\* Who has as many places as there are elements, and none twice, has them all.
LEMMA AllPlaced ==
  ASSUME NEW P, IsFiniteSet(P), NEW S \in SetToSeqs(P)
  PROVE  /\ Cardinality(P) \in Nat /\ S \in [1..Cardinality(P) -> P]
         /\ \A k \in P : \E n \in 1..Cardinality(P) : S[n] = k
<1> DEFINE N == Cardinality(P)
<1>1. N \in Nat
  BY FS_CardinalityType
<1>2. S \in [1..N -> P] /\ \A i, j \in 1..N : i # j => S[i] # S[j]
  BY DEF SetToSeqs
<1>3. Cardinality(1..N) = N
  <2>1. 1 \in Int /\ N \in Int
    BY <1>1
  <2>2. Cardinality(1..N) = IF 1 > N THEN 0 ELSE N - 1 + 1
    BY <2>1, FS_Interval
  <2>. QED BY <1>1, <2>2
<1>4. S \in Injection(1..N, P)
  BY <1>2 DEF Injection, IsInjective
<1>5. S \in Surjection(1..N, P)
  BY <1>3, <1>4, FS_Injection
<1>. QED BY <1>1, <1>2, <1>5 DEF Surjection

\* The last of the places where something is.
LEMMA LastOf ==
  ASSUME NEW N \in Nat, NEW hits, hits \subseteq 1..N, hits # {}
  PROVE  (CHOOSE n \in hits : \A l \in hits : l <= n) \in hits
<1> DEFINE M == {d \in Nat : d <= N /\ N - d \in hits}
<1>1. PICK h \in hits : TRUE
  OBVIOUS
<1>2. h \in 1..N
  BY <1>1
<1>3. N - h \in Nat /\ N - (N - h) = h /\ N - h <= N
  BY <1>2
<1>4. N - h \in M
  BY <1>1, <1>3
<1> HIDE DEF M
<1>5. \E n \in Nat : n <= N - h /\ n \in M /\ \A l \in Nat : l < n => l \notin M
  BY <1>3, <1>4, LeastNat
<1>6. PICK d \in Nat : d \in M /\ \A l \in Nat : l < d => l \notin M
  BY <1>5
<1>7. N - d \in hits /\ d <= N
  BY <1>6 DEF M
<1>8. \A l \in hits : l <= N - d
  <2> TAKE l \in hits
  <2>1. l \in 1..N
    OBVIOUS
  <2>2. N - l \in Nat /\ N - (N - l) = l /\ N - l <= N
    BY <2>1
  <2>3. N - l \in M
    BY <2>2 DEF M
  <2>4. ~(N - l < d)
    BY <1>6, <2>2, <2>3
  <2>. QED BY <1>6, <2>1, <2>4
<1>. QED BY <1>7, <1>8

\* The entries of a file in the order of S.
entriesOf(m, S) == [n \in DOMAIN S |-> <<S[n], m[S[n]]>>]

LEMMA EntriesOfIs ==
  ASSUME NEW m \in Contents, NEW S \in SetToSeqs(Present(m))
  PROVE  /\ EntriesFit(entriesOf(m, S))
         /\ \A i \in 1..Len(entriesOf(m, S)) :
              entriesOf(m, S)[i][1] \in Present(m) /\ entriesOf(m, S)[i][2] = m[entriesOf(m, S)[i][1]]
         /\ \A k \in Present(m) : \E i \in 1..Len(entriesOf(m, S)) : entriesOf(m, S)[i][1] = k
<1> DEFINE P == Present(m)
<1> DEFINE N == Cardinality(P)
<1> DEFINE E == entriesOf(m, S)
<1>1. IsFiniteSet(P) /\ P \subseteq Keys /\ \A k \in P : m[k] \in Values
  <2>1. P \in SUBSET Keys
    BY DEF Present
  <2>2. \A k \in P : m[k] \in Values
    BY DEF Present, Contents
  <2>. QED BY <2>1, <2>2, TextAssumption, FS_Subset
<1> HIDE DEF P
<1>2. N \in Nat /\ S \in [1..N -> P] /\ \A k \in P : \E n \in 1..N : S[n] = k
  BY <1>1, AllPlaced DEF P
<1> HIDE DEF N
<1>3. E = [n \in 1..N |-> <<S[n], m[S[n]]>>]
  BY <1>2 DEF entriesOf
<1>4. E \in [1..N -> P \X Values]
  BY <1>1, <1>2, <1>3
<1>5. Len(E) = N /\ DOMAIN E = 1..N
  BY <1>2, <1>3, <1>4, FunctionText
<1>6. \A i \in 1..N : E[i][1] = S[i] /\ E[i][2] = m[S[i]] /\ S[i] \in P
  BY <1>2, <1>3
<1> HIDE DEF E
<1>7. ASSUME NEW i \in 1..N
      PROVE  KeyFits(E[i][1]) /\ ValueFits(E[i][2]) /\ (IsFlag(E[i][1]) => NoComma(valueText(E[i][2])))
  <2> DEFINE k == E[i][1]
  <2> DEFINE v == E[i][2]
  <2>1. k \in Keys /\ v \in Values
    BY <1>1, <1>6
  <2> HIDE DEF k, v
  <2>2. KeyFits(k) /\ ValueFits(v) /\ (IsFlag(k) => NoComma(valueText(v)))
    BY <2>1, TextAssumption, Zenon
  <2>. QED BY <2>2 DEF k, v
<1>8. EntriesFit(E)
  BY <1>2, <1>5, <1>7, Zenon DEF EntriesFit
<1>9. \A i \in 1..Len(E) : E[i][1] \in P /\ E[i][2] = m[E[i][1]]
  BY <1>5, <1>6
<1>10. \A k \in P : \E i \in 1..Len(E) : E[i][1] = k
  BY <1>2, <1>5, <1>6
<1>. QED BY <1>8, <1>9, <1>10 DEF E, P

\* What is in the join of the readings: the entry of each key that is none of
\* the flag, and nothing else.
LEMMA WhatIsRead ==
  ASSUME NEW E, EntriesFit(E)
  PROVE  /\ Join(reads(E)) \in Seq(FoundIn(E)) /\ Len(Join(reads(E))) \in Nat
         /\ DOMAIN Join(reads(E)) = 1..Len(Join(reads(E)))
         /\ \A n \in 1..Len(Join(reads(E))) : \E i \in 1..Len(E) :
              ~IsFlag(E[i][1]) /\ Join(reads(E))[n] = EntryRead(E[i][1], E[i][2])
         /\ \A i \in 1..Len(E) : ~IsFlag(E[i][1]) =>
              \E n \in 1..Len(Join(reads(E))) : Join(reads(E))[n] = EntryRead(E[i][1], E[i][2])
<1> DEFINE rs == reads(E)
<1> DEFINE J == Join(rs)
<1> DEFINE N == Len(E)
<1>1. IsTexts(rs, FoundIn(E)) /\ Len(rs) = N /\ N \in Nat /\ \A i \in 1..N : rs[i] = Reads(E[i][1], E[i][2])
  BY ReadsAre DEF EntriesFit
<1>2. J = joinLoop(rs)[N]
  BY <1>1 DEF Join
<1> HIDE DEF N
<1>3. ASSUME NEW i \in 1..N, ~IsFlag(E[i][1])
      PROVE  Len(rs[i]) = 1 /\ rs[i][1] = EntryRead(E[i][1], E[i][2])
  <2> DEFINE e == EntryRead(E[i][1], E[i][2])
  <2>1. rs[i] = <<e>>
    BY <1>1, <1>3 DEF Reads, EntryRead
  <2> HIDE DEF e
  <2>2. Len(<<e>>) = 1 /\ <<e>>[1] = e
    OBVIOUS
  <2>. QED BY <2>1, <2>2 DEF e
<1>4. ASSUME NEW i \in 1..N, IsFlag(E[i][1])
      PROVE  Len(rs[i]) = 0
  <2>1. rs[i] = <<>>
    BY <1>1, <1>4 DEF Reads
  <2>. QED BY <2>1
<1> HIDE DEF rs
<1>5. J \in Seq(FoundIn(E))
  <2>1. N \in 0..Len(rs)
    BY <1>1
  <2>. QED BY <1>1, <1>2, <2>1, JoinType
<1>6. Len(J) \in Nat /\ DOMAIN J = 1..Len(J)
  BY <1>5
<1>7. ASSUME NEW n \in 1..Len(J)
      PROVE  \E i \in 1..N : ~IsFlag(E[i][1]) /\ J[n] = EntryRead(E[i][1], E[i][2])
  <2>1. OnlyThose(rs, N)
    <3>1. N <= Len(rs)
      BY <1>1
    <3>. QED BY <1>1, <3>1, JoinElements
  <2>2. PICK i \in 1..N : \E l \in 1..Len(rs[i]) : J[n] = rs[i][l]
    BY <1>2, <2>1 DEF OnlyThose
  <2>3. PICK l \in 1..Len(rs[i]) : J[n] = rs[i][l]
    BY <2>2
  <2>4. ~IsFlag(E[i][1])
    <3>1. IsFlag(E[i][1]) => Len(rs[i]) = 0
      BY <1>4
    <3>. QED BY <2>3, <3>1
  <2>5. Len(rs[i]) = 1 /\ rs[i][1] = EntryRead(E[i][1], E[i][2])
    BY <1>3, <2>4
  <2>6. l = 1
    BY <2>3, <2>5
  <2>. QED BY <2>3, <2>4, <2>5, <2>6
<1>8. ASSUME NEW i \in 1..N, ~IsFlag(E[i][1])
      PROVE  \E n \in 1..Len(J) : J[n] = EntryRead(E[i][1], E[i][2])
  <2> DEFINE m == i - 1
  <2>1. m \in Nat /\ m < N /\ m + 1 = i /\ N <= Len(rs) /\ m <= Len(rs) /\ N \in Nat
    BY <1>1
  <2> HIDE DEF m
  <2>2. At(J, Len(joinLoop(rs)[m]), rs[m + 1])
    BY <1>1, <1>2, <2>1, JoinAt
  <2>3. Len(joinLoop(rs)[m]) \in Nat
    BY <1>1, <2>1, JoinLengths
  <2>4. Len(rs[i]) = 1 /\ rs[i][1] = EntryRead(E[i][1], E[i][2])
    BY <1>3, <1>8
  <2> DEFINE b == Len(joinLoop(rs)[m])
  <2>5. At(J, b, rs[i]) /\ b \in Nat
    BY <2>1, <2>2, <2>3
  <2> HIDE DEF b
  <2>6. b + 1 <= Len(J) /\ J[b + 1] = rs[i][1]
    BY <2>4, <2>5 DEF At
  <2>7. b + 1 \in 1..Len(J)
    BY <1>6, <2>5, <2>6
  <2>. QED BY <2>4, <2>6, <2>7
<1>. QED BY <1>5, <1>6, <1>7, <1>8 DEF rs, N

\* What the scan finds is a reading.
LEMMA ScanIsReading ==
  ASSUME NEW m \in Contents, NEW S \in SetToSeqs(Present(m)), NEW got,
         got.entries = Join(reads(entriesOf(m, S)))
  PROVE  IsReading(got, m)
<1> DEFINE E == entriesOf(m, S)
<1> DEFINE J == Join(reads(E))
<1> DEFINE P == Present(m)
<1>1. EntriesFit(E)
  BY EntriesOfIs
<1>2. /\ \A i \in 1..Len(E) : E[i][1] \in P /\ E[i][2] = m[E[i][1]]
      /\ \A k \in P : \E i \in 1..Len(E) : E[i][1] = k
  BY EntriesOfIs
<1>3. /\ Len(J) \in Nat /\ DOMAIN J = 1..Len(J)
      /\ \A n \in 1..Len(J) : \E i \in 1..Len(E) : ~IsFlag(E[i][1]) /\ J[n] = EntryRead(E[i][1], E[i][2])
      /\ \A i \in 1..Len(E) : ~IsFlag(E[i][1]) => \E n \in 1..Len(J) : J[n] = EntryRead(E[i][1], E[i][2])
  BY <1>1, WhatIsRead
<1> HIDE DEF E
<1>4. ASSUME NEW k \in Keys
      PROVE  /\ IsFlag(k) => KeyRead[k] = Null
             /\ ~IsFlag(k) => KeyRead[k] = KeyAsRead(k) /\ KeyRead[k] \in Keys
  <2>1. KeyFits(k) /\ KeyAsRead(k) \in Keys /\ KeyRead[k] = keyRead(k, Null)
    BY TextAssumption
  <2>2. keyRead(k, Null) = IF IsFlag(k) THEN Null ELSE KeyAsRead(k)
    BY <2>1, KeyReadIs
  <2>. QED BY <2>1, <2>2
<1>5. P \subseteq Keys /\ \A k \in P : m[k] \in Values
  BY DEF Present, Contents
<1>6. Null \notin Keys
  BY CLIAssumption
<1>7. ASSUME NEW n \in 1..Len(J)
      PROVE  \E k \in P : KeyRead[k] \in Keys /\ J[n][1] = KeyRead[k] /\ J[n][2] = Json(m[k])
  <2>1. PICK i \in 1..Len(E) : ~IsFlag(E[i][1]) /\ J[n] = EntryRead(E[i][1], E[i][2])
    BY <1>3
  <2> DEFINE k == E[i][1]
  <2>2. k \in P /\ k \in Keys /\ E[i][2] = m[k]
    BY <1>2, <1>5
  <2>3. J[n] = EntryRead(k, m[k])
    BY <2>1, <2>2
  <2>4. J[n][1] = KeyAsRead(k) /\ J[n][2] = Json(m[k])
    BY <2>3 DEF EntryRead
  <2>5. KeyRead[k] = KeyAsRead(k) /\ KeyRead[k] \in Keys
    BY <1>4, <2>1, <2>2
  <2>. QED BY <2>2, <2>4, <2>5
<1>8. ASSUME NEW k \in P, KeyRead[k] \in Keys
      PROVE  \E n \in 1..Len(J) : J[n][1] = KeyRead[k]
  <2>1. k \in Keys /\ ~IsFlag(k) /\ KeyRead[k] = KeyAsRead(k)
    BY <1>4, <1>5, <1>6, <1>8
  <2>2. PICK i \in 1..Len(E) : E[i][1] = k
    BY <1>2
  <2>3. PICK n \in 1..Len(J) : J[n] = EntryRead(k, E[i][2])
    BY <1>3, <2>1, <2>2
  <2>4. J[n][1] = KeyAsRead(k)
    BY <2>3 DEF EntryRead
  <2>. QED BY <2>1, <2>4
<1>9. got.entries = J
  BY DEF E
<1> HIDE DEF J
<1> DEFINE hits(j) == {n \in 1..Len(J) : J[n][1] = j}
<1> DEFINE top(j) == CHOOSE n \in hits(j) : \A l \in hits(j) : l <= n
<1>10. \A j : Found(got, j) = IF hits(j) = {} THEN Absent ELSE J[top(j)][2]
  BY <1>3, <1>9 DEF Found
<1>11. ASSUME NEW j, hits(j) # {} PROVE top(j) \in hits(j)
  BY <1>3, <1>11, LastOf
<1> DEFINE from(j, k) == k \in P /\ KeyRead[k] = j /\ Found(got, j) = Json(m[k])
<1>12. ASSUME NEW j \in Keys, hits(j) # {} PROVE \E k \in P : from(j, k)
  <2>1. top(j) \in 1..Len(J) /\ J[top(j)][1] = j
    BY <1>11, <1>12
  <2> HIDE DEF top
  <2>2. PICK k \in P : J[top(j)][1] = KeyRead[k] /\ J[top(j)][2] = Json(m[k])
    BY <1>7, <2>1
  <2>3. Found(got, j) = J[top(j)][2]
    BY <1>10, <1>12 DEF top
  <2>. QED BY <2>1, <2>2, <2>3
<1>13. ASSUME NEW j \in Keys, hits(j) = {} PROVE \A k \in P : KeyRead[k] # j
  BY <1>8, <1>13
<1> DEFINE r == [j \in Keys |-> IF hits(j) = {} THEN Absent ELSE Reloaded[m[CHOOSE k \in P : from(j, k)]]]
<1>14. ASSUME NEW j \in Keys
       PROVE  IF hits(j) = {} THEN r[j] = Absent /\ Found(got, j) = Absent
              ELSE \E k \in P : from(j, k) /\ r[j] = Reloaded[m[k]] /\ r[j] \in Values /\ r[j] # Absent
  <2>1. CASE hits(j) = {}
    BY <1>10, <2>1
  <2>2. CASE hits(j) # {}
    <3> DEFINE c == CHOOSE k \in P : from(j, k)
    <3>1. c \in P /\ from(j, c)
      <4> HIDE DEF from
      <4>. QED BY <1>12, <2>2
    <3>2. r[j] = Reloaded[m[c]]
      BY <2>2
    <3> HIDE DEF c, r, from
    <3>3. Reloaded[m[c]] \in Values
      BY <1>5, <3>1, CLIAssumption
    <3>4. Absent \notin Values
      BY StoreAssumption
    <3>. QED BY <2>2, <3>1, <3>2, <3>3, <3>4
  <2>. QED BY <2>1, <2>2
<1>15. r \in Contents
  <2>1. r \in [Keys -> Values \cup {Absent}]
    <3>1. \A j \in Keys : r[j] \in Values \cup {Absent}
      <4> HIDE DEF r, hits, from
      <4>. QED BY <1>14
    <3> DEFINE g(j) == IF hits(j) = {} THEN Absent ELSE Reloaded[m[CHOOSE k \in P : from(j, k)]]
    <3>2. r = [j \in Keys |-> g(j)]
      OBVIOUS
    <3> HIDE DEF g, r
    <3>. QED BY <3>1, <3>2
  <2>. QED BY <2>1 DEF Contents
<1>16. r \in Readings(m)
  <2>1. ASSUME NEW j \in Keys
        PROVE  IF {k \in P : KeyRead[k] = j} = {} THEN r[j] = Absent
               ELSE \E k \in {k \in P : KeyRead[k] = j} : r[j] = Reloaded[m[k]]
    <3> HIDE DEF r, hits
    <3>1. CASE hits(j) = {}
      BY <1>13, <1>14, <3>1
    <3>2. CASE hits(j) # {}
      BY <1>14, <3>2
    <3>. QED BY <3>1, <3>2
  <2> HIDE DEF r
  <2>. QED BY <1>15, <2>1 DEF Readings
<1>17. ASSUME NEW j \in Keys
       PROVE  IF r[j] = Absent THEN Found(got, j) = Absent
              ELSE \E k \in P : KeyRead[k] = j /\ Found(got, j) = Json(m[k]) /\ r[j] = Reloaded[m[k]]
  <2> HIDE DEF r, hits
  <2>. QED BY <1>14
<1>18. \A n \in DOMAIN got.entries : got.entries[n][1] \in Keys
  <2>1. DOMAIN got.entries = 1..Len(J)
    BY <1>3, <1>9 DEF J
  <2>. QED BY <1>7, <1>9, <2>1
<1> HIDE DEF r
<1>. QED BY <1>16, <1>17, <1>18 DEF IsReading

\* So it is for whatever a file holds that was written whole.
LEMMA ImageReads ==
  ASSUME NEW i \in FileImage, i.autosave # "missing", NEW S \in SetToSeqs(Present(i.map))
  PROVE  /\ loaded(TextOf(i, S)).flag = i.autosave
         /\ IsReading(loaded(TextOf(i, S)), i.map)
<1> DEFINE E == entriesOf(i.map, S)
<1>1. i.map \in Contents /\ i.autosave \in {"true", "false"}
  BY DEF FileImage
<1>2. EntriesFit(E)
  BY <1>1, EntriesOfIs
<1>3. TextOf(i, S) = storeText(E, i.autosave)
  BY DEF TextOf, entriesOf
<1>4. loaded(TextOf(i, S)) = [entries |-> Join(reads(E)), flag |-> i.autosave]
  <2> HIDE DEF E
  <2>. QED BY <1>1, <1>2, <1>3, LoadedStore
<1>5. loaded(TextOf(i, S)).entries = Join(reads(E)) /\ loaded(TextOf(i, S)).flag = i.autosave
  BY <1>4
<1>. QED BY <1>1, <1>5, ScanIsReading

\* Whatever is typed and whenever processes are killed: the text of a file that
\* was written whole is scanned to one of the Readings of what it holds, and the
\* flag, in whatever order keys() gave the entries.
THEOREM TextReadsCorrect == HistorySpec => []TextReads
<1>1. CLITypeOK => TextReads
  <2> SUFFICES ASSUME CLITypeOK, NEW f \in Files, \A g \in Files : disk[g] # NoFile <=> g = f,
                      disk[f].autosave # "missing", NEW S \in SetToSeqs(Present(disk[f].map))
               PROVE  LET got == loaded(TextOf(disk[f], S))
                      IN  got.flag = disk[f].autosave /\ IsReading(got, disk[f].map)
    BY DEF TextReads
  <2>1. disk[f] \in FileImage
    BY DEF CLITypeOK
  <2>. QED BY <2>1, ImageReads
<1>. QED BY <1>1, CLITypeCorrect, PTL

=============================================================================
