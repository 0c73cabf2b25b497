--------------------------- MODULE KeyValueStore ---------------------------
(***************************************************************************)
(* The stores of one process: kvspp::core::KeyValueStore with its          *)
(* TypeRegistry, one of each per store token.                              *)
(*                                                                         *)
(* Every public operation of the class holds mtx_ of its store from its    *)
(* first statement to its last, and blocks on nothing but the registry's   *)
(* own mutex, so each is one atomic step here.  What is NOT protected is   *)
(* the ValueObject that get() returns: a raw pointer into the map, used    *)
(* by the caller after mtx_ is released.  `ptr' records, for each thread,  *)
(* the pointer it holds and whether the store still owns what it points    *)
(* to.                                                                     *)
(*                                                                         *)
(* Values are attribute values (std::variant) of the only attribute the    *)
(* commands write, "value"; module ValueObject says how they come out of   *)
(* the text of a command and what the JSON round trip makes of them.       *)
(***************************************************************************)
CONSTANTS
  Threads,    \* threads that run commands
  Tokens,     \* store tokens
  Keys,       \* keys of the entries
  Values,     \* attribute values
  TypeOf,     \* the AttributeType of each value
  Absent,     \* what an unmapped key maps to
  Null        \* no pointer, no lock holder, no command

Types == {"STRING", "INTEGER", "DOUBLE", "BOOLEAN"}

ASSUME StoreAssumption ==
  /\ TypeOf \in [Values -> Types]
  /\ Absent \notin Values
  /\ Null \notin Threads

VARIABLES
  store,      \* store[tok][k]: the value held under k (store_)
  autosave,   \* autosave[tok]: the autosave flag of the store (autosave_)
  registry,   \* registry[tok]: the type registered for "value", or "none"
  ptr         \* ptr[t]: the ValueObject pointer thread t got from get()

kvVars == <<store, autosave, registry, ptr>>

Pointer == [tok: Tokens, key: Keys, val: Values, live: BOOLEAN]

\* A pointer is a record, the null pointer is not: no tuple of fields is Null.
ASSUME PointerAssumption == Null \notin Pointer

Contents == [Keys -> Values \cup {Absent}]
EmptyStore == [k \in Keys |-> Absent]
Present(m) == {k \in Keys : m[k] # Absent}

KVTypeOK ==
  /\ store \in [Tokens -> Contents]
  /\ autosave \in [Tokens -> BOOLEAN]
  /\ registry \in [Tokens -> Types \cup {"none"}]
  /\ ptr \in [Threads -> Pointer \cup {Null}]

KVInit ==
  /\ store = [tok \in Tokens |-> EmptyStore]
  /\ autosave = [tok \in Tokens |-> FALSE]
  /\ registry = [tok \in Tokens |-> "none"]
  /\ ptr = [t \in Threads |-> Null]

-----------------------------------------------------------------------------
\* Mutated: types are never compared.
MismatchIgnored(tok, v) == FALSE

\* validateAndRegisterType throws: another type is registered already.
Mismatch(tok, v) == registry[tok] \notin {"none", TypeOf[v]}

\* The entry under k is replaced or erased: its ValueObject is freed, and
\* every pointer to it dangles.
Freed(tok, k) ==
  [u \in Threads |-> IF ptr[u] # Null /\ ptr[u].tok = tok /\ ptr[u].key = k
                     THEN [ptr[u] EXCEPT !.live = FALSE]
                     ELSE ptr[u]]

\* get(): a pointer to the entry, to be read after mtx_ is released.
Get(t, tok, k) ==
  /\ ptr' = [ptr EXCEPT ![t] =
               IF store[tok][k] = Absent THEN Null
               ELSE [tok |-> tok, key |-> k, val |-> store[tok][k], live |-> TRUE]]
  /\ UNCHANGED <<store, autosave, registry>>

\* The caller of get() is done with its pointer.
DropPointer(t) ==
  /\ ptr' = [ptr EXCEPT ![t] = Null]
  /\ UNCHANGED <<store, autosave, registry>>

\* Mutated: registers the attribute's name in place of its type.
PutRegistersName(tok, k, v) ==
  /\ ~Mismatch(tok, v)
  /\ registry' = [registry EXCEPT ![tok] = "value"]
  /\ store' = [store EXCEPT ![tok][k] = v]
  /\ ptr' = Freed(tok, k)
  /\ UNCHANGED autosave

\* put(): the value's type is checked and registered, then the entry replaced.
Put(tok, k, v) ==
  /\ ~Mismatch(tok, v)
  /\ registry' = [registry EXCEPT ![tok] = TypeOf[v]]
  /\ store' = [store EXCEPT ![tok][k] = v]
  /\ ptr' = Freed(tok, k)
  /\ UNCHANGED autosave

\* deleteKey(): erases the entry if there is one.
DeleteKey(tok, k) ==
  /\ store' = [store EXCEPT ![tok][k] = Absent]
  /\ ptr' = Freed(tok, k)
  /\ UNCHANGED <<autosave, registry>>

SetAutosave(tok, on) ==
  /\ autosave' = [autosave EXCEPT ![tok] = on]
  /\ UNCHANGED <<store, registry, ptr>>

\* The memory of a new process: no store exists yet.
Wiped ==
  /\ store' = [tok \in Tokens |-> EmptyStore]
  /\ autosave' = [tok \in Tokens |-> FALSE]
  /\ registry' = [tok \in Tokens |-> "none"]
  /\ ptr' = [t \in Threads |-> Null]

=============================================================================
