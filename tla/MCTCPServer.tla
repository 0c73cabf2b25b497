---------------------------- MODULE MCTCPServer ----------------------------
(* Instances of TCPServer for TLC. *)
EXTENDS TCPServer, ValueObject, FileNames, TLC

\* The text of the values SET may carry.
OneWord == {parseStringToAttributeValue(Word("red"))}
TwoWords == OneWord \cup {parseStringToAttributeValue(Word("blue"))}
MixedTypes == OneWord \cup {parseStringToAttributeValue(Number(One, FALSE))}

\* inf is a double, which a save and a LOAD make the string inf.
Infinity == parseStringToAttributeValue(NonFinite("inf"))
InfAndReloaded == {Infinity, Reload(Infinity)}

MCTypeOf == [v \in Values |-> getTypeFromValue(v)]
MCReloaded == [v \in Values |-> Reload(v)]

\* int is four bits wide; a literal has two decimals, a printed double one.
MCIntMin == -8
MCIntMax == 7
MCOne == 100
MCGrain == 10

\* Stores, with the files of their autosaves.
PlainToken == {<<"", "x", 0>>}
TwoTokens == PlainToken \cup {<<"", "y", 0>>}
MCFileOf == [tok \in Tokens |-> TokenFile(tok)]
MCFiles == {TokenFile(tok) : tok \in Tokens}

\* A bound: clients turn autosave on only.  It is off in a new process, and after
\* the LOAD of a file whose last field was cut.
TurnOnOnly ==
  \A t \in Threads : job[t] # Null /\ job[t].op = "AUTOSAVE" => job[t].on

Symmetry == Permutations(Threads) \cup Permutations(Keys)
=============================================================================
