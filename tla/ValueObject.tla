---------------------------- MODULE ValueObject ----------------------------
(***************************************************************************)
(* Attribute values and the four conversions they go through: from the     *)
(* text of a command (ValueObject::parseStringToAttributeValue), to the    *)
(* text of a reply (getValueString), to JSON and back (attributeValueToJson*)
(* and parseJsonValue of PersistenceManager).                              *)
(*                                                                         *)
(* A text is what the parsers tell apart: a boolean, a decimal number with *)
(* or without a point, a spelling of infinity or not-a-number, any other   *)
(* word.  Numbers are integers counting the smallest unit a literal can    *)
(* carry: One units make 1, and std::to_string of a double keeps Grain     *)
(* units (six decimals in the code).                                       *)
(***************************************************************************)
EXTENDS Integers

CONSTANTS
  IntMin, IntMax,   \* the range of int
  One, Grain        \* units in 1, units in the last digit printed

ASSUME NumberAssumption ==
  /\ IntMin \in Int /\ IntMax \in Int
  /\ Grain \in Nat \ {0} /\ One \in Nat \ {0} /\ One % Grain = 0

\* Texts.
Bool(b) == <<"bool", b>>
Number(n, point) == <<"number", n, point>>
NonFinite(x) == <<"nonfinite", x>>
Word(w) == <<"word", w>>

FitsInt(n) == n % One = 0 /\ IntMin <= n \div One /\ n \div One <= IntMax

\* parseStringToAttributeValue: boolean, then int if all of the text is one
\* in range, then double, then string.
parseStringToAttributeValue(text) ==
  CASE text[1] = "bool"      -> <<"BOOLEAN", text[2]>>
    [] text[1] = "number"    -> IF ~text[3] /\ FitsInt(text[2])
                                THEN <<"INTEGER", text[2]>>
                                ELSE <<"DOUBLE", "finite", text[2]>>
    [] text[1] = "nonfinite" -> <<"DOUBLE", "nonfinite", text[2]>>
    [] OTHER                 -> <<"STRING", text>>

\* std::to_string of a double rounds to the last digit it prints.
Printed(n) == Grain * ((n + Grain \div 2) \div Grain)

getValueString(v) ==
  CASE v[1] = "STRING"  -> v[2]
    [] v[1] = "INTEGER" -> Number(v[2], FALSE)
    [] v[1] = "DOUBLE"  -> IF v[2] = "finite" THEN Number(Printed(v[3]), TRUE)
                           ELSE NonFinite(v[3])
    [] v[1] = "BOOLEAN" -> Bool(v[2])

\* Strings are quoted, everything else is written as it prints.
attributeValueToJson(v) ==
  IF v[1] = "STRING" THEN <<"quoted", v[2]>> ELSE <<"bare", getValueString(v)>>

\* parseJsonValue: boolean, quoted string, a double if there is a point, an
\* int, and what stoi rejects is kept as a string.
parseJsonValue(json) ==
  LET text == json[2] IN
  CASE json[1] = "quoted"                                          -> <<"STRING", text>>
    [] json[1] = "bare" /\ text[1] = "bool"                        -> <<"BOOLEAN", text[2]>>
    [] json[1] = "bare" /\ text[1] = "number" /\ text[3]           -> <<"DOUBLE", "finite", text[2]>>
    [] json[1] = "bare" /\ text[1] = "number" /\ ~text[3] /\ FitsInt(text[2])
                                                                   -> <<"INTEGER", text[2]>>
    [] OTHER                                                       -> <<"STRING", text>>

\* getTypeFromValue: the alternative the variant holds.
getTypeFromValue(v) == v[1]

\* What a SAVE and a LOAD make of a value.
Reload(v) == parseJsonValue(attributeValueToJson(v))

=============================================================================
