------------------------------- MODULE MCCLI -------------------------------
(* Instances of CLIText for TLC. *)
EXTENDS CLIText, FileNames

MCTokens == {<<"", "x", 0>>}
MCFileOf == [tok \in Tokens |-> TokenFile(tok)]
MCFiles == {TokenFile(tok) : tok \in Tokens} \cup {StorePath(<<"", "backup", 0>>)}
OneFile == {TokenFile(tok) : tok \in Tokens}

\* The key a" , what the scanner makes of it, and the key "autosave".
MCKeys == {<<"a", quote>>, <<"a", backslash>>, <<"autosave">>}
PlainKeys == {<<"a">>, <<"b">>}
MCKeyRead ==
  [k \in Keys |-> CASE k = <<"autosave">> -> Null
                    [] k = <<"a", quote>> -> <<"a", backslash>>
                    [] OTHER              -> k]

\* An int, infinity, and the string inf.
MCValues ==
  {parseStringToAttributeValue(t) : t \in {Number(One, FALSE), NonFinite("inf")}}
    \cup {<<"STRING", NonFinite("inf")>>}
MCTypeOf == [v \in Values |-> getTypeFromValue(v)]
MCReloaded == [v \in Values |-> Reload(v)]

MCIntMin == -8
MCIntMax == 7
MCOne == 100
MCGrain == 10

\* What has been printed is read by no command.
StateOnly == <<kvVars, known, disk, up, auto, synced>>

\* Braces and colons in a key, and quotes, braces and backslashes in a value,
\* do not mislead the scanner.
ASSUME OddTextAssumption ==
  LET k == <<"b", "{", ":">>
      v == parseStringToAttributeValue(Word(<<quote, "}", backslash>>))
  IN  loaded(storeText(<< <<k, v>> >>, "true")) = [entries |-> << <<k, Json(v)>> >>, flag |-> "true"]

=============================================================================
