----------------------------- MODULE StoreText -----------------------------
(***************************************************************************)
(* The JSON text of a store: how PersistenceManager writes it and how its  *)
(* hand-written scanner reads it back.  A text is a sequence of the pieces *)
(* the scanner tells apart: quote, backslash, colon, braces, comma, line   *)
(* end, and stretches of anything else.  Blanks are left out.              *)
(***************************************************************************)
EXTENDS ValueObject, Sequences, FiniteSets, TLC

quote == "quote"
backslash == "backslash"
newline == "newline"

\* The texts in ss behind one another: the first n of them.
joinLoop(ss) ==
  LET result[n \in 0..Len(ss)] == IF n = 0 THEN <<>> ELSE result[n - 1] \o ss[n]
  IN  result

Join(ss) == joinLoop(ss)[Len(ss)]

\* The letter that stands for a character behind a backslash.
Letter == [c \in {quote, backslash, newline} |-> IF c = newline THEN "n" ELSE c]

Escaped(c) == IF c \in DOMAIN Letter THEN <<backslash, Letter[c]>> ELSE <<c>>

\* escapeJsonString().
escape(s) == Join([n \in DOMAIN s |-> Escaped(s[n])])

\* Character n of s: skipped behind a backslash it belongs to.  A backslash
\* before anything else, or at the end, stands for itself.
Unescaped(r, s, n) ==
  IF r.skip THEN [r EXCEPT !.skip = FALSE]
  ELSE IF s[n] = backslash /\ n < Len(s) /\ \E c \in DOMAIN Letter : Letter[c] = s[n + 1]
       THEN [text |-> Append(r.text, CHOOSE c \in DOMAIN Letter : Letter[c] = s[n + 1]), skip |-> TRUE]
       ELSE [text |-> Append(r.text, s[n]), skip |-> FALSE]

\* unescapeJsonString(): the result after n characters.
unescapeLoop(s) ==
  LET result[n \in 0..Len(s)] ==
        IF n = 0 THEN [text |-> <<>>, skip |-> FALSE] ELSE Unescaped(result[n - 1], s, n)
  IN  result

unescape(s) == unescapeLoop(s)[Len(s)].text

-----------------------------------------------------------------------------
(* Writing.                                                                *)

\* Pieces of a text: a word is spelled out, the rest is in one piece.
Spelled(text) ==
  CASE text[1] = "word" -> text[2]
    [] text[1] = "bool" -> <<IF text[2] THEN "true" ELSE "false">>
    [] OTHER            -> <<ToString(text)>>

\* attributeValueToJson(): strings are quoted and escaped, the rest is bare.
valueText(v) ==
  LET json == attributeValueToJson(v)
  IN  IF json[1] = "quoted" THEN <<quote>> \o escape(Spelled(json[2])) \o <<quote>>
      ELSE Spelled(json[2])

\* One entry, an object with the single attribute "value".
entryText(k, v) ==
  <<quote>> \o escape(k) \o <<quote, ":", "{", newline, quote, "value", quote, ":">>
    \o valueText(v) \o <<newline, "}", ",", newline>>

\* save(): the entries <<key, value>> in the order of keys(), then the flag.
storeText(entries, flag) ==
  <<"{", newline, quote, "store", quote, ":", "{", newline>>
    \o Join([i \in DOMAIN entries |-> entryText(entries[i][1], entries[i][2])])
    \o <<quote, "autosave", quote, ":", flag, newline, "}", newline, "}">>

-----------------------------------------------------------------------------
(* Reading.                                                                *)

\* std::string::find: the first c at or after position i, 0 if there is none.
find(s, c, i) ==
  LET hits == {j \in i..Len(s) : s[j] = c}
  IN  IF hits = {} THEN 0 ELSE CHOOSE j \in hits : \A l \in hits : j <= l

\* What piece c makes of the count of braces that are open.  The braces inside
\* strings do not count, nor the quotes that are escaped.
Scanned(at, c) ==
  IF at.escaped THEN [at EXCEPT !.escaped = FALSE]
  ELSE [escaped  |-> c = backslash,
        inString |-> IF c = quote THEN ~at.inString ELSE at.inString,
        depth    |-> at.depth + (IF at.inString THEN 0
                                 ELSE IF c = "{" THEN 1 ELSE IF c = "}" THEN -1 ELSE 0)]

\* The scan of s from position `from' on, behind one open brace.
scanLoop(s, from) ==
  LET at[n \in 0..Len(s)] ==
        IF n < from THEN [depth |-> 1, inString |-> FALSE, escaped |-> FALSE]
        ELSE Scanned(at[n - 1], s[n])
  IN  at

\* Where that brace closes; past the end if nowhere.
closing(s, from) ==
  LET ends == {n \in from..Len(s) : scanLoop(s, from)[n].depth = 0}
  IN  IF ends = {} THEN Len(s) + 1 ELSE CHOOSE n \in ends : \A l \in ends : n <= l

\* jsonToValueObject() and parseJsonValue(): what follows the first colon of
\* the line, without its quotes and escapes.
objectValue(s) ==
  LET colon == find(s, ":", 1)
      json  == SubSeq(s, colon + 1, find(s, newline, colon) - 1)
  IN  IF json[1] = quote /\ json[Len(json)] = quote
      THEN <<"quoted", unescape(SubSeq(json, 2, Len(json) - 1))>>
      ELSE <<"bare", json>>

\* Mutated: the scan goes on behind the colon.
afterFlagAtColon(s, colon) == colon

\* Where the scan stands after the autosave flag: the comma behind it.
afterFlag(s, colon) == find(s, ",", colon)

\* One round of parseStoreSection()'s loop.  The end of a key is the next quote,
\* escaped or not; a key that reads "autosave" is the flag.
Parsed(s, at) ==
  LET start == find(s, quote, at.pos)
      end   == find(s, quote, start + 1)
      colon == find(s, ":", end)
      key   == SubSeq(s, start + 1, end - 1)
      comma == afterFlag(s, colon)
      open  == find(s, "{", colon)
      close == closing(s, open + 1)
      entry == <<unescape(key), objectValue(SubSeq(s, open, close))>>
      stop  == [at EXCEPT !.pos = Len(s) + 1]
  IN  CASE start = 0 \/ end = 0 \/ colon = 0 -> stop
        [] start # 0 /\ end # 0 /\ colon # 0 /\ key = <<"autosave">> ->
             [pos     |-> IF comma = 0 THEN Len(s) + 1 ELSE comma + 1,
              entries |-> at.entries,
              flag    |-> s[colon + 1]]
        [] OTHER -> IF open = 0 \/ close > Len(s) THEN stop
                    ELSE [pos |-> close + 1, entries |-> Append(at.entries, entry), flag |-> at.flag]

\* parseStoreSection(): what it has put after n rounds.
parseLoop(s) ==
  LET at[n \in 0..Len(s)] ==
        IF n = 0 THEN [pos |-> 1, entries |-> <<>>, flag |-> "missing"]
        ELSE LET last == at[n - 1] IN IF last.pos > Len(s) THEN last ELSE Parsed(s, last)
  IN  at

parse(s) ==
  LET done == parseLoop(s)[Len(s)] IN [entries |-> done.entries, flag |-> done.flag]

\* load(): the section behind "store", which findJsonValue ends before the
\* last brace of the text.
loaded(text) ==
  LET open  == find(text, "{", find(text, "store", 1))
      outer == closing(text, open)
  IN  parse(SubSeq(text, open + 1, outer - 1))

\* The key that a load puts an entry under, if it puts it at all.
keyRead(k, none) ==
  LET got == loaded(storeText(<< <<k, <<"BOOLEAN", TRUE>> >> >>, "false")).entries
  IN  IF got = <<>> THEN none ELSE got[1][1]

-----------------------------------------------------------------------------
(* What is read back of what has been written.                             *)

\* Pieces are strings; the ones that are written by name are listed.
Piece ==
  STRING \cup {quote, backslash, newline, "n", ":", "{", "}", ",", "store", "autosave", "value", "true", "false"}

\* The key that is taken for the flag.
IsFlag(k) == k = <<"autosave">>

\* The key that a text is read as: up to its first quote, with the backslash
\* that escaped it.
KeyAsRead(k) ==
  LET n == find(k, quote, 1) IN IF n = 0 THEN k ELSE Append(SubSeq(k, 1, n - 1), backslash)

\* A key that is cut at a quote has no brace that would be taken for the one
\* of the object.
KeyFits(k) ==
  /\ k \in Seq(Piece)
  /\ (\E i \in 1..Len(k) : k[i] = quote) => \A i \in 1..Len(k) : k[i] # "{"

\* The bare spelling of a number or a boolean is one piece that the scanner
\* takes no notice of.
ValueFits(v) ==
  IF v[1] = "STRING" THEN Spelled(v[2]) \in Seq(Piece)
  ELSE LET text == Spelled(getValueString(v))
       IN  /\ text \in Seq(Piece) /\ Len(text) = 1
           /\ text[1] \notin {quote, backslash, newline, "{", "}", ","}

NoComma(V) == \A i \in 1..Len(V) : V[i] # ","

\* A value as the scanner finds it: quoted or bare, and its text.
Json(v) ==
  LET json == attributeValueToJson(v) IN <<json[1], Spelled(json[2])>>

\* Entries that the scanner takes apart where they were put together.  The
\* value of the key "autosave" is skipped up to its first comma.
EntriesFit(E) ==
  /\ Len(E) \in Nat /\ DOMAIN E = 1..Len(E)
  /\ \A i \in 1..Len(E) : /\ KeyFits(E[i][1]) /\ ValueFits(E[i][2])
                          /\ IsFlag(E[i][1]) => NoComma(valueText(E[i][2]))

\* What the scanner finds of entry k, v.
Reads(k, v) == IF IsFlag(k) THEN <<>> ELSE << <<KeyAsRead(k), Json(v)>> >>

reads(E) == [i \in DOMAIN E |-> Reads(E[i][1], E[i][2])]

=============================================================================
