------------------------- MODULE ConversionsProofs -------------------------
(***************************************************************************)
(* What the models of the server and of the CLI assume of values, of file  *)
(* names and of what the JSON scanner makes of keys, shown of the          *)
(* conversions themselves, for every width of int, every number of         *)
(* decimals, every set of tokens and texts of every length.                *)
(*                                                                         *)
(* CLIAssumption asks that a value which has been saved and loaded once    *)
(* does not change again.  The one case that is not plain is a double: it  *)
(* is printed rounded, and what has been rounded rounds to itself          *)
(* (RoundedStays), because the half that is added to it is less than a     *)
(* unit of the last digit.                                                 *)
(*                                                                         *)
(* The second part is about texts (StoreText).  They are handled by where  *)
(* pieces stand in them: At(s, a, u) says that u stands in s behind        *)
(* position a.  Each loop of the writer and of the reader is a recursive   *)
(* function of the position; that it is what it says it is (JoinLoopDef    *)
(* and the like) and what it has done after n rounds is shown by NatInd,   *)
(* induction for a set of numbers, which follows from the finite sets'     *)
(* theorems.  UnescapeEscape: escapes are undone.  Calm: a stretch of text *)
(* over which the count of braces does not fall below where it was, as     *)
(* over a string, an object, an entry, all entries.  HasRead: what the     *)
(* parser has found after n entries, and that no quote stands between it   *)
(* and the next; ReadOne takes it from n to n + 1.  LoadedStore puts these *)
(* together for the whole text.                                            *)
(***************************************************************************)
EXTENDS StoreText, FileNames, FiniteSetTheorems, FunctionTheorems, TLAPS

\* The texts the parsers tell apart, with any words at all.
IsText(text) ==
  \/ \E b \in BOOLEAN : text = Bool(b)
  \/ \E n \in Int, point \in BOOLEAN : text = Number(n, point)
  \/ \E x : text = NonFinite(x)
  \/ \E w : text = Word(w)

\* The values that parseStringToAttributeValue and parseJsonValue give.
IsValue(v) ==
  \/ \E b \in BOOLEAN : v = <<"BOOLEAN", b>>
  \/ \E n \in Int : FitsInt(n) /\ v = <<"INTEGER", n>>
  \/ \E n \in Int : v = <<"DOUBLE", "finite", n>>
  \/ \E x : v = <<"DOUBLE", "nonfinite", x>>
  \/ \E text : IsText(text) /\ v = <<"STRING", text>>

\* A quotient is the number of whole divisors.
LEMMA Quotient ==
  ASSUME NEW g \in Nat \ {0}, NEW q \in Int, NEW r \in 0..(g - 1)
  PROVE  (g * q + r) \div g = q
<1> DEFINE n == g * q + r
<1>1. n \in Int
  OBVIOUS
<1>2. n = g * (n \div g) + (n % g) /\ n % g \in 0..(g - 1) /\ n \div g \in Int
  BY <1>1
<1>. QED BY <1>1, <1>2

\* A number that has been rounded is a multiple of the last digit.
LEMMA RoundedStays ==
  ASSUME NEW n \in Int
  PROVE  Printed(n) \in Int /\ Printed(Printed(n)) = Printed(n)
<1> DEFINE q == (n + Grain \div 2) \div Grain
<1>1. Grain \in Nat \ {0} /\ Grain \div 2 \in 0..(Grain - 1)
  BY NumberAssumption
<1>2. q \in Int
  BY <1>1
<1>3. (Grain * q + Grain \div 2) \div Grain = q
  BY <1>1, <1>2, Quotient
<1>. QED BY <1>1, <1>2, <1>3 DEF Printed
\* A rounded number is off by half a unit of the last digit at most.
LEMMA RoundedNear ==
  ASSUME NEW n \in Int
  PROVE  2 * (Printed(n) - n) <= Grain /\ 2 * (n - Printed(n)) <= Grain
<1> DEFINE m == n + Grain \div 2
<1>1. Grain \in Nat \ {0} /\ Grain \div 2 \in Int /\ 2 * (Grain \div 2) <= Grain
      /\ Grain <= 2 * (Grain \div 2) + 1
  BY NumberAssumption
<1>2. m \in Int
  BY <1>1
<1>3. m = Grain * (m \div Grain) + (m % Grain) /\ m % Grain \in 0..(Grain - 1) /\ m \div Grain \in Int
  BY <1>1, <1>2
<1>4. Printed(n) = m - (m % Grain)
  BY <1>2, <1>3, <1>1 DEF Printed
<1>. QED BY <1>1, <1>3, <1>4

-----------------------------------------------------------------------------
(* Values.                                                                 *)

\* What SET makes of a text is a value.
LEMMA ParsedIsValue ==
  ASSUME NEW text, IsText(text)
  PROVE  IsValue(parseStringToAttributeValue(text))
<1>1. CASE \E b \in BOOLEAN : text = Bool(b)
  BY <1>1 DEF Bool, parseStringToAttributeValue, IsValue
<1>2. CASE \E n \in Int, point \in BOOLEAN : text = Number(n, point)
  BY <1>2 DEF Number, parseStringToAttributeValue, IsValue
<1>3. CASE \E x : text = NonFinite(x)
  BY <1>3 DEF NonFinite, parseStringToAttributeValue, IsValue
<1>4. CASE \E w : text = Word(w)
  <2>1. parseStringToAttributeValue(text) = <<"STRING", text>>
    BY <1>4 DEF Word, parseStringToAttributeValue
  <2>. QED BY <2>1 DEF IsValue
<1>. QED BY <1>1, <1>2, <1>3, <1>4 DEF IsText

\* What a save and a load make of each kind of value.
LEMMA ReloadCases ==
  /\ \A b \in BOOLEAN : Reload(<<"BOOLEAN", b>>) = <<"BOOLEAN", b>>
  /\ \A n \in Int : FitsInt(n) => Reload(<<"INTEGER", n>>) = <<"INTEGER", n>>
  /\ \A n : Reload(<<"DOUBLE", "finite", n>>) = <<"DOUBLE", "finite", Printed(n)>>
  /\ \A x : Reload(<<"DOUBLE", "nonfinite", x>>) = <<"STRING", NonFinite(x)>>
  /\ \A text : Reload(<<"STRING", text>>) = <<"STRING", text>>
<1>. USE DEF Reload, attributeValueToJson, getValueString, parseJsonValue, Bool, Number, NonFinite
<1>1. \A b \in BOOLEAN : Reload(<<"BOOLEAN", b>>) = <<"BOOLEAN", b>>
  OBVIOUS
<1>2. \A n \in Int : FitsInt(n) => Reload(<<"INTEGER", n>>) = <<"INTEGER", n>>
  OBVIOUS
<1>3. \A n : Reload(<<"DOUBLE", "finite", n>>) = <<"DOUBLE", "finite", Printed(n)>>
  OBVIOUS
<1>4. \A x : Reload(<<"DOUBLE", "nonfinite", x>>) = <<"STRING", NonFinite(x)>>
  OBVIOUS
<1>5. \A text : Reload(<<"STRING", text>>) = <<"STRING", text>>
  OBVIOUS
<1>. QED BY <1>1, <1>2, <1>3, <1>4, <1>5

\* A value that has been saved and loaded is a value, and is read back from the
\* next file as it is: doubles lose digits once only, and an infinity that has
\* become a string stays that string.
THEOREM ReloadTwice ==
  ASSUME NEW v, IsValue(v)
  PROVE  IsValue(Reload(v)) /\ Reload(Reload(v)) = Reload(v)
<1>1. CASE \E b \in BOOLEAN : v = <<"BOOLEAN", b>>
  BY <1>1, ReloadCases DEF IsValue
<1>2. CASE \E n \in Int : FitsInt(n) /\ v = <<"INTEGER", n>>
  BY <1>2, ReloadCases DEF IsValue
<1>3. CASE \E n \in Int : v = <<"DOUBLE", "finite", n>>
  BY <1>3, ReloadCases, RoundedStays DEF IsValue
<1>4. CASE \E x : v = <<"DOUBLE", "nonfinite", x>>
  BY <1>4, ReloadCases DEF IsValue, IsText
<1>5. CASE \E text : IsText(text) /\ v = <<"STRING", text>>
  BY <1>5, ReloadCases DEF IsValue
<1>. QED BY <1>1, <1>2, <1>3, <1>4, <1>5 DEF IsValue

\* A file gives every value back with the type it was put with, and unchanged or
\* rounded, but for an infinity or not-a-number, which comes back as a string.
THEOREM ReloadKeepsType ==
  ASSUME NEW v, IsValue(v)
  PROVE  IF \E x : v = <<"DOUBLE", "nonfinite", x>>
         THEN getTypeFromValue(Reload(v)) = "STRING"
         ELSE /\ getTypeFromValue(Reload(v)) = getTypeFromValue(v)
              /\ Reload(v) # v =>
                   \E n, m \in Int : /\ v = <<"DOUBLE", "finite", n>>
                                     /\ Reload(v) = <<"DOUBLE", "finite", m>>
                                     /\ 2 * (m - n) <= Grain /\ 2 * (n - m) <= Grain
<1>. USE DEF getTypeFromValue
<1>1. CASE \E b \in BOOLEAN : v = <<"BOOLEAN", b>>
  BY <1>1, ReloadCases
<1>2. CASE \E n \in Int : FitsInt(n) /\ v = <<"INTEGER", n>>
  BY <1>2, ReloadCases
<1>3. CASE \E n \in Int : v = <<"DOUBLE", "finite", n>>
  <2>1. PICK n \in Int : v = <<"DOUBLE", "finite", n>>
    BY <1>3
  <2>2. Reload(v) = <<"DOUBLE", "finite", Printed(n)>>
    BY <2>1, ReloadCases
  <2>. QED BY <2>1, <2>2, RoundedStays, RoundedNear
<1>4. CASE \E x : v = <<"DOUBLE", "nonfinite", x>>
  BY <1>4, ReloadCases
<1>5. CASE \E text : IsText(text) /\ v = <<"STRING", text>>
  BY <1>5, ReloadCases
<1>. QED BY <1>1, <1>2, <1>3, <1>4, <1>5 DEF IsValue

\* So a set of values that files do not lead out of is what the CLI's model takes
\* for granted of its values.
THEOREM ReloadedFits ==
  ASSUME NEW V, \A v \in V : IsValue(v) /\ Reload(v) \in V, NEW R, R = [v \in V |-> Reload(v)]
  PROVE  R \in [V -> V] /\ \A v \in V : R[R[v]] = R[v]
BY ReloadTwice

-----------------------------------------------------------------------------
(* File names.                                                             *)

\* Two tokens are saved in one file exactly if they differ in nothing but the
\* directory they name.
LEMMA TokenFilesApart ==
  ASSUME NEW a \in Dirs \X STRING \X Nat, NEW b \in Dirs \X STRING \X Nat
  PROVE  TokenFile(a) = TokenFile(b) <=> a[2] = b[2] /\ a[3] = b[3]
BY DEF TokenFile, StorePath

-----------------------------------------------------------------------------
(* Texts: joining, and where pieces stand.                                 *)

\* Induction over the natural numbers, for a set S: with m least such that
\* some n <= m is missing, there is no such n.
LEMMA NatInd ==
  ASSUME NEW S, 0 \in S, \A n \in Nat : n \in S => n + 1 \in S
  PROVE  \A n \in Nat : n \in S
<1> SUFFICES ASSUME NEW n \in Nat, n \notin S PROVE FALSE
  OBVIOUS
<1> DEFINE A == {k \in 0..n : k \in S}
<1> DEFINE f == [k \in A |-> k + 1]
<1>1. IsFiniteSet(A) /\ IsFiniteSet(A \ {0})
  <2>1. IsFiniteSet(0..n)
    BY FS_Interval
  <2>2. A \subseteq 0..n /\ A \ {0} \subseteq 0..n
    OBVIOUS
  <2>. QED BY <2>1, <2>2, FS_Subset
<1>2. Cardinality(A \ {0}) = Cardinality(A) - 1 /\ Cardinality(A) \in Nat
  <2>1. 0 \in A
    OBVIOUS
  <2>. QED BY <1>1, <2>1, FS_RemoveElement, FS_CardinalityType
<1>3. \A k \in A : k + 1 \in A \ {0}
  OBVIOUS
<1>4. f \in Injection(A, A \ {0})
  BY <1>3 DEF Injection, IsInjective
<1>5. Cardinality(A) <= Cardinality(A \ {0})
  BY <1>1, <1>4, FS_Injection DEF ExistsInjection
<1>. QED BY <1>2, <1>5

\* The loop of joinLoop is what it says it is.
LEMMA JoinLoopDef ==
  ASSUME NEW ss, Len(ss) \in Nat
  PROVE  joinLoop(ss) = [n \in 0..Len(ss) |-> IF n = 0 THEN <<>> ELSE joinLoop(ss)[n - 1] \o ss[n]]
<1> DEFINE Step(last, n) == last \o ss[n]
<1> DEFINE Body(g, n) == IF n = 0 THEN <<>> ELSE Step(g[n - 1], n)
<1> DEFINE M == {m \in Nat : \E g : g = [n \in 0..m |-> Body(g, n)]}
<1> HIDE DEF Step
<1>1. 0 \in M
  <2>1. [n \in 0..0 |-> <<>>] = [n \in 0..0 |-> Body([i \in 0..0 |-> <<>>], n)]
    OBVIOUS
  <2>. QED BY <2>1
<1>2. ASSUME NEW m \in Nat, m \in M PROVE m + 1 \in M
  <2>1. PICK g : g = [n \in 0..m |-> Body(g, n)]
    BY <1>2
  <2> DEFINE h == [n \in 0..(m + 1) |-> IF n <= m THEN g[n] ELSE Body(g, n)]
  <2>2. h = [n \in 0..(m + 1) |-> Body(h, n)]
    BY <2>1
  <2> HIDE DEF h
  <2>. QED BY <2>2
<1>3. \A m \in Nat : m \in M
  <2> HIDE DEF M
  <2>. QED BY <1>1, <1>2, NatInd
<1>4. \E g : g = [n \in 0..Len(ss) |-> Body(g, n)]
  BY <1>3
<1>5. joinLoop(ss) = CHOOSE g : g = [n \in 0..Len(ss) |-> Body(g, n)]
  BY DEF joinLoop, Step
<1>6. joinLoop(ss) = [n \in 0..Len(ss) |-> Body(joinLoop(ss), n)]
  BY <1>4, <1>5
<1>. QED BY <1>6 DEF Step

\* u stands in s behind position a.
At(s, a, u) == a + Len(u) <= Len(s) /\ \A i \in 1..Len(u) : s[a + i] = u[i]

\* Two texts behind one another.
LEMMA ConcatAt ==
  ASSUME NEW T, NEW u \in Seq(T), NEW v \in Seq(T)
  PROVE  /\ u \o v \in Seq(T) /\ Len(u \o v) = Len(u) + Len(v)
         /\ At(u \o v, 0, u) /\ At(u \o v, Len(u), v)
BY DEF At

\* What stands in a text that stands in s stands in s.
LEMMA AtAt ==
  ASSUME NEW s, NEW u, NEW v, Len(s) \in Nat, Len(u) \in Nat, Len(v) \in Nat, NEW a \in Nat, NEW b \in Nat,
         At(s, a, u), At(u, b, v)
  PROVE  At(s, a + b, v)
<1> SUFFICES ASSUME NEW i \in 1..Len(v) PROVE s[(a + b) + i] = v[i]
  BY DEF At
<1>1. u[b + i] = v[i] /\ b + i \in 1..Len(u) /\ a + (b + i) = (a + b) + i
  BY DEF At
<1>. QED BY <1>1 DEF At

IsTexts(ss, T) == Len(ss) \in Nat /\ \A n \in 1..Len(ss) : ss[n] \in Seq(T)

\* Nothing has been joined at first.
LEMMA JoinStarts ==
  ASSUME NEW ss, Len(ss) \in Nat
  PROVE  joinLoop(ss)[0] = <<>>
<1>1. joinLoop(ss) = [n \in 0..Len(ss) |-> IF n = 0 THEN <<>> ELSE joinLoop(ss)[n - 1] \o ss[n]]
  BY JoinLoopDef
<1> DEFINE Step(n) == joinLoop(ss)[n - 1] \o ss[n]
<1>2. joinLoop(ss) = [n \in 0..Len(ss) |-> IF n = 0 THEN <<>> ELSE Step(n)]
  BY <1>1
<1> HIDE DEF Step
<1>. QED BY <1>2

\* What one round of the loop does.
LEMMA JoinGoesOn ==
  ASSUME NEW ss, Len(ss) \in Nat, NEW n \in Nat, n < Len(ss)
  PROVE  joinLoop(ss)[n + 1] = joinLoop(ss)[n] \o ss[n + 1]
<1>1. joinLoop(ss) = [m \in 0..Len(ss) |-> IF m = 0 THEN <<>> ELSE joinLoop(ss)[m - 1] \o ss[m]]
  BY JoinLoopDef
<1> DEFINE Step(m) == joinLoop(ss)[m - 1] \o ss[m]
<1>2. joinLoop(ss) = [m \in 0..Len(ss) |-> IF m = 0 THEN <<>> ELSE Step(m)]
  BY <1>1
<1> HIDE DEF Step
<1>3. joinLoop(ss)[n + 1] = Step(n + 1)
  BY <1>2
<1>4. (n + 1) - 1 = n
  OBVIOUS
<1>. QED BY <1>3, <1>4 DEF Step

\* What has been joined is a text.
LEMMA JoinType ==
  ASSUME NEW T, NEW ss, IsTexts(ss, T), NEW n \in 0..Len(ss)
  PROVE  joinLoop(ss)[n] \in Seq(T)
<1> DEFINE j == joinLoop(ss)
<1> DEFINE M == {m \in Nat : m <= Len(ss) => j[m] \in Seq(T)}
<1>0. Len(ss) \in Nat
  BY DEF IsTexts
<1>1. j[0] \in Seq(T)
  <2>1. j[0] = <<>>
    BY <1>0, JoinStarts
  <2> HIDE DEF j
  <2>. QED BY <2>1
<1>2. ASSUME NEW m \in Nat, m \in M PROVE m + 1 \in M
  <2>1. ASSUME m + 1 <= Len(ss) PROVE j[m + 1] \in Seq(T)
    <3>1. m < Len(ss)
      BY <1>0, <2>1
    <3>2. j[m + 1] = j[m] \o ss[m + 1]
      BY <3>1, <1>0, JoinGoesOn
    <3>3. ss[m + 1] \in Seq(T) /\ j[m] \in Seq(T)
      <4> HIDE DEF j
      <4>. QED BY <3>1, <1>2, <1>0, <2>1 DEF IsTexts
    <3> HIDE DEF j
    <3>. QED BY <3>2, <3>3
  <2>. QED BY <2>1
<1> HIDE DEF j
<1>3. 0 \in M
  BY <1>1
<1>4. \A m \in Nat : m \in M
  <2> HIDE DEF M
  <2>. QED BY <1>2, <1>3, NatInd
<1>5. j[n] \in Seq(T)
  BY <1>4, <1>0
<1>. QED BY <1>5 DEF j

\* One round of the loop puts a text behind those before it.
LEMMA JoinStep ==
  ASSUME NEW T, NEW ss, IsTexts(ss, T), NEW n \in Nat, n < Len(ss)
  PROVE  /\ joinLoop(ss)[n + 1] \in Seq(T) /\ joinLoop(ss)[n] \in Seq(T) /\ ss[n + 1] \in Seq(T)
         /\ Len(joinLoop(ss)[n + 1]) = Len(joinLoop(ss)[n]) + Len(ss[n + 1])
         /\ At(joinLoop(ss)[n + 1], 0, joinLoop(ss)[n])
         /\ At(joinLoop(ss)[n + 1], Len(joinLoop(ss)[n]), ss[n + 1])
<1>1. Len(ss) \in Nat /\ ss[n + 1] \in Seq(T) /\ n + 1 \in 0..Len(ss) /\ n \in 0..Len(ss)
  BY DEF IsTexts
<1>2. joinLoop(ss)[n + 1] = joinLoop(ss)[n] \o ss[n + 1]
  BY <1>1, JoinGoesOn
<1>3. joinLoop(ss)[n + 1] \in Seq(T) /\ joinLoop(ss)[n] \in Seq(T)
  BY <1>1, JoinType
<1>. QED BY <1>1, <1>2, <1>3, ConcatAt

\* How long the texts are that have been joined.
LEMMA JoinLengths ==
  ASSUME NEW T, NEW ss, IsTexts(ss, T)
  PROVE  /\ Len(ss) \in Nat /\ Len(joinLoop(ss)[0]) = 0
         /\ \A n \in Nat : n <= Len(ss) => Len(joinLoop(ss)[n]) \in Nat
         /\ \A n \in 1..Len(ss) : Len(ss[n]) \in Nat
<1>1. Len(ss) \in Nat /\ \A n \in 1..Len(ss) : ss[n] \in Seq(T)
  BY DEF IsTexts
<1>2. Len(joinLoop(ss)[0]) = 0
  <2>1. joinLoop(ss)[0] = <<>>
    BY <1>1, JoinStarts
  <2>. QED BY <2>1
<1>3. ASSUME NEW n \in Nat, n <= Len(ss) PROVE Len(joinLoop(ss)[n]) \in Nat
  <2>1. joinLoop(ss)[n] \in Seq(T)
    BY <1>1, <1>3, JoinType
  <2>. QED BY <2>1
<1>4. ASSUME NEW n \in 1..Len(ss) PROVE Len(ss[n]) \in Nat
  <2>1. ss[n] \in Seq(T)
    BY <1>1
  <2>. QED BY <2>1
<1>. QED BY <1>1, <1>2, <1>3, <1>4

\* What has been joined stays in front.
LEMMA JoinGrows ==
  ASSUME NEW T, NEW ss, IsTexts(ss, T), NEW m \in Nat, NEW n \in Nat, m <= n, n <= Len(ss)
  PROVE  At(joinLoop(ss)[n], 0, joinLoop(ss)[m])
<1> DEFINE j == joinLoop(ss)
<1> DEFINE N == Len(ss)
<1> DEFINE Has(d) == At(j[m + d], 0, j[m])
<1> DEFINE M == {d \in Nat : m + d <= N => Has(d)}
<1>0. N \in Nat /\ m <= N
  BY DEF IsTexts
<1>1. Len(j[m]) \in Nat
  BY <1>0, JoinLengths
<1>2. Has(0)
  <2>1. m + 0 = m
    OBVIOUS
  <2> HIDE DEF j
  <2>. QED BY <2>1, <1>1 DEF At
<1>3. ASSUME NEW d \in Nat, m + (d + 1) <= N, Has(d) PROVE Has(d + 1)
  <2> DEFINE x == m + d
  <2>1. x \in Nat /\ x + 1 = m + (d + 1) /\ x < Len(ss)
    BY <1>3, <1>0
  <2>2. x + 1 \in Nat /\ x + 1 <= Len(ss) /\ x <= Len(ss)
    BY <2>1, <1>0
  <2>3. At(j[x], 0, j[m])
    BY <1>3
  <2> HIDE DEF x
  <2>4. At(j[x + 1], 0, j[x])
    BY <2>1, JoinStep
  <2>5. Len(j[x + 1]) \in Nat /\ Len(j[x]) \in Nat
    BY <2>1, <2>2, JoinLengths
  <2> HIDE DEF j
  <2>6. At(j[x + 1], 0 + 0, j[m])
    BY <2>3, <2>4, <2>5, <1>1, AtAt
  <2>. QED BY <2>6, <2>1
<1> HIDE DEF Has, N
<1>4. 0 \in M /\ \A d \in Nat : d \in M => d + 1 \in M
  BY <1>2, <1>3, <1>0
<1>5. \A d \in Nat : d \in M
  <2> HIDE DEF M
  <2>. QED BY <1>4, NatInd
<1>6. n - m \in Nat /\ m + (n - m) = n /\ n <= N
  BY <1>0 DEF N
<1>7. Has(n - m)
  BY <1>5, <1>6
<1>. QED BY <1>6, <1>7 DEF Has

\* Each text stands where the ones before it end.
LEMMA JoinAt ==
  ASSUME NEW T, NEW ss, IsTexts(ss, T), NEW m \in Nat, NEW n \in Nat, m < n, n <= Len(ss)
  PROVE  At(joinLoop(ss)[n], Len(joinLoop(ss)[m]), ss[m + 1])
<1> DEFINE j == joinLoop(ss)
<1>1. m < Len(ss) /\ m + 1 \in Nat /\ m + 1 <= n /\ m + 1 <= Len(ss) /\ m <= Len(ss) /\ m + 1 \in 1..Len(ss)
  BY DEF IsTexts
<1>2. At(j[n], 0, j[m + 1])
  BY <1>1, JoinGrows
<1>3. At(j[m + 1], Len(j[m]), ss[m + 1])
  BY <1>1, JoinStep
<1>4. Len(j[n]) \in Nat /\ Len(j[m + 1]) \in Nat /\ Len(j[m]) \in Nat /\ Len(ss[m + 1]) \in Nat
  BY <1>1, JoinLengths
<1> HIDE DEF j
<1>5. At(j[n], 0 + Len(j[m]), ss[m + 1])
  BY <1>2, <1>3, <1>4, AtAt
<1>6. 0 + Len(j[m]) = Len(j[m])
  BY <1>4
<1>. QED BY <1>5, <1>6 DEF j

\* Nothing else is in a join.
OnlyThose(ss, n) ==
  \A i \in 1..Len(joinLoop(ss)[n]) : \E m \in 1..n : \E l \in 1..Len(ss[m]) : joinLoop(ss)[n][i] = ss[m][l]

\* What has been joined comes from the texts.
LEMMA JoinElements ==
  ASSUME NEW T, NEW ss, IsTexts(ss, T), NEW n \in Nat, n <= Len(ss)
  PROVE  OnlyThose(ss, n)
<1> DEFINE j == joinLoop(ss)
<1> DEFINE N == Len(ss)
<1> DEFINE Known(d) == \A x \in 1..Len(j[d]) : \E m \in 1..d : \E l \in 1..Len(ss[m]) : j[d][x] = ss[m][l]
<1> DEFINE M == {d \in Nat : d <= N => Known(d)}
<1>0. N \in Nat
  BY DEF IsTexts
<1>1. Known(0)
  BY JoinLengths
<1>2. ASSUME NEW d \in Nat, d + 1 <= N, Known(d) PROVE Known(d + 1)
  <2> SUFFICES ASSUME NEW x \in 1..Len(j[d + 1])
               PROVE  \E m \in 1..(d + 1) : \E l \in 1..Len(ss[m]) : j[d + 1][x] = ss[m][l]
    OBVIOUS
  <2> DEFINE a == Len(j[d])
  <2> DEFINE b == Len(ss[d + 1])
  <2>1. d < N /\ d + 1 \in 1..N /\ d <= N
    BY <1>0, <1>2
  <2>2. a \in Nat /\ b \in Nat
    BY <2>1, JoinLengths
  <2>3. Len(j[d + 1]) = a + b /\ At(j[d + 1], 0, j[d]) /\ At(j[d + 1], a, ss[d + 1])
    BY <2>1, JoinStep
  <2> HIDE DEF j
  <2>4. /\ \A y \in 1..a : j[d + 1][0 + y] = j[d][y]
        /\ \A y \in 1..b : j[d + 1][a + y] = ss[d + 1][y]
    BY <2>3 DEF At
  <2>5. \A y \in 1..a : \E m \in 1..d : \E l \in 1..Len(ss[m]) : j[d][y] = ss[m][l]
    BY <1>2
  <2>6. x \in 1..(a + b)
    BY <2>3
  <2>7. b = Len(ss[d + 1])
    OBVIOUS
  <2> HIDE DEF a, b
  <2>8. CASE x <= a
    <3>1. x \in 1..a /\ 0 + x = x
      BY <2>2, <2>6, <2>8
    <3>2. PICK m \in 1..d : \E l \in 1..Len(ss[m]) : j[d][x] = ss[m][l]
      BY <3>1, <2>5
    <3>3. m \in 1..(d + 1) /\ j[d + 1][x] = j[d][x]
      BY <3>1, <2>4
    <3>. QED BY <3>2, <3>3
  <2>9. CASE x > a
    <3>1. x - a \in 1..b /\ a + (x - a) = x
      BY <2>2, <2>6, <2>9
    <3>2. j[d + 1][x] = ss[d + 1][x - a]
      BY <3>1, <2>4
    <3>. QED BY <3>1, <3>2, <2>7
  <2>. QED BY <2>2, <2>6, <2>8, <2>9
<1>3. j[n] = joinLoop(ss)[n]
  OBVIOUS
<1> HIDE DEF Known, N
<1>4. 0 \in M /\ \A d \in Nat : d \in M => d + 1 \in M
  BY <1>1, <1>2, <1>0
<1>5. \A d \in Nat : d \in M
  <2> HIDE DEF M
  <2>. QED BY <1>4, NatInd
<1>6. n <= N
  BY DEF N
<1>7. Known(n)
  BY <1>5, <1>6
<1>. QED BY <1>7 DEF Known, OnlyThose

\* Joining the first texts is joining all of them up to there.
LEMMA JoinPrefix ==
  ASSUME NEW ss, Len(ss) \in Nat, NEW tt, Len(tt) \in Nat, Len(tt) <= Len(ss),
         \A i \in 1..Len(tt) : tt[i] = ss[i]
  PROVE  Join(tt) = joinLoop(ss)[Len(tt)]
<1> DEFINE j == joinLoop(ss)
<1> DEFINE t == joinLoop(tt)
<1> DEFINE M == {d \in Nat : d <= Len(tt) => t[d] = j[d]}
<1>1. t[0] = j[0]
  BY JoinStarts
<1>2. ASSUME NEW d \in Nat, d \in M PROVE d + 1 \in M
  <2> SUFFICES ASSUME d + 1 <= Len(tt) PROVE t[d + 1] = j[d + 1]
    OBVIOUS
  <2>1. d < Len(tt) /\ d < Len(ss) /\ d + 1 \in 1..Len(tt)
    OBVIOUS
  <2>2. t[d] = j[d]
    <3> HIDE DEF j, t
    <3>. QED BY <1>2, <2>1
  <2>3. t[d + 1] = t[d] \o tt[d + 1]
    BY <2>1, JoinGoesOn
  <2>4. j[d + 1] = j[d] \o ss[d + 1]
    BY <2>1, JoinGoesOn
  <2>5. tt[d + 1] = ss[d + 1]
    BY <2>1
  <2> HIDE DEF j, t
  <2>. QED BY <2>2, <2>3, <2>4, <2>5, Zenon
<1> HIDE DEF j, t
<1>3. 0 \in M
  BY <1>1
<1>4. \A d \in Nat : d \in M
  <2> HIDE DEF M
  <2>. QED BY <1>2, <1>3, NatInd
<1>5. t[Len(tt)] = j[Len(tt)]
  BY <1>4
<1>. QED BY <1>5 DEF Join, j, t

\* Texts that are not empty: their join is as long as they are many.
LEMMA JoinLong ==
  ASSUME NEW T, NEW ss, IsTexts(ss, T), \A i \in 1..Len(ss) : Len(ss[i]) >= 1, NEW n \in Nat, n <= Len(ss)
  PROVE  Len(joinLoop(ss)[n]) >= n
<1> DEFINE N == Len(ss)
<1> DEFINE off(d) == Len(joinLoop(ss)[d])
<1> DEFINE M == {d \in Nat : d <= N => off(d) >= d}
<1>0. N \in Nat /\ n <= N /\ off(0) = 0 /\ \A d \in Nat : d <= N => off(d) \in Nat
  BY JoinLengths
<1>1. ASSUME NEW d \in Nat, d + 1 <= N, off(d) >= d PROVE off(d + 1) >= d + 1
  <2> DEFINE b == Len(ss[d + 1])
  <2>1. d < N /\ d + 1 \in 1..N /\ d <= N
    BY <1>0, <1>1
  <2>2. b \in Nat /\ b >= 1 /\ off(d) \in Nat /\ off(d) >= d
    BY <2>1, <1>1, JoinLengths
  <2>3. off(d + 1) = off(d) + b
    BY <2>1, JoinStep
  <2> HIDE DEF off, b
  <2>. QED BY <2>2, <2>3
<1> HIDE DEF N, off
<1>2. 0 \in M /\ \A d \in Nat : d \in M => d + 1 \in M
  BY <1>0, <1>1
<1>3. \A d \in Nat : d \in M
  <2> HIDE DEF M
  <2>. QED BY <1>2, NatInd
<1>4. off(n) >= n
  BY <1>3, <1>0
<1>. QED BY <1>4 DEF off

-----------------------------------------------------------------------------
(* Escapes.                                                                *)

pieces(s) == [n \in DOMAIN s |-> Escaped(s[n])]

off(s, n) == Len(joinLoop(pieces(s))[n])

\* The escaped form of one character.
LEMMA EscapedIs ==
  ASSUME NEW c \in Piece
  PROVE  /\ Escaped(c) \in Seq(Piece) /\ Len(Escaped(c)) \in {1, 2}
         /\ c \notin {quote, backslash, newline} => Len(Escaped(c)) = 1 /\ Escaped(c)[1] = c
         /\ c \in {quote, backslash, newline} =>
              Len(Escaped(c)) = 2 /\ Escaped(c)[1] = backslash /\ Escaped(c)[2] = Letter[c]
         /\ c \in {quote, backslash, newline} => Letter[c] = IF c = newline THEN "n" ELSE c
<1>1. CASE c \in {quote, backslash, newline}
  <2>1. Escaped(c) = <<backslash, Letter[c]>> /\ Letter[c] = IF c = newline THEN "n" ELSE c
    BY <1>1 DEF Escaped, Letter
  <2>2. "n" \in Piece /\ backslash \in Piece
    BY DEF Piece
  <2>3. Letter[c] \in Piece
    BY <2>1, <2>2
  <2>. QED BY <1>1, <2>1, <2>2, <2>3
<1>2. CASE c \notin {quote, backslash, newline}
  <2>1. Escaped(c) = <<c>>
    BY <1>2 DEF Escaped, Letter
  <2>. QED BY <1>2, <2>1
<1>. QED BY <1>1, <1>2

\* The escaped forms of the characters of a text.
LEMMA PiecesAre ==
  ASSUME NEW s \in Seq(Piece)
  PROVE  /\ IsTexts(pieces(s), Piece) /\ Len(pieces(s)) = Len(s)
         /\ \A n \in 1..Len(s) : pieces(s)[n] = Escaped(s[n])
         /\ \A n \in 1..Len(s) : Len(pieces(s)[n]) \in {1, 2}
<1>1. Len(s) \in Nat /\ DOMAIN s = 1..Len(s) /\ \A n \in 1..Len(s) : s[n] \in Piece
  OBVIOUS
<1>2. pieces(s) = [n \in 1..Len(s) |-> Escaped(s[n])]
  BY <1>1 DEF pieces
<1>3. \A n \in 1..Len(s) : pieces(s)[n] = Escaped(s[n])
  BY <1>2
<1>4. pieces(s) \in Seq(Seq(Piece)) /\ Len(pieces(s)) = Len(s)
  <2>1. \A n \in 1..Len(s) : Escaped(s[n]) \in Seq(Piece)
    BY <1>1, EscapedIs
  <2>. QED BY <2>1, <1>1, <1>2
<1>5. \A n \in 1..Len(s) : pieces(s)[n] \in Seq(Piece) /\ Len(pieces(s)[n]) \in {1, 2}
  BY <1>1, <1>3, EscapedIs
<1>. QED BY <1>1, <1>3, <1>4, <1>5 DEF IsTexts

\* Where the escapes of a text stand.
LEMMA EscapeAt ==
  ASSUME NEW s \in Seq(Piece)
  PROVE  /\ escape(s) \in Seq(Piece)
         /\ off(s, 0) = 0 /\ off(s, Len(s)) = Len(escape(s))
         /\ \A n \in Nat : n <= Len(s) => off(s, n) \in Nat /\ off(s, n) <= Len(escape(s))
         /\ \A n \in Nat : n < Len(s) =>
              /\ off(s, n + 1) = off(s, n) + Len(Escaped(s[n + 1]))
              /\ At(escape(s), off(s, n), Escaped(s[n + 1]))
<1> DEFINE ss == pieces(s)
<1>1. escape(s) = joinLoop(ss)[Len(s)] /\ IsTexts(ss, Piece) /\ Len(ss) = Len(s) /\ Len(s) \in Nat
  BY PiecesAre DEF escape, Join, pieces
<1>2. escape(s) \in Seq(Piece)
  <2>1. Len(s) \in 0..Len(ss)
    BY <1>1
  <2>. QED BY <1>1, <2>1, JoinType
<1>3. off(s, 0) = 0 /\ off(s, Len(s)) = Len(escape(s))
  <2> HIDE DEF ss
  <2>1. Len(joinLoop(ss)[0]) = 0
    BY <1>1, JoinLengths
  <2>. QED BY <2>1, <1>1 DEF off, ss
<1>4. ASSUME NEW n \in Nat, n <= Len(s) PROVE off(s, n) \in Nat /\ off(s, n) <= Len(escape(s))
  <2>1. At(joinLoop(ss)[Len(s)], 0, joinLoop(ss)[n])
    <3> HIDE DEF ss
    <3>. QED BY <1>1, <1>4, JoinGrows
  <2>2. Len(joinLoop(ss)[n]) \in Nat
    <3> HIDE DEF ss
    <3>. QED BY <1>1, <1>4, JoinLengths
  <2>. QED BY <2>1, <2>2, <1>1 DEF At, off
<1>5. ASSUME NEW n \in Nat, n < Len(s)
      PROVE  /\ off(s, n + 1) = off(s, n) + Len(Escaped(s[n + 1]))
             /\ At(escape(s), off(s, n), Escaped(s[n + 1]))
  <2>1. ss[n + 1] = Escaped(s[n + 1])
    BY <1>5, <1>1, PiecesAre
  <2>2. Len(joinLoop(ss)[n + 1]) = Len(joinLoop(ss)[n]) + Len(ss[n + 1])
    <3> HIDE DEF ss
    <3>. QED BY <1>1, <1>5, JoinStep
  <2>3. At(joinLoop(ss)[Len(s)], Len(joinLoop(ss)[n]), ss[n + 1])
    <3>1. Len(s) <= Len(ss)
      BY <1>1
    <3> HIDE DEF ss
    <3>. QED BY <1>1, <1>5, <3>1, JoinAt
  <2>. QED BY <1>1, <2>1, <2>2, <2>3 DEF off
<1>. QED BY <1>2, <1>3, <1>4, <1>5

\* The escaped form of the front of a text is the front of its escaped form.
LEMMA EscapeFront ==
  ASSUME NEW s \in Seq(Piece), NEW u \in Seq(Piece), Len(u) <= Len(s), \A i \in 1..Len(u) : u[i] = s[i]
  PROVE  off(s, Len(u)) = Len(escape(u)) /\ At(escape(s), 0, escape(u))
<1> DEFINE ss == pieces(s)
<1> DEFINE uu == pieces(u)
<1>1. /\ escape(s) = joinLoop(ss)[Len(s)] /\ IsTexts(ss, Piece) /\ Len(ss) = Len(s) /\ Len(s) \in Nat
      /\ escape(u) = Join(uu) /\ Len(uu) = Len(u) /\ Len(u) \in Nat
  BY PiecesAre DEF escape, Join, pieces
<1>2. \A i \in 1..Len(u) : uu[i] = ss[i]
  <2> TAKE i \in 1..Len(u)
  <2>1. i \in 1..Len(s)
    BY <1>1
  <2>2. uu[i] = Escaped(u[i]) /\ ss[i] = Escaped(s[i])
    BY <2>1, PiecesAre
  <2>. QED BY <2>2
<1> HIDE DEF ss, uu
<1>3. escape(u) = joinLoop(ss)[Len(u)]
  BY <1>1, <1>2, JoinPrefix
<1>4. At(joinLoop(ss)[Len(s)], 0, joinLoop(ss)[Len(u)])
  <2>1. Len(s) <= Len(ss)
    BY <1>1
  <2>. QED BY <1>1, <2>1, JoinGrows
<1>. QED BY <1>1, <1>3, <1>4 DEF off, ss

-----------------------------------------------------------------------------
\* The loop of unescapeLoop is what it says it is.
LEMMA UnescapeLoopDef ==
  ASSUME NEW s, Len(s) \in Nat
  PROVE  unescapeLoop(s) =
           [n \in 0..Len(s) |-> IF n = 0 THEN [text |-> <<>>, skip |-> FALSE]
                                ELSE Unescaped(unescapeLoop(s)[n - 1], s, n)]
<1> DEFINE Start == [text |-> <<>>, skip |-> FALSE]
<1> DEFINE Body(g, n) == IF n = 0 THEN Start ELSE Unescaped(g[n - 1], s, n)
<1> DEFINE M == {m \in Nat : \E g : g = [n \in 0..m |-> Body(g, n)]}
<1> HIDE DEF Start
<1>1. 0 \in M
  <2>1. [n \in 0..0 |-> Start] = [n \in 0..0 |-> Body([i \in 0..0 |-> Start], n)]
    OBVIOUS
  <2>. QED BY <2>1
<1>2. ASSUME NEW m \in Nat, m \in M PROVE m + 1 \in M
  <2>1. PICK g : g = [n \in 0..m |-> Body(g, n)]
    BY <1>2
  <2> DEFINE h == [n \in 0..(m + 1) |-> IF n <= m THEN g[n] ELSE Body(g, n)]
  <2>2. h = [n \in 0..(m + 1) |-> Body(h, n)]
    BY <2>1
  <2> HIDE DEF h
  <2>. QED BY <2>2
<1>3. \A m \in Nat : m \in M
  <2> HIDE DEF M
  <2>. QED BY <1>1, <1>2, NatInd
<1>4. \E g : g = [n \in 0..Len(s) |-> Body(g, n)]
  BY <1>3
<1>5. unescapeLoop(s) = CHOOSE g : g = [n \in 0..Len(s) |-> Body(g, n)]
  BY DEF unescapeLoop, Start
<1>6. unescapeLoop(s) = [n \in 0..Len(s) |-> Body(unescapeLoop(s), n)]
  BY <1>4, <1>5
<1>. QED BY <1>6 DEF Start

\* What one round of the loop does.
LEMMA UnescapeSteps ==
  ASSUME NEW s, Len(s) \in Nat
  PROVE  /\ unescapeLoop(s)[0] = [text |-> <<>>, skip |-> FALSE]
         /\ \A n \in Nat : n < Len(s) => unescapeLoop(s)[n + 1] = Unescaped(unescapeLoop(s)[n], s, n + 1)
<1>1. unescapeLoop(s) =
        [n \in 0..Len(s) |-> IF n = 0 THEN [text |-> <<>>, skip |-> FALSE]
                             ELSE Unescaped(unescapeLoop(s)[n - 1], s, n)]
  BY UnescapeLoopDef
<1>2. unescapeLoop(s)[0] = [text |-> <<>>, skip |-> FALSE]
  BY <1>1
<1>3. ASSUME NEW n \in Nat, n < Len(s)
      PROVE  unescapeLoop(s)[n + 1] = Unescaped(unescapeLoop(s)[n], s, n + 1)
  <2>1. n + 1 \in 0..Len(s) /\ n + 1 # 0 /\ (n + 1) - 1 = n
    BY <1>3
  <2>. QED BY <1>1, <2>1
<1>. QED BY <1>2, <1>3

\* Between two escapes, with r read.
ReadSoFar(r) == [text |-> r, skip |-> FALSE]

Longer(r, c) == Append(r, c)

\* The escaped form of one character is read as that character.
LEMMA UnescapeOne ==
  ASSUME NEW s, Len(s) \in Nat, NEW c \in Piece, NEW a \in Nat, At(s, a, Escaped(c)), NEW r,
         unescapeLoop(s)[a] = ReadSoFar(r)
  PROVE  unescapeLoop(s)[a + Len(Escaped(c))] = ReadSoFar(Longer(r, c))
<1>1. CASE c \notin {quote, backslash, newline}
  <2>1. Len(Escaped(c)) = 1 /\ Escaped(c)[1] = c
    BY <1>1, EscapedIs
  <2>2. a < Len(s) /\ s[a + 1] = c
    BY <2>1 DEF At
  <2>3. unescapeLoop(s)[a + 1] = Unescaped(ReadSoFar(r), s, a + 1)
    BY <2>2, UnescapeSteps
  <2>4. Unescaped(ReadSoFar(r), s, a + 1) = ReadSoFar(Longer(r, c))
    BY <1>1, <2>2 DEF Unescaped, ReadSoFar, Longer
  <2>. QED BY <2>1, <2>3, <2>4
<1>2. CASE c \in {quote, backslash, newline}
  <2>1. /\ Len(Escaped(c)) = 2 /\ Escaped(c)[1] = backslash /\ Escaped(c)[2] = Letter[c]
    BY <1>2, EscapedIs
  <2>2. a < Len(s) /\ a + 1 < Len(s) /\ s[a + 1] = backslash /\ s[(a + 1) + 1] = Letter[c]
    BY <2>1 DEF At
  <2>3. (CHOOSE d \in DOMAIN Letter : Letter[d] = Letter[c]) = c /\ c \in DOMAIN Letter
    <3>1. DOMAIN Letter = {quote, backslash, newline}
      BY DEF Letter
    <3>2. \A d \in {quote, backslash, newline} : Letter[d] = Letter[c] => d = c
      BY <1>2 DEF Letter, quote, backslash, newline
    <3>. QED BY <3>1, <3>2, <1>2
  <2>4. unescapeLoop(s)[a + 1] = Unescaped(ReadSoFar(r), s, a + 1)
    BY <2>2, UnescapeSteps
  <2>5. Unescaped(ReadSoFar(r), s, a + 1) = [text |-> Longer(r, c), skip |-> TRUE]
    BY <2>2, <2>3 DEF Unescaped, ReadSoFar, Longer
  <2>6. unescapeLoop(s)[(a + 1) + 1] = Unescaped([text |-> Longer(r, c), skip |-> TRUE], s, (a + 1) + 1)
    BY <2>2, <2>4, <2>5, UnescapeSteps
  <2>7. Unescaped([text |-> Longer(r, c), skip |-> TRUE], s, (a + 1) + 1) = ReadSoFar(Longer(r, c))
    BY DEF Unescaped, ReadSoFar, Longer
  <2>8. a + Len(Escaped(c)) = (a + 1) + 1
    BY <2>1
  <2>. QED BY <2>6, <2>7, <2>8
<1>. QED BY <1>1, <1>2

\* Escapes in front of a text are read as what they stand for.
LEMMA UnescapeFront ==
  ASSUME NEW w \in Seq(Piece), NEW s, Len(s) \in Nat, At(s, 0, escape(w))
  PROVE  unescapeLoop(s)[Len(escape(w))] = ReadSoFar(w)
<1> DEFINE N == Len(w)
<1> DEFINE Read(n) == unescapeLoop(s)[off(w, n)] = ReadSoFar(SubSeq(w, 1, n))
<1> DEFINE M == {n \in Nat : n <= N => Read(n)}
<1>0. N \in Nat /\ escape(w) \in Seq(Piece) /\ Len(escape(w)) \in Nat /\ off(w, 0) = 0 /\ off(w, N) = Len(escape(w))
  BY EscapeAt
<1>1. Read(0)
  <2>1. SubSeq(w, 1, 0) = <<>>
    OBVIOUS
  <2>2. unescapeLoop(s)[0] = ReadSoFar(<<>>)
    BY UnescapeSteps DEF ReadSoFar
  <2>. QED BY <1>0, <2>1, <2>2
<1>2. ASSUME NEW n \in Nat, n + 1 <= N, Read(n) PROVE Read(n + 1)
  <2> DEFINE c == w[n + 1]
  <2> DEFINE a == off(w, n)
  <2>1. n < Len(w) /\ n <= Len(w) /\ c \in Piece
    BY <1>2, <1>0
  <2>2. /\ off(w, n + 1) = a + Len(Escaped(c)) /\ At(escape(w), a, Escaped(c)) /\ a \in Nat
    BY <2>1, EscapeAt
  <2>3. At(s, a, Escaped(c))
    <3>1. Len(Escaped(c)) \in Nat
      BY <2>1, EscapedIs
    <3> HIDE DEF a, c
    <3>2. At(s, 0 + a, Escaped(c))
      BY <1>0, <2>2, <3>1, AtAt
    <3>. QED BY <3>2, <2>2
  <2> DEFINE r == SubSeq(w, 1, n)
  <2>4. unescapeLoop(s)[a] = ReadSoFar(r)
    BY <1>2
  <2>5. SubSeq(w, 1, n + 1) = Append(SubSeq(w, 1, n), c)
    BY <2>1
  <2> DEFINE rc == SubSeq(w, 1, n + 1)
  <2>6. unescapeLoop(s)[a + Len(Escaped(c))] = ReadSoFar(rc)
    <3>0. rc = Longer(r, c)
      BY <2>5 DEF Longer
    <3> HIDE DEF a, c, r, rc
    <3>1. c \in Piece /\ a \in Nat
      BY <2>1, <2>2
    <3>. QED BY <3>0, <3>1, <2>3, <2>4, UnescapeOne
  <2>. QED BY <2>2, <2>6
<1> HIDE DEF Read, N
<1>3. 0 \in M /\ \A n \in Nat : n \in M => n + 1 \in M
  BY <1>0, <1>1, <1>2
<1>4. \A n \in Nat : n \in M
  <2> HIDE DEF M
  <2>. QED BY <1>3, NatInd
<1>5. Read(N)
  BY <1>0, <1>4
<1>6. SubSeq(w, 1, Len(w)) = w
  OBVIOUS
<1>. QED BY <1>0, <1>5, <1>6 DEF Read, N

\* Whatever characters a string holds, unescapeJsonString() gives back what
\* escapeJsonString() was given: it reads from the front to the end, and a
\* backslash takes the letter behind it along, so that an escaped backslash
\* before an n is not taken for a line end.
THEOREM UnescapeEscape ==
  ASSUME NEW w \in Seq(Piece)
  PROVE  unescape(escape(w)) = w
<1>1. escape(w) \in Seq(Piece)
  BY EscapeAt
<1>2. Len(escape(w)) \in Nat /\ At(escape(w), 0, escape(w))
  BY <1>1 DEF At
<1>3. unescapeLoop(escape(w))[Len(escape(w))] = ReadSoFar(w)
  BY <1>2, UnescapeFront
<1>. QED BY <1>3 DEF unescape, ReadSoFar

\* A backslash that is left over at the end stands for itself.
LEMMA UnescapeCut ==
  ASSUME NEW w \in Seq(Piece)
  PROVE  unescape(Append(escape(w), backslash)) = Append(w, backslash)
<1> DEFINE e == escape(w)
<1> DEFINE s == Append(e, backslash)
<1>1. e \in Seq(Piece)
  BY EscapeAt
<1> HIDE DEF e
<1>2. Len(e) \in Nat /\ Len(s) = Len(e) + 1 /\ s[Len(e) + 1] = backslash /\ At(s, 0, e) /\ Len(s) \in Nat
  BY <1>1 DEF At
<1> HIDE DEF s
<1>3. unescapeLoop(s)[Len(e)] = ReadSoFar(w)
  BY <1>2, UnescapeFront DEF e
<1>4. unescapeLoop(s)[Len(e) + 1] = Unescaped(ReadSoFar(w), s, Len(e) + 1)
  <2>1. Len(e) < Len(s)
    BY <1>2
  <2>. QED BY <1>2, <1>3, <2>1, UnescapeSteps
<1>5. Unescaped(ReadSoFar(w), s, Len(e) + 1) = ReadSoFar(Append(w, backslash))
  <2>1. ~(Len(e) + 1 < Len(s))
    BY <1>2
  <2>. QED BY <1>2, <2>1 DEF Unescaped, ReadSoFar
<1> DEFINE got == Append(w, backslash)
<1>6. unescapeLoop(s)[Len(s)] = ReadSoFar(got)
  BY <1>2, <1>4, <1>5
<1> HIDE DEF got
<1>7. unescape(s) = got
  BY <1>6 DEF unescape, ReadSoFar
<1>. QED BY <1>7 DEF s, e, got

-----------------------------------------------------------------------------
(* Searches and the count of braces.                                       *)

\* Where a search ends.
LEMMA FindIs ==
  ASSUME NEW s, Len(s) \in Nat, NEW c, NEW i \in Nat, NEW j \in Nat, i <= j, j <= Len(s), s[j] = c,
         \A l \in Nat : i <= l /\ l < j => s[l] # c
  PROVE  find(s, c, i) = j
<1> DEFINE hits == {l \in i..Len(s) : s[l] = c}
<1>1. j \in hits /\ \A l \in hits : j <= l
  OBVIOUS
<1>2. \A m \in hits : (\A l \in hits : m <= l) => m = j
  BY <1>1
<1>3. find(s, c, i) = CHOOSE m \in hits : \A l \in hits : m <= l
  BY <1>1 DEF find
<1> HIDE DEF hits
<1>. QED BY <1>1, <1>2, <1>3

\* A search that finds nothing.
LEMMA FindNone ==
  ASSUME NEW s, Len(s) \in Nat, NEW c, NEW i \in Nat, \A l \in Nat : i <= l /\ l <= Len(s) => s[l] # c
  PROVE  find(s, c, i) = 0
BY DEF find

\* The states of the scan: outside strings, in one, in one behind a backslash.
Quiet(d) == [depth |-> d, inString |-> FALSE, escaped |-> FALSE]
Inside(d) == [depth |-> d, inString |-> TRUE, escaped |-> FALSE]
Slashed(d) == [depth |-> d, inString |-> TRUE, escaped |-> TRUE]

depthAt(s, from, n) == scanLoop(s, from)[n].depth

Special == {quote, backslash, "{", "}"}

\* How many braces are open.
LEMMA DepthIs ==
  ASSUME NEW d
  PROVE  Quiet(d).depth = d /\ Inside(d).depth = d /\ Slashed(d).depth = d
BY DEF Quiet, Inside, Slashed

\* What one piece does to the scan.
LEMMA ScannedIs ==
  ASSUME NEW d \in Int, NEW c
  PROVE  /\ c = quote => Scanned(Quiet(d), c) = Inside(d) /\ Scanned(Inside(d), c) = Quiet(d)
         /\ c = "{" => Scanned(Quiet(d), c) = Quiet(d + 1)
         /\ c = "}" => Scanned(Quiet(d), c) = Quiet(d - 1)
         /\ c \notin Special => Scanned(Quiet(d), c) = Quiet(d)
         /\ c = backslash => Scanned(Inside(d), c) = Slashed(d)
         /\ c \notin {quote, backslash} => Scanned(Inside(d), c) = Inside(d)
         /\ Scanned(Slashed(d), c) = Inside(d)
<1>0. d + 0 = d
  OBVIOUS
<1>1. ASSUME c = quote PROVE Scanned(Quiet(d), c) = Inside(d) /\ Scanned(Inside(d), c) = Quiet(d)
  <2>1. (c = backslash) = FALSE /\ c # "{" /\ c # "}"
    BY <1>1 DEF quote, backslash
  <2>2. Scanned(Quiet(d), c) = [escaped |-> FALSE, inString |-> TRUE, depth |-> d + 0]
    BY <1>1, <2>1 DEF Scanned, Quiet
  <2>3. Scanned(Inside(d), c) = [escaped |-> FALSE, inString |-> FALSE, depth |-> d + 0]
    BY <1>1, <2>1 DEF Scanned, Inside
  <2>4. Scanned(Quiet(d), c) = Inside(d)
    BY <1>0, <2>2 DEF Inside
  <2>5. Scanned(Inside(d), c) = Quiet(d)
    BY <1>0, <2>3 DEF Quiet
  <2>. QED BY <2>4, <2>5
<1>2. ASSUME c = "{" PROVE Scanned(Quiet(d), c) = Quiet(d + 1)
  BY <1>2 DEF Scanned, Quiet, quote, backslash
<1>3. ASSUME c = "}" PROVE Scanned(Quiet(d), c) = Quiet(d - 1)
  BY <1>3 DEF Scanned, Quiet, quote, backslash
<1>4. ASSUME c \notin Special PROVE Scanned(Quiet(d), c) = Quiet(d)
  <2>1. (c = backslash) = FALSE /\ c # "{" /\ c # "}" /\ c # quote
    BY <1>4 DEF Special
  <2>2. Scanned(Quiet(d), c) = [escaped |-> FALSE, inString |-> FALSE, depth |-> d + 0]
    BY <2>1 DEF Scanned, Quiet
  <2>. QED BY <1>0, <2>2 DEF Quiet
<1>5. ASSUME c = backslash PROVE Scanned(Inside(d), c) = Slashed(d)
  <2>1. (c = backslash) = TRUE /\ c # quote
    BY <1>5 DEF quote, backslash
  <2>2. Scanned(Inside(d), c) = [escaped |-> TRUE, inString |-> TRUE, depth |-> d + 0]
    BY <2>1 DEF Scanned, Inside
  <2>. QED BY <1>0, <2>2 DEF Slashed
<1>6. ASSUME c \notin {quote, backslash} PROVE Scanned(Inside(d), c) = Inside(d)
  <2>1. (c = backslash) = FALSE /\ c # quote
    BY <1>6
  <2>2. Scanned(Inside(d), c) = [escaped |-> FALSE, inString |-> TRUE, depth |-> d + 0]
    BY <2>1 DEF Scanned, Inside
  <2>. QED BY <1>0, <2>2 DEF Inside
<1>7. Scanned(Slashed(d), c) = Inside(d)
  BY DEF Scanned, Slashed, Inside
<1>. QED BY <1>1, <1>2, <1>3, <1>4, <1>5, <1>6, <1>7

\* The loop of scanLoop is what it says it is.
LEMMA ScanLoopDef ==
  ASSUME NEW s, Len(s) \in Nat, NEW from \in Nat, from >= 1
  PROVE  scanLoop(s, from) =
           [n \in 0..Len(s) |-> IF n < from THEN Quiet(1) ELSE Scanned(scanLoop(s, from)[n - 1], s[n])]
<1> DEFINE Body(g, n) == IF n < from THEN Quiet(1) ELSE Scanned(g[n - 1], s[n])
<1> DEFINE M == {m \in Nat : \E g : g = [n \in 0..m |-> Body(g, n)]}
<1>1. 0 \in M
  <2>1. [n \in 0..0 |-> Quiet(1)] = [n \in 0..0 |-> Body([i \in 0..0 |-> Quiet(1)], n)]
    OBVIOUS
  <2>. QED BY <2>1
<1>2. ASSUME NEW m \in Nat, m \in M PROVE m + 1 \in M
  <2>1. PICK g : g = [n \in 0..m |-> Body(g, n)]
    BY <1>2
  <2> DEFINE h == [n \in 0..(m + 1) |-> IF n <= m THEN g[n] ELSE Body(g, n)]
  <2>2. h = [n \in 0..(m + 1) |-> Body(h, n)]
    BY <2>1
  <2> HIDE DEF h
  <2>. QED BY <2>2
<1>3. \A m \in Nat : m \in M
  <2> HIDE DEF M
  <2>. QED BY <1>1, <1>2, NatInd
<1>4. \E g : g = [n \in 0..Len(s) |-> Body(g, n)]
  BY <1>3
<1>5. scanLoop(s, from) = CHOOSE g : g = [n \in 0..Len(s) |-> Body(g, n)]
  BY DEF scanLoop, Quiet
<1>. QED BY <1>4, <1>5

\* What one round of the loop does.
LEMMA ScanSteps ==
  ASSUME NEW s, Len(s) \in Nat, NEW from \in Nat, from >= 1, NEW n \in Nat, n < Len(s)
  PROVE  /\ n < from => scanLoop(s, from)[n] = Quiet(1)
         /\ n + 1 >= from => scanLoop(s, from)[n + 1] = Scanned(scanLoop(s, from)[n], s[n + 1])
<1>1. scanLoop(s, from) =
        [m \in 0..Len(s) |-> IF m < from THEN Quiet(1) ELSE Scanned(scanLoop(s, from)[m - 1], s[m])]
  BY ScanLoopDef
<1>2. n \in 0..Len(s) /\ n + 1 \in 0..Len(s) /\ (n + 1) - 1 = n
  OBVIOUS
<1>3. scanLoop(s, from)[n] = IF n < from THEN Quiet(1) ELSE Scanned(scanLoop(s, from)[n - 1], s[n])
  BY <1>1, <1>2
<1>4. scanLoop(s, from)[n + 1] =
        IF n + 1 < from THEN Quiet(1) ELSE Scanned(scanLoop(s, from)[(n + 1) - 1], s[n + 1])
  BY <1>1, <1>2
<1>5. n + 1 >= from => ~(n + 1 < from)
  OBVIOUS
<1>. QED BY <1>2, <1>3, <1>4, <1>5

\* The scan goes from a to b without the depth, d at both, falling below it.
Calm(s, from, a, b, d) ==
  /\ a <= b /\ b <= Len(s) /\ from <= a + 1
  /\ scanLoop(s, from)[a] = Quiet(d) /\ scanLoop(s, from)[b] = Quiet(d)
  /\ \A n \in Nat : a <= n /\ n <= b => depthAt(s, from, n) \in Int /\ depthAt(s, from, n) >= d

\* Two calm stretches behind one another.
LEMMA CalmOn ==
  ASSUME NEW s, NEW from, NEW a \in Nat, NEW b \in Nat, NEW c \in Nat, NEW d,
         Calm(s, from, a, b, d), Calm(s, from, b, c, d)
  PROVE  Calm(s, from, a, c, d)
BY DEF Calm

\* Where the scan stands.
Scan(s, from, a, st) ==
  Len(s) \in Nat /\ from \in Nat /\ from >= 1 /\ a \in Nat /\ from <= a + 1 /\ a <= Len(s)
    /\ scanLoop(s, from)[a] = st

\* The scan takes one piece.
LEMMA ScanOn ==
  ASSUME NEW s, NEW from, NEW a, NEW st, Scan(s, from, a, st), a < Len(s)
  PROVE  Scan(s, from, a + 1, Scanned(st, s[a + 1]))
BY ScanSteps DEF Scan

\* An empty stretch is calm.
LEMMA CalmHere ==
  ASSUME NEW s, NEW from, NEW a, NEW d \in Int, Scan(s, from, a, Quiet(d))
  PROVE  Calm(s, from, a, a, d)
<1>1. \A n \in Nat : a <= n /\ n <= a => n = a
  BY DEF Scan
<1>. QED BY <1>1, DepthIs DEF Scan, Calm, depthAt

\* A piece outside strings that is neither quote, backslash nor brace.
LEMMA CalmPiece ==
  ASSUME NEW s, NEW from, NEW a, NEW d \in Int, Scan(s, from, a, Quiet(d)), a < Len(s), s[a + 1] \notin Special
  PROVE  Calm(s, from, a, a + 1, d) /\ Scan(s, from, a + 1, Quiet(d))
<1>1. Scan(s, from, a + 1, Quiet(d))
  <2>1. Scan(s, from, a + 1, Scanned(Quiet(d), s[a + 1]))
    BY ScanOn
  <2>. QED BY <2>1, ScannedIs
<1>2. \A n \in Nat : a <= n /\ n <= a + 1 => n = a \/ n = a + 1
  BY DEF Scan
<1>. QED BY <1>1, <1>2, DepthIs DEF Scan, Calm, depthAt

\* One escaped character within a string.
LEMMA InsideOne ==
  ASSUME NEW s, NEW from, NEW a, NEW d \in Int, NEW c \in Piece, Scan(s, from, a, Inside(d)), At(s, a, Escaped(c))
  PROVE  /\ Scan(s, from, a + Len(Escaped(c)), Inside(d))
         /\ \A n \in Nat : a <= n /\ n <= a + Len(Escaped(c)) => depthAt(s, from, n) = d
<1>0. Len(s) \in Nat /\ a \in Nat
  BY DEF Scan
<1>1. CASE c \notin {quote, backslash, newline}
  <2>1. Len(Escaped(c)) = 1 /\ Escaped(c)[1] = c
    BY <1>1, EscapedIs
  <2>2. a < Len(s) /\ s[a + 1] = c
    BY <1>0, <2>1 DEF At
  <2>3. Scanned(Inside(d), c) = Inside(d)
    BY <1>1, ScannedIs
  <2>4. Scan(s, from, a + 1, Inside(d))
    BY <2>2, <2>3, ScanOn
  <2>5. \A n \in Nat : a <= n /\ n <= a + 1 => n = a \/ n = a + 1
    BY <1>0
  <2>. QED BY <2>1, <2>4, <2>5, DepthIs DEF Scan, depthAt
<1>2. CASE c \in {quote, backslash, newline}
  <2>1. Len(Escaped(c)) = 2 /\ Escaped(c)[1] = backslash
    BY <1>2, EscapedIs
  <2>2. a < Len(s) /\ a + 1 < Len(s) /\ s[a + 1] = backslash /\ a + 2 = (a + 1) + 1
    BY <1>0, <2>1 DEF At
  <2>3. Scanned(Inside(d), backslash) = Slashed(d)
    BY ScannedIs
  <2>4. Scan(s, from, a + 1, Slashed(d))
    BY <2>2, <2>3, ScanOn
  <2>5. Scan(s, from, (a + 1) + 1, Scanned(Slashed(d), s[(a + 1) + 1]))
    BY <2>2, <2>4, ScanOn
  <2>6. Scan(s, from, (a + 1) + 1, Inside(d))
    BY <2>5, ScannedIs
  <2>7. \A n \in Nat : a <= n /\ n <= a + 2 => n = a \/ n = a + 1 \/ n = (a + 1) + 1
    BY <1>0
  <2>. QED BY <2>1, <2>2, <2>4, <2>6, <2>7, DepthIs DEF Scan, depthAt
<1>. QED BY <1>1, <1>2

\* An escaped text within a string.
LEMMA InsideText ==
  ASSUME NEW s, NEW from, NEW a, NEW d \in Int, NEW w \in Seq(Piece), Scan(s, from, a, Inside(d)),
         At(s, a, escape(w))
  PROVE  /\ Scan(s, from, a + Len(escape(w)), Inside(d))
         /\ \A n \in Nat : a <= n /\ n <= a + Len(escape(w)) => depthAt(s, from, n) = d
<1> DEFINE N == Len(w)
<1> DEFINE Deep(n) == /\ Scan(s, from, a + off(w, n), Inside(d))
                      /\ \A m \in Nat : a <= m /\ m <= a + off(w, n) => depthAt(s, from, m) = d
<1> DEFINE M == {n \in Nat : n <= N => Deep(n)}
<1>0. /\ N \in Nat /\ escape(w) \in Seq(Piece) /\ Len(escape(w)) \in Nat /\ off(w, 0) = 0
      /\ off(w, N) = Len(escape(w)) /\ Len(s) \in Nat /\ a \in Nat
  BY EscapeAt DEF Scan
<1>1. Deep(0)
  <2>1. a + off(w, 0) = a /\ \A m \in Nat : a <= m /\ m <= a => m = a
    BY <1>0
  <2>. QED BY <2>1, DepthIs DEF Scan, depthAt
<1>2. ASSUME NEW n \in Nat, n + 1 <= N, Deep(n) PROVE Deep(n + 1)
  <2> DEFINE c == w[n + 1]
  <2> DEFINE b == off(w, n)
  <2> DEFINE e == Len(Escaped(c))
  <2>1. n < Len(w) /\ n <= Len(w) /\ c \in Piece
    BY <1>2, <1>0
  <2>2. off(w, n + 1) = b + e /\ At(escape(w), b, Escaped(c)) /\ b \in Nat
    BY <2>1, EscapeAt
  <2>3. e \in Nat
    BY <2>1, EscapedIs
  <2>4. At(s, a + b, Escaped(c))
    <3> HIDE DEF b, c
    <3>. QED BY <1>0, <2>2, <2>3, AtAt
  <2>5. Scan(s, from, a + b, Inside(d)) /\ \A m \in Nat : a <= m /\ m <= a + b => depthAt(s, from, m) = d
    BY <1>2
  <2>6. /\ Scan(s, from, (a + b) + e, Inside(d))
        /\ \A m \in Nat : a + b <= m /\ m <= (a + b) + e => depthAt(s, from, m) = d
    <3> HIDE DEF b, c
    <3>. QED BY <2>1, <2>4, <2>5, InsideOne
  <2>7. a + off(w, n + 1) = (a + b) + e
    BY <2>2, <2>3, <1>0
  <2> HIDE DEF b, e
  <2>. QED BY <2>2, <2>3, <2>5, <2>6, <2>7, <1>0
<1> HIDE DEF Deep, N
<1>3. 0 \in M /\ \A n \in Nat : n \in M => n + 1 \in M
  BY <1>0, <1>1, <1>2
<1>4. \A n \in Nat : n \in M
  <2> HIDE DEF M
  <2>. QED BY <1>3, NatInd
<1>5. Deep(N)
  BY <1>0, <1>4
<1>. QED BY <1>0, <1>5 DEF Deep, N

\* A whole string, quotes and all.
LEMMA CalmString ==
  ASSUME NEW s, NEW from, NEW a, NEW d \in Int, NEW w \in Seq(Piece), Scan(s, from, a, Quiet(d)),
         a + 1 + Len(escape(w)) < Len(s),
         s[a + 1] = quote, At(s, a + 1, escape(w)), s[a + 1 + Len(escape(w)) + 1] = quote
  PROVE  /\ Calm(s, from, a, a + 1 + Len(escape(w)) + 1, d)
         /\ Scan(s, from, a + 1 + Len(escape(w)) + 1, Quiet(d))
<1> DEFINE x == Len(escape(w))
<1>0. x \in Nat /\ a \in Nat /\ Len(s) \in Nat
  <2>1. escape(w) \in Seq(Piece)
    BY EscapeAt
  <2>. QED BY <2>1 DEF Scan
<1>1. a < Len(s) /\ a + 1 + x < Len(s)
  BY <1>0
<1>2. Scan(s, from, a + 1, Inside(d))
  <2>1. Scan(s, from, a + 1, Scanned(Quiet(d), s[a + 1]))
    BY <1>1, ScanOn
  <2>. QED BY <2>1, ScannedIs
<1>3. /\ Scan(s, from, a + 1 + x, Inside(d))
      /\ \A n \in Nat : a + 1 <= n /\ n <= a + 1 + x => depthAt(s, from, n) = d
  BY <1>2, InsideText
<1> HIDE DEF x
<1>4. Scan(s, from, a + 1 + x + 1, Quiet(d))
  <2>1. Scan(s, from, (a + 1 + x) + 1, Scanned(Inside(d), s[(a + 1 + x) + 1]))
    BY <1>1, <1>3, ScanOn
  <2>. QED BY <2>1, ScannedIs DEF x
<1>5. depthAt(s, from, a) = d /\ depthAt(s, from, a + 1 + x + 1) = d
  BY <1>4, DepthIs DEF Scan, depthAt
<1>6. \A n \in Nat : a <= n /\ n <= a + 1 + x + 1 =>
        n = a \/ (a + 1 <= n /\ n <= a + 1 + x) \/ n = a + 1 + x + 1
  BY <1>0
<1>7. \A n \in Nat : a <= n /\ n <= a + 1 + x + 1 => depthAt(s, from, n) = d
  BY <1>3, <1>5, <1>6
<1>8. \A n \in Nat : a <= n /\ n <= a + 1 + x + 1 =>
        depthAt(s, from, n) \in Int /\ depthAt(s, from, n) >= d
  BY <1>7
<1>9. Calm(s, from, a, a + 1 + x + 1, d)
  BY <1>0, <1>4, <1>8 DEF Scan, Calm
<1>. QED BY <1>4, <1>9 DEF x

\* Where the brace closes.
LEMMA ClosingIs ==
  ASSUME NEW s, Len(s) \in Nat, NEW from \in Nat, NEW c \in Nat, from <= c, c <= Len(s),
         depthAt(s, from, c) = 0, \A n \in Nat : from <= n /\ n < c => depthAt(s, from, n) # 0
  PROVE  closing(s, from) = c
<1> DEFINE ends == {n \in from..Len(s) : scanLoop(s, from)[n].depth = 0}
<1>1. c \in ends /\ \A l \in ends : c <= l
  BY DEF depthAt
<1>2. \A m \in ends : (\A l \in ends : m <= l) => m = c
  BY <1>1
<1>3. closing(s, from) = CHOOSE m \in ends : \A l \in ends : m <= l
  BY <1>1 DEF closing
<1> HIDE DEF ends
<1>. QED BY <1>1, <1>2, <1>3

-----------------------------------------------------------------------------
(* Parts of texts.                                                         *)

\* Where two texts stand that stand behind one another.
LEMMA AtSplit ==
  ASSUME NEW T, NEW s, Len(s) \in Nat, NEW a \in Nat, NEW u \in Seq(T), NEW v \in Seq(T), At(s, a, u \o v)
  PROVE  At(s, a, u) /\ At(s, a + Len(u), v)
<1> DEFINE w == u \o v
<1>1. At(w, 0, u) /\ At(w, Len(u), v) /\ Len(w) \in Nat /\ Len(u) \in Nat /\ Len(v) \in Nat
  BY ConcatAt
<1>2. At(s, a, w)
  OBVIOUS
<1> HIDE DEF w
<1>3. At(s, a + 0, u) /\ At(s, a + Len(u), v)
  BY <1>1, <1>2, AtAt
<1>. QED BY <1>3

\* The part of a text where another stands.
LEMMA SubSeqAt ==
  ASSUME NEW T, NEW s \in Seq(T), NEW a \in Nat, NEW u \in Seq(T), At(s, a, u)
  PROVE  SubSeq(s, a + 1, a + Len(u)) = u
<1> DEFINE y == Len(u)
<1> DEFINE r == SubSeq(s, a + 1, a + y)
<1>1. y \in Nat /\ a + y <= Len(s) /\ Len(s) \in Nat
  BY DEF At
<1>2. r \in Seq(T) /\ Len(r) = y
  <2> HIDE DEF y
  <2>. QED BY <1>1
<1>3. ASSUME NEW i \in 1..y PROVE r[i] = u[i]
  <2>1. s[a + i] = u[i]
    BY DEF At
  <2>2. r[i] = s[(a + 1) + i - 1] /\ (a + 1) + i - 1 = a + i
    <3> HIDE DEF y
    <3>. QED BY <1>1
  <2>. QED BY <2>1, <2>2
<1>4. r = u
  <2> HIDE DEF r
  <2>. QED BY <1>2, <1>3
<1>. QED BY <1>4

\* A part of a part.
LEMMA AtSubSeq ==
  ASSUME NEW T, NEW s \in Seq(T), NEW p \in Nat, NEW q \in Nat, p <= q, q <= Len(s)
  PROVE  /\ SubSeq(s, p + 1, q) \in Seq(T) /\ Len(SubSeq(s, p + 1, q)) = q - p
         /\ \A i \in 1..(q - p) : SubSeq(s, p + 1, q)[i] = s[p + i]
<1> DEFINE r == SubSeq(s, p + 1, q)
<1>1. r \in Seq(T) /\ Len(r) = q - p
  OBVIOUS
<1>2. ASSUME NEW i \in 1..(q - p) PROVE r[i] = s[p + i]
  <2>1. r[i] = s[(p + 1) + i - 1] /\ (p + 1) + i - 1 = p + i
    OBVIOUS
  <2>. QED BY <2>1
<1>. QED BY <1>1, <1>2

-----------------------------------------------------------------------------
(* One entry.                                                              *)

\* The entry of k and v stands in s behind position a, piece by piece.
EntryAt(s, a, k, v) ==
  LET x == Len(escape(k))
      y == Len(valueText(v))
  IN  /\ a \in Nat /\ x \in Nat /\ y \in Nat /\ a + x + y + 13 <= Len(s)
      /\ s[a + 1] = quote /\ At(s, a + 1, escape(k))
      /\ s[a + x + 2] = quote /\ s[a + x + 3] = ":" /\ s[a + x + 4] = "{" /\ s[a + x + 5] = newline
      /\ s[a + x + 6] = quote /\ s[a + x + 7] = "value" /\ s[a + x + 8] = quote /\ s[a + x + 9] = ":"
      /\ At(s, a + x + 9, valueText(v))
      /\ s[a + x + y + 10] = newline /\ s[a + x + y + 11] = "}"
      /\ s[a + x + y + 12] = "," /\ s[a + x + y + 13] = newline

\* The pieces that are written by name.
LEMMA PieceNames ==
  /\ quote \in Piece /\ backslash \in Piece /\ newline \in Piece /\ "n" \in Piece /\ ":" \in Piece
  /\ "{" \in Piece /\ "}" \in Piece /\ "," \in Piece /\ "store" \in Piece /\ "autosave" \in Piece
  /\ "value" \in Piece /\ "true" \in Piece /\ "false" \in Piece
BY DEF Piece

\* Pieces make a text.
LEMMA ShortTexts ==
  ASSUME NEW T, NEW p1 \in T, NEW p2 \in T, NEW p3 \in T, NEW p4 \in T,
         NEW p5 \in T, NEW p6 \in T, NEW p7 \in T, NEW p8 \in T
  PROVE  /\ <<p1>> \in Seq(T) /\ <<p1, p2, p3, p4>> \in Seq(T)
         /\ <<p1, p2, p3, p4, p5, p6, p7, p8>> \in Seq(T)
<1>1. <<p1>> \in Seq(T)
  OBVIOUS
<1>2. <<p1, p2, p3, p4>> \in Seq(T)
  OBVIOUS
<1>3. <<p1, p2, p3, p4, p5, p6, p7, p8>> \in Seq(T)
  OBVIOUS
<1>. QED BY <1>1, <1>2, <1>3

\* What an entry has around its key and its value.
LEMMA EntryFrame ==
  /\ <<quote>> \in Seq(Piece)
  /\ <<quote, ":", "{", newline, quote, "value", quote, ":">> \in Seq(Piece)
  /\ <<newline, "}", ",", newline>> \in Seq(Piece)
BY PieceNames, ShortTexts, Zenon

\* Where the pieces of an entry stand.
LEMMA EntryPieces ==
  ASSUME NEW s, Len(s) \in Nat, NEW a \in Nat, NEW k \in Seq(Piece), NEW v, valueText(v) \in Seq(Piece),
         At(s, a, entryText(k, v))
  PROVE  /\ EntryAt(s, a, k, v) /\ entryText(k, v) \in Seq(Piece)
         /\ Len(entryText(k, v)) = Len(escape(k)) + Len(valueText(v)) + 13
<1> DEFINE e == escape(k)
<1> DEFINE V == valueText(v)
<1> DEFINE P1 == <<quote>>
<1> DEFINE P3 == <<quote, ":", "{", newline, quote, "value", quote, ":">>
<1> DEFINE P5 == <<newline, "}", ",", newline>>
<1>1. e \in Seq(Piece) /\ V \in Seq(Piece)
  BY EscapeAt
<1>2. P1 \in Seq(Piece) /\ Len(P1) = 1 /\ P1[1] = quote
  BY EntryFrame
<1>3. /\ P3 \in Seq(Piece) /\ Len(P3) = 8
      /\ P3[1] = quote /\ P3[2] = ":" /\ P3[3] = "{" /\ P3[4] = newline
      /\ P3[5] = quote /\ P3[6] = "value" /\ P3[7] = quote /\ P3[8] = ":"
  BY EntryFrame
<1>4. /\ P5 \in Seq(Piece) /\ Len(P5) = 4
      /\ P5[1] = newline /\ P5[2] = "}" /\ P5[3] = "," /\ P5[4] = newline
  BY EntryFrame
<1>5. entryText(k, v) = (((P1 \o e) \o P3) \o V) \o P5
  BY DEF entryText
<1> DEFINE x == Len(e)
<1> DEFINE y == Len(V)
<1> DEFINE t1 == P1 \o e
<1> DEFINE t2 == t1 \o P3
<1> DEFINE t3 == t2 \o V
<1> DEFINE t4 == t3 \o P5
<1>6. x \in Nat /\ y \in Nat
  BY <1>1
<1> HIDE DEF e, V, P1, P3, P5
<1>7. t1 \in Seq(Piece) /\ Len(t1) = 1 + x
  BY <1>1, <1>2, ConcatAt
<1> HIDE DEF t1
<1>8. t2 \in Seq(Piece) /\ Len(t2) = 1 + x + 8
  <2>1. t2 \in Seq(Piece) /\ Len(t2) = Len(t1) + Len(P3)
    BY <1>7, <1>3, ConcatAt, Zenon
  <2>. QED BY <2>1, <1>7, <1>3
<1> HIDE DEF t2
<1>9. t3 \in Seq(Piece) /\ Len(t3) = 1 + x + 8 + y
  BY <1>8, <1>1, <1>6, ConcatAt
<1> HIDE DEF t3
<1>10. t4 \in Seq(Piece) /\ Len(t4) = 1 + x + 8 + y + 4
  BY <1>9, <1>4, <1>6, ConcatAt
<1>11. entryText(k, v) = t4
  BY <1>5 DEF t1, t2, t3
<1>12. At(s, a, t3) /\ At(s, a + Len(t3), P5)
  BY <1>4, <1>9, <1>11, AtSplit
<1>13. At(s, a, t2) /\ At(s, a + Len(t2), V)
  BY <1>1, <1>8, <1>12, AtSplit DEF t3
<1>14. At(s, a, t1) /\ At(s, a + Len(t1), P3)
  BY <1>3, <1>7, <1>13, AtSplit DEF t2
<1>15. At(s, a, P1) /\ At(s, a + Len(P1), e)
  BY <1>1, <1>2, <1>14, AtSplit DEF t1
<1> HIDE DEF x, y, t4
<1>16. s[a + 1] = quote /\ At(s, a + 1, e)
  <2>1. \A i \in 1..1 : s[a + i] = P1[i]
    BY <1>15, <1>2 DEF At
  <2>. QED BY <2>1, <1>15, <1>2
<1>17. /\ s[a + x + 2] = quote /\ s[a + x + 3] = ":" /\ s[a + x + 4] = "{" /\ s[a + x + 5] = newline
       /\ s[a + x + 6] = quote /\ s[a + x + 7] = "value" /\ s[a + x + 8] = quote /\ s[a + x + 9] = ":"
  <2>1. \A i \in 1..8 : s[(a + (1 + x)) + i] = P3[i]
    BY <1>14, <1>7, <1>3 DEF At
  <2>2. /\ (a + (1 + x)) + 1 = a + x + 2 /\ (a + (1 + x)) + 2 = a + x + 3 /\ (a + (1 + x)) + 3 = a + x + 4
        /\ (a + (1 + x)) + 4 = a + x + 5 /\ (a + (1 + x)) + 5 = a + x + 6 /\ (a + (1 + x)) + 6 = a + x + 7
        /\ (a + (1 + x)) + 7 = a + x + 8 /\ (a + (1 + x)) + 8 = a + x + 9
    BY <1>6
  <2>3. 1 \in 1..8 /\ 2 \in 1..8 /\ 3 \in 1..8 /\ 4 \in 1..8 /\ 5 \in 1..8 /\ 6 \in 1..8 /\ 7 \in 1..8 /\ 8 \in 1..8
    OBVIOUS
  <2>. QED BY <2>1, <2>2, <2>3, <1>3, Zenon
<1>18. At(s, a + x + 9, V)
  <2>1. a + (1 + x + 8) = a + x + 9
    BY <1>6
  <2>. QED BY <2>1, <1>13, <1>8
<1>19. /\ s[a + x + y + 10] = newline /\ s[a + x + y + 11] = "}"
       /\ s[a + x + y + 12] = "," /\ s[a + x + y + 13] = newline
       /\ a + x + y + 13 <= Len(s)
  <2>1. (\A i \in 1..4 : s[(a + (1 + x + 8 + y)) + i] = P5[i]) /\ (a + (1 + x + 8 + y)) + 4 <= Len(s)
    BY <1>12, <1>9, <1>4 DEF At
  <2> DEFINE b == a + (1 + x + 8 + y)
  <2>2. /\ b + 1 = a + x + y + 10 /\ b + 2 = a + x + y + 11 /\ b + 3 = a + x + y + 12 /\ b + 4 = a + x + y + 13
    BY <1>6
  <2>3. 1 \in 1..4 /\ 2 \in 1..4 /\ 3 \in 1..4 /\ 4 \in 1..4
    OBVIOUS
  <2> HIDE DEF b
  <2>4. s[b + 1] = P5[1] /\ s[b + 2] = P5[2] /\ s[b + 3] = P5[3] /\ s[b + 4] = P5[4] /\ b + 4 <= Len(s)
    BY <2>1, <2>3, Zenon DEF b
  <2>. QED BY <2>2, <2>4, <1>4
<1>20. EntryAt(s, a, k, v)
  BY <1>6, <1>16, <1>17, <1>18, <1>19 DEF EntryAt, e, V, x, y
<1>21. Len(t4) = x + y + 13
  BY <1>10, <1>6
<1>. QED BY <1>10, <1>11, <1>20, <1>21 DEF x, y, e, V

\* A set of naturals that is not empty has a least one.
LEMMA LeastNat ==
  ASSUME NEW S, NEW m \in Nat, m \in S
  PROVE  \E n \in Nat : n <= m /\ n \in S /\ \A l \in Nat : l < n => l \notin S
<1> SUFFICES ASSUME \A n \in Nat : n <= m /\ n \in S => \E l \in Nat : l < n /\ l \in S PROVE FALSE
  OBVIOUS
<1> DEFINE M == {n \in Nat : \A l \in Nat : l <= n /\ l <= m => l \notin S}
<1>1. 0 \in M
  OBVIOUS
<1>2. ASSUME NEW n \in Nat, n \in M PROVE n + 1 \in M
  <2> SUFFICES ASSUME NEW l \in Nat, l <= n + 1, l <= m, l \in S PROVE FALSE
    OBVIOUS
  <2>1. PICK h \in Nat : h < l /\ h \in S
    OBVIOUS
  <2>2. h <= n /\ h <= m
    BY <2>1
  <2>. QED BY <1>2, <2>1, <2>2
<1>3. \A n \in Nat : n \in M
  <2> HIDE DEF M
  <2>. QED BY <1>1, <1>2, NatInd
<1>. QED BY <1>3

\* Where a search ends that finds something.
LEMMA FindFirst ==
  ASSUME NEW s, Len(s) \in Nat, NEW c, NEW i \in Nat, NEW j \in Nat, i <= j, j <= Len(s), s[j] = c
  PROVE  /\ find(s, c, i) \in Nat /\ i <= find(s, c, i) /\ find(s, c, i) <= j /\ s[find(s, c, i)] = c
         /\ \A l \in Nat : i <= l /\ l < find(s, c, i) => s[l] # c
<1> DEFINE S == {n \in Nat : i <= n /\ s[n] = c}
<1>1. j \in S
  OBVIOUS
<1>2. PICK n \in Nat : n <= j /\ n \in S /\ \A l \in Nat : l < n => l \notin S
  <2> HIDE DEF S
  <2>. QED BY <1>1, LeastNat
<1>3. i <= n /\ n <= Len(s) /\ s[n] = c /\ \A l \in Nat : i <= l /\ l < n => s[l] # c
  BY <1>2
<1>4. find(s, c, i) = n
  BY <1>3, FindIs
<1>. QED BY <1>2, <1>3, <1>4

\* What is in an escaped text comes from the text, but for backslashes and
\* the letters of line ends; there are no line ends.
LEMMA EscapeElements ==
  ASSUME NEW u \in Seq(Piece), NEW i \in 1..Len(escape(u))
  PROVE  /\ escape(u)[i] # newline
         /\ escape(u)[i] \notin {backslash, "n"} => \E m \in 1..Len(u) : u[m] = escape(u)[i]
<1> DEFINE ss == pieces(u)
<1>1. /\ IsTexts(ss, Piece) /\ Len(ss) = Len(u) /\ Len(u) \in Nat /\ escape(u) = joinLoop(ss)[Len(u)]
      /\ \A n \in 1..Len(u) : ss[n] = Escaped(u[n])
  BY PiecesAre DEF escape, Join, pieces
<1>2. \E m \in 1..Len(u) : \E l \in 1..Len(ss[m]) : escape(u)[i] = ss[m][l]
  <2> HIDE DEF ss
  <2>1. Len(u) <= Len(ss)
    BY <1>1
  <2>2. OnlyThose(ss, Len(u))
    BY <1>1, <2>1, JoinElements
  <2>. QED BY <1>1, <2>2, Zenon DEF OnlyThose
<1>3. PICK m \in 1..Len(u) : \E l \in 1..Len(Escaped(u[m])) : escape(u)[i] = Escaped(u[m])[l]
  BY <1>1, <1>2
<1> DEFINE c == u[m]
<1>4. c \in Piece
  OBVIOUS
<1>5. CASE c \notin {quote, backslash, newline}
  <2>1. Len(Escaped(c)) = 1 /\ Escaped(c)[1] = c
    BY <1>4, <1>5, EscapedIs
  <2>2. escape(u)[i] = c
    <3>1. \A l \in 1..1 : l = 1
      OBVIOUS
    <3>. QED BY <1>3, <2>1, <3>1
  <2>. QED BY <1>5, <2>2
<1>6. CASE c \in {quote, backslash, newline}
  <2>1. /\ Len(Escaped(c)) = 2 /\ Escaped(c)[1] = backslash /\ Escaped(c)[2] = Letter[c]
        /\ Letter[c] = IF c = newline THEN "n" ELSE c
    BY <1>4, <1>6, EscapedIs
  <2>2. escape(u)[i] = backslash \/ escape(u)[i] = Letter[c]
    <3>1. \A l \in 1..2 : l = 1 \/ l = 2
      OBVIOUS
    <3>. QED BY <1>3, <2>1, <3>1
  <2>3. backslash # newline /\ "n" # newline
    BY DEF backslash, newline
  <2>. QED BY <1>6, <2>1, <2>2, <2>3
<1>. QED BY <1>5, <1>6

-----------------------------------------------------------------------------
(* Values.                                                                 *)

\* A text of one piece.
LEMMA OneIs ==
  ASSUME NEW T, NEW s \in Seq(T), Len(s) = 1
  PROVE  s = <<s[1]>> /\ s[1] \in T
OBVIOUS

\* A text in quotes.
LEMMA QuotedText ==
  ASSUME NEW e \in Seq(Piece)
  PROVE  LET V == <<quote>> \o e \o <<quote>>
         IN  /\ V \in Seq(Piece) /\ Len(V) = Len(e) + 2 /\ V[1] = quote /\ V[Len(e) + 2] = quote /\ At(V, 1, e)
<1> DEFINE Q == <<quote>>
<1> DEFINE y == Len(e)
<1> DEFINE t == Q \o e
<1> DEFINE V == t \o Q
<1>1. Q \in Seq(Piece) /\ Len(Q) = 1 /\ Q[1] = quote
  BY EntryFrame
<1>2. y \in Nat
  OBVIOUS
<1> HIDE DEF Q, y
<1>3. t \in Seq(Piece) /\ Len(t) = 1 + y /\ At(t, 0, Q) /\ At(t, 1, e)
  BY <1>1, ConcatAt DEF y
<1>4. V \in Seq(Piece) /\ Len(V) = Len(t) + 1 /\ At(V, 0, t) /\ At(V, Len(t), Q)
  <2> HIDE DEF t
  <2>. QED BY <1>1, <1>3, ConcatAt
<1> HIDE DEF t, V
<1>5. At(V, 0 + 0, Q) /\ At(V, 0 + 1, e) /\ Len(V) = y + 2
  <2>1. Len(V) \in Nat /\ Len(t) \in Nat /\ Len(e) \in Nat
    BY <1>2, <1>3, <1>4 DEF y
  <2>2. At(V, 0 + 0, Q)
    BY <2>1, <1>1, <1>3, <1>4, AtAt
  <2>3. At(V, 0 + 1, e)
    BY <2>1, <1>1, <1>3, <1>4, AtAt
  <2>. QED BY <2>2, <2>3, <1>2, <1>3, <1>4
<1>6. V[1] = quote
  <2>1. \A i \in 1..1 : V[0 + i] = Q[i]
    BY <1>5, <1>1 DEF At
  <2>. QED BY <2>1, <1>1
<1>7. V[y + 2] = quote
  <2>1. \A i \in 1..1 : V[(1 + y) + i] = Q[i]
    BY <1>3, <1>4, <1>1 DEF At
  <2>2. (1 + y) + 1 = y + 2
    BY <1>2
  <2>. QED BY <2>1, <2>2, <1>1
<1>. QED BY <1>4, <1>5, <1>6, <1>7 DEF V, t, Q, y

\* A string is written in quotes and escaped.
LEMMA QuotedValue ==
  ASSUME NEW v, ValueFits(v), v[1] = "STRING"
  PROVE  LET w == Spelled(v[2])
             V == valueText(v)
         IN  /\ w \in Seq(Piece) /\ V \in Seq(Piece) /\ Len(V) = Len(escape(w)) + 2
             /\ V[1] = quote /\ V[Len(escape(w)) + 2] = quote /\ At(V, 1, escape(w))
             /\ Json(v) = <<"quoted", w>>
<1> DEFINE w == Spelled(v[2])
<1>1. w \in Seq(Piece)
  BY DEF ValueFits
<1>2. escape(w) \in Seq(Piece)
  BY <1>1, EscapeAt
<1>3. valueText(v) = <<quote>> \o escape(w) \o <<quote>>
  BY DEF valueText, attributeValueToJson
<1>4. Json(v) = <<"quoted", w>>
  BY DEF Json, attributeValueToJson
<1> HIDE DEF w
<1>5. LET V == <<quote>> \o escape(w) \o <<quote>>
      IN  /\ V \in Seq(Piece) /\ Len(V) = Len(escape(w)) + 2 /\ V[1] = quote
          /\ V[Len(escape(w)) + 2] = quote /\ At(V, 1, escape(w))
  BY <1>2, QuotedText
<1>6. /\ valueText(v) \in Seq(Piece) /\ Len(valueText(v)) = Len(escape(w)) + 2 /\ valueText(v)[1] = quote
      /\ valueText(v)[Len(escape(w)) + 2] = quote /\ At(valueText(v), 1, escape(w))
  BY <1>3, <1>5, Zenon
<1>. QED BY <1>1, <1>4, <1>6 DEF w

BareJson(text) == <<"bare", text>>

\* A value that is no string is written as one piece.
LEMMA BareValue ==
  ASSUME NEW v, ValueFits(v), v[1] # "STRING"
  PROVE  \E p \in Piece : /\ p \notin {quote, backslash, newline, "{", "}", ","}
                          /\ valueText(v) = <<p>> /\ Json(v) = <<"bare", <<p>> >>
<1>1. PICK p \in Piece : /\ p \notin {quote, backslash, newline, "{", "}", ","}
                         /\ Spelled(getValueString(v)) = <<p>>
  <2> DEFINE t == Spelled(getValueString(v))
  <2>1. t \in Seq(Piece) /\ Len(t) = 1 /\ t[1] \notin {quote, backslash, newline, "{", "}", ","}
    BY Zenon DEF ValueFits
  <2> HIDE DEF t
  <2>3. t = <<t[1]>> /\ t[1] \in Piece
    BY <2>1, OneIs
  <2>. QED BY <2>1, <2>3, Zenon DEF t
<1>2. attributeValueToJson(v) = BareJson(getValueString(v))
  BY DEF attributeValueToJson, BareJson
<1>3. ASSUME NEW t PROVE BareJson(t)[1] = "bare" /\ BareJson(t)[2] = t
  BY DEF BareJson
<1>4. attributeValueToJson(v)[1] = "bare" /\ attributeValueToJson(v)[2] = getValueString(v)
  <2> DEFINE t == getValueString(v)
  <2> HIDE DEF t
  <2>1. BareJson(t)[1] = "bare" /\ BareJson(t)[2] = t
    BY <1>3
  <2>. QED BY <2>1, <1>2 DEF t
<1>5. "bare" # "quoted"
  OBVIOUS
<1>6. valueText(v) = Spelled(getValueString(v))
  BY <1>4, <1>5, Zenon DEF valueText
<1>7. Json(v) = <<"bare", Spelled(getValueString(v))>>
  BY <1>4, Zenon DEF Json
<1>. QED BY <1>1, <1>6, <1>7, Zenon

\* A value holds no line end, and the count of braces is behind it what it was.
LEMMA ValueIs ==
  ASSUME NEW v, ValueFits(v)
  PROVE  /\ valueText(v) \in Seq(Piece) /\ Len(valueText(v)) >= 1
         /\ \A i \in 1..Len(valueText(v)) : valueText(v)[i] # newline
<1> DEFINE V == valueText(v)
<1>1. CASE v[1] = "STRING"
  <2> DEFINE e == escape(Spelled(v[2]))
  <2>1. /\ V \in Seq(Piece) /\ Len(V) = Len(e) + 2 /\ V[1] = quote /\ V[Len(e) + 2] = quote /\ At(V, 1, e)
        /\ Spelled(v[2]) \in Seq(Piece)
    BY <1>1, QuotedValue, Zenon
  <2>2. Len(e) \in Nat /\ \A i \in 1..Len(e) : e[i] # newline
    <3>1. e \in Seq(Piece)
      BY <2>1, EscapeAt
    <3>2. \A i \in 1..Len(e) : e[i] # newline
      BY <2>1, EscapeElements
    <3>. QED BY <3>1, <3>2
  <2> HIDE DEF e, V
  <2>3. ASSUME NEW i \in 1..Len(V) PROVE V[i] # newline
    <3>1. CASE i = 1 \/ i = Len(e) + 2
      BY <2>1, <3>1 DEF quote, newline
    <3>2. CASE ~(i = 1 \/ i = Len(e) + 2)
      <4>1. i - 1 \in 1..Len(e) /\ 1 + (i - 1) = i
        BY <2>1, <2>2, <3>2
      <4>2. V[1 + (i - 1)] = e[i - 1]
        BY <2>1, <4>1 DEF At
      <4>. QED BY <2>2, <4>1, <4>2
    <3>. QED BY <3>1, <3>2
  <2>4. Len(V) >= 1
    BY <2>1, <2>2
  <2>. QED BY <2>1, <2>3, <2>4 DEF V
<1>2. CASE v[1] # "STRING"
  <2>1. PICK p \in Piece : p # newline /\ V = <<p>>
    BY <1>2, BareValue
  <2>2. <<p>> \in Seq(Piece) /\ Len(<<p>>) = 1 /\ <<p>>[1] = p
    OBVIOUS
  <2>3. \A i \in 1..1 : i = 1
    OBVIOUS
  <2>. QED BY <2>1, <2>2, <2>3
<1>. QED BY <1>1, <1>2

\* A string in quotes leaves the count of braces as it was.
LEMMA QuotedCalm ==
  ASSUME NEW s, NEW from, NEW a, NEW d \in Int, NEW w \in Seq(Piece), NEW V, Scan(s, from, a, Quiet(d)),
         Len(V) = Len(escape(w)) + 2, V[1] = quote, V[Len(escape(w)) + 2] = quote, At(V, 1, escape(w)),
         At(s, a, V)
  PROVE  Calm(s, from, a, a + Len(V), d) /\ Scan(s, from, a + Len(V), Quiet(d))
<1> DEFINE e == escape(w)
<1>1. Len(e) \in Nat
  <2>1. e \in Seq(Piece)
    BY EscapeAt
  <2>. QED BY <2>1
<1>2. Len(s) \in Nat /\ a \in Nat /\ a + Len(V) <= Len(s) /\ (\A i \in 1..Len(V) : s[a + i] = V[i]) /\ Len(V) = Len(e) + 2
  BY DEF Scan, At
<1>3. At(s, a + 1, e)
  <2> HIDE DEF e
  <2>1. At(V, 1, e) /\ Len(V) \in Nat
    BY <1>1, <1>2 DEF e
  <2>. QED BY <1>1, <1>2, <2>1, AtAt
<1>4. s[a + 1] = quote /\ s[a + 1 + Len(e) + 1] = quote /\ a + 1 + Len(e) < Len(s) /\ a + Len(V) = a + 1 + Len(e) + 1
  <2> HIDE DEF e
  <2>1. V[1] = quote /\ V[Len(e) + 2] = quote
    BY DEF e
  <2>2. 1 \in 1..Len(V) /\ Len(e) + 2 \in 1..Len(V)
    BY <1>1, <1>2
  <2>3. s[a + 1] = quote /\ s[a + (Len(e) + 2)] = quote
    BY <1>2, <2>1, <2>2, Zenon
  <2> DEFINE y == Len(e)
  <2> HIDE DEF y
  <2>4. y \in Nat /\ Len(V) = y + 2 /\ Len(s) \in Nat /\ a \in Nat /\ a + Len(V) <= Len(s)
    BY <1>1, <1>2 DEF y
  <2>5. a + (y + 2) = a + 1 + y + 1 /\ a + 1 + y < Len(s) /\ a + Len(V) = a + 1 + y + 1
    BY <2>4
  <2>. QED BY <2>3, <2>5, Zenon DEF y
<1>5. Calm(s, from, a, a + 1 + Len(e) + 1, d) /\ Scan(s, from, a + 1 + Len(e) + 1, Quiet(d))
  BY <1>3, <1>4, CalmString
<1>. QED BY <1>4, <1>5

\* So does every value.
LEMMA ValueCalm ==
  ASSUME NEW s, NEW from, NEW a, NEW d \in Int, NEW v, ValueFits(v), Scan(s, from, a, Quiet(d)),
         At(s, a, valueText(v))
  PROVE  /\ Calm(s, from, a, a + Len(valueText(v)), d)
         /\ Scan(s, from, a + Len(valueText(v)), Quiet(d))
<1>1. CASE v[1] = "STRING"
  BY <1>1, QuotedValue, QuotedCalm, Zenon
<1>2. CASE v[1] # "STRING"
  <2> DEFINE V == valueText(v)
  <2>1. PICK p \in Piece : p \notin {quote, backslash, newline, "{", "}", ","} /\ V = <<p>>
    BY <1>2, BareValue
  <2>2. Len(<<p>>) = 1 /\ <<p>>[1] = p
    OBVIOUS
  <2>3. Len(V) = 1 /\ V[1] = p /\ p \notin Special
    BY <2>1, <2>2, Zenon DEF Special
  <2>4. At(s, a, V)
    OBVIOUS
  <2> HIDE DEF V
  <2>5. a \in Nat /\ Len(s) \in Nat
    BY DEF Scan
  <2>6. a < Len(s) /\ s[a + 1] = p
    BY <2>3, <2>4, <2>5 DEF At
  <2>7. Calm(s, from, a, a + 1, d) /\ Scan(s, from, a + 1, Quiet(d))
    BY <2>3, <2>6, CalmPiece
  <2>. QED BY <2>3, <2>7 DEF V
<1>. QED BY <1>1, <1>2

\* An object that holds the text V.
ObjectOf(o, V, y) ==
  /\ o \in Seq(Piece) /\ V \in Seq(Piece) /\ y \in Nat /\ y = Len(V) /\ Len(o) = y + 8
  /\ o[1] = "{" /\ o[2] = newline /\ o[3] = quote /\ o[4] = "value" /\ o[5] = quote /\ o[6] = ":"
  /\ At(o, 6, V) /\ o[y + 7] = newline
  /\ \A i \in 1..y : V[i] # newline

\* The object that holds a text is read as that text.
LEMMA ObjectText ==
  ASSUME NEW o, NEW V, NEW y, ObjectOf(o, V, y)
  PROVE  objectValue(o) = IF V[1] = quote /\ V[Len(V)] = quote
                          THEN <<"quoted", unescape(SubSeq(V, 2, Len(V) - 1))>> ELSE <<"bare", V>>
<1>1. y \in Nat /\ Len(o) = y + 8 /\ y = Len(V)
  BY DEF ObjectOf
<1>2. Len(o) \in Nat /\ 6 <= Len(o)
  BY <1>1
<1>3. o[1] # ":" /\ o[2] # ":" /\ o[3] # ":" /\ o[4] # ":" /\ o[5] # ":" /\ o[6] = ":"
  <2>1. ":" # "{" /\ ":" # newline /\ ":" # quote /\ ":" # "value"
    BY DEF quote, newline
  <2>. QED BY <2>1, Zenon DEF ObjectOf
<1>4. find(o, ":", 1) = 6
  <2>1. ASSUME NEW l \in Nat, 1 <= l, l < 6 PROVE o[l] # ":"
    <3>1. l = 1 \/ l = 2 \/ l = 3 \/ l = 4 \/ l = 5
      BY <2>1
    <3>. QED BY <1>3, <3>1, Zenon
  <2>. QED BY <1>2, <1>3, <2>1, FindIs
<1>5. (\A i \in 1..y : o[6 + i] = V[i]) /\ (\A i \in 1..y : V[i] # newline) /\ o[y + 7] = newline
  BY Zenon DEF At, ObjectOf
<1>6. find(o, newline, 6) = y + 7
  <2>1. y + 7 \in Nat /\ 6 <= y + 7 /\ y + 7 <= Len(o)
    BY <1>1
  <2>2. ASSUME NEW l \in Nat, 6 <= l, l < y + 7 PROVE o[l] # newline
    <3>1. CASE l = 6
      BY <1>3, <3>1 DEF newline
    <3>2. CASE l # 6
      <4>1. l - 6 \in 1..y /\ 6 + (l - 6) = l
        BY <1>1, <2>2, <3>2
      <4>2. o[6 + (l - 6)] = V[l - 6] /\ V[l - 6] # newline
        BY <1>5, <4>1, Zenon
      <4>. QED BY <4>1, <4>2
    <3>. QED BY <3>1, <3>2
  <2>. QED BY <1>2, <1>5, <2>1, <2>2, FindIs
<1>7. SubSeq(o, 6 + 1, (y + 7) - 1) = V
  <2>1. o \in Seq(Piece) /\ V \in Seq(Piece) /\ At(o, 6, V)
    BY DEF ObjectOf
  <2>2. SubSeq(o, 6 + 1, 6 + Len(V)) = V
    BY <2>1, SubSeqAt
  <2>3. (y + 7) - 1 = 6 + Len(V)
    BY <1>1
  <2>. QED BY <2>2, <2>3
<1>. QED BY <1>4, <1>6, <1>7, Zenon DEF objectValue

\* What the scanner makes of the text of a value is the value.
LEMMA TextIsValue ==
  ASSUME NEW v, ValueFits(v), NEW V, V = valueText(v)
  PROVE  (IF V[1] = quote /\ V[Len(V)] = quote
          THEN <<"quoted", unescape(SubSeq(V, 2, Len(V) - 1))>> ELSE <<"bare", V>>) = Json(v)
<1>1. ASSUME v[1] = "STRING"
      PROVE  V[1] = quote /\ V[Len(V)] = quote /\ Json(v) = <<"quoted", unescape(SubSeq(V, 2, Len(V) - 1))>>
  <2> DEFINE w == Spelled(v[2])
  <2> DEFINE e == escape(w)
  <2>1. /\ w \in Seq(Piece) /\ V \in Seq(Piece) /\ Len(V) = Len(e) + 2 /\ V[1] = quote /\ V[Len(e) + 2] = quote
        /\ At(V, 1, e) /\ Json(v) = <<"quoted", w>>
    BY <1>1, QuotedValue, Zenon
  <2>2. e \in Seq(Piece)
    <3> HIDE DEF w
    <3>. QED BY <2>1, EscapeAt
  <2>3. unescape(e) = w
    BY <2>1, UnescapeEscape
  <2> HIDE DEF e, w
  <2>4. Len(e) \in Nat
    BY <2>2
  <2>5. SubSeq(V, 1 + 1, 1 + Len(e)) = e
    BY <2>1, <2>2, SubSeqAt
  <2>6. 1 + 1 = 2 /\ 1 + Len(e) = Len(V) - 1 /\ Len(V) = Len(e) + 2
    BY <2>1, <2>4
  <2>. QED BY <2>1, <2>3, <2>5, <2>6, Zenon
<1>2. ASSUME v[1] # "STRING"
      PROVE  V[1] # quote /\ Json(v) = <<"bare", V>>
  <2>1. PICK p \in Piece : p # quote /\ valueText(v) = <<p>> /\ Json(v) = <<"bare", <<p>> >>
    BY <1>2, BareValue
  <2>2. <<p>>[1] = p
    OBVIOUS
  <2>. QED BY <2>1, <2>2, Zenon
<1>. QED BY <1>1, <1>2, Zenon

\* The object that holds a value is read as that value.
LEMMA ObjectIs ==
  ASSUME NEW o, NEW v, ValueFits(v), NEW y, ObjectOf(o, valueText(v), y)
  PROVE  objectValue(o) = Json(v)
BY ObjectText, TextIsValue, Zenon

-----------------------------------------------------------------------------
(* Keys.                                                                   *)

\* Nothing is escaped in the key "autosave".
LEMMA EscapeAutosave ==
  /\ <<"autosave">> \in Seq(Piece) /\ Len(<<"autosave">>) = 1 /\ <<"autosave">>[1] = "autosave"
  /\ escape(<<"autosave">>) = <<"autosave">>
<1> DEFINE w == <<"autosave">>
<1>1. w \in Seq(Piece) /\ Len(w) = 1 /\ w[1] = "autosave"
  <2>1. w \in Seq(Piece)
    BY PieceNames, ShortTexts, Zenon
  <2>. QED BY <2>1
<1>2. "autosave" \in Piece /\ "autosave" \notin {quote, backslash, newline}
  BY PieceNames DEF quote, backslash, newline
<1>3. Len(Escaped("autosave")) = 1 /\ Escaped("autosave")[1] = "autosave"
  BY <1>2, EscapedIs
<1> HIDE DEF w
<1>4. /\ escape(w) \in Seq(Piece) /\ off(w, 0) = 0 /\ off(w, 1) = Len(escape(w))
      /\ off(w, 0 + 1) = off(w, 0) + Len(Escaped(w[0 + 1])) /\ At(escape(w), off(w, 0), Escaped(w[0 + 1]))
  <2>1. 0 \in Nat /\ 0 < Len(w)
    BY <1>1
  <2>. QED BY <1>1, <2>1, EscapeAt
<1>5. 0 + 1 = 1
  OBVIOUS
<1>6. Len(escape(w)) = 1 /\ At(escape(w), 0, Escaped("autosave"))
  BY <1>1, <1>3, <1>4, <1>5
<1>7. escape(w)[1] = "autosave"
  <2>1. \A i \in 1..1 : escape(w)[0 + i] = Escaped("autosave")[i]
    BY <1>3, <1>6 DEF At
  <2>. QED BY <1>3, <2>1
<1>8. escape(w) = <<escape(w)[1]>>
  BY <1>4, <1>6, OneIs
<1>. QED BY <1>1, <1>7, <1>8 DEF w

\* The key k stands in s behind position a, in quotes and before a colon.
KeyThere(s, a, k, x) ==
  /\ s \in Seq(Piece) /\ a \in Nat /\ k \in Seq(Piece) /\ x \in Nat /\ x = Len(escape(k))
  /\ At(s, a + 1, escape(k)) /\ a + x + 4 <= Len(s) /\ s[a + x + 2] = quote /\ s[a + x + 3] = ":"

NoBrace(k) == \A i \in 1..Len(k) : k[i] # "{"

\* Where the key that starts behind position a ends, and what it is read as.
KeyEnd(s, a, k, x, end) ==
  /\ end \in Nat /\ a + 2 <= end /\ end <= a + x + 2 /\ find(s, quote, a + 2) = end
  /\ unescape(SubSeq(s, a + 2, end - 1)) = KeyAsRead(k)
  /\ SubSeq(s, a + 2, end - 1) = <<"autosave">> <=> k = <<"autosave">>
  /\ \A l \in Nat : end <= l /\ l < a + x + 4 => s[l] # "{"

\* What stands in a text is none of the pieces that an escape adds or keeps out.
LEMMA EscapeHasNot ==
  ASSUME NEW u \in Seq(Piece), NEW c, c \notin {backslash, "n"}, \A i \in 1..Len(u) : u[i] # c
  PROVE  \A i \in 1..Len(escape(u)) : escape(u)[i] # c
BY EscapeElements

\* A key without a quote ends at its quote.
LEMMA PlainKey ==
  ASSUME NEW s, NEW a, NEW k, NEW x, KeyThere(s, a, k, x),
         \A i \in 1..Len(k) : k[i] # quote
  PROVE  KeyEnd(s, a, k, x, a + x + 2)
<1> DEFINE e == escape(k)
<1>0. /\ s \in Seq(Piece) /\ a \in Nat /\ k \in Seq(Piece) /\ x \in Nat /\ x = Len(escape(k))
      /\ At(s, a + 1, escape(k)) /\ a + x + 4 <= Len(s) /\ s[a + x + 2] = quote /\ s[a + x + 3] = ":"
  BY Zenon DEF KeyThere
<1>1. Len(s) \in Nat /\ Len(k) \in Nat
  BY <1>0
<1>2. e \in Seq(Piece)
  BY <1>0, EscapeAt
<1>3. \A i \in 1..x : e[i] # quote
  <2>1. quote \notin {backslash, "n"}
    BY DEF quote, backslash
  <2>. QED BY <1>0, <2>1, EscapeHasNot
<1>4. \A i \in 1..x : s[(a + 1) + i] = e[i]
  BY <1>0 DEF At
<1>5. find(s, quote, a + 2) = a + x + 2
  <2>1. a + 2 \in Nat /\ a + x + 2 \in Nat /\ a + 2 <= a + x + 2 /\ a + x + 2 <= Len(s)
    BY <1>0, <1>1
  <2>2. ASSUME NEW l \in Nat, a + 2 <= l, l < a + x + 2 PROVE s[l] # quote
    <3>1. l - (a + 1) \in 1..x /\ (a + 1) + (l - (a + 1)) = l
      BY <1>0, <2>2
    <3>2. s[(a + 1) + (l - (a + 1))] = e[l - (a + 1)] /\ e[l - (a + 1)] # quote
      BY <1>3, <1>4, <3>1, Zenon
    <3>. QED BY <3>1, <3>2
  <2> HIDE DEF e
  <2>. QED BY <1>0, <1>1, <2>1, <2>2, FindIs
<1>6. SubSeq(s, a + 2, (a + x + 2) - 1) = e
  <2>1. a + 1 \in Nat
    BY <1>0
  <2>2. SubSeq(s, (a + 1) + 1, (a + 1) + Len(e)) = e
    BY <1>0, <1>2, <2>1, SubSeqAt
  <2>3. (a + 1) + 1 = a + 2 /\ (a + 1) + Len(e) = (a + x + 2) - 1
    BY <1>0
  <2>. QED BY <2>2, <2>3
<1>7. unescape(e) = KeyAsRead(k)
  <2>1. find(k, quote, 1) = 0
    <3>1. \A l \in Nat : 1 <= l /\ l <= Len(k) => k[l] # quote
      BY <1>0, <1>1
    <3>. QED BY <1>0, <1>1, <3>1, FindNone
  <2>2. unescape(e) = k
    BY <1>0, UnescapeEscape
  <2>. QED BY <2>1, <2>2 DEF KeyAsRead
<1>8. e = <<"autosave">> <=> k = <<"autosave">>
  <2>1. unescape(e) = k
    BY <1>0, UnescapeEscape
  <2>2. escape(<<"autosave">>) = <<"autosave">> /\ unescape(escape(<<"autosave">>)) = <<"autosave">>
    BY EscapeAutosave, UnescapeEscape
  <2>. QED BY <2>1, <2>2, Zenon
<1>9. \A l \in Nat : a + x + 2 <= l /\ l < a + x + 4 => s[l] # "{"
  <2>1. \A l \in Nat : a + x + 2 <= l /\ l < a + x + 4 => l = a + x + 2 \/ l = a + x + 3
    BY <1>0
  <2>2. quote # "{" /\ ":" # "{"
    BY DEF quote
  <2>. QED BY <1>0, <2>1, <2>2
<1>10. a + x + 2 \in Nat /\ a + 2 <= a + x + 2 /\ a + x + 2 <= a + x + 2
  BY <1>0
<1>. QED BY <1>5, <1>6, <1>7, <1>8, <1>9, <1>10, Zenon DEF KeyEnd

\* Text that grows by one piece.
LEMMA AtAppend ==
  ASSUME NEW T, NEW s, Len(s) \in Nat, NEW a \in Nat, NEW u \in Seq(T), NEW c \in T, NEW n \in Nat, n = Len(u),
         At(s, a, u), a + n + 1 <= Len(s), s[a + n + 1] = c
  PROVE  /\ Append(u, c) \in Seq(T) /\ Len(Append(u, c)) = n + 1 /\ Append(u, c)[n + 1] = c
         /\ At(s, a, Append(u, c))
<1> DEFINE w == Append(u, c)
<1>1. w \in Seq(T) /\ Len(w) = n + 1 /\ w[n + 1] = c /\ \A i \in 1..n : w[i] = u[i]
  OBVIOUS
<1>2. \A i \in 1..n : s[a + i] = u[i]
  BY DEF At
<1> HIDE DEF w
<1>3. ASSUME NEW i \in 1..(n + 1) PROVE s[a + i] = w[i]
  <2>1. CASE i = n + 1
    <3>1. a + (n + 1) = a + n + 1
      OBVIOUS
    <3>. QED BY <1>1, <2>1, <3>1
  <2>2. CASE i # n + 1
    <3>1. i \in 1..n
      BY <2>2
    <3>. QED BY <1>1, <1>2, <3>1, Zenon
  <2>. QED BY <2>1, <2>2
<1>4. a + (n + 1) <= Len(s)
  OBVIOUS
<1>5. At(s, a, w)
  BY <1>1, <1>3, <1>4 DEF At
<1>. QED BY <1>1, <1>5 DEF w

\* The first quote of a key, and the text before it.
FrontOf(k, f, u) ==
  /\ f \in Nat /\ 1 <= f /\ f <= Len(k) /\ k[f] = quote /\ find(k, quote, 1) = f
  /\ u \in Seq(Piece) /\ Len(u) = f - 1 /\ u = SubSeq(k, 1, f - 1)
  /\ \A i \in 1..Len(u) : u[i] = k[i] /\ u[i] # quote

\* A key with a quote has a first one.
LEMMA FrontIs ==
  ASSUME NEW k \in Seq(Piece), NEW j \in 1..Len(k), k[j] = quote
  PROVE  \E f, u : FrontOf(k, f, u)
<1> DEFINE f == find(k, quote, 1)
<1>1. Len(k) \in Nat /\ j \in Nat /\ 1 <= j /\ j <= Len(k) /\ 1 \in Nat
  OBVIOUS
<1>2. /\ f \in Nat /\ 1 <= f /\ f <= j /\ k[f] = quote
      /\ \A l \in Nat : 1 <= l /\ l < f => k[l] # quote
  BY <1>1, FindFirst
<1> HIDE DEF f
<1> DEFINE u == SubSeq(k, 1, f - 1)
<1>3. f - 1 \in Nat /\ 0 <= f - 1 /\ f - 1 <= Len(k) /\ 0 + 1 = 1 /\ (f - 1) - 0 = f - 1
  BY <1>1, <1>2
<1>4. u \in Seq(Piece) /\ Len(u) = f - 1 /\ \A i \in 1..(f - 1) : u[i] = k[i]
  <2>1. u = SubSeq(k, 0 + 1, f - 1)
    BY <1>3
  <2>2. \A i \in 1..(f - 1) : 0 + i = i
    OBVIOUS
  <2>3. /\ SubSeq(k, 0 + 1, f - 1) \in Seq(Piece) /\ Len(SubSeq(k, 0 + 1, f - 1)) = (f - 1) - 0
        /\ \A i \in 1..((f - 1) - 0) : SubSeq(k, 0 + 1, f - 1)[i] = k[0 + i]
    BY <1>3, AtSubSeq
  <2> HIDE DEF u
  <2>. QED BY <1>3, <2>1, <2>2, <2>3
<1> HIDE DEF u
<1>5. \A i \in 1..Len(u) : u[i] = k[i] /\ u[i] # quote
  <2> TAKE i \in 1..Len(u)
  <2>1. i \in 1..(f - 1) /\ i \in Nat /\ 1 <= i /\ i < f
    BY <1>2, <1>4
  <2>. QED BY <1>2, <1>4, <2>1
<1>6. f <= Len(k)
  BY <1>1, <1>2
<1>7. FrontOf(k, f, u)
  BY <1>2, <1>4, <1>5, <1>6, Zenon DEF FrontOf, f, u
<1>. QED BY <1>7

\* A key with a quote ends at its first one, behind the backslash.
LEMMA CutKey ==
  ASSUME NEW s, NEW a, NEW k, NEW x, KeyThere(s, a, k, x),
         NEW f, NEW u, FrontOf(k, f, u), NoBrace(k)
  PROVE  KeyEnd(s, a, k, x, a + Len(escape(u)) + 3)
<1> DEFINE e == escape(u)
<1> DEFINE z == Len(e)
<1>1. /\ f \in Nat /\ 1 <= f /\ f <= Len(k) /\ k[f] = quote /\ find(k, quote, 1) = f
      /\ u \in Seq(Piece) /\ Len(u) = f - 1 /\ u = SubSeq(k, 1, f - 1)
      /\ \A i \in 1..Len(u) : u[i] = k[i] /\ u[i] # quote
  BY Zenon DEF FrontOf
<1>0. /\ s \in Seq(Piece) /\ a \in Nat /\ k \in Seq(Piece) /\ x \in Nat /\ x = Len(escape(k))
      /\ At(s, a + 1, escape(k)) /\ a + x + 4 <= Len(s) /\ s[a + x + 2] = quote
  BY Zenon DEF KeyThere
<1>2. Len(s) \in Nat /\ Len(k) \in Nat /\ f - 1 \in Nat /\ f - 1 < Len(k) /\ (f - 1) + 1 = f /\ f # 0 /\ Len(u) <= Len(k)
  BY <1>0, <1>1
<1>3. e \in Seq(Piece) /\ z \in Nat
  <2>1. e \in Seq(Piece)
    BY <1>1, EscapeAt
  <2>. QED BY <2>1
<1>4. off(k, f - 1) = z /\ At(escape(k), 0, e)
  <2>1. off(k, Len(u)) = Len(escape(u)) /\ At(escape(k), 0, escape(u))
    BY <1>0, <1>1, <1>2, EscapeFront
  <2>. QED BY <1>1, <2>1
<1>5. At(escape(k), z, Escaped(quote))
  <2>1. At(escape(k), off(k, f - 1), Escaped(k[(f - 1) + 1]))
    BY <1>0, <1>2, EscapeAt
  <2>. QED BY <1>1, <1>2, <1>4, <2>1
<1>6. Len(Escaped(quote)) = 2 /\ Escaped(quote)[1] = backslash /\ Escaped(quote)[2] = quote
  <2>1. quote \in Piece /\ quote # newline
    BY PieceNames DEF quote, newline
  <2>. QED BY <2>1, EscapedIs
<1> HIDE DEF e
<1>7. z + 2 <= x /\ escape(k)[z + 1] = backslash /\ escape(k)[z + 2] = quote
  <2>1. z + 2 <= x /\ \A i \in 1..2 : escape(k)[z + i] = Escaped(quote)[i]
    BY <1>0, <1>5, <1>6 DEF At
  <2>2. 1 \in 1..2 /\ 2 \in 1..2
    OBVIOUS
  <2>3. escape(k)[z + 1] = Escaped(quote)[1] /\ escape(k)[z + 2] = Escaped(quote)[2]
    BY <2>1, <2>2, Zenon
  <2>. QED BY <1>6, <2>1, <2>3
<1> DEFINE b == a + 1
<1>8. \A i \in 1..x : s[b + i] = escape(k)[i]
  BY <1>0, Zenon DEF At
<1>9. s[a + z + 2] = backslash /\ s[a + z + 3] = quote /\ a + z + 3 <= Len(s)
  <2>1. z + 1 \in 1..x /\ z + 2 \in 1..x
    BY <1>0, <1>3, <1>7
  <2>2. s[b + (z + 1)] = backslash /\ s[b + (z + 2)] = quote
    BY <1>7, <1>8, <2>1, Zenon
  <2>3. b + (z + 1) = a + z + 2 /\ b + (z + 2) = a + z + 3 /\ a + z + 3 <= Len(s)
    BY <1>0, <1>2, <1>3, <1>7
  <2>. QED BY <2>2, <2>3
<1>10. At(s, b, e)
  <2>1. Len(escape(k)) \in Nat /\ At(s, b, escape(k)) /\ b \in Nat
    BY <1>0
  <2> HIDE DEF b
  <2>2. At(s, b + 0, e)
    BY <1>2, <1>3, <1>4, <2>1, AtAt
  <2>. QED BY <2>1, <2>2
<1>11. \A i \in 1..z : e[i] # quote /\ s[b + i] = e[i]
  <2>1. quote \notin {backslash, "n"}
    BY DEF quote, backslash
  <2>2. \A i \in 1..Len(u) : u[i] # quote
    BY <1>1, Zenon
  <2>3. \A i \in 1..z : e[i] # quote
    <3>1. \A i \in 1..Len(escape(u)) : escape(u)[i] # quote
      BY <1>1, <2>1, <2>2, EscapeHasNot
    <3>. QED BY <3>1 DEF e
  <2>4. \A i \in 1..z : s[b + i] = e[i]
    BY <1>10, Zenon DEF At
  <2>. QED BY <2>3, <2>4, Zenon
<1>12. find(s, quote, a + 2) = a + z + 3
  <2>1. a + 2 \in Nat /\ a + z + 3 \in Nat /\ a + 2 <= a + z + 3
    BY <1>0, <1>3
  <2>2. ASSUME NEW l \in Nat, a + 2 <= l, l < a + z + 3 PROVE s[l] # quote
    <3>1. CASE l = a + z + 2
      BY <1>9, <3>1 DEF quote, backslash
    <3>2. CASE l # a + z + 2
      <4>1. l - b \in 1..z /\ b + (l - b) = l
        BY <1>0, <1>3, <2>2, <3>2
      <4>2. s[b + (l - b)] # quote
        BY <1>11, <4>1, Zenon
      <4>. QED BY <4>1, <4>2
    <3>. QED BY <3>1, <3>2
  <2> HIDE DEF z
  <2>. QED BY <1>2, <1>9, <2>1, <2>2, FindIs
<1> DEFINE w == Append(e, backslash)
<1>13. w \in Seq(Piece) /\ Len(w) = z + 1 /\ w[z + 1] = backslash /\ At(s, b, w)
  <2>0. backslash \in Piece
    BY PieceNames
  <2>1. b \in Nat /\ b + z + 1 = a + z + 2 /\ a + z + 2 <= Len(s)
    <3>1. a \in Nat /\ z \in Nat /\ Len(s) \in Nat /\ a + z + 3 <= Len(s)
      BY <1>0, <1>2, <1>3, <1>9
    <3> HIDE DEF z
    <3>. QED BY <3>1
  <2> HIDE DEF b
  <2>2. b + z + 1 <= Len(s) /\ s[b + z + 1] = backslash
    BY <1>9, <2>1
  <2>. QED BY <1>2, <1>3, <1>10, <2>0, <2>1, <2>2, AtAppend
<1>14. unescape(w) = Append(u, backslash)
  BY <1>1, UnescapeCut DEF e
<1> HIDE DEF w
<1>15. SubSeq(s, a + 2, (a + z + 3) - 1) = w
  <2>1. b \in Nat
    BY <1>0
  <2> HIDE DEF z
  <2>2. SubSeq(s, b + 1, b + Len(w)) = w
    <3> HIDE DEF b
    <3>. QED BY <1>0, <1>13, <2>1, SubSeqAt
  <2>3. b + 1 = a + 2 /\ b + Len(w) = (a + z + 3) - 1
    BY <1>0, <1>3, <1>13
  <2>. QED BY <2>2, <2>3
<1>16. KeyAsRead(k) = Append(u, backslash)
  BY <1>1, <1>2, Zenon DEF KeyAsRead
<1>17. w # <<"autosave">> /\ k # <<"autosave">>
  <2>1. backslash # "autosave" /\ quote # "autosave"
    BY DEF backslash, quote
  <2>2. w = <<"autosave">> => w[z + 1] = "autosave"
    <3>1. w = <<"autosave">> => z + 1 = 1
      BY <1>3, <1>13, EscapeAutosave
    <3>. QED BY <3>1, EscapeAutosave
  <2>3. k = <<"autosave">> => k[f] = "autosave"
    <3>1. k = <<"autosave">> => f = 1
      <4>1. k = <<"autosave">> => Len(k) = 1
        BY EscapeAutosave, Zenon
      <4>. QED BY <1>1, <4>1
    <3>. QED BY <3>1, EscapeAutosave
  <2>. QED BY <1>1, <1>13, <2>1, <2>2, <2>3
<1>18. \A l \in Nat : a + z + 3 <= l /\ l < a + x + 4 => s[l] # "{"
  <2>1. "{" \notin {backslash, "n"} /\ quote # "{" /\ ":" # "{"
    BY DEF backslash, quote
  <2>2. \A i \in 1..x : escape(k)[i] # "{"
    BY <1>0, <2>1, EscapeHasNot DEF NoBrace
  <2>3. ASSUME NEW l \in Nat, a + z + 3 <= l, l < a + x + 4 PROVE s[l] # "{"
    <3>1. CASE l = a + x + 2 \/ l = a + x + 3
      BY <2>1, <3>1, Zenon DEF KeyThere
    <3>2. CASE ~(l = a + x + 2 \/ l = a + x + 3)
      <4>1. l - b \in 1..x /\ b + (l - b) = l
        <5>1. a \in Nat /\ x \in Nat /\ z \in Nat
          BY <1>0, <1>3
        <5> HIDE DEF z
        <5>. QED BY <5>1, <2>3, <3>2
      <4>2. s[b + (l - b)] # "{"
        BY <1>8, <2>2, <4>1, Zenon
      <4>. QED BY <4>1, <4>2
    <3>. QED BY <3>1, <3>2
  <2>. QED BY <2>3
<1>19. a + z + 3 \in Nat /\ a + 2 <= a + z + 3 /\ a + z + 3 <= a + x + 2
  <2>1. z \in Nat /\ z + 2 <= x /\ a \in Nat /\ x \in Nat
    BY <1>0, <1>3, <1>7
  <2> HIDE DEF z
  <2>2. a + z + 3 \in Nat /\ a + 2 <= a + z + 3
    BY <2>1
  <2>3. z + 1 <= x
    BY <2>1
  <2>. QED BY <2>1, <2>2, <2>3
<1>. QED BY <1>12, <1>14, <1>15, <1>16, <1>17, <1>18, <1>19, Zenon DEF KeyEnd, z, e

\* Every key that fits ends somewhere.
LEMMA KeyEndIs ==
  ASSUME NEW s, NEW a, NEW k, NEW x, KeyThere(s, a, k, x), KeyFits(k)
  PROVE  \E end : KeyEnd(s, a, k, x, end)
<1>1. CASE \A i \in 1..Len(k) : k[i] # quote
  BY <1>1, PlainKey
<1>2. CASE \E i \in 1..Len(k) : k[i] = quote
  <2>1. k \in Seq(Piece) /\ NoBrace(k)
    BY <1>2, Zenon DEF KeyFits, NoBrace
  <2>2. PICK j \in 1..Len(k) : k[j] = quote
    BY <1>2
  <2>3. PICK f, u : FrontOf(k, f, u)
    BY <2>1, <2>2, FrontIs
  <2>. QED BY <2>1, <2>3, CutKey
<1>. QED BY <1>1, <1>2

-----------------------------------------------------------------------------
(* The braces of an entry.                                                 *)

\* A word in quotes.
LEMMA CalmWord ==
  ASSUME NEW s, NEW from, NEW a, NEW d \in Int, Scan(s, from, a, Quiet(d)), a + 3 <= Len(s),
         s[a + 1] = quote, s[a + 2] \notin {quote, backslash}, s[a + 3] = quote
  PROVE  Calm(s, from, a, a + 3, d) /\ Scan(s, from, a + 3, Quiet(d))
<1>0. a \in Nat /\ Len(s) \in Nat /\ a < Len(s) /\ a + 1 < Len(s) /\ a + 2 < Len(s)
      /\ (a + 1) + 1 = a + 2 /\ (a + 2) + 1 = a + 3 /\ from <= a + 1
  BY DEF Scan
<1>1. Scan(s, from, a + 1, Inside(d))
  <2>1. Scan(s, from, a + 1, Scanned(Quiet(d), s[a + 1]))
    BY <1>0, ScanOn
  <2>. QED BY <2>1, ScannedIs
<1>2. Scan(s, from, a + 2, Inside(d))
  <2>1. Scan(s, from, (a + 1) + 1, Scanned(Inside(d), s[(a + 1) + 1]))
    BY <1>0, <1>1, ScanOn
  <2>2. Scanned(Inside(d), s[a + 2]) = Inside(d)
    BY ScannedIs
  <2>. QED BY <1>0, <2>1, <2>2
<1>3. Scan(s, from, a + 3, Quiet(d))
  <2>1. Scan(s, from, (a + 2) + 1, Scanned(Inside(d), s[(a + 2) + 1]))
    BY <1>0, <1>2, ScanOn
  <2>2. Scanned(Inside(d), s[a + 3]) = Quiet(d)
    BY ScannedIs
  <2>. QED BY <1>0, <2>1, <2>2
<1>4. \A n \in Nat : a <= n /\ n <= a + 3 => n = a \/ n = a + 1 \/ n = a + 2 \/ n = a + 3
  BY <1>0
<1>5. depthAt(s, from, a) = d /\ depthAt(s, from, a + 1) = d /\ depthAt(s, from, a + 2) = d
      /\ depthAt(s, from, a + 3) = d
  BY <1>1, <1>2, <1>3, DepthIs DEF Scan, depthAt
<1>6. \A n \in Nat : a <= n /\ n <= a + 3 => depthAt(s, from, n) \in Int /\ depthAt(s, from, n) >= d
  BY <1>4, <1>5
<1>. QED BY <1>0, <1>3, <1>6 DEF Calm, Scan

Opens(c) == c = "{"
Closes(c) == c = "}"

\* What a brace does to the scan.
LEMMA ScannedBraces ==
  ASSUME NEW d \in Int, NEW c
  PROVE  /\ Opens(c) => Scanned(Quiet(d), c) = Quiet(d + 1)
         /\ Closes(c) => Scanned(Quiet(d + 1), c) = Quiet(d)
<1>1. Opens(c) => Scanned(Quiet(d), c) = Quiet(d + 1)
  BY ScannedIs DEF Opens
<1>2. (d + 1) - 1 = d /\ d + 1 \in Int
  OBVIOUS
<1>3. Closes(c) => Scanned(Quiet(d + 1), c) = Quiet((d + 1) - 1)
  BY <1>2, ScannedIs DEF Closes
<1>. QED BY <1>1, <1>2, <1>3

\* What the last brace does to the scan.
LEMMA ScannedLast ==
  ASSUME NEW c, Closes(c)
  PROVE  Scanned(Quiet(1), c) = Quiet(0)
<1> DEFINE d == 1
<1>1. d \in Int /\ d - 1 = 0
  OBVIOUS
<1>2. c = "}"
  BY DEF Closes
<1> HIDE DEF d
<1>3. Scanned(Quiet(d), c) = Quiet(d - 1)
  BY <1>1, <1>2, ScannedIs
<1>. QED BY <1>1, <1>3 DEF d

\* A pair of braces with nothing in between that closes more than it opens.
LEMMA CalmBraces ==
  ASSUME NEW s, NEW from, NEW a, NEW c, NEW d \in Int, Scan(s, from, a, Quiet(d)), a < Len(s), Opens(s[a + 1]),
         Calm(s, from, a + 1, c, d + 1), Scan(s, from, c, Quiet(d + 1)), c < Len(s), Closes(s[c + 1])
  PROVE  Calm(s, from, a, c + 1, d) /\ Scan(s, from, c + 1, Quiet(d))
<1>0. a \in Nat /\ c \in Nat /\ Len(s) \in Nat /\ a + 1 <= c /\ from <= a + 1
  BY DEF Scan, Calm
<1>1. Scan(s, from, c + 1, Quiet(d))
  <2>1. Scan(s, from, c + 1, Scanned(Quiet(d + 1), s[c + 1]))
    BY ScanOn
  <2>. QED BY <2>1, ScannedBraces
<1>2. depthAt(s, from, a) = d /\ depthAt(s, from, c + 1) = d
  BY <1>1, DepthIs DEF Scan, depthAt
<1>3. \A n \in Nat : a + 1 <= n /\ n <= c => depthAt(s, from, n) \in Int /\ depthAt(s, from, n) >= d + 1
  BY DEF Calm
<1>4. ASSUME NEW n \in Nat, a <= n, n <= c + 1 PROVE depthAt(s, from, n) \in Int /\ depthAt(s, from, n) >= d
  <2>1. n = a \/ n = c + 1 \/ (a + 1 <= n /\ n <= c)
    BY <1>0, <1>4
  <2>2. CASE n = a \/ n = c + 1
    BY <1>2, <2>2
  <2>3. CASE a + 1 <= n /\ n <= c
    BY <1>3, <2>3
  <2>. QED BY <2>1, <2>2, <2>3
<1>5. a <= c + 1 /\ c + 1 <= Len(s)
  BY <1>0
<1>. QED BY <1>0, <1>1, <1>4, <1>5 DEF Calm, Scan

\* What stands between the brace of an entry and the next, behind position b.
ObjectThere(s, b, v, y) ==
  /\ b \in Nat /\ y \in Nat /\ y = Len(valueText(v)) /\ b + y + 7 <= Len(s)
  /\ s[b + 1] = newline /\ s[b + 2] = quote /\ s[b + 3] = "value" /\ s[b + 4] = quote /\ s[b + 5] = ":"
  /\ At(s, b + 5, valueText(v)) /\ s[b + y + 6] = newline /\ Closes(s[b + y + 7])

\* What is inside an object leaves the count of braces as it was.
LEMMA ObjectCalm ==
  ASSUME NEW s, NEW from, NEW b, NEW d \in Int, NEW v, ValueFits(v), NEW y, ObjectThere(s, b, v, y),
         Scan(s, from, b, Quiet(d))
  PROVE  Calm(s, from, b, b + y + 6, d) /\ Scan(s, from, b + y + 6, Quiet(d))
<1>0. Len(s) \in Nat /\ b \in Nat /\ y \in Nat /\ y = Len(valueText(v)) /\ b + y + 7 <= Len(s)
  BY DEF Scan, ObjectThere
<1>1. Calm(s, from, b, b + 1, d) /\ Scan(s, from, b + 1, Quiet(d))
  <2>1. s[b + 1] \notin Special
    BY DEF ObjectThere, Special, newline, quote, backslash
  <2>2. b < Len(s)
    BY <1>0
  <2>. QED BY <2>1, <2>2, CalmPiece
<1>2. Calm(s, from, b + 1, b + 4, d) /\ Scan(s, from, b + 4, Quiet(d))
  <2>1. s[b + 2] = quote /\ s[b + 3] \notin {quote, backslash} /\ s[b + 4] = quote
    BY DEF ObjectThere, quote, backslash
  <2>2. (b + 1) + 1 = b + 2 /\ (b + 1) + 2 = b + 3 /\ (b + 1) + 3 = b + 4 /\ b + 4 <= Len(s)
    BY <1>0
  <2> DEFINE c == b + 1
  <2>3. Scan(s, from, c, Quiet(d)) /\ c + 3 <= Len(s) /\ s[c + 1] = quote /\ s[c + 2] \notin {quote, backslash}
        /\ s[c + 3] = quote
    BY <1>1, <2>1, <2>2
  <2> HIDE DEF c
  <2>4. Calm(s, from, c, c + 3, d) /\ Scan(s, from, c + 3, Quiet(d))
    BY <2>3, CalmWord
  <2>. QED BY <2>2, <2>4 DEF c
<1>3. Calm(s, from, b + 4, b + 5, d) /\ Scan(s, from, b + 5, Quiet(d))
  <2>1. s[b + 5] \notin Special
    BY DEF ObjectThere, Special, quote, backslash
  <2>2. (b + 4) + 1 = b + 5 /\ b + 4 < Len(s)
    BY <1>0
  <2> DEFINE c == b + 4
  <2>3. Scan(s, from, c, Quiet(d)) /\ c < Len(s) /\ s[c + 1] \notin Special
    BY <1>2, <2>1, <2>2
  <2> HIDE DEF c
  <2>4. Calm(s, from, c, c + 1, d) /\ Scan(s, from, c + 1, Quiet(d))
    BY <2>3, CalmPiece
  <2>. QED BY <2>2, <2>4 DEF c
<1>4. Calm(s, from, b + 5, b + 5 + y, d) /\ Scan(s, from, b + 5 + y, Quiet(d))
  <2>1. At(s, b + 5, valueText(v))
    BY DEF ObjectThere
  <2>. QED BY <1>0, <1>3, <2>1, ValueCalm
<1>5. Calm(s, from, b + 5 + y, b + y + 6, d) /\ Scan(s, from, b + y + 6, Quiet(d))
  <2>1. s[b + y + 6] \notin Special
    BY DEF ObjectThere, Special, newline, quote, backslash
  <2>2. (b + 5 + y) + 1 = b + y + 6 /\ b + 5 + y < Len(s)
    BY <1>0
  <2> DEFINE c == b + 5 + y
  <2>3. Scan(s, from, c, Quiet(d)) /\ c < Len(s) /\ s[c + 1] \notin Special
    BY <1>4, <2>1, <2>2
  <2> HIDE DEF c
  <2>4. Calm(s, from, c, c + 1, d) /\ Scan(s, from, c + 1, Quiet(d))
    BY <2>3, CalmPiece
  <2>. QED BY <2>2, <2>4 DEF c
<1>6. b + 1 \in Nat /\ b + 4 \in Nat /\ b + 5 \in Nat /\ b + 5 + y \in Nat /\ b + y + 6 \in Nat
  BY <1>0
<1>7. Calm(s, from, b, b + 4, d)
  BY <1>0, <1>1, <1>2, <1>6, CalmOn
<1>8. Calm(s, from, b, b + 5, d)
  BY <1>0, <1>7, <1>3, <1>6, CalmOn
<1>9. Calm(s, from, b, b + 5 + y, d)
  BY <1>0, <1>8, <1>4, <1>6, CalmOn
<1>10. Calm(s, from, b, b + y + 6, d)
  BY <1>0, <1>9, <1>5, <1>6, CalmOn
<1>. QED BY <1>5, <1>10

\* The brace of an object closes where the object ends.
LEMMA ObjectCloses ==
  ASSUME NEW s, Len(s) \in Nat, NEW b, NEW v, ValueFits(v), NEW y, ObjectThere(s, b, v, y)
  PROVE  closing(s, b + 1) = b + y + 7
<1> DEFINE from == b + 1
<1> DEFINE c == b + y + 6
<1>0. b \in Nat /\ y \in Nat /\ b + y + 7 <= Len(s) /\ Closes(s[b + y + 7])
  BY DEF ObjectThere
<1>1. Scan(s, from, b, Quiet(1))
  <2>1. b < from /\ from \in Nat /\ from >= 1 /\ b < Len(s) /\ b <= Len(s)
    BY <1>0
  <2>2. scanLoop(s, from)[b] = Quiet(1)
    BY <1>0, <2>1, ScanSteps
  <2>. QED BY <1>0, <2>1, <2>2 DEF Scan
<1>2. Calm(s, from, b, c, 1) /\ Scan(s, from, c, Quiet(1))
  BY <1>1, ObjectCalm
<1>3. Scan(s, from, c + 1, Quiet(0))
  <2>1. c < Len(s) /\ c + 1 = b + y + 7
    BY <1>0
  <2>2. Scan(s, from, c + 1, Scanned(Quiet(1), s[c + 1]))
    BY <1>2, <2>1, ScanOn
  <2>3. Scanned(Quiet(1), s[c + 1]) = Quiet(0)
    BY <1>0, <2>1, ScannedLast
  <2>. QED BY <2>2, <2>3
<1>4. \A n \in Nat : b <= n /\ n <= c => depthAt(s, from, n) \in Int /\ depthAt(s, from, n) >= 1
  BY <1>2 DEF Calm
<1>5. depthAt(s, from, c + 1) = 0
  BY <1>3, DepthIs DEF Scan, depthAt
<1>6. from \in Nat /\ c + 1 \in Nat /\ from <= c + 1 /\ c + 1 <= Len(s) /\ c + 1 = b + y + 7
  BY <1>0
<1>7. \A n \in Nat : from <= n /\ n < c + 1 => depthAt(s, from, n) # 0
  <2> TAKE n \in Nat
  <2>1. from <= n /\ n < c + 1 => b <= n /\ n <= c
    BY <1>0
  <2>. QED BY <1>4, <2>1
<1>. QED BY <1>5, <1>6, <1>7, ClosingIs

\* An entry has an object behind its key.
LEMMA EntryObject ==
  ASSUME NEW s, NEW a, NEW k, NEW v, EntryAt(s, a, k, v), NEW x, x = Len(escape(k)), NEW y, y = Len(valueText(v))
  PROVE  ObjectThere(s, a + x + 4, v, y) /\ Opens(s[a + x + 4])
<1> DEFINE b == a + x + 4
<1>1. /\ a \in Nat /\ x \in Nat /\ y \in Nat /\ a + x + y + 13 <= Len(s)
      /\ s[a + 1] = quote /\ At(s, a + 1, escape(k))
      /\ s[a + x + 2] = quote /\ s[a + x + 3] = ":" /\ s[a + x + 4] = "{" /\ s[a + x + 5] = newline
      /\ s[a + x + 6] = quote /\ s[a + x + 7] = "value" /\ s[a + x + 8] = quote /\ s[a + x + 9] = ":"
      /\ At(s, a + x + 9, valueText(v))
      /\ s[a + x + y + 10] = newline /\ s[a + x + y + 11] = "}"
      /\ s[a + x + y + 12] = "," /\ s[a + x + y + 13] = newline
  BY Zenon DEF EntryAt
<1>2. b \in Nat /\ y \in Nat /\ y = Len(valueText(v)) /\ b + y + 7 = a + x + y + 11
  <2>1. a \in Nat /\ x \in Nat /\ y \in Nat
    BY <1>1, Zenon
  <2>. QED BY <2>1
<1>3. b + y + 7 <= Len(s)
  <2>1. a \in Nat /\ x \in Nat /\ y \in Nat /\ a + x + y + 13 <= Len(s)
    BY <1>1, Zenon
  <2>. QED BY <2>1
<1>4. b + 1 = a + x + 5 /\ b + 2 = a + x + 6 /\ b + 3 = a + x + 7 /\ b + 4 = a + x + 8 /\ b + 5 = a + x + 9
      /\ b + y + 6 = a + x + y + 10 /\ b + y + 7 = a + x + y + 11
  <2>1. a \in Nat /\ x \in Nat /\ y \in Nat
    BY <1>1, Zenon
  <2>. QED BY <2>1
<1>5. Opens(s[b])
  BY <1>1, Zenon DEF Opens
<1> HIDE DEF b
<1>6. /\ s[b + 1] = newline /\ s[b + 2] = quote /\ s[b + 3] = "value" /\ s[b + 4] = quote /\ s[b + 5] = ":"
      /\ At(s, b + 5, valueText(v)) /\ s[b + y + 6] = newline /\ Closes(s[b + y + 7])
  BY <1>1, <1>4, Zenon DEF Closes
<1>7. ObjectThere(s, b, v, y)
  BY <1>2, <1>3, <1>6, Zenon DEF ObjectThere
<1>. QED BY <1>5, <1>7 DEF b

\* A whole entry leaves the count of braces as it was.
LEMMA EntryCalm ==
  ASSUME NEW s, NEW from, NEW a, NEW d \in Int, NEW k \in Seq(Piece), NEW v, ValueFits(v), EntryAt(s, a, k, v),
         NEW x, x = Len(escape(k)), NEW y, y = Len(valueText(v)), Scan(s, from, a, Quiet(d))
  PROVE  Calm(s, from, a, a + x + y + 13, d) /\ Scan(s, from, a + x + y + 13, Quiet(d))
<1>1. /\ a \in Nat /\ x \in Nat /\ y \in Nat /\ a + x + y + 13 <= Len(s)
      /\ s[a + 1] = quote /\ At(s, a + 1, escape(k)) /\ s[a + x + 2] = quote /\ s[a + x + 3] = ":"
      /\ s[a + x + y + 11] = "}" /\ s[a + x + y + 12] = "," /\ s[a + x + y + 13] = newline
  BY Zenon DEF EntryAt
<1>0. /\ a \in Nat /\ x \in Nat /\ y \in Nat /\ a + x + y + 13 <= Len(s) /\ Len(s) \in Nat
  BY <1>1, Zenon DEF Scan
<1>2. ObjectThere(s, a + x + 4, v, y) /\ Opens(s[a + x + 4])
  BY EntryObject
<1>3. Calm(s, from, a, a + x + 2, d) /\ Scan(s, from, a + x + 2, Quiet(d))
  <2>1. a + 1 + x < Len(s) /\ a + 1 + x + 1 = a + x + 2
    BY <1>0
  <2>2. At(s, a + 1, escape(k)) /\ s[a + 1] = quote /\ s[a + 1 + x + 1] = quote
    BY <1>1, <2>1
  <2>3. Calm(s, from, a, a + 1 + x + 1, d) /\ Scan(s, from, a + 1 + x + 1, Quiet(d))
    BY <2>1, <2>2, CalmString
  <2>. QED BY <2>1, <2>3
<1>4. Calm(s, from, a + x + 2, a + x + 3, d) /\ Scan(s, from, a + x + 3, Quiet(d))
  <2>1. s[a + x + 3] \notin Special
    BY <1>1 DEF Special, quote, backslash
  <2>2. (a + x + 2) + 1 = a + x + 3 /\ a + x + 2 < Len(s)
    BY <1>0
  <2> DEFINE c == a + x + 2
  <2>3. Scan(s, from, c, Quiet(d)) /\ c < Len(s) /\ s[c + 1] \notin Special
    BY <1>3, <2>1, <2>2
  <2> HIDE DEF c
  <2>4. Calm(s, from, c, c + 1, d) /\ Scan(s, from, c + 1, Quiet(d))
    BY <2>3, CalmPiece
  <2>. QED BY <2>2, <2>4 DEF c
<1>5. Calm(s, from, a + x + 3, a + x + y + 11, d) /\ Scan(s, from, a + x + y + 11, Quiet(d))
  <2> DEFINE c == a + x + 3
  <2> DEFINE b == c + 1
  <2> DEFINE e == b + y + 6
  <2>1. b = a + x + 4 /\ e + 1 = b + y + 7 /\ e + 1 = a + x + y + 11 /\ c < Len(s) /\ e < Len(s) /\ d + 1 \in Int
    BY <1>0
  <2>2. ObjectThere(s, b, v, y) /\ Opens(s[b]) /\ Scan(s, from, c, Quiet(d))
    BY <1>2, <1>4, <2>1
  <2> HIDE DEF c
  <2>3. Scan(s, from, b, Quiet(d + 1))
    <3>1. Scan(s, from, c + 1, Scanned(Quiet(d), s[c + 1]))
      BY <2>1, <2>2, ScanOn
    <3>2. Scanned(Quiet(d), s[c + 1]) = Quiet(d + 1)
      BY <2>2, ScannedBraces
    <3>. QED BY <3>1, <3>2
  <2>4. Calm(s, from, b, b + y + 6, d + 1) /\ Scan(s, from, b + y + 6, Quiet(d + 1))
    <3> HIDE DEF b
    <3>. QED BY <2>1, <2>2, <2>3, ObjectCalm
  <2>5. Closes(s[e + 1])
    BY <2>1, <2>2 DEF ObjectThere
  <2> HIDE DEF e
  <2>6. Calm(s, from, c, e + 1, d) /\ Scan(s, from, e + 1, Quiet(d))
    <3>1. Calm(s, from, c + 1, e, d + 1) /\ Scan(s, from, e, Quiet(d + 1)) /\ Opens(s[c + 1])
      BY <2>2, <2>4 DEF e
    <3>. QED BY <2>1, <2>2, <2>5, <3>1, CalmBraces
  <2>. QED BY <2>1, <2>6 DEF c
<1>6. Calm(s, from, a + x + y + 11, a + x + y + 12, d) /\ Scan(s, from, a + x + y + 12, Quiet(d))
  <2>1. s[a + x + y + 12] \notin Special
    BY <1>1 DEF Special, quote, backslash
  <2>2. (a + x + y + 11) + 1 = a + x + y + 12 /\ a + x + y + 11 < Len(s)
    BY <1>0
  <2> DEFINE c == a + x + y + 11
  <2>3. Scan(s, from, c, Quiet(d)) /\ c < Len(s) /\ s[c + 1] \notin Special
    BY <1>5, <2>1, <2>2
  <2> HIDE DEF c
  <2>4. Calm(s, from, c, c + 1, d) /\ Scan(s, from, c + 1, Quiet(d))
    BY <2>3, CalmPiece
  <2>. QED BY <2>2, <2>4 DEF c
<1>7. Calm(s, from, a + x + y + 12, a + x + y + 13, d) /\ Scan(s, from, a + x + y + 13, Quiet(d))
  <2>1. s[a + x + y + 13] \notin Special
    BY <1>1 DEF Special, quote, backslash, newline
  <2>2. (a + x + y + 12) + 1 = a + x + y + 13 /\ a + x + y + 12 < Len(s)
    BY <1>0
  <2> DEFINE c == a + x + y + 12
  <2>3. Scan(s, from, c, Quiet(d)) /\ c < Len(s) /\ s[c + 1] \notin Special
    BY <1>6, <2>1, <2>2
  <2> HIDE DEF c
  <2>4. Calm(s, from, c, c + 1, d) /\ Scan(s, from, c + 1, Quiet(d))
    BY <2>3, CalmPiece
  <2>. QED BY <2>2, <2>4 DEF c
<1>8. /\ a + x + 2 \in Nat /\ a + x + 3 \in Nat /\ a + x + y + 11 \in Nat /\ a + x + y + 12 \in Nat
      /\ a + x + y + 13 \in Nat
  BY <1>0
<1>9. Calm(s, from, a, a + x + 3, d)
  BY <1>0, <1>3, <1>4, <1>8, CalmOn
<1>10. Calm(s, from, a, a + x + y + 11, d)
  BY <1>0, <1>9, <1>5, <1>8, CalmOn
<1>11. Calm(s, from, a, a + x + y + 12, d)
  BY <1>0, <1>10, <1>6, <1>8, CalmOn
<1>12. Calm(s, from, a, a + x + y + 13, d)
  BY <1>0, <1>11, <1>7, <1>8, CalmOn
<1>. QED BY <1>7, <1>12

-----------------------------------------------------------------------------
(* Rounds of the parser.                                                   *)

Round(p, es, fl) == [pos |-> p, entries |-> es, flag |-> fl]

EntryRead(k, v) == <<KeyAsRead(k), Json(v)>>

\* The fields of a round.
LEMMA RoundHas ==
  ASSUME NEW p, NEW es, NEW fl
  PROVE  Round(p, es, fl).pos = p /\ Round(p, es, fl).entries = es /\ Round(p, es, fl).flag = fl
BY DEF Round

\* The searches of a round that reads an entry.
EntrySearch(s, p, start, end, colon, open, close) ==
  /\ find(s, quote, p) = start /\ find(s, quote, start + 1) = end /\ find(s, ":", end) = colon
  /\ find(s, "{", colon) = open /\ closing(s, open + 1) = close
  /\ start # 0 /\ end # 0 /\ colon # 0 /\ open # 0 /\ ~(close > Len(s))
  /\ ~IsFlag(SubSeq(s, start + 1, end - 1))

\* A round whose searches come out like this reads an entry.
LEMMA ParsedEntry ==
  ASSUME NEW s, NEW p, NEW es, NEW fl, NEW start, NEW end, NEW colon, NEW open, NEW close,
         EntrySearch(s, p, start, end, colon, open, close)
  PROVE  Parsed(s, Round(p, es, fl)) =
           Round(close + 1,
                 Longer(es, <<unescape(SubSeq(s, start + 1, end - 1)), objectValue(SubSeq(s, open, close))>>), fl)
<1> DEFINE e == <<unescape(SubSeq(s, start + 1, end - 1)), objectValue(SubSeq(s, open, close))>>
<1> DEFINE at == Round(p, es, fl)
<1>1. at.pos = p /\ at.entries = es /\ at.flag = fl
  BY RoundHas
<1>2. Parsed(s, at) = Round(close + 1, Longer(at.entries, e), at.flag)
  <2> HIDE DEF at
  <2>. QED BY <1>1, Zenon DEF Parsed, IsFlag, EntrySearch, Round, Longer
<1>. QED BY <1>1, <1>2, Zenon

\* The searches of a round that takes a key for the flag.
FlagSearch(s, p, start, end, colon, comma) ==
  /\ find(s, quote, p) = start /\ find(s, quote, start + 1) = end /\ find(s, ":", end) = colon
  /\ find(s, ",", colon) = comma /\ start # 0 /\ end # 0 /\ colon # 0
  /\ IsFlag(SubSeq(s, start + 1, end - 1))

\* A round whose searches come out like this reads the flag.
LEMMA ParsedFlag ==
  ASSUME NEW s, NEW p, NEW es, NEW fl, NEW start, NEW end, NEW colon, NEW comma,
         FlagSearch(s, p, start, end, colon, comma)
  PROVE  Parsed(s, Round(p, es, fl)) = Round(IF comma = 0 THEN Len(s) + 1 ELSE comma + 1, es, s[colon + 1])
<1> DEFINE c == s[colon + 1]
<1> DEFINE q == IF comma = 0 THEN Len(s) + 1 ELSE comma + 1
<1> DEFINE at == Round(p, es, fl)
<1>1. at.pos = p /\ at.entries = es
  BY RoundHas
<1>2. Parsed(s, at) = Round(q, at.entries, c)
  <2> HIDE DEF at
  <2>. QED BY <1>1, Zenon DEF Parsed, IsFlag, afterFlag, FlagSearch, Round
<1>. QED BY <1>1, <1>2, Zenon

\* The part of the text that is the object of an entry.
LEMMA ObjectPart ==
  ASSUME NEW s \in Seq(Piece), NEW c \in Nat, NEW v, NEW y, ObjectThere(s, c + 1, v, y), Opens(s[c + 1]), ValueFits(v)
  PROVE  ObjectOf(SubSeq(s, c + 1, (c + 1) + y + 7), valueText(v), y)
<1> DEFINE V == valueText(v)
<1> DEFINE q == (c + 1) + y + 7
<1> DEFINE o == SubSeq(s, c + 1, q)
<1>1. y \in Nat /\ y = Len(V) /\ q <= Len(s) /\ Len(s) \in Nat
  BY DEF ObjectThere
<1>2. q \in Nat /\ c <= q /\ q - c = y + 8
  BY <1>1
<1>3. o \in Seq(Piece) /\ Len(o) = y + 8 /\ \A i \in 1..(y + 8) : o[i] = s[c + i]
  <2> HIDE DEF q
  <2>1. o \in Seq(Piece) /\ Len(o) = q - c /\ \A i \in 1..(q - c) : o[i] = s[c + i]
    BY <1>1, <1>2, AtSubSeq
  <2>. QED BY <1>2, <2>1
<1> HIDE DEF o, V
<1>4. /\ o[1] = s[c + 1] /\ o[2] = s[(c + 1) + 1] /\ o[3] = s[(c + 1) + 2] /\ o[4] = s[(c + 1) + 3]
      /\ o[5] = s[(c + 1) + 4] /\ o[6] = s[(c + 1) + 5] /\ o[y + 7] = s[(c + 1) + y + 6]
  <2>1. /\ (c + 1) + 1 = c + 2 /\ (c + 1) + 2 = c + 3 /\ (c + 1) + 3 = c + 4
        /\ (c + 1) + 4 = c + 5 /\ (c + 1) + 5 = c + 6 /\ (c + 1) + y + 6 = c + (y + 7)
    BY <1>1
  <2>2. /\ 1 \in 1..(y + 8) /\ 2 \in 1..(y + 8) /\ 3 \in 1..(y + 8) /\ 4 \in 1..(y + 8) /\ 5 \in 1..(y + 8)
        /\ 6 \in 1..(y + 8) /\ y + 7 \in 1..(y + 8)
    BY <1>1
  <2>3. /\ o[1] = s[c + 1] /\ o[2] = s[c + 2] /\ o[3] = s[c + 3] /\ o[4] = s[c + 4]
        /\ o[5] = s[c + 5] /\ o[6] = s[c + 6] /\ o[y + 7] = s[c + (y + 7)]
    BY <1>3, <2>2, Zenon
  <2>. QED BY <2>1, <2>3
<1>5. At(o, 6, V)
  <2>1. \A i \in 1..y : s[((c + 1) + 5) + i] = V[i]
    BY <1>1 DEF ObjectThere, At, V
  <2>2. ASSUME NEW i \in 1..y PROVE o[6 + i] = V[i]
    <3>1. 6 + i \in 1..(y + 8) /\ c + (6 + i) = ((c + 1) + 5) + i
      BY <1>1
    <3>2. o[6 + i] = s[c + (6 + i)]
      BY <1>3, <3>1, Zenon
    <3>. QED BY <2>1, <3>1, <3>2
  <2>. QED BY <1>1, <1>3, <2>2 DEF At
<1>6. /\ s[(c + 1) + 1] = newline /\ s[(c + 1) + 2] = quote /\ s[(c + 1) + 3] = "value" /\ s[(c + 1) + 4] = quote
      /\ s[(c + 1) + 5] = ":" /\ s[(c + 1) + y + 6] = newline /\ s[c + 1] = "{"
  BY Zenon DEF ObjectThere, Opens
<1>7. V \in Seq(Piece) /\ \A i \in 1..y : V[i] # newline
  BY <1>1, ValueIs DEF V
<1>. QED BY <1>1, <1>3, <1>4, <1>5, <1>6, <1>7, Zenon DEF ObjectOf, o, V

\* An entry is there behind position a, and the scan, at p, comes to it next.
Comes(s, a, k, v, x, y, p) ==
  /\ s \in Seq(Piece) /\ EntryAt(s, a, k, v) /\ KeyFits(k) /\ ValueFits(v)
  /\ x = Len(escape(k)) /\ y = Len(valueText(v))
  /\ p \in Nat /\ 1 <= p /\ p <= a + 1 /\ \A l \in Nat : p <= l /\ l <= a => s[l] # quote

\* What the scan comes to.
LEMMA ComesIs ==
  ASSUME NEW s, NEW a, NEW k, NEW v, NEW x, NEW y, NEW p, Comes(s, a, k, v, x, y, p)
  PROVE  /\ a \in Nat /\ x \in Nat /\ y \in Nat /\ Len(s) \in Nat /\ a + x + y + 13 <= Len(s) /\ p \in Nat
         /\ KeyThere(s, a, k, x) /\ k \in Seq(Piece) /\ find(s, quote, p) = a + 1
         /\ ObjectThere(s, (a + x + 3) + 1, v, y) /\ Opens(s[(a + x + 3) + 1])
<1>1. /\ s \in Seq(Piece) /\ EntryAt(s, a, k, v) /\ KeyFits(k) /\ x = Len(escape(k)) /\ y = Len(valueText(v))
      /\ p \in Nat /\ 1 <= p /\ p <= a + 1 /\ \A l \in Nat : p <= l /\ l <= a => s[l] # quote
  BY Zenon DEF Comes
<1>2. /\ a \in Nat /\ x \in Nat /\ y \in Nat /\ a + x + y + 13 <= Len(s) /\ s[a + 1] = quote
      /\ At(s, a + 1, escape(k)) /\ s[a + x + 2] = quote /\ s[a + x + 3] = ":"
  BY <1>1, Zenon DEF EntryAt
<1>3. Len(s) \in Nat
  BY <1>1
<1>4. k \in Seq(Piece)
  BY <1>1, Zenon DEF KeyFits
<1>5. a + x + 4 <= Len(s) /\ a + 1 \in Nat /\ a + 1 <= Len(s) /\ (a + x + 3) + 1 = a + x + 4
  BY <1>2, <1>3
<1>6. KeyThere(s, a, k, x)
  BY <1>1, <1>2, <1>4, <1>5, Zenon DEF KeyThere
<1>7. find(s, quote, p) = a + 1
  <2>1. \A l \in Nat : p <= l /\ l < a + 1 => s[l] # quote
    <3>1. \A l \in Nat : l < a + 1 => l <= a
      BY <1>2
    <3>. QED BY <1>1, <3>1, Zenon
  <2>2. p \in Nat /\ p <= a + 1 /\ s[a + 1] = quote
    BY <1>1, <1>2, Zenon
  <2>. QED BY <1>3, <1>5, <2>1, <2>2, FindIs
<1>8. ObjectThere(s, a + x + 4, v, y) /\ Opens(s[a + x + 4])
  BY <1>1, EntryObject
<1>. QED BY <1>1, <1>2, <1>3, <1>4, <1>5, <1>6, <1>7, <1>8

\* One round reads one entry.
LEMMA EntryRound ==
  ASSUME NEW s, NEW a, NEW k, NEW v, NEW x, NEW y, NEW p, Comes(s, a, k, v, x, y, p), ~IsFlag(k), NEW es, NEW fl
  PROVE  Parsed(s, Round(p, es, fl)) = Round(a + x + y + 12, Longer(es, EntryRead(k, v)), fl)
<1> DEFINE open == (a + x + 3) + 1
<1> DEFINE close == open + y + 7
<1>1. /\ a \in Nat /\ x \in Nat /\ y \in Nat /\ Len(s) \in Nat /\ a + x + y + 13 <= Len(s) /\ p \in Nat
      /\ KeyThere(s, a, k, x) /\ k \in Seq(Piece) /\ find(s, quote, p) = a + 1
      /\ ObjectThere(s, open, v, y) /\ Opens(s[open])
  BY ComesIs
<1>2. s \in Seq(Piece) /\ KeyFits(k) /\ ValueFits(v)
  BY DEF Comes
<1>3. PICK end : KeyEnd(s, a, k, x, end)
  BY <1>1, <1>2, KeyEndIs
<1>4. /\ end \in Nat /\ a + 2 <= end /\ end <= a + x + 2 /\ find(s, quote, a + 2) = end
      /\ unescape(SubSeq(s, a + 2, end - 1)) = KeyAsRead(k) /\ ~IsFlag(SubSeq(s, a + 2, end - 1))
  BY <1>3, Zenon DEF KeyEnd, IsFlag
<1>0. /\ a \in Nat /\ x \in Nat /\ y \in Nat /\ Len(s) \in Nat /\ a + x + y + 13 <= Len(s)
      /\ end \in Nat /\ a + 2 <= end /\ end <= a + x + 2
  BY <1>1, <1>4, Zenon
<1> DEFINE colon == find(s, ":", end)
<1>5. colon \in Nat /\ end <= colon /\ colon <= a + x + 3
  <2>1. s[a + x + 3] = ":"
    BY <1>1, Zenon DEF KeyThere
  <2>2. a + x + 3 \in Nat /\ end <= a + x + 3 /\ a + x + 3 <= Len(s)
    BY <1>0
  <2>. QED BY <1>0, <2>1, <2>2, FindFirst
<1> HIDE DEF colon
<1>6. open = a + x + 4 /\ open \in Nat /\ open <= Len(s) /\ close = a + x + y + 11 /\ close + 1 = a + x + y + 12
  BY <1>0
<1>7. find(s, "{", colon) = open
  <2>1. colon <= open
    BY <1>0, <1>5, <1>6
  <2>2. \A l \in Nat : colon <= l /\ l < open => s[l] # "{"
    <3>1. \A l \in Nat : colon <= l /\ l < open => end <= l /\ l < a + x + 4
      BY <1>0, <1>5, <1>6
    <3>. QED BY <1>3, <3>1, Zenon DEF KeyEnd
  <2>3. s[open] = "{"
    BY <1>1, Zenon DEF Opens
  <2> DEFINE c == "{"
  <2>4. s[open] = c /\ \A l \in Nat : colon <= l /\ l < open => s[l] # c
    BY <2>2, <2>3, Zenon
  <2> HIDE DEF open, c
  <2>5. find(s, c, colon) = open
    BY <1>0, <1>5, <1>6, <2>1, <2>4, FindIs
  <2>. QED BY <2>5 DEF c
<1>8. closing(s, open + 1) = close
  <2> HIDE DEF open
  <2>. QED BY <1>1, <1>2, ObjectCloses
<1>9. objectValue(SubSeq(s, open, close)) = Json(v)
  <2> DEFINE c == a + x + 3
  <2>1. c \in Nat
    BY <1>1
  <2> HIDE DEF c
  <2>2. ObjectThere(s, c + 1, v, y) /\ Opens(s[c + 1])
    BY <1>1 DEF c
  <2>3. ObjectOf(SubSeq(s, c + 1, (c + 1) + y + 7), valueText(v), y)
    BY <1>2, <2>1, <2>2, ObjectPart
  <2>4. objectValue(SubSeq(s, c + 1, (c + 1) + y + 7)) = Json(v)
    BY <1>2, <2>3, ObjectIs
  <2>. QED BY <2>4 DEF c
<1>10. a + 1 # 0 /\ end # 0 /\ colon # 0 /\ open # 0 /\ ~(close > Len(s)) /\ (a + 1) + 1 = a + 2
  BY <1>0, <1>5, <1>6
<1> HIDE DEF open, close
<1>11. Parsed(s, Round(p, es, fl)) =
         Round(close + 1,
               Longer(es, <<unescape(SubSeq(s, (a + 1) + 1, end - 1)), objectValue(SubSeq(s, open, close))>>), fl)
  <2> DEFINE start == a + 1
  <2>1. EntrySearch(s, p, start, end, colon, open, close)
    BY <1>1, <1>4, <1>7, <1>8, <1>10, Zenon DEF colon, EntrySearch
  <2> HIDE DEF start
  <2>2. Parsed(s, Round(p, es, fl)) =
         Round(close + 1,
               Longer(es, <<unescape(SubSeq(s, start + 1, end - 1)), objectValue(SubSeq(s, open, close))>>), fl)
    BY <2>1, ParsedEntry
  <2>. QED BY <2>2 DEF start
<1>. QED BY <1>4, <1>6, <1>9, <1>10, <1>11 DEF EntryRead

\* The positions of an object, from the colon before it on.
LEMMA ObjectPositions ==
  ASSUME NEW c \in Nat, NEW y \in Nat, NEW l \in Nat, c <= l, l < c + y + 9
  PROVE  \/ l = c \/ l = c + 1 \/ l = (c + 1) + 1 \/ l = (c + 1) + 2 \/ l = (c + 1) + 3 \/ l = (c + 1) + 4
         \/ l = (c + 1) + 5 \/ l - (c + 6) \in 1..y \/ l = (c + 1) + y + 6 \/ l = (c + 1) + y + 7
OBVIOUS

\* An object whose value has no comma has none.
LEMMA ObjectNoComma ==
  ASSUME NEW s, NEW c \in Nat, s[c] = ":", NEW v, NEW y, ObjectThere(s, c + 1, v, y), Opens(s[c + 1]),
         NoComma(valueText(v)), NEW l \in Nat, c <= l, l < c + y + 9
  PROVE  s[l] # ","
<1> DEFINE V == valueText(v)
<1>1. y \in Nat /\ y = Len(V)
  BY DEF ObjectThere
<1>2. \/ l = c \/ l = c + 1 \/ l = (c + 1) + 1 \/ l = (c + 1) + 2 \/ l = (c + 1) + 3 \/ l = (c + 1) + 4
      \/ l = (c + 1) + 5 \/ l - (c + 6) \in 1..y \/ l = (c + 1) + y + 6 \/ l = (c + 1) + y + 7
  BY <1>1, ObjectPositions
<1>3. CASE l - (c + 6) \in 1..y
  <2>1. ((c + 1) + 5) + (l - (c + 6)) = l
    OBVIOUS
  <2>2. \A i \in 1..y : s[((c + 1) + 5) + i] = V[i]
    BY <1>1 DEF ObjectThere, At
  <2>3. \A i \in 1..y : V[i] # ","
    BY <1>1, Zenon DEF NoComma
  <2>4. s[((c + 1) + 5) + (l - (c + 6))] # ","
    BY <1>3, <2>2, <2>3, Zenon
  <2>. QED BY <2>1, <2>4
<1>4. /\ s[(c + 1) + 1] = newline /\ s[(c + 1) + 2] = quote /\ s[(c + 1) + 3] = "value" /\ s[(c + 1) + 4] = quote
      /\ s[(c + 1) + 5] = ":" /\ s[(c + 1) + y + 6] = newline /\ s[(c + 1) + y + 7] = "}" /\ s[c + 1] = "{"
  BY Zenon DEF ObjectThere, Opens, Closes
<1>5. newline # "," /\ quote # "," /\ "value" # "," /\ ":" # "," /\ "}" # "," /\ "{" # ","
  BY DEF newline, quote
<1>. QED BY <1>2, <1>3, <1>4, <1>5, Zenon

\* An entry whose key is taken for the flag leaves no entry.
LEMMA FlagEntryRound ==
  ASSUME NEW s, NEW a, NEW k, NEW v, NEW x, NEW y, NEW p, Comes(s, a, k, v, x, y, p), IsFlag(k),
         NoComma(valueText(v)), NEW es, NEW fl
  PROVE  Parsed(s, Round(p, es, fl)) = Round(a + x + y + 13, es, s[a + x + 4])
<1> DEFINE c == a + x + 3
<1> DEFINE end == a + x + 2
<1> DEFINE comma == a + x + y + 12
<1>1. /\ a \in Nat /\ x \in Nat /\ y \in Nat /\ Len(s) \in Nat /\ a + x + y + 13 <= Len(s) /\ p \in Nat
      /\ KeyThere(s, a, k, x) /\ k \in Seq(Piece) /\ find(s, quote, p) = a + 1
      /\ ObjectThere(s, c + 1, v, y) /\ Opens(s[c + 1])
  BY ComesIs
<1>0. a \in Nat /\ x \in Nat /\ y \in Nat /\ Len(s) \in Nat /\ a + x + y + 13 <= Len(s)
  BY <1>1, Zenon
<1>2. KeyEnd(s, a, k, x, end)
  <2>1. \A i \in 1..Len(k) : k[i] # quote
    <3>1. quote # "autosave"
      BY DEF quote
    <3>2. Len(k) = 1 /\ k[1] = "autosave"
      BY EscapeAutosave, Zenon DEF IsFlag
    <3>3. \A i \in 1..1 : i = 1
      OBVIOUS
    <3>. QED BY <3>1, <3>2, <3>3, Zenon
  <2>. QED BY <1>1, <2>1, PlainKey
<1>3. find(s, quote, a + 2) = end /\ IsFlag(SubSeq(s, a + 2, end - 1))
  BY <1>2, Zenon DEF KeyEnd, IsFlag
<1>4. s[end] = quote /\ s[c] = ":"
  BY <1>1, Zenon DEF KeyThere
<1>5. find(s, ":", end) = c
  <2> DEFINE d == ":"
  <2>1. \A l \in Nat : end <= l /\ l < c => s[l] # d
    <3>1. \A l \in Nat : end <= l /\ l < c => l = end
      BY <1>0
    <3>2. quote # ":"
      BY DEF quote
    <3>. QED BY <1>4, <3>1, <3>2, Zenon
  <2>2. s[c] = d /\ end \in Nat /\ c \in Nat /\ end <= c /\ c <= Len(s)
    BY <1>0, <1>4
  <2> HIDE DEF d, c, end
  <2>3. find(s, d, end) = c
    BY <1>0, <2>1, <2>2, FindIs
  <2>. QED BY <2>3 DEF d
<1>6. find(s, ",", c) = comma
  <2> DEFINE d == ","
  <2>1. \A l \in Nat : c <= l /\ l < comma => s[l] # d
    <3>1. c \in Nat /\ comma = c + y + 9
      BY <1>0
    <3> HIDE DEF c
    <3>. QED BY <1>1, <1>4, <3>1, ObjectNoComma
  <2>2. c \in Nat /\ comma \in Nat /\ c <= comma /\ comma <= Len(s)
    BY <1>0
  <2>3. s[comma] = d
    <3>1. EntryAt(s, a, k, v) /\ x = Len(escape(k)) /\ y = Len(valueText(v))
      BY DEF Comes
    <3>. QED BY <3>1, Zenon DEF EntryAt
  <2> HIDE DEF d, c, comma
  <2>4. find(s, d, c) = comma
    BY <1>0, <2>1, <2>2, <2>3, FindIs
  <2>. QED BY <2>4 DEF d
<1>7. a + 1 # 0 /\ end # 0 /\ c # 0 /\ comma # 0 /\ (a + 1) + 1 = a + 2 /\ comma + 1 = a + x + y + 13 /\ c + 1 = a + x + 4
  BY <1>0
<1> DEFINE start == a + 1
<1>8. FlagSearch(s, p, start, end, c, comma)
  <2>1. find(s, quote, p) = start /\ start + 1 = a + 2 /\ start # 0
    BY <1>1, <1>7
  <2> HIDE DEF start, end, c, comma
  <2>. QED BY <1>3, <1>5, <1>6, <1>7, <2>1, Zenon DEF FlagSearch
<1> HIDE DEF start, end, c, comma
<1>9. Parsed(s, Round(p, es, fl)) = Round(IF comma = 0 THEN Len(s) + 1 ELSE comma + 1, es, s[c + 1])
  BY <1>8, ParsedFlag
<1>. QED BY <1>7, <1>9

\* The end of the section: the flag.
TailAt(s, a, flag) ==
  /\ a \in Nat /\ Len(s) = a + 8 /\ flag \in {"true", "false"}
  /\ s[a + 1] = quote /\ s[a + 2] = "autosave" /\ s[a + 3] = quote /\ s[a + 4] = ":" /\ s[a + 5] = flag
  /\ s[a + 6] = newline /\ s[a + 7] = "}" /\ s[a + 8] = newline

\* The last round reads the flag.
LEMMA TailRound ==
  ASSUME NEW s \in Seq(Piece), NEW a, NEW flag, TailAt(s, a, flag), NEW p \in Nat, 1 <= p, p <= a + 1,
         \A l \in Nat : p <= l /\ l <= a => s[l] # quote, NEW es, NEW fl
  PROVE  Parsed(s, Round(p, es, fl)) = Round(Len(s) + 1, es, flag)
<1>1. a \in Nat /\ Len(s) = a + 8
  BY DEF TailAt
<1>2. /\ s[a + 1] = quote /\ s[a + 2] = "autosave" /\ s[a + 3] = quote /\ s[a + 4] = ":" /\ s[a + 5] = flag
      /\ s[a + 6] = newline /\ s[a + 7] = "}" /\ s[a + 8] = newline /\ flag \in {"true", "false"}
  BY Zenon DEF TailAt
<1>3. Len(s) \in Nat /\ a + 1 \in Nat /\ a + 1 <= Len(s) /\ a + 2 \in Nat /\ a + 3 \in Nat /\ a + 4 \in Nat
      /\ a + 2 <= a + 3 /\ a + 3 <= a + 4 /\ a + 3 <= Len(s) /\ a + 4 <= Len(s)
  BY <1>1
<1>4. find(s, quote, p) = a + 1
  <2>1. \A l \in Nat : p <= l /\ l < a + 1 => s[l] # quote
    BY <1>1
  <2>2. s[a + 1] = quote
    BY <1>2, Zenon
  <2>. QED BY <1>3, <2>1, <2>2, FindIs
<1>5. find(s, quote, a + 2) = a + 3
  <2>1. s[a + 2] # quote /\ s[a + 3] = quote
    BY <1>2 DEF quote
  <2>2. \A l \in Nat : a + 2 <= l /\ l < a + 3 => l = a + 2
    BY <1>1
  <2>3. \A l \in Nat : a + 2 <= l /\ l < a + 3 => s[l] # quote
    BY <2>1, <2>2
  <2>. QED BY <1>3, <2>1, <2>3, FindIs
<1>6. find(s, ":", a + 3) = a + 4
  <2> DEFINE d == ":"
  <2>1. s[a + 3] # d /\ s[a + 4] = d
    BY <1>2 DEF quote
  <2>2. \A l \in Nat : a + 3 <= l /\ l < a + 4 => l = a + 3
    BY <1>1
  <2> HIDE DEF d
  <2>3. \A l \in Nat : a + 3 <= l /\ l < a + 4 => s[l] # d
    BY <2>1, <2>2
  <2>4. find(s, d, a + 3) = a + 4
    BY <1>3, <2>1, <2>3, FindIs
  <2>. QED BY <2>4 DEF d
<1>7. find(s, ",", a + 4) = 0
  <2> DEFINE d == ","
  <2>1. s[a + 4] # d /\ s[a + 5] # d /\ s[a + 6] # d /\ s[a + 7] # d /\ s[a + 8] # d
    BY <1>2 DEF newline
  <2>2. \A l \in Nat : a + 4 <= l /\ l <= Len(s) => l = a + 4 \/ l = a + 5 \/ l = a + 6 \/ l = a + 7 \/ l = a + 8
    BY <1>1
  <2> HIDE DEF d
  <2>3. \A l \in Nat : a + 4 <= l /\ l <= Len(s) => s[l] # d
    BY <2>1, <2>2, Zenon
  <2>4. find(s, d, a + 4) = 0
    BY <1>3, <2>3, FindNone
  <2>. QED BY <2>4 DEF d
<1>8. IsFlag(SubSeq(s, a + 2, (a + 3) - 1))
  <2> DEFINE r == SubSeq(s, (a + 1) + 1, a + 2)
  <2>1. /\ r \in Seq(Piece) /\ Len(r) = (a + 2) - (a + 1)
        /\ \A i \in 1..((a + 2) - (a + 1)) : r[i] = s[(a + 1) + i]
    <3>1. a + 1 \in Nat /\ a + 2 \in Nat /\ a + 1 <= a + 2 /\ a + 2 <= Len(s)
      BY <1>1
    <3>. QED BY <3>1, AtSubSeq
  <2> HIDE DEF r
  <2>2. (a + 2) - (a + 1) = 1 /\ (a + 1) + 1 = a + 2 /\ (a + 3) - 1 = a + 2
    BY <1>1
  <2>3. Len(r) = 1 /\ r[1] = s[a + 2]
    BY <2>1, <2>2
  <2>4. r = <<r[1]>>
    BY <2>1, <2>3, OneIs
  <2>5. SubSeq(s, a + 2, (a + 3) - 1) = r
    BY <2>2 DEF r
  <2>. QED BY <1>2, <2>3, <2>4, <2>5, Zenon DEF IsFlag
<1>9. FlagSearch(s, p, a + 1, a + 3, a + 4, 0)
  <2>1. (a + 1) + 1 = a + 2 /\ a + 1 # 0 /\ a + 3 # 0 /\ a + 4 # 0
    BY <1>1
  <2>. QED BY <1>4, <1>5, <1>6, <1>7, <1>8, <2>1 DEF FlagSearch
<1>10. Parsed(s, Round(p, es, fl)) = Round(IF 0 = 0 THEN Len(s) + 1 ELSE 0 + 1, es, s[(a + 4) + 1])
  BY <1>9, ParsedFlag
<1>11. (a + 4) + 1 = a + 5
  BY <1>1
<1>. QED BY <1>2, <1>10, <1>11, Zenon

-----------------------------------------------------------------------------
\* The loop of parseLoop is what it says it is.
LEMMA ParseLoopDef ==
  ASSUME NEW s, Len(s) \in Nat
  PROVE  parseLoop(s) =
           [n \in 0..Len(s) |-> IF n = 0 THEN Round(1, <<>>, "missing")
                                ELSE IF parseLoop(s)[n - 1].pos > Len(s) THEN parseLoop(s)[n - 1]
                                     ELSE Parsed(s, parseLoop(s)[n - 1])]
<1> DEFINE Step(last) == IF last.pos > Len(s) THEN last ELSE Parsed(s, last)
<1> DEFINE Start == Round(1, <<>>, "missing")
<1> DEFINE Body(g, n) == IF n = 0 THEN Start ELSE Step(g[n - 1])
<1> DEFINE M == {m \in Nat : \E g : g = [n \in 0..m |-> Body(g, n)]}
<1> HIDE DEF Start, Step
<1>1. 0 \in M
  <2>1. [n \in 0..0 |-> Start] = [n \in 0..0 |-> Body([i \in 0..0 |-> Start], n)]
    OBVIOUS
  <2>. QED BY <2>1
<1>2. ASSUME NEW m \in Nat, m \in M PROVE m + 1 \in M
  <2>1. PICK g : g = [n \in 0..m |-> Body(g, n)]
    BY <1>2
  <2> DEFINE h == [n \in 0..(m + 1) |-> IF n <= m THEN g[n] ELSE Body(g, n)]
  <2>2. h = [n \in 0..(m + 1) |-> Body(h, n)]
    BY <2>1
  <2> HIDE DEF h
  <2>. QED BY <2>2
<1>3. \A m \in Nat : m \in M
  <2> HIDE DEF M
  <2>. QED BY <1>1, <1>2, NatInd
<1>4. \E g : g = [n \in 0..Len(s) |-> Body(g, n)]
  BY <1>3
<1>5. parseLoop(s) = CHOOSE g : g = [n \in 0..Len(s) |-> Body(g, n)]
  BY DEF parseLoop, Start, Step, Round
<1>6. parseLoop(s) = [n \in 0..Len(s) |-> Body(parseLoop(s), n)]
  BY <1>4, <1>5
<1>. QED BY <1>6 DEF Start, Step

\* What one round of the loop does.
LEMMA ParseSteps ==
  ASSUME NEW s, Len(s) \in Nat
  PROVE  /\ parseLoop(s)[0] = Round(1, <<>>, "missing")
         /\ \A n \in Nat : n < Len(s) =>
              parseLoop(s)[n + 1] = IF parseLoop(s)[n].pos > Len(s) THEN parseLoop(s)[n]
                                    ELSE Parsed(s, parseLoop(s)[n])
<1> DEFINE Step(last) == IF last.pos > Len(s) THEN last ELSE Parsed(s, last)
<1> DEFINE Start == Round(1, <<>>, "missing")
<1>1. parseLoop(s) = [n \in 0..Len(s) |-> IF n = 0 THEN Start ELSE Step(parseLoop(s)[n - 1])]
  BY ParseLoopDef
<1> HIDE DEF Start, Step
<1>2. parseLoop(s)[0] = Start
  BY <1>1
<1>3. ASSUME NEW n \in Nat, n < Len(s)
      PROVE  parseLoop(s)[n + 1] = Step(parseLoop(s)[n])
  <2>1. n + 1 \in 0..Len(s) /\ n + 1 # 0 /\ (n + 1) - 1 = n
    BY <1>3
  <2>. QED BY <1>1, <2>1
<1>. QED BY <1>2, <1>3 DEF Start, Step

\* Past the end the loop does nothing more.
LEMMA ParseRest ==
  ASSUME NEW s, Len(s) \in Nat, NEW m \in Nat, m <= Len(s), parseLoop(s)[m].pos > Len(s)
  PROVE  parseLoop(s)[Len(s)] = parseLoop(s)[m]
<1> DEFINE at == parseLoop(s)
<1> DEFINE N == Len(s)
<1> DEFINE M == {d \in Nat : m + d <= N => at[m + d] = at[m]}
<1>1. ASSUME NEW d \in Nat, d \in M PROVE d + 1 \in M
  <2> SUFFICES ASSUME m + (d + 1) <= N PROVE at[m + (d + 1)] = at[m]
    OBVIOUS
  <2>1. m + d \in Nat /\ m + d < N /\ m + d <= N /\ (m + d) + 1 = m + (d + 1)
    OBVIOUS
  <2>2. at[m + d] = at[m]
    BY <1>1, <2>1
  <2>3. at[(m + d) + 1] = IF at[m + d].pos > N THEN at[m + d] ELSE Parsed(s, at[m + d])
    <3> DEFINE n == m + d
    <3>1. n \in Nat /\ n < Len(s)
      BY <2>1
    <3> HIDE DEF n
    <3>2. at[n + 1] = IF at[n].pos > N THEN at[n] ELSE Parsed(s, at[n])
      BY <3>1, ParseSteps
    <3>. QED BY <3>2 DEF n
  <2> HIDE DEF at
  <2>4. at[m].pos > N
    BY DEF at
  <2>. QED BY <2>1, <2>2, <2>3, <2>4
<1>2. 0 \in M
  <2>1. m + 0 = m
    OBVIOUS
  <2>. QED BY <2>1
<1>3. \A d \in Nat : d \in M
  <2> HIDE DEF M
  <2>. QED BY <1>1, <1>2, NatInd
<1>4. N - m \in Nat /\ m + (N - m) = N /\ N <= N
  OBVIOUS
<1> HIDE DEF at, N
<1>5. at[m + (N - m)] = at[m]
  BY <1>3, <1>4
<1>. QED BY <1>4, <1>5 DEF at, N

-----------------------------------------------------------------------------
(* The section of a store.                                                 *)

texts(E) == [i \in DOMAIN E |-> entryText(E[i][1], E[i][2])]

\* A function on 1..N is as long as N.
LEMMA FunctionText ==
  ASSUME NEW T, NEW N \in Nat, NEW f \in [1..N -> T]
  PROVE  Len(f) = N
OBVIOUS

\* How long an entry is.
LEMMA EntryTextType ==
  ASSUME NEW k \in Seq(Piece), NEW v, ValueFits(v)
  PROVE  /\ entryText(k, v) \in Seq(Piece)
         /\ Len(entryText(k, v)) = Len(escape(k)) + Len(valueText(v)) + 13
         /\ Len(entryText(k, v)) \in Nat /\ Len(entryText(k, v)) >= 1
<1> DEFINE s == entryText(k, v)
<1>1. escape(k) \in Seq(Piece) /\ valueText(v) \in Seq(Piece)
  BY EscapeAt, ValueIs
<1>2. s \in Seq(Piece)
  <2>1. ASSUME NEW T, NEW u1 \in Seq(T), NEW u2 \in Seq(T), NEW u3 \in Seq(T), NEW u4 \in Seq(T), NEW u5 \in Seq(T)
        PROVE  (((u1 \o u2) \o u3) \o u4) \o u5 \in Seq(T)
    OBVIOUS
  <2> DEFINE P1 == <<quote>>
  <2> DEFINE P3 == <<quote, ":", "{", newline, quote, "value", quote, ":">>
  <2> DEFINE P5 == <<newline, "}", ",", newline>>
  <2>2. s = (((P1 \o escape(k)) \o P3) \o valueText(v)) \o P5
    BY DEF entryText
  <2>3. P1 \in Seq(Piece) /\ P3 \in Seq(Piece) /\ P5 \in Seq(Piece)
    BY EntryFrame
  <2> HIDE DEF P1, P3, P5, s
  <2>4. (((P1 \o escape(k)) \o P3) \o valueText(v)) \o P5 \in Seq(Piece)
    BY <1>1, <2>1, <2>3
  <2>. QED BY <2>2, <2>4
<1> HIDE DEF s
<1>3. Len(s) \in Nat /\ At(s, 0, s)
  BY <1>2 DEF At
<1>4. Len(s) = Len(escape(k)) + Len(valueText(v)) + 13
  <2>1. 0 \in Nat /\ At(s, 0, entryText(k, v)) /\ valueText(v) \in Seq(Piece)
    BY <1>1, <1>3 DEF s
  <2>2. Len(entryText(k, v)) = Len(escape(k)) + Len(valueText(v)) + 13
    BY <1>3, <2>1, EntryPieces
  <2>. QED BY <2>2 DEF s
<1>5. Len(s) >= 1
  <2>1. Len(escape(k)) \in Nat /\ Len(valueText(v)) \in Nat
    BY <1>1
  <2>. QED BY <1>4, <2>1
<1>. QED BY <1>2, <1>3, <1>4, <1>5 DEF s

\* The texts of the entries.
LEMMA TextsAre ==
  ASSUME NEW E, EntriesFit(E)
  PROVE  /\ IsTexts(texts(E), Piece) /\ Len(texts(E)) = Len(E)
         /\ \A i \in 1..Len(E) : texts(E)[i] = entryText(E[i][1], E[i][2]) /\ Len(texts(E)[i]) >= 1
<1>1. Len(E) \in Nat /\ DOMAIN E = 1..Len(E)
  BY DEF EntriesFit
<1>2. ASSUME NEW i \in 1..Len(E)
      PROVE  entryText(E[i][1], E[i][2]) \in Seq(Piece) /\ Len(entryText(E[i][1], E[i][2])) >= 1
  <2>1. E[i][1] \in Seq(Piece) /\ ValueFits(E[i][2])
    BY Zenon DEF EntriesFit, KeyFits
  <2>. QED BY <2>1, EntryTextType
<1>3. texts(E) = [i \in 1..Len(E) |-> entryText(E[i][1], E[i][2])]
  BY <1>1 DEF texts
<1>4. \A i \in 1..Len(E) : texts(E)[i] = entryText(E[i][1], E[i][2])
  BY <1>3
<1>5. texts(E) \in [1..Len(E) -> Seq(Piece)]
  BY <1>2, <1>3
<1>6. Len(texts(E)) = Len(E)
  BY <1>1, <1>5, FunctionText
<1>7. \A i \in 1..Len(E) : texts(E)[i] \in Seq(Piece) /\ Len(texts(E)[i]) >= 1
  BY <1>2, <1>4
<1>. QED BY <1>1, <1>4, <1>6, <1>7 DEF IsTexts

FoundIn(E) == {EntryRead(E[i][1], E[i][2]) : i \in 1..Len(E)}

\* What is found of the entries.
LEMMA ReadsAre ==
  ASSUME NEW E, EntriesFit(E)
  PROVE  /\ IsTexts(reads(E), FoundIn(E)) /\ Len(reads(E)) = Len(E)
         /\ \A i \in 1..Len(E) : reads(E)[i] = Reads(E[i][1], E[i][2])
<1>1. Len(E) \in Nat /\ DOMAIN E = 1..Len(E)
  BY DEF EntriesFit
<1>2. ASSUME NEW i \in 1..Len(E) PROVE Reads(E[i][1], E[i][2]) \in Seq(FoundIn(E))
  <2> DEFINE e == EntryRead(E[i][1], E[i][2])
  <2>1. e \in FoundIn(E)
    BY DEF FoundIn
  <2> HIDE DEF e
  <2>2. <<e>> \in Seq(FoundIn(E)) /\ <<>> \in Seq(FoundIn(E))
    BY <2>1
  <2>. QED BY <2>2 DEF Reads, e, EntryRead
<1>3. reads(E) = [i \in 1..Len(E) |-> Reads(E[i][1], E[i][2])]
  BY <1>1 DEF reads
<1>4. \A i \in 1..Len(E) : reads(E)[i] = Reads(E[i][1], E[i][2])
  BY <1>3
<1>5. reads(E) \in [1..Len(E) -> Seq(FoundIn(E))]
  BY <1>2, <1>3
<1>6. Len(reads(E)) = Len(E)
  BY <1>1, <1>5, FunctionText
<1>. QED BY <1>1, <1>2, <1>4, <1>6 DEF IsTexts

\* The n entries before have been read: where that is in the text.
entriesEnd(E, n) == Len(joinLoop(texts(E))[n])

\* How long the first entries are.
LEMMA EntriesEndIs ==
  ASSUME NEW E, EntriesFit(E)
  PROVE  /\ Len(E) \in Nat /\ entriesEnd(E, 0) = 0
         /\ entriesEnd(E, Len(E)) = Len(Join(texts(E))) /\ Len(E) <= entriesEnd(E, Len(E))
         /\ \A n \in Nat : n <= Len(E) => entriesEnd(E, n) \in Nat
<1>1. IsTexts(texts(E), Piece) /\ Len(texts(E)) = Len(E) /\ \A i \in 1..Len(E) : Len(texts(E)[i]) >= 1
  BY TextsAre
<1>2. Len(E) \in Nat
  BY DEF EntriesFit
<1>3. entriesEnd(E, 0) = 0 /\ \A n \in Nat : n <= Len(E) => entriesEnd(E, n) \in Nat
  BY <1>1, JoinLengths DEF entriesEnd
<1>4. entriesEnd(E, Len(E)) = Len(Join(texts(E)))
  BY <1>1 DEF entriesEnd, Join
<1>5. Len(E) <= entriesEnd(E, Len(E))
  <2>1. \A i \in 1..Len(texts(E)) : Len(texts(E)[i]) >= 1
    BY <1>1
  <2>2. Len(E) <= Len(texts(E))
    BY <1>1, <1>2
  <2>3. Len(joinLoop(texts(E))[Len(E)]) >= Len(E)
    BY <1>1, <1>2, <2>1, <2>2, JoinLong
  <2>4. entriesEnd(E, Len(E)) \in Nat
    BY <1>2, <1>3
  <2>. QED BY <1>2, <2>3, <2>4 DEF entriesEnd
<1>. QED BY <1>2, <1>3, <1>4, <1>5

\* The next entry stands where those before it end.
LEMMA NextEntry ==
  ASSUME NEW E, EntriesFit(E), NEW n \in Nat, n < Len(E), NEW s, Len(s) \in Nat, NEW c \in Nat,
         At(s, c, Join(texts(E))), NEW k, k = E[n + 1][1], NEW v, v = E[n + 1][2]
  PROVE  /\ EntryAt(s, c + entriesEnd(E, n), k, v) /\ KeyFits(k) /\ ValueFits(v) /\ k \in Seq(Piece)
         /\ IsFlag(k) => NoComma(valueText(v))
         /\ entriesEnd(E, n + 1) = entriesEnd(E, n) + Len(escape(k)) + Len(valueText(v)) + 13
<1> DEFINE ss == texts(E)
<1>1. IsTexts(ss, Piece) /\ Len(ss) = Len(E) /\ \A i \in 1..Len(E) : ss[i] = entryText(E[i][1], E[i][2])
  BY TextsAre
<1>2. Len(E) \in Nat /\ n + 1 \in 1..Len(E) /\ n < Len(ss) /\ Len(ss) \in Nat /\ n <= Len(E)
  BY <1>1 DEF EntriesFit
<1>3. KeyFits(k) /\ ValueFits(v) /\ (IsFlag(k) => NoComma(valueText(v))) /\ k \in Seq(Piece)
  BY <1>2, Zenon DEF EntriesFit, KeyFits
<1>4. ss[n + 1] = entryText(k, v)
  BY <1>1, <1>2
<1>5. entryText(k, v) \in Seq(Piece) /\ Len(entryText(k, v)) = Len(escape(k)) + Len(valueText(v)) + 13
      /\ Len(entryText(k, v)) \in Nat
  BY <1>3, EntryTextType
<1>6. At(Join(ss), entriesEnd(E, n), entryText(k, v))
  <2> HIDE DEF ss
  <2>1. Len(ss) <= Len(ss)
    BY <1>2
  <2>2. At(joinLoop(ss)[Len(ss)], Len(joinLoop(ss)[n]), ss[n + 1])
    BY <1>1, <1>2, <2>1, JoinAt
  <2>. QED BY <1>4, <2>2 DEF Join, entriesEnd, ss
<1>7. entriesEnd(E, n) \in Nat /\ Len(Join(ss)) \in Nat
  BY <1>2, EntriesEndIs
<1>8. At(s, c + entriesEnd(E, n), entryText(k, v))
  <2> DEFINE b == entriesEnd(E, n)
  <2> DEFINE J == Join(ss)
  <2> DEFINE t == entryText(k, v)
  <2>1. At(s, c, J) /\ At(J, b, t) /\ b \in Nat /\ Len(J) \in Nat /\ Len(t) \in Nat
    BY <1>5, <1>6, <1>7
  <2> HIDE DEF b, J, t
  <2>2. At(s, c + b, t)
    BY <2>1, AtAt
  <2>. QED BY <2>2 DEF b, t
<1>9. EntryAt(s, c + entriesEnd(E, n), k, v)
  <2>1. c + entriesEnd(E, n) \in Nat /\ valueText(v) \in Seq(Piece)
    BY <1>3, <1>7, ValueIs
  <2>. QED BY <1>3, <1>8, <2>1, EntryPieces
<1>10. entriesEnd(E, n + 1) = entriesEnd(E, n) + Len(entryText(k, v))
  <2> HIDE DEF ss
  <2>1. Len(joinLoop(ss)[n + 1]) = Len(joinLoop(ss)[n]) + Len(ss[n + 1])
    BY <1>1, <1>2, JoinStep
  <2>. QED BY <1>4, <2>1 DEF entriesEnd, ss
<1>11. entriesEnd(E, n + 1) = entriesEnd(E, n) + Len(escape(k)) + Len(valueText(v)) + 13
  <2>1. Len(escape(k)) \in Nat /\ Len(valueText(v)) \in Nat
    <3>1. escape(k) \in Seq(Piece) /\ valueText(v) \in Seq(Piece)
      BY <1>3, EscapeAt, ValueIs
    <3>. QED BY <3>1
  <2> DEFINE x == Len(escape(k))
  <2> DEFINE y == Len(valueText(v))
  <2> HIDE DEF x, y
  <2>2. entriesEnd(E, n + 1) = entriesEnd(E, n) + (x + y + 13) /\ x \in Nat /\ y \in Nat
    BY <1>5, <1>10, <2>1 DEF x, y
  <2>3. entriesEnd(E, n + 1) = entriesEnd(E, n) + x + y + 13
    BY <1>7, <2>2
  <2>. QED BY <2>3 DEF x, y
<1>. QED BY <1>3, <1>9, <1>11

\* The text of a section: something before the entries, the entries, the flag.
SectionOf(s, E, flag) ==
  /\ s \in Seq(Piece) /\ EntriesFit(E) /\ s[1] = newline
  /\ At(s, 1, Join(texts(E))) /\ TailAt(s, 1 + Len(Join(texts(E))), flag)

\* The state of the parser after the first n entries.
HasRead(s, E, n, p, fl) ==
  /\ parseLoop(s)[n] = Round(p, joinLoop(reads(E))[n], fl)
  /\ p \in Nat /\ 1 <= p /\ p <= (1 + entriesEnd(E, n)) + 1
  /\ \A l \in Nat : p <= l /\ l <= 1 + entriesEnd(E, n) => s[l] # quote

\* One round of the parser for one entry.
LEMMA ReadOne ==
  ASSUME NEW s, NEW E, NEW flag, SectionOf(s, E, flag), NEW n \in Nat, n < Len(E), NEW p, NEW fl,
         HasRead(s, E, n, p, fl)
  PROVE  \E q, gl : HasRead(s, E, n + 1, q, gl)
<1> DEFINE k == E[n + 1][1]
<1> DEFINE v == E[n + 1][2]
<1> DEFINE x == Len(escape(k))
<1> DEFINE y == Len(valueText(v))
<1> DEFINE a == 1 + entriesEnd(E, n)
<1> DEFINE es == joinLoop(reads(E))[n]
<1>1. s \in Seq(Piece) /\ EntriesFit(E) /\ At(s, 1, Join(texts(E)))
  BY DEF SectionOf
<1>2. Len(s) \in Nat /\ 1 \in Nat
  BY <1>1
<1>3. /\ EntryAt(s, a, k, v) /\ KeyFits(k) /\ ValueFits(v) /\ k \in Seq(Piece)
      /\ IsFlag(k) => NoComma(valueText(v))
      /\ entriesEnd(E, n + 1) = entriesEnd(E, n) + x + y + 13
  BY <1>1, <1>2, NextEntry
<1>4. /\ parseLoop(s)[n] = Round(p, es, fl) /\ p \in Nat /\ 1 <= p /\ p <= a + 1
      /\ \A l \in Nat : p <= l /\ l <= a => s[l] # quote
  BY DEF HasRead
<1>5. a \in Nat /\ x \in Nat /\ y \in Nat /\ a + x + y + 13 <= Len(s) /\ entriesEnd(E, n) \in Nat
  <2>1. entriesEnd(E, n) \in Nat
    BY <1>1, EntriesEndIs
  <2>. QED BY <1>3, <2>1, Zenon DEF EntryAt
<1>6. 1 + entriesEnd(E, n + 1) = a + x + y + 13
  <2> HIDE DEF x, y
  <2>. QED BY <1>3, <1>5
<1>7. s[a + x + y + 12] # quote /\ s[a + x + y + 13] # quote
  <2>1. s[a + x + y + 12] = "," /\ s[a + x + y + 13] = newline
    BY <1>3, Zenon DEF EntryAt
  <2>. QED BY <2>1 DEF quote, newline
<1> HIDE DEF a, es, k, v
<1>8. Comes(s, a, k, v, x, y, p)
  BY <1>1, <1>3, <1>4, Zenon DEF Comes
<1> HIDE DEF x, y
<1>9. parseLoop(s)[n + 1] = Parsed(s, Round(p, es, fl))
  <2>1. n < Len(s)
    <3>1. Len(E) \in Nat /\ Len(E) <= entriesEnd(E, Len(E)) /\ entriesEnd(E, Len(E)) = Len(Join(texts(E)))
      BY <1>1, EntriesEndIs
    <3>2. 1 + Len(Join(texts(E))) <= Len(s)
      BY <1>1 DEF At
    <3>. QED BY <1>2, <3>1, <3>2
  <2>2. ~(Round(p, es, fl).pos > Len(s))
    <3>1. Round(p, es, fl).pos = p
      BY RoundHas
    <3>2. p <= Len(s)
      BY <1>2, <1>4, <1>5
    <3>. QED BY <1>2, <1>4, <3>1, <3>2
  <2>3. parseLoop(s)[n + 1] = IF parseLoop(s)[n].pos > Len(s) THEN parseLoop(s)[n] ELSE Parsed(s, parseLoop(s)[n])
    BY <1>2, <2>1, ParseSteps
  <2>. QED BY <1>4, <2>2, <2>3, Zenon
<1>10. /\ joinLoop(reads(E))[n + 1] = es \o Reads(k, v)
       /\ es \in Seq(FoundIn(E)) /\ Reads(k, v) \in Seq(FoundIn(E))
  <2>1. /\ IsTexts(reads(E), FoundIn(E)) /\ Len(reads(E)) = Len(E) /\ Len(E) \in Nat /\ n + 1 \in 1..Len(E)
        /\ n \in 0..Len(reads(E)) /\ n < Len(reads(E)) /\ Len(reads(E)) \in Nat
    BY <1>1, ReadsAre DEF EntriesFit
  <2>2. reads(E)[n + 1] = Reads(k, v)
    BY <1>1, <2>1, ReadsAre DEF k, v
  <2>3. joinLoop(reads(E))[n + 1] = joinLoop(reads(E))[n] \o reads(E)[n + 1]
    BY <2>1, JoinGoesOn
  <2>4. joinLoop(reads(E))[n] \in Seq(FoundIn(E))
    BY <2>1, JoinType
  <2>5. reads(E)[n + 1] \in Seq(FoundIn(E))
    BY <2>1, Zenon DEF IsTexts
  <2>. QED BY <2>2, <2>3, <2>4, <2>5 DEF es
<1>11. CASE IsFlag(k)
  <2>1. parseLoop(s)[n + 1] = Round(a + x + y + 13, es, s[a + x + 4])
    BY <1>3, <1>8, <1>9, <1>11, FlagEntryRound
  <2>2. joinLoop(reads(E))[n + 1] = es
    <3>1. Reads(k, v) = <<>>
      BY <1>11 DEF Reads, EntryRead
    <3>2. es \o <<>> = es
      BY <1>10
    <3>. QED BY <1>10, <3>1, <3>2
  <2>3. HasRead(s, E, n + 1, a + x + y + 13, s[a + x + 4])
    <3> DEFINE q == a + x + y + 13
    <3>1. q \in Nat /\ 1 <= q /\ q <= (1 + entriesEnd(E, n + 1)) + 1 /\ 1 + entriesEnd(E, n + 1) = q
      BY <1>5, <1>6
    <3>2. \A l \in Nat : q <= l /\ l <= 1 + entriesEnd(E, n + 1) => s[l] # quote
      <4>1. \A l \in Nat : q <= l /\ l <= q => l = q
        BY <3>1
      <4>. QED BY <1>7, <3>1, <4>1
    <3> HIDE DEF q
    <3>. QED BY <2>1, <2>2, <3>1, <3>2 DEF HasRead, q
  <2>. QED BY <2>3
<1>12. CASE ~IsFlag(k)
  <2>1. parseLoop(s)[n + 1] = Round(a + x + y + 12, Longer(es, EntryRead(k, v)), fl)
    BY <1>8, <1>9, <1>12, EntryRound
  <2>2. joinLoop(reads(E))[n + 1] = Longer(es, EntryRead(k, v))
    <3> DEFINE e == EntryRead(k, v)
    <3>1. Reads(k, v) = <<e>>
      BY <1>12 DEF Reads, EntryRead
    <3>2. ASSUME NEW T, NEW r \in Seq(T), NEW f, <<f>> \in Seq(T) PROVE r \o <<f>> = Append(r, f)
      OBVIOUS
    <3> HIDE DEF e
    <3>3. es \o <<e>> = Append(es, e)
      BY <1>10, <3>1, <3>2
    <3>. QED BY <1>10, <3>1, <3>3 DEF Longer, e
  <2>3. HasRead(s, E, n + 1, a + x + y + 12, fl)
    <3> DEFINE q == a + x + y + 12
    <3>1. q \in Nat /\ 1 <= q /\ q <= (1 + entriesEnd(E, n + 1)) + 1 /\ 1 + entriesEnd(E, n + 1) = q + 1
      BY <1>5, <1>6
    <3>2. q + 1 = a + x + y + 13
      BY <1>5
    <3>3. \A l \in Nat : q <= l /\ l <= 1 + entriesEnd(E, n + 1) => s[l] # quote
      <4>1. \A l \in Nat : q <= l /\ l <= q + 1 => l = q \/ l = q + 1
        BY <3>1
      <4>. QED BY <1>7, <3>1, <3>2, <4>1
    <3> HIDE DEF q
    <3>. QED BY <2>1, <2>2, <3>1, <3>3 DEF HasRead, q
  <2>. QED BY <2>3
<1>. QED BY <1>11, <1>12

\* As many rounds as there are entries.
LEMMA ReadAll ==
  ASSUME NEW s, NEW E, NEW flag, SectionOf(s, E, flag), NEW n \in Nat, n <= Len(E)
  PROVE  \E p, fl : HasRead(s, E, n, p, fl)
<1> DEFINE M == {m \in Nat : m <= Len(E) => \E p, fl : HasRead(s, E, m, p, fl)}
<1>1. s \in Seq(Piece) /\ EntriesFit(E) /\ s[1] = newline
  BY Zenon DEF SectionOf
<1>2. Len(E) \in Nat /\ Len(s) \in Nat
  BY <1>1, EntriesEndIs
<1>3. 0 \in M
  <2>1. parseLoop(s)[0] = Round(1, <<>>, "missing")
    BY <1>2, ParseSteps
  <2>2. joinLoop(reads(E))[0] = <<>>
    <3>1. Len(reads(E)) \in Nat
      BY <1>1, <1>2, ReadsAre
    <3>. QED BY <3>1, JoinStarts
  <2>3. entriesEnd(E, 0) = 0
    BY <1>1, EntriesEndIs
  <2>4. \A l \in Nat : 1 <= l /\ l <= 1 + entriesEnd(E, 0) => s[l] # quote
    <3>1. \A l \in Nat : 1 <= l /\ l <= 1 + 0 => l = 1
      OBVIOUS
    <3>2. newline # quote
      BY DEF newline, quote
    <3>. QED BY <1>1, <2>3, <3>1, <3>2
  <2>5. 1 \in Nat /\ 1 <= 1 /\ 1 <= (1 + entriesEnd(E, 0)) + 1
    BY <2>3
  <2>6. HasRead(s, E, 0, 1, "missing")
    BY <2>1, <2>2, <2>4, <2>5, Zenon DEF HasRead
  <2>. QED BY <2>6
<1>4. ASSUME NEW m \in Nat, m \in M PROVE m + 1 \in M
  <2> SUFFICES ASSUME m + 1 <= Len(E) PROVE \E p, fl : HasRead(s, E, m + 1, p, fl)
    OBVIOUS
  <2>1. m < Len(E) /\ m <= Len(E)
    BY <1>2
  <2>2. PICK p, fl : HasRead(s, E, m, p, fl)
    BY <1>4, <2>1
  <2>. QED BY <2>1, <2>2, ReadOne
<1>5. n \in M
  <2> HIDE DEF M
  <2>. QED BY <1>3, <1>4, NatInd
<1>. QED BY <1>5

\* What is parsed of a section.
LEMMA SectionIs ==
  ASSUME NEW s, NEW E, NEW flag, SectionOf(s, E, flag)
  PROVE  parse(s) = [entries |-> Join(reads(E)), flag |-> flag]
<1> DEFINE N == Len(E)
<1> DEFINE es == joinLoop(reads(E))[N]
<1> DEFINE a == 1 + entriesEnd(E, N)
<1>1. s \in Seq(Piece) /\ EntriesFit(E)
  BY Zenon DEF SectionOf
<1>2. /\ N \in Nat /\ N <= N /\ N <= entriesEnd(E, N) /\ entriesEnd(E, N) \in Nat /\ Len(s) \in Nat
      /\ entriesEnd(E, N) = Len(Join(texts(E)))
  BY <1>1, EntriesEndIs
<1>3. TailAt(s, a, flag)
  BY <1>2 DEF SectionOf
<1>4. Len(s) = a + 8 /\ N < Len(s) /\ N + 1 \in Nat /\ N + 1 <= Len(s)
  <2>1. Len(s) = a + 8
    BY <1>3 DEF TailAt
  <2>. QED BY <1>2, <2>1
<1>5. PICK p, fl : HasRead(s, E, N, p, fl)
  BY <1>2, ReadAll
<1>6. /\ parseLoop(s)[N] = Round(p, es, fl) /\ p \in Nat /\ 1 <= p /\ p <= a + 1
      /\ \A l \in Nat : p <= l /\ l <= a => s[l] # quote
  BY <1>5 DEF HasRead
<1>7. parseLoop(s)[N + 1] = Parsed(s, Round(p, es, fl))
  <2>1. ~(Round(p, es, fl).pos > Len(s))
    <3>1. Round(p, es, fl).pos = p
      BY RoundHas
    <3> HIDE DEF N, es
    <3>. QED BY <1>2, <1>4, <1>6, <3>1
  <2>2. parseLoop(s)[N + 1] = IF parseLoop(s)[N].pos > Len(s) THEN parseLoop(s)[N] ELSE Parsed(s, parseLoop(s)[N])
    BY <1>2, <1>4, ParseSteps
  <2>. QED BY <1>6, <2>1, <2>2, Zenon
<1> HIDE DEF es, a, N
<1>8. Parsed(s, Round(p, es, fl)) = Round(Len(s) + 1, es, flag)
  BY <1>1, <1>3, <1>6, TailRound
<1>9. parseLoop(s)[N + 1] = Round(Len(s) + 1, es, flag)
  BY <1>7, <1>8
<1>10. parseLoop(s)[Len(s)] = Round(Len(s) + 1, es, flag)
  <2>1. parseLoop(s)[N + 1].pos > Len(s)
    <3>1. Round(Len(s) + 1, es, flag).pos = Len(s) + 1
      BY RoundHas
    <3>. QED BY <1>2, <1>9, <3>1
  <2> DEFINE m == N + 1
  <2>2. m \in Nat /\ m <= Len(s) /\ parseLoop(s)[m].pos > Len(s)
    BY <1>4, <2>1
  <2> HIDE DEF m
  <2>3. parseLoop(s)[Len(s)] = parseLoop(s)[m]
    BY <1>2, <2>2, ParseRest
  <2>. QED BY <1>9, <2>3 DEF m
<1>11. es = Join(reads(E))
  BY <1>1, ReadsAre DEF Join, es, N
<1>12. parse(s) = [entries |-> es, flag |-> flag]
  <2> DEFINE done == parseLoop(s)[Len(s)]
  <2>1. parse(s) = [entries |-> done.entries, flag |-> done.flag]
    BY DEF parse
  <2>2. done = Round(Len(s) + 1, es, flag)
    BY <1>10
  <2>3. Round(Len(s) + 1, es, flag).entries = es /\ Round(Len(s) + 1, es, flag).flag = flag
    BY RoundHas
  <2>. QED BY <2>1, <2>2, <2>3
<1>. QED BY <1>11, <1>12

-----------------------------------------------------------------------------
(* The whole text.                                                         *)

headText == <<"{", newline, quote, "store", quote, ":", "{", newline>>
tailText(flag) == <<quote, "autosave", quote, ":", flag, newline, "}", newline, "}">>

\* The text of a store, piece by piece; b is where the entries end.
StoreAt(s, E, flag, b) ==
  /\ s \in Seq(Piece) /\ b \in Nat /\ b = 8 + Len(Join(texts(E))) /\ Len(s) = b + 9
  /\ s[1] = "{" /\ s[2] = newline /\ s[3] = quote /\ s[4] = "store" /\ s[5] = quote /\ s[6] = ":"
  /\ s[7] = "{" /\ s[8] = newline
  /\ At(s, 8, Join(texts(E)))
  /\ s[b + 1] = quote /\ s[b + 2] = "autosave" /\ s[b + 3] = quote /\ s[b + 4] = ":" /\ s[b + 5] = flag
  /\ s[b + 6] = newline /\ s[b + 7] = "}" /\ s[b + 8] = newline /\ s[b + 9] = "}"

\* What a store has around its entries.
LEMMA HeadTail ==
  ASSUME NEW flag \in Piece
  PROVE  /\ headText \in Seq(Piece) /\ Len(headText) = 8
         /\ headText[1] = "{" /\ headText[2] = newline /\ headText[3] = quote /\ headText[4] = "store"
         /\ headText[5] = quote /\ headText[6] = ":" /\ headText[7] = "{" /\ headText[8] = newline
         /\ tailText(flag) \in Seq(Piece) /\ Len(tailText(flag)) = 9
         /\ tailText(flag)[1] = quote /\ tailText(flag)[2] = "autosave" /\ tailText(flag)[3] = quote
         /\ tailText(flag)[4] = ":" /\ tailText(flag)[5] = flag /\ tailText(flag)[6] = newline
         /\ tailText(flag)[7] = "}" /\ tailText(flag)[8] = newline /\ tailText(flag)[9] = "}"
<1>1. ASSUME NEW T, NEW p1 \in T, NEW p2 \in T, NEW p3 \in T, NEW p4 \in T,
         NEW p5 \in T, NEW p6 \in T, NEW p7 \in T, NEW p8 \in T, NEW p9 \in T
      PROVE  /\ <<p1, p2, p3, p4, p5, p6, p7, p8>> \in Seq(T)
             /\ <<p1, p2, p3, p4, p5, p6, p7, p8, p9>> \in Seq(T)
  OBVIOUS
<1>2. headText \in Seq(Piece)
  BY PieceNames, <1>1 DEF headText
<1>3. tailText(flag) \in Seq(Piece)
  BY PieceNames, <1>1 DEF tailText
<1>4. Len(headText) = 8 /\ Len(tailText(flag)) = 9
  BY DEF headText, tailText
<1>5. /\ headText[1] = "{" /\ headText[2] = newline /\ headText[3] = quote /\ headText[4] = "store"
      /\ headText[5] = quote /\ headText[6] = ":" /\ headText[7] = "{" /\ headText[8] = newline
  BY DEF headText
<1>6. /\ tailText(flag)[1] = quote /\ tailText(flag)[2] = "autosave" /\ tailText(flag)[3] = quote
      /\ tailText(flag)[4] = ":" /\ tailText(flag)[5] = flag /\ tailText(flag)[6] = newline
      /\ tailText(flag)[7] = "}" /\ tailText(flag)[8] = newline /\ tailText(flag)[9] = "}"
  BY DEF tailText
<1>. QED BY <1>2, <1>3, <1>4, <1>5, <1>6

\* The entries behind one another are a text.
LEMMA JoinTextsType ==
  ASSUME NEW E, EntriesFit(E)
  PROVE  Join(texts(E)) \in Seq(Piece)
<1>1. IsTexts(texts(E), Piece) /\ Len(texts(E)) \in Nat
  BY TextsAre DEF IsTexts
<1>2. Len(texts(E)) \in 0..Len(texts(E))
  BY <1>1
<1>. QED BY <1>1, <1>2, JoinType DEF Join

\* Where the pieces of the text of a store stand.
LEMMA StoreIs ==
  ASSUME NEW E, EntriesFit(E), NEW flag \in Piece
  PROVE  StoreAt(storeText(E, flag), E, flag, 8 + Len(Join(texts(E))))
<1> DEFINE J == Join(texts(E))
<1> DEFINE Hd == headText
<1> DEFINE Tl == tailText(flag)
<1> DEFINE z == Len(J)
<1> DEFINE b == 8 + z
<1> DEFINE s == (Hd \o J) \o Tl
<1>1. J \in Seq(Piece) /\ z \in Nat
  <2>1. J \in Seq(Piece)
    BY JoinTextsType
  <2>. QED BY <2>1
<1>2. storeText(E, flag) = s
  BY DEF storeText, headText, tailText, texts
<1>3. Hd \in Seq(Piece) /\ Len(Hd) = 8 /\ Tl \in Seq(Piece) /\ Len(Tl) = 9
  BY HeadTail
<1> HIDE DEF J, Hd, Tl
<1>4. Hd \o J \in Seq(Piece) /\ Len(Hd \o J) = b /\ At(Hd \o J, 0, Hd) /\ At(Hd \o J, 8, J)
  BY <1>1, <1>3, ConcatAt
<1> DEFINE h == Hd \o J
<1>5. b \in Nat /\ z \in Nat
  BY <1>1
<1> HIDE DEF h, z, b
<1>6. s \in Seq(Piece) /\ Len(s) = b + 9 /\ At(s, 0, h) /\ At(s, b, Tl)
  <2>1. h \in Seq(Piece) /\ Len(h) = b /\ Tl \in Seq(Piece) /\ Len(Tl) = 9
    BY <1>3, <1>4 DEF h
  <2>2. /\ h \o Tl \in Seq(Piece) /\ Len(h \o Tl) = Len(h) + Len(Tl)
        /\ At(h \o Tl, 0, h) /\ At(h \o Tl, Len(h), Tl)
    BY <2>1, ConcatAt
  <2>. QED BY <2>1, <2>2 DEF h
<1> HIDE DEF s
<1>7. Len(s) \in Nat /\ Len(h) \in Nat /\ Len(J) \in Nat /\ Len(Hd) \in Nat
  BY <1>1, <1>3, <1>4, <1>5, <1>6 DEF h
<1>8. At(s, 0, Hd) /\ At(s, 8, J)
  <2>1. At(s, 0 + 0, Hd)
    <3>1. At(h, 0, Hd) /\ 0 \in Nat
      BY <1>4 DEF h
    <3>. QED BY <1>6, <1>7, <3>1, AtAt
  <2>2. At(s, 0 + 8, J)
    <3>1. At(h, 8, J) /\ 0 \in Nat /\ 8 \in Nat
      BY <1>4 DEF h
    <3>. QED BY <1>6, <1>7, <3>1, AtAt
  <2>. QED BY <2>1, <2>2
<1>9. \A i \in 1..8 : s[i] = Hd[i]
  <2>1. \A i \in 1..8 : s[0 + i] = Hd[i] /\ 0 + i = i
    BY <1>3, <1>8 DEF At
  <2>. QED BY <2>1
<1>10. \A i \in 1..9 : s[b + i] = Tl[i]
  BY <1>3, <1>6 DEF At
<1>11. 1 \in 1..8 /\ 2 \in 1..8 /\ 3 \in 1..8 /\ 4 \in 1..8 /\ 5 \in 1..8 /\ 6 \in 1..8 /\ 7 \in 1..8 /\ 8 \in 1..8
  OBVIOUS
<1>12. 1 \in 1..9 /\ 2 \in 1..9 /\ 3 \in 1..9 /\ 4 \in 1..9 /\ 5 \in 1..9 /\ 6 \in 1..9 /\ 7 \in 1..9 /\ 8 \in 1..9 /\ 9 \in 1..9
  OBVIOUS
<1>13. /\ s[1] = "{" /\ s[2] = newline /\ s[3] = quote /\ s[4] = "store" /\ s[5] = quote /\ s[6] = ":"
       /\ s[7] = "{" /\ s[8] = newline
  BY <1>9, <1>11, HeadTail, Zenon DEF Hd
<1>14. /\ s[b + 1] = quote /\ s[b + 2] = "autosave" /\ s[b + 3] = quote /\ s[b + 4] = ":" /\ s[b + 5] = flag
       /\ s[b + 6] = newline /\ s[b + 7] = "}" /\ s[b + 8] = newline /\ s[b + 9] = "}"
  <2>1. /\ Tl[1] = quote /\ Tl[2] = "autosave" /\ Tl[3] = quote /\ Tl[4] = ":" /\ Tl[5] = flag
        /\ Tl[6] = newline /\ Tl[7] = "}" /\ Tl[8] = newline /\ Tl[9] = "}"
    BY HeadTail DEF Tl
  <2>2. /\ s[b + 1] = Tl[1] /\ s[b + 2] = Tl[2] /\ s[b + 3] = Tl[3] /\ s[b + 4] = Tl[4] /\ s[b + 5] = Tl[5]
        /\ s[b + 6] = Tl[6] /\ s[b + 7] = Tl[7] /\ s[b + 8] = Tl[8] /\ s[b + 9] = Tl[9]
    BY <1>10, <1>12, Zenon
  <2>. QED BY <2>1, <2>2, Zenon
<1>15. StoreAt(s, E, flag, b)
  <2>1. b = 8 + Len(Join(texts(E)))
    BY DEF b, z, J
  <2>2. At(s, 8, Join(texts(E)))
    BY <1>8 DEF J
  <2>. QED BY <1>5, <1>6, <1>13, <1>14, <2>1, <2>2, Zenon DEF StoreAt
<1>. QED BY <1>2, <1>15 DEF b, z, J

\* The scan of the whole text, behind the first n entries.
LEMMA EntriesCalm ==
  ASSUME NEW s, Len(s) \in Nat, NEW E, EntriesFit(E), At(s, 8, Join(texts(E))), Scan(s, 7, 8, Quiet(2)),
         NEW n \in Nat, n <= Len(E)
  PROVE  Calm(s, 7, 8, 8 + entriesEnd(E, n), 2) /\ Scan(s, 7, 8 + entriesEnd(E, n), Quiet(2))
<1> DEFINE Here(m) == Calm(s, 7, 8, 8 + entriesEnd(E, m), 2) /\ Scan(s, 7, 8 + entriesEnd(E, m), Quiet(2))
<1> DEFINE M == {m \in Nat : m <= Len(E) => Here(m)}
<1>1. Len(E) \in Nat /\ \A m \in Nat : m <= Len(E) => entriesEnd(E, m) \in Nat
  BY EntriesEndIs
<1>2. 0 \in M
  <2>1. entriesEnd(E, 0) = 0 /\ 8 + 0 = 8
    BY EntriesEndIs
  <2>2. Calm(s, 7, 8, 8, 2)
    BY CalmHere
  <2>. QED BY <2>1, <2>2
<1>3. ASSUME NEW m \in Nat, m \in M PROVE m + 1 \in M
  <2> SUFFICES ASSUME m + 1 <= Len(E) PROVE Here(m + 1)
    OBVIOUS
  <2> DEFINE k == E[m + 1][1]
  <2> DEFINE v == E[m + 1][2]
  <2> DEFINE x == Len(escape(k))
  <2> DEFINE y == Len(valueText(v))
  <2> DEFINE a == 8 + entriesEnd(E, m)
  <2>1. m < Len(E) /\ m <= Len(E) /\ m + 1 \in Nat /\ 8 \in Nat
    BY <1>1
  <2>2. Calm(s, 7, 8, a, 2) /\ Scan(s, 7, a, Quiet(2))
    BY <1>3, <2>1
  <2>3. /\ EntryAt(s, a, k, v) /\ k \in Seq(Piece) /\ ValueFits(v)
        /\ entriesEnd(E, m + 1) = entriesEnd(E, m) + x + y + 13
    BY <2>1, NextEntry
  <2>4. entriesEnd(E, m) \in Nat /\ entriesEnd(E, m + 1) \in Nat /\ x \in Nat /\ y \in Nat
    BY <1>1, <2>1, <2>3 DEF EntryAt
  <2>5. a + x + y + 13 = 8 + entriesEnd(E, m + 1) /\ a \in Nat /\ a + x + y + 13 \in Nat
    <3> DEFINE f == entriesEnd(E, m)
    <3> DEFINE g == entriesEnd(E, m + 1)
    <3>1. g = f + x + y + 13 /\ f \in Nat /\ g \in Nat /\ x \in Nat /\ y \in Nat
      BY <2>3, <2>4
    <3> HIDE DEF x, y, f, g
    <3>2. 8 + f + x + y + 13 = 8 + g /\ 8 + f \in Nat /\ 8 + f + x + y + 13 \in Nat
      BY <3>1
    <3>. QED BY <3>2 DEF f, g
  <2> HIDE DEF k, v, a
  <2>6. Calm(s, 7, a, a + x + y + 13, 2) /\ Scan(s, 7, a + x + y + 13, Quiet(2))
    BY <2>2, <2>3, EntryCalm
  <2> HIDE DEF x, y
  <2>7. Calm(s, 7, 8, a + x + y + 13, 2)
    BY <2>1, <2>2, <2>5, <2>6, CalmOn
  <2>. QED BY <2>5, <2>6, <2>7
<1>4. n \in M
  <2> HIDE DEF M
  <2>. QED BY <1>2, <1>3, NatInd
<1>. QED BY <1>4

\* The pieces behind the last entry, as the scan takes them.
TailHere(s, b) ==
  /\ b \in Nat /\ Len(s) = b + 9 /\ s[b + 1] = quote /\ s[b + 2] \notin {quote, backslash} /\ s[b + 3] = quote
  /\ s[b + 4] \notin Special /\ s[b + 5] \notin Special /\ s[b + 6] \notin Special
  /\ Closes(s[b + 7]) /\ s[b + 8] \notin Special /\ Closes(s[b + 9])

\* The scan of what stands behind the last entry.
LEMMA LastCalm ==
  ASSUME NEW s, NEW b, TailHere(s, b), Scan(s, 7, b, Quiet(2))
  PROVE  /\ Calm(s, 7, b, b + 6, 2) /\ Calm(s, 7, b + 7, b + 8, 1)
         /\ scanLoop(s, 7)[b + 7] = Quiet(1) /\ scanLoop(s, 7)[b + 9] = Quiet(0)
<1>1. b \in Nat /\ Len(s) = b + 9
  BY DEF TailHere
<1>0. 1 \in Int /\ 2 \in Int /\ b + 3 \in Nat /\ b + 4 \in Nat /\ b + 5 \in Nat /\ b + 6 \in Nat /\ b + 7 \in Nat
      /\ b + 8 \in Nat /\ b + 3 <= Len(s) /\ b + 3 < Len(s) /\ b + 4 < Len(s) /\ b + 5 < Len(s) /\ b + 6 < Len(s)
      /\ b + 7 < Len(s) /\ b + 8 < Len(s)
      /\ (b + 3) + 1 = b + 4 /\ (b + 4) + 1 = b + 5 /\ (b + 5) + 1 = b + 6 /\ (b + 6) + 1 = b + 7
      /\ (b + 7) + 1 = b + 8 /\ (b + 8) + 1 = b + 9
  BY <1>1
<1>2. Calm(s, 7, b, b + 3, 2) /\ Scan(s, 7, b + 3, Quiet(2))
  BY <1>0, CalmWord DEF TailHere
<1>3. Calm(s, 7, b + 3, b + 4, 2) /\ Scan(s, 7, b + 4, Quiet(2))
  <2> DEFINE c == b + 3
  <2>1. Scan(s, 7, c, Quiet(2)) /\ c < Len(s) /\ s[c + 1] \notin Special /\ c + 1 = b + 4
    BY <1>0, <1>2 DEF TailHere
  <2> HIDE DEF c
  <2>2. Calm(s, 7, c, c + 1, 2) /\ Scan(s, 7, c + 1, Quiet(2))
    BY <1>0, <2>1, CalmPiece
  <2>. QED BY <2>1, <2>2 DEF c
<1>4. Calm(s, 7, b + 4, b + 5, 2) /\ Scan(s, 7, b + 5, Quiet(2))
  <2> DEFINE c == b + 4
  <2>1. Scan(s, 7, c, Quiet(2)) /\ c < Len(s) /\ s[c + 1] \notin Special /\ c + 1 = b + 5
    BY <1>0, <1>3 DEF TailHere
  <2> HIDE DEF c
  <2>2. Calm(s, 7, c, c + 1, 2) /\ Scan(s, 7, c + 1, Quiet(2))
    BY <1>0, <2>1, CalmPiece
  <2>. QED BY <2>1, <2>2 DEF c
<1>5. Calm(s, 7, b + 5, b + 6, 2) /\ Scan(s, 7, b + 6, Quiet(2))
  <2> DEFINE c == b + 5
  <2>1. Scan(s, 7, c, Quiet(2)) /\ c < Len(s) /\ s[c + 1] \notin Special /\ c + 1 = b + 6
    BY <1>0, <1>4 DEF TailHere
  <2> HIDE DEF c
  <2>2. Calm(s, 7, c, c + 1, 2) /\ Scan(s, 7, c + 1, Quiet(2))
    BY <1>0, <2>1, CalmPiece
  <2>. QED BY <2>1, <2>2 DEF c
<1>6. Scan(s, 7, b + 7, Quiet(1))
  <2> DEFINE c == b + 6
  <2>1. Scan(s, 7, c, Quiet(2)) /\ c < Len(s) /\ Closes(s[c + 1]) /\ c + 1 = b + 7
    BY <1>0, <1>5 DEF TailHere
  <2> HIDE DEF c
  <2>2. Scan(s, 7, c + 1, Scanned(Quiet(2), s[c + 1]))
    BY <2>1, ScanOn
  <2>3. Scanned(Quiet(1 + 1), s[c + 1]) = Quiet(1)
    BY <1>0, <2>1, ScannedBraces, Zenon
  <2>4. 1 + 1 = 2
    OBVIOUS
  <2>. QED BY <2>1, <2>2, <2>3, <2>4
<1>7. Calm(s, 7, b + 7, b + 8, 1) /\ Scan(s, 7, b + 8, Quiet(1))
  <2> DEFINE c == b + 7
  <2>1. Scan(s, 7, c, Quiet(1)) /\ c < Len(s) /\ s[c + 1] \notin Special /\ c + 1 = b + 8
    BY <1>0, <1>6 DEF TailHere
  <2> HIDE DEF c
  <2>2. Calm(s, 7, c, c + 1, 1) /\ Scan(s, 7, c + 1, Quiet(1))
    BY <1>0, <2>1, CalmPiece
  <2>. QED BY <2>1, <2>2 DEF c
<1>8. Scan(s, 7, b + 9, Quiet(0))
  <2> DEFINE c == b + 8
  <2>1. Scan(s, 7, c, Quiet(1)) /\ c < Len(s) /\ Closes(s[c + 1]) /\ c + 1 = b + 9
    BY <1>0, <1>7 DEF TailHere
  <2> HIDE DEF c
  <2>2. Scan(s, 7, c + 1, Scanned(Quiet(1), s[c + 1]))
    BY <2>1, ScanOn
  <2>3. Scanned(Quiet(1), s[c + 1]) = Quiet(0)
    BY <2>1, ScannedLast
  <2>. QED BY <2>1, <2>2, <2>3
<1>9. Calm(s, 7, b, b + 4, 2)
  BY <1>1, <1>0, <1>2, <1>3, CalmOn
<1>10. Calm(s, 7, b, b + 5, 2)
  BY <1>1, <1>0, <1>9, <1>4, CalmOn
<1>11. Calm(s, 7, b, b + 6, 2)
  BY <1>1, <1>0, <1>10, <1>5, CalmOn
<1>. QED BY <1>6, <1>7, <1>8, <1>11 DEF Scan

\* The first brace of a store's text closes with its last piece.
LEMMA StoreCloses ==
  ASSUME NEW s, NEW E, EntriesFit(E), NEW flag, flag \in {"true", "false"}, NEW b, StoreAt(s, E, flag, b)
  PROVE  closing(s, 7) = b + 9
<1>1. s \in Seq(Piece) /\ b \in Nat /\ b = 8 + Len(Join(texts(E))) /\ Len(s) = b + 9 /\ At(s, 8, Join(texts(E)))
  BY Zenon DEF StoreAt
<1>2. Len(s) \in Nat /\ Len(E) \in Nat /\ b = 8 + entriesEnd(E, Len(E)) /\ Len(E) <= Len(E) /\ b >= 8
  <2>1. Len(E) \in Nat /\ entriesEnd(E, Len(E)) = Len(Join(texts(E))) /\ \A n \in Nat : n <= Len(E) => entriesEnd(E, n) \in Nat
    BY EntriesEndIs
  <2>2. Len(s) \in Nat
    BY <1>1
  <2>3. entriesEnd(E, Len(E)) \in Nat
    BY <2>1
  <2>. QED BY <1>1, <2>1, <2>2, <2>3
<1>3. s[7] = "{" /\ s[8] = newline
  BY Zenon DEF StoreAt
<1>4. Scan(s, 7, 6, Quiet(1))
  <2>1. 7 \in Nat /\ 7 >= 1 /\ 6 \in Nat /\ 6 < Len(s) /\ 6 < 7 /\ 7 <= 6 + 1 /\ 6 <= Len(s)
    BY <1>1, <1>2
  <2>2. scanLoop(s, 7)[6] = Quiet(1)
    BY <1>2, <2>1, ScanSteps
  <2>. QED BY <1>2, <2>1, <2>2 DEF Scan
<1>5. Scan(s, 7, 7, Quiet(2))
  <2>1. Scan(s, 7, 6 + 1, Scanned(Quiet(1), s[6 + 1]))
    <3>1. 6 < Len(s)
      BY <1>1, <1>2
    <3>. QED BY <1>4, <3>1, ScanOn
  <2>2. Scanned(Quiet(1), s[7]) = Quiet(1 + 1)
    <3>1. Opens(s[7])
      BY <1>3, Zenon DEF Opens
    <3>2. 1 \in Int
      OBVIOUS
    <3>. QED BY <3>1, <3>2, ScannedBraces, Zenon
  <2>3. 6 + 1 = 7 /\ 1 + 1 = 2
    OBVIOUS
  <2>. QED BY <2>1, <2>2, <2>3
<1>6. Scan(s, 7, 8, Quiet(2)) /\ Calm(s, 7, 7, 8, 2)
  <2>1. s[7 + 1] \notin Special /\ 7 < Len(s) /\ 7 + 1 = 8
    <3>1. newline \notin Special
      BY DEF Special, newline, quote, backslash
    <3>2. 7 < Len(s) /\ 7 + 1 = 8
      BY <1>1, <1>2
    <3>. QED BY <1>3, <3>1, <3>2
  <2>2. Calm(s, 7, 7, 7 + 1, 2) /\ Scan(s, 7, 7 + 1, Quiet(2))
    BY <1>5, <2>1, CalmPiece
  <2>. QED BY <2>1, <2>2
<1>7. Calm(s, 7, 8, b, 2) /\ Scan(s, 7, b, Quiet(2))
  BY <1>1, <1>2, <1>6, EntriesCalm
<1>8. TailHere(s, b)
  <2>1. /\ s[b + 1] = quote /\ s[b + 2] = "autosave" /\ s[b + 3] = quote /\ s[b + 4] = ":" /\ s[b + 5] = flag
        /\ s[b + 6] = newline /\ s[b + 7] = "}" /\ s[b + 8] = newline /\ s[b + 9] = "}"
    BY Zenon DEF StoreAt
  <2>2. ":" \notin Special /\ flag \notin Special /\ newline \notin Special /\ "autosave" \notin {quote, backslash}
    BY DEF Special, newline, quote, backslash
  <2>. QED BY <1>1, <2>1, <2>2, Zenon DEF TailHere, Closes
<1>9. /\ Calm(s, 7, b, b + 6, 2) /\ Calm(s, 7, b + 7, b + 8, 1)
      /\ scanLoop(s, 7)[b + 7] = Quiet(1) /\ scanLoop(s, 7)[b + 9] = Quiet(0)
  BY <1>7, <1>8, LastCalm
<1>10. Calm(s, 7, 7, b + 6, 2)
  <2>1. 7 \in Nat /\ 8 \in Nat /\ b \in Nat /\ b + 6 \in Nat
    BY <1>1
  <2>2. Calm(s, 7, 7, b, 2)
    BY <1>6, <1>7, <2>1, CalmOn
  <2>. QED BY <1>9, <2>1, <2>2, CalmOn
<1>11. ASSUME NEW n \in Nat, 7 <= n, n < b + 9 PROVE depthAt(s, 7, n) # 0
  <2>1. (7 <= n /\ n <= b + 6) \/ (b + 7 <= n /\ n <= b + 8)
    BY <1>1, <1>11
  <2>2. CASE 7 <= n /\ n <= b + 6
    <3>1. depthAt(s, 7, n) \in Int /\ depthAt(s, 7, n) >= 2
      BY <1>10, <2>2 DEF Calm
    <3>. QED BY <3>1
  <2>3. CASE b + 7 <= n /\ n <= b + 8
    <3>1. depthAt(s, 7, n) \in Int /\ depthAt(s, 7, n) >= 1
      BY <1>9, <2>3 DEF Calm
    <3>. QED BY <3>1
  <2>. QED BY <2>1, <2>2, <2>3
<1>12. depthAt(s, 7, b + 9) = 0
  BY <1>9, DepthIs DEF depthAt
<1>13. 7 \in Nat /\ b + 9 \in Nat /\ 7 <= b + 9 /\ b + 9 <= Len(s)
  BY <1>1
<1>. QED BY <1>2, <1>11, <1>12, <1>13, ClosingIs

\* The part of the text that is parsed.
LEMMA StoreSection ==
  ASSUME NEW s, NEW E, EntriesFit(E), NEW flag, flag \in {"true", "false"}, NEW b, StoreAt(s, E, flag, b)
  PROVE  SectionOf(SubSeq(s, 8, b + 8), E, flag)
<1> DEFINE J == Join(texts(E))
<1> DEFINE r == SubSeq(s, 7 + 1, b + 8)
<1>1. s \in Seq(Piece) /\ b \in Nat /\ b = 8 + Len(J) /\ Len(s) = b + 9 /\ At(s, 8, J) /\ s[8] = newline
  BY Zenon DEF StoreAt
<1>2. J \in Seq(Piece) /\ Len(J) \in Nat
  <2>1. J \in Seq(Piece)
    BY JoinTextsType
  <2>. QED BY <2>1
<1> HIDE DEF J
<1>3. r \in Seq(Piece) /\ Len(r) = (b + 8) - 7 /\ \A i \in 1..((b + 8) - 7) : r[i] = s[7 + i]
  <2>1. 7 \in Nat /\ b + 8 \in Nat /\ 7 <= b + 8 /\ b + 8 <= Len(s)
    BY <1>1
  <2>. QED BY <1>1, <2>1, AtSubSeq
<1> HIDE DEF r
<1>4. Len(r) = b + 1 /\ \A i \in 1..(b + 1) : r[i] = s[7 + i]
  <2>1. (b + 8) - 7 = b + 1
    BY <1>1
  <2>. QED BY <1>3, <2>1
<1>5. r[1] = newline
  <2>1. 1 \in 1..(b + 1) /\ 7 + 1 = 8
    BY <1>1
  <2>2. r[1] = s[7 + 1]
    BY <1>4, <2>1
  <2>. QED BY <1>1, <2>1, <2>2
<1>6. At(r, 1, J)
  <2>1. ASSUME NEW i \in 1..Len(J) PROVE r[1 + i] = J[i]
    <3>1. 1 + i \in 1..(b + 1) /\ 7 + (1 + i) = 8 + i
      BY <1>1, <1>2
    <3>2. r[1 + i] = s[7 + (1 + i)]
      BY <1>4, <3>1
    <3>3. s[8 + i] = J[i]
      BY <1>1, <2>1 DEF At
    <3>. QED BY <3>1, <3>2, <3>3
  <2>2. 1 + Len(J) <= Len(r)
    BY <1>1, <1>2, <1>4
  <2>. QED BY <2>1, <2>2 DEF At
<1>7. TailAt(r, 1 + Len(J), flag)
  <2> DEFINE a == 1 + Len(J)
  <2>1. a \in Nat /\ Len(r) = a + 8 /\ b = 7 + a
    BY <1>1, <1>2, <1>4
  <2> HIDE DEF a
  <2>2. /\ s[b + 1] = quote /\ s[b + 2] = "autosave" /\ s[b + 3] = quote /\ s[b + 4] = ":" /\ s[b + 5] = flag
        /\ s[b + 6] = newline /\ s[b + 7] = "}" /\ s[b + 8] = newline
    BY Zenon DEF StoreAt
  <2>3. \A i \in 1..8 : r[a + i] = s[b + i]
    <3> TAKE i \in 1..8
    <3>1. a + i \in 1..(b + 1) /\ 7 + (a + i) = b + i
      BY <2>1
    <3>2. r[a + i] = s[7 + (a + i)]
      BY <1>4, <3>1
    <3>. QED BY <3>1, <3>2
  <2>4. 1 \in 1..8 /\ 2 \in 1..8 /\ 3 \in 1..8 /\ 4 \in 1..8 /\ 5 \in 1..8 /\ 6 \in 1..8 /\ 7 \in 1..8 /\ 8 \in 1..8
    OBVIOUS
  <2>5. /\ r[a + 1] = s[b + 1] /\ r[a + 2] = s[b + 2] /\ r[a + 3] = s[b + 3] /\ r[a + 4] = s[b + 4]
        /\ r[a + 5] = s[b + 5] /\ r[a + 6] = s[b + 6] /\ r[a + 7] = s[b + 7] /\ r[a + 8] = s[b + 8]
    BY <2>3, <2>4, Zenon
  <2>6. TailAt(r, a, flag)
    BY <2>1, <2>2, <2>5, Zenon DEF TailAt
  <2>. QED BY <2>6 DEF a
<1>8. SectionOf(r, E, flag)
  BY <1>3, <1>5, <1>6, <1>7, Zenon DEF SectionOf, J
<1>9. 7 + 1 = 8
  OBVIOUS
<1>. QED BY <1>8, <1>9 DEF r

\* What load() finds in the text that save() has written, for any number of
\* entries with any keys and values that fit, in any order: each entry under
\* the key it is read as, in the order of the text, with the value it was
\* written with, and the flag.  No quote, brace, comma or colon within a key or
\* a value makes the scanner lose an entry, or find one that was not written.
THEOREM LoadedStore ==
  ASSUME NEW E, EntriesFit(E), NEW flag, flag \in {"true", "false"}
  PROVE  loaded(storeText(E, flag)) = [entries |-> Join(reads(E)), flag |-> flag]
<1> DEFINE s == storeText(E, flag)
<1>1. \E b : StoreAt(s, E, flag, b)
  <2>1. flag \in Piece
    BY PieceNames
  <2>. QED BY <2>1, StoreIs
<1>2. PICK b : StoreAt(s, E, flag, b)
  BY <1>1
<1> HIDE DEF s
<1>3. s \in Seq(Piece) /\ b \in Nat /\ Len(s) = b + 9
  BY <1>2, Zenon DEF StoreAt
<1>4. Len(s) \in Nat
  BY <1>3
<1>5. s[1] = "{" /\ s[2] = newline /\ s[3] = quote /\ s[4] = "store" /\ s[5] = quote /\ s[6] = ":" /\ s[7] = "{"
  BY <1>2, Zenon DEF StoreAt
<1>6. find(s, "store", 1) = 4
  <2> DEFINE c == "store"
  <2>1. s[4] = c /\ s[1] # c /\ s[2] # c /\ s[3] # c
    BY <1>5 DEF newline, quote
  <2> HIDE DEF c
  <2>2. \A l \in Nat : 1 <= l /\ l < 4 => l = 1 \/ l = 2 \/ l = 3
    OBVIOUS
  <2>3. \A l \in Nat : 1 <= l /\ l < 4 => s[l] # c
    BY <2>1, <2>2
  <2>4. 1 \in Nat /\ 4 \in Nat /\ 1 <= 4 /\ 4 <= Len(s)
    BY <1>3
  <2>5. find(s, c, 1) = 4
    BY <1>4, <2>1, <2>3, <2>4, FindIs
  <2>. QED BY <2>5 DEF c
<1>7. find(s, "{", 4) = 7
  <2> DEFINE c == "{"
  <2>1. s[7] = c /\ s[4] # c /\ s[5] # c /\ s[6] # c
    BY <1>5 DEF newline, quote
  <2> HIDE DEF c
  <2>2. \A l \in Nat : 4 <= l /\ l < 7 => l = 4 \/ l = 5 \/ l = 6
    OBVIOUS
  <2>3. \A l \in Nat : 4 <= l /\ l < 7 => s[l] # c
    BY <2>1, <2>2
  <2>4. 4 \in Nat /\ 7 \in Nat /\ 4 <= 7 /\ 7 <= Len(s)
    BY <1>3
  <2>5. find(s, c, 4) = 7
    BY <1>4, <2>1, <2>3, <2>4, FindIs
  <2>. QED BY <2>5 DEF c
<1>8. closing(s, 7) = b + 9
  BY <1>2, StoreCloses
<1>9. SectionOf(SubSeq(s, 8, b + 8), E, flag)
  BY <1>2, StoreSection
<1>10. 7 + 1 = 8 /\ (b + 9) - 1 = b + 8
  BY <1>3
<1>11. loaded(s) = parse(SubSeq(s, 7 + 1, (b + 9) - 1))
  BY <1>6, <1>7, <1>8, Zenon DEF loaded
<1>12. loaded(s) = parse(SubSeq(s, 8, b + 8))
  BY <1>10, <1>11
<1>. QED BY <1>9, <1>12, SectionIs DEF s

\* The text with a single entry: what a load makes of a key.
LEMMA KeyReadIs ==
  ASSUME NEW k, KeyFits(k), NEW none
  PROVE  keyRead(k, none) = IF IsFlag(k) THEN none ELSE KeyAsRead(k)
<1> DEFINE v == <<"BOOLEAN", TRUE>>
<1> DEFINE E == << <<k, v>> >>
<1>1. ValueFits(v) /\ NoComma(valueText(v))
  <2>1. getValueString(v) = Bool(TRUE) /\ v[1] # "STRING"
    BY DEF getValueString
  <2>2. Spelled(Bool(TRUE)) = <<"true">>
    BY DEF Spelled, Bool
  <2>3. attributeValueToJson(v) = <<"bare", Bool(TRUE)>>
    BY <2>1 DEF attributeValueToJson
  <2>4. valueText(v) = <<"true">>
    <3>1. ASSUME NEW b PROVE BareJson(b)[1] = "bare" /\ BareJson(b)[2] = b
      BY DEF BareJson
    <3> DEFINE b == Bool(TRUE)
    <3>2. attributeValueToJson(v) = BareJson(b)
      BY <2>3 DEF BareJson
    <3> HIDE DEF b
    <3>3. attributeValueToJson(v)[1] = "bare" /\ attributeValueToJson(v)[2] = b
      BY <3>1, <3>2
    <3>4. "bare" # "quoted"
      OBVIOUS
    <3>5. Spelled(b) = <<"true">>
      BY <2>2 DEF b
    <3>. QED BY <3>3, <3>4, <3>5, Zenon DEF valueText
  <2>5. <<"true">> \in Seq(Piece) /\ Len(<<"true">>) = 1 /\ <<"true">>[1] = "true"
    <3>1. ASSUME NEW T, NEW c \in T PROVE <<c>> \in Seq(T) /\ Len(<<c>>) = 1 /\ <<c>>[1] = c
      OBVIOUS
    <3>. QED BY <3>1, PieceNames
  <2>6. "true" \notin {quote, backslash, newline, "{", "}", ","}
    BY DEF quote, backslash, newline
  <2> DEFINE w == <<"true">>
  <2>7. Spelled(getValueString(v)) = w /\ w \in Seq(Piece) /\ Len(w) = 1 /\ w[1] = "true"
    BY <2>1, <2>2, <2>5
  <2>8. NoComma(w)
    <3>1. "true" # ","
      OBVIOUS
    <3>2. \A i \in 1..1 : i = 1
      OBVIOUS
    <3> HIDE DEF w
    <3>. QED BY <2>7, <3>1, <3>2, Zenon DEF NoComma
  <2> HIDE DEF w, v
  <2>9. ValueFits(v)
    BY <2>1, <2>6, <2>7, Zenon DEF ValueFits
  <2>. QED BY <2>4, <2>8, <2>9 DEF w
<1> HIDE DEF v
<1>2. Len(E) = 1 /\ DOMAIN E = 1..1 /\ E[1][1] = k /\ E[1][2] = v
  OBVIOUS
<1> HIDE DEF E
<1>3. EntriesFit(E)
  <2>1. \A i \in 1..1 : i = 1
    OBVIOUS
  <2>2. 1 \in Nat
    OBVIOUS
  <2>. QED BY <1>1, <1>2, <2>1, <2>2, Zenon DEF EntriesFit
<1>4. loaded(storeText(E, "false")) = [entries |-> Join(reads(E)), flag |-> "false"]
  <2>1. "false" \in {"true", "false"}
    OBVIOUS
  <2>. QED BY <1>3, <2>1, LoadedStore
<1>5. Join(reads(E)) = Reads(k, v)
  <2>1. /\ IsTexts(reads(E), FoundIn(E)) /\ Len(reads(E)) = 1 /\ reads(E)[1] = Reads(k, v)
    <3>1. 1 \in 1..1
      OBVIOUS
    <3>. QED BY <1>2, <1>3, <3>1, ReadsAre
  <2>2. joinLoop(reads(E))[0] = <<>> /\ joinLoop(reads(E))[0 + 1] = joinLoop(reads(E))[0] \o reads(E)[0 + 1]
    <3>1. Len(reads(E)) \in Nat /\ 0 \in Nat /\ 0 < Len(reads(E))
      BY <2>1
    <3>. QED BY <3>1, JoinStarts, JoinGoesOn
  <2>3. 0 + 1 = 1
    OBVIOUS
  <2>4. Reads(k, v) \in Seq(FoundIn(E))
    BY <2>1 DEF IsTexts
  <2>5. <<>> \o Reads(k, v) = Reads(k, v)
    BY <2>4
  <2>. QED BY <2>1, <2>2, <2>3, <2>5 DEF Join
<1>6. keyRead(k, none) = IF Reads(k, v) = <<>> THEN none ELSE Reads(k, v)[1][1]
  <2> DEFINE got == loaded(storeText(E, "false")).entries
  <2>1. keyRead(k, none) = IF got = <<>> THEN none ELSE got[1][1]
    BY DEF keyRead, E, v
  <2>2. got = Reads(k, v)
    BY <1>4, <1>5
  <2>. QED BY <2>1, <2>2
<1>7. CASE IsFlag(k)
  <2>1. Reads(k, v) = <<>>
    BY <1>7 DEF Reads
  <2>. QED BY <1>6, <1>7, <2>1
<1>8. CASE ~IsFlag(k)
  <2> DEFINE e == EntryRead(k, v)
  <2>1. Reads(k, v) = <<e>>
    BY <1>8 DEF Reads, EntryRead
  <2>2. e[1] = KeyAsRead(k)
    BY DEF EntryRead
  <2> HIDE DEF e
  <2>3. <<e>> # <<>> /\ <<e>>[1] = e
    OBVIOUS
  <2>. QED BY <1>6, <1>8, <2>1, <2>2, <2>3
<1>. QED BY <1>7, <1>8

\* A text with one more piece.
LEMMA AppendHas ==
  ASSUME NEW T, NEW r \in Seq(T), NEW c \in T
  PROVE  /\ Append(r, c) \in Seq(T) /\ Len(Append(r, c)) = Len(r) + 1 /\ Len(r) \in Nat
         /\ (\A i \in 1..Len(r) : Append(r, c)[i] = r[i]) /\ Append(r, c)[Len(r) + 1] = c
OBVIOUS

\* Once cut, a key is read as it is.
LEMMA KeyAsReadTwice ==
  ASSUME NEW k \in Seq(Piece)
  PROVE  KeyAsRead(k) \in Seq(Piece) /\ KeyAsRead(KeyAsRead(k)) = KeyAsRead(k)
<1>1. CASE \A j \in 1..Len(k) : k[j] # quote
  <2>1. find(k, quote, 1) = 0
    <3>1. Len(k) \in Nat /\ 1 \in Nat
      OBVIOUS
    <3>2. \A l \in Nat : 1 <= l /\ l <= Len(k) => k[l] # quote
      BY <1>1, <3>1
    <3>. QED BY <3>1, <3>2, FindNone
  <2>2. KeyAsRead(k) = k
    BY <2>1 DEF KeyAsRead
  <2>. QED BY <2>2
<1>2. CASE \E j \in 1..Len(k) : k[j] = quote
  <2>1. PICK f, u : FrontOf(k, f, u)
    BY <1>2, FrontIs
  <2>2. /\ f \in Nat /\ 1 <= f /\ find(k, quote, 1) = f /\ u \in Seq(Piece) /\ u = SubSeq(k, 1, f - 1)
        /\ \A i \in 1..Len(u) : u[i] # quote
    BY <2>1 DEF FrontOf
  <2> DEFINE w == Append(u, backslash)
  <2>3. KeyAsRead(k) = w
    <3>1. f # 0
      BY <2>2
    <3>. QED BY <2>2, <3>1 DEF KeyAsRead
  <2>4. w \in Seq(Piece) /\ Len(w) = Len(u) + 1 /\ Len(u) \in Nat
        /\ (\A i \in 1..Len(u) : w[i] = u[i]) /\ w[Len(u) + 1] = backslash
    <3>1. backslash \in Piece
      BY PieceNames
    <3>. QED BY <2>2, <3>1, AppendHas
  <2>5. backslash # quote
    BY DEF backslash, quote
  <2> HIDE DEF w
  <2>6. \A l \in Nat : 1 <= l /\ l <= Len(w) => w[l] # quote
    <3> TAKE l \in Nat
    <3> HAVE 1 <= l /\ l <= Len(w)
    <3>1. l \in 1..Len(u) \/ l = Len(u) + 1
      BY <2>4
    <3>. QED BY <2>2, <2>4, <2>5, <3>1
  <2>7. find(w, quote, 1) = 0
    <3>1. Len(w) \in Nat /\ 1 \in Nat
      BY <2>4
    <3>. QED BY <2>6, <3>1, FindNone
  <2>8. KeyAsRead(w) = w
    BY <2>7 DEF KeyAsRead
  <2>. QED BY <2>3, <2>4, <2>8
<1>. QED BY <1>1, <1>2

\* What CLIAssumption asks of the keys that loads find, shown of the scanner,
\* for every set of keys that holds with a key what it is read as: a key that
\* has been through one SAVE and LOAD does not change in the next.
THEOREM KeyReadFits ==
  ASSUME NEW K, \A k \in K : KeyFits(k) /\ KeyAsRead(k) \in K, NEW none, none \notin K,
         NEW R, R = [k \in K |-> keyRead(k, none)]
  PROVE  R \in [K -> K \cup {none}] /\ \A k \in K : R[k] # none => R[R[k]] = R[k]
<1>1. ASSUME NEW k \in K PROVE R[k] = IF IsFlag(k) THEN none ELSE KeyAsRead(k)
  BY KeyReadIs
<1>2. ASSUME NEW k \in K, ~IsFlag(k) PROVE ~IsFlag(KeyAsRead(k))
  <2>1. k \in Seq(Piece)
    BY DEF KeyFits
  <2>2. KeyAsRead(k) = k \/ \E u \in Seq(Piece) : KeyAsRead(k) = Append(u, backslash)
    <3>1. CASE find(k, quote, 1) = 0
      BY <3>1 DEF KeyAsRead
    <3>2. CASE find(k, quote, 1) # 0
      <4>1. \E j \in 1..Len(k) : k[j] = quote
        <5> SUFFICES ASSUME \A j \in 1..Len(k) : k[j] # quote PROVE FALSE
          OBVIOUS
        <5>1. Len(k) \in Nat /\ 1 \in Nat
          BY <2>1
        <5>2. \A l \in Nat : 1 <= l /\ l <= Len(k) => k[l] # quote
          BY <5>1
        <5>. QED BY <3>2, <5>1, <5>2, FindNone
      <4>2. PICK f, u : FrontOf(k, f, u)
        BY <2>1, <4>1, FrontIs
      <4>3. u \in Seq(Piece) /\ u = SubSeq(k, 1, f - 1) /\ find(k, quote, 1) = f
        BY <4>2 DEF FrontOf
      <4>4. KeyAsRead(k) = Append(u, backslash)
        BY <3>2, <4>3 DEF KeyAsRead
      <4>. QED BY <4>3, <4>4
    <3>. QED BY <3>1, <3>2
  <2>3. ASSUME NEW u \in Seq(Piece) PROVE ~IsFlag(Append(u, backslash))
    <3> DEFINE w == Append(u, backslash)
    <3>1. backslash \in Piece
      BY PieceNames
    <3>2. Len(w) = Len(u) + 1 /\ Len(u) \in Nat /\ w[Len(u) + 1] = backslash
      BY <3>1, AppendHas
    <3> HIDE DEF w
    <3>3. SUFFICES ASSUME IsFlag(w) PROVE FALSE
      BY DEF w
    <3>4. Len(w) = 1 /\ w[1] = "autosave"
      BY <3>3, EscapeAutosave, Zenon DEF IsFlag
    <3>5. w[1] = backslash
      <4>1. Len(u) + 1 = 1
        BY <3>2, <3>4
      <4>. QED BY <3>2, <4>1
    <3>6. backslash # "autosave"
      BY DEF backslash
    <3>. QED BY <3>4, <3>5, <3>6
  <2>. QED BY <1>2, <2>2, <2>3
<1>3. ASSUME NEW k \in K PROVE KeyAsRead(k) \in K /\ KeyAsRead(KeyAsRead(k)) = KeyAsRead(k)
  <2>1. k \in Seq(Piece)
    BY DEF KeyFits
  <2>. QED BY <2>1, KeyAsReadTwice
<1>4. R \in [K -> K \cup {none}]
  BY <1>1, <1>3
<1>5. ASSUME NEW k \in K, R[k] # none PROVE R[R[k]] = R[k]
  <2>1. ~IsFlag(k) /\ R[k] = KeyAsRead(k)
    BY <1>1, <1>5
  <2>2. R[KeyAsRead(k)] = KeyAsRead(KeyAsRead(k))
    BY <1>1, <1>2, <1>3, <2>1
  <2>. QED BY <1>3, <2>1, <2>2
<1>. QED BY <1>4, <1>5

=============================================================================
