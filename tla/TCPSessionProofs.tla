-------------------------- MODULE TCPSessionProofs --------------------------
(***************************************************************************)
(* TCPSession implements LineSession, for every alphabet, every length of  *)
(* the stream and every size of the receive buffer.                        *)
(***************************************************************************)
EXTENDS TCPSession, SequenceTheorems, TLAPS

-----------------------------------------------------------------------------
(* Cutting sequences.                                                      *)

\* A stretch of a sequence.
LEMMA Stretch ==
  ASSUME NEW S, NEW s \in Seq(S), NEW m \in 1..(Len(s) + 1), NEW n \in 0..Len(s)
  PROVE  /\ SubSeq(s, m, n) \in Seq(S)
         /\ Len(SubSeq(s, m, n)) = IF m <= n THEN n - m + 1 ELSE 0
         /\ \A i \in 1..(n - m + 1) : SubSeq(s, m, n)[i] = s[m + i - 1]
<1>1. Len(s) \in Nat /\ m \in Int /\ n \in Int
  BY LenProperties
<1>2. \A i \in m..n : s[i] \in S
  BY <1>1, ElementOfSeq
<1> QED BY <1>1, <1>2, SubSeqProperties

\* A concatenation, told from its elements.
LEMMA Joined ==
  ASSUME NEW S, NEW a \in Seq(S), NEW b \in Seq(S), NEW t \in Seq(S),
         Len(a) = Len(b) + Len(t),
         \A i \in 1..Len(b) : a[i] = b[i],
         \A i \in 1..Len(t) : a[Len(b) + i] = t[i]
  PROVE  a = b \o t
<1>1. Len(b) \in Nat /\ Len(t) \in Nat
  BY LenProperties
<1>2. /\ b \o t \in Seq(S) /\ Len(b \o t) = Len(b) + Len(t)
      /\ \A i \in 1..(Len(b) + Len(t)) : (b \o t)[i] = IF i <= Len(b) THEN b[i] ELSE t[i - Len(b)]
  BY ConcatProperties
<1>3. ASSUME NEW i \in 1..Len(a) PROVE a[i] = (b \o t)[i]
  <2>1. i \in 1..(Len(b) + Len(t)) /\ i \in Int
    BY <1>1
  <2>2. CASE i <= Len(b)
    <3>1. i \in 1..Len(b)
      BY <1>1, <2>1, <2>2
    <3> QED BY <1>2, <2>1, <2>2, <3>1
  <2>3. CASE ~(i <= Len(b))
    <3>1. i - Len(b) \in 1..Len(t) /\ Len(b) + (i - Len(b)) = i
      BY <1>1, <2>1, <2>3
    <3>2. a[Len(b) + (i - Len(b))] = t[i - Len(b)]
      BY <3>1
    <3> QED BY <1>2, <2>1, <2>3, <3>1, <3>2
  <2> QED BY <2>2, <2>3
<1> QED BY <1>2, <1>3, SeqEqual

\* The elements of a concatenation.
LEMMA Parts ==
  ASSUME NEW S, NEW s \in Seq(S), NEW t \in Seq(S)
  PROVE  /\ Len(s) \in Nat /\ Len(t) \in Nat
         /\ s \o t \in Seq(S) /\ Len(s \o t) = Len(s) + Len(t)
         /\ \A i \in 1..Len(s) : (s \o t)[i] = s[i]
         /\ \A i \in 1..Len(t) : (s \o t)[Len(s) + i] = t[i]
<1>1. Len(s) \in Nat /\ Len(t) \in Nat
  BY LenProperties
<1>2. /\ s \o t \in Seq(S) /\ Len(s \o t) = Len(s) + Len(t)
      /\ \A i \in 1..(Len(s) + Len(t)) : (s \o t)[i] = IF i <= Len(s) THEN s[i] ELSE t[i - Len(s)]
  BY ConcatProperties
<1>3. ASSUME NEW i \in 1..Len(s) PROVE (s \o t)[i] = s[i]
  <2>1. i \in 1..(Len(s) + Len(t)) /\ i <= Len(s)
    BY <1>1
  <2> QED BY <1>2, <2>1
<1>4. ASSUME NEW i \in 1..Len(t) PROVE (s \o t)[Len(s) + i] = t[i]
  <2>1. Len(s) + i \in 1..(Len(s) + Len(t)) /\ ~(Len(s) + i <= Len(s)) /\ (Len(s) + i) - Len(s) = i
    BY <1>1
  <2> QED BY <1>2, <2>1
<1> QED BY <1>1, <1>2, <1>3, <1>4

\* The beginning of a concatenation, cut in its first part.
LEMMA CutFirst ==
  ASSUME NEW S, NEW s \in Seq(S), NEW t \in Seq(S), NEW n \in 0..Len(s)
  PROVE  /\ SubSeq(s \o t, 1, n) = SubSeq(s, 1, n)
         /\ SubSeq(s \o t, n + 1, Len(s \o t)) = SubSeq(s, n + 1, Len(s)) \o t
<1>1. /\ Len(s) \in Nat /\ Len(t) \in Nat /\ n \in Nat /\ n <= Len(s)
      /\ s \o t \in Seq(S) /\ Len(s \o t) = Len(s) + Len(t)
      /\ \A i \in 1..Len(s) : (s \o t)[i] = s[i]
      /\ \A i \in 1..Len(t) : (s \o t)[Len(s) + i] = t[i]
  BY Parts, LenProperties
<1>2. SubSeq(s \o t, 1, n) = SubSeq(s, 1, n)
  <2>1. /\ SubSeq(s \o t, 1, n) \in Seq(S) /\ Len(SubSeq(s \o t, 1, n)) = n
        /\ \A i \in 1..n : SubSeq(s \o t, 1, n)[i] = (s \o t)[i]
    <3>1. 1 \in 1..(Len(s \o t) + 1) /\ n \in 0..Len(s \o t)
      BY <1>1
    <3> QED BY <1>1, <3>1, Stretch
  <2>2. /\ SubSeq(s, 1, n) \in Seq(S) /\ Len(SubSeq(s, 1, n)) = n
        /\ \A i \in 1..n : SubSeq(s, 1, n)[i] = s[i]
    BY <1>1, Stretch
  <2> QED BY <1>1, <2>1, <2>2, SeqEqual
<1>3. SubSeq(s \o t, n + 1, Len(s \o t)) = SubSeq(s, n + 1, Len(s)) \o t
  <2>1. PICK a : a = SubSeq(s \o t, n + 1, Len(s \o t))
    OBVIOUS
  <2>2. PICK b : b = SubSeq(s, n + 1, Len(s))
    OBVIOUS
  <2>3. /\ a \in Seq(S) /\ Len(a) = Len(s) - n + Len(t)
        /\ \A i \in 1..(Len(s) - n + Len(t)) : a[i] = (s \o t)[n + i]
    <3>1. n + 1 \in 1..(Len(s \o t) + 1) /\ Len(s \o t) \in 0..Len(s \o t)
      BY <1>1
    <3> QED BY <1>1, <2>1, <3>1, Stretch
  <2>4. /\ b \in Seq(S) /\ Len(b) = Len(s) - n
        /\ \A i \in 1..(Len(s) - n) : b[i] = s[n + i]
    <3>1. n + 1 \in 1..(Len(s) + 1) /\ Len(s) \in 0..Len(s)
      BY <1>1
    <3> QED BY <1>1, <2>2, <3>1, Stretch
  <2>5. ASSUME NEW i \in 1..Len(b) PROVE a[i] = b[i]
    <3>1. i \in 1..(Len(s) - n) /\ i \in 1..(Len(s) - n + Len(t)) /\ n + i \in 1..Len(s)
      BY <1>1, <2>4
    <3> QED BY <1>1, <2>3, <2>4, <3>1
  <2>6. ASSUME NEW i \in 1..Len(t) PROVE a[Len(b) + i] = t[i]
    <3>1. Len(b) + i \in 1..(Len(s) - n + Len(t)) /\ n + (Len(b) + i) = Len(s) + i
      BY <1>1, <2>4
    <3>2. a[Len(b) + i] = (s \o t)[n + (Len(b) + i)]
      BY <2>3, <3>1
    <3> QED BY <1>1, <3>1, <3>2
  <2>7. Len(a) = Len(b) + Len(t)
    BY <1>1, <2>3, <2>4
  <2>8. a = b \o t
    BY <2>3, <2>4, <2>5, <2>6, <2>7, Joined
  <2> QED BY <2>1, <2>2, <2>8
<1> QED BY <1>2, <1>3

\* The same, cut in its second part.
LEMMA CutSecond ==
  ASSUME NEW S, NEW s \in Seq(S), NEW t \in Seq(S), NEW n \in 0..Len(t)
  PROVE  /\ SubSeq(s \o t, 1, Len(s) + n) = s \o SubSeq(t, 1, n)
         /\ SubSeq(s \o t, Len(s) + n + 1, Len(s \o t)) = SubSeq(t, n + 1, Len(t))
<1>1. /\ Len(s) \in Nat /\ Len(t) \in Nat /\ n \in Nat /\ n <= Len(t)
      /\ s \o t \in Seq(S) /\ Len(s \o t) = Len(s) + Len(t)
      /\ \A i \in 1..Len(s) : (s \o t)[i] = s[i]
      /\ \A i \in 1..Len(t) : (s \o t)[Len(s) + i] = t[i]
  BY Parts, LenProperties
<1>2. SubSeq(s \o t, 1, Len(s) + n) = s \o SubSeq(t, 1, n)
  <2>1. PICK a : a = SubSeq(s \o t, 1, Len(s) + n)
    OBVIOUS
  <2>2. PICK b : b = SubSeq(t, 1, n)
    OBVIOUS
  <2>3. /\ a \in Seq(S) /\ Len(a) = Len(s) + n
        /\ \A i \in 1..(Len(s) + n) : a[i] = (s \o t)[i]
    <3>1. 1 \in 1..(Len(s \o t) + 1) /\ Len(s) + n \in 0..Len(s \o t)
      BY <1>1
    <3> QED BY <1>1, <2>1, <3>1, Stretch
  <2>4. /\ b \in Seq(S) /\ Len(b) = n /\ \A i \in 1..n : b[i] = t[i]
    <3>1. 1 \in 1..(Len(t) + 1)
      BY <1>1
    <3> QED BY <1>1, <2>2, <3>1, Stretch
  <2>5. ASSUME NEW i \in 1..Len(s) PROVE a[i] = s[i]
    <3>1. i \in 1..(Len(s) + n)
      BY <1>1
    <3> QED BY <1>1, <2>3, <3>1
  <2>6. ASSUME NEW i \in 1..Len(b) PROVE a[Len(s) + i] = b[i]
    <3>1. Len(s) + i \in 1..(Len(s) + n) /\ i \in 1..n /\ i \in 1..Len(t)
      BY <1>1, <2>4
    <3> QED BY <1>1, <2>3, <2>4, <3>1
  <2>7. Len(a) = Len(s) + Len(b)
    BY <1>1, <2>3, <2>4
  <2>8. a = s \o b
    BY <2>3, <2>4, <2>5, <2>6, <2>7, Joined
  <2> QED BY <2>1, <2>2, <2>8
<1>3. SubSeq(s \o t, Len(s) + n + 1, Len(s \o t)) = SubSeq(t, n + 1, Len(t))
  <2>1. PICK a : a = SubSeq(s \o t, Len(s) + n + 1, Len(s \o t))
    OBVIOUS
  <2>2. PICK b : b = SubSeq(t, n + 1, Len(t))
    OBVIOUS
  <2>3. /\ a \in Seq(S) /\ Len(a) = Len(t) - n
        /\ \A i \in 1..(Len(t) - n) : a[i] = (s \o t)[Len(s) + n + i]
    <3>1. Len(s) + n + 1 \in 1..(Len(s \o t) + 1) /\ Len(s \o t) \in 0..Len(s \o t)
      BY <1>1
    <3> QED BY <1>1, <2>1, <3>1, Stretch
  <2>4. /\ b \in Seq(S) /\ Len(b) = Len(t) - n /\ \A i \in 1..(Len(t) - n) : b[i] = t[n + i]
    <3>1. n + 1 \in 1..(Len(t) + 1) /\ Len(t) \in 0..Len(t)
      BY <1>1
    <3> QED BY <1>1, <2>2, <3>1, Stretch
  <2>5. ASSUME NEW i \in 1..Len(a) PROVE a[i] = b[i]
    <3>1. i \in 1..(Len(t) - n) /\ n + i \in 1..Len(t) /\ Len(s) + n + i = Len(s) + (n + i)
      BY <1>1, <2>3
    <3> QED BY <1>1, <2>3, <2>4, <3>1
  <2>6. a = b
    BY <2>3, <2>4, <2>5, SeqEqual
  <2> QED BY <2>1, <2>2, <2>6
<1> QED BY <1>2, <1>3

-----------------------------------------------------------------------------
(* The invariant.                                                          *)

\* recv is called only when no whole line is left over.
NothingWhole == pc = "recv" => \A i \in 1..Len(partial) : partial[i] # LF

SInv == SessionTypeOK /\ NothingWhole

\* The line that ends at position n, without its carriage return.
LEMMA LineType ==
  ASSUME NEW s \in Seq(Bytes \ {NUL}), NEW n \in 1..Len(s), Lines!EndsAt(s, n)
  PROVE  /\ Lines!FirstLine(s, n) \in Seq(Bytes \ {LF, NUL})
         /\ Lines!After(s, n) \in Seq(Bytes \ {NUL})
<1>1. /\ Len(s) \in Nat /\ n \in Nat /\ n \in 1..Len(s)
      /\ \A i \in 1..Len(s) : s[i] \in Bytes \ {NUL}
      /\ \A i \in 1..(n - 1) : s[i] # LF
  BY LenProperties, ElementOfSeq DEF Lines!EndsAt
<1>2. PICK t : t = SubSeq(s, 1, n - 1)
  OBVIOUS
<1>3. t \in Seq(Bytes \ {LF, NUL}) /\ Len(t) \in Nat
  <2>1. \A i \in 1..(n - 1) : s[i] \in Bytes \ {LF, NUL}
    BY <1>1
  <2>2. 1 \in Int /\ n - 1 \in Int
    BY <1>1
  <2>3. SubSeq(s, 1, n - 1) \in Seq(Bytes \ {LF, NUL})
    BY <2>1, <2>2, SubSeqProperties
  <2> QED BY <1>2, <2>3, LenProperties
<1>4. SubSeq(t, 1, Len(t) - 1) \in Seq(Bytes \ {LF, NUL})
  <2>1. \A i \in 1..(Len(t) - 1) : t[i] \in Bytes \ {LF, NUL}
    BY <1>3, ElementOfSeq
  <2>2. 1 \in Int /\ Len(t) - 1 \in Int
    BY <1>3
  <2> QED BY <2>1, <2>2, SubSeqProperties
<1>5. Lines!FirstLine(s, n) \in Seq(Bytes \ {LF, NUL})
  BY <1>2, <1>3, <1>4 DEF Lines!FirstLine, Lines!Trim
<1>6. Lines!After(s, n) \in Seq(Bytes \ {NUL})
  <2>1. \A i \in (n + 1)..Len(s) : s[i] \in Bytes \ {NUL}
    BY <1>1
  <2>2. n + 1 \in Int /\ Len(s) \in Int
    BY <1>1
  <2> QED BY <2>1, <2>2, SubSeqProperties DEF Lines!After
<1> QED BY <1>5, <1>6

LEMMA SInit == ASSUME SessionInit PROVE SInv
<1>1. \A S : <<>> \in Seq(S) /\ Len(<<>>) = 0
  BY EmptySeq
<1> QED BY <1>1, SessionAssumption DEF SessionInit, SInv, SessionTypeOK, NothingWhole

LEMMA RecvKeeps == ASSUME SInv, Recv PROVE SInv'
<1>1. PICK n \in 1..Len(wire) : \E k \in 0..n :
        /\ CString(n, k)
        /\ partial' = partial \o SubSeq(wire, 1, k)
        /\ wire' = Lines!After(wire, n)
  BY DEF Recv
<1>2. PICK k \in 0..n :
        /\ CString(n, k)
        /\ partial' = partial \o SubSeq(wire, 1, k)
        /\ wire' = Lines!After(wire, n)
  BY <1>1
<1>3. /\ wire \in Seq(Bytes) /\ Len(wire) \in Nat /\ n \in Nat /\ k \in Nat
      /\ partial \in Seq(Bytes \ {NUL}) /\ \A i \in 1..Len(wire) : wire[i] \in Bytes
  BY LenProperties, ElementOfSeq DEF SInv, SessionTypeOK
<1>4. SubSeq(wire, 1, k) \in Seq(Bytes \ {NUL})
  <2>1. \A i \in 1..k : wire[i] \in Bytes \ {NUL}
    BY <1>2, <1>3 DEF CString
  <2>2. 1 \in Int /\ k \in Int
    BY <1>3
  <2> QED BY <2>1, <2>2, SubSeqProperties
<1>5. partial' \in Seq(Bytes \ {NUL})
  BY <1>2, <1>3, <1>4, ConcatProperties
<1>6. wire' \in Seq(Bytes)
  <2>1. n + 1 \in Int /\ Len(wire) \in Int /\ \A i \in (n + 1)..Len(wire) : wire[i] \in Bytes
    BY <1>3
  <2>2. SubSeq(wire, n + 1, Len(wire)) \in Seq(Bytes)
    BY <2>1, SubSeqProperties
  <2> QED BY <1>2, <2>2 DEF Lines!After
<1> QED BY <1>5, <1>6 DEF Recv, SInv, SessionTypeOK, NothingWhole

LEMMA AnswerKeeps == ASSUME SInv, Answer PROVE SInv'
<1>1. PICK n \in 1..Len(partial) :
        /\ Lines!EndsAt(partial, n)
        /\ partial' = Lines!After(partial, n)
        /\ replies' = Append(replies, Lines!FirstLine(partial, n))
        /\ pc' = IF Lines!FirstLine(partial, n) = QUIT THEN "quit" ELSE "split"
  BY DEF Answer
<1>2. /\ Lines!FirstLine(partial, n) \in Seq(Bytes \ {LF, NUL})
      /\ Lines!After(partial, n) \in Seq(Bytes \ {NUL})
  BY <1>1, LineType DEF SInv, SessionTypeOK
<1>3. replies' \in Seq(Seq(Bytes \ {LF, NUL}))
  BY <1>1, <1>2, AppendProperties DEF SInv, SessionTypeOK
<1> QED BY <1>1, <1>2, <1>3 DEF Answer, SInv, SessionTypeOK, NothingWhole

LEMMA SStep == ASSUME SInv, [SessionNext]_sessionVars PROVE SInv'
<1>1. ASSUME NEW b \in Bytes, Send(b) PROVE SInv'
  <2>1. wire' \in Seq(Bytes)
    BY <1>1, AppendProperties DEF Send, SInv, SessionTypeOK
  <2>2. sent' \in 0..MaxBytes
    BY <1>1, SessionAssumption DEF Send, SInv, SessionTypeOK
  <2> QED BY <1>1, <2>1, <2>2 DEF Send, SInv, SessionTypeOK, NothingWhole
<1>2. CASE Leave
  BY <1>2 DEF Leave, SInv, SessionTypeOK, NothingWhole
<1>3. CASE Reset
  <2>1. wire' \in Seq(Bytes)
    BY <1>3, EmptySeq DEF Reset
  <2> QED BY <1>3, <2>1 DEF Reset, SInv, SessionTypeOK, NothingWhole
<1>4. CASE Recv
  BY <1>4, RecvKeeps
<1>5. CASE RecvEnds
  BY <1>5 DEF RecvEnds, SInv, SessionTypeOK, NothingWhole
<1>6. CASE Answer
  BY <1>6, AnswerKeeps
<1>7. CASE Killed
  BY <1>7 DEF Killed, SInv, SessionTypeOK, NothingWhole
<1>8. CASE NoLine
  BY <1>8 DEF NoLine, SInv, SessionTypeOK, NothingWhole
<1>9. CASE UNCHANGED sessionVars
  BY <1>9 DEF sessionVars, SInv, SessionTypeOK, NothingWhole
<1> QED
  BY <1>1, <1>2, <1>3, <1>4, <1>5, <1>6, <1>7, <1>8, <1>9 DEF SessionNext, HandleClient

\* What handleClient holds has the types declared, whatever pieces the stream
\* arrives in; above all, no NUL byte is ever kept or answered, nor an LF
\* answered, nor recv called with a whole line left over.
THEOREM SessionTypeCorrect == SessionSpec => []SessionTypeOK
<1>1. SessionInit => SInv
  BY SInit
<1>2. SInv /\ [SessionNext]_sessionVars => SInv'
  BY SStep
<1>3. SInv => SessionTypeOK
  BY DEF SInv
<1> QED BY <1>1, <1>2, <1>3, PTL DEF SessionSpec

-----------------------------------------------------------------------------
(* The refinement: what each action of TCPSession is to the client.        *)

USE DEF Lines!lineVars

\* The bytes that were sent and belong to no answered line.
LEMMA InboxType ==
  ASSUME SInv
  PROVE  /\ partial \in Seq(Bytes) /\ wire \in Seq(Bytes) /\ partial \o wire \in Seq(Bytes)
         /\ Len(partial) \in Nat /\ Len(wire) \in Nat /\ Len(partial \o wire) = Len(partial) + Len(wire)
         /\ \A i \in 1..Len(partial) : (partial \o wire)[i] = partial[i]
         /\ \A i \in 1..Len(wire) : (partial \o wire)[Len(partial) + i] = wire[i]
<1>1. partial \in Seq(Bytes)
  <2>1. partial \in Seq(Bytes \ {NUL}) /\ Bytes \ {NUL} \subseteq Bytes
    BY DEF SInv, SessionTypeOK
  <2> QED BY <2>1, SeqMonotonic
<1>2. wire \in Seq(Bytes)
  BY DEF SInv, SessionTypeOK
<1> QED BY <1>1, <1>2, Parts

\* A byte is sent.
LEMMA SendIsSent == ASSUME SInv, NEW b \in Bytes, Send(b) PROVE Lines!Sent(b)
<1>1. partial \in Seq(Bytes) /\ wire \in Seq(Bytes) /\ partial \o wire \in Seq(Bytes)
  BY InboxType
<1>2. <<b>> \in Seq(Bytes)
  BY SeqDef, 1 \in Nat
<1>3. partial \o Append(wire, b) = Append(partial \o wire, b)
  <2>1. Append(wire, b) = wire \o <<b>>
    BY <1>1, AppendIsConcat
  <2>2. Append(partial \o wire, b) = (partial \o wire) \o <<b>>
    BY <1>1, AppendIsConcat
  <2>3. (partial \o wire) \o <<b>> = partial \o (wire \o <<b>>)
    BY <1>1, <1>2, ConcatAssociative
  <2> QED BY <2>1, <2>2, <2>3
<1> QED BY <1>3 DEF Send, Lines!Sent

\* A reset loses what had not been received.
LEMMA ResetIsBroken == ASSUME SInv, Reset PROVE Lines!Broken
<1>1. /\ partial \in Seq(Bytes) /\ wire \in Seq(Bytes) /\ Len(partial) \in Nat /\ Len(wire) \in Nat
      /\ Len(partial \o wire) = Len(partial) + Len(wire)
  BY InboxType
<1>2. SubSeq(partial \o wire, 1, Len(partial)) = SubSeq(partial, 1, Len(partial))
  <2>1. Len(partial) \in 0..Len(partial)
    BY <1>1
  <2> QED BY <1>1, <2>1, CutFirst
<1>3. SubSeq(partial, 1, Len(partial)) = partial /\ partial \o <<>> = partial
  BY <1>1, SubSeqFull, ConcatEmptySeq
<1>4. Len(partial) \in 0..Len(partial \o wire)
  BY <1>1
<1>5. partial' \o wire' = SubSeq(partial \o wire, 1, Len(partial))
  BY <1>2, <1>3 DEF Reset
<1> QED BY <1>4, <1>5 DEF Reset, Lines!Broken

\* A send to a connection that was reset ends the process.
LEMMA KilledIsBroken == ASSUME SInv, Killed PROVE Lines!Broken
<1>1. partial \o wire \in Seq(Bytes)
  BY InboxType
<1>2. SubSeq(partial \o wire, 1, Len(partial \o wire)) = partial \o wire
  BY <1>1, SubSeqFull
<1>3. Len(partial \o wire) \in 0..Len(partial \o wire)
  BY <1>1, LenProperties
<1> QED BY <1>2, <1>3 DEF Killed, Lines!Broken

\* A recv moves bytes that the client cannot see move, or loses those of the
\* buffer behind a NUL.
LEMMA RecvIsLost ==
  ASSUME SInv, Recv
  PROVE  Lines!Lost \/ UNCHANGED Lines!lineVars
<1>0. pc = "recv" /\ pc' = "split" /\ replies' = replies /\ client' = client
  BY DEF Recv
<1>1. PICK n \in 1..Len(wire) : \E k \in 0..n :
        /\ CString(n, k)
        /\ partial' = partial \o SubSeq(wire, 1, k)
        /\ wire' = Lines!After(wire, n)
  BY DEF Recv
<1>2. PICK k \in 0..n :
        /\ CString(n, k)
        /\ partial' = partial \o SubSeq(wire, 1, k)
        /\ wire' = SubSeq(wire, n + 1, Len(wire))
  BY <1>1 DEF Lines!After
<1>3. /\ partial \in Seq(Bytes) /\ wire \in Seq(Bytes) /\ partial \o wire \in Seq(Bytes)
      /\ Len(partial) \in Nat /\ Len(wire) \in Nat
      /\ Len(partial \o wire) = Len(partial) + Len(wire)
      /\ \A i \in 1..Len(wire) : (partial \o wire)[Len(partial) + i] = wire[i]
      /\ n \in Nat /\ k \in Nat /\ k <= n /\ n <= Len(wire)
  BY InboxType
<1>4. CASE k = n
  <2>1. SubSeq(wire, 1, n) \in Seq(Bytes) /\ SubSeq(wire, n + 1, Len(wire)) \in Seq(Bytes)
    <3>1. 1 \in 1..(Len(wire) + 1) /\ n \in 0..Len(wire) /\ n + 1 \in 1..(Len(wire) + 1) /\ Len(wire) \in 0..Len(wire)
      BY <1>3
    <3> QED BY <1>3, <3>1, Stretch
  <2>2. SubSeq(wire, 1, n) \o SubSeq(wire, n + 1, Len(wire)) = SubSeq(wire, 1, Len(wire))
    <3>1. 1 \in 1..(Len(wire) + 1) /\ n \in (1 - 1)..Len(wire) /\ Len(wire) \in n..Len(wire)
      BY <1>3
    <3> QED BY <1>3, <3>1, ConcatAdjacentSubSeq
  <2>3. SubSeq(wire, 1, Len(wire)) = wire
    BY <1>3, SubSeqFull
  <2>4. (partial \o SubSeq(wire, 1, n)) \o SubSeq(wire, n + 1, Len(wire))
          = partial \o (SubSeq(wire, 1, n) \o SubSeq(wire, n + 1, Len(wire)))
    <3>1. PICK x : x = SubSeq(wire, 1, n)
      OBVIOUS
    <3>2. PICK y : y = SubSeq(wire, n + 1, Len(wire))
      OBVIOUS
    <3>3. partial \in Seq(Bytes) /\ x \in Seq(Bytes) /\ y \in Seq(Bytes)
      BY <1>3, <2>1, <3>1, <3>2
    <3>4. (partial \o x) \o y = partial \o (x \o y)
      BY <3>3, ConcatAssociative
    <3> QED BY <3>1, <3>2, <3>4
  <2>5. partial' \o wire' = partial \o wire
    BY <1>2, <1>4, <2>2, <2>3, <2>4
  <2>6. UNCHANGED Lines!lineVars
    BY <1>0, <2>5
  <2> QED BY <2>6
<1>5. CASE k < n
  <2>1. wire[k + 1] = NUL
    BY <1>2, <1>5 DEF CString
  <2>2. PICK i : i = Len(partial) + k + 1
    OBVIOUS
  <2>3. PICK j : j = Len(partial) + n
    OBVIOUS
  <2>4. i \in 1..Len(partial \o wire) /\ j \in i..Len(partial \o wire)
    BY <1>3, <1>5, <2>2, <2>3
  <2>5. (partial \o wire)[i] = NUL
    <3>1. k + 1 \in 1..Len(wire) /\ i = Len(partial) + (k + 1)
      BY <1>3, <1>5, <2>2
    <3> QED BY <1>3, <2>1, <3>1
  <2>6. SubSeq(partial \o wire, 1, i - 1) = partial \o SubSeq(wire, 1, k)
    <3>1. k \in 0..Len(wire) /\ i - 1 = Len(partial) + k
      BY <1>3, <2>2
    <3> QED BY <1>3, <3>1, CutSecond
  <2>7. SubSeq(partial \o wire, j + 1, Len(partial \o wire)) = SubSeq(wire, n + 1, Len(wire))
    <3>1. n \in 0..Len(wire) /\ j + 1 = Len(partial) + n + 1
      BY <1>3, <2>3
    <3>2. SubSeq(partial \o wire, Len(partial) + n + 1, Len(partial \o wire)) = SubSeq(wire, n + 1, Len(wire))
      BY <1>3, <3>1, CutSecond
    <3> QED BY <3>1, <3>2
  <2>8. partial' \o wire' = SubSeq(partial \o wire, 1, i - 1) \o Lines!After(partial \o wire, j)
    BY <1>2, <2>6, <2>7 DEF Lines!After
  <2>9. \E x \in 1..Len(partial \o wire) : \E y \in x..Len(partial \o wire) :
          /\ (partial \o wire)[x] = NUL
          /\ partial' \o wire' = SubSeq(partial \o wire, 1, x - 1) \o Lines!After(partial \o wire, y)
    BY <2>4, <2>5, <2>8
  <2>10. Lines!Lost
    BY <1>0, <2>9 DEF Lines!Lost
  <2> QED BY <2>10
<1> QED BY <1>3, <1>4, <1>5

\* The first whole line, wherever it was cut, is answered.
LEMMA AnswerIsAnswered == ASSUME SInv, Answer PROVE Lines!Answered
<1>1. PICK n \in 1..Len(partial) :
        /\ Lines!EndsAt(partial, n)
        /\ partial' = SubSeq(partial, n + 1, Len(partial))
        /\ replies' = Append(replies, Lines!FirstLine(partial, n))
        /\ pc' = IF Lines!FirstLine(partial, n) = QUIT THEN "quit" ELSE "split"
  BY DEF Answer, Lines!After
<1>2. /\ partial \in Seq(Bytes) /\ wire \in Seq(Bytes)
      /\ Len(partial) \in Nat /\ Len(wire) \in Nat
      /\ Len(partial \o wire) = Len(partial) + Len(wire)
      /\ \A i \in 1..Len(partial) : (partial \o wire)[i] = partial[i]
      /\ n \in Nat /\ n \in 1..Len(partial)
  BY InboxType
<1>3. n \in 1..Len(partial \o wire)
  BY <1>2
<1>4. Lines!EndsAt(partial \o wire, n)
  <2>1. (partial \o wire)[n] = LF
    BY <1>1, <1>2 DEF Lines!EndsAt
  <2>2. ASSUME NEW m \in 1..(n - 1) PROVE (partial \o wire)[m] # LF
    <3>1. m \in 1..Len(partial)
      BY <1>2
    <3> QED BY <1>1, <1>2, <3>1 DEF Lines!EndsAt
  <2> QED BY <1>3, <2>1, <2>2 DEF Lines!EndsAt
<1>5. Lines!FirstLine(partial \o wire, n) = Lines!FirstLine(partial, n)
  <2>1. n - 1 \in 0..Len(partial)
    BY <1>2
  <2>2. SubSeq(partial \o wire, 1, n - 1) = SubSeq(partial, 1, n - 1)
    BY <1>2, <2>1, CutFirst
  <2> QED BY <2>2 DEF Lines!FirstLine
<1>6. Lines!After(partial \o wire, n) = partial' \o wire'
  <2>1. n \in 0..Len(partial)
    BY <1>2
  <2>2. SubSeq(partial \o wire, n + 1, Len(partial \o wire)) = SubSeq(partial, n + 1, Len(partial)) \o wire
    BY <1>2, <2>1, CutFirst
  <2> QED BY <1>1, <2>2 DEF Answer, Lines!After
<1>7. pc = "split" /\ client' = client /\ pc' \in {"quit", "split"}
  BY <1>1 DEF Answer
<1> QED BY <1>1, <1>3, <1>4, <1>5, <1>6, <1>7 DEF Lines!Answered

\* recv ends when nothing is left on the wire, and then no whole line is.
LEMMA RecvEndsIsClosed == ASSUME SInv, RecvEnds PROVE Lines!Closed
<1>1. partial \o wire = partial
  BY InboxType, ConcatEmptySeq DEF RecvEnds
<1>2. \A i \in 1..Len(partial) : partial[i] # LF
  BY DEF SInv, NothingWhole, RecvEnds
<1> QED BY <1>1, <1>2 DEF RecvEnds, Lines!Closed

\* The rest changes nothing of what the client knows, or says that it leaves.
LEMMA LeaveIsLeft ==
  ASSUME Leave
  PROVE  Lines!Left \/ UNCHANGED Lines!lineVars
BY DEF Leave, Lines!Left

LEMMA NoLineIsNothing == ASSUME NoLine PROVE UNCHANGED Lines!lineVars
BY DEF NoLine

\* Every step of the server and of the network is a step of LineSession.
LEMMA LineStep ==
  ASSUME SInv, [SessionNext]_sessionVars
  PROVE  [Lines!LineNext]_Lines!lineVars
<1>1. ASSUME NEW b \in Bytes, Send(b) PROVE Lines!LineNext
  BY <1>1, SendIsSent DEF Lines!LineNext
<1>2. CASE Leave
  BY <1>2, LeaveIsLeft DEF Lines!LineNext
<1>3. CASE Reset
  BY <1>3, ResetIsBroken DEF Lines!LineNext
<1>4. CASE Recv
  BY <1>4, RecvIsLost DEF Lines!LineNext
<1>5. CASE RecvEnds
  BY <1>5, RecvEndsIsClosed DEF Lines!LineNext
<1>6. CASE Answer
  BY <1>6, AnswerIsAnswered DEF Lines!LineNext
<1>7. CASE Killed
  BY <1>7, KilledIsBroken DEF Lines!LineNext
<1>8. CASE NoLine
  BY <1>8, NoLineIsNothing
<1>9. CASE UNCHANGED sessionVars
  BY <1>9 DEF sessionVars
<1> QED
  BY <1>1, <1>2, <1>3, <1>4, <1>5, <1>6, <1>7, <1>8, <1>9 DEF SessionNext, HandleClient

LEMMA LineStart == ASSUME SessionInit PROVE Lines!LineInit
<1>1. <<>> \in Seq(Bytes) /\ <<>> \o <<>> = <<>>
  BY EmptySeq, ConcatEmptySeq
<1> QED BY <1>1 DEF SessionInit, Lines!LineInit

\* The stream is answered line by line, for every alphabet, every length of
\* the stream, every size of the receive buffer and every way to cut it.
THEOREM SessionIsLines == SessionSpec => LinesInOrder
<1>1. SessionInit => SInv /\ Lines!LineInit
  BY SInit, LineStart
<1>2. SInv /\ [SessionNext]_sessionVars => SInv'
  BY SStep
<1>3. SInv /\ [SessionNext]_sessionVars => [Lines!LineNext]_Lines!lineVars
  BY LineStep
<1> QED BY <1>1, <1>2, <1>3, PTL DEF SessionSpec, LinesInOrder, Lines!LineSpec

=============================================================================
