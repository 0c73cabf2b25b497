---------------------------- MODULE LineSession ----------------------------
(***************************************************************************)
(* What a connection promises its client: the bytes the client sends are   *)
(* lines, and each is answered in turn until a line says QUIT, however the *)
(* network cuts the stream and whatever the size of the server's buffer.   *)
(***************************************************************************)
EXTENDS Naturals, Sequences

CONSTANTS
  Bytes,      \* the alphabet
  LF, CR, NUL,
  QUIT        \* the line that ends the session

VARIABLES
  inbox,      \* bytes that were sent and belong to no answered line
  answered,   \* the lines answered so far
  gone,       \* whether the client has closed the connection
  status      \* "open", or how it ended: "quit", "closed" or "killed"

lineVars == <<inbox, answered, gone, status>>

\* A carriage return at the end does not belong to the line.
Trim(line) ==
  IF line # <<>> /\ line[Len(line)] = CR THEN SubSeq(line, 1, Len(line) - 1) ELSE line

\* The first line of s ends at position n.
EndsAt(s, n) == n \in 1..Len(s) /\ s[n] = LF /\ \A m \in 1..(n - 1) : s[m] # LF

FirstLine(s, n) == Trim(SubSeq(s, 1, n - 1))
After(s, n) == SubSeq(s, n + 1, Len(s))

LineInit == inbox = <<>> /\ answered = <<>> /\ gone = FALSE /\ status = "open"

Sent(b) == inbox' = Append(inbox, b) /\ UNCHANGED <<answered, gone, status>>

Answered ==
  /\ status = "open"
  /\ \E n \in 1..Len(inbox) :
       /\ EndsAt(inbox, n)
       /\ answered' = Append(answered, FirstLine(inbox, n))
       /\ inbox' = After(inbox, n)
       /\ status' = IF FirstLine(inbox, n) = QUIT THEN "quit" ELSE "open"
  /\ UNCHANGED gone

\* What stands behind a NUL may be lost with it, up to anywhere.
Lost ==
  /\ \E i \in 1..Len(inbox) : \E j \in i..Len(inbox) :
       inbox[i] = NUL /\ inbox' = SubSeq(inbox, 1, i - 1) \o After(inbox, j)
  /\ UNCHANGED <<answered, gone, status>>

Left == gone' = TRUE /\ UNCHANGED <<inbox, answered, status>>

\* A client that has gone may have its last bytes dropped, and may take the
\* server with it.
Broken ==
  /\ gone
  /\ \E i \in 0..Len(inbox) : inbox' = SubSeq(inbox, 1, i)
  /\ status' \in {status, "killed"}
  /\ UNCHANGED <<answered, gone>>

\* Without QUIT the server ends the session when no whole line is left.
Closed ==
  /\ status = "open"
  /\ \A n \in 1..Len(inbox) : inbox[n] # LF
  /\ status' = "closed"
  /\ UNCHANGED <<inbox, answered, gone>>

LineNext ==
  (\E b \in Bytes : Sent(b)) \/ Answered \/ Lost \/ Left \/ Broken \/ Closed

LineSpec == LineInit /\ [][LineNext]_lineVars

=============================================================================
