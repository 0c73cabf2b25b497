----------------------------- MODULE TCPSession -----------------------------
(***************************************************************************)
(* One connection of TCPServer as handleClient sees it: recv hands over    *)
(* any piece of what has arrived, the loop splits off the lines, answers   *)
(* each and carries the rest over to the next recv.  What the commands do  *)
(* is in module TCPServer; here a reply is the line it answers.            *)
(***************************************************************************)
EXTENDS Naturals, Sequences

CONSTANTS
  Bytes,      \* the alphabet
  LF, CR, NUL,
  QUIT,       \* the line that ends the session
  RecvMax,    \* bytes one recv asks for (BUFFER_SIZE - 1)
  MaxBytes    \* bytes a client sends in its life

ASSUME SessionAssumption ==
  /\ {LF, CR, NUL} \subseteq Bytes
  /\ LF # NUL
  /\ QUIT \in Seq(Bytes)
  /\ RecvMax \in Nat \ {0}
  /\ MaxBytes \in Nat

VARIABLES
  wire,       \* bytes sent and not yet received
  partial,    \* bytes received and not yet split off
  replies,    \* the lines answered so far
  pc,         \* "recv", "split", or how the session ended
  client,     \* "here"; "half": sends no more, but reads; "gone"
  sent        \* how many bytes the client has sent

sessionVars == <<wire, partial, replies, pc, client, sent>>

Lines == INSTANCE LineSession WITH
  inbox <- partial \o wire,
  answered <- replies,
  gone <- client = "gone",
  status <- IF pc \in {"recv", "split"} THEN "open" ELSE pc

\* buffer ends with a NUL, and so does all that `partial += buffer' adds.
SessionTypeOK ==
  /\ wire \in Seq(Bytes)
  /\ partial \in Seq(Bytes \ {NUL})
  /\ replies \in Seq(Seq(Bytes \ {LF, NUL}))
  /\ pc \in {"recv", "split", "quit", "closed", "killed"}
  /\ client \in {"here", "half", "gone"}
  /\ sent \in 0..MaxBytes

SessionInit ==
  /\ wire = <<>> /\ partial = <<>> /\ replies = <<>>
  /\ pc = "recv" /\ client = "here" /\ sent = 0

-----------------------------------------------------------------------------
(* The client and the network.                                             *)
Send(b) ==
  /\ client = "here"
  /\ sent < MaxBytes
  /\ sent' = sent + 1
  /\ wire' = Append(wire, b)
  /\ UNCHANGED <<partial, replies, pc, client>>

Leave ==
  /\ \/ client = "here" /\ client' \in {"half", "gone"}
     \/ client = "half" /\ client' = "gone"
  /\ UNCHANGED <<wire, partial, replies, pc, sent>>

\* A reset: what was not yet received is dropped.
Reset ==
  /\ client = "gone"
  /\ wire' = <<>>
  /\ UNCHANGED <<partial, replies, pc, client, sent>>

-----------------------------------------------------------------------------
(* handleClient.                                                           *)

\* Mutated: all of the buffer is added.
CStringWhole(n, k) == k = n

\* The C string in a buffer with the first n bytes of the wire has k bytes.
CString(n, k) ==
  /\ \A i \in 1..k : wire[i] # NUL
  /\ k < n => wire[k + 1] = NUL

Recv ==
  /\ pc = "recv"
  /\ \E n \in 1..Len(wire) : \E k \in 0..n :
       /\ n <= RecvMax
       /\ CString(n, k)
       /\ partial' = partial \o SubSeq(wire, 1, k)
       /\ wire' = Lines!After(wire, n)
  /\ pc' = "split"
  /\ UNCHANGED <<replies, client, sent>>

\* recv returns 0 or -1: the socket is closed.
RecvEnds ==
  /\ pc = "recv"
  /\ wire = <<>>
  /\ client # "here"
  /\ pc' = "closed"
  /\ UNCHANGED <<wire, partial, replies, client, sent>>

\* Mutated: what follows the line in the buffer is dropped with it.
AnswerAndDrop ==
  /\ pc = "split"
  /\ \E pos \in 1..Len(partial) :
       /\ Lines!EndsAt(partial, pos)
       /\ partial' = <<>>
       /\ LET line == Lines!FirstLine(partial, pos)
          IN  replies' = Append(replies, line) /\ pc' = IF line = QUIT THEN "quit" ELSE "split"
  /\ UNCHANGED <<wire, client, sent>>

\* Mutated: one line per recv.
AnswerOnce ==
  /\ pc = "split"
  /\ \E pos \in 1..Len(partial) :
       /\ Lines!EndsAt(partial, pos)
       /\ partial' = Lines!After(partial, pos)
       /\ LET line == Lines!FirstLine(partial, pos)
          IN  replies' = Append(replies, line) /\ pc' = IF line = QUIT THEN "quit" ELSE "recv"
  /\ UNCHANGED <<wire, client, sent>>

\* The loop over the lines: each is answered, and QUIT returns, with the
\* socket open (module TCPConnections).
Answer ==
  /\ pc = "split"
  /\ \E pos \in 1..Len(partial) :
       /\ Lines!EndsAt(partial, pos)
       /\ partial' = Lines!After(partial, pos)
       /\ LET line == Lines!FirstLine(partial, pos)
          IN  replies' = Append(replies, line) /\ pc' = IF line = QUIT THEN "quit" ELSE "split"
  /\ UNCHANGED <<wire, client, sent>>

\* send() to a connection that has been reset raises SIGPIPE.
Killed ==
  /\ pc = "split"
  /\ client = "gone"
  /\ \E pos \in 1..Len(partial) : partial[pos] = LF
  /\ pc' = "killed"
  /\ UNCHANGED <<wire, partial, replies, client, sent>>

NoLine ==
  /\ pc = "split"
  /\ \A pos \in 1..Len(partial) : partial[pos] # LF
  /\ pc' = "recv"
  /\ UNCHANGED <<wire, partial, replies, client, sent>>

HandleClient == Recv \/ RecvEnds \/ Answer \/ Killed \/ NoLine

SessionNext == (\E b \in Bytes : Send(b)) \/ Leave \/ Reset \/ HandleClient

SessionSpec == SessionInit /\ [][SessionNext]_sessionVars

\* The operating system runs the thread, and recv returns when there is
\* something to return.
FairSession == SessionSpec /\ WF_sessionVars(HandleClient)

-----------------------------------------------------------------------------
\* The stream is answered line by line, in order, whatever pieces recv makes
\* of it: a command cut in two, several at once, a QUIT with more behind it.
LinesInOrder == Lines!LineSpec

\* Whole lines are waiting and n have been answered.
Waiting(n) ==
  /\ pc \in {"recv", "split"}
  /\ client # "gone"
  /\ \E i \in 1..Len(partial \o wire) : (partial \o wire)[i] = LF
  /\ Len(replies) = n

\* A whole line that has arrived is answered although nothing more comes.
LinesAnswered == \A n \in 0..MaxBytes : Waiting(n) ~> ~Waiting(n)

=============================================================================
