--------------------------- MODULE TCPConnections ---------------------------
(***************************************************************************)
(* TCPServer's sockets: start(), run(), stop() and the ends of             *)
(* handleClient, driven by tcp_main, over the table of file descriptors    *)
(* they share with each other and with the files the commands open.        *)
(*                                                                         *)
(* A descriptor is a number that is given out again as soon as it is       *)
(* closed; serverSock_ and clientSock are such numbers, so who closes one  *)
(* twice may close what somebody else has opened since.  accept() holds on *)
(* to the socket it was called on: closing the number does not wake it,    *)
(* and the socket goes on listening until accept() returns.                *)
(***************************************************************************)
EXTENDS Naturals

CONSTANTS
  Conns,      \* connections clients may make, each once
  Fds,        \* the descriptors the process may have
  Free,       \* what an unused descriptor refers to
  NoFd,       \* -1
  Fails       \* which calls may fail: "socket", "bind", "listen"

ASSUME ConnectionsAssumption ==
  /\ Fds \subseteq Nat
  /\ NoFd \notin Fds
  /\ Free \notin Conns \cup {"listener"} \cup (Conns \X {"file"})
  /\ "listener" \notin Conns
  /\ Conns \cap (Conns \X {"file"}) = {} /\ "listener" \notin Conns \X {"file"}

VARIABLES
  running,    \* running_
  serverSock, \* serverSock_
  fds,        \* fds[d]: what descriptor d refers to
  main,       \* where main() is: before start(), waiting for Enter, in
              \* stop(), in the destructor's stop(), or ended
  run,        \* where run() is; "blocked": in accept(), on the listener
  handler,    \* handler[c]: where the thread of connection c is
  sock,       \* sock[c]: its clientSock
  file,       \* file[c]: the descriptor of the file it saves or loads
  peer        \* peer[c]: the client's side of connection c

connVars == <<running, serverSock, fds, main, run, handler, sock, file, peer>>

Holders == {Free, "listener"} \cup Conns \cup (Conns \X {"file"})

ConnTypeOK ==
  /\ running \in BOOLEAN
  /\ serverSock \in Fds \cup {NoFd}
  /\ fds \in [Fds -> Holders]
  /\ main \in {"start", "waiting", "closing", "joining", "destroying", "leaving", "ended"}
  /\ run \in {"none", "socket", "bind", "listen", "check", "accept", "blocked", "close", "done"}
  /\ handler \in [Conns -> {"none", "loop", "close", "quit", "done"}]
  /\ sock \in [Conns -> Fds \cup {NoFd}]
  /\ file \in [Conns -> Fds \cup {NoFd}]
  /\ peer \in [Conns -> {"away", "here", "left"}]
  /\ \A c \in Conns : handler[c] # "none" => sock[c] \in Fds

ConnInit ==
  /\ running = FALSE
  /\ serverSock = NoFd
  /\ fds = [d \in Fds |-> Free]
  /\ main = "start"
  /\ run = "none"
  /\ handler = [c \in Conns |-> "none"]
  /\ sock = [c \in Conns |-> NoFd]
  /\ file = [c \in Conns |-> NoFd]
  /\ peer = [c \in Conns |-> "away"]

-----------------------------------------------------------------------------
(* Descriptors.                                                            *)

\* The lowest free descriptor d now refers to holder.
Opens(d, holder) ==
  /\ fds[d] = Free
  /\ \A e \in Fds : fds[e] = Free => d <= e
  /\ fds' = [fds EXCEPT ![d] = holder]

\* close(): of a number that is not in use it fails, and nobody looks.
Closes(d) == fds' = [e \in Fds |-> IF e = d THEN Free ELSE fds[e]]

Full == \A d \in Fds : fds[d] # Free

\* Connection c has been made and not been accepted.
Waiting(c) == peer[c] # "away" /\ handler[c] = "none"

\* Somebody answers the port.
Listening ==
  \/ run = "blocked"
  \/ run \in {"check", "accept", "close"} /\ \E d \in Fds : fds[d] = "listener"

-----------------------------------------------------------------------------
(* main(), start() and stop().                                             *)
Start ==
  /\ main = "start"
  /\ running' = TRUE
  /\ run' = "socket"
  /\ main' = "waiting"
  /\ UNCHANGED <<serverSock, fds, handler, sock, file, peer>>

\* Enter is pressed; stop() begins.
Enter ==
  /\ main = "waiting"
  /\ running' = FALSE
  /\ main' = "closing"
  /\ UNCHANGED <<serverSock, fds, run, handler, sock, file, peer>>

\* In main()'s stop(), and once more in the destructor's, where there is no
\* thread to join any more.
StopCloses ==
  /\ main \in {"closing", "destroying"}
  /\ IF serverSock = NoFd THEN UNCHANGED fds ELSE Closes(serverSock)
  /\ main' = IF main = "closing" THEN "joining" ELSE "leaving"
  /\ UNCHANGED <<running, serverSock, run, handler, sock, file, peer>>

Join ==
  /\ main = "joining"
  /\ run = "done"
  /\ main' = "destroying"
  /\ UNCHANGED <<running, serverSock, fds, run, handler, sock, file, peer>>

\* The process ends with the threads of its clients, whatever they are doing.
Ended ==
  /\ main' = "ended"
  /\ run' = "done"
  /\ fds' = [d \in Fds |-> Free]
  /\ handler' = [c \in Conns |-> IF handler[c] = "none" THEN "none" ELSE "done"]
  /\ file' = [c \in Conns |-> NoFd]
  /\ UNCHANGED <<running, serverSock, sock, peer>>

Exit == main = "leaving" /\ Ended

-----------------------------------------------------------------------------
(* run().                                                                  *)
Socket ==
  /\ run = "socket"
  /\ \E d \in Fds : Opens(d, "listener") /\ serverSock' = d
  /\ run' = "bind"
  /\ UNCHANGED <<running, main, handler, sock, file, peer>>

\* run() returns, and nothing of what it has done is undone.
RunFails(call) ==
  /\ run = call
  /\ call \in Fails \/ (call # "socket" /\ fds[serverSock] # "listener")
  /\ run' = "done"
  /\ UNCHANGED <<running, serverSock, fds, main, handler, sock, file, peer>>

BindListen ==
  /\ run \in {"bind", "listen"}
  /\ fds[serverSock] = "listener"
  /\ run' = IF run = "bind" THEN "listen" ELSE "check"
  /\ UNCHANGED <<running, serverSock, fds, main, handler, sock, file, peer>>

\* Mutated: while(true).
CheckNothing ==
  /\ run = "check"
  /\ run' = "accept"
  /\ UNCHANGED <<running, serverSock, fds, main, handler, sock, file, peer>>

CheckRunning ==
  /\ run = "check"
  /\ run' = IF running THEN "accept" ELSE "close"
  /\ UNCHANGED <<running, serverSock, fds, main, handler, sock, file, peer>>

\* accept() of a number that is not, or no longer, the listener's fails.
CallAccept ==
  /\ run = "accept"
  /\ run' = IF fds[serverSock] = "listener" THEN "blocked" ELSE "check"
  /\ UNCHANGED <<running, serverSock, fds, main, handler, sock, file, peer>>

\* Mutated: accept()'s -1 is handed to a thread.
AcceptUnchecked(c) ==
  /\ run = "blocked"
  /\ Waiting(c)
  /\ \/ \E d \in Fds : Opens(d, c) /\ sock' = [sock EXCEPT ![c] = d]
     \/ Full /\ UNCHANGED <<fds, sock>>
  /\ handler' = [handler EXCEPT ![c] = "loop"]
  /\ run' = "check"
  /\ UNCHANGED <<running, serverSock, main, file, peer>>

\* The connection gets the lowest free descriptor and a thread of its own.
Accept(c) ==
  /\ run = "blocked"
  /\ Waiting(c)
  /\ \E d \in Fds : Opens(d, c) /\ sock' = [sock EXCEPT ![c] = d]
  /\ handler' = [handler EXCEPT ![c] = "loop"]
  /\ run' = "check"
  /\ UNCHANGED <<running, serverSock, main, file, peer>>

\* Mutated: the loop ends.
AcceptBreaks ==
  /\ run = "blocked"
  /\ Full
  /\ \E c \in Conns : Waiting(c)
  /\ run' = "close"
  /\ UNCHANGED <<running, serverSock, fds, main, handler, sock, file, peer>>

\* There is no descriptor left: accept() fails, and the loop goes round.
AcceptFails ==
  /\ run = "blocked"
  /\ Full
  /\ \E c \in Conns : Waiting(c)
  /\ run' = "check"
  /\ UNCHANGED <<running, serverSock, fds, main, handler, sock, file, peer>>

RunCloses ==
  /\ run = "close"
  /\ Closes(serverSock)
  /\ run' = "done"
  /\ UNCHANGED <<running, serverSock, main, handler, sock, file, peer>>

-----------------------------------------------------------------------------
(* handleClient of connection c; module TCPSession has its loop.           *)

\* A command saves or loads a file, if there is a descriptor for it.
OpenFile(c) ==
  /\ handler[c] = "loop"
  /\ file[c] = NoFd
  /\ \E d \in Fds : Opens(d, <<c, "file">>) /\ file' = [file EXCEPT ![c] = d]
  /\ UNCHANGED <<running, serverSock, main, run, handler, sock, peer>>

CloseFile(c) ==
  /\ file[c] # NoFd
  /\ Closes(file[c])
  /\ file' = [file EXCEPT ![c] = NoFd]
  /\ UNCHANGED <<running, serverSock, main, run, handler, sock, peer>>

\* QUIT: handleClient returns from inside the loop.
Quit(c) ==
  /\ handler[c] = "loop"
  /\ file[c] = NoFd
  /\ handler' = [handler EXCEPT ![c] = "quit"]
  /\ UNCHANGED <<running, serverSock, fds, main, run, sock, file, peer>>

\* Mutated: bytes < 0.
RecvErrors(c) ==
  /\ handler[c] = "loop"
  /\ file[c] = NoFd
  /\ fds[sock[c]] # c
  /\ handler' = [handler EXCEPT ![c] = "close"]
  /\ UNCHANGED <<running, serverSock, fds, main, run, sock, file, peer>>

\* recv() returns 0 or -1: the client has left, or the number is no longer
\* this connection's.
RecvEnds(c) ==
  /\ handler[c] = "loop"
  /\ file[c] = NoFd
  /\ peer[c] = "left" \/ fds[sock[c]] # c
  /\ handler' = [handler EXCEPT ![c] = "close"]
  /\ UNCHANGED <<running, serverSock, fds, main, run, sock, file, peer>>

\* Mutated: the loop goes on.
CloseSocketAndLoop(c) ==
  /\ handler[c] = "close"
  /\ Closes(sock[c])
  /\ handler' = [handler EXCEPT ![c] = "loop"]
  /\ UNCHANGED <<running, serverSock, main, run, sock, file, peer>>

CloseSocket(c) ==
  /\ handler[c] = "close"
  /\ Closes(sock[c])
  /\ handler' = [handler EXCEPT ![c] = "done"]
  /\ UNCHANGED <<running, serverSock, main, run, sock, file, peer>>

\* send() to a client that has left ends the process (SIGPIPE).
Killed(c) ==
  /\ handler[c] = "loop"
  /\ file[c] = NoFd
  /\ peer[c] = "left"
  /\ Ended

-----------------------------------------------------------------------------
(* The clients.                                                            *)
Connect(c) ==
  /\ peer[c] = "away"
  /\ Listening
  /\ peer' = [peer EXCEPT ![c] = "here"]
  /\ UNCHANGED <<running, serverSock, fds, main, run, handler, sock, file>>

Leave(c) ==
  /\ peer[c] = "here"
  /\ peer' = [peer EXCEPT ![c] = "left"]
  /\ UNCHANGED <<running, serverSock, fds, main, run, handler, sock, file>>

-----------------------------------------------------------------------------
Main == Start \/ StopCloses \/ Join \/ Exit

Run ==
  \/ Socket \/ BindListen \/ CheckRunning \/ CallAccept \/ AcceptFails \/ RunCloses
  \/ \E call \in {"socket", "bind", "listen"} : RunFails(call)
  \/ \E c \in Conns : Accept(c)

HandleClient(c) == RecvEnds(c) \/ CloseSocket(c) \/ CloseFile(c)

ConnNext ==
  \/ Main \/ Enter \/ Run
  \/ \E c \in Conns :
       HandleClient(c) \/ OpenFile(c) \/ Quit(c) \/ Killed(c) \/ Connect(c) \/ Leave(c)

ConnSpec == ConnInit /\ [][ConnNext]_connVars

\* Threads run; and a client that has left has sent only so many commands, so
\* that its recv() ends.  Nobody has to connect, to leave or to press Enter.
FairConnections ==
  /\ ConnSpec
  /\ WF_connVars(Main) /\ WF_connVars(Run)
  /\ \A c \in Conns : WF_connVars(HandleClient(c)) /\ SF_connVars(RecvEnds(c))

-----------------------------------------------------------------------------
\* Every thread has the descriptors it has opened: nobody else's close() has
\* taken one away.
HaveOwn ==
  /\ \A c \in Conns : handler[c] \in {"loop", "close"} => fds[sock[c]] = c
  /\ \A c \in Conns : file[c] # NoFd => fds[file[c]] = <<c, "file">>
  /\ run \in {"bind", "listen", "check", "accept", "blocked"} => fds[serverSock] = "listener"

\* A descriptor in use is the listener's, a connection's that goes on or has
\* said QUIT, or that of a file being saved or loaded: nothing else leaks.
Accounted(d) ==
  \/ fds[d] = Free
  \/ fds[d] = "listener" /\ serverSock = d
  \/ \E c \in Conns : fds[d] = c /\ sock[c] = d /\ handler[c] \in {"loop", "close", "quit"}
  \/ \E c \in Conns : fds[d] = <<c, "file">> /\ file[c] = d

\* Until stop() is called.
OwnDescriptors ==
  main \in {"start", "waiting"} => HaveOwn /\ \A d \in Fds : Accounted(d)

\* And from then on: stop(), the destructor and run() close serverSock_ again and
\* again, and whoever has been given that number meanwhile may lose it, or close
\* it for another; but the harm stays with that one number.  Every other one is
\* still its opener's, and none leaks.
DoubleCloseConfined ==
  /\ \A c \in Conns :
       /\ handler[c] \in {"loop", "close"} /\ sock[c] # serverSock => fds[sock[c]] = c
       /\ file[c] \notin {NoFd, serverSock} => fds[file[c]] = <<c, "file">>
  /\ \A d \in Fds \ {serverSock} : Accounted(d)

\* The steps run() has before it at most, once running_ is false.
RunLeft ==
  CASE run = "socket"  -> 7
    [] run = "bind"    -> 6
    [] run = "listen"  -> 5
    [] run = "accept"  -> 4
    [] run = "blocked" -> 3
    [] run = "check"   -> 2
    [] run = "close"   -> 1
    [] OTHER           -> 0

\* From stop() on the loop cannot be kept alive, wherever run() was when running_
\* was cleared, its beginning included, and whoever connects, leaves or takes
\* descriptors: each step of run() brings it nearer its end, so that it accepts one
\* more connection at most.
StopConverges ==
  [][(main \in {"closing", "joining"}) => (run' = run \/ RunLeft' < RunLeft)]_connVars

\* stop() hangs for one reason only: run() sits in accept(), which the close
\* has not woken, and no client connects any more.
StopHangsInAccept ==
  <>[](main = "joining") =>
    <>[](run = "blocked" /\ \A c \in Conns : ~Waiting(c))

\* A client that connects is accepted unless the descriptors run out again
\* and again.
Accepted == \A c \in Conns : <>[](Waiting(c) /\ main = "waiting") => []<>Full

\* A connection whose client leaves gives its descriptor back, unless it has
\* said QUIT before.
Released ==
  \A c \in Conns :
    handler[c] = "loop" /\ peer[c] = "left"
      ~> handler[c] = "quit" \/ \A d \in Fds : fds[d] # c

\* QUIT disconnects.
QuitDisconnects ==
  \A c \in Conns : handler[c] = "quit" ~> \A d \in Fds : fds[d] # c

=============================================================================
