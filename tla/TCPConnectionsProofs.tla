------------------------ MODULE TCPConnectionsProofs ------------------------
(***************************************************************************)
(* Type correctness of TCPConnections; that its threads keep to the        *)
(* descriptors they have opened until stop() is called; that from then on  *)
(* they can lose one number only, that of serverSock_; and that from then  *)
(* on run() comes nearer its end with each of its steps.                   *)
(***************************************************************************)
EXTENDS TCPConnections, TLAPS

\* Where the program is, as far as the descriptors depend on it: run() has a
\* descriptor in serverSock_ from socket() on, leaves its loop only after
\* running_ was cleared, and a command has a file open only while it runs.
Stages ==
  /\ run \in {"none", "socket"} => serverSock = NoFd
  /\ run \in {"bind", "listen", "check", "accept", "blocked", "close"} => serverSock \in Fds
  /\ main \in {"start", "waiting"} => run # "close"
  /\ main = "start" => run = "none"
  /\ main = "waiting" => running = TRUE
  /\ \A c \in Conns : file[c] # NoFd => handler[c] = "loop"

ConnInv == ConnTypeOK /\ Stages /\ OwnDescriptors

\* The steps, one disjunct each.
LEMMA ConnSteps ==
  ASSUME ConnNext
  PROVE  \/ Start \/ StopCloses \/ Join \/ Exit \/ Enter
         \/ Socket \/ BindListen \/ CheckRunning \/ CallAccept \/ AcceptFails \/ RunCloses
         \/ RunFails("socket") \/ RunFails("bind") \/ RunFails("listen")
         \/ \E c \in Conns : \/ Accept(c) \/ RecvEnds(c) \/ CloseSocket(c) \/ CloseFile(c)
                             \/ OpenFile(c) \/ Quit(c) \/ Killed(c) \/ Connect(c) \/ Leave(c)
BY DEF ConnNext, Main, Run, HandleClient

\* The holders of descriptors are told apart.
LEMMA HoldersDiffer ==
  /\ NoFd \notin Fds
  /\ Free # "listener"
  /\ \A c \in Conns : c # Free /\ c # "listener" /\ <<c, "file">> # Free /\ <<c, "file">> # "listener"
  /\ \A c, e \in Conns : c # <<e, "file">>
BY ConnectionsAssumption

\* Init establishes the invariant.
LEMMA ConnInvInit == ConnInit => ConnInv
BY HoldersDiffer DEF ConnInit, ConnInv, ConnTypeOK, Stages, OwnDescriptors, HaveOwn, Accounted, Holders

\* main()'s steps keep it: from stop() on nothing is claimed of descriptors.
LEMMA ConnInvMain ==
  ASSUME ConnInv, Start \/ StopCloses \/ Join \/ Exit \/ Enter
  PROVE  ConnInv'
<1> USE DEF ConnInv, ConnTypeOK, Stages, Holders
<1>1. CASE Start
  BY <1>1, HoldersDiffer DEF Start, OwnDescriptors, HaveOwn, Accounted
<1>2. CASE Enter
  BY <1>2 DEF Enter, OwnDescriptors, HaveOwn, Accounted
<1>3. CASE StopCloses
  BY <1>3 DEF StopCloses, Closes, OwnDescriptors, HaveOwn, Accounted
<1>4. CASE Join
  BY <1>4 DEF Join, OwnDescriptors, HaveOwn, Accounted
<1>5. CASE Exit
  BY <1>5 DEF Exit, Ended, OwnDescriptors, HaveOwn, Accounted
<1> QED BY <1>1, <1>2, <1>3, <1>4, <1>5

\* So do run()'s own, but for Accept.
LEMMA ConnInvRun ==
  ASSUME ConnInv,
         \/ Socket \/ BindListen \/ CheckRunning \/ CallAccept \/ AcceptFails \/ RunCloses
         \/ RunFails("socket") \/ RunFails("bind") \/ RunFails("listen")
  PROVE  ConnInv'
<1> USE DEF ConnInv, ConnTypeOK, Stages, Holders
<1>1. CASE Socket
  <2>1. ConnTypeOK'
    BY <1>1, HoldersDiffer DEF Socket, Opens
  <2>2. Stages'
    BY <1>1, HoldersDiffer DEF Socket, Opens
  <2>3. OwnDescriptors'
    <3> SUFFICES ASSUME main' \in {"start", "waiting"}
                 PROVE  HaveOwn' /\ \A d \in Fds : Accounted(d)'
      BY DEF OwnDescriptors
    <3>1. HaveOwn /\ \A d \in Fds : Accounted(d)
      BY <1>1 DEF OwnDescriptors, Socket
    <3>2. HaveOwn'
      BY <3>1, <1>1, HoldersDiffer DEF HaveOwn, Socket, Opens
    <3>3. ASSUME NEW d \in Fds PROVE Accounted(d)'
      BY <3>1, <1>1, HoldersDiffer DEF HaveOwn, Accounted, Socket, Opens
    <3> QED BY <3>2, <3>3
  <2> QED BY <2>1, <2>2, <2>3
<1>2. CASE BindListen
  BY <1>2 DEF BindListen, OwnDescriptors, HaveOwn, Accounted
<1>3. CASE CheckRunning
  BY <1>3 DEF CheckRunning, OwnDescriptors, HaveOwn, Accounted
<1>4. CASE CallAccept
  BY <1>4 DEF CallAccept, OwnDescriptors, HaveOwn, Accounted
<1>5. CASE AcceptFails
  BY <1>5 DEF AcceptFails, OwnDescriptors, HaveOwn, Accounted
<1>6. CASE RunCloses
  BY <1>6 DEF RunCloses, Closes, OwnDescriptors, HaveOwn, Accounted
<1>7. CASE RunFails("socket") \/ RunFails("bind") \/ RunFails("listen")
  BY <1>7 DEF RunFails, OwnDescriptors, HaveOwn, Accounted
<1> QED BY <1>1, <1>2, <1>3, <1>4, <1>5, <1>6, <1>7

\* And those of a connection.
LEMMA ConnInvHandler ==
  ASSUME ConnInv, NEW c \in Conns,
         \/ Accept(c) \/ RecvEnds(c) \/ CloseSocket(c) \/ CloseFile(c)
         \/ OpenFile(c) \/ Quit(c) \/ Killed(c) \/ Connect(c) \/ Leave(c)
  PROVE  ConnInv'
<1> USE DEF ConnInv, ConnTypeOK, Stages, Holders
<1>1. CASE Accept(c)
  <2>1. ConnTypeOK'
    BY <1>1, HoldersDiffer DEF Accept, Opens, Waiting
  <2>2. Stages'
    BY <1>1, HoldersDiffer DEF Accept, Opens, Waiting
  <2>3. OwnDescriptors'
    <3> SUFFICES ASSUME main' \in {"start", "waiting"}
                 PROVE  HaveOwn' /\ \A d \in Fds : Accounted(d)'
      BY DEF OwnDescriptors
    <3>1. HaveOwn /\ \A d \in Fds : Accounted(d)
      BY <1>1 DEF OwnDescriptors, Accept
    <3>2. HaveOwn'
      <4>1. PICK d \in Fds : /\ fds[d] = Free /\ fds' = [fds EXCEPT ![d] = c]
                             /\ sock' = [sock EXCEPT ![c] = d]
        BY <1>1 DEF Accept, Opens
      <4>2. /\ handler' = [handler EXCEPT ![c] = "loop"] /\ run' = "check"
            /\ UNCHANGED <<file, serverSock>> /\ run = "blocked"
        BY <1>1 DEF Accept
      <4>3. ASSUME NEW e \in Conns, handler'[e] \in {"loop", "close"} PROVE fds'[sock'[e]] = e
        BY <4>1, <4>2, <4>3, <3>1, HoldersDiffer DEF HaveOwn
      <4>4. ASSUME NEW e \in Conns, file'[e] # NoFd PROVE fds'[file'[e]] = <<e, "file">>
        BY <4>1, <4>2, <4>4, <3>1, HoldersDiffer DEF HaveOwn
      <4>5. fds'[serverSock'] = "listener"
        BY <4>1, <4>2, <3>1, HoldersDiffer DEF HaveOwn
      <4> QED BY <4>3, <4>4, <4>5 DEF HaveOwn
    <3>3. ASSUME NEW d \in Fds PROVE Accounted(d)'
      BY <3>1, <1>1, HoldersDiffer DEF HaveOwn, Accounted, Accept, Opens, Waiting
    <3> QED BY <3>2, <3>3
  <2> QED BY <2>1, <2>2, <2>3
<1>2. CASE RecvEnds(c)
  BY <1>2 DEF RecvEnds, OwnDescriptors, HaveOwn, Accounted
<1>3. CASE CloseSocket(c)
  <2>1. ConnTypeOK'
    BY <1>3, HoldersDiffer DEF CloseSocket, Closes
  <2>2. Stages'
    BY <1>3, HoldersDiffer DEF CloseSocket, Closes
  <2>3. OwnDescriptors'
    <3> SUFFICES ASSUME main' \in {"start", "waiting"}
                 PROVE  HaveOwn' /\ \A d \in Fds : Accounted(d)'
      BY DEF OwnDescriptors
    <3>1. HaveOwn /\ \A d \in Fds : Accounted(d)
      BY <1>3 DEF OwnDescriptors, CloseSocket
    <3>2. HaveOwn'
      <4>1. /\ sock[c] \in Fds /\ fds[sock[c]] = c
            /\ \A d \in Fds \ {sock[c]} : fds'[d] = fds[d]
            /\ handler' = [handler EXCEPT ![c] = "done"]
            /\ UNCHANGED <<file, sock, run, serverSock>>
        BY <3>1, <1>3 DEF HaveOwn, CloseSocket, Closes
      <4>2. ASSUME NEW e \in Conns, handler'[e] \in {"loop", "close"} PROVE fds'[sock'[e]] = e
        BY <4>1, <4>2, <3>1, HoldersDiffer DEF HaveOwn
      <4>3. ASSUME NEW e \in Conns, file'[e] # NoFd PROVE fds'[file'[e]] = <<e, "file">>
        <5>1. file[e] \in Fds /\ fds[file[e]] = <<e, "file">>
          BY <4>1, <4>3, <3>1 DEF HaveOwn
        <5>2. file[e] # sock[c]
          BY <5>1, <4>1, HoldersDiffer
        <5> QED BY <5>1, <5>2, <4>1
      <4>4. ASSUME run' \in {"bind", "listen", "check", "accept", "blocked"}
            PROVE  fds'[serverSock'] = "listener"
        BY <4>1, <4>4, <3>1, HoldersDiffer DEF HaveOwn
      <4> QED BY <4>2, <4>3, <4>4 DEF HaveOwn
    <3>3. ASSUME NEW d \in Fds PROVE Accounted(d)'
      BY <3>1, <1>3, HoldersDiffer DEF HaveOwn, Accounted, CloseSocket, Closes
    <3> QED BY <3>2, <3>3
  <2> QED BY <2>1, <2>2, <2>3
<1>4. CASE CloseFile(c)
  <2>1. ConnTypeOK'
    BY <1>4, HoldersDiffer DEF CloseFile, Closes
  <2>2. Stages'
    BY <1>4, HoldersDiffer DEF CloseFile, Closes
  <2>3. OwnDescriptors'
    <3> SUFFICES ASSUME main' \in {"start", "waiting"}
                 PROVE  HaveOwn' /\ \A d \in Fds : Accounted(d)'
      BY DEF OwnDescriptors
    <3>1. HaveOwn /\ \A d \in Fds : Accounted(d)
      BY <1>4 DEF OwnDescriptors, CloseFile
    <3>2. HaveOwn'
      <4>1. /\ file[c] \in Fds /\ fds[file[c]] = <<c, "file">>
            /\ \A d \in Fds \ {file[c]} : fds'[d] = fds[d]
            /\ file' = [file EXCEPT ![c] = NoFd]
            /\ UNCHANGED <<handler, sock, run, serverSock>>
        BY <3>1, <1>4 DEF HaveOwn, CloseFile, Closes
      <4>2. ASSUME NEW e \in Conns, handler'[e] \in {"loop", "close"} PROVE fds'[sock'[e]] = e
        BY <4>1, <4>2, <3>1, HoldersDiffer DEF HaveOwn
      <4>3. ASSUME NEW e \in Conns, file'[e] # NoFd PROVE fds'[file'[e]] = <<e, "file">>
        BY <4>1, <4>3, <3>1, HoldersDiffer DEF HaveOwn
      <4>4. ASSUME run' \in {"bind", "listen", "check", "accept", "blocked"}
            PROVE  fds'[serverSock'] = "listener"
        BY <4>1, <4>4, <3>1, HoldersDiffer DEF HaveOwn
      <4> QED BY <4>2, <4>3, <4>4 DEF HaveOwn
    <3>3. ASSUME NEW d \in Fds PROVE Accounted(d)'
      BY <3>1, <1>4, HoldersDiffer DEF HaveOwn, Accounted, CloseFile, Closes
    <3> QED BY <3>2, <3>3
  <2> QED BY <2>1, <2>2, <2>3
<1>5. CASE OpenFile(c)
  BY <1>5, HoldersDiffer DEF OpenFile, Opens, OwnDescriptors, HaveOwn, Accounted
<1>6. CASE Quit(c)
  BY <1>6 DEF Quit, OwnDescriptors, HaveOwn, Accounted
<1>7. CASE Killed(c)
  BY <1>7 DEF Killed, Ended, OwnDescriptors, HaveOwn, Accounted
<1>8. CASE Connect(c) \/ Leave(c)
  BY <1>8 DEF Connect, Leave, OwnDescriptors, HaveOwn, Accounted
<1> QED BY <1>1, <1>2, <1>3, <1>4, <1>5, <1>6, <1>7, <1>8

\* The invariant holds in every behaviour.
THEOREM ConnInvariant == ConnSpec => []ConnInv
<1>1. ConnInv /\ [ConnNext]_connVars => ConnInv'
  <2> SUFFICES ASSUME ConnInv, [ConnNext]_connVars PROVE ConnInv'
    OBVIOUS
  <2>1. CASE ConnNext
    BY <2>1, ConnSteps, ConnInvMain, ConnInvRun, ConnInvHandler
  <2>2. CASE UNCHANGED connVars
    BY <2>2 DEF connVars, ConnInv, ConnTypeOK, Stages, OwnDescriptors, HaveOwn, Accounted
  <2> QED BY <2>1, <2>2
<1> QED BY ConnInvInit, <1>1, PTL DEF ConnSpec

\* Every variable of the connections keeps its type, and a thread that
\* handles a client was given a descriptor.
THEOREM ConnTypeCorrect == ConnSpec => []ConnTypeOK
<1>1. ConnInv => ConnTypeOK
  BY DEF ConnInv
<1> QED BY <1>1, ConnInvariant, PTL

\* Until stop() is called the threads have the descriptors they have opened,
\* and no others are in use.
THEOREM DescriptorsCorrect == ConnSpec => []OwnDescriptors
<1>1. ConnInv => OwnDescriptors
  BY DEF ConnInv
<1> QED BY <1>1, ConnInvariant, PTL

-----------------------------------------------------------------------------
(* After stop().                                                           *)

\* Connection c has the descriptors it has opened, but for serverSock_'s number.
HasOwn(c) ==
  /\ handler[c] \in {"loop", "close"} /\ sock[c] # serverSock => fds[sock[c]] = c
  /\ file[c] \notin {NoFd, serverSock} => fds[file[c]] = <<c, "file">>

\* The steps that move no descriptor and keep what they are accounted for by.
LEMMA ConfinedStays ==
  ASSUME DoubleCloseConfined, fds' = fds, serverSock' = serverSock, sock' = sock, file' = file,
         \A c \in Conns :
           /\ handler'[c] \in {"loop", "close"} => handler[c] \in {"loop", "close"}
           /\ handler[c] \in {"loop", "close", "quit"} => handler'[c] \in {"loop", "close", "quit"}
  PROVE  DoubleCloseConfined'
BY DEF DoubleCloseConfined, Accounted

\* Whoever closes the number of serverSock_ does no more harm.
LEMMA ConfinedClose ==
  ASSUME ConnTypeOK, DoubleCloseConfined, Closes(serverSock), UNCHANGED <<serverSock, handler, sock, file>>
  PROVE  DoubleCloseConfined'
<1>1. \A e \in Fds : fds'[e] = IF e = serverSock THEN Free ELSE fds[e]
  BY DEF Closes
<1>2. ASSUME NEW c \in Conns PROVE HasOwn(c)'
  BY <1>1 DEF DoubleCloseConfined, ConnTypeOK, HasOwn
<1>3. ASSUME NEW e \in Fds \ {serverSock} PROVE Accounted(e)'
  BY <1>1 DEF DoubleCloseConfined, Accounted
<1>. QED BY <1>2, <1>3 DEF DoubleCloseConfined, HasOwn

\* The steps of main() and run().
LEMMA ConfinedMain ==
  ASSUME ConnTypeOK, Stages, DoubleCloseConfined,
         \/ Start \/ StopCloses \/ Join \/ Exit \/ Enter
         \/ Socket \/ BindListen \/ CheckRunning \/ CallAccept \/ AcceptFails \/ RunCloses
         \/ RunFails("socket") \/ RunFails("bind") \/ RunFails("listen")
  PROVE  DoubleCloseConfined'
<1>1. CASE \/ Start \/ Join \/ Enter \/ BindListen \/ CheckRunning \/ CallAccept \/ AcceptFails
           \/ RunFails("socket") \/ RunFails("bind") \/ RunFails("listen")
  BY <1>1, ConfinedStays DEF Start, Join, Enter, BindListen, CheckRunning, CallAccept, AcceptFails, RunFails
<1>2. CASE StopCloses \/ RunCloses
  BY <1>2, ConfinedClose, ConfinedStays DEF StopCloses, RunCloses
<1>3. CASE Exit
  BY <1>3, HoldersDiffer DEF Exit, Ended, DoubleCloseConfined, Accounted, ConnTypeOK
<1>4. CASE Socket
  <2>1. PICK d \in Fds : fds[d] = Free /\ fds' = [fds EXCEPT ![d] = "listener"] /\ serverSock' = d
    BY <1>4 DEF Socket, Opens
  <2>2. serverSock = NoFd /\ UNCHANGED <<handler, sock, file>>
    BY <1>4 DEF Socket, Stages
  <2>3. \A e \in Fds \ {d} : fds'[e] = fds[e]
    BY <2>1 DEF ConnTypeOK
  <2>4. ASSUME NEW c \in Conns PROVE HasOwn(c)'
    <3>1. handler[c] \in {"loop", "close"} => sock[c] \in Fds /\ fds[sock[c]] = c
      BY <2>2, HoldersDiffer DEF DoubleCloseConfined, ConnTypeOK
    <3>2. file[c] # NoFd => file[c] \in Fds /\ fds[file[c]] = <<c, "file">>
      BY <2>2 DEF DoubleCloseConfined, ConnTypeOK
    <3>. QED BY <2>1, <2>2, <2>3, <3>1, <3>2 DEF HasOwn
  <2>5. ASSUME NEW e \in Fds, e # d PROVE Accounted(e)'
    BY <2>2, <2>3, <2>5, HoldersDiffer DEF DoubleCloseConfined, Accounted
  <2>. QED BY <2>1, <2>4, <2>5 DEF DoubleCloseConfined, HasOwn
<1>. QED BY <1>1, <1>2, <1>3, <1>4

\* The steps of a connection.
LEMMA ConfinedHandler ==
  ASSUME ConnTypeOK, Stages, DoubleCloseConfined, NEW c \in Conns,
         \/ Accept(c) \/ RecvEnds(c) \/ CloseSocket(c) \/ CloseFile(c)
         \/ OpenFile(c) \/ Quit(c) \/ Killed(c) \/ Connect(c) \/ Leave(c)
  PROVE  DoubleCloseConfined'
<1>1. CASE RecvEnds(c) \/ Quit(c) \/ Connect(c) \/ Leave(c)
  BY <1>1, ConfinedStays DEF RecvEnds, Quit, Connect, Leave, ConnTypeOK
<1>2. CASE Killed(c)
  BY <1>2, HoldersDiffer DEF Killed, Ended, DoubleCloseConfined, Accounted, ConnTypeOK
<1>3. CASE Accept(c)
  <2>1. PICK d \in Fds : /\ fds[d] = Free /\ fds' = [fds EXCEPT ![d] = c]
                         /\ sock' = [sock EXCEPT ![c] = d]
    BY <1>3 DEF Accept, Opens
  <2>2. /\ handler' = [handler EXCEPT ![c] = "loop"] /\ UNCHANGED <<file, serverSock>>
        /\ handler[c] = "none" /\ file[c] = NoFd
    BY <1>3 DEF Accept, Waiting, Stages
  <2>3. ASSUME NEW e \in Conns PROVE HasOwn(e)'
    BY <2>1, <2>2, HoldersDiffer DEF DoubleCloseConfined, ConnTypeOK, HasOwn
  <2>4. ASSUME NEW e \in Fds \ {serverSock} PROVE Accounted(e)'
    BY <2>1, <2>2, HoldersDiffer DEF DoubleCloseConfined, ConnTypeOK, Accounted
  <2>. QED BY <2>2, <2>3, <2>4 DEF DoubleCloseConfined, HasOwn
<1>4. CASE OpenFile(c)
  <2>1. PICK d \in Fds : /\ fds[d] = Free /\ fds' = [fds EXCEPT ![d] = <<c, "file">>]
                         /\ file' = [file EXCEPT ![c] = d]
    BY <1>4 DEF OpenFile, Opens
  <2>2. UNCHANGED <<handler, sock, serverSock>> /\ file[c] = NoFd
    BY <1>4 DEF OpenFile
  <2>3. ASSUME NEW e \in Conns PROVE HasOwn(e)'
    BY <2>1, <2>2, HoldersDiffer DEF DoubleCloseConfined, ConnTypeOK, HasOwn
  <2>4. ASSUME NEW e \in Fds \ {serverSock} PROVE Accounted(e)'
    BY <2>1, <2>2, HoldersDiffer DEF DoubleCloseConfined, ConnTypeOK, Accounted
  <2>. QED BY <2>2, <2>3, <2>4 DEF DoubleCloseConfined, HasOwn
<1>5. CASE CloseSocket(c)
  <2>1. /\ sock[c] \in Fds /\ handler[c] = "close" /\ file[c] = NoFd
        /\ fds' = [e \in Fds |-> IF e = sock[c] THEN Free ELSE fds[e]]
        /\ handler' = [handler EXCEPT ![c] = "done"] /\ UNCHANGED <<serverSock, sock, file>>
    BY <1>5 DEF CloseSocket, Closes, ConnTypeOK, Stages
  <2>2. sock[c] # serverSock => fds[sock[c]] = c
    BY <2>1 DEF DoubleCloseConfined
  <2>3. ASSUME NEW e \in Conns PROVE HasOwn(e)'
    <3>1. ASSUME handler'[e] \in {"loop", "close"}, sock[e] # serverSock PROVE fds'[sock[e]] = e
      <4>1. e # c /\ handler[e] \in {"loop", "close"} /\ sock[e] \in Fds
        BY <2>1, <3>1 DEF ConnTypeOK
      <4>2. fds[sock[e]] = e
        BY <3>1, <4>1 DEF DoubleCloseConfined
      <4>. QED BY <2>1, <2>2, <3>1, <4>1, <4>2
    <3>2. ASSUME file[e] \notin {NoFd, serverSock} PROVE fds'[file[e]] = <<e, "file">>
      <4>1. file[e] \in Fds /\ fds[file[e]] = <<e, "file">>
        BY <3>2 DEF DoubleCloseConfined, ConnTypeOK
      <4>2. file[e] # sock[c]
        BY <2>2, <3>2, <4>1, HoldersDiffer
      <4>. QED BY <2>1, <4>1, <4>2
    <3>. QED BY <2>1, <3>1, <3>2 DEF HasOwn
  <2>4. ASSUME NEW e \in Fds \ {serverSock} PROVE Accounted(e)'
    BY <2>1, <2>2, HoldersDiffer DEF DoubleCloseConfined, ConnTypeOK, Accounted
  <2>. QED BY <2>1, <2>3, <2>4 DEF DoubleCloseConfined, HasOwn
<1>6. CASE CloseFile(c)
  <2>1. /\ file[c] \in Fds
        /\ fds' = [e \in Fds |-> IF e = file[c] THEN Free ELSE fds[e]]
        /\ file' = [file EXCEPT ![c] = NoFd] /\ UNCHANGED <<serverSock, sock, handler>>
    BY <1>6 DEF CloseFile, Closes, ConnTypeOK
  <2>2. file[c] # serverSock => fds[file[c]] = <<c, "file">>
    BY <2>1, HoldersDiffer DEF DoubleCloseConfined
  <2>3. ASSUME NEW e \in Conns PROVE HasOwn(e)'
    <3>1. ASSUME handler[e] \in {"loop", "close"}, sock[e] # serverSock PROVE fds'[sock[e]] = e
      <4>1. sock[e] \in Fds /\ fds[sock[e]] = e
        BY <3>1 DEF DoubleCloseConfined, ConnTypeOK
      <4>2. file[c] # sock[e]
        BY <2>2, <3>1, <4>1, HoldersDiffer
      <4>. QED BY <2>1, <4>1, <4>2
    <3>2. ASSUME file'[e] \notin {NoFd, serverSock} PROVE fds'[file'[e]] = <<e, "file">>
      <4>1. e # c /\ file'[e] = file[e]
        BY <2>1, <3>2 DEF ConnTypeOK
      <4>2. file[e] \in Fds /\ fds[file[e]] = <<e, "file">>
        BY <3>2, <4>1 DEF DoubleCloseConfined, ConnTypeOK
      <4>. QED BY <2>1, <2>2, <3>2, <4>1, <4>2
    <3>. QED BY <2>1, <3>1, <3>2 DEF HasOwn
  <2>4. ASSUME NEW e \in Fds \ {serverSock} PROVE Accounted(e)'
    BY <2>1, <2>2, HoldersDiffer DEF DoubleCloseConfined, ConnTypeOK, Accounted
  <2>. QED BY <2>1, <2>3, <2>4 DEF DoubleCloseConfined, HasOwn
<1>. QED BY <1>1, <1>2, <1>3, <1>4, <1>5, <1>6

\* However often stop(), the destructor and run() close serverSock_, and whoever
\* has its number by then, every other descriptor stays with who has opened it, for
\* any numbers of connections and descriptors.
THEOREM ConfinedCorrect == ConnSpec => []DoubleCloseConfined
<1>1. ConnInit => DoubleCloseConfined
  BY DEF ConnInit, DoubleCloseConfined, Accounted
<1>2. ConnInv /\ DoubleCloseConfined /\ [ConnNext]_connVars => DoubleCloseConfined'
  <2> SUFFICES ASSUME ConnInv, DoubleCloseConfined, [ConnNext]_connVars PROVE DoubleCloseConfined'
    OBVIOUS
  <2>1. CASE ConnNext
    BY <2>1, ConnSteps, ConfinedMain, ConfinedHandler DEF ConnInv
  <2>2. CASE UNCHANGED connVars
    BY <2>2, ConfinedStays DEF connVars
  <2> QED BY <2>1, <2>2
<1> QED BY <1>1, <1>2, ConnInvariant, PTL DEF ConnSpec

-----------------------------------------------------------------------------
(* The end of run().                                                       *)

\* stop() has cleared running_, and start() has begun run().
Cleared ==
  /\ main \in {"closing", "joining", "destroying", "leaving"} => running = FALSE
  /\ run = "none" => main = "start"

\* Only start() sets running_, before there is anything to stop.
LEMMA StepKeepsCleared ==
  ASSUME Cleared, [ConnNext]_connVars
  PROVE  Cleared'
<1>1. CASE UNCHANGED connVars
  BY <1>1 DEF connVars, Cleared
<1>2. CASE Start \/ StopCloses \/ Join \/ Exit \/ Enter
  BY <1>2 DEF Start, StopCloses, Join, Exit, Ended, Enter, Cleared
<1>3. CASE \/ Socket \/ BindListen \/ CheckRunning \/ CallAccept \/ AcceptFails \/ RunCloses
           \/ RunFails("socket") \/ RunFails("bind") \/ RunFails("listen")
  BY <1>3 DEF Socket, BindListen, CheckRunning, CallAccept, AcceptFails, RunCloses, RunFails, Cleared
<1>4. ASSUME NEW c \in Conns,
             \/ Accept(c) \/ RecvEnds(c) \/ CloseSocket(c) \/ CloseFile(c)
             \/ OpenFile(c) \/ Quit(c) \/ Killed(c) \/ Connect(c) \/ Leave(c)
      PROVE  Cleared'
  BY <1>4 DEF Accept, RecvEnds, CloseSocket, CloseFile, OpenFile, Quit, Killed, Ended, Connect, Leave, Cleared
<1>. QED BY <1>1, <1>2, <1>3, <1>4, ConnSteps

\* Steps of run() once running_ is false.
LEMMA RunComesNearer ==
  ASSUME running = FALSE,
         \/ Socket \/ BindListen \/ CheckRunning \/ CallAccept \/ AcceptFails \/ RunCloses
         \/ RunFails("socket") \/ RunFails("bind") \/ RunFails("listen")
         \/ \E c \in Conns : Accept(c)
  PROVE  RunLeft' < RunLeft
<1>1. CASE Socket \/ BindListen \/ CallAccept
  BY <1>1 DEF Socket, BindListen, CallAccept, RunLeft
<1>2. CASE CheckRunning \/ RunCloses
  BY <1>2 DEF CheckRunning, RunCloses, RunLeft
<1>3. CASE AcceptFails \/ \E c \in Conns : Accept(c)
  BY <1>3 DEF AcceptFails, Accept, RunLeft
<1>4. CASE RunFails("socket") \/ RunFails("bind") \/ RunFails("listen")
  BY <1>4 DEF RunFails, RunLeft
<1>. QED BY <1>1, <1>2, <1>3, <1>4

\* All other steps leave run() where it is, but for those that end the process.
LEMMA RunStays ==
  ASSUME main \in {"closing", "joining"},
         \/ Start \/ StopCloses \/ Join \/ Exit \/ Enter
         \/ \E c \in Conns : \/ RecvEnds(c) \/ CloseSocket(c) \/ CloseFile(c)
                             \/ OpenFile(c) \/ Quit(c) \/ Killed(c) \/ Connect(c) \/ Leave(c)
  PROVE  run' = run \/ run' = "done"
BY DEF Start, StopCloses, Join, Exit, Ended, Enter, RecvEnds, CloseSocket, CloseFile, OpenFile, Quit, Killed,
       Connect, Leave

\* From stop() on run() needs seven more steps at most, for any numbers of
\* connections and descriptors and whatever fails.
THEOREM StopConvergesCorrect == ConnSpec => StopConverges
<1> DEFINE Nearer == (main \in {"closing", "joining"}) => (run' = run \/ RunLeft' < RunLeft)
<1>1. ConnInit => Cleared
  BY DEF ConnInit, Cleared
<1>2. Cleared /\ [ConnNext]_connVars => Cleared'
  BY StepKeepsCleared
<1>3. ConnInv /\ Cleared /\ [ConnNext]_connVars => [Nearer]_connVars
  <2> SUFFICES ASSUME ConnInv, Cleared, ConnNext, main \in {"closing", "joining"}, run' # run
               PROVE  RunLeft' < RunLeft
    OBVIOUS
  <2>1. running = FALSE
    BY DEF Cleared
  <2>2. CASE \/ Socket \/ BindListen \/ CheckRunning \/ CallAccept \/ AcceptFails \/ RunCloses
             \/ RunFails("socket") \/ RunFails("bind") \/ RunFails("listen")
             \/ \E c \in Conns : Accept(c)
    BY <2>1, <2>2, RunComesNearer
  <2>3. CASE \/ Start \/ StopCloses \/ Join \/ Exit \/ Enter
             \/ \E c \in Conns : \/ RecvEnds(c) \/ CloseSocket(c) \/ CloseFile(c)
                                 \/ OpenFile(c) \/ Quit(c) \/ Killed(c) \/ Connect(c) \/ Leave(c)
    <3>1. run' = "done" /\ run # "done"
      BY <2>3, RunStays
    <3>2. run # "none"
      BY DEF Cleared
    <3>. QED BY <3>1, <3>2 DEF ConnInv, ConnTypeOK, RunLeft
  <2>. QED BY <2>2, <2>3, ConnSteps
<1>. QED BY <1>1, <1>2, <1>3, ConnInvariant, PTL DEF ConnSpec, StopConverges

=============================================================================
