--------------------------- MODULE StaServerProofs ---------------------------
(***************************************************************************)
(* Proofs about StaServer for any number of servers, clients and sockets.  *)
(***************************************************************************)
EXTENDS StaServer, TLAPS

USE ServerAssumption

-----------------------------------------------------------------------------
(* The steps of a server, by what they do to its place and to the handle.  *)

Quiet == {"assign", "bind", "listen", "check", "accept", "spawn", "end", "close",
          "forget"}

\* A server goes on to a step where it lives, ends for want of a socket, or ends
\* and clears its handle.
LEMMA ServerSteps ==
  ASSUME NEW t \in Server, ServerAction(t)
  PROVE  /\ Live(t)
         /\ UNCHANGED <<serverRun, starter, stopVars, stopped, overlapped>>
         /\ \/ /\ \E step \in ServerStep \ {"none"} : Goto(t, step)
               /\ UNCHANGED <<serverTask, noSocket>>
            \/ Socket(t) /\ Goto(t, "none") /\ noSocket' = TRUE /\ UNCHANGED serverTask
            \/ ClearServer(t)
<1> USE DEF sharedVars, netVars, historyVars, ServerStep, Live
<1>1. CASE Socket(t)
  <2>1. /\ server[t] = "socket"
        /\ UNCHANGED <<serverRun, serverTask, starter, stopVars, stopped, overlapped>>
    BY <1>1 DEF Socket
  <2>2. \/ Goto(t, "assign") /\ UNCHANGED noSocket
        \/ Goto(t, "none") /\ noSocket' = TRUE
    BY <1>1, Zenon DEF Socket
  <2>3. QED
    BY <1>1, <2>1, <2>2
<1>2. CASE Assign(t) \/ Bind(t) \/ Listen(t)
  BY <1>2 DEF Assign, Bind, Listen
<1>3. CASE BindFails(t) \/ ListenFails(t)
  BY <1>3 DEF BindFails, ListenFails, ToClose
<1>4. CASE CheckRun(t) \/ AcceptFails(t)
  BY <1>4 DEF CheckRun, AcceptFails
<1>5. CASE Accept(t) \/ Spawn(t)
  BY <1>5 DEF Accept, Spawn
<1>6. CASE End(t)
  BY <1>6 DEF End, ToClose
<1>7. CASE CloseServer(t) \/ ForgetSocket(t) \/ ClearServer(t)
  BY <1>7 DEF CloseServer, ForgetSocket, ClearServer
<1>8. QED
  BY <1>1, <1>2, <1>3, <1>4, <1>5, <1>6, <1>7 DEF ServerAction

\* A client task leaves the server, its handle and the stops alone.
LEMMA ClientSteps ==
  ASSUME NEW c \in Client, ClientAction(c)
  PROVE  UNCHANGED <<sharedVars, serverVars, starter, stopVars, historyVars>>
BY DEF ClientAction, Request, CheckSession, Receive, Close

-----------------------------------------------------------------------------
(* The server task and its handle.                                         *)

\* Types; a start that is to create the server finds that there is none; and a
\* stop that has deleted it finds none before it goes on.  The last two parts
\* are the promise of a stop, while it or another one still works on it.
HandleInv ==
  /\ server \in [Server -> ServerStep]
  /\ serverTask \in Server \cup {NoTask}
  /\ stopper \in [Stopper -> StopStep]
  /\ starter \in {"idle", "create"}
  /\ noSocket \in BOOLEAN /\ stopped \in BOOLEAN /\ overlapped \in BOOLEAN
  /\ HandleTracksServer
  /\ DeletesOnlyServer
  /\ starter = "create" => serverTask = NoTask
  /\ \A p \in Stopper : stopper[p] = "clear" => \A t \in Server : ~Live(t)
  /\ overlapped \/ \A p, q \in Stopper : PastWait(p) /\ PastWait(q) => p = q
  /\ overlapped \/ \A p \in Stopper :
       PastWait(p) /\ stopper[p] # "delete" => \A t \in Server : ~Live(t)
  /\ stopper[EventTask] # "deleted"
  /\ stopped => (\A t \in Server : ~Live(t)) \/ \E p \in Stopper : stopper[p] = "delete"
  /\ stopped /\ listenSock # NoSock =>
       \E p \in Stopper : PastWait(p) /\ (stopper[p] = "delete" => serverTask # NoTask)

LEMMA HandleServer ==
  ASSUME HandleInv, NEW t \in Server, ServerAction(t), \A p \in Stopper : ~Ready(p)
  PROVE  HandleInv'
<1> USE DEF HandleInv, HandleTracksServer, DeletesOnlyServer, Live, PastWait, Ready
<1>1. /\ server[t] # "none" /\ serverTask = t /\ ~stopped
      /\ \A u \in Server : u # t => server[u] = "none"
      /\ UNCHANGED <<starter, stopper, stopped, overlapped>>
  BY ServerSteps DEF stopVars
<1>2. CASE \E step \in ServerStep \ {"none"} : Goto(t, step)
  <2>1. UNCHANGED <<serverTask, noSocket>>
    BY <1>1, <1>2, ServerSteps DEF ClearServer, Goto
  <2>2. QED
    BY <1>1, <1>2, <2>1 DEF Goto
<1>3. CASE Goto(t, "none") /\ noSocket' = TRUE /\ UNCHANGED serverTask
  BY <1>1, <1>3 DEF Goto, ServerStep
<1>4. CASE ClearServer(t)
  <2>1. serverTask' = NoTask /\ Goto(t, "none") /\ UNCHANGED noSocket
    BY <1>4 DEF ClearServer, historyVars
  <2>2. QED
    BY <1>1, <2>1 DEF Goto, ServerStep
<1>5. QED
  BY <1>2, <1>3, <1>4, ServerSteps

LEMMA HandleStop ==
  ASSUME HandleInv, NEW p \in Stopper, StopAction(p),
         p = ButtonTask => ~Ready(EventTask)
  PROVE  HandleInv'
<1> USE DEF HandleInv, HandleTracksServer, DeletesOnlyServer, Live, PastWait, Ready,
           StopGoto, StopStep, Stopper
<1>1. CASE StopBegins(p)
  BY <1>1 DEF StopBegins, serverVars, historyVars
<1>2. CASE Shutdown(p)
  BY <1>2 DEF Shutdown, serverVars, sharedVars, historyVars
<1>3. CASE TestTask(p)
  BY <1>3 DEF TestTask, serverVars, sharedVars
<1>4. CASE DeleteServer(p)
  <2>1. UNCHANGED <<serverTask, listenSock, starter, noSocket, stopped, overlapped>>
        /\ stopper[p] = "delete"
    BY <1>4 DEF DeleteServer, sharedVars
  <2>2. CASE serverTask = NoTask
    <3>1. stopper' = [stopper EXCEPT ![p] = "deleted"] /\ UNCHANGED server
      BY <1>4, <2>2 DEF DeleteServer, serverVars
    <3>2. QED
      BY <2>1, <2>2, <3>1
  <2>3. CASE serverTask # NoTask
    <3>1. /\ stopper' = [stopper EXCEPT ![p] = "clear"]
          /\ server' = [server EXCEPT ![serverTask] = "none"]
      BY <1>4, <2>3 DEF DeleteServer, Goto
    <3>2. \A t \in Server : server'[t] = "none"
      BY <2>3, <3>1
    <3>3. QED
      BY <2>1, <2>3, <3>1, <3>2 DEF ServerStep
  <2>4. QED
    BY <2>2, <2>3
<1>5. CASE ClearTask(p)
  <2>1. /\ stopper[p] = "clear" /\ serverTask' = NoTask /\ noSocket' = FALSE
        /\ stopper' = [stopper EXCEPT ![p] = "test"]
        /\ UNCHANGED <<server, listenSock, starter, stopped, overlapped>>
    BY <1>5 DEF ClearTask, serverVars
  <2>2. \A t \in Server : server[t] = "none"
    BY <2>1
  <2>3. QED
    BY <2>1, <2>2
<1>6. CASE TestSocket(p)
  BY <1>6 DEF TestSocket, Return, serverVars, sharedVars, historyVars
<1>7. CASE CloseSocket(p)
  BY <1>7 DEF CloseSocket, serverVars, sharedVars, historyVars
<1>8. CASE StopEnds(p)
  BY <1>8 DEF StopEnds, Return, serverVars
<1>9. QED
  BY <1>1, <1>2, <1>3, <1>4, <1>5, <1>6, <1>7, <1>8 DEF StopAction

LEMMA HandleInvariant == Spec => []HandleInv
<1>1. Init => HandleInv
  <2> SUFFICES ASSUME Init PROVE HandleInv
    OBVIOUS
  <2>1. /\ \A t \in Server : ~Live(t)
        /\ \A p \in Stopper : stopper[p] = "idle"
        /\ server \in [Server -> ServerStep] /\ stopper \in [Stopper -> StopStep]
    BY DEF Init, Live, ServerStep, StopStep
  <2>2. noSocket \in BOOLEAN /\ stopped \in BOOLEAN /\ overlapped \in BOOLEAN
    BY ZenonT(40) DEF Init
  <2>3. serverTask = NoTask /\ starter = "idle" /\ listenSock = NoSock
    BY ZenonT(40) DEF Init
  <2>4. QED
    BY <2>1, <2>2, <2>3 DEF HandleInv, HandleTracksServer, DeletesOnlyServer,
       PastWait, Stopper
<1>2. HandleInv /\ [Next]_vars => HandleInv'
  <2> SUFFICES ASSUME HandleInv, [Next]_vars PROVE HandleInv'
    OBVIOUS
  <2> USE DEF HandleInv, HandleTracksServer, DeletesOnlyServer, Live, PastWait
  <2>1. ASSUME NEW c \in Client, ClientAction(c) PROVE HandleInv'
    BY <2>1, ClientSteps DEF sharedVars, serverVars, stopVars, historyVars
  <2>2. CASE CheckServer
    BY <2>2 DEF CheckServer, sharedVars, serverVars, stopVars, historyVars
  <2>3. ASSUME CreateServer, \A p \in Stopper : ~Ready(p) PROVE HandleInv'
    <3>1. /\ starter' = "idle" /\ stopped' = FALSE /\ serverTask = NoTask
          /\ overlapped' = (overlapped \/ \E p \in Stopper : PastWait(p))
          /\ overlapped' \in BOOLEAN
          /\ UNCHANGED <<noSocket, stopper>>
          /\ \A t \in Server : server[t] = "none"
      BY <2>3, ZenonT(40) DEF CreateServer, stopVars
    <3>2. CASE \E t \in Server : serverTask' = t /\ Goto(t, "socket")
      BY <2>3, <3>1, <3>2 DEF Goto, ServerStep, Ready
    <3>3. CASE UNCHANGED <<serverTask, server>>
      BY <2>3, <3>1, <3>3 DEF Ready
    <3>4. QED
      BY <2>3, <3>2, <3>3, Zenon DEF CreateServer
  <2>4. CASE UNCHANGED vars
    BY <2>4 DEF vars, sharedVars, netVars, serverVars, stopVars, historyVars
  <2>5. QED
    BY <2>1, <2>2, <2>3, <2>4, HandleServer, HandleStop DEF Next, Stopper
<1>3. QED
  BY <1>1, <1>2, PTL DEF Spec

\* HandleTracksServer for all constants.
THEOREM HandleTracked == Spec => []HandleTracksServer
<1>1. HandleInv => HandleTracksServer
  BY DEF HandleInv
<1>2. QED
  BY <1>1, HandleInvariant, PTL

\* DeletesOnlyServer for all constants: one stop by itself deletes no task but
\* the server, and that once.
THEOREM ServerDeleted == Spec => []DeletesOnlyServer
<1>1. HandleInv => DeletesOnlyServer
  BY DEF HandleInv
<1>2. QED
  BY <1>1, HandleInvariant, PTL

-----------------------------------------------------------------------------
(* The sockets.                                                            *)

\* The parts of SocketsOwned: what is held is open and not lost, nothing is held
\* twice, and what is open is held or lost; with where s_listenSock is open, and
\* that a stop closes what it forgets.
SocketInv ==
  /\ sockets \subseteq Sock /\ leaked \subseteq sockets /\ listening \subseteq sockets
  /\ listenSock \in Sock \cup {NoSock}
  /\ listenSock \notin leaked
  /\ listening \subseteq {listenSock}
  /\ serverFd \in [Server -> (sockets \ leaked) \cup {NoSock}]
  /\ clientSock \in [Client -> (sockets \ leaked) \cup {NoSock}]
  /\ client \in [Client -> ClientStep]
  /\ stopFd \in [Stopper -> Sock \cup {NoSock}]
  /\ \A t \in Server :
       /\ serverFd[t] # NoSock <=> server[t] \in {"assign", "spawn", "close"}
       /\ \A c \in Client : serverFd[t] # NoSock => clientSock[c] # serverFd[t]
       /\ server[t] \in {"socket", "assign", "clear"} => listenSock = NoSock
       /\ server[t] \in {"bind", "listen", "check", "accept", "spawn", "end", "close"} =>
            listenSock \in sockets
       /\ server[t] = "close" => serverFd[t] = listenSock
       /\ server[t] # "close" => serverFd[t] = NoSock \/ serverFd[t] # listenSock
       /\ server[t] = "forget" => listenSock \notin sockets
  /\ \A c \in Client :
       /\ client[c] = "none" <=> clientSock[c] = NoSock
       /\ clientSock[c] # NoSock =>
            /\ clientSock[c] # listenSock
            /\ \A d \in Client : clientSock[d] = clientSock[c] => d = c
  /\ \A p \in Stopper : stopper[p] \in {"close", "forget"} => stopFd[p] = listenSock
  /\ \A p \in Stopper : stopper[p] = "forget" => listenSock \notin sockets
  /\ (\A t \in Server : ~Live(t)) /\ (\A p \in Stopper : ~PastWait(p)) =>
       listenSock = NoSock
  /\ listenSock \in sockets \cup {NoSock} \/ Closing
  /\ \A s \in sockets \ leaked :
       \/ listenSock = s
       \/ \E t \in Server : serverFd[t] = s
       \/ \E c \in Client : clientSock[c] = s

LEMMA ServerSockets ==
  ASSUME HandleInv, SocketInv, ~overlapped,
         NEW t \in Server, ServerAction(t), \A p \in Stopper : ~Ready(p)
  PROVE  SocketInv'
<1> USE DEF SocketInv, Goto, Hold, ServerStep, Closing, PastWait, Ready
<1>1. /\ server \in [Server -> ServerStep] /\ \A u \in Server : Live(u) => u = t
      /\ Live(t)
      /\ \A p \in Stopper : stopper[p] \in {"idle", "shutdown", "wait", "deleted"}
      /\ UNCHANGED <<stopper, stopFd>>
  <2>1. Live(t) /\ UNCHANGED <<stopper, stopFd>>
    BY ServerSteps DEF stopVars
  <2>2. \A p \in Stopper : ~PastWait(p)
    BY <2>1 DEF HandleInv
  <2>3. QED
    BY <2>1, <2>2 DEF HandleInv, HandleTracksServer, StopStep
<1>2. \A u \in Server : u # t => serverFd[u] = NoSock /\ server[u] = "none"
  BY <1>1 DEF Live
<1>3. CASE Socket(t)
  <2>1. /\ server[t] = "socket" /\ listenSock = NoSock /\ serverFd[t] = NoSock
        /\ UNCHANGED <<client, clientSock, leaked, listening>>
    BY <1>3 DEF Socket, clientVars
  <2>2. CASE \E s \in Sock \ sockets :
               /\ sockets' = sockets \cup {s} /\ Hold(t, s) /\ Goto(t, "assign")
               /\ UNCHANGED listenSock
    BY <1>1, <1>2, <2>1, <2>2 DEF Live
  <2>3. CASE /\ listenSock' = NoSock /\ Goto(t, "none")
             /\ UNCHANGED <<sockets, serverFd>>
    BY <1>1, <1>2, <2>1, <2>3 DEF Live
  <2>4. QED
    BY <1>3, <2>2, <2>3 DEF Socket
<1>4. CASE Assign(t)
  <2>1. /\ server[t] = "assign" /\ listenSock = NoSock /\ listenSock' = serverFd[t]
        /\ server' = [server EXCEPT ![t] = "bind"]
        /\ serverFd' = [serverFd EXCEPT ![t] = NoSock]
        /\ UNCHANGED <<client, clientSock, sockets, listening, leaked>>
    BY <1>4 DEF Assign, clientVars, netVars, historyVars
  <2>2. listening = {}
    BY <2>1
  <2>3. QED
    BY <1>1, <1>2, <2>1, <2>2 DEF Live
<1>5. CASE BindFails(t) \/ ListenFails(t) \/ (End(t) /\ listenSock # NoSock)
  <2>1. /\ server[t] \in {"bind", "listen", "end"}
        /\ server' = [server EXCEPT ![t] = "close"]
        /\ serverFd' = [serverFd EXCEPT ![t] = listenSock]
        /\ UNCHANGED <<listenSock, client, clientSock, sockets, listening, leaked>>
    BY <1>5 DEF BindFails, ListenFails, End, ToClose, sharedVars, clientVars,
       netVars, historyVars
  <2>2. QED
    BY <1>1, <1>2, <2>1 DEF Live
<1>6. CASE CloseServer(t)
  <2>1. /\ server[t] = "close" /\ serverFd[t] = listenSock
        /\ sockets' = sockets \ {listenSock} /\ listening' = listening \ {listenSock}
        /\ server' = [server EXCEPT ![t] = "forget"]
        /\ serverFd' = [serverFd EXCEPT ![t] = NoSock]
        /\ UNCHANGED <<listenSock, client, clientSock, leaked>>
    BY <1>6 DEF CloseServer, sharedVars, clientVars, historyVars
  <2>2. listening' = {} /\ leaked \subseteq sockets'
    BY <2>1
  <2>3. QED
    BY <1>1, <1>2, <2>1, <2>2 DEF Live
<1>7. CASE ForgetSocket(t)
  <2>1. /\ server[t] = "forget" /\ listenSock' = NoSock
        /\ server' = [server EXCEPT ![t] = "clear"]
        /\ UNCHANGED <<serverFd, client, clientSock, sockets, listening, leaked>>
    BY <1>7 DEF ForgetSocket, netVars, clientVars, historyVars
  <2>2. listening = {}
    BY <2>1
  <2>3. QED
    BY <1>1, <1>2, <2>1, <2>2 DEF Live
<1>8. CASE ClearServer(t)
  <2>1. /\ server[t] = "clear" /\ listenSock = NoSock
        /\ server' = [server EXCEPT ![t] = "none"]
        /\ UNCHANGED <<listenSock, serverFd, client, clientSock, sockets, listening,
                       leaked>>
    BY <1>8 DEF ClearServer, netVars, clientVars, historyVars
  <2>2. QED
    BY <1>1, <1>2, <2>1 DEF Live
<1>9. CASE Accept(t)
  <2>1. server[t] = "accept" /\ serverFd[t] = NoSock
    BY <1>9 DEF Accept
  <2>2. PICK s \in Sock \ sockets :
          /\ sockets' = sockets \cup {s}
          /\ serverFd' = [serverFd EXCEPT ![t] = s]
          /\ server' = [server EXCEPT ![t] = "spawn"]
          /\ UNCHANGED <<listenSock, listening, client, clientSock, leaked>>
    BY <1>9 DEF Accept, sharedVars, clientVars, historyVars
  <2>3. QED
    BY <1>1, <1>2, <2>1, <2>2 DEF Live
<1>10. CASE Spawn(t)
  <2> DEFINE s == serverFd[t]
  <2>1. /\ server[t] = "spawn" /\ s # NoSock /\ s # listenSock
        /\ serverFd' = [serverFd EXCEPT ![t] = NoSock]
        /\ server' = [server EXCEPT ![t] = "check"]
        /\ listening' = listening \cap sockets'
        /\ UNCHANGED <<listenSock, leaked>>
    BY <1>10 DEF Spawn, sharedVars, historyVars
  <2>2. ASSUME NEW c \in Client, client[c] = "none",
               client' = [client EXCEPT ![c] = "request"],
               clientSock' = [clientSock EXCEPT ![c] = s],
               UNCHANGED sockets
        PROVE  SocketInv'
    BY <1>1, <1>2, <2>1, <2>2 DEF Live, ClientStep
  <2>3. CASE sockets' = sockets \ {s} /\ UNCHANGED <<client, clientSock>>
    BY <1>1, <1>2, <2>1, <2>3 DEF Live
  <2>4. QED
    BY <1>10, <2>2, <2>3 DEF Spawn
<1>11. CASE Listen(t)
  <2>1. /\ server[t] = "listen" /\ listenSock \in sockets
        /\ listening' = listening \cup {listenSock}
        /\ server' = [server EXCEPT ![t] = "check"]
        /\ UNCHANGED <<sockets, leaked, listenSock, serverFd, client, clientSock>>
    BY <1>11 DEF Listen, sharedVars, clientVars, historyVars
  <2>2. QED
    BY <1>1, <1>2, <2>1 DEF Live
<1>12. CASE Bind(t) \/ CheckRun(t) \/ AcceptFails(t) \/ (End(t) /\ listenSock = NoSock)
  <2>1. UNCHANGED <<sockets, listening, leaked, listenSock, serverFd, client, clientSock>>
    BY <1>12 DEF Bind, CheckRun, AcceptFails, End, sharedVars, netVars,
       clientVars, historyVars
  <2>2. /\ server[t] \in {"bind", "check", "accept", "end"}
        /\ \/ Goto(t, "listen") \/ Goto(t, "check") \/ Goto(t, "accept")
           \/ Goto(t, "end") \/ (Goto(t, "clear") /\ listenSock = NoSock)
    BY <1>12 DEF Bind, CheckRun, AcceptFails, End
  <2>3. QED
    BY <1>1, <1>2, <2>1, <2>2 DEF Live
<1>13. QED
  BY <1>3, <1>4, <1>5, <1>6, <1>7, <1>8, <1>9, <1>10, <1>11, <1>12 DEF ServerAction

LEMMA ClientSockets ==
  ASSUME SocketInv, NEW c \in Client, ClientAction(c)
  PROVE  SocketInv'
<1> USE DEF SocketInv, ClientGoto, ClientStep, Closing
<1>1. UNCHANGED <<server, serverFd, listenSock, leaked, stopper, stopFd>>
  BY ClientSteps DEF serverVars, sharedVars, stopVars, historyVars
<1>2. CASE Close(c)
  <2>1. /\ sockets' = sockets \ {clientSock[c]}
        /\ listening' = listening \cap sockets'
        /\ clientSock' = [clientSock EXCEPT ![c] = NoSock]
        /\ client' = [client EXCEPT ![c] = "none"]
        /\ clientSock[c] # NoSock
    BY <1>2 DEF Close
  <2>2. QED
    BY <1>1, <2>1 DEF Live, PastWait
<1>3. CASE ~Close(c)
  <2>1. /\ UNCHANGED <<sockets, listening, clientSock>>
        /\ client[c] # "none"
        /\ \E step \in {"check", "recv", "close"} :
             client' = [client EXCEPT ![c] = step]
    BY <1>3 DEF ClientAction, Request, CheckSession, Receive, netVars
  <2>2. QED
    BY <1>1, <2>1 DEF Live, PastWait
<1>4. QED
  BY <1>2, <1>3

LEMMA StopSockets ==
  ASSUME HandleInv, SocketInv, ~overlapped', NEW p \in Stopper, StopAction(p)
  PROVE  SocketInv'
<1> USE DEF SocketInv, Closing, PastWait, StopGoto
<1>1. stopper \in [Stopper -> StopStep] /\ server \in [Server -> ServerStep]
  BY DEF HandleInv
<1>2. CASE StopBegins(p)
  <2>1. /\ stopper[p] = "idle"
        /\ \E step \in {"shutdown", "wait"} : stopper' = [stopper EXCEPT ![p] = step]
        /\ stopFd' = [stopFd EXCEPT ![p] = listenSock]
        /\ UNCHANGED <<listenSock, sockets, listening, server, serverFd, client,
                       clientSock, leaked>>
    BY <1>2 DEF StopBegins, netVars, serverVars, clientVars, historyVars
  <2>2. QED
    BY <1>1, <2>1 DEF Live, StopStep
<1>3. CASE Shutdown(p)
  <2>1. /\ stopper[p] = "shutdown" /\ listening' \subseteq listening
        /\ stopper' = [stopper EXCEPT ![p] = "wait"]
        /\ stopFd' = [stopFd EXCEPT ![p] = NoSock]
        /\ UNCHANGED <<listenSock, sockets, server, serverFd, client, clientSock,
                       leaked>>
    BY <1>3 DEF Shutdown, sharedVars, serverVars, clientVars, historyVars
  <2>2. QED
    BY <1>1, <2>1 DEF Live, StopStep
<1>4. CASE TestTask(p)
  <2>1. /\ stopper[p] = "wait"
        /\ \E step \in {"test", "delete"} : stopper' = [stopper EXCEPT ![p] = step]
        /\ UNCHANGED <<stopFd, listenSock, sockets, listening, server, serverFd,
                       client, clientSock, leaked>>
    BY <1>4 DEF TestTask, sharedVars, netVars, serverVars, clientVars
  <2>2. QED
    BY <1>1, <2>1 DEF Live, StopStep
<1>5. CASE DeleteServer(p)
  <2>1. /\ stopper[p] = "delete" /\ ~overlapped
        /\ UNCHANGED <<stopFd, listenSock, sockets, listening, client, clientSock>>
    BY <1>5 DEF DeleteServer, sharedVars, netVars, clientVars
  <2>2. /\ serverTask \in Server
        /\ \A t \in Server : t # serverTask => server[t] = "none" /\ serverFd[t] = NoSock
    BY <2>1 DEF HandleInv, HandleTracksServer, DeletesOnlyServer, Live
  <2>3. /\ stopper' = [stopper EXCEPT ![p] = "clear"]
        /\ server' = [server EXCEPT ![serverTask] = "none"]
        /\ serverFd' = [serverFd EXCEPT ![serverTask] = NoSock]
        /\ leaked' = leaked \cup ({serverFd[serverTask]} \ {listenSock, NoSock})
    BY <1>5, <2>2 DEF DeleteServer, Goto, Hold
  <2>4. \A t \in Server : server'[t] = "none" /\ serverFd'[t] = NoSock
    BY <1>1, <2>2, <2>3
  <2>5. serverFd[serverTask] \in {NoSock, listenSock} \/ serverFd[serverTask] \in sockets
    BY <2>2
  <2>6. QED
    BY <1>1, <2>1, <2>2, <2>3, <2>4, <2>5 DEF Live, StopStep, ServerStep
<1>6. CASE ClearTask(p)
  <2>1. /\ stopper[p] = "clear" /\ stopper' = [stopper EXCEPT ![p] = "test"]
        /\ UNCHANGED <<stopFd, listenSock, sockets, listening, server, serverFd,
                       client, clientSock, leaked>>
    BY <1>6 DEF ClearTask, netVars, serverVars, clientVars
  <2>2. QED
    BY <1>1, <2>1 DEF Live, StopStep
<1>7. ASSUME Return(p), UNCHANGED <<netVars, leaked>>,
             stopper[p] \in {"test", "forget"}, listenSock' = NoSock,
             listenSock \notin sockets
      PROVE  SocketInv'
  <2>1. /\ stopper' = [stopper EXCEPT ![p] = "idle"]
        /\ stopFd' = [stopFd EXCEPT ![p] = NoSock]
        /\ UNCHANGED <<sockets, listening, server, serverFd, client, clientSock,
                       leaked, overlapped>>
    BY <1>7 DEF Return, netVars, serverVars, clientVars
  <2>2. listening = {}
    BY <1>7
  <2>3. /\ \A t \in Server : server[t] = "none"
        /\ \A q \in Stopper : PastWait(q) => q = p
    BY <1>7, <2>1 DEF HandleInv, Live
  <2>4. QED
    BY <1>1, <1>7, <2>1, <2>2, <2>3 DEF Live, StopStep
<1>8. CASE TestSocket(p) /\ listenSock = NoSock
  BY <1>7, <1>8 DEF TestSocket
<1>9. CASE TestSocket(p) /\ listenSock # NoSock
  <2>1. /\ stopper[p] = "test" /\ stopper' = [stopper EXCEPT ![p] = "close"]
        /\ stopFd' = [stopFd EXCEPT ![p] = listenSock]
        /\ UNCHANGED <<listenSock, sockets, listening, server, serverFd, client,
                       clientSock, leaked>>
    BY <1>9 DEF TestSocket, sharedVars, netVars, serverVars, clientVars, historyVars
  <2>2. QED
    BY <1>1, <2>1 DEF Live, StopStep
<1>10. CASE CloseSocket(p)
  <2>1. /\ stopper[p] = "close" /\ stopper' = [stopper EXCEPT ![p] = "forget"]
        /\ sockets' = sockets \ {listenSock} /\ listening' = listening \ {listenSock}
        /\ UNCHANGED <<stopFd, listenSock, server, serverFd, client, clientSock,
                       leaked, overlapped>>
    BY <1>10 DEF CloseSocket, sharedVars, serverVars, clientVars, historyVars
  <2>2. \A t \in Server : server[t] = "none" /\ serverFd[t] = NoSock
    BY <2>1 DEF HandleInv, Live
  <2>3. listening' = {}
    BY <2>1
  <2>4. QED
    BY <1>1, <2>1, <2>2, <2>3 DEF Live, StopStep
<1>11. CASE StopEnds(p)
  <2>1. /\ stopper[p] = "forget" /\ Return(p) /\ UNCHANGED netVars
        /\ listenSock' = NoSock /\ listenSock \notin sockets
        /\ leaked' = leaked
    BY <1>11 DEF StopEnds
  <2>2. QED
    BY <1>7, <2>1
<1>12. QED
  BY <1>2, <1>3, <1>4, <1>5, <1>6, <1>8, <1>9, <1>10, <1>11 DEF StopAction

LEMMA SocketInvariant == Spec => [](SocketInv \/ overlapped)
<1>1. Init => SocketInv
  BY DEF Init, SocketInv, ClientStep
<1>2. HandleInv /\ (SocketInv \/ overlapped) /\ [Next]_vars => (SocketInv \/ overlapped)'
  <2> SUFFICES ASSUME HandleInv, SocketInv \/ overlapped, [Next]_vars, ~overlapped'
               PROVE  SocketInv'
    OBVIOUS
  <2>1. ~overlapped
    <3>1. ASSUME NEW t \in Server, ServerAction(t) PROVE UNCHANGED overlapped
      BY <3>1, ServerSteps
    <3>2. ASSUME NEW c \in Client, ClientAction(c) PROVE UNCHANGED overlapped
      BY <3>2, ClientSteps DEF historyVars
    <3>3. ASSUME NEW p \in Stopper, StopAction(p), overlapped PROVE overlapped'
      BY <3>3 DEF StopAction, StopBegins, Shutdown, TestTask, DeleteServer, ClearTask,
         TestSocket, CloseSocket, StopEnds, Return, historyVars
    <3>4. CASE CheckServer \/ CreateServer
      BY <3>4 DEF CheckServer, CreateServer, historyVars
    <3>5. CASE UNCHANGED vars
      BY <3>5 DEF vars, historyVars
    <3>6. QED
      BY <3>1, <3>2, <3>3, <3>4, <3>5 DEF Next, Stopper
  <2>2. CASE CheckServer
    BY <2>1, <2>2 DEF CheckServer, SocketInv, sharedVars, netVars, serverVars,
       clientVars, stopVars, historyVars, Live, PastWait, Closing
  <2>3. ASSUME CreateServer, \A p \in Stopper : ~Ready(p) PROVE SocketInv'
    <3>1. /\ UNCHANGED <<listenSock, sockets, listening, serverFd, client, clientSock,
                         leaked, stopper, stopFd>>
          /\ \A t \in Server : server[t] = "none"
          /\ \A p \in Stopper : ~PastWait(p)
      BY <2>3 DEF CreateServer, netVars, stopVars, HandleInv, HandleTracksServer, Live
    <3>2. UNCHANGED server \/ \E t \in Server : Goto(t, "socket")
      BY <2>3 DEF CreateServer
    <3>3. QED
      BY <2>1, <3>1, <3>2 DEF SocketInv, Live, Goto, HandleInv, PastWait, Closing
  <2>4. CASE UNCHANGED vars
    BY <2>1, <2>4 DEF vars, SocketInv, sharedVars, netVars, serverVars, clientVars,
       stopVars, historyVars, Live, PastWait, Closing
  <2>5. QED
    BY <2>1, <2>2, <2>3, <2>4, ServerSockets, ClientSockets, StopSockets DEF Next, Stopper
<1>3. QED
  BY <1>1, <1>2, HandleInvariant, PTL DEF Spec

\* SocketsOwned for all constants: without two stops, or a start and a stop, that
\* overlap, no descriptor is closed twice or by another.
THEOREM SocketsHeld == Spec => []SocketsOwned
<1>1. HandleInv /\ (SocketInv \/ overlapped) => SocketsOwned
  <2> SUFFICES ASSUME HandleInv, SocketInv, NEW s \in Sock
               PROVE  IF s \in sockets \ leaked
                      THEN \E h \in Holder : Holders(s) = {h}
                      ELSE Holders(s) \subseteq (IF Closing THEN {"s_listenSock"} ELSE {})
    BY DEF SocketsOwned
  <2> USE DEF SocketInv, Holders, Holder
  <2>1. s # NoSock
    OBVIOUS
  <2>2. CASE s \notin sockets \ leaked
    <3>1. listenSock = s => Closing
      BY <2>1, <2>2
    <3>2. QED
      BY <2>1, <2>2, <3>1
  <2>3. CASE s \in sockets \ leaked /\ listenSock = s
    <3>1. Holders(s) = {"s_listenSock"}
      BY <2>1, <2>3
    <3>2. QED
      BY <2>3, <3>1
  <2>4. ASSUME s \in sockets \ leaked, listenSock # s, NEW t \in Server, serverFd[t] = s
        PROVE  \E h \in Holder : Holders(s) = {h}
    <3>1. \A u \in Server : serverFd[u] = s => u = t
      BY <2>1, <2>4 DEF HandleInv, HandleTracksServer, Live
    <3>2. Holders(s) = {t}
      BY <2>1, <2>4, <3>1
    <3>3. QED
      BY <3>2
  <2>5. ASSUME s \in sockets \ leaked, NEW c \in Client, clientSock[c] = s
        PROVE  \E h \in Holder : Holders(s) = {h}
    <3>1. Holders(s) = {c}
      BY <2>1, <2>5
    <3>2. QED
      BY <3>1
  <2>6. QED
    BY <2>2, <2>3, <2>4, <2>5
<1>2. QED
  BY <1>1, HandleInvariant, SocketInvariant, PTL

\* StopFreesPort for all constants: provisioning mode can have port 80.
THEOREM PortFreed == Spec => []StopFreesPort
<1>1. HandleInv /\ (SocketInv \/ overlapped) => StopFreesPort
  <2> SUFFICES ASSUME HandleInv, SocketInv \/ overlapped, stopped,
                      \A p \in Stopper : ~PastWait(p)
               PROVE  /\ \A t \in Server : ~Live(t)
                      /\ listenSock = NoSock
                      /\ listening = {} \/ overlapped
    BY DEF StopFreesPort
  <2>1. (\A t \in Server : ~Live(t)) /\ listenSock = NoSock
    BY DEF HandleInv, PastWait
  <2>2. ASSUME SocketInv PROVE listening = {}
    BY <2>1, <2>2 DEF SocketInv
  <2>3. QED
    BY <2>1, <2>2
<1>2. QED
  BY <1>1, HandleInvariant, SocketInvariant, PTL

-----------------------------------------------------------------------------
(* The late commands.                                                      *)

\* A client task that still may receive has carried out none since the stop.
LateInv ==
  /\ client \in [Client -> ClientStep]
  /\ late \in [Client -> Nat]
  /\ serverRun => \A c \in Client : late[c] = 0
  /\ \A c \in Client : client[c] \in {"none", "request", "recv"} => late[c] = 0
  /\ OneLateCommand

\* A server starts the task of a client, and does nothing else to them.
LEMMA ServerClients ==
  ASSUME NEW t \in Server, ServerAction(t)
  PROVE  /\ UNCHANGED late
         /\ \/ UNCHANGED client
            \/ \E c \in Client : /\ client[c] = "none"
                                 /\ client' = [client EXCEPT ![c] = "request"]
<1>1. CASE Spawn(t)
  BY <1>1 DEF Spawn
<1>2. CASE ~Spawn(t)
  BY <1>2 DEF ServerAction, Socket, Assign, Bind, BindFails, Listen, ListenFails,
     CheckRun, Accept, AcceptFails, End, ToClose, CloseServer, ForgetSocket,
     ClearServer, clientVars
<1>3. QED
  BY <1>1, <1>2

LEMMA LateInvariant == Spec => []LateInv
<1>1. Init => LateInv
  BY DEF Init, LateInv, OneLateCommand, ClientStep
<1>2. LateInv /\ [Next]_vars => LateInv'
  <2> SUFFICES ASSUME LateInv, [Next]_vars PROVE LateInv'
    OBVIOUS
  <2> USE DEF LateInv, OneLateCommand, ClientStep, ClientGoto
  <2>1. ASSUME NEW c \in Client, ClientAction(c) PROVE LateInv'
    <3>1. UNCHANGED serverRun \/ Close(c)
      BY <2>1 DEF ClientAction, Request, CheckSession, Receive, sharedVars
    <3>2. CASE Request(c)
      BY <3>2 DEF Request, Command, sharedVars
    <3>3. CASE CheckSession(c)
      BY <3>3 DEF CheckSession, sharedVars
    <3>4. CASE Receive(c)
      BY <3>4 DEF Receive, Command, sharedVars
    <3>5. CASE Close(c)
      BY <3>5 DEF Close, sharedVars
    <3>6. QED
      BY <2>1, <3>2, <3>3, <3>4, <3>5 DEF ClientAction
  <2>2. ASSUME NEW t \in Server, ServerAction(t) PROVE LateInv'
    <3>1. UNCHANGED <<serverRun, late>>
      BY <2>2, ServerSteps, ServerClients
    <3>2. \/ UNCHANGED client
          \/ \E c \in Client : /\ client[c] = "none"
                               /\ client' = [client EXCEPT ![c] = "request"]
      BY <2>2, ServerClients
    <3>3. QED
      BY <3>1, <3>2
  <2>3. CASE CheckServer
    BY <2>3 DEF CheckServer, sharedVars, clientVars
  <2>4. CASE CreateServer
    BY <2>4 DEF CreateServer
  <2>5. ASSUME NEW p \in Stopper, StopAction(p) PROVE LateInv'
    <3>1. UNCHANGED <<client, late>> /\ serverRun' \in {serverRun, FALSE}
      BY <2>5 DEF StopAction, StopBegins, Shutdown, TestTask, DeleteServer, ClearTask,
         TestSocket, CloseSocket, StopEnds, Return, sharedVars, clientVars
    <3>2. serverRun' => serverRun
      BY <3>1, Zenon
    <3>3. QED
      BY <3>1, <3>2
  <2>6. CASE UNCHANGED vars
    BY <2>6 DEF vars, sharedVars, clientVars
  <2>7. QED
    BY <2>1, <2>2, <2>3, <2>4, <2>5, <2>6 DEF Next, Stopper
<1>3. QED
  BY <1>1, <1>2, PTL DEF Spec

\* OneLateCommand for all constants.
THEOREM FewLateCommands == Spec => []OneLateCommand
<1>1. LateInv => OneLateCommand
  BY DEF LateInv
<1>2. QED
  BY <1>1, LateInvariant, PTL
-----------------------------------------------------------------------------
(* The types.                                                              *)

\* What no other invariant says, with overlapping stops or without.
TypeInv ==
  /\ serverRun \in BOOLEAN
  /\ listenSock \in Sock \cup {NoSock}
  /\ sockets \subseteq Sock /\ leaked \subseteq Sock /\ listening \subseteq sockets
  /\ serverFd \in [Server -> Sock \cup {NoSock}]
  /\ \A t \in Server : serverFd[t] # NoSock => server[t] \in {"assign", "spawn", "close"}
  /\ clientSock \in [Client -> Sock \cup {NoSock}]
  /\ stopFd \in [Stopper -> Sock \cup {NoSock}]
  /\ \A p \in Stopper : stopFd[p] # NoSock <=> stopper[p] \in {"shutdown", "close", "forget"}

LEMMA ServerTypes ==
  ASSUME HandleInv, TypeInv, NEW t \in Server, ServerAction(t)
  PROVE  TypeInv'
<1> USE DEF TypeInv, Goto, Hold
<1>1. UNCHANGED <<serverRun, stopper, stopFd>> /\ server \in [Server -> ServerStep]
  BY ServerSteps DEF stopVars, HandleInv
<1>2. CASE Socket(t)
  BY <1>1, <1>2 DEF Socket, clientVars, ServerStep
<1>3. CASE Assign(t) \/ Bind(t) \/ CheckRun(t) \/ AcceptFails(t)
  BY <1>1, <1>3 DEF Assign, Bind, CheckRun, AcceptFails, sharedVars, netVars,
     clientVars, historyVars, ServerStep
<1>4. CASE Listen(t)
  BY <1>1, <1>4 DEF Listen, sharedVars, clientVars, historyVars, ServerStep
<1>5. CASE BindFails(t) \/ ListenFails(t) \/ End(t)
  BY <1>1, <1>5 DEF BindFails, ListenFails, End, ToClose, sharedVars, netVars,
     clientVars, historyVars, ServerStep
<1>6. CASE Accept(t) \/ Spawn(t)
  BY <1>1, <1>6 DEF Accept, Spawn, sharedVars, clientVars, historyVars, ServerStep
<1>7. CASE CloseServer(t) \/ ForgetSocket(t) \/ ClearServer(t)
  BY <1>1, <1>7 DEF CloseServer, ForgetSocket, ClearServer, sharedVars, netVars,
     clientVars, historyVars, ServerStep
<1>8. QED
  BY <1>2, <1>3, <1>4, <1>5, <1>6, <1>7 DEF ServerAction

LEMMA StopTypes ==
  ASSUME HandleInv, TypeInv, NEW p \in Stopper, StopAction(p)
  PROVE  TypeInv'
<1> USE DEF TypeInv, StopGoto, HandleInv, StopStep
<1>0. serverRun' \in {serverRun, FALSE} /\ serverRun' \in BOOLEAN
  <2>1. serverRun' \in {serverRun, FALSE}
    BY DEF StopAction, StopBegins, Shutdown, TestTask, DeleteServer, ClearTask,
       TestSocket, CloseSocket, StopEnds, Return, sharedVars
  <2>2. QED
    BY <2>1
<1>1. CASE StopBegins(p) \/ Shutdown(p)
  BY <1>0, <1>1 DEF StopBegins, Shutdown, sharedVars, netVars, serverVars, clientVars,
     historyVars
<1>2. CASE TestTask(p) \/ ClearTask(p)
  BY <1>2 DEF TestTask, ClearTask, sharedVars, netVars, serverVars, clientVars
<1>3. CASE DeleteServer(p)
  BY <1>3 DEF DeleteServer, Goto, Hold, sharedVars, netVars, serverVars, clientVars
<1>4. CASE TestSocket(p)
  BY <1>4 DEF TestSocket, Return, sharedVars, netVars, serverVars, clientVars,
     historyVars
<1>5. CASE CloseSocket(p)
  BY <1>5 DEF CloseSocket, sharedVars, serverVars, clientVars, historyVars
<1>6. CASE StopEnds(p)
  BY <1>6 DEF StopEnds, Return, netVars, serverVars, clientVars
<1>7. QED
  BY <1>1, <1>2, <1>3, <1>4, <1>5, <1>6 DEF StopAction

LEMMA TypeInvariant == Spec => []TypeInv
<1>1. Init => TypeInv
  <2> SUFFICES ASSUME Init PROVE TypeInv
    OBVIOUS
  <2>1. serverRun \in BOOLEAN
    BY ZenonT(40) DEF Init
  <2>2. QED
    BY <2>1 DEF Init, TypeInv
<1>2. HandleInv /\ TypeInv /\ [Next]_vars => TypeInv'
  <2> SUFFICES ASSUME HandleInv, TypeInv, [Next]_vars PROVE TypeInv'
    OBVIOUS
  <2> USE DEF TypeInv
  <2>1. ASSUME NEW c \in Client, ClientAction(c) PROVE TypeInv'
    <3>1. UNCHANGED <<sharedVars, serverVars, stopVars, historyVars>>
      BY <2>1, ClientSteps
    <3>2. \/ UNCHANGED <<netVars, clientSock>>
          \/ Close(c)
      BY <2>1 DEF ClientAction, Request, CheckSession, Receive
    <3>3. QED
      BY <3>1, <3>2 DEF Close, sharedVars, netVars, serverVars, stopVars, historyVars
  <2>2. CASE CheckServer
    BY <2>2 DEF CheckServer, sharedVars, netVars, serverVars, clientVars, stopVars,
       historyVars
  <2>3. CASE CreateServer
    <3>1. /\ serverRun' = TRUE
          /\ UNCHANGED <<listenSock, sockets, listening, leaked, serverFd, clientSock,
                         stopper, stopFd>>
          /\ \A t \in Server : server[t] = "none"
      BY <2>3 DEF CreateServer, netVars, stopVars, HandleInv, HandleTracksServer, Live
    <3>2. \A t \in Server : serverFd[t] = NoSock
      BY <3>1
    <3>3. QED
      BY <3>1, <3>2
  <2>4. CASE UNCHANGED vars
    BY <2>4 DEF vars, sharedVars, netVars, serverVars, clientVars, stopVars, historyVars
  <2>5. QED
    BY <2>1, <2>2, <2>3, <2>4, ServerTypes, StopTypes DEF Next, Stopper
<1>3. QED
  BY <1>1, <1>2, HandleInvariant, PTL DEF Spec

\* ServerTypeOK for all constants.
THEOREM TypeCorrect == Spec => []ServerTypeOK
<1>1. HandleInv /\ LateInv /\ TypeInv => ServerTypeOK
  BY DEF HandleInv, LateInv, TypeInv, ServerTypeOK
<1>2. QED
  BY <1>1, HandleInvariant, LateInvariant, TypeInvariant, PTL
=============================================================================
