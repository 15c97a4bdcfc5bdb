------------------------------ MODULE StaServer ------------------------------
(***************************************************************************)
(* The tasks of sta_ws_server.c on the ESP8266: the server task that owns  *)
(* the listening socket of port 80, a task for each connection, which      *)
(* outlives the server, and sta_ws_server_start and sta_ws_server_stop,    *)
(* which wifi_runtime.c calls from other tasks with no lock.               *)
(*                                                                         *)
(* The event and the button task stop the server.  The event task has a    *)
(* higher priority than the button task and this than all others, which    *)
(* share one: a stopping task can be overtaken between any two of its      *)
(* statements by the event task, by the others only where it blocks, in    *)
(* its wait of at most a second or in lwIP.  The wait may be over by time  *)
(* at any step of the server.                                              *)
(*                                                                         *)
(* Two stops that overlap may delete a task that is deleted already, which *)
(* FreeRTOS leaves undefined; here it does nothing.                        *)
(*                                                                         *)
(* Abstracted: what is sent and received, as a command to the door, a      *)
(* request without one, or the end of a connection; lwIP, as a table of    *)
(* the server's sockets that may be full.  It does not promise that a      *)
(* shutdown wakes a task in accept.                                        *)
(***************************************************************************)
EXTENDS Naturals

CONSTANTS Server,    \* identities of sta_ws_server_task
          Client,    \* identities of sta_ws_client_task
          EventTask, \* the tasks that call sta_ws_server_stop
          ButtonTask,
          Sock,      \* the sockets of lwIP
          NoTask,    \* s_serverTask == NULL
          NoSock     \* s_listenSock == -1

ASSUME ServerAssumption ==
  NoTask \notin Server /\ NoSock \notin Sock /\ EventTask # ButtonTask

Stopper == {EventTask, ButtonTask}

VARIABLES
  serverRun, serverTask, listenSock,
  sockets,      \* the sockets that are open
  listening,    \* those that listen on port 80
  server,       \* where each server task is
  serverFd,     \* the descriptor that socket() or accept() returned to it, or
                \* that it is to close
  client,       \* where each client task is
  clientSock,   \* its connection
  starter,      \* where the task is that calls sta_ws_server_start
  stopper,      \* where the tasks are that call sta_ws_server_stop
  stopFd,       \* the descriptor that they are to shut down or to close
  noSocket,     \* history: the server of s_serverTask ended for want of a socket
  stopped,      \* history: no server was created since a stop's wait ended
  leaked,       \* history: open descriptors that nobody has any more
  overlapped,   \* history: a stop's wait ended, or a server was created, while
                \* another stop was between the end of its wait and its return
  late          \* history: commands of a client task since the server stopped

sharedVars == <<serverRun, serverTask, listenSock>>
netVars == <<sockets, listening>>
serverVars == <<server, serverFd>>
clientVars == <<client, clientSock, late>>
stopVars == <<stopper, stopFd>>
historyVars == <<noSocket, stopped, leaked, overlapped>>
vars == <<sharedVars, netVars, serverVars, clientVars, starter, stopVars,
          historyVars>>

ServerStep == {"none", "socket", "assign", "bind", "listen", "check", "accept",
               "spawn", "end", "close", "forget", "clear"}
ClientStep == {"none", "request", "check", "recv", "close"}
StopStep == {"idle", "shutdown", "wait", "delete", "clear", "test", "close",
             "forget", "deleted"}

Init ==
  /\ serverRun = FALSE /\ serverTask = NoTask /\ listenSock = NoSock
  /\ sockets = {} /\ listening = {}
  /\ server = [t \in Server |-> "none"] /\ serverFd = [t \in Server |-> NoSock]
  /\ client = [c \in Client |-> "none"]
  /\ clientSock = [c \in Client |-> NoSock]
  /\ starter = "idle"
  /\ stopper = [p \in Stopper |-> "idle"] /\ stopFd = [p \in Stopper |-> NoSock]
  /\ noSocket = FALSE /\ stopped = TRUE /\ leaked = {} /\ overlapped = FALSE
  /\ late = [c \in Client |-> 0]

-----------------------------------------------------------------------------
(* sta_ws_server_task.                                                     *)

Goto(t, step) == server' = [server EXCEPT ![t] = step]
Hold(t, s) == serverFd' = [serverFd EXCEPT ![t] = s]

Socket(t) ==
  /\ server[t] = "socket"
  /\ \/ \E s \in Sock \ sockets :
          /\ sockets' = sockets \cup {s}
          /\ Hold(t, s)
          /\ Goto(t, "assign")
          /\ UNCHANGED <<listenSock, noSocket>>
     \/ /\ listenSock' = NoSock  \* the task ends; s_serverTask still names it
        /\ Goto(t, "none")
        /\ noSocket' = TRUE
        /\ UNCHANGED <<sockets, serverFd>>
  /\ UNCHANGED <<serverRun, serverTask, listening, clientVars, starter, stopVars,
                 stopped, leaked, overlapped>>

Assign(t) ==
  /\ server[t] = "assign"
  /\ listenSock' = serverFd[t]
  /\ Hold(t, NoSock)
  /\ Goto(t, "bind")
  /\ UNCHANGED <<serverRun, serverTask, netVars, clientVars, starter, stopVars,
                 historyVars>>

\* s_listenSock is to be closed.
ToClose(t) ==
  /\ Hold(t, listenSock)
  /\ Goto(t, "close")
  /\ UNCHANGED <<sharedVars, netVars, clientVars, starter, stopVars, historyVars>>

\* bind, listen; either may fail, as when another server has port 80.
BindFails(t) == server[t] = "bind" /\ ToClose(t)
ListenFails(t) == server[t] = "listen" /\ ToClose(t)

Bind(t) ==
  /\ server[t] = "bind" /\ listenSock \in sockets
  /\ Goto(t, "listen")
  /\ UNCHANGED <<sharedVars, netVars, serverFd, clientVars, starter, stopVars,
                 historyVars>>

Listen(t) ==
  /\ server[t] = "listen" /\ listenSock \in sockets
  /\ listening' = listening \cup {listenSock}
  /\ Goto(t, "check")
  /\ UNCHANGED <<sharedVars, sockets, serverFd, clientVars, starter, stopVars,
                 historyVars>>

\* while (s_serverRun)
CheckRun(t) ==
  /\ server[t] = "check"
  /\ Goto(t, IF serverRun THEN "accept" ELSE "end")
  /\ UNCHANGED <<sharedVars, netVars, serverFd, clientVars, starter, stopVars,
                 historyVars>>

\* accept returns a connection ...
Accept(t) ==
  /\ server[t] = "accept" /\ listening # {}
  /\ \E s \in Sock \ sockets :
       /\ sockets' = sockets \cup {s}
       /\ Hold(t, s)
  /\ Goto(t, "spawn")
  /\ UNCHANGED <<sharedVars, listening, clientVars, starter, stopVars,
                 historyVars>>

\* ... or an error, for want of a socket or as the socket was shut down.
AcceptFails(t) ==
  /\ server[t] = "accept" /\ (listenSock \notin listening \/ Sock = sockets)
  /\ Goto(t, IF serverRun THEN "check" ELSE "end")
  /\ UNCHANGED <<sharedVars, netVars, serverFd, clientVars, starter, stopVars,
                 historyVars>>

\* Mutant of Spawn: the descriptor is kept as well.
SpawnKeepsSocket(t) ==
  /\ server[t] = "spawn"
  /\ \E c \in Client :
       /\ client[c] = "none"
       /\ client' = [client EXCEPT ![c] = "request"]
       /\ clientSock' = [clientSock EXCEPT ![c] = serverFd[t]]
  /\ Goto(t, "check")
  /\ UNCHANGED <<sharedVars, netVars, serverFd, late, starter, stopVars,
                 historyVars>>

\* The connection gets a task of its own, or is closed if there is no memory.
Spawn(t) ==
  /\ server[t] = "spawn"
  /\ \/ \E c \in Client :
          /\ client[c] = "none"
          /\ client' = [client EXCEPT ![c] = "request"]
          /\ clientSock' = [clientSock EXCEPT ![c] = serverFd[t]]
          /\ UNCHANGED sockets
     \/ sockets' = sockets \ {serverFd[t]} /\ UNCHANGED <<client, clientSock>>
  /\ listening' = listening \cap sockets'
  /\ Hold(t, NoSock)
  /\ Goto(t, "check")
  /\ UNCHANGED <<sharedVars, late, starter, stopVars, historyVars>>

End(t) ==
  /\ server[t] = "end"
  /\ IF listenSock # NoSock
     THEN ToClose(t)
     ELSE /\ Goto(t, "clear")
          /\ UNCHANGED <<sharedVars, netVars, serverFd, clientVars, starter,
                         stopVars, historyVars>>

\* close(s_listenSock), where others may run ...
CloseServer(t) ==
  /\ server[t] = "close"
  /\ sockets' = sockets \ {serverFd[t]}
  /\ listening' = listening \ {serverFd[t]}
  /\ Hold(t, NoSock)
  /\ Goto(t, "forget")
  /\ UNCHANGED <<sharedVars, clientVars, starter, stopVars, historyVars>>

\* Mutant of ForgetSocket: s_listenSock keeps the closed descriptor.
KeepDescriptor(t) ==
  /\ server[t] = "forget"
  /\ Goto(t, "clear")
  /\ UNCHANGED <<sharedVars, netVars, serverFd, clientVars, starter, stopVars,
                 historyVars>>

\* ... s_listenSock = -1 ...
ForgetSocket(t) ==
  /\ server[t] = "forget"
  /\ listenSock' = NoSock
  /\ Goto(t, "clear")
  /\ UNCHANGED <<serverRun, serverTask, netVars, serverFd, clientVars, starter,
                 stopVars, historyVars>>

\* ... s_serverTask = NULL, and the task ends.
ClearServer(t) ==
  /\ server[t] = "clear"
  /\ serverTask' = NoTask
  /\ Goto(t, "none")
  /\ UNCHANGED <<serverRun, listenSock, netVars, serverFd, clientVars, starter,
                 stopVars, historyVars>>

ServerAction(t) ==
  \/ Socket(t) \/ Assign(t) \/ Bind(t) \/ BindFails(t) \/ Listen(t)
  \/ ListenFails(t) \/ CheckRun(t) \/ Accept(t) \/ AcceptFails(t) \/ Spawn(t)
  \/ End(t) \/ CloseServer(t) \/ ForgetSocket(t) \/ ClearServer(t)

-----------------------------------------------------------------------------
(* sta_ws_client_task.                                                     *)

ClientGoto(c, step) == client' = [client EXCEPT ![c] = step]

\* The client has the door opened or closed.
Command(c) ==
  late' = [late EXCEPT ![c] = IF serverRun THEN 0 ELSE @ + 1]

\* handle_http_client: a request with a command or without, one that asks for
\* a websocket, or none.
Request(c) ==
  /\ client[c] = "request"
  /\ \/ Command(c) /\ ClientGoto(c, "close")
     \/ UNCHANGED late /\ ClientGoto(c, "close")
     \/ UNCHANGED late /\ ClientGoto(c, "check")
  /\ UNCHANGED <<sharedVars, netVars, serverVars, clientSock, starter, stopVars,
                 historyVars>>

\* Mutant of CheckSession: it goes on until the client leaves.
SessionForever(c) ==
  /\ client[c] = "check"
  /\ ClientGoto(c, "recv")
  /\ UNCHANGED <<sharedVars, netVars, serverVars, clientSock, late, starter,
                 stopVars, historyVars>>

\* websocket_session: s_serverRun is looked at before the next message is
\* waited for.
CheckSession(c) ==
  /\ client[c] = "check"
  /\ ClientGoto(c, IF serverRun THEN "recv" ELSE "close")
  /\ UNCHANGED <<sharedVars, netVars, serverVars, clientSock, late, starter,
                 stopVars, historyVars>>

\* A message is a command or not; or the connection ends.
Receive(c) ==
  /\ client[c] = "recv"
  /\ \/ Command(c) /\ ClientGoto(c, "check")
     \/ UNCHANGED late /\ ClientGoto(c, "check")
     \/ UNCHANGED late /\ ClientGoto(c, "close")
  /\ UNCHANGED <<sharedVars, netVars, serverVars, clientSock, starter, stopVars,
                 historyVars>>

Close(c) ==
  /\ client[c] = "close"
  /\ sockets' = sockets \ {clientSock[c]}
  /\ listening' = listening \cap sockets'
  /\ clientSock' = [clientSock EXCEPT ![c] = NoSock]
  /\ late' = [late EXCEPT ![c] = 0]
  /\ ClientGoto(c, "none")
  /\ UNCHANGED <<sharedVars, serverVars, starter, stopVars,
                 historyVars>>

ClientAction(c) == Request(c) \/ CheckSession(c) \/ Receive(c) \/ Close(c)

-----------------------------------------------------------------------------
(* sta_ws_server_start.                                                    *)

\* A server task that there is, or seems to be, is left alone.
CheckServer ==
  /\ starter = "idle"
  /\ starter' = IF serverTask = NoTask THEN "create" ELSE "idle"
  /\ UNCHANGED <<sharedVars, netVars, serverVars, clientVars, stopVars,
                 historyVars>>

\* Where a stopping task is after its wait.
PastWait(p) == stopper[p] \in {"delete", "clear", "test", "close", "forget"}

\* s_serverRun is set and the task created, which is not looked at.
CreateServer ==
  /\ starter = "create"
  /\ starter' = "idle"
  /\ serverRun' = TRUE
  /\ late' = [c \in Client |-> 0]
  /\ \/ \E t \in Server :
          /\ server[t] = "none"
          /\ serverTask' = t
          /\ Goto(t, "socket")
     \/ UNCHANGED <<serverTask, server>>
  /\ stopped' = FALSE
  /\ overlapped' = (overlapped \/ \E p \in Stopper : PastWait(p))
  /\ UNCHANGED <<listenSock, netVars, serverFd, client, clientSock, stopVars,
                 noSocket, leaked>>

-----------------------------------------------------------------------------
(* sta_ws_server_stop.                                                     *)

StopGoto(p, step) == stopper' = [stopper EXCEPT ![p] = step]

StopBegins(p) ==
  /\ stopper[p] = "idle"
  /\ serverRun' = FALSE
  /\ stopFd' = [stopFd EXCEPT ![p] = listenSock]
  /\ StopGoto(p, IF listenSock = NoSock THEN "wait" ELSE "shutdown")
  /\ UNCHANGED <<serverTask, listenSock, netVars, serverVars, clientVars, starter,
                 historyVars>>

Shutdown(p) ==
  /\ stopper[p] = "shutdown"
  /\ listening' = listening \ {stopFd[p]}
  /\ stopFd' = [stopFd EXCEPT ![p] = NoSock]
  /\ StopGoto(p, "wait")
  /\ UNCHANGED <<sharedVars, sockets, serverVars, clientVars, starter, historyVars>>

\* The wait is over.  Is there still a server?
TestTask(p) ==
  /\ stopper[p] = "wait"
  /\ StopGoto(p, IF serverTask = NoTask THEN "test" ELSE "delete")
  /\ stopped' = TRUE
  /\ overlapped' = (overlapped \/ \E q \in Stopper : PastWait(q))
  /\ UNCHANGED <<sharedVars, netVars, serverVars, clientVars, starter, stopFd,
                 noSocket, leaked>>

\* Mutant of DeleteServer: the task is only forgotten.
SpareServer(p) ==
  /\ stopper[p] = "delete"
  /\ StopGoto(p, "clear")
  /\ UNCHANGED <<sharedVars, netVars, serverVars, clientVars, starter, stopFd,
                 historyVars>>

\* vTaskDelete(s_serverTask).  The server is deleted where it is, and what it
\* holds stays open.  If s_serverTask is NULL by now, the task deletes itself.
DeleteServer(p) ==
  /\ stopper[p] = "delete"
  /\ IF serverTask = NoTask
     THEN StopGoto(p, "deleted") /\ UNCHANGED <<serverVars, leaked>>
     ELSE /\ StopGoto(p, "clear")
          /\ Goto(serverTask, "none")
          /\ Hold(serverTask, NoSock)
          /\ leaked' = leaked \cup ({serverFd[serverTask]} \ {listenSock, NoSock})
  /\ UNCHANGED <<sharedVars, netVars, clientVars, starter, stopFd, noSocket, stopped,
                 overlapped>>

\* Mutant of ClearTask: the handle is kept.
KeepTask(p) ==
  /\ stopper[p] = "clear"
  /\ noSocket' = FALSE
  /\ StopGoto(p, "test")
  /\ UNCHANGED <<sharedVars, netVars, serverVars, clientVars, starter, stopFd,
                 stopped, leaked, overlapped>>

\* s_serverTask = NULL
ClearTask(p) ==
  /\ stopper[p] = "clear"
  /\ serverTask' = NoTask
  /\ noSocket' = FALSE
  /\ StopGoto(p, "test")
  /\ UNCHANGED <<serverRun, listenSock, netVars, serverVars, clientVars, starter,
                 stopFd, stopped, leaked, overlapped>>

\* The stop returns.  The caller goes on to delete the task that starts the
\* services, at once or after it has stopped others.
Return(p) ==
  /\ StopGoto(p, "idle")
  /\ stopFd' = [stopFd EXCEPT ![p] = NoSock]
  /\ starter' \in {starter, "idle"}
  /\ UNCHANGED <<serverRun, serverTask, serverVars, clientVars, noSocket, stopped,
                 overlapped>>

\* Mutant of TestSocket: the socket of a deleted server is not closed.
SkipSocket(p) ==
  /\ stopper[p] = "test"
  /\ Return(p)
  /\ UNCHANGED <<listenSock, netVars, leaked>>

\* if (s_listenSock >= 0)
TestSocket(p) ==
  /\ stopper[p] = "test"
  /\ IF listenSock = NoSock
     THEN Return(p) /\ UNCHANGED <<listenSock, netVars, leaked>>
     ELSE /\ StopGoto(p, "close")
          /\ stopFd' = [stopFd EXCEPT ![p] = listenSock]
          /\ UNCHANGED <<sharedVars, netVars, serverVars, clientVars, starter,
                         historyVars>>

\* close(s_listenSock), where others may run ...
CloseSocket(p) ==
  /\ stopper[p] = "close"
  /\ sockets' = sockets \ {stopFd[p]}
  /\ listening' = listening \ {stopFd[p]}
  /\ StopGoto(p, "forget")
  /\ UNCHANGED <<sharedVars, serverVars, clientVars, starter, stopFd, historyVars>>

\* ... and s_listenSock = -1, whatever it is by now.
StopEnds(p) ==
  /\ stopper[p] = "forget"
  /\ Return(p)
  /\ listenSock' = NoSock
  /\ leaked' = leaked \cup {s \in sockets \cap {listenSock} :
                              \A t \in Server : serverFd[t] # s}
  /\ UNCHANGED netVars

StopAction(p) ==
  \/ StopBegins(p) \/ Shutdown(p) \/ TestTask(p) \/ DeleteServer(p)
  \/ ClearTask(p) \/ TestSocket(p) \/ CloseSocket(p) \/ StopEnds(p)

-----------------------------------------------------------------------------
\* Where a stopping task runs: it does not wait for time or for lwIP.
Ready(p) == stopper[p] \in {"delete", "clear", "test", "forget"}

Next ==
  \/ StopAction(EventTask)
  \/ ~Ready(EventTask) /\ StopAction(ButtonTask)
  \/ /\ \A p \in Stopper : ~Ready(p)
     /\ \/ \E t \in Server : ServerAction(t)
        \/ \E c \in Client : ClientAction(c)
        \/ CheckServer \/ CreateServer

Spec == Init /\ [][Next]_vars

-----------------------------------------------------------------------------
Live(t) == server[t] # "none"

\* With types: who may hold a descriptor, by where it is.
ServerTypeOK ==
  /\ serverRun \in BOOLEAN /\ serverTask \in Server \cup {NoTask}
  /\ listenSock \in Sock \cup {NoSock}
  /\ sockets \subseteq Sock /\ leaked \subseteq Sock /\ listening \subseteq sockets
  /\ server \in [Server -> ServerStep]
  /\ serverFd \in [Server -> Sock \cup {NoSock}]
  /\ \A t \in Server : serverFd[t] # NoSock => server[t] \in {"assign", "spawn", "close"}
  /\ client \in [Client -> ClientStep]
  /\ clientSock \in [Client -> Sock \cup {NoSock}]
  /\ starter \in {"idle", "create"}
  /\ stopper \in [Stopper -> StopStep]
  /\ stopFd \in [Stopper -> Sock \cup {NoSock}]
  /\ \A p \in Stopper : stopFd[p] # NoSock <=> stopper[p] \in {"shutdown", "close", "forget"}
  /\ noSocket \in BOOLEAN /\ stopped \in BOOLEAN /\ overlapped \in BOOLEAN
  /\ late \in [Client -> Nat]

\* However starts, stops and the servers that they create and delete interleave,
\* two stops between any two statements included, s_serverTask is the handle of
\* the server task there is, so that no two use s_listenSock.  It names a dead
\* task only until the stop that deleted it goes on, or if that task could not
\* get a socket.
HandleTracksServer ==
  /\ \A t \in Server : Live(t) => serverTask = t
  /\ serverTask # NoTask =>
       Live(serverTask) \/ noSocket \/ \E p \in Stopper : stopper[p] = "clear"

\* What a stop is about to delete is the server, which runs or ended for want of
\* a socket, and never the task that called it, but for two stops that overlap
\* after their waits: there the button task may find a server that is deleted
\* already, or NULL and delete itself, the event task only the former.
DeletesOnlyServer ==
  \A p \in Stopper : stopper[p] = "delete" =>
    /\ serverTask # NoTask \/ (p = ButtonTask /\ overlapped)
    /\ overlapped \/ Live(serverTask) \/ noSocket

\* Who holds a descriptor: s_listenSock, a server that has not stored it or not
\* passed it on, a client task.
Holder == {"s_listenSock"} \cup Server \cup Client
Holders(s) ==
  (IF listenSock = s THEN {"s_listenSock"} ELSE {})
    \cup {t \in Server : serverFd[t] = s /\ server[t] # "close"}
    \cup {c \in Client : clientSock[c] = s}

\* Between a close and the -1 that follows it, also of a server that is deleted
\* there, s_listenSock names a closed socket.
Closing ==
  \/ \E t \in Server : server[t] = "forget"
  \/ \E p \in Stopper : stopper[p] \in {"clear", "test", "close", "forget"}

\* Every descriptor of the server that is open is held by exactly one task or by
\* s_listenSock, and no closed one but while it is being forgotten, except for
\* those that a server held when a stop deleted it: these are lost for ever.
\* Two stops that overlap, or a start that overlaps the end of a stop, are
\* excepted: there a descriptor may be closed twice or lost.
SocketsOwned ==
  overlapped \/ \A s \in Sock :
    IF s \in sockets \ leaked
    THEN \E h \in Holder : Holders(s) = {h}
    ELSE Holders(s) \subseteq (IF Closing THEN {"s_listenSock"} ELSE {})

\* After a stop, until the next server is created, neither task nor socket is left
\* of the last one, and port 80 is free for the web server of provisioning mode,
\* unless two stops or a start overlapped the end of a stop and a socket was lost.
StopFreesPort ==
  stopped /\ (\A p \in Stopper : ~PastWait(p)) =>
    /\ \A t \in Server : ~Live(t)
    /\ listenSock = NoSock
    /\ listening = {} \/ overlapped

\* Client tasks outlive the server.  After a stop, until the next start, each
\* carries out one more command for the door at most: the one that it was
\* waiting for.
OneLateCommand == \A c \in Client : late[c] <= 1
=============================================================================
