----------------------------- MODULE TcpServer -----------------------------
(***************************************************************************)
(* TcpServer (network/tcpserver.hpp, network/tcpserver.cpp): the owner     *)
(* thread that calls start and stop, the server thread in run(), and one   *)
(* handle_client task per connection on the server's thread pool.          *)
(*                                                                         *)
(* The pool is the abstract TaskQueue that ThreadPool implements, its      *)
(* tasks the connections.  Descriptors are the kernel's: accept and        *)
(* socket take the lowest free one, and other code of the same process     *)
(* (foreign) opens and closes files too, so that a number closed here may  *)
(* soon name something else.  m_running and m_server_fd are read and       *)
(* written without a lock: each access is atomic, in any interleaving.     *)
(***************************************************************************)
EXTENDS Integers, Sequences, FiniteSets, FiniteSetsExt

CONSTANTS Conn,        \* connections that peers open
          NoConn,      \* run() holds no accepted connection
          Fd,          \* the descriptors the process may have
          PoolSize,    \* threads of client_pool
          MaxForeign   \* bound: files other code has open at once

ASSUME ConnAssumption == {NoConn, "free", "listen", "deaf", "foreign"} \cap Conn = {}

ASSUME FdAssumption ==
    /\ Fd \subseteq Nat /\ IsFiniteSet(Fd) /\ Fd # {}
    /\ PoolSize \in Nat \ {0} /\ MaxForeign \in Nat

NoFd == -1

VARIABLES
    m_running,
    m_server_fd,
    m_clients,     \* descriptors of the connections in service
    app,           \* where the owner is: "idle" or a point of stop()
    answer,        \* how the owner's last call returned
    toClose,       \* what the loop of stop() has yet to close
    run,           \* where m_server_thread is; "none" when not joinable
    accepted,      \* the connection run() has accepted and not inserted
    handler,       \* where each connection's handle_client is
    fdOf,          \* each handler's argument client_fd
    file,          \* the kernel's descriptor table
    queue, active, future, limit, closed   \* client_pool

serverVars == <<m_running, m_server_fd, m_clients>>
appVars    == <<app, answer, toClose>>
runVars    == <<run, accepted>>
connVars   == <<handler, fdOf>>
poolVars   == <<queue, active, future, limit, closed>>
vars == <<serverVars, appVars, runVars, connVars, file, poolVars>>

Pool == INSTANCE TaskQueue WITH Task <- Conn, Limits <- {}, SizeMax <- Cardinality(Conn) + 1

AppPC     == {"idle", "shutdown", "close", "assign", "lock", "clients", "join"}
RunPC     == {"none", "test", "accept", "accepting", "astray", "accepted", "closing",
              "assign", "leaving", "draining", "ended", "terminate"}
HandlerPC == {"none", "test", "recv", "reading", "lostRead", "reply", "sending",
              "lostSend", "end"}

Free == {fd \in Fd : file[fd] = "free"}
Lowest == Min(Free)

\* close(fd): whatever the number names now is closed; EBADF changes nothing.
Closed(fd) == IF fd = NoFd THEN file ELSE [file EXCEPT ![fd] = "free"]

\* stop() holds m_clients_mutex over its loop; other sections are one action.
Locked == app = "clients"

Init ==
    /\ m_running = FALSE
    /\ m_server_fd = NoFd
    /\ m_clients = {}
    /\ app = "idle" /\ answer = "none" /\ toClose = {}
    /\ run = "none" /\ accepted = NoConn
    /\ handler = [c \in Conn |-> "none"]
    /\ fdOf = [c \in Conn |-> NoFd]
    /\ file = [fd \in Fd |-> "free"]
    /\ Pool!Init

-----------------------------------------------------------------------------
(* start()                                                                 *)

\* Line 17: m_running is set, so the server is taken to be running.
StartAgain ==
    /\ app = "idle"
    /\ m_running
    /\ answer' = "already"
    /\ UNCHANGED <<serverVars, app, toClose, runVars, connVars, file, poolVars>>

\* socket, setsockopt, bind and listen succeed; the thread is assigned, with a
\* fresh client_pool (a joinable m_server_thread would end the program).
StartOk ==
    /\ app = "idle"
    /\ ~m_running
    /\ Free # {}
    /\ m_running' = TRUE
    /\ m_server_fd' = Lowest
    /\ file' = [file EXCEPT ![Lowest] = "listen"]
    /\ run' = IF run = "none" THEN "test" ELSE "terminate"
    /\ answer' = "started"
    /\ queue' = <<>> /\ active' = {} /\ limit' = Cardinality(Conn) + 1 /\ closed' = FALSE
    /\ UNCHANGED <<m_clients, app, toClose, accepted, connVars, future>>

\* One of the four calls fails: the socket is closed again if there is one,
\* and m_running, set on line 21, stays set.
StartFail ==
    /\ app = "idle"
    /\ ~m_running
    /\ m_running' = TRUE
    /\ m_server_fd' = NoFd
    /\ answer' = "failed"
    /\ UNCHANGED <<m_clients, app, toClose, runVars, connVars, file, poolVars>>

-----------------------------------------------------------------------------
(* stop(), also the destructor                                             *)

\* Mutant of Stop: m_running is not taken back.
StopUnflagged ==
    /\ app = "idle"
    /\ app' = "shutdown"
    /\ UNCHANGED <<serverVars, answer, toClose, runVars, connVars, file, poolVars>>

Stop ==
    /\ app = "idle"
    /\ m_running' = FALSE
    /\ app' = "shutdown"
    /\ UNCHANGED <<m_server_fd, m_clients, answer, toClose, runVars, connVars,
                   file, poolVars>>

\* shutdown() makes a blocked accept return; only a socket can be shut down.
StopShutdown ==
    /\ app = "shutdown"
    /\ IF m_server_fd = NoFd
       THEN app' = "lock" /\ UNCHANGED file
       ELSE /\ app' = "close"
            /\ file' = IF file[m_server_fd] = "listen"
                       THEN [file EXCEPT ![m_server_fd] = "deaf"] ELSE file
    /\ UNCHANGED <<serverVars, answer, toClose, runVars, connVars, poolVars>>

\* close_server(): the test and close() here, the assignment in the next step.
StopClose ==
    /\ app = "close"
    /\ app' = IF m_server_fd = NoFd THEN "lock" ELSE "assign"
    /\ file' = Closed(m_server_fd)
    /\ UNCHANGED <<serverVars, answer, toClose, runVars, connVars, poolVars>>

StopAssign ==
    /\ app = "assign"
    /\ m_server_fd' = NoFd
    /\ app' = "lock"
    /\ UNCHANGED <<m_running, m_clients, answer, toClose, runVars, connVars, file,
                   poolVars>>

\* Mutant of StopLock: the set is cleared before its sockets are closed.
StopLockClears ==
    /\ app = "lock"
    /\ toClose' = m_clients
    /\ m_clients' = {}
    /\ app' = "clients"
    /\ UNCHANGED <<m_running, m_server_fd, answer, runVars, connVars, file, poolVars>>

StopLock ==
    /\ app = "lock"
    /\ toClose' = m_clients
    /\ app' = "clients"
    /\ UNCHANGED <<serverVars, answer, runVars, connVars, file, poolVars>>

\* shutdown and close of one client, in the set's unspecified order.
StopClient(fd) ==
    /\ app = "clients"
    /\ fd \in toClose
    /\ toClose' = toClose \ {fd}
    /\ file' = Closed(fd)
    /\ UNCHANGED <<serverVars, app, answer, runVars, connVars, poolVars>>

StopClear ==
    /\ app = "clients"
    /\ toClose = {}
    /\ m_clients' = {}
    /\ app' = "join"
    /\ UNCHANGED <<m_running, m_server_fd, answer, toClose, runVars, connVars, file,
                   poolVars>>

\* Mutant of Joinable: stop() does not wait for the server thread.
Detached == TRUE

\* m_server_thread.join() returns, or there was no thread to join.
Joinable == run \in {"none", "ended"}

StopJoin ==
    /\ app = "join"
    /\ Joinable
    /\ run' = "none"
    /\ app' = "idle"
    /\ answer' = "stopped"
    /\ UNCHANGED <<serverVars, toClose, accepted, connVars, file, poolVars>>

-----------------------------------------------------------------------------
(* run(), the server thread                                                *)

RunTest ==
    /\ run = "test"
    /\ run' = IF m_running THEN "accept" ELSE "closing"
    /\ UNCHANGED <<serverVars, appVars, accepted, connVars, file, poolVars>>

Listening == m_server_fd # NoFd /\ file[m_server_fd] = "listen"

\* accept(m_server_fd) begins: on the listening socket, or on a file of other code
\* that has the number by now ("astray"), where it may fail or wait for ever.
RunCall ==
    /\ run = "accept"
    /\ Free # {}
    /\ \/ Listening /\ run' = "accepting"
       \/ m_server_fd # NoFd /\ file[m_server_fd] = "foreign" /\ run' = "astray"
    /\ UNCHANGED <<serverVars, appVars, accepted, connVars, file, poolVars>>

RunAccept(c) ==
    /\ run = "accepting"
    /\ Listening /\ Free # {}
    /\ future[c] = "none" /\ fdOf[c] = NoFd
    /\ file' = [file EXCEPT ![Lowest] = c]
    /\ fdOf' = [fdOf EXCEPT ![c] = Lowest]
    /\ accepted' = c
    /\ run' = "accepted"
    /\ UNCHANGED <<serverVars, appVars, handler, poolVars>>

\* EAGAIN, EINTR or ECONNABORTED: try again.
RunTransient ==
    /\ run \in {"accepting", "astray"}
    /\ run' = "test"
    /\ UNCHANGED <<serverVars, appVars, accepted, connVars, file, poolVars>>

\* accept fails at once, without a listening socket or a free descriptor
\* (EMFILE), or when stop() shuts its socket down.
AcceptRefused ==
    \/ run = "accept" /\ (~Listening \/ Free = {})
    \/ run = "accepting" /\ ~Listening

\* Mutant of RunFatal: the server that ends takes m_running back.
RunFatalReset ==
    /\ run \in {"accepting", "astray"} \/ AcceptRefused
    /\ run' = "closing"
    /\ m_running' = FALSE
    /\ UNCHANGED <<m_server_fd, m_clients, appVars, accepted, connVars, file, poolVars>>

\* Any other error ends the loop; m_running stays as it is.
RunFatal ==
    /\ run \in {"accepting", "astray"} \/ AcceptRefused
    /\ run' = "closing"
    /\ UNCHANGED <<serverVars, appVars, accepted, connVars, file, poolVars>>

\* Mutant of Tracked: the accepted descriptor is not inserted.
Untracked(fds, fd) == fds

\* m_clients.insert(client_fd)
Tracked(fds, fd) == fds \cup {fd}

RunInsert ==
    /\ run = "accepted"
    /\ ~Locked
    /\ m_clients' = Tracked(m_clients, fdOf[accepted])
    /\ Pool!Submit(accepted)
    /\ accepted' = NoConn
    /\ run' = "test"
    /\ UNCHANGED <<m_running, m_server_fd, appVars, connVars, file>>

\* close_server(), by the server thread this time.
RunClose ==
    /\ run = "closing"
    /\ run' = IF m_server_fd = NoFd THEN "leaving" ELSE "assign"
    /\ file' = Closed(m_server_fd)
    /\ UNCHANGED <<serverVars, appVars, accepted, connVars, poolVars>>

RunAssign ==
    /\ run = "assign"
    /\ m_server_fd' = NoFd
    /\ run' = "leaving"
    /\ UNCHANGED <<m_running, m_clients, appVars, accepted, connVars, file, poolVars>>

\* The destructor of client_pool begins: queued handlers will not start.
RunLeave ==
    /\ run = "leaving"
    /\ Pool!Close
    /\ run' = "draining"
    /\ UNCHANGED <<serverVars, appVars, accepted, connVars, file>>

\* Mutant of Drained: the pool does not join its workers.
Undrained == TRUE

\* Every handler that had started has returned.
Drained == active = {}

RunEnd ==
    /\ run = "draining"
    /\ Drained
    /\ Pool!Clear
    /\ run' = "ended"
    /\ UNCHANGED <<serverVars, appVars, accepted, connVars, file>>

-----------------------------------------------------------------------------
(* handle_client(client_fd), a task of the pool                            *)

\* A free thread of the pool takes the oldest connection.
HandlerStart ==
    /\ run # "none"
    /\ Cardinality(active) < PoolSize
    /\ Pool!Start
    /\ handler' = [handler EXCEPT ![Head(queue)] = "test"]
    /\ UNCHANGED <<serverVars, appVars, runVars, fdOf, file>>

HandlerTest(c) ==
    /\ handler[c] = "test"
    /\ handler' = [handler EXCEPT ![c] = IF m_running THEN "recv" ELSE "end"]
    /\ UNCHANGED <<serverVars, appVars, runVars, fdOf, file, poolVars>>

\* A call on client_fd begins: on the connection; or, when stop() has closed that,
\* on a file of other code that has the number by now; or it fails (EBADF).
Entered(c, own, lost) ==
    CASE file[fdOf[c]] = c         -> own
      [] file[fdOf[c]] = "foreign" -> lost
      [] OTHER                     -> "end"

\* recv is called.
HandlerCall(c) ==
    /\ handler[c] = "recv"
    /\ handler' = [handler EXCEPT ![c] = Entered(c, "reading", "lostRead")]
    /\ UNCHANGED <<serverVars, appVars, runVars, fdOf, file, poolVars>>

\* recv delivers data, an error that is retried, or the end of the connection
\* or another error.
HandlerRecv(c) ==
    /\ handler[c] \in {"reading", "lostRead"}
    /\ \E next \in {"reply", "test", "end"} : handler' = [handler EXCEPT ![c] = next]
    /\ UNCHANGED <<serverVars, appVars, runVars, fdOf, file, poolVars>>

\* The callback returns and send is called.
HandlerReply(c) ==
    /\ handler[c] = "reply"
    /\ handler' = [handler EXCEPT ![c] = Entered(c, "sending", "lostSend")]
    /\ UNCHANGED <<serverVars, appVars, runVars, fdOf, file, poolVars>>

\* send succeeds, has no response to send or is interrupted (the response is
\* lost then), or fails.
HandlerSent(c) ==
    /\ handler[c] \in {"sending", "lostSend"}
    /\ \E next \in {"test", "end"} : handler' = [handler EXCEPT ![c] = next]
    /\ UNCHANGED <<serverVars, appVars, runVars, fdOf, file, poolVars>>

\* erase and close under the lock, whatever the number names by now.
HandlerEnd(c) ==
    /\ handler[c] = "end"
    /\ ~Locked
    /\ m_clients' = m_clients \ {fdOf[c]}
    /\ file' = Closed(fdOf[c])
    /\ handler' = [handler EXCEPT ![c] = "none"]
    /\ Pool!Finish(c)
    /\ UNCHANGED <<m_running, m_server_fd, appVars, runVars, fdOf>>

-----------------------------------------------------------------------------
(* Other code of the process                                               *)

ForeignOpen ==
    /\ Free # {}
    /\ Cardinality({fd \in Fd : file[fd] = "foreign"}) < MaxForeign
    /\ file' = [file EXCEPT ![Lowest] = "foreign"]
    /\ UNCHANGED <<serverVars, appVars, runVars, connVars, poolVars>>

ForeignClose(fd) ==
    /\ file[fd] = "foreign"
    /\ file' = Closed(fd)
    /\ UNCHANGED <<serverVars, appVars, runVars, connVars, poolVars>>

-----------------------------------------------------------------------------
StopStep ==
    \/ StopShutdown \/ StopClose \/ StopAssign \/ StopLock
    \/ (\E fd \in Fd : StopClient(fd)) \/ StopClear \/ StopJoin

RunStep ==
    \/ RunTest \/ RunCall \/ (\E c \in Conn : RunAccept(c)) \/ RunTransient \/ RunFatal
    \/ RunInsert \/ RunClose \/ RunAssign \/ RunLeave \/ RunEnd

HandlerStep(c) ==
    \/ HandlerTest(c) \/ HandlerCall(c) \/ HandlerRecv(c) \/ HandlerReply(c)
    \/ HandlerSent(c) \/ HandlerEnd(c)

Next ==
    \/ StartAgain \/ StartOk \/ StartFail \/ Stop
    \/ StopStep
    \/ RunStep
    \/ HandlerStart
    \/ \E c \in Conn : HandlerStep(c)
    \/ ForeignOpen
    \/ \E fd \in Fd : ForeignClose(fd)

Spec == Init /\ [][Next]_vars

(***************************************************************************)
(* Fairness: threads run and the request callback returns.  A peer need    *)
(* not connect, send, read or hang up: accept, recv and send on the        *)
(* server's own sockets need not return until stop() has shut these down,  *)
(* and on a file of other code they need never return.                     *)
(***************************************************************************)
\* stop() has shut down and closed the connection.
Gone(c) == file[fdOf[c]] # c

Fairness ==
    /\ WF_vars(StopStep)
    /\ WF_vars(RunTest) /\ WF_vars(RunCall) /\ WF_vars(RunFatal /\ AcceptRefused)
    /\ WF_vars(RunInsert) /\ WF_vars(RunClose) /\ WF_vars(RunAssign)
    /\ WF_vars(RunLeave) /\ WF_vars(RunEnd)
    /\ WF_vars(HandlerStart)
    /\ \A c \in Conn : /\ WF_vars(HandlerTest(c)) /\ WF_vars(HandlerCall(c))
                       /\ WF_vars(HandlerReply(c)) /\ WF_vars(HandlerEnd(c))
                       /\ WF_vars(handler[c] = "reading" /\ Gone(c) /\ HandlerRecv(c))
                       /\ WF_vars(handler[c] = "sending" /\ Gone(c) /\ HandlerSent(c))

FairSpec == Spec /\ Fairness

-----------------------------------------------------------------------------
(* Properties                                                              *)

TypeOK ==
    /\ m_running \in BOOLEAN
    /\ m_server_fd \in Fd \cup {NoFd}
    /\ m_clients \subseteq Fd
    /\ app \in AppPC
    /\ answer \in {"none", "started", "already", "failed", "stopped"}
    /\ toClose \subseteq m_clients
    /\ run \in RunPC
    /\ accepted \in Conn \cup {NoConn}
    /\ handler \in [Conn -> HandlerPC]
    /\ fdOf \in [Conn -> Fd \cup {NoFd}]
    /\ file \in [Fd -> Conn \cup {"free", "listen", "deaf", "foreign"}]

\* m_clients (or what stop() still has to close of it) is exactly the open
\* connections, but for the one that run() has accepted and not inserted.
ClientsTracked ==
    \A fd \in Fd :
        fd \in (IF Locked THEN toClose ELSE m_clients) <=>
            /\ file[fd] \in Conn
            /\ file[fd] # accepted

\* No handler outlives the server thread, so none uses a TcpServer that stop()
\* (the destructor) has let go.
NoHandlerOutlives ==
    run \in {"none", "ended"} => active = {} /\ \A c \in Conn : handler[c] = "none"

\* start() never assigns over a joinable thread, in whatever order failures of
\* accept, start() and stop() came before.
NeverTerminates == run # "terminate"

\* While m_running is set the server closes no descriptor of other code, though
\* the numbers it closed in an earlier stop() are in use again.
ServingClosesOwn ==
    [][\A fd \in Fd : (file[fd] = "foreign" /\ file'[fd] # "foreign" /\ m_running)
                          => ForeignClose(fd)]_vars

\* A thread of the server is in a call on a file of other code, which has the
\* number of a socket that stop() closed before the thread called.
Astray ==
    \/ run = "astray"
    \/ \E c \in Conn : handler[c] \in {"lostRead", "lostSend"}

\* stop() returns, whatever the peers do, unless a thread that it waits for stays
\* for ever in a call on a file of other code.  (Then it may not: nothing of the
\* server can end that call.)
StopReturns == []<>~Astray => (app # "idle" ~> app = "idle")

\* Line 66: stop() closes all client sockets.
AllClientsClosed ==
    (app = "idle" /\ answer = "stopped") => \A fd \in Fd : file[fd] \notin Conn

=============================================================================
