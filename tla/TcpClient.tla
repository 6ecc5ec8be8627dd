------------------------------ MODULE TcpClient ------------------------------
(***************************************************************************)
(* TcpClient (network/tcpclient.hpp, network/tcpclient.cpp): one thread    *)
(* uses one client, against the repository's own peer, a handle_client     *)
(* thread of TcpServer: it answers what one recv gave it, a part of a      *)
(* request, several of them, whenever it likes and perhaps with nothing.   *)
(*                                                                         *)
(* A byte of a request is the request's number, a byte of an answer the    *)
(* number of the last request that the peer had read from.  Only the       *)
(* connection that m_sockfd names has streams: nobody can reach another    *)
(* one.  Descriptors are the kernel's, as in TcpServer, and other code     *)
(* opens and closes files too.  A send to a peer that is gone fails:       *)
(* SIGPIPE is ignored.                                                     *)
(***************************************************************************)
EXTENDS Integers, Sequences, FiniteSets, FiniteSetsExt, SequencesExt

CONSTANTS Fd,           \* the descriptors the process may have
          BufferSize,   \* sizeof(buffer) - 1: what one recv takes at most
          RequestSize,  \* bytes of the longest request
          Answers,      \* how much the peer may send for what one recv gave it
          Window,       \* bytes that fit in the socket
          MaxRequest,   \* bound: requests and messages sent
          MaxForeign    \* bound: files other code has open at once

ASSUME ClientAssumption ==
    /\ Fd \subseteq Nat /\ IsFiniteSet(Fd)
    /\ BufferSize \in Nat \ {0} /\ RequestSize \in Nat /\ Answers \subseteq Nat
    /\ Window \in Nat \ {0} /\ MaxRequest \in Nat /\ MaxForeign \in Nat

NoFd == -1

VARIABLES
    m_sockfd,
    pc,            \* where the call is
    response,      \* of the last request(); <<>> also for nullopt, and before
    file,          \* the kernel's descriptor table
    linked,        \* the socket m_sockfd is connected
    hungup,        \* and its peer has closed the connection
    toServer,      \* bytes of requests that the peer has not read
    serving,       \* the request whose bytes the peer has read last, or 0
    toClient,      \* bytes of answers that have come
    asked,         \* number of the last request or message
    earliest,      \* history: the oldest request that an answer may be to
    synced,        \* history: nothing was on its way when request() was called
    overwritten    \* history: connect() was called on a set m_sockfd

callVars == <<pc, response, synced>>
socketVars == <<m_sockfd, file, overwritten>>
peerVars == <<linked, hungup, toServer, serving>>
vars == <<callVars, socketVars, peerVars, toClient, earliest, asked>>

Free == {fd \in Fd : file[fd] = "free"}
Lowest == Min(Free)

Init ==
    /\ m_sockfd = NoFd
    /\ pc = "idle" /\ response = <<>> /\ synced = FALSE
    /\ file = [fd \in Fd |-> "free"]
    /\ linked = FALSE /\ hungup = FALSE
    /\ toServer = <<>> /\ serving = 0 /\ toClient = <<>>
    /\ asked = 0 /\ earliest = 1 /\ overwritten = FALSE

-----------------------------------------------------------------------------
(* connect and disconnect                                                  *)

\* The streams of a socket that has just been made.
Fresh(up) ==
    /\ linked' = up /\ hungup' = FALSE
    /\ toServer' = <<>> /\ serving' = 0 /\ toClient' = <<>>
    /\ earliest' = asked + 1

\* Mutant of Connected: a set m_sockfd is used again.
ConnectedAgain(up) ==
    /\ IF m_sockfd = NoFd
       THEN /\ m_sockfd' = Lowest /\ file' = [file EXCEPT ![Lowest] = "client"]
            /\ linked' = up /\ hungup' = FALSE
       ELSE UNCHANGED <<m_sockfd, file, linked, hungup>>
    /\ earliest' = asked + 1
    /\ UNCHANGED <<toServer, serving, toClient>>

\* Mutant of Connected: a failed connect() forgets its socket.
ConnectedForget(up) ==
    /\ m_sockfd' = IF up THEN Lowest ELSE NoFd
    /\ file' = [file EXCEPT ![Lowest] = "client"]
    /\ Fresh(up)

\* A new socket, which is connected, or is not: the address is invalid or
\* ::connect fails.
Connected(up) ==
    /\ m_sockfd' = Lowest
    /\ file' = [file EXCEPT ![Lowest] = "client"]
    /\ Fresh(up)

\* connect(), which does not look at what m_sockfd names.
Connect(up) ==
    /\ pc = "idle"
    /\ Free # {}
    /\ overwritten' = (overwritten \/ m_sockfd # NoFd)
    /\ Connected(up)
    /\ UNCHANGED <<callVars, asked>>

\* socket() fails.
ConnectNoSocket ==
    /\ pc = "idle"
    /\ m_sockfd' = NoFd
    /\ overwritten' = (overwritten \/ m_sockfd # NoFd)
    /\ Fresh(FALSE)
    /\ UNCHANGED <<callVars, file, asked>>

\* Mutant of Forgotten: m_sockfd keeps the number.
ForgottenNot == m_sockfd

Forgotten == NoFd

\* disconnect(), also in the destructor: close, whatever the number names.
Disconnect ==
    /\ pc = "idle"
    /\ m_sockfd # NoFd
    /\ file' = [file EXCEPT ![m_sockfd] = "free"]
    /\ m_sockfd' = Forgotten
    /\ Fresh(FALSE)
    /\ UNCHANGED <<callVars, overwritten, asked>>

-----------------------------------------------------------------------------
(* send and request                                                        *)

\* send() and request() fail in sendData without a socket and change nothing.
Send ==
    /\ pc = "idle" /\ m_sockfd # NoFd
    /\ asked < MaxRequest
    /\ pc' = "send"
    /\ UNCHANGED <<response, synced, socketVars, peerVars, toClient, earliest, asked>>

Request ==
    /\ pc = "idle" /\ m_sockfd # NoFd
    /\ asked < MaxRequest
    /\ pc' = "sendRequest"
    /\ synced' = (toServer = <<>> /\ serving = 0 /\ toClient = <<>>)
    /\ response' = <<>>
    /\ UNCHANGED <<socketVars, peerVars, toClient, earliest, asked>>

\* ::send returns when the request is in the socket, or after a part of it (a
\* signal): the return value is only compared with -1.
Sent ==
    /\ pc \in {"send", "sendRequest"}
    /\ linked
    /\ asked' = asked + 1
    /\ \E n \in 0..RequestSize :
          \/ hungup /\ UNCHANGED toServer
          \/ /\ ~hungup /\ Len(toServer) + n <= Window
             /\ toServer' = toServer \o [i \in 1..n |-> asked']
    /\ pc' = IF pc = "send" THEN "idle" ELSE "select"
    /\ UNCHANGED <<response, synced, socketVars, linked, hungup, serving, toClient, earliest>>

Nullopt == pc' = "idle" /\ response' = <<>>

\* ::send returns -1: no connection, a lost one, or a signal.
SendFails ==
    /\ pc \in {"send", "sendRequest"}
    /\ pc' = "idle"
    /\ UNCHANGED <<response, synced, socketVars, peerVars, toClient, earliest, asked>>

Readable == toClient # <<>> \/ hungup

SelectReady ==
    /\ pc = "select"
    /\ Readable
    /\ pc' = "recv"
    /\ UNCHANGED <<response, synced, socketVars, peerVars, toClient, earliest, asked>>

\* Mutant of SelectTimesOut: the return value 0 is taken for 1.
SelectTimesOutUntested ==
    /\ pc = "select"
    /\ ~Readable
    /\ pc' = "recv"
    /\ UNCHANGED <<response, synced, socketVars, peerVars, toClient, earliest, asked>>

SelectTimesOut ==
    /\ pc = "select"
    /\ ~Readable
    /\ Nullopt
    /\ UNCHANGED <<synced, socketVars, peerVars, toClient, earliest, asked>>

\* Mutant of Room: the buffer does not bound what is received.
RoomUnbounded == Len(toClient)

Room == IF Len(toClient) < BufferSize THEN Len(toClient) ELSE BufferSize

\* One recv: n of the bytes that have come are the response.
Recv(n) ==
    /\ pc = "recv"
    /\ n <= Room
    /\ response' = SubSeq(toClient, 1, n)
    /\ toClient' = SubSeq(toClient, n + 1, Len(toClient))
    /\ earliest' = toClient[n]
    /\ pc' = "idle"
    /\ UNCHANGED <<synced, socketVars, peerVars, asked>>

\* The peer has closed the connection: recv returns 0, request() "".
RecvEnd ==
    /\ pc = "recv"
    /\ toClient = <<>> /\ hungup
    /\ Nullopt
    /\ UNCHANGED <<synced, socketVars, peerVars, toClient, earliest, asked>>

\* select or recv returns -1 (a signal, a reset connection).
WaitFails ==
    /\ pc \in {"select", "recv"}
    /\ Nullopt
    /\ UNCHANGED <<synced, socketVars, peerVars, toClient, earliest, asked>>

-----------------------------------------------------------------------------
(* The peer and the rest of the program                                    *)

\* The peer's recv takes n of the bytes that have come, whatever requests they
\* are of; the callback has them.
PeerRead(n) ==
    /\ ~hungup /\ serving = 0
    /\ serving' = toServer[n]
    /\ toServer' = SubSeq(toServer, n + 1, Len(toServer))
    /\ UNCHANGED <<callVars, socketVars, linked, hungup, toClient, earliest, asked>>

\* It sends n bytes for them: no byte when the response is empty or its send is
\* interrupted.
PeerAnswer(n) ==
    /\ ~hungup /\ serving # 0
    /\ toClient' = toClient \o [i \in 1..n |-> serving]
    /\ serving' = 0
    /\ UNCHANGED <<callVars, socketVars, linked, hungup, toServer, earliest, asked>>

PeerClose ==
    /\ linked /\ ~hungup
    /\ hungup' = TRUE
    /\ toServer' = <<>> /\ serving' = 0
    /\ UNCHANGED <<callVars, socketVars, linked, toClient, earliest, asked>>

ForeignOpen ==
    /\ Free # {}
    /\ Cardinality({fd \in Fd : file[fd] = "foreign"}) < MaxForeign
    /\ file' = [file EXCEPT ![Lowest] = "foreign"]
    /\ UNCHANGED <<callVars, m_sockfd, overwritten, peerVars, toClient, earliest, asked>>

ForeignClose(fd) ==
    /\ file[fd] = "foreign"
    /\ file' = [file EXCEPT ![fd] = "free"]
    /\ UNCHANGED <<callVars, m_sockfd, overwritten, peerVars, toClient, earliest, asked>>

-----------------------------------------------------------------------------
RecvStep == (\E n \in 1..Len(toClient) : Recv(n)) \/ RecvEnd

Next ==
    \/ (\E up \in BOOLEAN : Connect(up)) \/ ConnectNoSocket \/ Disconnect
    \/ Send \/ Request \/ Sent \/ SendFails
    \/ SelectReady \/ SelectTimesOut \/ RecvStep \/ WaitFails
    \/ (\E n \in 1..Len(toServer) : PeerRead(n)) \/ (\E n \in Answers : PeerAnswer(n))
    \/ PeerClose
    \/ ForeignOpen \/ \E fd \in Fd : ForeignClose(fd)

Spec == Init /\ [][Next]_vars

\* The thread runs and its timer fires; the peer owes nothing.
FairSpec ==
    Spec /\ WF_vars(SelectReady) /\ WF_vars(SelectTimesOut) /\ WF_vars(RecvStep)

-----------------------------------------------------------------------------
(* Properties                                                              *)

TypeOK ==
    /\ m_sockfd \in Fd \cup {NoFd}
    /\ pc \in {"idle", "send", "sendRequest", "select", "recv"}
    /\ pc # "idle" => m_sockfd # NoFd
    /\ file \in [Fd -> {"free", "client", "foreign"}]
    /\ linked \in BOOLEAN /\ hungup \in BOOLEAN
    /\ linked => m_sockfd # NoFd
    /\ asked \in 0..MaxRequest /\ earliest \in 1..(asked + 1)
    /\ toServer \in Seq(1..asked) /\ Len(toServer) <= Window
    /\ serving \in 0..asked
    /\ toClient \in Seq(1..asked)
    /\ response \in Seq(1..asked) /\ Len(response) <= BufferSize
    /\ synced \in BOOLEAN /\ overwritten \in BOOLEAN

\* m_sockfd is this client's socket as long as it is set: disconnect() and the
\* destructor never close, and send() never writes to, a file of other code
\* that has got the number since.
OwnDescriptor == m_sockfd # NoFd => file[m_sockfd] = "client"

\* A program that calls disconnect() before it connects again, after a failed
\* connect() too, has no socket open but the one m_sockfd names.
NoLeakIfDisconnected ==
    ~overwritten => {fd \in Fd : file[fd] = "client"} \subseteq {m_sockfd}

\* However earlier calls timed out, were answered in part, together or not at
\* all: what request() returns is in the order of the requests, never older than
\* what an earlier call returned and never of an earlier connection; and when
\* nothing sent before was on its way any more, all of it answers this request.
\* (Otherwise it may answer an older one: the client has no way to tell.)
AnswersInOrder ==
    [][(pc = "recv" /\ pc' = "idle") =>
          \A i \in 1..Len(response') :
              /\ earliest <= response'[i]
              /\ \A j \in 1..i : response'[j] <= response'[i]
              /\ synced => response'[i] = asked]_vars

\* A request that has been sent returns, though the peer never answers.
RequestReturns == pc \in {"select", "recv"} ~> pc = "idle"

=============================================================================
