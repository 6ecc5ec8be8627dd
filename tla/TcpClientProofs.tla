-------------------------- MODULE TcpClientProofs --------------------------
(***************************************************************************)
(* Theorems about TcpClient, for every set of descriptors and every bound. *)
(***************************************************************************)
EXTENDS TcpClient, SequenceTheorems, WellFoundedInduction, TLAPS

\* A non-empty set of natural numbers has a least one, and Min is it.
LEMMA MinIsLeast ==
    ASSUME NEW S \in SUBSET Nat, S # {}
    PROVE  Min(S) \in S /\ \A y \in S : Min(S) <= y
  <1> DEFINE R == {ss \in Nat \X Nat : ss[1] < ss[2]}
  <1>1. IsWellFoundedOn(R, Nat)
    BY NatLessThanWellFounded DEF OpToRel
  <1>2. PICK x \in S : \A y \in S : ~(<<y, x>> \in R)
    <2> HIDE DEF R
    <2> QED
      BY <1>1, WFMin
  <1>3. ASSUME NEW y \in S PROVE x <= y
    <2>1. x \in Nat /\ y \in Nat /\ <<y, x>> \notin R
      BY <1>2
    <2>2. ~(y < x)
      BY <2>1
    <2> QED
      BY <2>1, <2>2
  <1> QED
    BY <1>3 DEF Min

LEMMA LowestIsFree ==
    ASSUME Free # {}
    PROVE  Lowest \in Fd /\ file[Lowest] = "free" /\ Lowest # NoFd
  <1>1. Free \in SUBSET Nat
    BY ClientAssumption DEF Free
  <1>2. Lowest \in Free
    BY <1>1, MinIsLeast DEF Lowest
  <1> QED
    BY <1>1, <1>2 DEF Free, NoFd

-----------------------------------------------------------------------------
(* Types                                                                   *)

\* TypeOK in three parts, and what keeps asked within its bound.
FlagTypes ==
    /\ linked \in BOOLEAN /\ hungup \in BOOLEAN
    /\ overwritten \in BOOLEAN /\ synced \in BOOLEAN

SocketTypes ==
    /\ m_sockfd \in Fd \cup {NoFd}
    /\ pc \in {"idle", "send", "sendRequest", "select", "recv"}
    /\ pc # "idle" => m_sockfd # NoFd
    /\ file \in [Fd -> {"free", "client", "foreign"}]
    /\ linked => m_sockfd # NoFd
    /\ asked \in 0..MaxRequest
    /\ pc \in {"send", "sendRequest"} => asked < MaxRequest

StreamTypes ==
    /\ toServer \in Seq(1..asked) /\ Len(toServer) <= Window
    /\ serving \in 0..asked
    /\ toClient \in Seq(1..asked)
    /\ response \in Seq(1..asked) /\ Len(response) <= BufferSize
    /\ earliest \in 1..(asked + 1)

LEMMA TypesAre == FlagTypes /\ SocketTypes /\ StreamTypes => TypeOK
  BY DEF FlagTypes, SocketTypes, StreamTypes, TypeOK

LEMMA InitTypes == Init => FlagTypes /\ SocketTypes /\ StreamTypes
  <1> SUFFICES ASSUME Init PROVE FlagTypes /\ SocketTypes /\ StreamTypes
    OBVIOUS
  <1>1. FlagTypes
    BY DEF Init, FlagTypes
  <1>2. SocketTypes
    BY ClientAssumption DEF Init, SocketTypes
  <1>3. StreamTypes
    BY EmptySeq, ClientAssumption DEF Init, StreamTypes
  <1> QED
    BY <1>1, <1>2, <1>3

LEMMA StepFlagTypes == FlagTypes /\ [Next]_vars => FlagTypes'
  BY DEF FlagTypes, Next, Connect, Connected, ConnectNoSocket, Disconnect, Fresh, Send,
         Request, Sent, SendFails, SelectReady, SelectTimesOut, RecvStep, Recv, RecvEnd,
         WaitFails, PeerRead, PeerAnswer, PeerClose, ForeignOpen, ForeignClose,
         vars, callVars, socketVars, peerVars

\* Steps that neither connect nor disconnect keep m_sockfd.
LEMMA StepSocketTypes == SocketTypes /\ [Next]_vars => SocketTypes'
  <1> SUFFICES ASSUME SocketTypes, [Next]_vars PROVE SocketTypes'
    OBVIOUS
  <1> USE ClientAssumption
  <1>1. ASSUME NEW up \in BOOLEAN, Connect(up) PROVE SocketTypes'
    <2>1. Lowest \in Fd /\ Lowest # NoFd
      BY <1>1, LowestIsFree DEF Connect
    <2> QED
      BY <1>1, <2>1 DEF SocketTypes, Connect, Connected, callVars
  <1>2. CASE ConnectNoSocket
    BY <1>2 DEF SocketTypes, ConnectNoSocket, Fresh, callVars
  <1>3. CASE Disconnect
    BY <1>3 DEF SocketTypes, Disconnect, Forgotten, Fresh, callVars
  <1>4. CASE Send \/ Request
    BY <1>4 DEF SocketTypes, Send, Request, socketVars, peerVars
  <1>5. CASE Sent
    <2>1. asked' \in 0..MaxRequest
      BY <1>5 DEF SocketTypes, Sent
    <2> QED
      BY <1>5, <2>1 DEF SocketTypes, Sent, socketVars
  <1>6. CASE SendFails \/ SelectReady \/ SelectTimesOut \/ WaitFails
    BY <1>6 DEF SocketTypes, SendFails, SelectReady, SelectTimesOut, WaitFails, Nullopt,
                socketVars, peerVars
  <1>7. CASE RecvStep
    BY <1>7 DEF SocketTypes, RecvStep, Recv, RecvEnd, Nullopt, socketVars, peerVars
  <1>8. CASE (\E n \in 1..Len(toServer) : PeerRead(n)) \/ (\E n \in Answers : PeerAnswer(n))
             \/ PeerClose
    <2>1. UNCHANGED <<m_sockfd, pc, file, linked, asked>>
      BY <1>8 DEF PeerRead, PeerAnswer, PeerClose, callVars, socketVars
    <2> QED
      BY <2>1 DEF SocketTypes
  <1>9. CASE ForeignOpen \/ \E fd \in Fd : ForeignClose(fd)
    <2>1. ForeignOpen => Lowest \in Fd
      BY LowestIsFree DEF ForeignOpen
    <2> QED
      BY <1>9, <2>1 DEF SocketTypes, ForeignOpen, ForeignClose, callVars, peerVars
  <1>10. CASE UNCHANGED vars
    BY <1>10 DEF SocketTypes, vars, callVars, socketVars, peerVars
  <1> QED
    BY <1>1, <1>2, <1>3, <1>4, <1>5, <1>6, <1>7, <1>8, <1>9, <1>10 DEF Next

\* Numbers only grow: what could be asked before can be asked now.
LEMMA NumbersGrow ==
    ASSUME NEW n \in Nat, NEW m \in Nat, n <= m
    PROVE  1..n \subseteq 1..m /\ \A s \in Seq(1..n) : s \in Seq(1..m)
  <1>1. 1..n \subseteq 1..m
    OBVIOUS
  <1> QED
    BY <1>1

\* n bytes of k are appended ...
LEMMA Extended ==
    ASSUME NEW S, NEW s \in Seq(S), NEW k \in S, NEW n \in Nat, NEW t,
           t = s \o [i \in 1..n |-> k]
    PROVE  /\ t \in Seq(S) /\ Len(t) = Len(s) + n
           /\ \A i \in 1..Len(t) : (i \in 1..Len(s) /\ t[i] = s[i]) \/ (i > Len(s) /\ t[i] = k)
  <1> DEFINE e == [i \in 1..n |-> k]
  <1>1. e \in Seq(S) /\ Len(e) = n /\ \A i \in 1..n : e[i] = k
    OBVIOUS
  <1>2. Len(s) \in Nat
    OBVIOUS
  <1> HIDE DEF e
  <1>3. /\ s \o e \in Seq(S) /\ Len(s \o e) = Len(s) + n
        /\ \A i \in 1 .. Len(s) + n : (s \o e)[i] = IF i <= Len(s) THEN s[i] ELSE e[i - Len(s)]
    BY <1>1, ConcatProperties
  <1>4. t = s \o e
    BY DEF e
  <1>5. ASSUME NEW i \in 1..Len(t)
        PROVE  (i \in 1..Len(s) /\ t[i] = s[i]) \/ (i > Len(s) /\ t[i] = k)
    <2>1. i \in 1..Len(s) \/ (i > Len(s) /\ i - Len(s) \in 1..n)
      BY <1>2, <1>3, <1>4
    <2> QED
      BY <1>1, <1>2, <1>3, <1>4, <2>1
  <1> QED
    BY <1>3, <1>4, <1>5

\* ... and n bytes are taken from the front.
Rest(s, n) == SubSeq(s, n + 1, Len(s))

LEMMA Taken ==
    ASSUME NEW S, NEW s \in Seq(S), NEW n \in 1..Len(s)
    PROVE  /\ Rest(s, n) \in Seq(S) /\ Len(Rest(s, n)) = Len(s) - n
           /\ \A i \in 1..Len(Rest(s, n)) : i + n \in 1..Len(s) /\ Rest(s, n)[i] = s[i + n]
  BY DEF Rest

LEMMA TakenFirst ==
    ASSUME NEW S, NEW s \in Seq(S), NEW n \in 1..Len(s), NEW t, t = SubSeq(s, 1, n)
    PROVE  /\ t \in Seq(S) /\ Len(t) = n
           /\ \A i \in 1..n : i \in 1..Len(s) /\ t[i] = s[i]
  OBVIOUS

\* A step of which the streams' types do not depend.
LEMMA StreamsKept ==
    ASSUME StreamTypes, UNCHANGED <<toServer, serving, toClient, response, earliest, asked>>
    PROVE  StreamTypes'
  BY DEF StreamTypes

LEMMA FreshStreamTypes ==
    ASSUME SocketTypes, StreamTypes, NEW up, Fresh(up), UNCHANGED <<response, asked>>
    PROVE  StreamTypes'
  BY ClientAssumption, EmptySeq DEF SocketTypes, StreamTypes, Fresh

LEMMA NulloptTypes ==
    ASSUME StreamTypes, response' = <<>>,
           UNCHANGED <<toServer, serving, toClient, earliest, asked>>
    PROVE  StreamTypes'
  BY ClientAssumption, EmptySeq DEF StreamTypes

LEMMA SentStreamTypes ==
    ASSUME SocketTypes, StreamTypes, Sent
    PROVE  StreamTypes'
  <1>1. asked \in Nat /\ asked' = asked + 1 /\ asked' \in Nat /\ asked' \in 1..asked'
    BY ClientAssumption DEF SocketTypes, Sent
  <1>2. toServer \in Seq(1..asked') /\ toClient \in Seq(1..asked') /\ response \in Seq(1..asked')
    BY <1>1, NumbersGrow DEF StreamTypes
  <1>3. UNCHANGED <<toClient, serving, response, earliest>>
    BY DEF Sent
  <1>4. toServer' \in Seq(1..asked') /\ Len(toServer') <= Window
    <2>1. CASE UNCHANGED toServer
      BY <1>2, <2>1 DEF StreamTypes
    <2>2. ASSUME NEW n \in 0..RequestSize, Len(toServer) + n <= Window,
                 toServer' = toServer \o [i \in 1..n |-> asked']
          PROVE  toServer' \in Seq(1..asked') /\ Len(toServer') <= Window
      <3>1. n \in Nat
        BY ClientAssumption
      <3> QED
        BY <1>1, <1>2, <2>2, <3>1, Extended
    <2> QED
      BY <2>1, <2>2 DEF Sent
  <1> QED
    BY <1>1, <1>2, <1>3, <1>4 DEF StreamTypes

\* What recv takes, and what it leaves.
LEMMA Received ==
    ASSUME StreamTypes, NEW n \in 1..Len(toClient), Recv(n)
    PROVE  /\ response' \in Seq(1..asked) /\ Len(response') = n /\ n <= BufferSize
           /\ \A i \in 1..n : i \in 1..Len(toClient) /\ response'[i] = toClient[i]
           /\ toClient' \in Seq(1..asked) /\ Len(toClient') = Len(toClient) - n
           /\ \A i \in 1..Len(toClient') :
                 i + n \in 1..Len(toClient) /\ toClient'[i] = toClient[i + n]
           /\ toClient[n] \in 1..asked
  <1>1. toClient \in Seq(1..asked) /\ n \in Nat /\ Len(toClient) \in Nat
    BY DEF StreamTypes
  <1>2. n <= BufferSize
    BY <1>1, ClientAssumption DEF Recv, Room
  <1>3. response' = SubSeq(toClient, 1, n) /\ toClient' = Rest(toClient, n)
    BY DEF Recv, Rest
  <1>4. response' \in Seq(1..asked) /\ Len(response') = n
        /\ \A i \in 1..n : i \in 1..Len(toClient) /\ response'[i] = toClient[i]
    BY <1>1, <1>3, TakenFirst
  <1>5. /\ toClient' \in Seq(1..asked) /\ Len(toClient') = Len(toClient) - n
        /\ \A i \in 1..Len(toClient') : i + n \in 1..Len(toClient) /\ toClient'[i] = toClient[i + n]
    BY <1>1, <1>3, Taken
  <1>6. toClient[n] \in 1..asked
    BY <1>1, ElementOfSeq
  <1> QED
    BY <1>2, <1>4, <1>5, <1>6

LEMMA RecvStreamTypes ==
    ASSUME SocketTypes, StreamTypes, NEW n \in 1..Len(toClient), Recv(n)
    PROVE  StreamTypes'
  <1>1. UNCHANGED <<serving, toServer, asked>> /\ earliest' = toClient[n] /\ asked \in Nat
    BY ClientAssumption DEF Recv, peerVars, SocketTypes
  <1>2. earliest' \in 1..(asked + 1)
    BY <1>1, Received
  <1> QED
    BY <1>1, <1>2, Received DEF StreamTypes

\* What the peer's recv takes, and what it leaves.
LEMMA Read ==
    ASSUME StreamTypes, NEW n \in 1..Len(toServer), PeerRead(n)
    PROVE  /\ serving = 0 /\ serving' = toServer[n] /\ toServer[n] \in 1..asked
           /\ toServer' \in Seq(1..asked) /\ Len(toServer') = Len(toServer) - n
           /\ \A i \in 1..Len(toServer') :
                 i + n \in 1..Len(toServer) /\ toServer'[i] = toServer[i + n]
           /\ Len(toServer) \in Nat
           /\ UNCHANGED <<pc, synced, response, toClient, earliest, asked>>
  <1>1. toServer \in Seq(1..asked) /\ Len(toServer) \in Nat
    BY DEF StreamTypes
  <1>2. toServer[n] \in 1..asked
    BY <1>1, ElementOfSeq
  <1>3. /\ serving = 0 /\ serving' = toServer[n]
        /\ toServer' = Rest(toServer, n)
        /\ UNCHANGED <<pc, synced, response, toClient, earliest, asked>>
    BY DEF PeerRead, Rest, callVars
  <1>4. /\ toServer' \in Seq(1..asked) /\ Len(toServer') = Len(toServer) - n
        /\ \A i \in 1..Len(toServer') : i + n \in 1..Len(toServer) /\ toServer'[i] = toServer[i + n]
    BY <1>1, <1>3, Taken
  <1> QED
    BY <1>1, <1>2, <1>3, <1>4

LEMMA ReadStreamTypes ==
    ASSUME SocketTypes, StreamTypes, NEW n \in 1..Len(toServer), PeerRead(n)
    PROVE  StreamTypes'
  <1>1. asked \in Nat /\ Len(toServer) <= Window
    BY ClientAssumption DEF SocketTypes, StreamTypes
  <1>2. serving' \in 0..asked /\ Len(toServer') <= Window
    BY <1>1, ClientAssumption, Read
  <1> QED
    BY <1>2, Read DEF StreamTypes

\* What the peer's send adds.
LEMMA Answered ==
    ASSUME SocketTypes, StreamTypes, NEW n \in Answers, PeerAnswer(n)
    PROVE  /\ serving \in 1..asked /\ serving' = 0
           /\ toClient' \in Seq(1..asked)
           /\ \A i \in 1..Len(toClient') : \/ i \in 1..Len(toClient) /\ toClient'[i] = toClient[i]
                                           \/ i > Len(toClient) /\ toClient'[i] = serving
           /\ UNCHANGED <<pc, synced, response, toServer, earliest, asked>>
  <1>1. asked \in Nat /\ serving \in 0..asked /\ serving # 0 /\ toClient \in Seq(1..asked)
    BY ClientAssumption DEF SocketTypes, StreamTypes, PeerAnswer
  <1>2. serving \in 1..asked /\ n \in Nat
    BY <1>1, ClientAssumption
  <1>3. toClient' = toClient \o [i \in 1..n |-> serving]
    BY DEF PeerAnswer
  <1> QED
    BY <1>1, <1>2, <1>3, Extended DEF PeerAnswer, callVars

LEMMA AnswerStreamTypes ==
    ASSUME SocketTypes, StreamTypes, NEW n \in Answers, PeerAnswer(n)
    PROVE  StreamTypes'
  <1>1. asked \in Nat
    BY ClientAssumption DEF SocketTypes
  <1> QED
    BY <1>1, Answered DEF StreamTypes

LEMMA StepStreamTypes == SocketTypes /\ StreamTypes /\ [Next]_vars => StreamTypes'
  <1> SUFFICES ASSUME SocketTypes, StreamTypes, [Next]_vars PROVE StreamTypes'
    OBVIOUS
  <1>1. CASE (\E up \in BOOLEAN : Connect(up)) \/ ConnectNoSocket \/ Disconnect
    <2>1. UNCHANGED <<response, asked>> /\ \E up : Fresh(up)
      BY <1>1 DEF Connect, Connected, ConnectNoSocket, Disconnect, callVars
    <2> QED
      BY <2>1, FreshStreamTypes
  <1>2. CASE Send \/ SendFails \/ SelectReady
    BY <1>2, StreamsKept DEF Send, SendFails, SelectReady, peerVars
  <1>3. CASE Request \/ SelectTimesOut \/ RecvEnd \/ WaitFails
    BY <1>3, NulloptTypes DEF Request, SelectTimesOut, RecvEnd, WaitFails, Nullopt, peerVars
  <1>4. CASE Sent
    BY <1>4, SentStreamTypes
  <1>5. ASSUME NEW n \in 1..Len(toClient), Recv(n) PROVE StreamTypes'
    BY <1>5, RecvStreamTypes
  <1>6. ASSUME NEW n \in 1..Len(toServer), PeerRead(n) PROVE StreamTypes'
    BY <1>6, ReadStreamTypes
  <1>7. ASSUME NEW n \in Answers, PeerAnswer(n) PROVE StreamTypes'
    BY <1>7, AnswerStreamTypes
  <1>8. CASE PeerClose
    <2>1. asked \in Nat /\ toServer' = <<>> /\ serving' = 0
          /\ UNCHANGED <<response, toClient, earliest, asked>>
      BY <1>8, ClientAssumption DEF PeerClose, SocketTypes, callVars
    <2> QED
      BY <2>1, EmptySeq, ClientAssumption DEF StreamTypes
  <1>9. CASE ForeignOpen \/ \E fd \in Fd : ForeignClose(fd)
    BY <1>9, StreamsKept DEF ForeignOpen, ForeignClose, callVars, peerVars
  <1>10. CASE UNCHANGED vars
    BY <1>10, StreamsKept DEF vars, callVars, peerVars
  <1> QED
    BY <1>1, <1>2, <1>3, <1>4, <1>5, <1>6, <1>7, <1>8, <1>9, <1>10 DEF Next, RecvStep

\* The inductive part of TypeOK.
TypeInv == FlagTypes /\ SocketTypes /\ StreamTypes

LEMMA TypesInductive == (Init => TypeInv) /\ (TypeInv /\ [Next]_vars => TypeInv')
  BY InitTypes, StepFlagTypes, StepSocketTypes, StepStreamTypes DEF TypeInv

\* Every variable of the client keeps its type; no more is asked than MaxRequest.
THEOREM TypeCorrect == Spec => []TypeOK
  <1>1. TypeInv => TypeOK
    BY TypesAre DEF TypeInv
  <1> QED
    BY <1>1, TypesInductive, PTL DEF Spec

-----------------------------------------------------------------------------
(* Descriptors                                                             *)

LEMMA StepOwnDescriptor == SocketTypes /\ OwnDescriptor /\ [Next]_vars => OwnDescriptor'
  <1> SUFFICES ASSUME SocketTypes, OwnDescriptor, [Next]_vars, m_sockfd' # NoFd
               PROVE  file'[m_sockfd'] = "client"
    BY DEF OwnDescriptor
  <1>1. CASE \E up \in BOOLEAN : Connect(up)
    BY <1>1, LowestIsFree DEF Connect, Connected, SocketTypes
  <1>2. CASE ConnectNoSocket \/ Disconnect
    BY <1>2 DEF ConnectNoSocket, Disconnect, Forgotten
  <1>3. CASE ForeignOpen
    BY <1>3, LowestIsFree DEF ForeignOpen, OwnDescriptor, SocketTypes
  <1>4. CASE \E fd \in Fd : ForeignClose(fd)
    BY <1>4 DEF ForeignClose, OwnDescriptor, SocketTypes
  <1>5. CASE UNCHANGED socketVars
    BY <1>5 DEF socketVars, OwnDescriptor
  <1>6. CASE Send \/ Request \/ Sent \/ SendFails \/ SelectReady \/ SelectTimesOut \/ WaitFails
    BY <1>5, <1>6 DEF Send, Request, Sent, SendFails, SelectReady, SelectTimesOut, WaitFails
  <1>7. CASE \/ RecvStep \/ PeerClose \/ (\E n \in 1..Len(toServer) : PeerRead(n))
             \/ \E n \in Answers : PeerAnswer(n)
    BY <1>5, <1>7 DEF RecvStep, Recv, RecvEnd, PeerClose, PeerRead, PeerAnswer
  <1>8. CASE UNCHANGED vars
    BY <1>5, <1>8 DEF vars
  <1> QED
    BY <1>1, <1>2, <1>3, <1>4, <1>6, <1>7, <1>8 DEF Next

\* disconnect() and the destructor close no file of other code, and send()
\* writes to none.
THEOREM OwnsDescriptor == Spec => []OwnDescriptor
  <1>1. Init => OwnDescriptor
    BY DEF Init, OwnDescriptor
  <1>2. TypeInv /\ OwnDescriptor /\ [Next]_vars => OwnDescriptor'
    BY StepOwnDescriptor DEF TypeInv
  <1> QED
    BY <1>1, <1>2, TypesInductive, PTL DEF Spec

LEMMA StepNoLeak == SocketTypes /\ NoLeakIfDisconnected /\ [Next]_vars => NoLeakIfDisconnected'
  <1> SUFFICES ASSUME SocketTypes, NoLeakIfDisconnected, [Next]_vars, ~overwritten',
                      NEW fd \in Fd, file'[fd] = "client"
               PROVE  fd = m_sockfd'
    BY DEF NoLeakIfDisconnected
  <1>0. ~overwritten /\ file[fd] = "client" => fd = m_sockfd /\ m_sockfd # NoFd
    BY ClientAssumption DEF NoLeakIfDisconnected, NoFd
  <1>1. CASE \E up \in BOOLEAN : Connect(up)
    BY <1>0, <1>1, LowestIsFree DEF Connect, Connected, SocketTypes
  <1>2. CASE ConnectNoSocket \/ Disconnect
    BY <1>0, <1>2 DEF ConnectNoSocket, Disconnect, SocketTypes
  <1>3. CASE ForeignOpen
    BY <1>0, <1>3, LowestIsFree DEF ForeignOpen, SocketTypes
  <1>4. CASE \E g \in Fd : ForeignClose(g)
    BY <1>0, <1>4 DEF ForeignClose, SocketTypes
  <1>5. CASE UNCHANGED socketVars
    BY <1>0, <1>5 DEF socketVars
  <1>6. CASE Send \/ Request \/ Sent \/ SendFails \/ SelectReady \/ SelectTimesOut \/ WaitFails
    BY <1>5, <1>6 DEF Send, Request, Sent, SendFails, SelectReady, SelectTimesOut, WaitFails
  <1>7. CASE \/ RecvStep \/ PeerClose \/ (\E n \in 1..Len(toServer) : PeerRead(n))
             \/ \E n \in Answers : PeerAnswer(n)
    BY <1>5, <1>7 DEF RecvStep, Recv, RecvEnd, PeerClose, PeerRead, PeerAnswer
  <1>8. CASE UNCHANGED vars
    BY <1>5, <1>8 DEF vars
  <1> QED
    BY <1>1, <1>2, <1>3, <1>4, <1>6, <1>7, <1>8 DEF Next

\* Only connect() on a set m_sockfd loses a socket.
THEOREM LeaksNothing == Spec => []NoLeakIfDisconnected
  <1>1. Init => NoLeakIfDisconnected
    BY DEF Init, NoLeakIfDisconnected
  <1>2. TypeInv /\ NoLeakIfDisconnected /\ [Next]_vars => NoLeakIfDisconnected'
    BY StepNoLeak DEF TypeInv
  <1> QED
    BY <1>1, <1>2, TypesInductive, PTL DEF Spec

-----------------------------------------------------------------------------
(* Answers                                                                 *)

Sorted(s) == \A i \in 1..Len(s) : \A j \in 1..i : s[j] <= s[i]

\* Answers, what the peer has read and what it has not are in the order of the
\* requests.
InOrder ==
    /\ Sorted(toClient) /\ Sorted(toServer)
    /\ \A i \in 1..Len(toClient), j \in 1..Len(toServer) : toClient[i] <= toServer[j]
    /\ serving # 0 => /\ \A i \in 1..Len(toClient) : toClient[i] <= serving
                      /\ \A j \in 1..Len(toServer) : serving <= toServer[j]

\* Bytes of request k, or of an answer to it, are on their way.
OnTheWay(k) ==
    \/ \E i \in 1..Len(toClient) : toClient[i] = k
    \/ serving = k /\ serving # 0
    \/ \E j \in 1..Len(toServer) : toServer[j] = k

\* None is older than what was returned, and none at all was sent before a
\* request that found nothing on its way.
Recent ==
    /\ \A k \in 1..asked : OnTheWay(k) => earliest <= k
    /\ synced /\ pc = "sendRequest" => \A k \in 1..asked : ~OnTheWay(k)
    /\ synced /\ pc \in {"select", "recv"} => \A k \in 1..asked : OnTheWay(k) => k = asked

StreamInv == InOrder /\ Recent

\* Numbers in the streams are those of requests made.
LEMMA StreamNumbers ==
    ASSUME TypeInv
    PROVE  /\ asked \in Nat /\ earliest \in Nat /\ serving \in 0..asked
           /\ Len(toClient) \in Nat /\ Len(toServer) \in Nat
           /\ \A i \in 1..Len(toClient) : toClient[i] \in 1..asked
           /\ \A j \in 1..Len(toServer) : toServer[j] \in 1..asked
           /\ \A i \in 1..asked : i \in Nat
  <1>1. toClient \in Seq(1..asked) /\ toServer \in Seq(1..asked) /\ serving \in 0..asked
    BY DEF TypeInv, StreamTypes
  <1>2. asked \in Nat
    BY ClientAssumption DEF TypeInv, SocketTypes
  <1>3. earliest \in Nat
    BY <1>2 DEF TypeInv, StreamTypes
  <1>4. Len(toClient) \in Nat /\ Len(toServer) \in Nat
    BY <1>1, LenProperties
  <1>5. ASSUME NEW i \in 1..Len(toClient) PROVE toClient[i] \in 1..asked
    BY <1>1, ElementOfSeq
  <1>6. ASSUME NEW j \in 1..Len(toServer) PROVE toServer[j] \in 1..asked
    BY <1>1, ElementOfSeq
  <1> QED
    BY <1>1, <1>2, <1>3, <1>4, <1>5, <1>6

\* Steps after which nothing is on its way that was not before.
LEMMA RecentStays ==
    ASSUME Recent, UNCHANGED <<asked, earliest, synced>>,
           pc' = pc \/ pc' \in {"idle", "send"} \/ (pc = "select" /\ pc' = "recv"),
           \A k \in 1..asked : OnTheWay(k)' => OnTheWay(k)
    PROVE  Recent'
  <1>1. \A k \in 1..asked : OnTheWay(k)' => earliest' <= k
    BY DEF Recent
  <1>2. synced' /\ pc' = "sendRequest" => \A k \in 1..asked : ~OnTheWay(k)'
    BY DEF Recent
  <1>3. synced' /\ pc' \in {"select", "recv"} => \A k \in 1..asked : OnTheWay(k)' => k = asked'
    BY DEF Recent
  <1> QED
    BY <1>1, <1>2, <1>3 DEF Recent

\* A new connection has nothing on its way.
LEMMA FreshStreams ==
    ASSUME TypeInv, NEW up, Fresh(up)
    PROVE  StreamInv'
  <1>1. Len(toClient') = 0 /\ Len(toServer') = 0 /\ serving' = 0 /\ 1..0 = {}
    BY EmptySeq DEF Fresh
  <1>2. InOrder'
    BY <1>1 DEF InOrder, Sorted
  <1>3. \A k \in 1..asked' : ~OnTheWay(k)'
    BY <1>1 DEF OnTheWay
  <1> QED
    BY <1>2, <1>3 DEF StreamInv, Recent

\* What is sent is the youngest.
LEMMA SentStreams ==
    ASSUME TypeInv, StreamInv, Sent
    PROVE  StreamInv'
  <1>1. /\ asked' = asked + 1 /\ UNCHANGED <<serving, toClient, earliest, synced>>
        /\ pc' = IF pc = "send" THEN "idle" ELSE "select"
        /\ pc \in {"send", "sendRequest"}
    BY DEF Sent
  <1>n. /\ asked \in Nat /\ Len(toServer) \in Nat /\ Len(toClient) \in Nat
        /\ \A i \in 1..Len(toClient) : toClient[i] \in 1..asked
        /\ \A j \in 1..Len(toServer) : toServer[j] \in 1..asked
        /\ serving \in 0..asked /\ earliest \in 1..(asked + 1)
    BY StreamNumbers DEF TypeInv, StreamTypes
  <1>2. ASSUME NEW j \in 1..Len(toServer')
        PROVE  \/ j \in 1..Len(toServer) /\ toServer'[j] = toServer[j]
               \/ j > Len(toServer) /\ toServer'[j] = asked'
    <2>1. CASE UNCHANGED toServer
      BY <2>1
    <2>2. ASSUME NEW n \in 0..RequestSize, toServer' = toServer \o [i \in 1..n |-> asked']
          PROVE  \/ j \in 1..Len(toServer) /\ toServer'[j] = toServer[j]
                 \/ j > Len(toServer) /\ toServer'[j] = asked'
      <3>1. n \in Nat /\ asked' \in 1..asked'
        BY <1>1, <1>n, ClientAssumption
      <3>2. toServer \in Seq(1..asked')
        BY <1>1, <1>n, NumbersGrow DEF TypeInv, StreamTypes
      <3> QED
        BY <2>2, <3>1, <3>2, Extended
    <2> QED
      BY <2>1, <2>2 DEF Sent
  <1>3. Sorted(toServer')
    <2> SUFFICES ASSUME NEW i \in 1..Len(toServer'), NEW j \in 1..i
                 PROVE  toServer'[j] <= toServer'[i]
      BY DEF Sorted
    <2>1. Len(toServer') \in Nat
      BY SentStreamTypes DEF TypeInv, StreamTypes
    <2>2. j \in 1..Len(toServer')
      BY <2>1
    <2>3. CASE i \in 1..Len(toServer) /\ toServer'[i] = toServer[i]
      <3>1. j \in 1..Len(toServer) /\ ~(j > Len(toServer))
        BY <1>n, <2>3
      <3> QED
        BY <1>2, <2>2, <2>3, <3>1 DEF StreamInv, InOrder, Sorted
    <2>4. CASE toServer'[i] = asked'
      BY <1>1, <1>2, <1>n, <2>2, <2>4
    <2> QED
      BY <1>2, <2>3, <2>4
  <1>4. InOrder'
    <2>1. ASSUME NEW i \in 1..Len(toClient), NEW j \in 1..Len(toServer')
          PROVE  toClient[i] <= toServer'[j]
      <3>1. toClient[i] <= asked'
        BY <1>1, <1>n
      <3> QED
        BY <1>2, <3>1 DEF StreamInv, InOrder
    <2>2. ASSUME serving # 0, NEW j \in 1..Len(toServer')
          PROVE  serving <= toServer'[j]
      <3>1. serving <= asked'
        BY <1>1, <1>n
      <3> QED
        BY <1>2, <2>2, <3>1 DEF StreamInv, InOrder
    <2> QED
      BY <1>1, <1>3, <2>1, <2>2 DEF StreamInv, InOrder
  <1>5. ASSUME NEW k \in 1..asked', OnTheWay(k)'
        PROVE  (k \in 1..asked /\ OnTheWay(k)) \/ k = asked'
    BY <1>1, <1>2, <1>n, <1>5 DEF OnTheWay
  <1>6. Recent'
    <2>1. ASSUME NEW k \in 1..asked', OnTheWay(k)' PROVE earliest' <= k
      BY <1>1, <1>5, <1>n, <2>1 DEF StreamInv, Recent
    <2>2. synced' /\ pc' \in {"select", "recv"} =>
              \A k \in 1..asked' : OnTheWay(k)' => k = asked'
      BY <1>1, <1>5 DEF StreamInv, Recent
    <2> QED
      BY <1>1, <2>1, <2>2 DEF Recent
  <1> QED
    BY <1>4, <1>6 DEF StreamInv

\* recv takes the oldest answers.
LEMMA RecvStreams ==
    ASSUME TypeInv, StreamInv, NEW n \in 1..Len(toClient), Recv(n)
    PROVE  StreamInv'
  <1>1. /\ UNCHANGED <<toServer, serving, asked, synced>> /\ earliest' = toClient[n] /\ pc' = "idle"
    BY DEF Recv, peerVars
  <1>2. /\ Len(toClient) \in Nat /\ n \in Nat /\ Len(toClient') = Len(toClient) - n
        /\ \A i \in 1..Len(toClient') : i + n \in 1..Len(toClient) /\ toClient'[i] = toClient[i + n]
    BY Received, StreamNumbers DEF TypeInv
  <1>3. InOrder'
    <2>1. Sorted(toClient')
      <3> SUFFICES ASSUME NEW i \in 1..Len(toClient'), NEW j \in 1..i
                   PROVE  toClient'[j] <= toClient'[i]
        BY DEF Sorted
      <3>1. j \in 1..Len(toClient') /\ j + n \in 1 .. i + n
        BY <1>2
      <3> QED
        BY <1>2, <3>1 DEF StreamInv, InOrder, Sorted
    <2> QED
      BY <1>1, <1>2, <2>1 DEF StreamInv, InOrder
  <1>4. ASSUME NEW k \in 1..asked, OnTheWay(k)' PROVE toClient[n] <= k
    <2>1. ASSUME NEW i \in 1..Len(toClient') PROVE toClient[n] <= toClient'[i]
      <3>1. n \in 1 .. i + n
        BY <1>2
      <3> QED
        BY <1>2, <3>1 DEF StreamInv, InOrder, Sorted
    <2> QED
      BY <1>1, <1>4, <2>1 DEF OnTheWay, StreamInv, InOrder
  <1>5. Recent'
    BY <1>1, <1>4 DEF Recent
  <1> QED
    BY <1>3, <1>5 DEF StreamInv

\* The peer reads the oldest bytes, and has them answered next.
LEMMA ReadStreams ==
    ASSUME TypeInv, StreamInv, NEW n \in 1..Len(toServer), PeerRead(n)
    PROVE  StreamInv'
  <1>1. /\ serving' = toServer[n] /\ Len(toServer') = Len(toServer) - n
        /\ Len(toServer) \in Nat /\ n \in Nat
        /\ \A i \in 1..Len(toServer') : i + n \in 1..Len(toServer) /\ toServer'[i] = toServer[i + n]
        /\ UNCHANGED <<pc, synced, toClient, earliest, asked>>
    BY Read DEF TypeInv
  <1>2. InOrder'
    <2>1. Sorted(toServer')
      <3> SUFFICES ASSUME NEW i \in 1..Len(toServer'), NEW j \in 1..i
                   PROVE  toServer'[j] <= toServer'[i]
        BY DEF Sorted
      <3>1. j \in 1..Len(toServer') /\ j + n \in 1 .. i + n
        BY <1>1
      <3> QED
        BY <1>1, <3>1 DEF StreamInv, InOrder, Sorted
    <2>2. ASSUME NEW i \in 1..Len(toServer') PROVE toServer[n] <= toServer'[i]
      <3>1. n \in 1 .. i + n
        BY <1>1
      <3> QED
        BY <1>1, <3>1 DEF StreamInv, InOrder, Sorted
    <2> QED
      BY <1>1, <2>1, <2>2 DEF StreamInv, InOrder
  <1>3. \A k \in 1..asked : OnTheWay(k)' => OnTheWay(k)
    BY <1>1 DEF OnTheWay
  <1>4. Recent'
    BY <1>1, <1>3, RecentStays DEF StreamInv
  <1> QED
    BY <1>2, <1>4 DEF StreamInv

\* An answer comes behind those that are there.
LEMMA AnswerStreams ==
    ASSUME TypeInv, StreamInv, NEW n \in Answers, PeerAnswer(n)
    PROVE  StreamInv'
  <1>1. /\ serving \in 1..asked /\ serving' = 0 /\ serving # 0
        /\ \A i \in 1..Len(toClient') : \/ i \in 1..Len(toClient) /\ toClient'[i] = toClient[i]
                                        \/ i > Len(toClient) /\ toClient'[i] = serving
        /\ UNCHANGED <<pc, synced, toServer, earliest, asked>>
    BY Answered DEF TypeInv, PeerAnswer
  <1>n. Len(toClient) \in Nat /\ Len(toClient') \in Nat /\ serving \in Nat
    BY <1>1, StreamNumbers, AnswerStreamTypes DEF TypeInv, StreamTypes
  <1>2. InOrder'
    <2>1. Sorted(toClient')
      <3> SUFFICES ASSUME NEW i \in 1..Len(toClient'), NEW j \in 1..i
                   PROVE  toClient'[j] <= toClient'[i]
        BY DEF Sorted
      <3>1. j \in 1..Len(toClient')
        BY <1>n
      <3>2. CASE i \in 1..Len(toClient) /\ toClient'[i] = toClient[i]
        <4>1. j \in 1..Len(toClient) /\ ~(j > Len(toClient))
          BY <1>n, <3>2
        <4> QED
          BY <1>1, <3>1, <3>2, <4>1 DEF StreamInv, InOrder, Sorted
      <3>3. CASE toClient'[i] = serving
        <4>1. serving <= serving
          BY <1>n
        <4> QED
          BY <1>1, <3>1, <3>3, <4>1 DEF StreamInv, InOrder
      <3> QED
        BY <1>1, <3>2, <3>3
    <2> QED
      BY <1>1, <2>1 DEF StreamInv, InOrder
  <1>3. \A k \in 1..asked : OnTheWay(k)' => OnTheWay(k)
    BY <1>1 DEF OnTheWay
  <1>4. Recent'
    BY <1>1, <1>3, RecentStays DEF StreamInv
  <1> QED
    BY <1>2, <1>4 DEF StreamInv

\* What the peer has not answered is lost with it.
LEMMA CloseStreams ==
    ASSUME TypeInv, StreamInv, PeerClose
    PROVE  StreamInv'
  <1>1. /\ UNCHANGED <<toClient, pc, synced, earliest, asked>> /\ serving' = 0
        /\ Len(toServer') = 0 /\ 1..0 = {}
    BY EmptySeq DEF PeerClose, callVars
  <1>2. InOrder'
    BY <1>1 DEF StreamInv, InOrder, Sorted
  <1>3. \A k \in 1..asked : OnTheWay(k)' => OnTheWay(k)
    BY <1>1 DEF OnTheWay
  <1>4. Recent'
    BY <1>1, <1>3, RecentStays DEF StreamInv
  <1> QED
    BY <1>2, <1>4 DEF StreamInv

\* request() begins.
LEMMA RequestStreams ==
    ASSUME TypeInv, StreamInv, Request
    PROVE  StreamInv'
  <1>1. /\ UNCHANGED <<toServer, serving, toClient, earliest, asked>> /\ pc' = "sendRequest"
        /\ synced' = (toServer = <<>> /\ serving = 0 /\ toClient = <<>>)
    BY DEF Request, peerVars
  <1>2. ASSUME synced' PROVE \A k \in 1..asked : ~OnTheWay(k)
    <2>1. toServer = <<>> /\ serving = 0 /\ toClient = <<>>
      BY <1>1, <1>2, Zenon
    <2>2. Len(toServer) = 0 /\ Len(toClient) = 0 /\ 1..0 = {}
      BY <2>1, EmptySeq
    <2> QED
      BY <2>1, <2>2 DEF OnTheWay
  <1>3. InOrder' /\ \A k \in 1..asked : OnTheWay(k)' <=> OnTheWay(k)
    BY <1>1 DEF StreamInv, InOrder, OnTheWay
  <1> QED
    BY <1>1, <1>2, <1>3 DEF StreamInv, Recent

LEMMA StepStreams == TypeInv /\ StreamInv /\ [Next]_vars => StreamInv'
  <1> SUFFICES ASSUME TypeInv, StreamInv, [Next]_vars PROVE StreamInv'
    OBVIOUS
  <1>1. CASE (\E up \in BOOLEAN : Connect(up)) \/ ConnectNoSocket \/ Disconnect
    <2>1. \E up : Fresh(up)
      BY <1>1 DEF Connect, Connected, ConnectNoSocket, Disconnect
    <2> QED
      BY <2>1, FreshStreams
  <1>2. CASE /\ UNCHANGED <<toServer, serving, toClient, earliest, asked, synced>>
             /\ pc' = pc \/ pc' \in {"idle", "send"} \/ (pc = "select" /\ pc' = "recv")
    <2>1. InOrder' /\ \A k \in 1..asked : OnTheWay(k)' => OnTheWay(k)
      BY <1>2 DEF StreamInv, InOrder, OnTheWay
    <2> QED
      BY <1>2, <2>1, RecentStays DEF StreamInv
  <1>3. CASE Send \/ SendFails \/ SelectReady \/ SelectTimesOut \/ RecvEnd \/ WaitFails
    BY <1>2, <1>3 DEF Send, SendFails, SelectReady, SelectTimesOut, RecvEnd, WaitFails, Nullopt,
                      peerVars
  <1>4. CASE Request
    BY <1>4, RequestStreams
  <1>5. CASE Sent
    BY <1>5, SentStreams
  <1>6. ASSUME NEW n \in 1..Len(toClient), Recv(n) PROVE StreamInv'
    BY <1>6, RecvStreams
  <1>7. ASSUME NEW n \in 1..Len(toServer), PeerRead(n) PROVE StreamInv'
    BY <1>7, ReadStreams
  <1>8. ASSUME NEW n \in Answers, PeerAnswer(n) PROVE StreamInv'
    BY <1>8, AnswerStreams
  <1>9. CASE PeerClose
    BY <1>9, CloseStreams
  <1>10. CASE ForeignOpen \/ (\E fd \in Fd : ForeignClose(fd)) \/ UNCHANGED vars
    BY <1>2, <1>10 DEF ForeignOpen, ForeignClose, vars, callVars, peerVars
  <1> QED
    BY <1>1, <1>3, <1>4, <1>5, <1>6, <1>7, <1>8, <1>9, <1>10 DEF Next, RecvStep

\* What request() returns is in the order of the requests: none older than an
\* earlier call returned, none of an earlier connection, and all of this request
\* when nothing sent before was on its way (tcpclient.cpp:68-100, against the
\* peer of tcpserver.cpp:127-162).
THEOREM AnswersComeInOrder == Spec => AnswersInOrder
  <1> DEFINE P == (pc = "recv" /\ pc' = "idle") =>
                      \A i \in 1..Len(response') :
                          /\ earliest <= response'[i]
                          /\ \A j \in 1..i : response'[j] <= response'[i]
                          /\ synced => response'[i] = asked
  <1>1. Init => StreamInv
    <2>1. Init => Len(toClient) = 0 /\ Len(toServer) = 0 /\ serving = 0 /\ 1..0 = {}
      BY EmptySeq DEF Init
    <2>2. Init => InOrder /\ \A k \in 1..asked : ~OnTheWay(k)
      BY <2>1 DEF InOrder, Sorted, OnTheWay
    <2> QED
      BY <2>2 DEF StreamInv, Recent
  <1>2. TypeInv /\ StreamInv /\ [Next]_vars => StreamInv'
    BY StepStreams
  <1>3. TypeInv /\ StreamInv /\ [Next]_vars => [P]_vars
    <2> SUFFICES ASSUME TypeInv, StreamInv, Next, pc = "recv", pc' = "idle",
                        NEW i \in 1..Len(response')
                 PROVE  /\ earliest <= response'[i]
                        /\ \A j \in 1..i : response'[j] <= response'[i]
                        /\ synced => response'[i] = asked
      OBVIOUS
    <2>1. CASE response' = <<>>
      <3>1. Len(response') = 0
        BY <2>1, EmptySeq
      <3> QED
        BY <3>1
    <2>2. ASSUME NEW n \in 1..Len(toClient), Recv(n)
          PROVE  /\ earliest <= response'[i]
                 /\ \A j \in 1..i : response'[j] <= response'[i]
                 /\ synced => response'[i] = asked
      <3>1. /\ Len(response') = n /\ n \in Nat
            /\ \A h \in 1..n : h \in 1..Len(toClient) /\ response'[h] = toClient[h]
        BY <2>2, Received, StreamNumbers DEF TypeInv
      <3>2. /\ i \in 1..n /\ i \in 1..Len(toClient) /\ response'[i] = toClient[i]
            /\ toClient[i] \in 1..asked
        BY <3>1, StreamNumbers
      <3>3. OnTheWay(toClient[i])
        BY <3>2 DEF OnTheWay
      <3>4. earliest <= toClient[i] /\ (synced => toClient[i] = asked)
        BY <3>2, <3>3 DEF StreamInv, Recent
      <3>5. ASSUME NEW j \in 1..i PROVE response'[j] <= response'[i]
        <4>1. j \in 1..n
          BY <3>1, <3>2
        <4> QED
          BY <3>1, <3>2, <4>1 DEF StreamInv, InOrder, Sorted
      <3> QED
        BY <3>2, <3>4, <3>5
    <2>3. response' = <<>> \/ \E n \in 1..Len(toClient) : Recv(n)
      BY DEF Next, Connect, ConnectNoSocket, Disconnect, Send, Request, Sent, SendFails,
             SelectReady, SelectTimesOut, RecvStep, RecvEnd, WaitFails, Nullopt,
             PeerRead, PeerAnswer, PeerClose, ForeignOpen, ForeignClose, callVars
    <2> QED
      BY <2>1, <2>2, <2>3
  <1> QED
    BY <1>1, <1>2, <1>3, TypesInductive, PTL DEF Spec, AnswersInOrder

=============================================================================
