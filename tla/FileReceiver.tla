---------------------------- MODULE FileReceiver ----------------------------
(***************************************************************************)
(* ucommon::recvFile and ucommon::os_recvFile (linux/utils.cpp): one       *)
(* thread receives file after file over one connected socket, whose peer   *)
(* writes them in that order and may fall silent or hang up anywhere.      *)
(*                                                                         *)
(* A byte is its position in the peer's stream, and the socket is two      *)
(* positions: the peer has written the bytes up to sent, recv has taken    *)
(* those up to taken.  How long recv waits is not measured: with a timeout *)
(* set it may give up whenever there is nothing to deliver.                *)
(***************************************************************************)
EXTENDS Integers, Sequences, SequencesExt, Functions, OutStream

CONSTANTS Function,    \* which of the two functions the caller uses
          Ends,        \* Ends[k]: where the k-th file ends in the peer's stream
          BufferSize,  \* BUFFER_SIZE
          Timeouts     \* arguments timeout_ms, in seconds; 0 is for ever

ASSUME ReceiverAssumption ==
    /\ Function \subseteq {"recvFile", "os_recvFile"}
    /\ Ends \in Seq(Nat)
    /\ \A j, k \in 1..Len(Ends) : j <= k => Ends[j] <= Ends[k]
    /\ BufferSize \in Nat \ {0}
    /\ Timeouts \subseteq Nat

VARIABLES
    pc,             \* "idle", or where the call is
    fn, timeout,    \* the function called last and its argument timeout_ms
    so_rcvtimeo,    \* SO_RCVTIMEO of the socket, 0 when recv waits for ever
    outFile,        \* the file being written, or written last
    totalReceived,
    results,        \* what the calls so far have returned
    sent, taken, hungup

callVars == <<fn, timeout, so_rcvtimeo>>
fileVars == <<outFile, totalReceived>>
peerVars == <<sent, hungup>>
vars == <<pc, callVars, fileVars, results, taken, peerVars>>

\* Both ends agree on the sizes: the k-th file is the bytes after Start(k).
Start(k) == IF k = 1 THEN 0 ELSE Ends[k - 1]
Bytes(k) == Start(k) + 1 .. Ends[k]
Total == Start(Len(Ends) + 1)

\* The number of the call under way or to come, and its argument size.
This == Len(results) + 1
size == Ends[This] - Start(This)

Init ==
    /\ pc = "idle"
    /\ fn \in Function /\ timeout = 0 /\ so_rcvtimeo = 0
    /\ outFile = Opened /\ totalReceived = 0
    /\ results = <<>>
    /\ sent = 0 /\ taken = 0 /\ hungup = FALSE

Return(r) ==
    /\ pc' = "idle"
    /\ results' = Append(results, r)

-----------------------------------------------------------------------------
\* Mutant of RecvTimeout: the option is not set.
NoRecvTimeout(f, t) == 0

\* The timeout that f sets: os_recvFile takes 5 seconds whatever t is.
RecvTimeout(f, t) == IF f = "recvFile" THEN t ELSE 5

\* setsockopt(SO_RCVTIMEO) begins both functions.
Call(f, t) ==
    /\ pc = "idle"
    /\ This <= Len(Ends)
    /\ fn' = f /\ timeout' = t
    /\ \/ so_rcvtimeo' = RecvTimeout(f, t) /\ pc' = "open" /\ UNCHANGED results
       \/ Return(-4) /\ UNCHANGED so_rcvtimeo
    /\ UNCHANGED <<fileVars, taken, peerVars>>

\* The file is created or truncated, or cannot be opened.
Open ==
    /\ pc = "open"
    /\ totalReceived' = 0
    /\ \/ outFile' = Opened /\ pc' = "recv" /\ UNCHANGED results
       \/ Return(-1) /\ UNCHANGED outFile
    /\ UNCHANGED <<callVars, taken, peerVars>>

\* Mutant of ToReceive: the rest of the file does not bound the request.
ToReceiveBuffer == BufferSize

ToReceive == IF size - totalReceived < BufferSize
             THEN size - totalReceived ELSE BufferSize

\* recvFile: write(), the test of the stream, flush().
Save(data) ==
    \E s \in Written(outFile, data) :
        IF s.bad
        THEN outFile' \in Closed(s) /\ Return(-3) /\ UNCHANGED totalReceived
        ELSE /\ outFile' \in Flushed(s)
             /\ totalReceived' = totalReceived + Len(data)
             /\ UNCHANGED <<pc, results>>

\* Mutant of Counted: what was written is counted, not what was received.
CountedWritten(data, part) == Len(part)

Counted(data, part) == Len(data)

\* os_recvFile: one write(2), which may take a part of the data only.
OsSave(data) ==
    \/ /\ \E part \in Prefixes(data) \ {<<>>} :
            /\ outFile' = [outFile EXCEPT !.file = @ \o part]
            /\ totalReceived' = totalReceived + Counted(data, part)
       /\ UNCHANGED <<pc, results>>
    \/ Return(-3) /\ UNCHANGED fileVars

\* recv delivers n bytes, at most what is asked for and what has come.
Recv(n) ==
    /\ pc = "recv"
    /\ totalReceived < size
    /\ n <= ToReceive
    /\ taken + n <= sent
    /\ taken' = taken + n
    /\ LET data == [i \in 1..n |-> taken + i]
       IN  IF fn = "recvFile" THEN Save(data) ELSE OsSave(data)
    /\ UNCHANGED <<callVars, peerVars>>

\* The file is closed: what the stream still buffers is written, or not.
Close == outFile' \in Closed(outFile)

Silent == pc = "recv" /\ totalReceived < size /\ taken = sent

RecvTimesOut ==
    /\ Silent /\ ~hungup
    /\ so_rcvtimeo # 0
    /\ Close /\ Return(-5)
    /\ UNCHANGED <<callVars, totalReceived, taken, peerVars>>

RecvClosed ==
    /\ Silent /\ hungup
    /\ Close /\ Return(-6)
    /\ UNCHANGED <<callVars, totalReceived, taken, peerVars>>

\* Any other error, EINTR among them.
RecvFails ==
    /\ pc = "recv" /\ totalReceived < size
    /\ Close /\ Return(-2)
    /\ UNCHANGED <<callVars, totalReceived, taken, peerVars>>

Complete ==
    /\ pc = "recv"
    /\ totalReceived >= size
    /\ Close /\ Return(0)
    /\ UNCHANGED <<callVars, totalReceived, taken, peerVars>>

-----------------------------------------------------------------------------
(* The peer                                                                *)

PeerSend ==
    /\ ~hungup
    /\ sent < Total
    /\ sent' = sent + 1
    /\ UNCHANGED <<pc, callVars, fileVars, results, taken, hungup>>

PeerClose ==
    /\ ~hungup
    /\ hungup' = TRUE
    /\ UNCHANGED <<pc, callVars, fileVars, results, taken, sent>>

-----------------------------------------------------------------------------
\* A step of the call under way.
CallStep ==
    \/ Open \/ (\E n \in 1..BufferSize : Recv(n))
    \/ RecvTimesOut \/ RecvClosed \/ Complete

Next ==
    \/ \E f \in Function, t \in Timeouts : Call(f, t)
    \/ CallStep
    \/ RecvFails
    \/ PeerSend \/ PeerClose

Spec == Init /\ [][Next]_vars

\* The thread runs, and a call that cannot block returns; the peer owes nothing.
FairSpec == Spec /\ WF_vars(CallStep)

-----------------------------------------------------------------------------
(* Properties                                                              *)

AllZero == \A i \in DOMAIN results : results[i] = 0

\* The number of the call that outFile belongs to while every call returned 0.
Current == IF pc = "recv" THEN This ELSE Len(results)

TypeOK ==
    /\ pc \in {"idle", "open", "recv"}
    /\ fn \in Function
    /\ timeout \in Timeouts \cup {0} /\ so_rcvtimeo \in Timeouts \cup {0, 5}
    /\ outFile \in [file : Seq(1..Total), pend : Seq(1..Total), bad : BOOLEAN]
    /\ results \in Seq(-6..0) /\ Len(results) <= Len(Ends)
    /\ totalReceived \in 0..(IF pc = "recv" THEN size ELSE Total)
    /\ sent \in 0..Total /\ taken \in 0..sent
    /\ hungup \in BOOLEAN

\* As long as every call has returned 0, a file holds bytes of its own only:
\* no call has taken a byte of the file after its own, nor left one behind.
OwnBytes ==
    AllZero /\ Current > 0 => Range(outFile.file) \subseteq Bytes(Current)

\* utils.hpp says of recvFile: "0 on success", and "-3 if there was an error
\* writing the received data to the file".  Then a call that returned 0 has left
\* in the file what it received, byte for byte.
SuccessIsSaved ==
    (pc = "idle" /\ results # <<>> /\ Last(results) = 0 /\ fn = "recvFile") =>
        outFile.file = [i \in 1..totalReceived |-> taken - totalReceived + i]

\* A call that has set a timeout returns, though the peer falls silent.
TimedCallReturns == (pc = "recv" /\ (timeout # 0 \/ fn = "os_recvFile")) ~> pc = "idle"

=============================================================================
