------------------------- MODULE FileReceiverProofs -------------------------
(***************************************************************************)
(* Theorems about FileReceiver, for any number of files of any size, any   *)
(* buffer of ours or of the stream, and any number of calls.               *)
(*                                                                         *)
(* OwnBytes rests on where the socket stands: as long as every call has    *)
(* returned 0, recv has taken exactly the files before this one and what   *)
(* totalReceived counts of this one.  LosesOnlyEnd rests on the flush that *)
(* follows every write: a stream that has not failed buffers nothing when  *)
(* the next write comes, so that only the last chunk can be missing.       *)
(***************************************************************************)
EXTENDS FileReceiver, SequenceTheorems, TLAPS

Streams(S) == [file : Seq(S), pend : Seq(S), bad : BOOLEAN]

-----------------------------------------------------------------------------
(* The positions of the files                                              *)

LEMMA TotalIsNat == Total \in Nat
  <1>1. Len(Ends) \in Nat /\ \A k \in 1..Len(Ends) : Ends[k] \in Nat
    BY ReceiverAssumption, ElementOfSeq, LenProperties
  <1>2. CASE Len(Ends) = 0
    BY <1>2 DEF Total, Start
  <1>3. CASE Len(Ends) # 0
    <2>1. Len(Ends) \in 1..Len(Ends) /\ Len(Ends) + 1 # 1 /\ Len(Ends) + 1 - 1 = Len(Ends)
      BY <1>1, <1>3
    <2> QED
      BY <1>1, <2>1 DEF Total, Start
  <1> QED
    BY <1>2, <1>3

\* A file begins where the one before it ends, and ends before the stream does.
LEMMA FileBounds ==
    ASSUME NEW k \in 1..Len(Ends)
    PROVE  /\ Start(k) \in Nat /\ Ends[k] \in Nat
           /\ Start(k) <= Ends[k] /\ Ends[k] <= Total
           /\ Start(k + 1) = Ends[k]
  <1>1. Len(Ends) \in Nat /\ \A j \in 1..Len(Ends) : Ends[j] \in Nat
    BY ReceiverAssumption, ElementOfSeq, LenProperties
  <1>2. \A i, j \in 1..Len(Ends) : i <= j => Ends[i] <= Ends[j]
    BY ReceiverAssumption
  <1>3. k + 1 # 1 /\ k + 1 - 1 = k /\ Start(k + 1) = Ends[k]
    BY DEF Start
  <1>4. Len(Ends) \in 1..Len(Ends) /\ Len(Ends) + 1 # 1 /\ Len(Ends) + 1 - 1 = Len(Ends)
    BY <1>1
  <1>5. Total = Ends[Len(Ends)]
    BY <1>4 DEF Total, Start
  <1>6. Ends[k] <= Total
    BY <1>1, <1>2, <1>4, <1>5
  <1>7. Start(k) \in Nat /\ Start(k) <= Ends[k]
    <2>1. CASE k = 1
      BY <1>1, <2>1 DEF Start
    <2>2. CASE k # 1
      <3>1. k - 1 \in 1..Len(Ends) /\ k - 1 <= k
        BY <1>1, <2>2
      <3> QED
        BY <1>1, <1>2, <2>2, <3>1 DEF Start
    <2> QED
      BY <2>1, <2>2
  <1> QED
    BY <1>1, <1>3, <1>6, <1>7

-----------------------------------------------------------------------------
(* The output stream                                                       *)

LEMMA PrefixType ==
    ASSUME NEW S, NEW s \in Seq(S), NEW p \in Prefixes(s)
    PROVE  p \in Seq(S)
  <1>1. PICK l \in 0..Len(s) : p = SubSeq(s, 1, l)
    BY DEF Prefixes
  <1>2. \A i \in 1..l : s[i] \in S
    BY <1>1
  <1> QED
    BY <1>1, <1>2

LEMMA ConcatRange ==
    ASSUME NEW S, NEW a \in Seq(S), NEW b \in Seq(S)
    PROVE  Range(a) \subseteq Range(a \o b) /\ Range(b) \subseteq Range(a \o b)
  <1> DEFINE c == a \o b
  <1>1. /\ c \in Seq(S) /\ Len(c) = Len(a) + Len(b)
        /\ \A i \in 1..Len(a) + Len(b) :
              c[i] = IF i <= Len(a) THEN a[i] ELSE b[i - Len(a)]
    BY ConcatProperties
  <1>2. Len(a) \in Nat /\ Len(b) \in Nat
    BY LenProperties
  <1>3. DOMAIN c = 1..Len(a) + Len(b) /\ DOMAIN a = 1..Len(a) /\ DOMAIN b = 1..Len(b)
    BY <1>1, LenProperties
  <1> HIDE DEF c
  <1>4. \A i \in 1..Len(a) : i \in DOMAIN c /\ c[i] = a[i]
    BY <1>1, <1>2, <1>3
  <1>5. \A i \in 1..Len(b) : Len(a) + i \in DOMAIN c /\ c[Len(a) + i] = b[i]
    <2> TAKE i \in 1..Len(b)
    <2>1. /\ Len(a) + i \in 1..Len(a) + Len(b) /\ ~(Len(a) + i <= Len(a))
          /\ (Len(a) + i) - Len(a) = i
      BY <1>2
    <2> QED
      BY <1>1, <1>3, <2>1
  <1>6. Range(a) \subseteq Range(c)
    BY <1>3, <1>4 DEF Range
  <1>7. Range(b) \subseteq Range(c)
    BY <1>3, <1>5 DEF Range
  <1> QED
    BY <1>6, <1>7 DEF c

\* What a stream holds comes from what is written to it.
LEMMA StreamTypes ==
    ASSUME NEW S, NEW s \in Streams(S), NEW data \in Seq(S)
    PROVE  /\ Written(s, data) \subseteq Streams(S)
           /\ Flushed(s) \subseteq Streams(S)
           /\ Closed(s) \subseteq Streams(S)
           /\ \A p \in Prefixes(data) : [s EXCEPT !.file = @ \o p] \in Streams(S)
  <1>1. s.file \in Seq(S) /\ s.pend \in Seq(S) /\ s.bad \in BOOLEAN
    BY DEF Streams
  <1>2. \A p \in Seq(S) : s.file \o p \in Seq(S)
    BY <1>1, ConcatProperties
  <1>3. /\ \A p \in Prefixes(data) : p \in Seq(S)
        /\ \A p \in Prefixes(s.pend) : p \in Seq(S)
    BY <1>1, PrefixType
  <1>4. s.pend \o data \in Seq(S) /\ <<>> \in Seq(S)
    BY <1>1, ConcatProperties, EmptySeq
  <1>5. \A p \in Prefixes(s.pend \o data) : p \in Seq(S)
    BY <1>4, PrefixType
  <1>6. s.file \o s.pend \o data \in Seq(S)
    BY <1>1, <1>2, ConcatProperties
  <1>7. Written(s, data) \subseteq Streams(S)
    <2> SUFFICES ASSUME NEW t \in Written(s, data) PROVE t \in Streams(S)
      OBVIOUS
    <2>1. CASE s.bad
      <3>1. t = s
        BY <2>1, Zenon DEF Written
      <3> QED
        BY <3>1
    <2>2. CASE t = [s EXCEPT !.pend = @ \o data]
      BY <1>1, <1>4, <2>2 DEF Streams
    <2>3. CASE t = [s EXCEPT !.file = @ \o s.pend \o data, !.pend = <<>>]
      BY <1>1, <1>4, <1>6, <2>3 DEF Streams
    <2>4. ASSUME NEW p \in Prefixes(s.pend \o data),
                 t = [s EXCEPT !.file = @ \o p, !.bad = TRUE]
          PROVE  t \in Streams(S)
      BY <1>1, <1>2, <1>5, <2>4 DEF Streams
    <2>5. CASE ~s.bad
      <3>1. \/ t = [s EXCEPT !.pend = @ \o data]
            \/ t = [s EXCEPT !.file = @ \o s.pend \o data, !.pend = <<>>]
            \/ \E p \in Prefixes(s.pend \o data) :
                  t = [s EXCEPT !.file = @ \o p, !.bad = TRUE]
        BY <2>5, Zenon DEF Written, Partial
      <3> QED
        BY <3>1, <2>2, <2>3, <2>4, Zenon
    <2> QED
      BY <2>1, <2>5
  <1>8. Flushed(s) \subseteq Streams(S)
    <2> SUFFICES ASSUME NEW t \in Flushed(s) PROVE t \in Streams(S)
      OBVIOUS
    <2>1. CASE s.bad
      <3>1. t = s
        BY <2>1, Zenon DEF Flushed
      <3> QED
        BY <3>1
    <2>2. CASE t = [s EXCEPT !.file = @ \o s.pend, !.pend = <<>>]
      BY <1>1, <1>2, <1>4, <2>2 DEF Streams
    <2>3. ASSUME NEW p \in Prefixes(s.pend), t = [s EXCEPT !.file = @ \o p, !.bad = TRUE]
          PROVE  t \in Streams(S)
      BY <1>1, <1>2, <1>3, <2>3 DEF Streams
    <2>4. CASE ~s.bad
      <3>1. \/ t = [s EXCEPT !.file = @ \o s.pend, !.pend = <<>>]
            \/ \E p \in Prefixes(s.pend) : t = [s EXCEPT !.file = @ \o p, !.bad = TRUE]
        BY <2>4, Zenon DEF Flushed, Partial
      <3> QED
        BY <3>1, <2>2, <2>3, Zenon
    <2> QED
      BY <2>1, <2>4
  <1>9. \A p \in Seq(S) : [s EXCEPT !.file = @ \o p] \in Streams(S)
    BY <1>1, <1>2 DEF Streams
  <1>10. Closed(s) \subseteq Streams(S)
    BY <1>3, <1>9, Zenon DEF Closed
  <1> QED
    BY <1>3, <1>7, <1>8, <1>9, <1>10

\* A file that is closed keeps what is in it.
LEMMA ClosedKeeps ==
    ASSUME NEW S, NEW s \in Streams(S), NEW t \in Closed(s)
    PROVE  Range(s.file) \subseteq Range(t.file)
  <1>1. PICK p \in Prefixes(s.pend) : t = [s EXCEPT !.file = @ \o p]
    BY DEF Closed
  <1>2. p \in Seq(S) /\ s.file \in Seq(S)
    BY PrefixType DEF Streams
  <1>3. t.file = s.file \o p
    BY <1>1 DEF Streams
  <1> QED
    BY <1>2, <1>3, ConcatRange

\* write() and flush() on a stream that has not failed and buffers nothing:
\* the data are lost only when they were buffered, and then the stream fails.
LEMMA WriteFlush ==
    ASSUME NEW S, NEW s \in Streams(S), ~s.bad, s.pend = <<>>, NEW data \in Seq(S),
           NEW t \in Written(s, data), ~t.bad, NEW u \in Flushed(t)
    PROVE  /\ Range(s.file) \subseteq Range(u.file)
           /\ ~u.bad => u.pend = <<>> /\ Range(data) \subseteq Range(u.file)
           /\ Len(data) >= Direct => Range(data) \subseteq Range(u.file)
  <1>0. s.file \in Seq(S) /\ <<>> \in Seq(S) /\ <<>> \o data = data
    BY EmptySeq, ConcatEmptySeq DEF Streams
  <1>1. t \in Streams(S) /\ t.file \in Seq(S) /\ t.pend \in Seq(S)
    BY StreamTypes DEF Streams
  <1>2. \/ Len(data) < Direct /\ t.file = s.file /\ t.pend = data
        \/ ~(Len(data) < Direct) /\ t.file = s.file \o data /\ t.pend = <<>>
    <2>1. CASE Len(data) < Direct
      <3>1. t = [s EXCEPT !.pend = @ \o data]
        BY <2>1, Zenon DEF Written
      <3> QED
        BY <1>0, <2>1, <3>1 DEF Streams
    <2>2. CASE ~(Len(data) < Direct)
      <3>1. \A p : [s EXCEPT !.file = @ \o p, !.bad = TRUE].bad = TRUE
        BY DEF Streams
      <3>2. t = [s EXCEPT !.file = @ \o s.pend \o data, !.pend = <<>>]
        BY <2>2, <3>1, Zenon DEF Written, Partial
      <3>3. s.file \o <<>> = s.file
        BY <1>0, ConcatEmptySeq
      <3> QED
        BY <2>2, <3>2, <3>3 DEF Streams
    <2> QED
      BY <2>1, <2>2
  <1>3. \/ u.file = t.file \o t.pend /\ u.pend = <<>> /\ ~u.bad
        \/ u.bad /\ \E p \in Seq(S) : u.file = t.file \o p
    <2>1. CASE u = [t EXCEPT !.file = @ \o t.pend, !.pend = <<>>]
      BY <1>1, <2>1 DEF Streams
    <2>2. CASE \E p \in Prefixes(t.pend) : u = [t EXCEPT !.file = @ \o p, !.bad = TRUE]
      <3>1. PICK p \in Prefixes(t.pend) : u = [t EXCEPT !.file = @ \o p, !.bad = TRUE]
        BY <2>2, Zenon
      <3>2. p \in Seq(S)
        BY <1>1, PrefixType
      <3> QED
        BY <1>1, <3>1, <3>2 DEF Streams
    <2> QED
      BY <2>1, <2>2, Zenon DEF Flushed, Partial
  <1>4. Range(t.file) \subseteq Range(u.file)
    BY <1>1, <1>3, ConcatRange
  <1>5. Range(s.file) \subseteq Range(t.file)
    BY <1>0, <1>2, ConcatRange
  <1>6. ~(Len(data) < Direct) => Range(data) \subseteq Range(t.file)
    BY <1>0, <1>2, ConcatRange
  <1>7. ~u.bad => u.pend = <<>> /\ Range(t.pend) \subseteq Range(u.file)
    BY <1>1, <1>3, ConcatRange
  <1>8. Len(data) \in Nat /\ Direct \in Nat
    BY LenProperties, DirectAssumption
  <1>9. Len(data) >= Direct <=> ~(Len(data) < Direct)
    BY <1>8
  <1>10. ~u.bad => Range(data) \subseteq Range(u.file)
    BY <1>2, <1>4, <1>6, <1>7
  <1> QED
    BY <1>4, <1>5, <1>6, <1>7, <1>9, <1>10

-----------------------------------------------------------------------------
(* Type correctness                                                        *)

ReceiverInv == TypeOK /\ (pc # "idle" => This <= Len(Ends))

LEMMA ReturnFacts ==
    ASSUME NEW r \in -6..0, results \in Seq(-6..0), Return(r)
    PROVE  /\ results' \in Seq(-6..0) /\ Len(results') = This
           /\ results' # <<>> /\ Last(results') = r
           /\ AllZero' <=> AllZero /\ r = 0
  <1>1. results' = Append(results, r)
    BY DEF Return
  <1>2. /\ results' \in Seq(-6..0) /\ results' # <<>>
        /\ Len(results') = Len(results) + 1
        /\ \A i \in 1..Len(results) : results'[i] = results[i]
        /\ results'[Len(results) + 1] = r
    BY <1>1, AppendProperties
  <1>3. /\ Len(results) \in Nat
        /\ DOMAIN results = 1..Len(results) /\ DOMAIN results' = 1..Len(results')
    BY <1>2, LenProperties
  <1>4. AllZero' <=> AllZero /\ r = 0
    <2>1. DOMAIN results' = DOMAIN results \cup {Len(results) + 1}
      BY <1>2, <1>3
    <2> QED
      BY <1>2, <1>3, <2>1 DEF AllZero
  <1> QED
    BY <1>2, <1>4 DEF This, Last

\* The file of the call under way, among the files.
LEMMA CallFacts ==
    ASSUME TypeOK, This <= Len(Ends)
    PROVE  /\ This \in 1..Len(Ends) /\ This \in Nat
           /\ Start(This) \in Nat /\ Ends[This] \in Nat /\ Start(This + 1) = Ends[This]
           /\ size \in Nat /\ size = Ends[This] - Start(This)
           /\ size <= Total /\ Ends[This] <= Total
  <1>1. Len(results) \in Nat /\ Len(Ends) \in Nat
    BY ReceiverAssumption, LenProperties DEF TypeOK
  <1>2. This \in 1..Len(Ends)
    BY <1>1 DEF This
  <1>3. /\ Start(This) \in Nat /\ Ends[This] \in Nat
        /\ Start(This) <= Ends[This] /\ Ends[This] <= Total
        /\ Start(This + 1) = Ends[This]
    BY <1>2, FileBounds
  <1> QED
    BY <1>1, <1>2, <1>3, TotalIsNat DEF size

\* The data of one recv.
Chunk(n) == [i \in 1..n |-> taken + i]

LEMMA ChunkFacts ==
    ASSUME NEW n \in Nat, taken \in Nat
    PROVE  /\ Chunk(n) \in Seq(taken + 1 .. taken + n)
           /\ Len(Chunk(n)) = n /\ Range(Chunk(n)) = taken + 1 .. taken + n
  <1>1. \A i \in 1..n : taken + i \in taken + 1 .. taken + n
    OBVIOUS
  <1>2. Chunk(n) \in [1..n -> taken + 1 .. taken + n]
    BY <1>1 DEF Chunk
  <1>3. Chunk(n) \in Seq(taken + 1 .. taken + n) /\ DOMAIN Chunk(n) = 1..n
    BY <1>2, SeqDef
  <1>4. Len(Chunk(n)) = n
    BY <1>3, LenProperties
  <1>5. \A b \in taken + 1 .. taken + n : b - taken \in 1..n /\ taken + (b - taken) = b
    OBVIOUS
  <1>6. Range(Chunk(n)) = taken + 1 .. taken + n
    <2>1. \A b \in taken + 1 .. taken + n : \E i \in 1..n : Chunk(n)[i] = b
      BY <1>5 DEF Chunk
    <2>2. \A i \in 1..n : Chunk(n)[i] \in taken + 1 .. taken + n
      BY <1>1 DEF Chunk
    <2> QED
      BY <1>3, <2>1, <2>2 DEF Range
  <1> QED
    BY <1>3, <1>4, <1>6

\* A sequence over a set is one over every larger set.
LEMMA SeqWider ==
    ASSUME NEW S, NEW T, S \subseteq T, NEW s \in Seq(S)
    PROVE  s \in Seq(T)
  <1>1. Len(s) \in Nat /\ s \in [1..Len(s) -> T]
    BY LenProperties
  <1> QED
    BY <1>1, SeqDef

\* What one recv and the write of its data do: they are saved, or the call ends.
LEMMA RecvFacts ==
    ASSUME NEW S, outFile \in Streams(S), results \in Seq(-6..0),
           NEW n \in 1..BufferSize, Recv(n),
           taken \in Nat, taken + 1 .. taken + n \subseteq S
    PROVE  /\ pc = "recv" /\ totalReceived < size /\ n <= ToReceive
           /\ taken' = taken + n /\ taken + n <= sent
           /\ UNCHANGED <<callVars, peerVars>>
           /\ outFile' \in Streams(S)
           /\ \/ totalReceived' = totalReceived + n /\ UNCHANGED <<pc, results>>
              \/ totalReceived' = totalReceived /\ Return(-3)
           /\ fn = "recvFile" /\ pc' = "recv" =>
                 \E s \in Written(outFile, Chunk(n)) : ~s.bad /\ outFile' \in Flushed(s)
  <1>1. /\ pc = "recv" /\ totalReceived < size /\ n <= ToReceive
        /\ taken' = taken + n /\ taken + n <= sent
        /\ UNCHANGED <<callVars, peerVars>>
        /\ IF fn = "recvFile" THEN Save(Chunk(n)) ELSE OsSave(Chunk(n))
    BY DEF Recv, Chunk
  <1>2. n \in Nat
    BY ReceiverAssumption
  <1>3. Chunk(n) \in Seq(S) /\ Len(Chunk(n)) = n
    BY <1>2, ChunkFacts, SeqWider
  <1>4. CASE fn = "recvFile"
    <2>1. PICK s \in Written(outFile, Chunk(n)) :
            IF s.bad
            THEN outFile' \in Closed(s) /\ Return(-3) /\ UNCHANGED totalReceived
            ELSE /\ outFile' \in Flushed(s)
                 /\ totalReceived' = totalReceived + Len(Chunk(n))
                 /\ UNCHANGED <<pc, results>>
      BY <1>1, <1>4 DEF Save
    <2>2. s \in Streams(S)
      BY <1>3, StreamTypes
    <2>3. Closed(s) \subseteq Streams(S) /\ Flushed(s) \subseteq Streams(S)
      BY <1>3, <2>2, StreamTypes
    <2>4. CASE s.bad
      BY <1>1, <2>1, <2>3, <2>4 DEF Return
    <2>5. CASE ~s.bad
      BY <1>1, <1>3, <2>1, <2>3, <2>5
    <2> QED
      BY <2>4, <2>5
  <1>5. CASE fn # "recvFile"
    <2>1. OsSave(Chunk(n))
      BY <1>1, <1>5
    <2>2. CASE Return(-3) /\ UNCHANGED fileVars
      BY <1>1, <1>5, <2>2 DEF fileVars
    <2>3. ASSUME NEW part \in Prefixes(Chunk(n)),
                 outFile' = [outFile EXCEPT !.file = @ \o part],
                 totalReceived' = totalReceived + Counted(Chunk(n), part),
                 UNCHANGED <<pc, results>>
          PROVE  /\ outFile' \in Streams(S)
                 /\ totalReceived' = totalReceived + n /\ UNCHANGED <<pc, results>>
      BY <1>3, <2>3, StreamTypes DEF Counted
    <2> QED
      BY <1>1, <1>5, <2>1, <2>2, <2>3 DEF OsSave
  <1> QED
    BY <1>4, <1>5

\* What the steps of the caller other than recv have in common when they end
\* the call: the file is closed and nothing else changes.
Finish(r) ==
    /\ pc = "recv" /\ Close /\ Return(r)
    /\ UNCHANGED <<callVars, totalReceived, taken, peerVars>>

\* Every step is one of these.
LEMMA Steps ==
    ASSUME [Next]_vars
    PROVE  \/ \E f \in Function, t \in Timeouts : Call(f, t)
           \/ Open
           \/ \E n \in 1..BufferSize : Recv(n)
           \/ \E r \in {-6, -5, -2} : Finish(r)
           \/ Complete
           \/ PeerSend \/ PeerClose
           \/ UNCHANGED vars
  <1>1. ASSUME RecvTimesOut PROVE Finish(-5)
    BY <1>1 DEF RecvTimesOut, Silent, Finish
  <1>2. ASSUME RecvClosed PROVE Finish(-6)
    BY <1>2 DEF RecvClosed, Silent, Finish
  <1>3. ASSUME RecvFails PROVE Finish(-2)
    BY <1>3 DEF RecvFails, Finish
  <1> QED
    BY <1>1, <1>2, <1>3 DEF Next, CallStep

LEMMA InitReceiver == Init => ReceiverInv
  <1> SUFFICES ASSUME Init PROVE ReceiverInv
    OBVIOUS
  <1>1. <<>> \in Seq(-6..0) /\ Len(<<>>) = 0 /\ <<>> \in Seq(1..Total)
    BY EmptySeq
  <1>2. outFile \in Streams(1..Total)
    BY <1>1 DEF Init, Opened, Streams
  <1>3. Len(Ends) \in Nat
    BY ReceiverAssumption, LenProperties
  <1>4. hungup \in BOOLEAN
    BY Zenon DEF Init
  <1>5. /\ pc = "idle" /\ fn \in Function /\ timeout = 0 /\ so_rcvtimeo = 0
        /\ results \in Seq(-6..0) /\ Len(results) <= Len(Ends)
    BY <1>1, <1>3 DEF Init
  <1>6. totalReceived \in 0..Total /\ sent \in 0..Total /\ taken \in 0..sent
    BY TotalIsNat DEF Init
  <1> QED
    BY <1>2, <1>4, <1>5, <1>6 DEF ReceiverInv, TypeOK, Streams

LEMMA StepReceiver == ReceiverInv /\ [Next]_vars => ReceiverInv'
  <1> SUFFICES ASSUME ReceiverInv, [Next]_vars
               PROVE  ReceiverInv'
    OBVIOUS
  <1>t. TypeOK /\ (pc # "idle" => This <= Len(Ends))
    BY DEF ReceiverInv
  <1>a. /\ results \in Seq(-6..0) /\ Len(results) \in Nat /\ Len(Ends) \in Nat
        /\ outFile \in Streams(1..Total)
        /\ Total \in Nat /\ sent \in Nat /\ taken \in Nat /\ totalReceived \in Nat
    <2>1. Len(results) \in Nat /\ Len(Ends) \in Nat
      BY <1>t, ReceiverAssumption, LenProperties DEF TypeOK
    <2>2. pc = "recv" => size \in Nat
      BY <1>t, CallFacts
    <2> QED
      BY <1>t, <2>1, <2>2, TotalIsNat DEF TypeOK, Streams
  <1>b. totalReceived \in 0..Total
    BY <1>t, <1>a, CallFacts DEF TypeOK
  <1>1. ASSUME NEW f \in Function, NEW t \in Timeouts, Call(f, t)
        PROVE  ReceiverInv'
    <2>1. /\ pc = "idle" /\ This <= Len(Ends) /\ fn' = f /\ timeout' = t
          /\ UNCHANGED <<outFile, totalReceived, taken, sent, hungup>>
          /\ \/ so_rcvtimeo' = RecvTimeout(f, t) /\ pc' = "open" /\ UNCHANGED results
             \/ Return(-4) /\ UNCHANGED so_rcvtimeo
      BY <1>1 DEF Call, fileVars, peerVars
    <2>2. RecvTimeout(f, t) \in Timeouts \cup {0, 5}
      BY DEF RecvTimeout
    <2>3. CASE so_rcvtimeo' = RecvTimeout(f, t) /\ pc' = "open" /\ UNCHANGED results
      BY <1>t, <1>b, <2>1, <2>2, <2>3 DEF ReceiverInv, TypeOK, This
    <2>4. CASE Return(-4) /\ UNCHANGED so_rcvtimeo
      <3>1. pc' = "idle" /\ results' \in Seq(-6..0) /\ Len(results') = This
        BY <1>a, <2>4, ReturnFacts DEF Return
      <3> QED
        BY <1>t, <1>b, <2>1, <2>4, <3>1 DEF ReceiverInv, TypeOK
    <2> QED
      BY <2>1, <2>3, <2>4
  <1>2. ASSUME Open
        PROVE  ReceiverInv'
    <2>1. /\ pc = "open" /\ totalReceived' = 0
          /\ UNCHANGED <<fn, timeout, so_rcvtimeo, taken, sent, hungup>>
          /\ \/ outFile' = Opened /\ pc' = "recv" /\ UNCHANGED results
             \/ Return(-1) /\ UNCHANGED outFile
      BY <1>2 DEF Open, callVars, peerVars
    <2>2. CASE outFile' = Opened /\ pc' = "recv" /\ UNCHANGED results
      <3>1. Opened \in Streams(1..Total)
        BY EmptySeq DEF Opened, Streams
      <3>2. size' = size /\ This' = This
        BY <2>2 DEF size, This
      <3>3. 0 \in 0..size
        BY <1>t, <2>1, CallFacts
      <3> QED
        BY <1>t, <2>1, <2>2, <3>1, <3>2, <3>3 DEF ReceiverInv, TypeOK, Streams
    <2>3. CASE Return(-1) /\ UNCHANGED outFile
      <3>1. pc' = "idle" /\ results' \in Seq(-6..0) /\ Len(results') = This
        BY <1>a, <2>3, ReturnFacts DEF Return
      <3> QED
        BY <1>t, <1>a, <2>1, <2>3, <3>1 DEF ReceiverInv, TypeOK
    <2> QED
      BY <2>1, <2>2, <2>3
  <1>3. ASSUME NEW n \in 1..BufferSize, Recv(n)
        PROVE  ReceiverInv'
    <2>1. n \in Nat /\ n > 0 /\ BufferSize \in Nat /\ taken + n <= sent /\ sent <= Total
      BY <1>3, <1>t, ReceiverAssumption DEF Recv, TypeOK
    <2>2. taken + 1 .. taken + n \subseteq 1..Total
      BY <1>a, <2>1
    <2>3. /\ pc = "recv" /\ totalReceived < size /\ n <= ToReceive
          /\ taken' = taken + n
          /\ UNCHANGED <<callVars, peerVars>>
          /\ outFile' \in Streams(1..Total)
          /\ \/ totalReceived' = totalReceived + n /\ UNCHANGED <<pc, results>>
             \/ totalReceived' = totalReceived /\ Return(-3)
      BY <1>3, <1>a, <2>2, RecvFacts
    <2>4. size \in Nat /\ size <= Total
      BY <1>t, <2>3, CallFacts
    <2>5. n <= size - totalReceived
      BY <1>a, <2>1, <2>3, <2>4 DEF ToReceive
    <2>6. /\ taken' \in 0..sent
          /\ UNCHANGED <<fn, timeout, so_rcvtimeo, sent, hungup>>
      BY <1>a, <2>1, <2>3 DEF callVars, peerVars
    <2>7. CASE totalReceived' = totalReceived + n /\ UNCHANGED <<pc, results>>
      <3>1. totalReceived' \in 0..size
        BY <1>a, <2>1, <2>4, <2>5, <2>7
      <3>2. size' = size /\ This' = This
        BY <2>7 DEF size, This
      <3> QED
        BY <1>t, <2>3, <2>6, <2>7, <3>1, <3>2 DEF ReceiverInv, TypeOK, Streams
    <2>8. CASE totalReceived' = totalReceived /\ Return(-3)
      <3>1. pc' = "idle" /\ results' \in Seq(-6..0) /\ Len(results') = This
        BY <1>a, <2>8, ReturnFacts DEF Return
      <3> QED
        BY <1>t, <1>b, <2>3, <2>6, <2>8, <3>1 DEF ReceiverInv, TypeOK, Streams
    <2> QED
      BY <2>3, <2>7, <2>8
  <1>4. ASSUME NEW r \in {-6, -5, -2, 0}, Finish(r)
        PROVE  ReceiverInv'
    <2>1. /\ pc = "recv" /\ pc' = "idle" /\ outFile' \in Closed(outFile)
          /\ UNCHANGED <<fn, timeout, so_rcvtimeo, totalReceived, taken, sent, hungup>>
      BY <1>4 DEF Finish, Close, Return, callVars, peerVars
    <2>2. results' \in Seq(-6..0) /\ Len(results') = This
      BY <1>4, <1>a, ReturnFacts DEF Finish
    <2>3. outFile' \in Streams(1..Total)
      BY <1>a, <2>1, EmptySeq, StreamTypes
    <2> QED
      BY <1>t, <1>b, <2>1, <2>2, <2>3 DEF ReceiverInv, TypeOK, Streams
  <1>5. ASSUME Complete
        PROVE  ReceiverInv'
    <2>1. Finish(0)
      BY <1>5 DEF Complete, Finish
    <2> QED
      BY <1>4, <2>1
  <1>6. ASSUME PeerSend \/ PeerClose
        PROVE  ReceiverInv'
    <2>1. /\ UNCHANGED <<pc, fn, timeout, so_rcvtimeo, outFile, totalReceived, results, taken>>
      BY <1>6 DEF PeerSend, PeerClose, callVars, fileVars
    <2>2. sent \in 0..Total /\ hungup \in BOOLEAN
      BY <1>t DEF TypeOK
    <2>3. hungup' \in BOOLEAN
      BY <1>6, <2>2, Zenon DEF PeerSend, PeerClose
    <2>4. (sent' = sent + 1 /\ sent < Total) \/ sent' = sent
      BY <1>6 DEF PeerSend, PeerClose
    <2>5. sent' \in 0..Total /\ sent' >= sent
      BY <1>a, <2>2, <2>4
    <2>6. size' = size /\ This' = This
      BY <2>1 DEF size, This
    <2>7. taken' \in 0..sent'
      BY <1>t, <1>a, <2>1, <2>5 DEF TypeOK
    <2> QED
      BY <1>t, <2>1, <2>6, <2>7, <2>3, <2>5 DEF ReceiverInv, TypeOK
  <1>7. ASSUME UNCHANGED vars
        PROVE  ReceiverInv'
    BY <1>7, <1>t DEF vars, callVars, fileVars, peerVars, ReceiverInv, TypeOK, size, This
  <1> QED
    BY <1>1, <1>2, <1>3, <1>4, <1>5, <1>6, <1>7, Steps

\* Type correctness: no call counts more than its file is long, and a socket
\* never gives more than the peer has written.
THEOREM TypeCorrect == Spec => []TypeOK
  <1>1. ReceiverInv => TypeOK
    BY DEF ReceiverInv
  <1> QED
    BY <1>1, InitReceiver, StepReceiver, PTL DEF Spec

-----------------------------------------------------------------------------
(* Own bytes only                                                          *)

\* Where the socket stands, and whose bytes the stream holds, as long as every
\* call has returned 0.
InStep ==
    AllZero =>
        /\ taken = Start(This) + (IF pc = "recv" THEN totalReceived ELSE 0)
        /\ Current > 0 => outFile \in Streams(Bytes(Current))

LEMMA InitInStep == Init => InStep
  <1> SUFFICES ASSUME Init PROVE InStep
    OBVIOUS
  <1>1. Len(<<>>) = 0
    OBVIOUS
  <1> QED
    BY <1>1 DEF Init, InStep, This, Start, Current

LEMMA StepInStep ==
    ASSUME ReceiverInv, InStep, [Next]_vars PROVE InStep'
  <1>t. TypeOK /\ (pc # "idle" => This <= Len(Ends))
    BY DEF ReceiverInv
  <1>a. /\ results \in Seq(-6..0) /\ Len(results) \in Nat
        /\ outFile \in Streams(1..Total)
        /\ Total \in Nat /\ sent \in Nat /\ taken \in Nat
    BY <1>t, LenProperties, TotalIsNat DEF TypeOK, Streams
  <1>b. ASSUME NEW r \in -6..0, Return(r), r # 0
        PROVE  InStep'
    BY <1>a, <1>b, ReturnFacts DEF InStep
  <1>1. ASSUME NEW f \in Function, NEW t \in Timeouts, Call(f, t)
        PROVE  InStep'
    <2>1. /\ pc = "idle" /\ UNCHANGED <<outFile, taken>>
          /\ (pc' = "open" /\ UNCHANGED results) \/ Return(-4)
      BY <1>1 DEF Call, fileVars
    <2> QED
      BY <1>b, <2>1 DEF InStep, This, Current, AllZero
  <1>2. ASSUME Open
        PROVE  InStep'
    <2>1. /\ pc = "open" /\ totalReceived' = 0 /\ taken' = taken
          /\ (outFile' = Opened /\ pc' = "recv" /\ UNCHANGED results) \/ Return(-1)
      BY <1>2 DEF Open
    <2>2. \A S : Opened \in Streams(S)
      BY EmptySeq DEF Opened, Streams
    <2>3. Start(This) \in Nat
      BY <1>t, <2>1, CallFacts
    <2>4. CASE outFile' = Opened /\ pc' = "recv" /\ UNCHANGED results
      BY <2>1, <2>2, <2>3, <2>4 DEF InStep, This, AllZero
    <2> QED
      BY <1>b, <2>1, <2>4
  <1>3. ASSUME NEW n \in 1..BufferSize, Recv(n)
        PROVE  InStep'
    <2>1. n \in Nat /\ n > 0 /\ BufferSize \in Nat /\ pc = "recv" /\ n <= ToReceive
          /\ Current = This
      BY <1>3, ReceiverAssumption DEF Recv, Current
    <2>2. /\ Start(This) \in Nat /\ Ends[This] \in Nat /\ This \in Nat /\ This > 0
          /\ size = Ends[This] - Start(This) /\ size \in Nat
      BY <1>t, <2>1, CallFacts
    <2>3. totalReceived \in Nat /\ n <= size - totalReceived
      BY <1>t, <2>1, <2>2 DEF ToReceive, TypeOK
    <2>4. CASE AllZero
      <3>1. taken = Start(This) + totalReceived /\ outFile \in Streams(Bytes(This))
        BY <2>1, <2>2, <2>4 DEF InStep
      <3>2. taken + 1 .. taken + n \subseteq Bytes(This)
        <4> SUFFICES ASSUME NEW b \in taken + 1 .. taken + n PROVE b \in Bytes(This)
          OBVIOUS
        <4> DEFINE first == Start(This) end == Ends[This]
        <4>1. first \in Nat /\ end \in Nat
          BY <2>2
        <4>2. n <= end - first - totalReceived /\ taken = first + totalReceived
          BY <2>2, <2>3, <3>1
        <4> HIDE DEF first, end
        <4>3. /\ b \in Int /\ taken + 1 <= b /\ b <= taken + n
              /\ taken + n <= end /\ first <= taken
          BY <1>a, <2>1, <2>3, <4>1, <4>2
        <4>4. /\ b \in Int /\ taken + 1 <= b /\ b <= taken + n
              /\ taken + n <= Ends[This] /\ Start(This) <= taken
          BY <4>3 DEF first, end
        <4>5. Start(This) + 1 <= b /\ b <= Ends[This]
          BY <1>a, <2>2, <4>4
        <4> QED
          BY <2>2, <4>4, <4>5 DEF Bytes
      <3>3. /\ taken' = taken + n
            /\ outFile' \in Streams(Bytes(This))
            /\ \/ totalReceived' = totalReceived + n /\ UNCHANGED <<pc, results>>
               \/ totalReceived' = totalReceived /\ Return(-3)
        BY <1>3, <1>a, <3>1, <3>2, RecvFacts
      <3>4. CASE totalReceived' = totalReceived + n /\ UNCHANGED <<pc, results>>
        <4>1. This' = This /\ pc' = "recv" /\ Current' = This
          BY <2>1, <3>4 DEF This, Current
        <4>2. taken' = Start(This) + totalReceived'
          BY <2>2, <2>3, <2>1, <3>1, <3>3, <3>4
        <4> QED
          BY <3>3, <4>1, <4>2 DEF InStep
      <3> QED
        BY <1>b, <3>3, <3>4
    <2>5. CASE ~AllZero
      <3>1. UNCHANGED results \/ Return(-3)
        BY <1>3 DEF Recv, Save, OsSave
      <3>2. CASE UNCHANGED results
        BY <2>5, <3>2 DEF InStep, AllZero
      <3> QED
        BY <1>b, <3>1, <3>2
    <2> QED
      BY <2>4, <2>5
  <1>4. ASSUME NEW r \in {-6, -5, -2}, Finish(r)
        PROVE  InStep'
    BY <1>b, <1>4 DEF Finish
  <1>5. ASSUME Complete
        PROVE  InStep'
    <2>1. /\ pc = "recv" /\ totalReceived >= size /\ outFile' \in Closed(outFile)
          /\ Return(0) /\ taken' = taken /\ pc' = "idle"
      BY <1>5 DEF Complete, Close, Return
    <2>2. /\ Start(This) \in Nat /\ Ends[This] \in Nat /\ This \in Nat /\ This > 0
          /\ Start(This + 1) = Ends[This]
          /\ size = Ends[This] - Start(This) /\ size \in Nat
      BY <1>t, <2>1, CallFacts DEF This
    <2>3. totalReceived = size
      BY <1>t, <2>1, <2>2 DEF TypeOK
    <2>4. Len(results') = This /\ (AllZero' <=> AllZero)
      BY <1>a, <2>1, ReturnFacts
    <2>5. This' = This + 1 /\ Current' = This /\ Current = This
      BY <2>1, <2>4 DEF This, Current
    <2>6. CASE AllZero
      <3>1. taken = Start(This) + size /\ outFile \in Streams(Bytes(This))
        BY <2>1, <2>2, <2>3, <2>5, <2>6 DEF InStep
      <3>2. taken' = Start(This') + 0
        BY <2>1, <2>2, <2>5, <3>1
      <3>3. outFile' \in Streams(Bytes(This))
        BY <2>1, <3>1, EmptySeq, StreamTypes
      <3> QED
        BY <2>1, <2>5, <3>2, <3>3 DEF InStep
    <2> QED
      BY <2>4, <2>6 DEF InStep
  <1>6. ASSUME PeerSend \/ PeerClose \/ UNCHANGED vars
        PROVE  InStep'
    <2>1. UNCHANGED <<pc, outFile, totalReceived, results, taken>>
      BY <1>6 DEF PeerSend, PeerClose, vars, fileVars
    <2> QED
      BY <2>1 DEF InStep, This, Current, AllZero
  <1> QED
    BY <1>1, <1>2, <1>3, <1>4, <1>5, <1>6, Steps

\* As long as every call has returned 0, a file holds bytes of its own only,
\* whatever sizes, buffers, partial writes and functions are mixed.
THEOREM FilesHoldOwnBytes == Spec => []OwnBytes
  <1>1. InStep => OwnBytes
    <2> SUFFICES ASSUME InStep, AllZero, Current > 0
                 PROVE  Range(outFile.file) \subseteq Bytes(Current)
      BY DEF OwnBytes
    <2>1. outFile.file \in Seq(Bytes(Current))
      BY DEF InStep, Streams
    <2> QED
      BY <2>1, LenProperties DEF Range
  <1>2. ReceiverInv /\ InStep /\ [Next]_vars => InStep'
    BY StepInStep
  <1> QED
    BY <1>1, <1>2, InitInStep, InitReceiver, StepReceiver, PTL DEF Spec

-----------------------------------------------------------------------------
(* Losses are reported                                                     *)

\* What recvFile has counted is in the file up to the last buffered write, and
\* all of it while the stream has not failed: it was flushed.
Kept ==
    (pc = "recv" /\ fn = "recvFile") =>
        /\ \A b \in taken - totalReceived + 1 .. taken - Direct + 1 : b \in Range(outFile.file)
        /\ ~outFile.bad =>
              /\ outFile.pend = <<>>
              /\ \A b \in taken - totalReceived + 1 .. taken : b \in Range(outFile.file)

\* What is left of SuccessIsSaved, since the last flush() is not tested: when
\* recvFile returns 0, its file lacks at most the end that one buffered write
\* holds; an earlier failure is always reported.
LosesOnlyEnd ==
    (pc = "idle" /\ results # <<>> /\ Last(results) = 0 /\ fn = "recvFile") =>
        \A b \in taken - totalReceived + 1 .. taken - Direct + 1 :
            b \in Range(outFile.file)

LossInv == Kept /\ LosesOnlyEnd

LEMMA InitLoss == Init => LossInv
  BY DEF Init, LossInv, Kept, LosesOnlyEnd

LEMMA StepLoss ==
    ASSUME ReceiverInv, LossInv, [Next]_vars PROVE LossInv'
  <1>t. TypeOK /\ (pc # "idle" => This <= Len(Ends)) /\ Kept /\ LosesOnlyEnd
    BY DEF ReceiverInv, LossInv
  <1>a. /\ results \in Seq(-6..0) /\ outFile \in Streams(1..Total)
        /\ Total \in Nat /\ sent \in Nat /\ sent <= Total /\ taken \in Nat
        /\ Direct \in Nat /\ Direct > 0
    BY <1>t, TotalIsNat, DirectAssumption DEF TypeOK, Streams
  <1>b. ASSUME NEW r \in -6..0, Return(r), r # 0
        PROVE  LossInv'
    <2>1. pc' = "idle" /\ Last(results') = r
      BY <1>a, <1>b, ReturnFacts DEF Return
    <2> QED
      BY <1>b, <2>1 DEF LossInv, Kept, LosesOnlyEnd
  <1>1. ASSUME NEW f \in Function, NEW t \in Timeouts, Call(f, t)
        PROVE  LossInv'
    <2>1. pc' = "open" \/ Return(-4)
      BY <1>1 DEF Call
    <2> QED
      BY <1>b, <2>1 DEF LossInv, Kept, LosesOnlyEnd
  <1>2. ASSUME Open
        PROVE  LossInv'
    <2>1. \/ outFile' = Opened /\ pc' = "recv" /\ totalReceived' = 0 /\ taken' = taken
          \/ Return(-1)
      BY <1>2 DEF Open
    <2>2. CASE outFile' = Opened /\ pc' = "recv" /\ totalReceived' = 0 /\ taken' = taken
      <3>1. Opened.pend = <<>>
        BY DEF Opened
      <3> QED
        BY <1>a, <2>2, <3>1 DEF LossInv, Kept, LosesOnlyEnd
    <2> QED
      BY <1>b, <2>1, <2>2
  <1>3. ASSUME NEW n \in 1..BufferSize, Recv(n)
        PROVE  LossInv'
    <2>1. n \in Nat /\ n > 0 /\ taken + n <= sent /\ pc = "recv"
      BY <1>3, ReceiverAssumption DEF Recv
    <2>2. taken + 1 .. taken + n \subseteq 1..Total
      BY <1>a, <2>1
    <2>3. /\ taken' = taken + n
          /\ UNCHANGED callVars
          /\ \/ totalReceived' = totalReceived + n /\ UNCHANGED <<pc, results>>
             \/ totalReceived' = totalReceived /\ Return(-3)
          /\ fn = "recvFile" /\ pc' = "recv" =>
                \E s \in Written(outFile, Chunk(n)) : ~s.bad /\ outFile' \in Flushed(s)
      BY <1>3, <1>a, <2>2, RecvFacts
    <2>4. CASE UNCHANGED <<pc, results>> /\ totalReceived' = totalReceived + n
      <3>1. CASE fn = "recvFile"
        <4>1. PICK s \in Written(outFile, Chunk(n)) : ~s.bad /\ outFile' \in Flushed(s)
          BY <2>1, <2>3, <2>4, <3>1
        <4>2. ~outFile.bad
          BY <4>1, Zenon DEF Written
        <4>3. outFile.pend = <<>>
              /\ \A b \in taken - totalReceived + 1 .. taken : b \in Range(outFile.file)
          BY <1>t, <2>1, <3>1, <4>2 DEF Kept
        <4>4. /\ Chunk(n) \in Seq(1..Total) /\ Len(Chunk(n)) = n
              /\ Range(Chunk(n)) = taken + 1 .. taken + n
          <5>1. /\ Chunk(n) \in Seq(taken + 1 .. taken + n) /\ Len(Chunk(n)) = n
                /\ Range(Chunk(n)) = taken + 1 .. taken + n
            BY <1>a, <2>1, ChunkFacts
          <5> QED
            BY <2>2, <5>1, SeqWider
        <4>5. /\ Range(outFile.file) \subseteq Range(outFile'.file)
              /\ ~outFile'.bad => /\ outFile'.pend = <<>>
                                  /\ Range(Chunk(n)) \subseteq Range(outFile'.file)
              /\ n >= Direct => Range(Chunk(n)) \subseteq Range(outFile'.file)
          BY <1>a, <4>1, <4>2, <4>3, <4>4, WriteFlush
        <4>6. totalReceived \in Nat
          BY <1>t, <2>1, CallFacts DEF TypeOK
        <4>7. Range(Chunk(n)) \subseteq Range(outFile'.file) =>
                 \A b \in taken' - totalReceived' + 1 .. taken' : b \in Range(outFile'.file)
          <5> SUFFICES ASSUME Range(Chunk(n)) \subseteq Range(outFile'.file),
                              NEW b \in taken' - totalReceived' + 1 .. taken'
                       PROVE  b \in Range(outFile'.file)
            OBVIOUS
          <5>1. b \in taken - totalReceived + 1 .. taken \/ b \in taken + 1 .. taken + n
            BY <1>a, <2>1, <2>3, <2>4, <4>6
          <5> QED
            BY <4>3, <4>4, <4>5, <5>1
        <4>8. \A b \in taken' - totalReceived' + 1 .. taken' - Direct + 1 :
                 b \in Range(outFile'.file)
          <5>1. CASE n >= Direct
            <6>1. \A b \in taken' - totalReceived' + 1 .. taken' - Direct + 1 :
                     b \in taken' - totalReceived' + 1 .. taken'
              BY <1>a, <2>1, <2>3, <2>4, <4>6
            <6> QED
              BY <4>5, <4>7, <5>1, <6>1
          <5>2. CASE ~(n >= Direct)
            <6>1. \A b \in taken' - totalReceived' + 1 .. taken' - Direct + 1 :
                     b \in taken - totalReceived + 1 .. taken
              BY <1>a, <2>1, <2>3, <2>4, <4>6, <5>2
            <6> QED
              BY <4>3, <4>5, <6>1
          <5> QED
            BY <5>1, <5>2
        <4> QED
          BY <2>1, <2>4, <4>5, <4>7, <4>8 DEF LossInv, Kept, LosesOnlyEnd
      <3>2. CASE fn # "recvFile"
        BY <2>1, <2>3, <2>4, <3>2 DEF LossInv, Kept, LosesOnlyEnd, callVars
      <3> QED
        BY <3>1, <3>2
    <2> QED
      BY <1>b, <2>3, <2>4
  <1>4. ASSUME NEW r \in {-6, -5, -2}, Finish(r)
        PROVE  LossInv'
    BY <1>b, <1>4 DEF Finish
  <1>5. ASSUME Complete
        PROVE  LossInv'
    <2>1. /\ pc = "recv" /\ outFile' \in Closed(outFile) /\ pc' = "idle"
          /\ UNCHANGED <<fn, totalReceived, taken>>
      BY <1>5 DEF Complete, Close, Return, callVars
    <2>2. Range(outFile.file) \subseteq Range(outFile'.file)
      BY <1>a, <2>1, ClosedKeeps
    <2> QED
      BY <1>t, <2>1, <2>2 DEF LossInv, Kept, LosesOnlyEnd
  <1>6. ASSUME PeerSend \/ PeerClose \/ UNCHANGED vars
        PROVE  LossInv'
    <2>1. UNCHANGED <<pc, fn, outFile, totalReceived, results, taken>>
      BY <1>6 DEF PeerSend, PeerClose, vars, callVars, fileVars
    <2> QED
      BY <1>t, <2>1 DEF LossInv, Kept, LosesOnlyEnd
  <1> QED
    BY <1>1, <1>2, <1>3, <1>4, <1>5, <1>6, Steps

\* When recvFile returns 0 its file lacks at most what the last buffered write
\* held: every earlier failure was reported.  That the file is whole, as
\* utils.hpp:62-65 has it, is not so (utils.cpp:86).
THEOREM LosesOnlyTheEnd == Spec => []LosesOnlyEnd
  <1>1. LossInv => LosesOnlyEnd
    BY DEF LossInv
  <1>2. ReceiverInv /\ LossInv /\ [Next]_vars => LossInv'
    BY StepLoss
  <1> QED
    BY <1>1, <1>2, InitLoss, InitReceiver, StepReceiver, PTL DEF Spec

=============================================================================
