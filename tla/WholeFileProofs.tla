--------------------------- MODULE WholeFileProofs ---------------------------
(***************************************************************************)
(* Theorems about WholeFile, for files of any size, blocks and buffers of  *)
(* any size, an int of any width and any number of calls.                  *)
(***************************************************************************)
EXTENDS WholeFile, SequenceTheorems, TLAPS

\* s is the beginning of what the c-th call was given.
Version(s, c) == s \in Seq(FileByte) /\ \A i \in 1..Len(s) : s[i] = <<c, i>>

Stream == [file : Seq(FileByte), pend : Seq(FileByte), bad : BOOLEAN]

LEMMA BytesVersion ==
    ASSUME NEW c \in 0..Calls, NEW n \in Nat
    PROVE  Version(Data(c, n), c) /\ Len(Data(c, n)) = n
  <1>1. \A i \in 1..n : <<c, i>> \in FileByte
    BY DEF FileByte
  <1>2. Data(c, n) \in [1..n -> FileByte]
    BY <1>1 DEF Data
  <1>3. Data(c, n) \in Seq(FileByte)
    BY <1>2, SeqDef
  <1>4. DOMAIN Data(c, n) = 1..n
    BY DEF Data
  <1>5. Len(Data(c, n)) = n
    BY <1>3, <1>4, LenProperties
  <1>6. \A i \in 1..n : Data(c, n)[i] = <<c, i>>
    BY DEF Data
  <1> QED
    BY <1>3, <1>5, <1>6 DEF Version

LEMMA PrefixVersion ==
    ASSUME NEW c, NEW s, Version(s, c), NEW p \in Prefixes(s)
    PROVE  Version(p, c) /\ IsPrefix(p, s) /\ Len(p) <= Len(s)
  <1>1. PICK l \in 0..Len(s) : p = SubSeq(s, 1, l)
    BY DEF Prefixes
  <1>2. s \in Seq(FileByte) /\ Len(s) \in Nat
    BY DEF Version
  <1>3. \A i \in 1..l : s[i] \in FileByte
    BY <1>2
  <1>4. p \in Seq(FileByte) /\ Len(p) = l /\ \A i \in 1..l : p[i] = s[i]
    BY <1>1, <1>2
  <1>5. SubSeq(p, 1, Len(p)) = p
    BY <1>4, SubSeqFull
  <1> QED
    BY <1>1, <1>2, <1>4, <1>5 DEF Version, IsPrefix

\* What the disturbance of a reader amounts to.
LEMMA Disturbed ==
    ASSUME WholeTypeOK, Disturb
    PROVE  torn' \in BOOLEAN /\ (~torn' => ~torn /\ stream'.file = stream.file)
  BY DEF WholeTypeOK, Disturb

-----------------------------------------------------------------------------
(* The writer                                                              *)

\* Behind the one write of a call everything is in the file, or lost and the
\* stream bad, or everything is in the stream's buffer.
Streamed ==
    \/ stream.pend = <<>> /\ (stream.bad \/ stream.file = Data(call, length))
    \/ length < Direct /\ stream.file = <<>> /\ stream.pend = Data(call, length)

WriterInv ==
    /\ Version(stream.file, call)
    /\ writer = "write" => stream = Opened
    /\ writer \in {"test", "close"} => Streamed
    /\ writer = "test" => wfn = "dumpToFile"
    /\ (writer = "close" /\ wfn = "dumpToFile") => ~stream.bad

\* The file that an empty stream has after one write.
LEMMA WrittenOnce ==
    ASSUME NEW c \in 0..Calls, NEW n \in Nat, NEW s \in Written(Opened, Data(c, n))
    PROVE  /\ s \in Stream
           /\ Version(s.file, c)
           /\ \/ s.pend = <<>> /\ (s.bad \/ s.file = Data(c, n))
              \/ n < Direct /\ s.file = <<>> /\ s.pend = Data(c, n)
  <1> DEFINE b == Data(c, n)
  <1>1. Version(b, c) /\ Len(b) = n /\ b \in Seq(FileByte)
    BY BytesVersion DEF Version
  <1>2. <<>> \in Seq(FileByte) /\ Opened \in Stream /\ Version(<<>>, c)
    BY DEF Opened, Stream, Version
  <1> HIDE DEF b
  <1>3. <<>> \o b = b /\ <<>> \o <<>> \o b = b
    BY <1>1, <1>2, ConcatEmptySeq
  <1>4. CASE n < Direct
    <2>1. s = [Opened EXCEPT !.pend = <<>> \o b]
      BY <1>1, <1>4 DEF Written, Opened, b
    <2> QED
      BY <2>1, <1>1, <1>2, <1>3, <1>4 DEF Opened, Stream, b
  <1>5. CASE ~(n < Direct)
    <2>1. \/ s = [Opened EXCEPT !.file = <<>> \o <<>> \o b, !.pend = <<>>]
          \/ \E p \in Partial(<<>> \o b) : s = [Opened EXCEPT !.file = <<>> \o p, !.bad = TRUE]
      BY <1>1, <1>5 DEF Written, Opened, b
    <2>2. CASE s = [Opened EXCEPT !.file = <<>> \o <<>> \o b, !.pend = <<>>]
      BY <2>2, <1>1, <1>2, <1>3 DEF Opened, Stream, b
    <2>3. ASSUME NEW p \in Partial(<<>> \o b), s = [Opened EXCEPT !.file = <<>> \o p, !.bad = TRUE]
          PROVE  s \in Stream /\ Version(s.file, c) /\ s.pend = <<>> /\ s.bad
      <3>1. p \in Prefixes(b)
        BY <2>3, <1>3 DEF Partial
      <3>2. Version(p, c)
        BY <3>1, <1>1, PrefixVersion
      <3>3. <<>> \o p = p
        BY <3>2, ConcatEmptySeq DEF Version
      <3> QED
        BY <2>3, <3>2, <3>3, <1>2 DEF Opened, Stream, Version
    <2> QED
      BY <2>1, <2>2, <2>3 DEF b
  <1> QED
    BY <1>4, <1>5

\* What close() leaves of a stream that has seen one write.
LEMMA ClosedOnce ==
    ASSUME WholeTypeOK, WriterInv, Streamed, NEW s \in Closed(stream)
    PROVE  /\ s \in Stream
           /\ Version(s.file, call)
           /\ ~stream.bad => \/ s.file = Data(call, length)
                             \/ length < Direct /\ IsPrefix(s.file, Data(call, length))
  <1>1. PICK p \in Prefixes(stream.pend) : s = [stream EXCEPT !.file = @ \o p]
    BY DEF Closed
  <1>2. /\ stream \in Stream /\ call \in 0..Calls /\ length \in Nat
        /\ <<>> \in Seq(FileByte) /\ Version(stream.file, call)
    BY WholeFileAssumption DEF WholeTypeOK, Stream, WriterInv
  <1>3. Version(Data(call, length), call)
    BY <1>2, BytesVersion
  <1>4. CASE stream.pend = <<>> /\ (stream.bad \/ stream.file = Data(call, length))
    <2>1. Version(<<>>, call) /\ Len(<<>>) = 0
      BY <1>2 DEF Version
    <2>p. p \in Prefixes(<<>>)
      BY <1>1, <1>4
    <2>2. Version(p, call) /\ Len(p) <= 0
      BY <2>1, <2>p, PrefixVersion
    <2>3. p = <<>>
      BY <2>2, EmptySeq, LenProperties DEF Version
    <2>4. stream.file \o <<>> = stream.file
      BY <1>2, ConcatEmptySeq DEF Version
    <2>5. s.file = stream.file /\ s \in Stream
      BY <1>1, <1>2, <2>3, <2>4 DEF Stream
    <2> QED
      BY <2>5, <1>2, <1>4
  <1>5. CASE length < Direct /\ stream.file = <<>> /\ stream.pend = Data(call, length)
    <2>1. Version(p, call) /\ IsPrefix(p, Data(call, length))
      BY <1>1, <1>3, <1>5, PrefixVersion
    <2>2. <<>> \o p = p
      BY <2>1, ConcatEmptySeq DEF Version
    <2>3. s.file = p /\ s \in Stream
      BY <1>1, <1>2, <1>5, <2>1, <2>2 DEF Stream, Version
    <2> QED
      BY <2>1, <2>3, <1>5
  <1> QED
    BY <1>4, <1>5 DEF Streamed

\* The writer's own invariant, step by step; the reader changes nothing of it.
LEMMA StepWriter == WholeTypeOK /\ WriterInv /\ [WholeNext]_wholeVars => WriterInv'
  <1> SUFFICES ASSUME WholeTypeOK, WriterInv, [WholeNext]_wholeVars
               PROVE  WriterInv'
    OBVIOUS
  <1>t. /\ stream \in Stream /\ call \in 0..Calls /\ length \in Nat /\ Sizes \subseteq Nat
        /\ <<>> \in Seq(FileByte) /\ Calls \in Nat
    BY WholeFileAssumption DEF WholeTypeOK, Stream
  <1>1. ASSUME NEW n \in Sizes, NEW f \in {"writeStringFile", "dumpToFile"}, Write(f, n)
        PROVE  WriterInv'
    <2>1. CASE stream' = Opened /\ writer' = "write"
      <3>1. Version(stream'.file, call')
        BY <2>1, <1>t DEF Opened, Version
      <3> QED
        BY <2>1, <3>1 DEF WriterInv
    <2>2. CASE UNCHANGED <<writer, call, stream>>
      BY <2>2, <1>1 DEF WriterInv, Write
    <2> QED
      BY <1>1, <2>1, <2>2 DEF Write
  <1>2. ASSUME WriteData PROVE WriterInv'
    <2>1. stream' \in Written(Opened, Data(call, length)) /\ call' = call /\ length' = length /\ wfn' = wfn
      BY <1>2 DEF WriteData, WriterInv
    <2>2. Version(stream'.file, call') /\ Streamed'
      BY <2>1, <1>t, WrittenOnce DEF Streamed
    <2>3. writer' = IF wfn = "dumpToFile" THEN "test" ELSE "close"
      BY <1>2 DEF WriteData
    <2> QED
      BY <2>1, <2>2, <2>3 DEF WriterInv
  <1>3. ASSUME Test PROVE WriterInv'
    <2>1. Streamed /\ call' = call /\ length' = length /\ wfn' = wfn
      BY <1>3 DEF Test, WriterInv
    <2>2. CASE stream.bad
      <3>1. stream' \in Closed(stream) /\ writer' = "idle"
        BY <2>2, <1>3 DEF Test
      <3>2. Version(stream'.file, call)
        BY <2>1, <3>1, ClosedOnce
      <3> QED
        BY <2>1, <3>1, <3>2 DEF WriterInv
    <2>3. CASE ~stream.bad
      <3>1. stream' = stream /\ writer' = "close"
        BY <2>3, <1>3 DEF Test
      <3>2. Version(stream'.file, call') /\ Streamed'
        BY <2>1, <3>1 DEF WriterInv, Streamed
      <3>3. ~stream'.bad
        BY <2>3, <3>1
      <3> QED
        BY <3>1, <3>2, <3>3 DEF WriterInv
    <2> QED
      BY <2>2, <2>3
  <1>4. ASSUME WriteReturn PROVE WriterInv'
    <2>1. Streamed /\ stream' \in Closed(stream) /\ writer' = "idle" /\ call' = call
      BY <1>4 DEF WriteReturn, WriterInv
    <2>2. Version(stream'.file, call)
      BY <2>1, ClosedOnce
    <2> QED
      BY <2>1, <2>2 DEF WriterInv
  <1>5. ASSUME UNCHANGED writerVars PROVE WriterInv'
    BY <1>5 DEF writerVars, WriterInv, Streamed
  <1>6. ASSUME NEW f \in {"readStringFile", "ReadWholeFile"}, Read(f) PROVE WriterInv'
    BY <1>5, <1>6 DEF Read
  <1>7. ASSUME ReaderStep \/ ReadFails PROVE WriterInv'
    BY <1>5, <1>7 DEF ReaderStep, ReadBlock, ReadEnd, ReadFails, ReadReturn
  <1>8. ASSUME UNCHANGED wholeVars PROVE WriterInv'
    BY <1>5, <1>8 DEF wholeVars
  <1> QED
    BY <1>1, <1>2, <1>3, <1>4, <1>6, <1>7, <1>8 DEF WholeNext, WriterStep

\* What is left of SuccessIsWritten for dumpToFile, which does not test close():
\* success is reported only of data that is in the file, or of which the end was
\* still in the buffer.
ReportsLoss ==
    (writer = "idle" /\ call > 0 /\ wfn = "dumpToFile" /\ written) =>
        \/ stream.file = Data(call, length)
        \/ length < Direct /\ IsPrefix(stream.file, Data(call, length))

LEMMA StepReports == WholeTypeOK /\ WriterInv /\ ReportsLoss /\ [WholeNext]_wholeVars => ReportsLoss'
  <1> SUFFICES ASSUME WholeTypeOK, WriterInv, ReportsLoss, [WholeNext]_wholeVars,
                      writer' = "idle", call' > 0, wfn' = "dumpToFile", written'
               PROVE  \/ stream'.file = Data(call', length')
                      \/ length' < Direct /\ IsPrefix(stream'.file, Data(call', length'))
    BY DEF ReportsLoss
  <1> DEFINE Told ==
               \/ stream'.file = Data(call', length')
               \/ length' < Direct /\ IsPrefix(stream'.file, Data(call', length'))
  <1>1. ASSUME NEW n \in Sizes, NEW f \in {"writeStringFile", "dumpToFile"}, Write(f, n) PROVE FALSE
    BY <1>1 DEF Write
  <1>2. ASSUME WriteData PROVE FALSE
    BY <1>2 DEF WriteData
  <1>3. ASSUME Test PROVE FALSE
    BY <1>3 DEF Test
  <1>4. ASSUME WriteReturn PROVE Told
    <2>1. Streamed /\ stream' \in Closed(stream) /\ call' = call /\ length' = length /\ wfn' = wfn
      BY <1>4 DEF WriteReturn, WriterInv
    <2>2. ~stream.bad
      BY <2>1, <1>4 DEF WriteReturn, WriterInv
    <2> QED
      BY <2>1, <2>2, ClosedOnce
  <1>5. ASSUME UNCHANGED writerVars PROVE Told
    BY <1>5 DEF writerVars, ReportsLoss
  <1>6. ASSUME NEW f \in {"readStringFile", "ReadWholeFile"}, Read(f) PROVE Told
    BY <1>5, <1>6 DEF Read
  <1>7. ASSUME ReaderStep \/ ReadFails PROVE Told
    BY <1>5, <1>7 DEF ReaderStep, ReadBlock, ReadEnd, ReadFails, ReadReturn
  <1>8. ASSUME UNCHANGED wholeVars PROVE Told
    BY <1>5, <1>8 DEF wholeVars
  <1> QED
    BY <1>1, <1>2, <1>3, <1>4, <1>6, <1>7, <1>8 DEF WholeNext, WriterStep

-----------------------------------------------------------------------------
(* Types                                                                   *)

\* The remainder of an integer division.
LEMMA Remainder ==
    ASSUME NEW n \in Nat, NEW m \in Nat \ {0}
    PROVE  n % m \in 0..(m - 1) /\ (n < m => n % m = n)
  OBVIOUS

\* A size as an int: itself, as long as an int can say it.
LEMMA IntOfSize ==
    ASSUME NEW n \in Nat
    PROVE  ToInt(n) \in -(IntMax + 1) .. IntMax /\ (n <= IntMax => ToInt(n) = n)
  <1> DEFINE w == 2 * (IntMax + 1)
             m == n % w
  <1>1. IntMax \in Nat /\ w \in Nat \ {0} /\ w = IntMax + 1 + IntMax + 1
    BY WholeFileAssumption
  <1> HIDE DEF w
  <1>2. m \in 0..(w - 1) /\ (n < w => m = n)
    BY <1>1, Remainder
  <1>3. ToInt(n) = IF m <= IntMax THEN m ELSE m - w
    BY DEF ToInt, w
  <1> HIDE DEF m
  <1> QED
    BY <1>1, <1>2, <1>3

LEMMA InitTypes == WholeInit => WholeTypeOK /\ WriterInv
  <1> SUFFICES ASSUME WholeInit PROVE WholeTypeOK /\ WriterInv
    OBVIOUS
  <1>1. PICK n \in Sizes : length = n /\ stream = [Opened EXCEPT !.file = Data(0, n)]
    BY DEF WholeInit
  <1>2. /\ n \in Nat /\ 0 \in 0..Calls /\ 0 \in -(IntMax + 1) .. IntMax
        /\ <<>> \in Seq(FileByte)
    BY WholeFileAssumption
  <1>3. Version(Data(0, n), 0)
    BY <1>2, BytesVersion
  <1>4. stream \in Stream /\ stream.file = Data(0, n)
    BY <1>1, <1>2, <1>3 DEF Opened, Stream, Version
  <1>5. WholeTypeOK
    BY <1>1, <1>2, <1>4 DEF WholeInit, WholeTypeOK, Stream
  <1>6. WriterInv
    BY <1>3, <1>4 DEF WholeInit, WriterInv
  <1> QED
    BY <1>5, <1>6

\* What the reader takes from the file.
LEMMA BlockRead ==
    ASSUME WholeTypeOK, WriterInv, NEW n \in 1..Block, ReadBlock(n)
    PROVE  /\ buffer' \in Seq(FileByte) /\ Len(buffer') = Len(buffer) + n
           /\ Len(buffer') <= Len(stream.file)
           /\ \A i \in 1..Len(buffer) : buffer'[i] = buffer[i]
           /\ \A i \in (Len(buffer) + 1) .. Len(buffer') :
                 buffer'[i] = stream.file[i] /\ buffer'[i] = <<call, i>>
  <1> DEFINE part == SubSeq(stream.file, Len(buffer) + 1, Len(buffer) + n)
  <1>1. buffer \in Seq(FileByte) /\ stream.file \in Seq(FileByte) /\ n \in Nat /\ n > 0
    BY WholeFileAssumption DEF WholeTypeOK
  <1>2. Len(buffer) \in Nat /\ Len(stream.file) \in Nat /\ Len(buffer) + n <= Len(stream.file)
    BY <1>1, LenProperties DEF ReadBlock
  <1>3. \A i \in (Len(buffer) + 1) .. (Len(buffer) + n) : stream.file[i] \in FileByte
    BY <1>1, <1>2
  <1>4. /\ part \in Seq(FileByte) /\ Len(part) = n
        /\ \A i \in 1..n : part[i] = stream.file[Len(buffer) + i]
    BY <1>1, <1>2, <1>3
  <1>5. buffer' = buffer \o part
    BY DEF ReadBlock, Kept
  <1> HIDE DEF part
  <1>6. /\ buffer' \in Seq(FileByte) /\ Len(buffer') = Len(buffer) + n
        /\ \A i \in 1 .. Len(buffer) + n :
              buffer'[i] = IF i <= Len(buffer) THEN buffer[i] ELSE part[i - Len(buffer)]
    BY <1>1, <1>4, <1>5, ConcatProperties
  <1>7. \A i \in 1..Len(stream.file) : stream.file[i] = <<call, i>>
    BY DEF WriterInv, Version
  <1>8. ASSUME NEW i \in (Len(buffer) + 1) .. Len(buffer')
        PROVE  buffer'[i] = stream.file[i] /\ buffer'[i] = <<call, i>>
    <2>1. i - Len(buffer) \in 1..n /\ Len(buffer) + (i - Len(buffer)) = i /\ i \in 1..Len(stream.file)
      BY <1>1, <1>2, <1>6
    <2> QED
      BY <2>1, <1>1, <1>2, <1>4, <1>6, <1>7
  <1>9. \A i \in 1..Len(buffer) : buffer'[i] = buffer[i]
    BY <1>1, <1>2, <1>6
  <1> QED
    BY <1>2, <1>6, <1>8, <1>9

LEMMA StepTypes == WholeTypeOK /\ WriterInv /\ [WholeNext]_wholeVars => WholeTypeOK'
  <1> SUFFICES ASSUME WholeTypeOK, WriterInv, [WholeNext]_wholeVars
               PROVE  WholeTypeOK'
    OBVIOUS
  <1>t. /\ stream \in Stream /\ call \in 0..Calls /\ length \in Nat /\ Sizes \subseteq Nat
        /\ <<>> \in Seq(FileByte) /\ Opened \in Stream
        /\ Calls \in Nat /\ IntMax \in Nat /\ -1 \in -(IntMax + 1) .. IntMax
        /\ 0 \in -(IntMax + 1) .. IntMax
    BY WholeFileAssumption DEF WholeTypeOK, Stream, Opened
  <1>1. ASSUME NEW n \in Sizes, NEW f \in {"writeStringFile", "dumpToFile"}, Write(f, n)
        PROVE  WholeTypeOK'
    <2>1. torn' \in BOOLEAN
      BY <1>1, Disturbed DEF Write
    <2>2. stream' \in Stream /\ call' \in 0..Calls /\ writer' \in {"idle", "write"}
      BY <1>1, <1>t DEF Write, WholeTypeOK
    <2>3. written' = written \/ written' = FALSE
      BY <1>1 DEF Write
    <2>4. written' \in BOOLEAN
      BY <2>3 DEF WholeTypeOK
    <2> QED
      BY <1>1, <2>1, <2>2, <2>4 DEF Write, WholeTypeOK, readerVars, Stream
  <1>2. ASSUME WriteData PROVE WholeTypeOK'
    <2>1. torn' \in BOOLEAN
      BY <1>2, Disturbed DEF WriteData
    <2>2. stream' \in Stream
      BY <1>2, <1>t, WrittenOnce DEF WriteData, WriterInv
    <2>3. writer' \in {"test", "close"}
      BY <1>2 DEF WriteData
    <2> QED
      BY <1>2, <2>1, <2>2, <2>3 DEF WriteData, WholeTypeOK, readerVars, Stream
  <1>3. ASSUME Test PROVE WholeTypeOK'
    <2>1. torn' \in BOOLEAN
      BY <1>3, Disturbed DEF Test
    <2>2. stream' \in Stream /\ writer' \in {"idle", "close"} /\ written' \in BOOLEAN
      <3>1. CASE stream.bad
        <4>1. stream' \in Closed(stream) /\ writer' = "idle" /\ written' = FALSE
          BY <3>1, <1>3 DEF Test
        <4>2. stream' \in Stream
          BY <4>1, <1>3, ClosedOnce DEF Test, WriterInv
        <4> QED
          BY <4>1, <4>2
      <3>2. CASE ~stream.bad
        BY <3>2, <1>3, <1>t DEF Test, WholeTypeOK
      <3> QED
        BY <3>1, <3>2
    <2> QED
      BY <1>3, <2>1, <2>2 DEF Test, WholeTypeOK, readerVars, Stream
  <1>4. ASSUME WriteReturn PROVE WholeTypeOK'
    <2>1. torn' \in BOOLEAN
      BY <1>4, Disturbed DEF WriteReturn
    <2>2. stream' \in Stream
      BY <1>4, ClosedOnce DEF WriteReturn, WriterInv
    <2>3. written' \in BOOLEAN /\ writer' = "idle"
      BY <1>4 DEF WriteReturn
    <2> QED
      BY <1>4, <2>1, <2>2, <2>3 DEF WriteReturn, WholeTypeOK, readerVars, Stream
  <1>6. ASSUME NEW f \in {"readStringFile", "ReadWholeFile"}, Read(f) PROVE WholeTypeOK'
    BY <1>6, <1>t DEF Read, Cleared, WholeTypeOK, writerVars
  <1>7. ASSUME NEW n \in 1..Block, ReadBlock(n) PROVE WholeTypeOK'
    <2>1. buffer' \in Seq(FileByte)
      BY <1>7, BlockRead
    <2> QED
      BY <1>7, <2>1 DEF ReadBlock, WholeTypeOK, writerVars
  <1>8. ASSUME ReadEnd PROVE WholeTypeOK'
    <2>1. Len(buffer) \in Nat
      BY LenProperties DEF WholeTypeOK
    <2>2. ToInt(Len(buffer)) \in -(IntMax + 1) .. IntMax
      BY <2>1, IntOfSize
    <2> QED
      BY <1>8, <1>t, <2>2 DEF ReadEnd, ReadReturn, WholeTypeOK, writerVars
  <1>9. ASSUME ReadFails PROVE WholeTypeOK'
    BY <1>9, <1>t DEF ReadFails, ReadReturn, ErrorResult, WholeTypeOK, writerVars
  <1>10. ASSUME UNCHANGED wholeVars PROVE WholeTypeOK'
    BY <1>10 DEF wholeVars, writerVars, readerVars, WholeTypeOK
  <1> QED
    BY <1>1, <1>2, <1>3, <1>4, <1>6, <1>7, <1>8, <1>9, <1>10 DEF WholeNext, WriterStep, ReaderStep

FileInv == WholeTypeOK /\ WriterInv

LEMMA FileInvariant == (WholeInit => FileInv) /\ (FileInv /\ [WholeNext]_wholeVars => FileInv')
  BY InitTypes, StepTypes, StepWriter DEF FileInv

\* The types hold in every state.
THEOREM TypeCorrect == WholeSpec => []WholeTypeOK
  <1>1. FileInv => WholeTypeOK
    BY DEF FileInv
  <1> QED
    BY <1>1, FileInvariant, PTL DEF WholeSpec

\* dumpToFile reports every loss, except of data that its stream could buffer:
\* "-1 if there is an error opening the file or writing to it" (utils.hpp:201)
\* holds up to the close().  Nothing like it holds of writeStringFile.
THEOREM LossIsReported == WholeSpec => []ReportsLoss
  <1>1. WholeInit => ReportsLoss
    BY DEF WholeInit, ReportsLoss
  <1>2. FileInv /\ ReportsLoss /\ [WholeNext]_wholeVars => ReportsLoss'
    BY StepReports DEF FileInv
  <1> QED
    BY <1>1, <1>2, FileInvariant, PTL DEF WholeSpec

-----------------------------------------------------------------------------
(* The reader                                                              *)

\* What has been read are bytes at their places, of calls up to the present, no
\* older one behind a newer; while nothing disturbs the reader, it has the
\* beginning of the file.
InOrder ==
    /\ \A i \in 1..Len(buffer) : buffer[i][2] = i /\ buffer[i][1] \in 0..call
    /\ \A i, j \in 1..Len(buffer) : i < j => buffer[i][1] <= buffer[j][1]

Undisturbed ==
    (reader = "read" /\ ~torn) =>
        /\ Len(buffer) <= Len(stream.file)
        /\ \A i \in 1..Len(buffer) : buffer[i] = stream.file[i]

GotTheFile == (reader = "done" /\ ~torn /\ ~failed) => buffer = stream.file

NotFailed == reader = "read" => ~failed

ReaderInv == InOrder /\ Undisturbed /\ GotTheFile /\ NotFailed

\* A step of the writer: the file changes or the reader is undisturbed.
LEMMA WriterMoves ==
    ASSUME WholeTypeOK, WholeNext, ~UNCHANGED writerVars
    PROVE  UNCHANGED readerVars /\ Disturb /\ call' \in {call, call + 1}
  <1>1. CASE \E n \in Sizes, f \in {"writeStringFile", "dumpToFile"} : Write(f, n)
    BY <1>1 DEF Write
  <1>2. CASE WriteData
    BY <1>2 DEF WriteData, readerVars
  <1>3. CASE Test
    BY <1>3 DEF Test, readerVars
  <1>4. CASE WriteReturn
    BY <1>4 DEF WriteReturn, readerVars
  <1>5. ~ReaderStep /\ ~ReadFails /\ ~\E f \in {"readStringFile", "ReadWholeFile"} : Read(f)
    BY DEF ReaderStep, ReadBlock, ReadEnd, ReadFails, ReadReturn, Read
  <1> QED
    BY <1>1, <1>2, <1>3, <1>4, <1>5 DEF WholeNext, WriterStep

LEMMA StepReader == FileInv /\ ReaderInv /\ [WholeNext]_wholeVars => ReaderInv'
  <1> SUFFICES ASSUME FileInv, ReaderInv, [WholeNext]_wholeVars
               PROVE  ReaderInv'
    OBVIOUS
  <1>t. /\ WholeTypeOK /\ WriterInv /\ buffer \in Seq(FileByte) /\ stream.file \in Seq(FileByte)
        /\ Len(buffer) \in Nat /\ Len(stream.file) \in Nat /\ call \in Nat
    BY WholeFileAssumption DEF FileInv, WholeTypeOK
  <1>1. ASSUME WholeNext, ~UNCHANGED writerVars PROVE ReaderInv'
    <2>1. UNCHANGED readerVars /\ Disturb /\ call' \in {call, call + 1}
      BY <1>1, <1>t, WriterMoves
    <2>2. /\ reader' = reader /\ buffer' = buffer /\ failed' = failed
          /\ ~torn' => ~torn /\ stream'.file = stream.file
      BY <2>1, <1>t, Disturbed DEF readerVars
    <2>3. InOrder'
      <3>1. \A i \in 1..Len(buffer) : buffer[i][1] \in 0..call'
        BY <2>1, <1>t DEF ReaderInv, InOrder
      <3> QED
        BY <2>2, <3>1 DEF ReaderInv, InOrder
    <2>4. Undisturbed' /\ GotTheFile' /\ NotFailed'
      BY <2>2 DEF ReaderInv, Undisturbed, GotTheFile, NotFailed
    <2> QED
      BY <2>3, <2>4 DEF ReaderInv
  <1>2. ASSUME NEW f \in {"readStringFile", "ReadWholeFile"}, Read(f) PROVE ReaderInv'
    <2>1. /\ buffer' = <<>> /\ Len(<<>>) = 0 /\ stream' = stream /\ call' = call
          /\ \/ reader' = "read" /\ failed' = FALSE
             \/ reader' = "done" /\ failed' = TRUE
      BY <1>2 DEF Read, Cleared, writerVars
    <2> QED
      BY <2>1, <1>t DEF ReaderInv, InOrder, Undisturbed, GotTheFile, NotFailed
  <1>3. ASSUME NEW n \in 1..Block, ReadBlock(n) PROVE ReaderInv'
    <2>1. /\ buffer' \in Seq(FileByte) /\ Len(buffer') = Len(buffer) + n
          /\ Len(buffer') <= Len(stream.file)
          /\ \A i \in 1..Len(buffer) : buffer'[i] = buffer[i]
          /\ \A i \in (Len(buffer) + 1) .. Len(buffer') :
                buffer'[i] = stream.file[i] /\ buffer'[i] = <<call, i>>
      BY <1>3, <1>t, BlockRead
    <2>2. /\ reader = "read" /\ reader' = "read" /\ stream' = stream /\ call' = call
          /\ torn' = torn /\ failed' = failed /\ n \in Nat /\ n > 0
      BY <1>3, WholeFileAssumption DEF ReadBlock, writerVars
    <2>3. InOrder'
      <3>1. \A i \in 1..Len(buffer') : buffer'[i][2] = i /\ buffer'[i][1] \in 0..call
        BY <2>1, <2>2, <1>t DEF ReaderInv, InOrder
      <3>2. ASSUME NEW i \in 1..Len(buffer'), NEW j \in 1..Len(buffer'), i < j
            PROVE  buffer'[i][1] <= buffer'[j][1]
        <4>1. CASE j <= Len(buffer)
          BY <4>1, <3>2, <2>1, <2>2, <1>t DEF ReaderInv, InOrder
        <4>2. CASE j > Len(buffer)
          <5>1. buffer'[j][1] = call
            BY <4>2, <2>1, <2>2, <1>t
          <5> QED
            BY <5>1, <3>1, <1>t
        <4> QED
          BY <4>1, <4>2, <2>1, <2>2, <1>t
      <3> QED
        BY <2>2, <3>1, <3>2 DEF InOrder
    <2>4. Undisturbed'
      BY <2>1, <2>2, <1>t DEF ReaderInv, Undisturbed
    <2> QED
      BY <2>2, <2>3, <2>4 DEF ReaderInv, GotTheFile, NotFailed
  <1>4. ASSUME ReadEnd PROVE ReaderInv'
    <2>1. /\ reader = "read" /\ reader' = "done" /\ stream' = stream /\ call' = call
          /\ buffer' = buffer /\ torn' = torn /\ failed' = failed
          /\ Len(stream.file) <= Len(buffer)
      BY <1>4 DEF ReadEnd, ReadReturn, writerVars
    <2>2. ~torn => buffer = stream.file
      <3>1. ~torn => /\ Len(buffer) = Len(stream.file)
                     /\ \A i \in 1..Len(buffer) : buffer[i] = stream.file[i]
        BY <2>1, <1>t DEF ReaderInv, Undisturbed
      <3> QED
        BY <3>1, <1>t, SeqEqual
    <2> QED
      BY <2>1, <2>2 DEF ReaderInv, InOrder, Undisturbed, GotTheFile, NotFailed
  <1>5. ASSUME ReadFails PROVE ReaderInv'
    BY <1>5 DEF ReadFails, ReadReturn, writerVars, ReaderInv, InOrder, Undisturbed,
       GotTheFile, NotFailed
  <1>6. ASSUME UNCHANGED wholeVars PROVE ReaderInv'
    BY <1>6 DEF wholeVars, writerVars, readerVars, ReaderInv, InOrder, Undisturbed, GotTheFile, NotFailed
  <1>7. WholeNext /\ UNCHANGED writerVars =>
            \/ \E f \in {"readStringFile", "ReadWholeFile"} : Read(f)
            \/ ReaderStep \/ ReadFails
            \/ UNCHANGED wholeVars
    <2>1. ASSUME NEW n \in Sizes, NEW f \in {"writeStringFile", "dumpToFile"}, Write(f, n),
                 UNCHANGED writerVars
          PROVE  UNCHANGED wholeVars
      BY <2>1, <1>t DEF Write, writerVars, readerVars, wholeVars, Disturb, WholeTypeOK
    <2>2. WriterStep /\ UNCHANGED writerVars => FALSE
      BY DEF WriterStep, WriteData, Test, WriteReturn, writerVars
    <2> QED
      BY <2>1, <2>2 DEF WholeNext
  <1> QED
    BY <1>1, <1>2, <1>3, <1>4, <1>5, <1>6, <1>7 DEF ReaderStep

LEMMA InitReader == WholeInit => ReaderInv
  BY DEF WholeInit, ReaderInv, InOrder, Undisturbed, GotTheFile, NotFailed

\* However often the file is rewritten meanwhile, no reader gets bytes of an
\* older call behind those of a newer, and an undisturbed one gets the file.
THEOREM ReadsAreInOrder == WholeSpec => []ReadsInOrder
  <1>1. FileInv /\ ReaderInv => ReadsInOrder
    <2>1. FileInv => DOMAIN buffer = 1..Len(buffer)
      BY LenProperties DEF FileInv, WholeTypeOK
    <2>2. FileInv => \A i \in 1..Len(buffer) : buffer[i][1] \in 0..Calls
      BY DEF FileInv, WholeTypeOK, FileByte
    <2> QED
      BY <2>1, <2>2 DEF ReaderInv, InOrder, GotTheFile, ReadsInOrder
  <1> QED
    BY <1>1, InitReader, StepReader, FileInvariant, PTL DEF WholeSpec

LEMMA StepErrors == FileInv /\ ReaderInv /\ ErrorsTold /\ [WholeNext]_wholeVars => ErrorsTold'
  <1> SUFFICES ASSUME FileInv, ReaderInv, ErrorsTold, [WholeNext]_wholeVars,
                      reader' = "done", rfn' = "ReadWholeFile", Len(buffer') <= IntMax
               PROVE  failed' <=> returned' = -1
    BY DEF ErrorsTold
  <1>1. CASE UNCHANGED readerVars
    BY <1>1 DEF readerVars, ErrorsTold
  <1>2. ASSUME NEW f \in {"readStringFile", "ReadWholeFile"}, Read(f) PROVE FALSE
    BY <1>2 DEF Read
  <1>3. ASSUME NEW n \in 1..Block, ReadBlock(n) PROVE FALSE
    BY <1>3 DEF ReadBlock
  <1>4. CASE ReadEnd
    <2>1. Len(buffer) \in Nat /\ Len(buffer) <= IntMax
      BY <1>4, LenProperties DEF ReadEnd, ReadReturn, FileInv, WholeTypeOK
    <2>2. ToInt(Len(buffer)) = Len(buffer)
      BY <2>1, IntOfSize
    <2>3. returned' = Len(buffer) /\ failed' = FALSE
      BY <1>4, <2>2 DEF ReadEnd, ReadReturn, ReaderInv, NotFailed, FileInv, WholeTypeOK
    <2> QED
      BY <2>1, <2>3
  <1>5. CASE ReadFails
    BY <1>5 DEF ReadFails, ReadReturn, ErrorResult
  <1>6. UNCHANGED wholeVars => UNCHANGED readerVars
    BY DEF wholeVars
  <1>7. WriterStep \/ (\E n \in Sizes, f \in {"writeStringFile", "dumpToFile"} : Write(f, n))
            => UNCHANGED readerVars
    BY DEF WriterStep, WriteData, Test, WriteReturn, Write, readerVars
  <1> QED
    BY <1>1, <1>2, <1>3, <1>4, <1>5, <1>6, <1>7 DEF WholeNext, ReaderStep

\* -1 is an error and an error is -1, for files that an int can measure.
THEOREM ErrorsAreTold == WholeSpec => []ErrorsTold
  <1>1. WholeInit => ErrorsTold
    BY DEF WholeInit, ErrorsTold
  <1> QED
    BY <1>1, InitReader, StepReader, StepErrors, FileInvariant, PTL DEF WholeSpec

=============================================================================
