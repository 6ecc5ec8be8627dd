----------------------------- MODULE WholeFile -----------------------------
(***************************************************************************)
(* One file that a thread writes whole, call after call, with              *)
(* writeStringFile (linux/utils.cpp) or dumpToFile (linux/utils.hpp), and  *)
(* another thread or process reads whole with readStringFile or            *)
(* ReadWholeFile (linux/utils.cpp).  Nothing keeps the calls apart.        *)
(*                                                                         *)
(* A byte is <<call, i>>: the i-th byte that the call-th write was given.  *)
(* The file on the disk is stream.file.                                    *)
(***************************************************************************)
EXTENDS Integers, Sequences, SequencesExt, OutStream

CONSTANTS Sizes,    \* sizes of the data that calls may write
          Calls,    \* bound on the number of writing calls
          Block,    \* st_blksize, the size of one read
          IntMax    \* the largest int

ASSUME WholeFileAssumption ==
    /\ Sizes \subseteq Nat
    /\ Calls \in Nat /\ IntMax \in Nat
    /\ Block \in Nat \ {0}

VARIABLES
    writer,         \* "idle", "write", "test" or "close": where the writer is
    wfn, length,    \* the writing function called last and the size of its data
    call,           \* the writing calls so far
    stream,         \* the writer's stream with the file behind it
    written,        \* whether it told its caller that the file is written
    reader,         \* "idle", "read" or "done": where the reader is
    rfn,            \* the reading function called last
    buffer,         \* what it has read
    returned,       \* what it returned: ReadWholeFile an int, readStringFile 0
    torn, failed    \* history: the file changed, a read failed, during the call

writerVars == <<writer, wfn, length, call, stream, written>>
readerVars == <<reader, rfn, buffer, returned, failed>>
wholeVars == <<writerVars, readerVars, torn>>

Data(c, n) == [i \in 1..n |-> <<c, i>>]

\* A size_t returned as an int.
ToInt(n) == LET m == n % (2 * (IntMax + 1))
            IN  IF m <= IntMax THEN m ELSE m - 2 * (IntMax + 1)

WholeInit ==
    /\ writer = "idle" /\ wfn = "writeStringFile"
    /\ \E n \in Sizes : length = n /\ stream = [Opened EXCEPT !.file = Data(0, n)]
    /\ call = 0 /\ written = TRUE
    /\ reader = "idle" /\ rfn = "readStringFile"
    /\ buffer = <<>> /\ returned = 0
    /\ torn = FALSE /\ failed = FALSE

-----------------------------------------------------------------------------
(* The writer                                                              *)

Disturb == torn' = (torn \/ stream'.file # stream.file)

\* The file is opened, which truncates it, or cannot be opened.
Write(f, n) ==
    /\ writer = "idle"
    /\ call < Calls
    /\ wfn' = f /\ length' = n
    /\ \/ /\ stream' = Opened
          /\ writer' = "write" /\ call' = call + 1
          /\ UNCHANGED written
       \/ written' = FALSE /\ UNCHANGED <<writer, call, stream>>
    /\ Disturb
    /\ UNCHANGED readerVars

\* outFile << data, outfile.write(data)
WriteData ==
    /\ writer = "write"
    /\ stream' \in Written(stream, Data(call, length))
    /\ writer' = IF wfn = "dumpToFile" THEN "test" ELSE "close"
    /\ Disturb
    /\ UNCHANGED <<wfn, length, call, written, readerVars>>

\* dumpToFile returns -1 when the write failed; the destructor closes the file.
Test ==
    /\ writer = "test"
    /\ IF stream.bad
       THEN stream' \in Closed(stream) /\ writer' = "idle" /\ written' = FALSE
       ELSE writer' = "close" /\ UNCHANGED <<stream, written>>
    /\ Disturb
    /\ UNCHANGED <<wfn, length, call, readerVars>>

\* close(), of which the result is not looked at.  writeStringFile returns true,
\* dumpToFile the size as an int, in which -1 stands for an error.
WriteReturn ==
    /\ writer = "close"
    /\ stream' \in Closed(stream)
    /\ writer' = "idle"
    /\ written' = (wfn = "dumpToFile" => ToInt(length) # -1)
    /\ Disturb
    /\ UNCHANGED <<wfn, length, call, readerVars>>

-----------------------------------------------------------------------------
(* The reader                                                              *)

\* buffer->clear(), or a new string
Cleared == <<>>

\* readStringFile opens the file, whose failure it shows as an empty string;
\* ReadWholeFile is given a descriptor of the file that has just been opened.
Read(f) ==
    /\ reader # "read"
    /\ rfn' = f /\ buffer' = Cleared
    /\ torn' = FALSE
    /\ \/ reader' = "read" /\ failed' = FALSE /\ UNCHANGED returned
       \/ /\ f = "readStringFile"
          /\ reader' = "done" /\ failed' = TRUE /\ returned' = 0
    /\ UNCHANGED writerVars

\* Mutant of Kept: the whole block is kept, however little read() has given.
KeptBlock(part) == buffer \o [i \in 1..Block |-> IF i <= Len(part) THEN part[i] ELSE <<0, 0>>]

Kept(part) == buffer \o part

\* read() gives up to a block of what the file holds behind the bytes read.
ReadBlock(n) ==
    /\ reader = "read"
    /\ n <= Block
    /\ Len(buffer) + n <= Len(stream.file)
    /\ buffer' = Kept(SubSeq(stream.file, Len(buffer) + 1, Len(buffer) + n))
    /\ UNCHANGED <<reader, rfn, returned, failed, torn, writerVars>>

ReadReturn(r) ==
    /\ reader' = "done"
    /\ returned' = IF rfn = "ReadWholeFile" THEN r ELSE 0
    /\ UNCHANGED <<rfn, buffer, torn, writerVars>>

\* read() returns 0.
ReadEnd ==
    /\ reader = "read"
    /\ Len(stream.file) <= Len(buffer)
    /\ ReadReturn(ToInt(Len(buffer)))
    /\ UNCHANGED failed

\* Mutant of ErrorResult: no test of bytes_read behind the loop.
SizeAnyway == ToInt(Len(buffer))

ErrorResult == -1

\* read() fails; readStringFile returns what it has, as if that were all.
ReadFails ==
    /\ reader = "read"
    /\ ReadReturn(ErrorResult)
    /\ failed' = TRUE

-----------------------------------------------------------------------------
WriterStep == WriteData \/ Test \/ WriteReturn

ReaderStep == (\E n \in 1..Block : ReadBlock(n)) \/ ReadEnd

WholeNext ==
    \/ \E n \in Sizes, f \in {"writeStringFile", "dumpToFile"} : Write(f, n)
    \/ WriterStep
    \/ \E f \in {"readStringFile", "ReadWholeFile"} : Read(f)
    \/ ReaderStep
    \/ ReadFails

WholeSpec == WholeInit /\ [][WholeNext]_wholeVars

-----------------------------------------------------------------------------
(* Properties                                                              *)

FileByte == (0..Calls) \X Nat

WholeTypeOK ==
    /\ writer \in {"idle", "write", "test", "close"}
    /\ wfn \in {"writeStringFile", "dumpToFile"} /\ length \in Sizes
    /\ call \in 0..Calls
    /\ stream \in [file : Seq(FileByte), pend : Seq(FileByte), bad : BOOLEAN]
    /\ written \in BOOLEAN
    /\ reader \in {"idle", "read", "done"}
    /\ rfn \in {"readStringFile", "ReadWholeFile"}
    /\ buffer \in Seq(FileByte)
    /\ returned \in -(IntMax + 1) .. IntMax
    /\ torn \in BOOLEAN /\ failed \in BOOLEAN

\* utils.hpp says of writeStringFile: "True if the file was successfully written;
\* otherwise, false", and of dumpToFile: "Returns -1 if there is an error opening
\* the file or writing to it".  Then a call that reported no failure has left the
\* data it was given in the file.
SuccessIsWritten ==
    writer = "idle" /\ call > 0 /\ written => stream.file = Data(call, length)

\* Whoever reads while the file is rewritten gets a mixture, but one of bytes
\* at their own places, and no byte of an older call behind one of a newer;
\* when the file did not change and no read failed, it gets the file.
ReadsInOrder ==
    /\ \A i \in DOMAIN buffer : buffer[i][2] = i
    /\ \A i, j \in DOMAIN buffer : i < j => buffer[i][1] <= buffer[j][1]
    /\ reader = "done" /\ ~torn /\ ~failed => buffer = stream.file

\* ReadWholeFile returns -1 for a read that failed and for nothing else, as long
\* as the file is no larger than an int can say: -1 is also the size 2^32 - 1.
ErrorsTold ==
    (reader = "done" /\ rfn = "ReadWholeFile" /\ Len(buffer) <= IntMax) =>
        (failed <=> returned = -1)

=============================================================================
