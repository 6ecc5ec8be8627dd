------------------------------ MODULE OutStream ------------------------------
(***************************************************************************)
(* std::ofstream over a file whose writes may fail, as linux/utils.cpp and *)
(* linux/utils.hpp use it.  Small writes are buffered, and their failure   *)
(* shows only at the next flush() or close(); a write of at least Direct   *)
(* bytes goes straight to the file.  A failed stream ignores write and     *)
(* flush, but close() tries the buffered bytes once more.                  *)
(***************************************************************************)
EXTENDS Naturals, Sequences, SequencesExt

CONSTANT Direct   \* size from which a write is not buffered (libstdc++: 1024)

ASSUME DirectAssumption == Direct \in Nat \ {0}

\* A stream: the bytes in the file, the bytes buffered, and !outFile.
Opened == [file |-> <<>>, pend |-> <<>>, bad |-> FALSE]

\* What write(2) may put in the file of data before it fails.
Partial(data) == Prefixes(data) \ {data}

\* outFile.write(data): the streams that may result.
Written(s, data) ==
    IF s.bad THEN {s}
    ELSE IF Len(data) < Direct THEN {[s EXCEPT !.pend = @ \o data]}
    ELSE {[s EXCEPT !.file = @ \o s.pend \o data, !.pend = <<>>]} \cup
         {[s EXCEPT !.file = @ \o p, !.bad = TRUE] : p \in Partial(s.pend \o data)}

\* outFile.flush()
Flushed(s) ==
    IF s.bad THEN {s}
    ELSE {[s EXCEPT !.file = @ \o s.pend, !.pend = <<>>]} \cup
         {[s EXCEPT !.file = @ \o p, !.bad = TRUE] : p \in Partial(s.pend)}

\* outFile.close(), also by the destructor.  Nobody tests the stream again.
Closed(s) == {[s EXCEPT !.file = @ \o p] : p \in Prefixes(s.pend)}

=============================================================================
