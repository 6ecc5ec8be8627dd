----------------------------- MODULE MCHelpers -----------------------------
(***************************************************************************)
(* The helpers that share no state for TLC, one beside the other: in a     *)
(* behaviour one of them runs, while the other modules are where they      *)
(* start.                                                                  *)
(***************************************************************************)
EXTENDS FileReceiver, WholeFile, IPv4Address, FsUtil

\* Two files that take several recv each, and an empty one between them.
ThreeFiles == <<3, 3, 5>>

\* Two names that differ in a point and in a capital.
MCName      == {<<"a", ".", "b">>, <<"a", "c", "B">>}
MCAbove     == <<"d", "/">>
MCPattern   == {<<"*">>, <<".", "b">>, <<"a", "?", "b">>, <<"*", ".", "b">>,
                <<"a", ".", "+", "b">>, <<"(">>, <<"/", "a", ".", "b">>}
MCLower     == [ch \in {"B"} |-> "b"]
MCMalformed == {<<"(">>}
MCMatches   == [p \in MCPattern |-> IF p = <<"a", ".", "+", "b">> THEN {<<"a", ".", "b">>} ELSE {}]

\* Which function was called last says nothing before the first call.
ReceiverStart == Init /\ fn = "recvFile"

ReceiverRests == ReceiverStart /\ UNCHANGED vars
WholeRests    == WholeInit /\ length = 0 /\ UNCHANGED wholeVars
AddressRests  == AddressInit /\ UNCHANGED addressVars
TreeRests     == TreeInit /\ UNCHANGED fsVars

NotReceiver == WholeRests /\ AddressRests /\ TreeRests
NotWhole    == ReceiverRests /\ AddressRests /\ TreeRests
NotAddress  == ReceiverRests /\ WholeRests /\ TreeRests
NotTree     == ReceiverRests /\ WholeRests /\ AddressRests

ReceiverNext ==
    \/ NotReceiver /\ \E f \in Function, t \in Timeouts : Call(f, t)
    \/ NotReceiver /\ Open
    \/ NotReceiver /\ \E n \in 1..BufferSize : Recv(n)
    \/ NotReceiver /\ RecvTimesOut
    \/ NotReceiver /\ RecvClosed
    \/ NotReceiver /\ RecvFails
    \/ NotReceiver /\ Complete
    \/ NotReceiver /\ PeerSend
    \/ NotReceiver /\ PeerClose

WholeFileNext ==
    \/ NotWhole /\ \E n \in Sizes, f \in {"writeStringFile", "dumpToFile"} : Write(f, n)
    \/ NotWhole /\ WriteData
    \/ NotWhole /\ Test
    \/ NotWhole /\ WriteReturn
    \/ NotWhole /\ \E f \in {"readStringFile", "ReadWholeFile"} : Read(f)
    \/ NotWhole /\ \E n \in 1..Block : ReadBlock(n)
    \/ NotWhole /\ ReadEnd
    \/ NotWhole /\ ReadFails

ParserNext ==
    \/ NotAddress
       /\ \E b \in [1..4 -> 0 .. Byte - 1], how \in {"string", "bytes", "number"} :
             Construct(b, how)
    \/ NotAddress /\ Begin
    \/ NotAddress /\ NumberBegins
    \/ NotAddress /\ Prefix
    \/ NotAddress /\ Digit
    \/ NotAddress /\ Dot
    \/ NotAddress /\ End

FilesNext ==
    \/ NotTree /\ CallAny
    \/ NotTree /\ HasDirectory
    \/ NotTree /\ BadPattern
    \/ NotTree /\ OpenDir
    \/ NotTree /\ OpenFails
    \/ NotTree /\ ListEntry
    \/ NotTree /\ IterateFails
    \/ NotTree /\ ListReturn
    \/ NotTree /\ MkdirStatus
    \/ NotTree /\ MkdirParent
    \/ NotTree /\ MakeDir
    \/ NotTree /\ MakeDirExists
    \/ NotTree /\ MakeDirFails
    \/ NotTree /\ TouchExists
    \/ NotTree /\ TouchCreate
    \/ NotTree /\ TouchCreateFails
    \/ NotTree /\ TouchTime
    \/ NotTree /\ RemovePath
    \/ NotTree /\ RemoveFails
    \/ NotTree /\ RemoveEntry
    \/ NotTree /\ RemoveLast
    \/ NotTree /\ \E p \in Path, k \in {"file", "dir"} : OthersCreate(p, k)
    \/ NotTree /\ \E p \in Path : OthersRemove(p)

AllInit == ReceiverStart /\ WholeInit /\ AddressInit /\ TreeInit

AllSpec ==
    /\ AllInit
    /\ [][ReceiverNext \/ WholeFileNext \/ ParserNext \/ FilesNext]_<<vars, wholeVars, addressVars, fsVars>>
    /\ WF_vars(CallStep)

=============================================================================
