----------------------------- MODULE IPv4Address -----------------------------
(***************************************************************************)
(* IPv4Address and ip4addr_aton (support/ip4types.h, support/ip4types.cpp) *)
(* on a little-endian host.                                                *)
(*                                                                         *)
(* A byte has Byte values instead of 256, a uint32_t those of four, so     *)
(* that short numbers reach every limit and the overflow.  ip4addr_aton    *)
(* reads one character per step; what stands in the text is chosen when it *)
(* is read.                                                                *)
(* (ip4addr_aton is compiled under UFW_IPTOOLS_UNDEFINED only, and calls   *)
(* IPv4Address::htonl, which is toNetwork here.)                           *)
(***************************************************************************)
EXTENDS Integers, Sequences, SequencesExt, Functions

CONSTANTS Byte,     \* values of a byte
          Chars,    \* characters that the text may hold
          MaxText   \* bound: length of the text

ASSUME AddressAssumption == Byte \in Nat \ {0, 1} /\ MaxText \in Nat

Digits == <<"0", "1", "2", "3", "4", "5", "6", "7", "8", "9",
            "a", "b", "c", "d", "e", "f">>
Decimal == Range(SubSeq(Digits, 1, 10))
Octal == {Digits[i] : i \in 1..8}
Hex == Range(Digits)
DigitValue(ch) == (CHOOSE i \in 1..16 : Digits[i] = ch) - 1
Nul == ""

VARIABLES
    m_address,       \* the object made, or *addr
    ip,              \* history: the bytes a, b, c, d the object was made from
    ctor,            \* history: and by which constructor
    at,              \* where ip4addr_aton is
    text,            \* history: the characters read so far, c the last of them
    val, base, parts,
    result           \* what ip4addr_aton has returned

addressVars == <<m_address, ip, ctor, at, text, val, base, parts, result>>

c == Last(text)

\* Values(k): the values that k bytes have.
Values(k) == <<1, Byte, Byte * Byte, Byte * Byte * Byte, Byte * Byte * Byte * Byte>>[k + 1]

Word == Values(4)

-----------------------------------------------------------------------------
(* The class                                                               *)

from4bytes(b) == b[1] * Values(3) + b[2] * Values(2) + b[3] * Values(1) + b[4]

\* operator[]: the bytes of m_address as they lie in memory.
At(word, index) == IF index < 4 THEN (word \div Values(index)) % Byte ELSE -1

Memory(word) == [i \in 1..4 |-> At(word, i - 1)]

\* Mutant of toNetwork: the two bytes in the middle stay.
toNetworkHalf(x) ==
    from4bytes(<<At(x, 0), At(x, 2), At(x, 1), At(x, 3)>>)

toNetwork(x) == from4bytes(Memory(x))

\* inet_addr, for the text "b[1].b[2].b[3].b[4]": the number in network order,
\* which is the first byte in the lowest place.
inet_addr(b) == b[1] + b[2] * Values(1) + b[3] * Values(2) + b[4] * Values(3)

\* What each constructor makes of a.b.c.d: from the text, from the four bytes
\* or an array of them, or from the number a.b.c.d that has a in its highest
\* place.
Converted(b) == [string |-> inet_addr(b),
                 bytes  |-> from4bytes(b),
                 number |-> toNetwork(from4bytes(b))]

Construct(b, how) ==
    /\ at = "begin"
    /\ ip' = b /\ ctor' = how
    /\ m_address' = Converted(b)[how]
    /\ at' = "object"
    /\ UNCHANGED <<text, val, base, parts, result>>

-----------------------------------------------------------------------------
(* ip4addr_aton                                                            *)

AddressInit ==
    /\ m_address = 0 /\ ip = <<0, 0, 0, 0>> /\ ctor = "string"
    /\ at = "begin"
    /\ text = <<>> /\ val = 0 /\ base = 10 /\ parts = <<>>
    /\ result = 0

\* c = *++cp
Advance ==
    \E ch \in (IF Len(text) < MaxText THEN Chars \cup {Nul} ELSE {Nul}) :
        text' = Append(text, ch)

AtonReturn(r) ==
    /\ result' = r
    /\ at' = "returned"

Begin ==
    /\ at = "begin"
    /\ Advance
    /\ at' = "number"
    /\ UNCHANGED <<m_address, ip, ctor, val, base, parts, result>>

\* A number must begin with a digit; 0 may begin a prefix.
NumberBegins ==
    /\ at = "number"
    /\ IF c \notin Decimal
       THEN AtonReturn(0) /\ UNCHANGED <<text, val, base>>
       ELSE /\ val' = 0 /\ base' = 10
            /\ IF c = "0" THEN Advance /\ at' = "prefix"
                          ELSE at' = "digits" /\ UNCHANGED text
            /\ UNCHANGED result
    /\ UNCHANGED <<m_address, ip, ctor, parts>>

Prefix ==
    /\ at = "prefix"
    /\ IF c = "x" THEN base' = 16 /\ Advance
                  ELSE base' = 8 /\ UNCHANGED text
    /\ at' = "digits"
    /\ UNCHANGED <<m_address, ip, ctor, val, parts, result>>

DigitOfBase == c \in Decimal \/ (base = 16 /\ c \in Hex)

\* Mutant of Shifted: the value is not cut to 32 bits.
ShiftedWide(ch) == val * base + DigitValue(ch)

Shifted(ch) == (val * base + DigitValue(ch)) % Word

Digit ==
    /\ at = "digits"
    /\ DigitOfBase
    /\ val' = Shifted(c)
    /\ Advance
    /\ UNCHANGED <<m_address, ip, ctor, at, base, parts, result>>

Dot ==
    /\ at = "digits" /\ c = "."
    /\ IF Len(parts) >= 3
       THEN AtonReturn(0) /\ UNCHANGED <<text, parts>>
       ELSE parts' = Append(parts, val) /\ Advance /\ at' = "number" /\ UNCHANGED result
    /\ UNCHANGED <<m_address, ip, ctor, val, base>>

\* Mutant of InRange: the parts before the last are not tested.
InRangeLast(n) == val < Values(4 - n)

\* With n parts before it the last one has 4 - n bytes, the others have one.
InRange(n) == val < Values(4 - n) /\ \A i \in 1..n : parts[i] < Byte

Concocted(n) == from4bytes([i \in 1..4 |-> IF i <= n THEN parts[i] ELSE 0]) + val

\* The text has ended: trailing characters, ranges, the address.
End ==
    /\ at = "digits" /\ ~DigitOfBase /\ c # "."
    /\ IF c \in {Nul, " "} /\ InRange(Len(parts))
       THEN AtonReturn(1) /\ m_address' = toNetwork(Concocted(Len(parts)))
       ELSE AtonReturn(0) /\ UNCHANGED m_address
    /\ UNCHANGED <<ip, ctor, text, val, base, parts>>

AddressNext ==
    \/ \E b \in [1..4 -> 0 .. Byte - 1], how \in {"string", "bytes", "number"} :
          Construct(b, how)
    \/ Begin \/ NumberBegins \/ Prefix \/ Digit \/ Dot \/ End

AddressSpec == AddressInit /\ [][AddressNext]_addressVars

-----------------------------------------------------------------------------
(* The numbers a text consists of, told from the whole text at once.       *)

Split(s) ==
    LET ps[i \in 0..Len(s)] ==
            IF i = 0 THEN << <<>> >>
            ELSE IF s[i] = "." THEN Append(ps[i - 1], <<>>)
            ELSE Append(Front(ps[i - 1]), Append(Last(ps[i - 1]), s[i]))
    IN  ps[Len(s)]

Prefixed(p) == Len(p) >= 2 /\ p[1] = "0" /\ p[2] = "x"

\* A number as it is written in C: hexadecimal digits after 0x, octal digits
\* after 0, or a decimal number that does not begin with 0.
IsNumber(p) ==
    \/ Prefixed(p) /\ Len(p) > 2 /\ Range(SubSeq(p, 3, Len(p))) \subseteq Hex
    \/ p # <<>> /\ p[1] = "0" /\ Range(p) \subseteq Octal
    \/ p # <<>> /\ p[1] # "0" /\ Range(p) \subseteq Decimal

Value(ds, radix) ==
    LET v[i \in 0..Len(ds)] ==
            IF i = 0 THEN 0 ELSE v[i - 1] * radix + DigitValue(ds[i])
    IN  v[Len(ds)]

NumberOf(p) ==
    IF Prefixed(p) THEN Value(SubSeq(p, 3, Len(p)), 16)
    ELSE Value(p, IF p[1] = "0" THEN 8 ELSE 10)

\* The four bytes of an address whose last number stands for several.
BytesOf(ns) ==
    LET n == Len(ns)
    IN  [i \in 1..4 |-> IF i < n THEN ns[i] ELSE (ns[n] \div Values(4 - i)) % Byte]

\* s consists of numbers of at most 32 bits with dots between them.
HasNumbers(s) ==
    \A i \in DOMAIN Split(s) : IsNumber(Split(s)[i]) /\ NumberOf(Split(s)[i]) < Word

\* s is an address: one to four numbers of one byte each, but for the last,
\* which stands for all the bytes that are left.
IsAddress(s) ==
    LET ps == Split(s)
        n == Len(ps)
    IN  /\ n <= 4 /\ \A i \in 1..n : IsNumber(ps[i])
        /\ \A i \in 1 .. n - 1 : NumberOf(ps[i]) < Byte
        /\ NumberOf(ps[n]) < Values(5 - n)

AddressOf(s) == BytesOf([i \in DOMAIN Split(s) |-> NumberOf(Split(s)[i])])

-----------------------------------------------------------------------------
(* Properties                                                              *)

AddressTypeOK ==
    /\ m_address \in 0 .. Word - 1
    /\ ip \in [1..4 -> 0 .. Byte - 1] /\ ctor \in {"string", "bytes", "number"}
    /\ at \in {"begin", "object", "number", "prefix", "digits", "returned"}
    /\ text \in Seq(Chars \cup {Nul}) /\ Len(text) <= MaxText + 1
    /\ val \in 0 .. Word - 1
    /\ base \in {8, 10, 16}
    /\ parts \in Seq(0 .. Word - 1) /\ Len(parts) <= 3
    /\ result \in {0, 1}

\* The two constructors that convert agree on what lies in memory:
\* IPv4Address("a.b.c.d") and IPv4Address(number) hold the bytes a, b, c, d in
\* that order, so that operator[] counts them from the left.
NetworkOrder ==
    at = "object" /\ ctor \in {"string", "number"} => Memory(m_address) = ip

\* ip4types.h says "IPv4Address from four uints (IP=a.b.c.d)" and "from array
\* of 4 (IP=ip[0].ip[1].ip[2].ip[3])": then the object is the one made of the
\* text "a.b.c.d".
OctetsInOrder == at = "object" => Memory(m_address) = ip

\* Of the texts that are numbers, written as in C and of at most 32 bits, with
\* dots between them, ip4addr_aton takes exactly the addresses that a space or
\* the end of the text follows, and stores the bytes they stand for in network
\* order.
AtonReadsAddress ==
    at = "returned" /\ HasNumbers(Front(text)) =>
        /\ result = 1 <=> c \in {Nul, " "} /\ IsAddress(Front(text))
        /\ result = 1 => Memory(m_address) = AddressOf(Front(text))

\* The comment in ip4addr_aton: "Values are specified as for C: 0x=hex,
\* 0=octal, 1-9=decimal."  Then it takes nothing but addresses of such numbers.
AtonTakesAddresses == at = "returned" /\ result = 1 => IsAddress(Front(text))

=============================================================================
