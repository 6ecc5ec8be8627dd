---------------------------- MODULE HelperProofs ----------------------------
(***************************************************************************)
(* Theorems about two helper classes: IPv4Address, for a byte of any width *)
(* and a text of any length, and ScopeGuard, for any number of objects and *)
(* callables.                                                              *)
(***************************************************************************)
EXTENDS IPv4Address, ScopeGuard, SequenceTheorems, WellFoundedInduction, TLAPS

-----------------------------------------------------------------------------
(* IPv4Address: bytes and words                                            *)

LEMMA Euclid ==
    ASSUME NEW w \in Nat \ {0}, NEW x \in Nat
    PROVE  x \div w \in Nat /\ x % w \in 0 .. w - 1 /\ x = w * (x \div w) + (x % w)
  OBVIOUS

LEMMA Multiple ==
    ASSUME NEW w \in Nat \ {0}, NEW k \in Int, k >= 1
    PROVE  k * w >= w
  OBVIOUS

\* Quotient and remainder are unique.
LEMMA Place ==
    ASSUME NEW w \in Nat \ {0}, NEW high \in Nat, NEW low \in 0 .. w - 1
    PROVE  (high * w + low) \div w = high /\ (high * w + low) % w = low
  <1> DEFINE x == high * w + low
             q == x \div w
             r == x % w
  <1>1. q \in Nat /\ r \in 0 .. w - 1 /\ x = w * q + r
    <2>1. x \in Nat
      OBVIOUS
    <2> QED
      BY <2>1, Euclid
  <1>2. (high - q) * w = r - low /\ (q - high) * w = low - r
    BY <1>1
  <1>3. ~(high - q >= 1) /\ ~(q - high >= 1)
    BY <1>1, <1>2, Multiple
  <1>4. q = high
    BY <1>1, <1>3
  <1>5. r = low
    BY <1>1, <1>2, <1>4
  <1> QED
    BY <1>4, <1>5

LEMMA ValuesFacts ==
    /\ Values(0) = 1 /\ Values(1) = Byte /\ Values(2) = Byte * Byte
    /\ Values(3) = Byte * Byte * Byte /\ Values(4) = Byte * Byte * Byte * Byte
    /\ Byte \in Nat /\ Byte > 1
    /\ \A k \in 0..4 : Values(k) \in Nat \ {0}
    /\ Word = Values(4) /\ Word \in Nat \ {0}
  <1>1. Byte \in Nat /\ Byte > 1
    BY AddressAssumption
  <1>2. /\ Values(0) = 1 /\ Values(1) = Byte /\ Values(2) = Byte * Byte
        /\ Values(3) = Byte * Byte * Byte /\ Values(4) = Byte * Byte * Byte * Byte
    BY DEF Values
  <1>3. Byte * Byte \in Nat \ {0}
    BY <1>1
  <1>4. Byte * Byte * Byte \in Nat \ {0}
    BY <1>1, <1>3
  <1>5. Byte * Byte * Byte * Byte \in Nat \ {0}
    BY <1>1, <1>4
  <1>6. \A k \in 0..4 : k = 0 \/ k = 1 \/ k = 2 \/ k = 3 \/ k = 4
    OBVIOUS
  <1>7. \A k \in 0..4 : Values(k) \in Nat \ {0}
    BY <1>1, <1>2, <1>3, <1>4, <1>5, <1>6
  <1> QED
    BY <1>1, <1>2, <1>7 DEF Word

\* The word with the bytes d[4], ..., d[1] in memory.
LEMMA BytesOfWord ==
    ASSUME NEW d \in [1..4 -> 0 .. Byte - 1]
    PROVE  /\ from4bytes(d) \in 0 .. Word - 1
           /\ Memory(from4bytes(d)) = [i \in 1..4 |-> d[5 - i]]
  <1> DEFINE B == Byte
             x == from4bytes(d)
  <1>1. B \in Nat /\ B > 1
    BY ValuesFacts
  <1>2. d[1] \in 0 .. B - 1 /\ d[2] \in 0 .. B - 1 /\ d[3] \in 0 .. B - 1 /\ d[4] \in 0 .. B - 1
    OBVIOUS
  <1>3. x = d[1] * (B * B * B) + d[2] * (B * B) + d[3] * B + d[4]
    BY ValuesFacts DEF from4bytes
  <1> HIDE DEF B, x
  <1> DEFINE low2 == d[3] * B + d[4]
             low3 == d[2] * (B * B) + low2
             high1 == d[1] * (B * B) + d[2] * B + d[3]
             high2 == d[1] * B + d[2]
  <1>4. low2 \in 0 .. B * B - 1
    <2>1. d[3] * B <= (B - 1) * B
      BY <1>1, <1>2
    <2> QED
      BY <1>1, <1>2, <2>1
  <1>5. low3 \in 0 .. B * B * B - 1
    <2>1. d[2] * (B * B) <= (B - 1) * (B * B)
      BY <1>1, <1>2
    <2> QED
      BY <1>1, <1>2, <1>4, <2>1
  <1>6. x \in 0 .. B * B * B * B - 1
    <2>1. d[1] * (B * B * B) <= (B - 1) * (B * B * B)
      BY <1>1, <1>2
    <2>2. x = d[1] * (B * B * B) + low3
      BY <1>1, <1>2, <1>3
    <2> QED
      BY <1>1, <1>2, <1>5, <2>1, <2>2
  <1>7. /\ high1 \in Nat /\ high2 \in Nat /\ d[1] \in Nat
        /\ B \in Nat \ {0} /\ B * B \in Nat \ {0} /\ B * B * B \in Nat \ {0}
    BY <1>1, <1>2
  <1>8. /\ x = high1 * B + d[4]
        /\ x = high2 * (B * B) + low2
        /\ x = d[1] * (B * B * B) + low3
        /\ high1 = high2 * B + d[3]
    BY <1>1, <1>2, <1>3
  <1> HIDE DEF low2, low3, high1, high2
  <1>9. x % B = d[4] /\ x \div B = high1
    <2>1. (high1 * B + d[4]) \div B = high1 /\ (high1 * B + d[4]) % B = d[4]
      BY <1>2, <1>7, Place
    <2> QED
      BY <1>8, <2>1
  <1>10. x \div (B * B) = high2
    BY <1>4, <1>7, <1>8, Place
  <1>11. x \div (B * B * B) = d[1]
    BY <1>5, <1>7, <1>8, Place
  <1>12. high1 % B = d[3]
    BY <1>2, <1>7, <1>8, Place
  <1>13. high2 % B = d[2]
    BY <1>2, <1>7, Place DEF high2
  <1>14. d[1] % B = d[1]
    <2>1. 0 * B + d[1] = d[1]
      BY <1>1, <1>2
    <2> QED
      BY <1>2, <1>7, <2>1, Place
  <1>15. x \div 1 = x
    BY <1>6
  <1>16. /\ At(x, 0) = d[4] /\ At(x, 1) = d[3] /\ At(x, 2) = d[2] /\ At(x, 3) = d[1]
    BY <1>9, <1>10, <1>11, <1>12, <1>13, <1>14, <1>15, ValuesFacts DEF At, B
  <1>17. Memory(x) = [i \in 1..4 |-> d[5 - i]]
    <2>1. \A i \in 1..4 : At(x, i - 1) = d[5 - i]
      <3> TAKE i \in 1..4
      <3>1. i = 1 \/ i = 2 \/ i = 3 \/ i = 4
        OBVIOUS
      <3> QED
        BY <1>16, <3>1
    <2> QED
      BY <2>1 DEF Memory
  <1> QED
    BY <1>6, <1>17, ValuesFacts DEF x, B

\* A word consists of its four bytes.
LEMMA WordOfBytes ==
    ASSUME NEW x \in 0 .. Word - 1
    PROVE  from4bytes([i \in 1..4 |-> Memory(x)[5 - i]]) = x
  <1> DEFINE B == Byte
             q1 == x \div B
             q2 == q1 \div B
             q3 == q2 \div B
             r0 == x % B
             r1 == q1 % B
             r2 == q2 % B
             low2 == r1 * B + r0
             low3 == r2 * (B * B) + low2
  <1>1. /\ B \in Nat \ {0} /\ B * B \in Nat \ {0} /\ B * B * B \in Nat \ {0}
        /\ x \in Nat /\ x < B * B * B * B
    BY ValuesFacts
  <1>2. q1 \in Nat /\ r0 \in 0 .. B - 1 /\ x = B * q1 + r0
    BY <1>1, Euclid
  <1>3. q2 \in Nat /\ r1 \in 0 .. B - 1 /\ q1 = B * q2 + r1
    BY <1>1, <1>2, Euclid
  <1>4. q3 \in Nat /\ r2 \in 0 .. B - 1 /\ q2 = B * q3 + r2
    BY <1>1, <1>3, Euclid
  <1> HIDE DEF q1, q2, q3, r0, r1, r2, B
  <1>5. low2 \in 0 .. B * B - 1
    <2>1. r1 * B <= (B - 1) * B
      BY <1>1, <1>3
    <2> QED
      BY <1>1, <1>2, <1>3, <2>1
  <1>6. low3 \in 0 .. B * B * B - 1
    <2>1. r2 * (B * B) <= (B - 1) * (B * B)
      BY <1>1, <1>4
    <2> QED
      BY <1>1, <1>4, <1>5, <2>1
  <1>7. x = q2 * (B * B) + low2 /\ x = q3 * (B * B * B) + low3
    BY <1>1, <1>2, <1>3, <1>4
  <1> HIDE DEF low2, low3
  <1>8. x \div (B * B) = q2 /\ x \div (B * B * B) = q3
    <2>1. (q2 * (B * B) + low2) \div (B * B) = q2
      BY <1>1, <1>3, <1>5, Place
    <2>2. (q3 * (B * B * B) + low3) \div (B * B * B) = q3
      BY <1>1, <1>4, <1>6, Place
    <2> QED
      BY <1>7, <2>1, <2>2
  <1>9. q3 < B /\ q3 % B = q3
    <2>1. q3 < B
      <3>1. CASE q3 >= B
        <4>1. q3 * (B * B * B) >= B * (B * B * B)
          BY <1>1, <1>4, <3>1
        <4> QED
          BY <1>1, <1>4, <1>6, <1>7, <4>1
      <3> QED
        BY <1>1, <1>4, <3>1
    <2>2. (0 * B + q3) % B = q3 /\ 0 * B + q3 = q3
      BY <1>1, <1>4, <2>1, Place
    <2> QED
      BY <2>1, <2>2
  <1>10. x \div 1 = x
    BY <1>1
  <1>11. At(x, 0) = r0 /\ At(x, 1) = r1 /\ At(x, 2) = r2 /\ At(x, 3) = q3
    BY <1>8, <1>9, <1>10, ValuesFacts DEF At, B, q1, r0, r1, r2
  <1>12. x = q3 * (B * B * B) + r2 * (B * B) + r1 * B + r0
    BY <1>1, <1>2, <1>3, <1>4, <1>5, <1>6, <1>7 DEF low2, low3
  <1>13. /\ Memory(x)[1] = r0 /\ Memory(x)[2] = r1
         /\ Memory(x)[3] = r2 /\ Memory(x)[4] = q3
    BY <1>11 DEF Memory
  <1> QED
    BY <1>12, <1>13, ValuesFacts DEF from4bytes, B

LEMMA MemoryType ==
    ASSUME NEW x \in Nat
    PROVE  /\ Memory(x) \in [1..4 -> 0 .. Byte - 1]
           /\ toNetwork(x) \in 0 .. Word - 1
           /\ Memory(toNetwork(x)) = [i \in 1..4 |-> Memory(x)[5 - i]]
  <1>1. \A i \in 1..4 : At(x, i - 1) \in 0 .. Byte - 1
    <2> TAKE i \in 1..4
    <2>1. i - 1 \in 0..4 /\ i - 1 < 4
      OBVIOUS
    <2>2. Values(i - 1) \in Nat \ {0} /\ Byte \in Nat \ {0}
      BY <2>1, ValuesFacts
    <2>3. x \div Values(i - 1) \in Nat
      BY <2>2, Euclid
    <2>4. (x \div Values(i - 1)) % Byte \in 0 .. Byte - 1
      BY <2>2, <2>3, Euclid
    <2> QED
      BY <2>1, <2>4 DEF At
  <1>2. Memory(x) \in [1..4 -> 0 .. Byte - 1]
    BY <1>1 DEF Memory
  <1> QED
    BY <1>2, BytesOfWord DEF toNetwork

\* Swapping the bytes twice changes nothing, swapping them once reverses them.
LEMMA Reversed ==
    ASSUME NEW d \in [1..4 -> 0 .. Byte - 1]
    PROVE  /\ [i \in 1..4 |-> d[5 - i]] \in [1..4 -> 0 .. Byte - 1]
           /\ [i \in 1..4 |-> [j \in 1..4 |-> d[5 - j]][5 - i]] = d
  <1>1. \A i \in 1..4 : 5 - i \in 1..4 /\ 5 - (5 - i) = i
    OBVIOUS
  <1> QED
    BY <1>1

\* What lies in memory: the bytes of the text in its order if the address was
\* converted, in the opposite order if it was made of the four bytes.
LEMMA Conversions ==
    ASSUME NEW b \in [1..4 -> 0 .. Byte - 1]
    PROVE  /\ \A how \in {"string", "bytes", "number"} : Converted(b)[how] \in 0 .. Word - 1
           /\ Memory(Converted(b).string) = b
           /\ Memory(Converted(b).number) = b
           /\ Memory(Converted(b).bytes) = [i \in 1..4 |-> b[5 - i]]
  <1> DEFINE x == from4bytes(b)
             y == toNetwork(x)
             z == inet_addr(b)
             d == [i \in 1..4 |-> b[5 - i]]
  <1>1. x \in 0 .. Word - 1 /\ Memory(x) = d
    BY BytesOfWord
  <1>2. x \in Nat
    BY <1>1, ValuesFacts
  <1>3. y \in 0 .. Word - 1 /\ Memory(y) = [i \in 1..4 |-> d[5 - i]]
    BY <1>1, <1>2, MemoryType
  <1>4. Memory(y) = b
    BY <1>3, Reversed
  <1>5. z = from4bytes(d)
    <2>1. /\ d[1] = b[4] /\ d[2] = b[3] /\ d[3] = b[2] /\ d[4] = b[1]
          /\ b[1] \in Int /\ b[2] \in Int /\ b[3] \in Int /\ b[4] \in Int
      BY ValuesFacts
    <2>2. Values(1) \in Int /\ Values(2) \in Int /\ Values(3) \in Int
      BY ValuesFacts
    <2>3. \A k, v \in Int : k * v \in Int
      OBVIOUS
    <2>4. /\ b[2] * Values(1) \in Int /\ b[3] * Values(2) \in Int /\ b[4] * Values(3) \in Int
      BY <2>1, <2>2, <2>3
    <2>5. \A k, l, m, n \in Int : k + l + m + n = n + m + l + k
      OBVIOUS
    <2>6. z = b[4] * Values(3) + b[3] * Values(2) + b[2] * Values(1) + b[1]
      BY <2>1, <2>4, <2>5 DEF inet_addr
    <2> QED
      BY <2>1, <2>6 DEF from4bytes
  <1>6. z \in 0 .. Word - 1 /\ Memory(z) = [i \in 1..4 |-> d[5 - i]]
    <2>1. d \in [1..4 -> 0 .. Byte - 1]
      BY Reversed
    <2> HIDE DEF d, z
    <2> QED
      BY <1>5, <2>1, BytesOfWord
  <1>7. Memory(z) = b
    BY <1>6, Reversed
  <1>8. Converted(b) = [string |-> z, bytes |-> x, number |-> y]
    BY DEF Converted
  <1> HIDE DEF x, y, z, d
  <1>9. Converted(b).string = z /\ Converted(b).bytes = x /\ Converted(b).number = y
    BY <1>8
  <1>10. /\ Memory(Converted(b).string) = b /\ Memory(Converted(b).number) = b
         /\ Memory(Converted(b).bytes) = d
    BY <1>1, <1>4, <1>7, <1>9, Zenon
  <1>11. \A how \in {"string", "bytes", "number"} : Converted(b)[how] \in 0 .. Word - 1
    BY <1>1, <1>3, <1>6, <1>9, Zenon
  <1> QED
    BY <1>10, <1>11 DEF d

\* Swapping the bytes of any number twice gives it back: the conversions lose
\* no number, and what was swapped once must be swapped once more.
THEOREM SwappedTwice ==
    \A x \in 0 .. Word - 1 : toNetwork(x) \in 0 .. Word - 1 /\ toNetwork(toNetwork(x)) = x
  <1> SUFFICES ASSUME NEW x \in 0 .. Word - 1
               PROVE  toNetwork(x) \in 0 .. Word - 1 /\ toNetwork(toNetwork(x)) = x
    OBVIOUS
  <1>1. x \in Nat
    BY ValuesFacts
  <1>2. /\ toNetwork(x) \in 0 .. Word - 1
        /\ Memory(toNetwork(x)) = [i \in 1..4 |-> Memory(x)[5 - i]]
    BY <1>1, MemoryType
  <1>3. toNetwork(toNetwork(x)) = from4bytes([i \in 1..4 |-> Memory(x)[5 - i]])
    BY <1>2 DEF toNetwork
  <1> QED
    BY <1>2, <1>3, WordOfBytes

-----------------------------------------------------------------------------
(* IPv4Address: ip4addr_aton                                               *)

\* ip4addr_aton takes more than the numbers of C: 0x without digits is 0, and 8
\* and 9 are digits of an octal number.
ReadsAsNumber(p) ==
    /\ p # <<>>
    /\ \/ Range(p) \subseteq Decimal
       \/ Prefixed(p) /\ Range(SubSeq(p, 3, Len(p))) \subseteq Hex

\* And it takes every number modulo 32 bits.
ReadsAsAddress(s) ==
    LET ps == Split(s)
        n == Len(ps)
    IN  /\ n <= 4 /\ \A i \in 1..n : ReadsAsNumber(ps[i])
        /\ \A i \in 1 .. n - 1 : NumberOf(ps[i]) % Word < Byte
        /\ NumberOf(ps[n]) % Word < Values(5 - n)

\* What it does with any text; AtonReadsAddress follows.
AtonReadsText ==
    at = "returned" =>
        LET s == Front(text)
        IN  /\ result = 1 <=> (c \in {Nul, " "} /\ ReadsAsAddress(s))
            /\ result = 1 => LET ns == [i \in DOMAIN Split(s) |-> NumberOf(Split(s)[i]) % Word]
                             IN  Memory(m_address) = BytesOf(ns)

LEMMA DigitsTable ==
    /\ DOMAIN Digits = 1..16
    /\ Digits[1] = "0"
    /\ \A i \in 1..16 : Digits[i] \notin {"", "x", "."} /\ (Digits[i] = "0" => i = 1)
  <1>1. /\ Digits[1] = "0" /\ Digits[2] = "1" /\ Digits[3] = "2" /\ Digits[4] = "3"
        /\ Digits[5] = "4" /\ Digits[6] = "5" /\ Digits[7] = "6" /\ Digits[8] = "7"
        /\ Digits[9] = "8" /\ Digits[10] = "9" /\ Digits[11] = "a" /\ Digits[12] = "b"
        /\ Digits[13] = "c" /\ Digits[14] = "d" /\ Digits[15] = "e" /\ Digits[16] = "f"
    BY DEF Digits
  <1>2. \A i \in 1..16 :
           \/ i = 1 \/ i = 2 \/ i = 3 \/ i = 4 \/ i = 5 \/ i = 6
           \/ i = 7 \/ i = 8 \/ i = 9 \/ i = 10 \/ i = 11
           \/ i = 12 \/ i = 13 \/ i = 14 \/ i = 15 \/ i = 16
    OBVIOUS
  <1>3. \A i \in 1..16 : Digits[i] \notin {"", "x", "."}
    BY <1>1, <1>2
  <1>4. \A i \in 1..16 : Digits[i] = "0" => i = 1
    BY <1>1, <1>2
  <1>5. DOMAIN Digits = 1..16
    BY DEF Digits
  <1> QED
    BY <1>1, <1>3, <1>4, <1>5

LEMMA DigitFacts ==
    /\ \A ch \in Hex : DigitValue(ch) \in 0..15 /\ ch \notin {Nul, "x", "."}
    /\ Decimal \subseteq Hex /\ Decimal = {Digits[i] : i \in 1..10}
    /\ "0" \in Decimal /\ DigitValue("0") = 0
  <1>1. Hex = {Digits[i] : i \in 1..16}
    BY DEF Hex, Range, Digits
  <1>2. Decimal = {Digits[i] : i \in 1..10}
    <2> DEFINE s == SubSeq(Digits, 1, 10)
    <2>1. Digits \in Seq(Hex) /\ Len(Digits) = 16
      <3>1. Digits = [i \in 1..16 |-> Digits[i]]
        BY DEF Digits
      <3>2. Digits \in [1..16 -> Hex]
        BY <1>1, <3>1, Zenon
      <3>3. Digits \in Seq(Hex)
        BY <3>2, SeqDef
      <3>4. DOMAIN Digits = 1..16
        BY DigitsTable
      <3> QED
        BY <3>3, <3>4, LenProperties
    <2>2. s \in Seq(Hex) /\ Len(s) = 10 /\ \A i \in 1..10 : s[i] = Digits[i]
      BY <2>1
    <2>3. DOMAIN s = 1..10
      BY <2>2, LenProperties
    <2> HIDE DEF s
    <2>4. Range(s) = {Digits[i] : i \in 1..10}
      BY <2>2, <2>3 DEF Range
    <2> QED
      BY <2>4 DEF Decimal, s
  <1>3. \A ch \in Hex : DigitValue(ch) \in 0..15
    <2> TAKE ch \in Hex
    <2>1. \E i \in 1..16 : Digits[i] = ch
      BY <1>1
    <2>2. (CHOOSE i \in 1..16 : Digits[i] = ch) \in 1..16
      BY <2>1, Zenon
    <2> QED
      BY <2>2 DEF DigitValue
  <1>4. \A ch \in Hex : ch \notin {Nul, "x", "."}
    BY <1>1, DigitsTable DEF Nul
  <1>5. "0" \in Decimal
    <2>1. 1 \in 1..10
      OBVIOUS
    <2>2. Digits[1] = "0"
      BY DigitsTable, Zenon
    <2> QED
      BY <1>2, <2>1, <2>2, Zenon
  <1>6. DigitValue("0") = 0
    <2>1. 1 \in 1..16
      OBVIOUS
    <2>2. Digits[1] = "0" /\ \A i \in 1..16 : Digits[i] = "0" => i = 1
      BY DigitsTable, Zenon
    <2>3. (CHOOSE i \in 1..16 : Digits[i] = "0") = 1
      BY <2>1, <2>2, Zenon
    <2> QED
      BY <2>3 DEF DigitValue
  <1> QED
    BY <1>1, <1>2, <1>3, <1>4, <1>5, <1>6

\* While ip4addr_aton reads there is a current character, and the last one that
\* fits is the end of the text.
TextRead ==
    /\ at = "begin" => text = <<>>
    /\ at \in {"number", "prefix", "digits", "returned"} => text # <<>>
    /\ at \in {"number", "prefix", "digits"} /\ Len(text) > MaxText => c = Nul

AddressInv == AddressTypeOK /\ TextRead

LEMMA AdvanceFacts ==
    ASSUME text \in Seq(Chars \cup {Nul}), Len(text) <= MaxText, Advance
    PROVE  /\ text' \in Seq(Chars \cup {Nul}) /\ Len(text') <= MaxText + 1 /\ text' # <<>>
           /\ Len(text') > MaxText => c' = Nul
  <1>1. PICK ch \in (IF Len(text) < MaxText THEN Chars \cup {Nul} ELSE {Nul}) :
           text' = Append(text, ch)
    BY DEF Advance
  <1>2. ch \in Chars \cup {Nul}
    BY <1>1
  <1>3. /\ text' \in Seq(Chars \cup {Nul}) /\ text' # <<>>
        /\ Len(text') = Len(text) + 1 /\ text'[Len(text) + 1] = ch
    BY <1>1, <1>2, AppendProperties
  <1>4. Len(text) \in Nat /\ MaxText \in Nat
    BY AddressAssumption, LenProperties
  <1>5. c' = ch
    BY <1>3 DEF c, Last
  <1> QED
    BY <1>1, <1>3, <1>4, <1>5

LEMMA ConcoctedIsNat ==
    ASSUME parts \in Seq(Nat), val \in Nat
    PROVE  Concocted(Len(parts)) \in Nat
  <1> DEFINE d == [i \in 1..4 |-> IF i <= Len(parts) THEN parts[i] ELSE 0]
  <1>1. Len(parts) \in Nat /\ \A i \in 1..Len(parts) : parts[i] \in Nat
    BY LenProperties, ElementOfSeq
  <1>2. d[1] \in Nat /\ d[2] \in Nat /\ d[3] \in Nat /\ d[4] \in Nat
    BY <1>1
  <1>3. /\ Values(1) \in Nat /\ Values(2) \in Nat /\ Values(3) \in Nat
    BY ValuesFacts
  <1> HIDE DEF d
  <1>4. \A k, v \in Nat : k * v \in Nat
    OBVIOUS
  <1>5. /\ d[1] * Values(3) \in Nat /\ d[2] * Values(2) \in Nat /\ d[3] * Values(1) \in Nat
    BY <1>2, <1>3, <1>4
  <1>6. \A u, v, w, x \in Nat : u + v + w + x \in Nat
    OBVIOUS
  <1>7. from4bytes(d) \in Nat
    BY <1>2, <1>5, <1>6, Zenon DEF from4bytes
  <1> QED
    <2>1. from4bytes(d) + val \in Nat
      BY <1>7
    <2> QED
      BY <2>1 DEF Concocted, d

LEMMA InitAddress == AddressInit => AddressInv
  <1> SUFFICES ASSUME AddressInit PROVE AddressInv
    OBVIOUS
  <1>1. \A S : <<>> \in Seq(S)
    BY EmptySeq
  <1>2. Len(<<>>) = 0 /\ MaxText \in Nat
    BY AddressAssumption
  <1>3. ip \in [1..4 -> 0 .. Byte - 1]
    BY ValuesFacts DEF AddressInit
  <1> QED
    BY <1>1, <1>2, <1>3, ValuesFacts DEF AddressInit, AddressInv, AddressTypeOK, TextRead

LEMMA StepAddress == AddressInv /\ [AddressNext]_addressVars => AddressInv'
  <1> SUFFICES ASSUME AddressInv, [AddressNext]_addressVars
               PROVE  AddressInv'
    OBVIOUS
  <1>t. AddressTypeOK /\ TextRead
    BY DEF AddressInv
  <1>a. /\ text \in Seq(Chars \cup {Nul}) /\ Len(text) \in Nat /\ MaxText \in Nat
        /\ Len(text) <= MaxText + 1
        /\ parts \in Seq(0 .. Word - 1) /\ Len(parts) \in Nat
        /\ val \in Nat /\ base \in Nat /\ Word \in Nat \ {0}
    BY <1>t, AddressAssumption, ValuesFacts, LenProperties DEF AddressTypeOK
  \* A character that is not the end of the text can be followed by another.
  <1>b. ASSUME c # Nul, at \in {"number", "prefix", "digits"}, Advance
        PROVE  /\ text' \in Seq(Chars \cup {Nul}) /\ Len(text') <= MaxText + 1
               /\ text' # <<>> /\ (Len(text') > MaxText => c' = Nul)
    <2>1. Len(text) <= MaxText
      BY <1>a, <1>b, <1>t DEF TextRead
    <2> QED
      BY <1>a, <1>b, <2>1, AdvanceFacts
  <1>1. ASSUME NEW b \in [1..4 -> 0 .. Byte - 1], NEW how \in {"string", "bytes", "number"},
               Construct(b, how)
        PROVE  AddressInv'
    <2>1. m_address' \in 0 .. Word - 1
      BY <1>1, Conversions, Zenon DEF Construct
    <2>2. /\ ip' = b /\ ctor' = how /\ at' = "object"
          /\ UNCHANGED <<text, val, base, parts, result>>
      BY <1>1 DEF Construct
    <2> QED
      BY <1>t, <2>1, <2>2 DEF AddressInv, AddressTypeOK, TextRead
  <1>2. ASSUME Begin
        PROVE  AddressInv'
    <2>1. /\ at = "begin" /\ at' = "number" /\ Advance
          /\ UNCHANGED <<m_address, ip, ctor, val, base, parts, result>>
      BY <1>2 DEF Begin
    <2>2. Len(text) = 0
      BY <1>t, <2>1 DEF TextRead
    <2>3. /\ text' \in Seq(Chars \cup {Nul}) /\ Len(text') <= MaxText + 1
          /\ text' # <<>> /\ (Len(text') > MaxText => c' = Nul)
      BY <1>a, <2>1, <2>2, AdvanceFacts
    <2> QED
      BY <1>t, <2>1, <2>3 DEF AddressInv, AddressTypeOK, TextRead
  <1>3. ASSUME NumberBegins
        PROVE  AddressInv'
    <2>1. at = "number" /\ UNCHANGED <<m_address, ip, ctor, parts>>
      BY <1>3 DEF NumberBegins
    <2>2. CASE c \notin Decimal
      <3>1. at' = "returned" /\ result' = 0 /\ UNCHANGED <<text, val, base>>
        BY <1>3, <2>2 DEF NumberBegins, AtonReturn
      <3> QED
        BY <1>t, <2>1, <3>1 DEF AddressInv, AddressTypeOK, TextRead
    <2>3. CASE c \in Decimal /\ c = "0"
      <3>1. val' = 0 /\ base' = 10 /\ Advance /\ at' = "prefix" /\ result' = result
        BY <1>3, <2>3 DEF NumberBegins
      <3>2. c # Nul
        BY <2>3, DigitFacts
      <3> QED
        BY <1>a, <1>b, <1>t, <2>1, <3>1, <3>2 DEF AddressInv, AddressTypeOK, TextRead
    <2>4. CASE c \in Decimal /\ c # "0"
      <3>1. /\ val' = 0 /\ base' = 10 /\ at' = "digits" /\ result' = result /\ text' = text
        BY <1>3, <2>4 DEF NumberBegins
      <3>2. c' = c
        BY <3>1 DEF c
      <3> QED
        BY <1>a, <1>t, <2>1, <3>1, <3>2 DEF AddressInv, AddressTypeOK, TextRead
    <2> QED
      BY <2>2, <2>3, <2>4
  <1>4. ASSUME Prefix
        PROVE  AddressInv'
    <2>1. at = "prefix" /\ at' = "digits" /\ UNCHANGED <<m_address, ip, ctor, val, parts, result>>
      BY <1>4 DEF Prefix
    <2>2. CASE c = "x"
      <3>1. base' = 16 /\ Advance /\ c # Nul
        BY <1>4, <2>2 DEF Prefix, Nul
      <3> QED
        BY <1>b, <1>t, <2>1, <3>1 DEF AddressInv, AddressTypeOK, TextRead
    <2>3. CASE c # "x"
      <3>1. base' = 8 /\ text' = text
        BY <1>4, <2>3 DEF Prefix
      <3>2. c' = c
        BY <3>1 DEF c
      <3> QED
        BY <1>t, <2>1, <3>1, <3>2 DEF AddressInv, AddressTypeOK, TextRead
    <2> QED
      BY <2>2, <2>3
  <1>5. ASSUME Digit
        PROVE  AddressInv'
    <2>1. /\ at = "digits" /\ c \in Hex /\ val' = Shifted(c) /\ Advance
          /\ UNCHANGED <<m_address, ip, ctor, at, base, parts, result>>
      BY <1>5, DigitFacts DEF Digit, DigitOfBase
    <2>2. c # Nul /\ DigitValue(c) \in Nat
      BY <2>1, DigitFacts
    <2>3. val * base + DigitValue(c) \in Nat
      BY <1>a, <2>2
    <2>4. val' \in 0 .. Word - 1
      BY <1>a, <2>1, <2>3, Euclid DEF Shifted
    <2> QED
      BY <1>b, <1>t, <2>1, <2>2, <2>4 DEF AddressInv, AddressTypeOK, TextRead
  <1>6. ASSUME Dot
        PROVE  AddressInv'
    <2>1. at = "digits" /\ c = "." /\ c # Nul /\ UNCHANGED <<m_address, ip, ctor, val, base>>
      BY <1>6 DEF Dot, Nul
    <2>2. CASE Len(parts) >= 3
      <3>1. at' = "returned" /\ result' = 0 /\ UNCHANGED <<text, parts>>
        BY <1>6, <2>2 DEF Dot, AtonReturn
      <3> QED
        BY <1>t, <2>1, <3>1 DEF AddressInv, AddressTypeOK, TextRead
    <2>3. CASE ~(Len(parts) >= 3)
      <3>1. parts' = Append(parts, val) /\ Advance /\ at' = "number" /\ result' = result
        BY <1>6, <2>3 DEF Dot
      <3>2. val \in 0 .. Word - 1
        BY <1>t DEF AddressTypeOK
      <3>3. parts' \in Seq(0 .. Word - 1) /\ Len(parts') = Len(parts) + 1
        BY <1>a, <3>1, <3>2, AppendProperties
      <3>4. Len(parts') <= 3
        BY <1>a, <2>3, <3>3
      <3> QED
        BY <1>b, <1>t, <2>1, <3>1, <3>3, <3>4 DEF AddressInv, AddressTypeOK, TextRead
    <2> QED
      BY <2>2, <2>3
  <1>7. ASSUME End
        PROVE  AddressInv'
    <2>1. /\ at' = "returned" /\ result' \in {0, 1}
          /\ UNCHANGED <<ip, ctor, text, val, base, parts>>
          /\ m_address' = m_address \/ m_address' = toNetwork(Concocted(Len(parts)))
      BY <1>7 DEF End, AtonReturn
    <2>2. parts \in Seq(Nat)
      <3>1. \A i \in 1..Len(parts) : parts[i] \in Nat
        BY <1>a, ElementOfSeq
      <3> QED
        BY <1>a, <3>1, LenProperties
    <2>3. Concocted(Len(parts)) \in Nat
      BY <1>a, <2>2, ConcoctedIsNat
    <2>4. m_address' \in 0 .. Word - 1
      BY <1>t, <2>1, <2>3, MemoryType DEF AddressTypeOK
    <2>5. text' = text /\ text # <<>> /\ ctor' = ctor /\ parts' = parts
      BY <1>t, <1>7, <2>1 DEF End, TextRead
    <2> QED
      BY <1>t, <2>1, <2>4, <2>5 DEF AddressInv, AddressTypeOK, TextRead
  <1>8. ASSUME UNCHANGED addressVars
        PROVE  AddressInv'
    <2>1. c' = c
      BY <1>8 DEF addressVars, c
    <2> QED
      BY <1>8, <1>t, <2>1 DEF addressVars, AddressInv, AddressTypeOK, TextRead
  <1> QED
    BY <1>1, <1>2, <1>3, <1>4, <1>5, <1>6, <1>7, <1>8 DEF AddressNext

\* Type correctness: whatever the text, ip4addr_aton counts no fourth dot, reads
\* nothing after the end of the text, and stores a value of 32 bits.
THEOREM AddressTypesCorrect == AddressSpec => []AddressTypeOK
  <1>1. AddressInv => AddressTypeOK
    BY DEF AddressInv
  <1> QED
    BY <1>1, InitAddress, StepAddress, PTL DEF AddressSpec

\* What lies in memory of an object, told by its constructor.
InMemory ==
    at = "object" =>
        Memory(m_address) = IF ctor = "bytes" THEN [i \in 1..4 |-> ip[5 - i]] ELSE ip

LEMMA MemoryIsRight == AddressSpec => []InMemory
  <1>1. AddressInit => InMemory
    BY DEF AddressInit, InMemory
  <1>2. InMemory /\ [AddressNext]_addressVars => InMemory'
    <2> SUFFICES ASSUME InMemory, [AddressNext]_addressVars, at' = "object"
                 PROVE  Memory(m_address)' =
                            IF ctor' = "bytes" THEN [i \in 1..4 |-> ip'[5 - i]] ELSE ip'
      BY DEF InMemory
    <2> DEFINE Right == Memory(m_address') =
                            IF ctor' = "bytes" THEN [i \in 1..4 |-> ip'[5 - i]] ELSE ip'
    <2>1. ASSUME NEW b \in [1..4 -> 0 .. Byte - 1], NEW how \in {"string", "bytes", "number"},
                 Construct(b, how)
          PROVE  Right
      <3>1. ip' = b /\ ctor' = how /\ m_address' = Converted(b)[how]
        BY <2>1 DEF Construct
      <3>2. /\ Memory(Converted(b).string) = b /\ Memory(Converted(b).number) = b
            /\ Memory(Converted(b).bytes) = [i \in 1..4 |-> b[5 - i]]
        BY Conversions
      <3>3. how = "string" \/ how = "bytes" \/ how = "number"
        OBVIOUS
      <3>4. "string" # "bytes" /\ "number" # "bytes"
        OBVIOUS
      <3> QED
        BY <3>1, <3>2, <3>3, <3>4, Zenon
    <2>2. CASE Begin \/ NumberBegins \/ Prefix \/ Digit \/ Dot \/ End
      BY <2>2 DEF Begin, NumberBegins, Prefix, Digit, Dot, End, AtonReturn
    <2>3. CASE UNCHANGED addressVars
      BY <2>3 DEF addressVars, InMemory
    <2>4. Right
      BY <2>1, <2>2, <2>3 DEF AddressNext
    <2> QED
      BY <2>4 DEF Memory, At
  <1> QED
    BY <1>1, <1>2, PTL DEF AddressSpec

\* The constructors from a text and from a number have the bytes in memory in
\* the order of the text.
THEOREM ConstructorsAgree == AddressSpec => []NetworkOrder
  <1>1. InMemory => NetworkOrder
    <2>1. "string" # "bytes" /\ "number" # "bytes"
      OBVIOUS
    <2> QED
      BY <2>1 DEF InMemory, NetworkOrder
  <1> QED
    BY <1>1, MemoryIsRight, PTL

\* The constructors from four bytes and from an array (ip4types.cpp:43-49) do
\* not: they have them in the opposite order, so that OctetsInOrder holds of
\* an address only if it reads the same from both ends.
THEOREM BytesAreReversed ==
    AddressSpec => [](at = "object" /\ ctor = "bytes" =>
                          Memory(m_address) = [i \in 1..4 |-> ip[5 - i]])
  <1>1. InMemory => (at = "object" /\ ctor = "bytes" =>
                        Memory(m_address) = [i \in 1..4 |-> ip[5 - i]])
    BY DEF InMemory
  <1> QED
    BY <1>1, MemoryIsRight, PTL

-----------------------------------------------------------------------------
(* Recursive functions: Split and Value                                    *)

\* f takes N steps from first on.
Repeats(f, T, first, step, N) ==
    /\ f \in [0..N -> T]
    /\ f[0] = first /\ \A i \in 1..N : f[i] = step[i][f[i - 1]]

\* A step that takes any value of T to one of T can be repeated.
LEMMA Iterates ==
    ASSUME NEW T, NEW first \in T, NEW N \in Nat, NEW step \in [1..N -> [T -> T]]
    PROVE  \E f : Repeats(f, T, first, step, N)
  <1> DEFINE P(f, k) == f[0] = first /\ \A i \in 1..k : f[i] = step[i][f[i - 1]]
             Bad == {k \in 0..N : ~(\E f \in [0..k -> T] : P(f, k))}
  <1>1. CASE Bad # {}
    <2>1. PICK k \in Bad : \A l \in Bad : ~(<<l, k>> \in OpToRel(<, Nat))
      <3>1. Bad \subseteq Nat
        OBVIOUS
      <3> QED
        BY <1>1, <3>1, NatLessThanWellFounded, WFMin
    <2>2. k \in 0..N /\ k \in Nat
      OBVIOUS
    <2>3. k # 0
      <3>1. [i \in 0..0 |-> first] \in [0..0 -> T] /\ P([i \in 0..0 |-> first], 0)
        OBVIOUS
      <3> QED
        BY <3>1
    <2>4. k - 1 \in 0..N /\ k - 1 \in Nat /\ k - 1 \in 0..k - 1 /\ k \in 1..N
      BY <2>2, <2>3
    <2>5. k - 1 \notin Bad
      <3>1. <<k - 1, k>> \in OpToRel(<, Nat)
        BY <2>2, <2>4 DEF OpToRel
      <3> QED
        BY <2>1, <3>1
    <2>6. PICK f \in [0..k - 1 -> T] : P(f, k - 1)
      BY <2>4, <2>5
    <2> DEFINE g == [i \in 0..k |-> IF i = k THEN step[k][f[k - 1]] ELSE f[i]]
    <2>7. f[k - 1] \in T /\ step[k] \in [T -> T]
      BY <2>4
    <2>8. g \in [0..k -> T]
      BY <2>2, <2>7
    <2>9. /\ 0 \in 0..k /\ k \in 0..k /\ 0 # k
          /\ \A i \in 0..k : i # k => i \in 0..k - 1
          /\ \A i \in 1..k : i \in 0..k /\ i - 1 \in 0..k /\ i - 1 # k
          /\ \A i \in 1..k : i # k => i \in 1..k - 1
      BY <2>2, <2>3
    <2>10. g[0] = first
      BY <2>6, <2>9
    <2>11. \A i \in 1..k : g[i] = step[i][g[i - 1]]
      BY <2>6, <2>9
    <2> HIDE DEF g
    <2>12. P(g, k)
      BY <2>10, <2>11
    <2> QED
      BY <2>1, <2>8, <2>12
  <1>2. CASE Bad = {}
    <2>1. N \in 0..N
      OBVIOUS
    <2> QED
      BY <1>2, <2>1 DEF Repeats
  <1> QED
    BY <1>1, <1>2

\* Two functions that begin alike and go on alike are equal at the end.
LEMMA GoOnAlike ==
    ASSUME NEW N \in Nat, NEW f, NEW g, f[0] = g[0],
           \A i \in 1..N : f[i - 1] = g[i - 1] => f[i] = g[i]
    PROVE  f[N] = g[N]
  <1> DEFINE Bad == {i \in 0..N : f[i] # g[i]}
  <1>1. CASE Bad # {}
    <2>1. PICK k \in Bad : \A l \in Bad : ~(<<l, k>> \in OpToRel(<, Nat))
      <3>1. Bad \subseteq Nat
        OBVIOUS
      <3> QED
        BY <1>1, <3>1, NatLessThanWellFounded, WFMin
    <2>2. k \in 1..N /\ k - 1 \in 0..N /\ k \in Nat /\ k - 1 \in Nat /\ <<k - 1, k>> \in OpToRel(<, Nat)
      BY <2>1 DEF OpToRel
    <2>3. f[k - 1] = g[k - 1]
      BY <2>1, <2>2
    <2> QED
      BY <2>1, <2>2, <2>3
  <1> QED
    BY <1>1

-----------------------------------------------------------------------------
(* The value of a number                                                   *)

IsValue(v, ds, radix) ==
    v = [i \in 0..Len(ds) |-> IF i = 0 THEN 0 ELSE v[i - 1] * radix + DigitValue(ds[i])]

LEMMA ValueChosen ==
    ASSUME NEW ds \in Seq(Hex), NEW radix \in Nat
    PROVE  \E v \in [0..Len(ds) -> Nat] : IsValue(v, ds, radix) /\ Value(ds, radix) = v[Len(ds)]
  <1> DEFINE N == Len(ds)
             step == [i \in 1..N |-> [x \in Nat |-> x * radix + DigitValue(ds[i])]]
  <1>1. N \in Nat /\ \A i \in 1..N : ds[i] \in Hex
    BY LenProperties, ElementOfSeq
  <1>2. \A i \in 1..N : DigitValue(ds[i]) \in Nat
    BY <1>1, DigitFacts
  <1>3. step \in [1..N -> [Nat -> Nat]]
    BY <1>2
  <1>4. PICK g \in [0..N -> Nat] : g[0] = 0 /\ \A i \in 1..N : g[i] = step[i][g[i - 1]]
    <2>1. 0 \in Nat
      OBVIOUS
    <2>2. N \in Nat
      BY <1>1
    <2> HIDE DEF step, N
    <2>3. \E g : Repeats(g, Nat, 0, step, N)
      BY <1>3, <2>1, <2>2, Iterates, Zenon
    <2> QED
      BY <2>3 DEF Repeats
  <1>5. \A i \in 1..N : i # 0 /\ i \in 0..N /\ i - 1 \in 0..N
    BY <1>1
  <1>6. \A i \in 1..N : g[i - 1] \in Nat /\ g[i] = g[i - 1] * radix + DigitValue(ds[i])
    BY <1>4, <1>5
  <1>7. g = [i \in 0..N |-> IF i = 0 THEN 0 ELSE g[i - 1] * radix + DigitValue(ds[i])]
    <2>1. \A i \in 0..N : g[i] = IF i = 0 THEN 0 ELSE g[i - 1] * radix + DigitValue(ds[i])
      <3>1. \A i \in 0..N : i = 0 \/ i \in 1..N
        BY <1>1
      <3> QED
        BY <1>4, <1>6, <3>1
    <2> QED
      BY <1>4, <2>1
  <1>8. IsValue(g, ds, radix)
    BY <1>7 DEF IsValue
  <1> DEFINE v == CHOOSE v : IsValue(v, ds, radix)
  <1>9. IsValue(v, ds, radix)
    BY <1>8, Zenon
  <1>10. Value(ds, radix) = v[Len(ds)]
    BY Zenon DEF Value, IsValue
  <1> HIDE DEF v
  <1>11. v \in [0..N -> Nat]
    <2>1. ASSUME NEW k \in 0..N
          PROVE  v[k] = g[k]
      <3>0. k \in Nat /\ 1..k \subseteq 1..N /\ 1..k \subseteq 0..N
        BY <1>1, <2>1
      <3>1. v[0] = 0 /\ \A i \in 1..k : v[i] = v[i - 1] * radix + DigitValue(ds[i])
        <4>1. \A i \in 0..N : v[i] = IF i = 0 THEN 0 ELSE v[i - 1] * radix + DigitValue(ds[i])
          BY <1>9 DEF IsValue
        <4> QED
          BY <1>1, <3>0, <1>5, <4>1
      <3>2. v[0] = g[0] /\ \A i \in 1..k : v[i - 1] = g[i - 1] => v[i] = g[i]
        BY <1>4, <1>6, <3>0, <3>1
      <3> QED
        BY <3>0, <3>2, GoOnAlike
    <2>2. v = [i \in 0..N |-> v[i]]
      BY <1>9 DEF IsValue
    <2> QED
      BY <2>1, <2>2
  <1> QED
    BY <1>9, <1>10, <1>11

\* Horner's rule, one digit more.
LEMMA ValueFacts ==
    ASSUME NEW radix \in Nat
    PROVE  /\ Value(<<>>, radix) = 0
           /\ \A ds \in Seq(Hex) : Value(ds, radix) \in Nat
           /\ \A ds \in Seq(Hex), ch \in Hex :
                 Value(Append(ds, ch), radix) = Value(ds, radix) * radix + DigitValue(ch)
  <1>1. ASSUME NEW ds \in Seq(Hex)
        PROVE  Value(ds, radix) \in Nat
    <2>1. PICK v \in [0..Len(ds) -> Nat] :
              IsValue(v, ds, radix) /\ Value(ds, radix) = v[Len(ds)]
      BY <1>1, ValueChosen
    <2>2. Len(ds) \in 0..Len(ds)
      BY LenProperties
    <2> QED
      BY <2>1, <2>2
  <1>2. Value(<<>>, radix) = 0
    <2>1. <<>> \in Seq(Hex) /\ Len(<<>>) = 0
      BY EmptySeq
    <2>2. PICK v : IsValue(v, <<>>, radix) /\ Value(<<>>, radix) = v[Len(<<>>)]
      BY <2>1, ValueChosen
    <2> QED
      BY <2>1, <2>2 DEF IsValue
  <1>3. ASSUME NEW ds \in Seq(Hex), NEW ch \in Hex
        PROVE  Value(Append(ds, ch), radix) = Value(ds, radix) * radix + DigitValue(ch)
    <2> DEFINE es == Append(ds, ch)
               N == Len(ds)
    <2>1. /\ es \in Seq(Hex) /\ Len(es) = N + 1 /\ N \in Nat
          /\ \A i \in 1..N : es[i] = ds[i]
          /\ es[N + 1] = ch
      BY AppendProperties, LenProperties
    <2> HIDE DEF es
    <2>2. PICK v : IsValue(v, ds, radix) /\ Value(ds, radix) = v[N]
      BY ValueChosen
    <2>3. PICK w : IsValue(w, es, radix) /\ Value(es, radix) = w[N + 1]
      BY <2>1, ValueChosen
    <2>4. v[0] = 0 /\ \A i \in 1..N : v[i] = v[i - 1] * radix + DigitValue(ds[i])
      <3>1. \A i \in 0..N : v[i] = IF i = 0 THEN 0 ELSE v[i - 1] * radix + DigitValue(ds[i])
        BY <2>2 DEF IsValue
      <3> QED
        BY <2>1, <3>1
    <2>5. w[0] = 0 /\ \A i \in 1..N + 1 : w[i] = w[i - 1] * radix + DigitValue(es[i])
      <3>1. \A i \in 0..N + 1 : w[i] = IF i = 0 THEN 0 ELSE w[i - 1] * radix + DigitValue(es[i])
        BY <2>1, <2>3 DEF IsValue
      <3> QED
        BY <2>1, <3>1
    <2>6. v[N] = w[N]
      <3>1. \A i \in 1..N : i \in 1..N + 1
        BY <2>1
      <3>2. \A i \in 1..N : v[i - 1] = w[i - 1] => v[i] = w[i]
        BY <2>1, <2>4, <2>5, <3>1
      <3> QED
        BY <2>1, <2>4, <2>5, <3>2, GoOnAlike
    <2>7. w[N + 1] = w[N] * radix + DigitValue(ch)
      <3>1. N + 1 \in 1..N + 1 /\ (N + 1) - 1 = N
        BY <2>1
      <3> QED
        BY <2>1, <2>5, <3>1
    <2> QED
      BY <2>2, <2>3, <2>6, <2>7 DEF es
  <1> QED
    BY <1>1, <1>2, <1>3

-----------------------------------------------------------------------------
(* The pieces of a text                                                    *)

Pieces(S) == Seq(Seq(S)) \ {<<>>}

\* The pieces of a text that has one character more.
More(ps, ch) ==
    IF ch = "." THEN Append(ps, <<>>) ELSE Append(Front(ps), Append(Last(ps), ch))

LEMMA FrontLast ==
    ASSUME NEW S, NEW s \in Seq(S), s # <<>>
    PROVE  /\ Front(s) \in Seq(S) /\ Len(s) - 1 \in Nat /\ Len(Front(s)) = Len(s) - 1
           /\ \A i \in 1 .. Len(s) - 1 : Front(s)[i] = s[i]
           /\ Last(s) = s[Len(s)] /\ Last(s) \in S
  <1>1. Len(s) \in Nat /\ Len(s) # 0 /\ \A i \in 1..Len(s) : s[i] \in S
    BY EmptySeq, LenProperties, ElementOfSeq
  <1>2. Last(s) = s[Len(s)] /\ Len(s) \in 1..Len(s)
    BY <1>1 DEF Last
  <1>3. Front(s) = SubSeq(s, 1, Len(s) - 1)
    BY DEF Front
  <1>4. /\ SubSeq(s, 1, Len(s) - 1) \in Seq(S) /\ Len(SubSeq(s, 1, Len(s) - 1)) = Len(s) - 1
        /\ \A i \in 1 .. Len(s) - 1 : SubSeq(s, 1, Len(s) - 1)[i] = s[i]
    <2>1. ASSUME NEW m \in Nat, m <= Len(s)
          PROVE  /\ SubSeq(s, 1, m) \in Seq(S) /\ Len(SubSeq(s, 1, m)) = m
                 /\ \A i \in 1..m : SubSeq(s, 1, m)[i] = s[i]
      BY <2>1
    <2>2. Len(s) - 1 \in Nat /\ Len(s) - 1 <= Len(s)
      BY <1>1
    <2> QED
      BY <2>1, <2>2
  <1> QED
    BY <1>1, <1>2, <1>3, <1>4

LEMMA MoreFacts ==
    ASSUME NEW S, NEW ps \in Pieces(S), NEW ch \in S
    PROVE  /\ More(ps, ch) \in Pieces(S)
           /\ ch = "." =>
                 /\ Len(More(ps, ch)) = Len(ps) + 1
                 /\ \A i \in 1..Len(ps) : More(ps, ch)[i] = ps[i]
                 /\ Last(More(ps, ch)) = <<>>
           /\ ch # "." =>
                 /\ Len(More(ps, ch)) = Len(ps)
                 /\ \A i \in 1 .. Len(ps) - 1 : More(ps, ch)[i] = ps[i]
                 /\ Last(More(ps, ch)) = Append(Last(ps), ch)
  <1> DEFINE T == Seq(S)
  <1>1. ps \in Seq(T) /\ ps # <<>> /\ Len(ps) \in Nat
    BY LenProperties DEF Pieces
  <1>2. /\ Front(ps) \in Seq(T) /\ Len(Front(ps)) = Len(ps) - 1 /\ Len(ps) - 1 \in Nat
        /\ \A i \in 1 .. Len(ps) - 1 : Front(ps)[i] = ps[i]
        /\ Last(ps) \in T
    <2> HIDE DEF T
    <2> QED
      BY <1>1, FrontLast
  <1>3. <<>> \in T /\ Append(Last(ps), ch) \in T
    BY <1>2, EmptySeq, AppendProperties
  <1> HIDE DEF T
  <1>4. CASE ch = "."
    <2>1. More(ps, ch) = Append(ps, <<>>)
      BY <1>4 DEF More
    <2>2. /\ More(ps, ch) \in Seq(T) /\ More(ps, ch) # <<>> /\ Len(More(ps, ch)) = Len(ps) + 1
          /\ \A i \in 1..Len(ps) : More(ps, ch)[i] = ps[i]
          /\ More(ps, ch)[Len(ps) + 1] = <<>>
      BY <1>1, <1>3, <2>1, AppendProperties
    <2>3. Last(More(ps, ch)) = <<>>
      BY <2>2 DEF Last
    <2> QED
      BY <1>4, <2>2, <2>3 DEF Pieces, T
  <1>5. CASE ch # "."
    <2> DEFINE f == Front(ps)
               e == Append(Last(ps), ch)
    <2>1. More(ps, ch) = Append(f, e)
      BY <1>5 DEF More
    <2>2. f \in Seq(T) /\ e \in T /\ Len(f) = Len(ps) - 1
      BY <1>2, <1>3
    <2> HIDE DEF f, e
    <2>3. /\ More(ps, ch) \in Seq(T) /\ More(ps, ch) # <<>> /\ Len(More(ps, ch)) = Len(f) + 1
          /\ \A i \in 1..Len(f) : More(ps, ch)[i] = f[i]
          /\ More(ps, ch)[Len(f) + 1] = e
      BY <2>1, <2>2, AppendProperties
    <2>4. Len(More(ps, ch)) = Len(ps) /\ \A i \in 1 .. Len(ps) - 1 : More(ps, ch)[i] = ps[i]
      BY <1>1, <1>2, <2>2, <2>3 DEF f
    <2>5. Last(More(ps, ch)) = e
      BY <2>3 DEF Last
    <2> QED
      BY <1>5, <2>3, <2>4, <2>5 DEF Pieces, T, e
  <1> QED
    BY <1>4, <1>5

IsSplit(f, s) ==
    f = [i \in 0..Len(s) |-> IF i = 0 THEN << <<>> >> ELSE More(f[i - 1], s[i])]

LEMMA SplitChosen ==
    ASSUME NEW S, NEW s \in Seq(S)
    PROVE  \E f \in [0..Len(s) -> Pieces(S)] : IsSplit(f, s) /\ Split(s) = f[Len(s)]
  <1> DEFINE N == Len(s)
             T == Pieces(S)
             one == << <<>> >>
             step == [i \in 1..N |-> [x \in T |-> More(x, s[i])]]
  <1>1. N \in Nat /\ \A i \in 1..N : s[i] \in S
    BY LenProperties, ElementOfSeq
  <1>2. one \in T
    <2>1. <<>> \in Seq(S)
      BY EmptySeq
    <2>2. \A R : \A r \in R : <<r>> \in Seq(R) /\ <<r>> # <<>>
      OBVIOUS
    <2> QED
      BY <2>1, <2>2, Zenon DEF Pieces
  <1> HIDE DEF one
  <1>3. step \in [1..N -> [T -> T]]
    <2>1. \A i \in 1..N : \A x \in T : More(x, s[i]) \in T
      BY <1>1, MoreFacts
    <2> HIDE DEF T
    <2> QED
      BY <2>1
  <1> HIDE DEF T
  <1>4. PICK g \in [0..N -> T] : g[0] = one /\ \A i \in 1..N : g[i] = step[i][g[i - 1]]
    <2> HIDE DEF step, N
    <2>1. \E g : Repeats(g, T, one, step, N)
      BY <1>1, <1>2, <1>3, Iterates, Zenon
    <2> QED
      BY <2>1 DEF Repeats
  <1>5. \A i \in 1..N : i # 0 /\ i \in 0..N /\ i - 1 \in 0..N
    BY <1>1
  <1>6. \A i \in 1..N : g[i] = More(g[i - 1], s[i])
    <2>1. \A i \in 1..N : g[i - 1] \in T
      BY <1>4, <1>5
    <2> QED
      BY <1>4, <2>1
  <1>7. IsSplit(g, s)
    <2>1. \A i \in 0..N : g[i] = IF i = 0 THEN one ELSE More(g[i - 1], s[i])
      <3>1. \A i \in 0..N : i = 0 \/ i \in 1..N
        BY <1>1
      <3> QED
        BY <1>4, <1>5, <1>6, <3>1, Zenon
    <2>2. g = [i \in 0..N |-> IF i = 0 THEN one ELSE More(g[i - 1], s[i])]
      BY <1>4, <2>1, Zenon
    <2> QED
      BY <2>2 DEF IsSplit, one
  <1> DEFINE f == CHOOSE f : IsSplit(f, s)
  <1>8. IsSplit(f, s)
    BY <1>7, Zenon
  <1>9. Split(s) = f[Len(s)]
    BY Zenon DEF Split, IsSplit, More
  <1> HIDE DEF f
  <1>10. f \in [0..N -> T]
    <2>1. ASSUME NEW k \in 0..N
          PROVE  f[k] = g[k]
      <3>1. k \in Nat /\ 1..k \subseteq 1..N
        BY <1>1, <2>1
      <3>2. \A i \in 0..N : f[i] = IF i = 0 THEN one ELSE More(f[i - 1], s[i])
        BY <1>8, Zenon DEF IsSplit, one
      <3>3. 0 \in 0..N
        BY <1>1
      <3>4. f[0] = g[0]
        BY <1>4, <3>2, <3>3, Zenon
      <3>5. \A i \in 1..k : f[i] = More(f[i - 1], s[i]) /\ g[i] = More(g[i - 1], s[i])
        BY <1>5, <1>6, <3>1, <3>2, Zenon
      <3>6. \A i \in 1..k : f[i - 1] = g[i - 1] => f[i] = g[i]
        BY <3>5
      <3> QED
        BY <3>1, <3>4, <3>6, GoOnAlike
    <2>2. f = [i \in 0..N |-> f[i]]
      BY <1>8, Zenon DEF IsSplit
    <2> QED
      BY <1>4, <2>1, <2>2
  <1> QED
    BY <1>8, <1>9, <1>10 DEF T

LEMMA SplitFacts ==
    ASSUME NEW S
    PROVE  /\ Split(<<>>) = << <<>> >>
           /\ \A s \in Seq(S) : Split(s) \in Pieces(S)
           /\ \A s \in Seq(S), ch \in S : Split(Append(s, ch)) = More(Split(s), ch)
  <1>1. ASSUME NEW s \in Seq(S)
        PROVE  Split(s) \in Pieces(S)
    <2>1. PICK f \in [0..Len(s) -> Pieces(S)] : Split(s) = f[Len(s)]
      BY SplitChosen
    <2>2. Len(s) \in 0..Len(s)
      BY LenProperties
    <2> QED
      BY <2>1, <2>2
  <1>2. Split(<<>>) = << <<>> >>
    <2>1. <<>> \in Seq(S) /\ Len(<<>>) = 0 /\ 0 \in 0..0
      BY EmptySeq
    <2>2. PICK f : IsSplit(f, <<>>) /\ Split(<<>>) = f[Len(<<>>)]
      BY <2>1, SplitChosen
    <2>3. f[0] = << <<>> >>
      BY <2>1, <2>2, Zenon DEF IsSplit
    <2> QED
      BY <2>1, <2>2, <2>3
  <1>3. ASSUME NEW s \in Seq(S), NEW ch \in S
        PROVE  Split(Append(s, ch)) = More(Split(s), ch)
    <2> DEFINE t == Append(s, ch)
               N == Len(s)
    <2>1. /\ t \in Seq(S) /\ Len(t) = N + 1 /\ N \in Nat
          /\ \A i \in 1..N : t[i] = s[i]
          /\ t[N + 1] = ch
      BY AppendProperties, LenProperties
    <2> HIDE DEF t
    <2>2. PICK f : IsSplit(f, s) /\ Split(s) = f[N]
      BY SplitChosen
    <2>3. PICK g : IsSplit(g, t) /\ Split(t) = g[N + 1]
      BY <2>1, SplitChosen
    <2>4. /\ \A i \in 1..N : i # 0 /\ i \in 0..N /\ i \in 0..N + 1
          /\ N + 1 # 0 /\ N + 1 \in 0..N + 1 /\ (N + 1) - 1 = N
          /\ 0 \in 0..N /\ 0 \in 0..N + 1
      BY <2>1
    <2>5. \A i \in 0..N : f[i] = IF i = 0 THEN << <<>> >> ELSE More(f[i - 1], s[i])
      BY <2>2, Zenon DEF IsSplit
    <2>6. \A i \in 0..N + 1 : g[i] = IF i = 0 THEN << <<>> >> ELSE More(g[i - 1], t[i])
      <3>1. g = [i \in 0..N + 1 |-> IF i = 0 THEN << <<>> >> ELSE More(g[i - 1], t[i])]
        BY <2>1, <2>3 DEF IsSplit
      <3> QED
        BY <3>1, Zenon
    <2>7. f[0] = g[0]
      BY <2>4, <2>5, <2>6, Zenon
    <2>8. \A i \in 1..N : f[i] = More(f[i - 1], s[i]) /\ g[i] = More(g[i - 1], s[i])
      BY <2>1, <2>4, <2>5, <2>6, Zenon
    <2>9. \A i \in 1..N : f[i - 1] = g[i - 1] => f[i] = g[i]
      BY <2>8
    <2>10. f[N] = g[N]
      BY <2>1, <2>7, <2>9, GoOnAlike
    <2>11. g[N + 1] = More(g[N], ch)
      BY <2>1, <2>4, <2>6, Zenon
    <2> QED
      BY <2>2, <2>3, <2>10, <2>11 DEF t
  <1> QED
    BY <1>1, <1>2, <1>3

-----------------------------------------------------------------------------
(* The numbers a text consists of                                          *)

\* A remainder may be taken before a digit is added.
LEMMA ShiftedRemainder ==
    ASSUME NEW w \in Nat \ {0}, NEW v \in Nat, NEW r \in Nat, NEW d \in Nat
    PROVE  ((v % w) * r + d) % w = (v * r + d) % w
  <1> DEFINE q == v \div w
             m == v % w
             x == m * r + d
             q2 == x \div w
             m2 == x % w
  <1>1. q \in Nat /\ m \in 0 .. w - 1 /\ v = w * q + m
    BY Euclid
  <1> HIDE DEF q, m
  <1>2. x \in Nat
    BY <1>1
  <1> HIDE DEF x
  <1>3. q2 \in Nat /\ m2 \in 0 .. w - 1 /\ x = w * q2 + m2
    BY <1>2, Euclid
  <1> HIDE DEF q2, m2
  <1>4. v * r + d = (q * r + q2) * w + m2
    <2>1. v * r = w * q * r + m * r
      BY <1>1
    <2>2. m * r + d = w * q2 + m2
      BY <1>3 DEF x
    <2>3. (q * r + q2) * w = w * q * r + w * q2
      BY <1>1, <1>3
    <2>4. /\ w * q * r \in Nat /\ m * r \in Nat /\ w * q2 \in Nat /\ m2 \in Nat
      BY <1>1, <1>3
    <2> QED
      BY <2>1, <2>2, <2>3, <2>4
  <1>5. q * r + q2 \in Nat
    BY <1>1, <1>3
  <1>6. ((q * r + q2) * w + m2) % w = m2
    BY <1>3, <1>5, Place
  <1> QED
    BY <1>4, <1>6 DEF x, m, m2

RadixOf(p) == IF Prefixed(p) THEN 16 ELSE IF p[1] = "0" THEN 8 ELSE 10

LEMMA SeqOfElements ==
    ASSUME NEW S, NEW p \in Seq(S), NEW T
    PROVE  Range(p) \subseteq T <=> p \in Seq(T)
  <1>1. Len(p) \in Nat /\ DOMAIN p = 1..Len(p) /\ p \in [1..Len(p) -> S]
    BY LenProperties
  <1>2. ASSUME Range(p) \subseteq T PROVE p \in Seq(T)
    <2>1. \A i \in 1..Len(p) : p[i] \in T
      BY <1>1, <1>2 DEF Range
    <2>2. p \in [1..Len(p) -> T]
      BY <1>1, <2>1
    <2> QED
      BY <1>1, <2>2, SeqDef
  <1>3. ASSUME p \in Seq(T) PROVE Range(p) \subseteq T
    <2>1. \A i \in 1..Len(p) : p[i] \in T
      BY <1>3, ElementOfSeq
    <2> QED
      BY <1>1, <2>1 DEF Range
  <1> QED
    BY <1>2, <1>3

\* A number of the texts that ip4addr_aton takes is a sequence of digits of its
\* radix, with or without a prefix.
LEMMA NumberDigits ==
    ASSUME NEW S, NEW p \in Seq(S)
    PROVE  /\ Prefixed(p) => /\ ReadsAsNumber(p) <=> SubSeq(p, 3, Len(p)) \in Seq(Hex)
                             /\ NumberOf(p) = Value(SubSeq(p, 3, Len(p)), 16)
           /\ (~Prefixed(p) /\ p # <<>>) => /\ ReadsAsNumber(p) <=> p \in Seq(Decimal)
                                            /\ NumberOf(p) = Value(p, RadixOf(p))
  <1> DEFINE rest == SubSeq(p, 3, Len(p))
  <1>1. Len(p) \in Nat /\ \A i \in 1..Len(p) : p[i] \in S
    BY LenProperties, ElementOfSeq
  <1>2. CASE Prefixed(p)
    <2>1. Len(p) >= 2 /\ p[2] = "x"
      BY <1>2 DEF Prefixed
    <2>2. rest \in Seq(S)
      BY <1>1, SubSeqProperties
    <2>3. p \notin Seq(Decimal)
      <3>1. "x" \notin Decimal
        BY DigitFacts, Zenon
      <3>2. 2 \in 1..Len(p)
        BY <1>1, <2>1
      <3>3. p[2] \notin Decimal
        BY <2>1, <3>1, Zenon
      <3> QED
        BY <3>2, <3>3, ElementOfSeq
    <2>4. ~(Range(p) \subseteq Decimal)
      BY <2>3, SeqOfElements
    <2>5. p # <<>>
      BY <2>1
    <2>6. Range(rest) \subseteq Hex <=> rest \in Seq(Hex)
      BY <2>2, SeqOfElements
    <2> HIDE DEF rest
    <2>7. ReadsAsNumber(p) <=> rest \in Seq(Hex)
      BY <1>2, <2>4, <2>5, <2>6, Zenon DEF ReadsAsNumber, rest
    <2>8. NumberOf(p) = Value(rest, 16)
      BY <1>2, Zenon DEF NumberOf, rest
    <2> QED
      BY <1>2, <2>7, <2>8 DEF rest
  <1>3. CASE ~Prefixed(p) /\ p # <<>>
    <2>1. Range(p) \subseteq Decimal <=> p \in Seq(Decimal)
      BY SeqOfElements
    <2>2. ReadsAsNumber(p) <=> p \in Seq(Decimal)
      BY <1>3, <2>1, Zenon DEF ReadsAsNumber
    <2>3. NumberOf(p) = Value(p, RadixOf(p))
      BY <1>3, Zenon DEF NumberOf, RadixOf
    <2> QED
      BY <1>3, <2>2, <2>3
  <1> QED
    BY <1>2, <1>3

LEMMA RadixIsNat == \A p : RadixOf(p) \in {8, 10, 16} /\ RadixOf(p) \in Nat
  BY DEF RadixOf

LEMMA DecimalIsHex == \A ds \in Seq(Decimal) : ds \in Seq(Hex)
  BY DigitFacts, SeqMonotonic, Zenon

LEMMA NumberIsNat ==
    ASSUME NEW S, NEW p \in Seq(S), ReadsAsNumber(p)
    PROVE  NumberOf(p) \in Nat
  <1>1. CASE Prefixed(p)
    <2>1. SubSeq(p, 3, Len(p)) \in Seq(Hex) /\ NumberOf(p) = Value(SubSeq(p, 3, Len(p)), 16)
      BY <1>1, NumberDigits
    <2> QED
      BY <2>1, ValueFacts
  <1>2. CASE ~Prefixed(p)
    <2>1. p # <<>>
      BY DEF ReadsAsNumber
    <2>2. p \in Seq(Decimal) /\ NumberOf(p) = Value(p, RadixOf(p))
      BY <1>2, <2>1, NumberDigits
    <2>3. p \in Seq(Hex)
      BY <2>2, DecimalIsHex
    <2> QED
      BY <2>2, <2>3, RadixIsNat, ValueFacts
  <1> QED
    BY <1>1, <1>2

\* A number of one digit.
LEMMA FirstDigit ==
    ASSUME NEW S, NEW ch \in S, ch \in Decimal
    PROVE  /\ ReadsAsNumber(Append(<<>>, ch)) /\ ~Prefixed(Append(<<>>, ch))
           /\ NumberOf(Append(<<>>, ch)) = DigitValue(ch)
           /\ RadixOf(Append(<<>>, ch)) = IF ch = "0" THEN 8 ELSE 10
  <1> DEFINE p == Append(<<>>, ch)
  <1>1. /\ p \in Seq(Decimal) /\ Len(p) = 1 /\ p[1] = ch /\ p # <<>> /\ <<>> \in Seq(Hex)
    <2>1. <<>> \in Seq(Decimal) /\ Len(<<>>) = 0 /\ <<>> \in Seq(Hex)
      BY EmptySeq
    <2> QED
      BY <2>1, AppendProperties
  <1> HIDE DEF p
  <1>2. ~Prefixed(p)
    BY <1>1 DEF Prefixed
  <1>3. ReadsAsNumber(p) /\ NumberOf(p) = Value(p, RadixOf(p))
    BY <1>1, <1>2, NumberDigits
  <1>4. RadixOf(p) = IF ch = "0" THEN 8 ELSE 10
    BY <1>1, <1>2, Zenon DEF RadixOf
  <1>5. ch \in Hex /\ DigitValue(ch) \in Nat
    BY DigitFacts
  <1>6. Value(p, RadixOf(p)) = DigitValue(ch)
    <2>1. /\ Value(<<>>, RadixOf(p)) = 0
          /\ Value(p, RadixOf(p)) = Value(<<>>, RadixOf(p)) * RadixOf(p) + DigitValue(ch)
      BY <1>1, <1>5, RadixIsNat, ValueFacts DEF p
    <2>2. RadixOf(p) \in Nat
      BY RadixIsNat
    <2> QED
      BY <1>5, <2>1, <2>2
  <1> QED
    BY <1>2, <1>3, <1>4, <1>6 DEF p

\* A prefix without digits is a number too.
LEMMA OnlyPrefix ==
    /\ ReadsAsNumber(Append(<<"0">>, "x")) /\ Prefixed(Append(<<"0">>, "x"))
    /\ NumberOf(Append(<<"0">>, "x")) = 0
    /\ RadixOf(Append(<<"0">>, "x")) = 16
  <1> DEFINE p == Append(<<"0">>, "x")
  <1>1. /\ Len(p) = 2 /\ p[1] = "0" /\ p[2] = "x" /\ p \in Seq({"0", "x"})
    OBVIOUS
  <1>2. SubSeq(p, 3, Len(p)) = <<>>
    BY <1>1, SubSeqEmpty
  <1> HIDE DEF p
  <1>3. Prefixed(p)
    BY <1>1 DEF Prefixed
  <1>4. <<>> \in Seq(Hex)
    BY EmptySeq
  <1>5. ReadsAsNumber(p) /\ NumberOf(p) = Value(<<>>, 16)
    BY <1>1, <1>2, <1>3, <1>4, NumberDigits
  <1>6. Value(<<>>, 16) = 0
    BY ValueFacts
  <1>7. RadixOf(p) = 16
    BY <1>3, Zenon DEF RadixOf
  <1> QED
    BY <1>3, <1>5, <1>6, <1>7 DEF p

\* One digit more.
LEMMA NextDigit ==
    ASSUME NEW S, NEW p \in Seq(S), NEW ch \in S, ReadsAsNumber(p),
           ch \in (IF Prefixed(p) THEN Hex ELSE Decimal)
    PROVE  /\ ReadsAsNumber(Append(p, ch)) /\ RadixOf(Append(p, ch)) = RadixOf(p)
           /\ NumberOf(Append(p, ch)) = NumberOf(p) * RadixOf(p) + DigitValue(ch)
  <1> DEFINE q == Append(p, ch)
             n == Len(p)
  <1>1. p # <<>>
    BY DEF ReadsAsNumber
  <1>2. /\ n \in Nat /\ n >= 1 /\ q \in Seq(S) /\ Len(q) = n + 1 /\ q # <<>>
        /\ \A i \in 1..n : q[i] = p[i]
        /\ q[n + 1] = ch
    BY <1>1, EmptySeq, LenProperties, AppendProperties
  <1>3. ch \in Hex /\ ch # "x"
    BY DigitFacts
  <1>4. q[1] = p[1]
    BY <1>2
  <1> HIDE DEF q, n
  <1>5. Prefixed(q) <=> Prefixed(p)
    <2>1. CASE n >= 2
      <3>1. q[2] = p[2] /\ Len(q) >= 2
        BY <1>2, <2>1
      <3> QED
        BY <1>4, <2>1, <3>1, Zenon DEF Prefixed, n
    <2>2. CASE n = 1
      <3>1. q[2] = ch /\ ~(Len(p) >= 2)
        BY <1>2, <2>2 DEF n
      <3> QED
        BY <1>3, <3>1, Zenon DEF Prefixed
    <2> QED
      BY <1>2, <2>1, <2>2
  <1>6. RadixOf(q) = RadixOf(p)
    BY <1>4, <1>5, Zenon DEF RadixOf
  <1>7. CASE Prefixed(p)
    <2> DEFINE r == SubSeq(p, 3, n)
               s == SubSeq(q, 3, n + 1)
    <2>1. n >= 2
      BY <1>7 DEF Prefixed, n
    <2>2. r \in Seq(Hex) /\ NumberOf(p) = Value(r, 16)
      BY <1>7, NumberDigits DEF n
    <2>3. Prefixed(q) => /\ ReadsAsNumber(q) <=> s \in Seq(Hex)
                         /\ NumberOf(q) = Value(s, 16)
      BY <1>2, NumberDigits
    <2>4. s = Append(r, ch)
      <3>1. /\ r \in Seq(S) /\ Len(r) = n - 2 /\ \A i \in 1 .. n - 2 : r[i] = p[i + 2]
        <4>1. \A i \in 3..n : p[i] \in S
          BY <1>2, ElementOfSeq DEF n
        <4>2. /\ r \in Seq(S) /\ Len(r) = (IF 3 <= n THEN n - 3 + 1 ELSE 0)
              /\ \A i \in 1 .. n - 3 + 1 : r[i] = p[3 + i - 1]
          BY <1>2, <4>1, SubSeqProperties
        <4> QED
          BY <1>2, <2>1, <4>2
      <3>2. /\ s \in Seq(S) /\ Len(s) = n - 1 /\ \A i \in 1 .. n - 1 : s[i] = q[i + 2]
        <4>1. \A i \in 3 .. n + 1 : q[i] \in S
          BY <1>2, ElementOfSeq
        <4>2. /\ s \in Seq(S) /\ Len(s) = (IF 3 <= n + 1 THEN (n + 1) - 3 + 1 ELSE 0)
              /\ \A i \in 1 .. (n + 1) - 3 + 1 : s[i] = q[3 + i - 1]
          <5>1. n + 1 \in Int /\ 3 \in Int
            BY <1>2
          <5> QED
            BY <4>1, <5>1, SubSeqProperties
        <4> QED
          BY <1>2, <2>1, <4>2
      <3> DEFINE a == Append(r, ch)
      <3>3. /\ a \in Seq(S) /\ Len(a) = n - 1
            /\ \A i \in 1 .. n - 2 : a[i] = r[i]
            /\ a[n - 1] = ch
        <4>1. /\ a \in Seq(S) /\ Len(a) = Len(r) + 1
              /\ \A i \in 1..Len(r) : a[i] = r[i]
              /\ a[Len(r) + 1] = ch
          BY <3>1, AppendProperties
        <4>2. Len(r) + 1 = n - 1
          BY <1>2, <3>1
        <4> QED
          BY <3>1, <4>1, <4>2
      <3> HIDE DEF a, r, s
      <3>4. \A i \in 1 .. n - 1 : s[i] = a[i]
        <4> TAKE i \in 1 .. n - 1
        <4>1. CASE i = n - 1
          <5>1. i + 2 = n + 1
            BY <1>2, <4>1
          <5> QED
            BY <1>2, <3>2, <3>3, <4>1, <5>1
        <4>2. CASE i # n - 1
          <5>1. i \in 1 .. n - 2 /\ i + 2 \in 1..n
            BY <1>2, <4>2
          <5> QED
            BY <1>2, <3>1, <3>2, <3>3, <5>1
        <4> QED
          BY <4>1, <4>2
      <3> QED
        BY <3>2, <3>3, <3>4, SeqEqual DEF a
    <2> HIDE DEF r, s
    <2>5. /\ Append(r, ch) \in Seq(Hex)
          /\ Value(Append(r, ch), 16) = Value(r, 16) * 16 + DigitValue(ch)
      BY <1>3, <2>2, ValueFacts, AppendProperties
    <2>6. RadixOf(p) = 16
      BY <1>7, Zenon DEF RadixOf
    <2> QED
      BY <1>5, <1>6, <1>7, <2>2, <2>3, <2>4, <2>5, <2>6 DEF q
  <1>8. CASE ~Prefixed(p)
    <2>1. p \in Seq(Decimal) /\ NumberOf(p) = Value(p, RadixOf(p))
      BY <1>1, <1>8, NumberDigits
    <2>2. ch \in Decimal
      BY <1>8
    <2>3. q \in Seq(Decimal)
      BY <2>1, <2>2, AppendProperties DEF q
    <2>4. ReadsAsNumber(q) /\ NumberOf(q) = Value(q, RadixOf(q))
      BY <1>2, <1>5, <1>8, <2>3, NumberDigits
    <2>5. p \in Seq(Hex)
      BY <2>1, DecimalIsHex
    <2>6. Value(q, RadixOf(p)) = Value(p, RadixOf(p)) * RadixOf(p) + DigitValue(ch)
      BY <1>3, <2>5, RadixIsNat, ValueFacts DEF q
    <2> QED
      BY <1>6, <2>1, <2>4, <2>6 DEF q
  <1> QED
    BY <1>7, <1>8

-----------------------------------------------------------------------------
(* What ip4addr_aton has read and stores                                   *)

\* What n parts and the value after them stand for.
Bytes4(n) == [i \in 1..4 |-> IF i <= n THEN parts[i] ELSE (val \div Values(4 - i)) % Byte]

LEMMA ValuesGrow ==
    \A k \in 0..4, l \in 0..4 : k <= l => Values(k) <= Values(l)
  <1> DEFINE B == Byte
  <1>1. B \in Nat /\ B >= 1 /\ B * B \in Nat \ {0} /\ B * B * B \in Nat \ {0}
    BY ValuesFacts
  <1> HIDE DEF B
  <1>2. 1 <= B /\ B <= B * B
    BY <1>1
  <1>3. B * B <= B * B * B
    BY <1>1
  <1>4. B * B * B <= B * B * B * B
    BY <1>1
  <1>5. /\ Values(0) <= Values(1) /\ Values(1) <= Values(2)
        /\ Values(2) <= Values(3) /\ Values(3) <= Values(4)
    BY <1>2, <1>3, <1>4, ValuesFacts DEF B
  <1>6. \A k \in 0..4 : Values(k) \in Nat
    BY ValuesFacts
  <1>7. \A k \in 0..4 : k = 0 \/ k = 1 \/ k = 2 \/ k = 3 \/ k = 4
    OBVIOUS
  <1> QED
    BY <1>5, <1>6, <1>7

\* The parts before the last are whole bytes, so the value after them is added
\* to a word that has zeros where it has bytes.
LEMMA Stored ==
    ASSUME val \in 0 .. Word - 1, NEW n \in 0..3, val < Values(4 - n),
           \A i \in 1..n : parts[i] \in 0 .. Byte - 1
    PROVE  Memory(toNetwork(Concocted(n))) = Bytes4(n)
  <1> DEFINE v == [i \in 1..4 |-> (val \div Values(4 - i)) % Byte]
             d == Bytes4(n)
  <1>1. \A i \in 1..4 : (val \div Values(4 - i)) % Byte \in 0 .. Byte - 1
    <2> TAKE i \in 1..4
    <2>1. Values(4 - i) \in Nat \ {0} /\ Byte \in Nat \ {0} /\ val \in Nat
      BY ValuesFacts
    <2>2. val \div Values(4 - i) \in Nat
      BY <2>1, Euclid
    <2> QED
      BY <2>1, <2>2, Euclid
  <1>2. val = from4bytes(v)
    <2>1. \A i \in 1..4 : 5 - i \in 1..4 /\ (5 - i) - 1 = 4 - i /\ 4 - i < 4
      OBVIOUS
    <2>2. v = [i \in 1..4 |-> Memory(val)[5 - i]]
      BY <2>1 DEF Memory, At
    <2> QED
      BY <2>2, WordOfBytes
  <1>3. d \in [1..4 -> 0 .. Byte - 1]
    BY <1>1 DEF Bytes4
  <1>4. ASSUME NEW i \in 1..4, i <= n PROVE v[i] = 0
    <2>1. Values(4 - n) <= Values(4 - i)
      BY <1>4, ValuesGrow
    <2>2. Values(4 - i) \in Nat \ {0} /\ Values(4 - n) \in Nat /\ val \in Nat
      BY ValuesFacts
    <2>3. val \in 0 .. Values(4 - i) - 1
      BY <2>1, <2>2
    <2> DEFINE w == Values(4 - i)
    <2> HIDE DEF w
    <2>4. (0 * w + val) \div w = 0 /\ 0 * w + val = val
      <3>1. w \in Nat \ {0} /\ val \in 0 .. w - 1 /\ 0 \in Nat
        BY <2>2, <2>3 DEF w
      <3>2. 0 * w = 0 /\ 0 * w + val = val
        BY <3>1
      <3>3. (0 * w + val) \div w = 0
        BY <3>1, Place
      <3> QED
        BY <3>2, <3>3
    <2>5. val \div w = 0
      BY <2>4
    <2>6. 0 % Byte = 0
      BY ValuesFacts
    <2> QED
      BY <2>5, <2>6 DEF w
  <1>5. \A i \in 1..4 : IF i <= n THEN d[i] = parts[i] /\ v[i] = 0 ELSE d[i] = v[i]
    BY <1>4 DEF Bytes4
  <1>6. \A i \in 1..4 : v[i] \in Nat /\ d[i] \in Nat
    BY <1>1, <1>3, ValuesFacts
  <1>7. Concocted(n) = from4bytes(d)
    <2> DEFINE e == [i \in 1..4 |-> IF i <= n THEN parts[i] ELSE 0]
    <2>1. \A i \in 1..4 : e[i] \in Nat /\ d[i] = e[i] + v[i]
      BY <1>5, <1>6
    <2> HIDE DEF e, v, d
    <2>2. Values(1) \in Nat /\ Values(2) \in Nat /\ Values(3) \in Nat
      BY ValuesFacts
    <2>3. \A i \in 1..4, w \in Nat : d[i] * w = e[i] * w + v[i] * w
      BY <1>6, <2>1
    <2>4. /\ d[1] * Values(3) = e[1] * Values(3) + v[1] * Values(3)
          /\ d[2] * Values(2) = e[2] * Values(2) + v[2] * Values(2)
          /\ d[3] * Values(1) = e[3] * Values(1) + v[3] * Values(1)
          /\ d[4] = e[4] + v[4]
      BY <2>1, <2>2, <2>3
    <2>5. \A i \in 1..4, w \in Nat : e[i] * w \in Nat /\ v[i] * w \in Nat
      BY <1>6, <2>1
    <2>6. /\ e[1] * Values(3) \in Nat /\ v[1] * Values(3) \in Nat
          /\ e[2] * Values(2) \in Nat /\ v[2] * Values(2) \in Nat
          /\ e[3] * Values(1) \in Nat /\ v[3] * Values(1) \in Nat
          /\ e[4] \in Nat /\ v[4] \in Nat
      <3>1. 1 \in 1..4 /\ 2 \in 1..4 /\ 3 \in 1..4 /\ 4 \in 1..4
        OBVIOUS
      <3>2. e[4] \in Nat /\ v[4] \in Nat
        BY <1>6, <2>1, <3>1
      <3> QED
        BY <2>2, <2>5, <3>1, <3>2, Zenon
    <2>7. from4bytes(d) = from4bytes(e) + from4bytes(v)
      BY <2>4, <2>6 DEF from4bytes
    <2> QED
      BY <1>2, <2>7 DEF Concocted, e
  <1>8. from4bytes(d) \in Nat /\ Memory(from4bytes(d)) = [i \in 1..4 |-> d[5 - i]]
    BY <1>3, BytesOfWord, ValuesFacts
  <1>9. Memory(toNetwork(from4bytes(d))) = [i \in 1..4 |-> [j \in 1..4 |-> d[5 - j]][5 - i]]
    BY <1>8, MemoryType
  <1> HIDE DEF d
  <1>10. Memory(toNetwork(from4bytes(d))) = d
    BY <1>3, <1>9, Reversed
  <1> QED
    BY <1>7, <1>10 DEF d

\* What has been read of the text is pieces between dots: complete numbers, and
\* the piece that ip4addr_aton is in.
ReadSoFar ==
    LET ps == Split(Front(text))
        p == Last(ps)
    IN  /\ Len(ps) = Len(parts) + 1
        /\ \A i \in 1..Len(parts) : ReadsAsNumber(ps[i]) /\ parts[i] = NumberOf(ps[i]) % Word
        /\ at = "number" => p = <<>>
        /\ at = "prefix" => p = <<"0">> /\ val = 0
        /\ (at = "digits" /\ p = <<>>) =>
               val = 0 /\ base = 10 /\ c \in Decimal /\ c # "0"
        /\ (at = "digits" /\ p # <<>>) =>
               ReadsAsNumber(p) /\ val = NumberOf(p) % Word /\ base = RadixOf(p)

AtonInv ==
    /\ AddressInv
    /\ at = "begin" => parts = <<>>
    /\ at \in {"number", "prefix", "digits"} => ReadSoFar
    /\ AtonReadsText

LEMMA FrontAppend ==
    ASSUME NEW S, NEW s \in Seq(S), NEW ch \in S
    PROVE  Front(Append(s, ch)) = s
  <1> DEFINE a == Append(s, ch)
  <1>1. /\ a \in Seq(S) /\ a # <<>> /\ Len(a) = Len(s) + 1 /\ Len(s) \in Nat
        /\ \A i \in 1..Len(s) : a[i] = s[i]
    BY AppendProperties, LenProperties
  <1> HIDE DEF a
  <1>2. /\ Front(a) \in Seq(S) /\ Len(Front(a)) = Len(a) - 1
        /\ \A i \in 1 .. Len(a) - 1 : Front(a)[i] = a[i]
    BY <1>1, FrontLast
  <1>3. Len(Front(a)) = Len(s) /\ \A i \in 1..Len(s) : Front(a)[i] = s[i]
    BY <1>1, <1>2
  <1>4. Front(a) = s
    BY <1>2, <1>3, SeqEqual
  <1> QED
    BY <1>4 DEF a

LEMMA AdvanceReads ==
    ASSUME AddressTypeOK, Advance
    PROVE  Front(text') = text
  <1> DEFINE S == Chars \cup {Nul}
  <1>1. text \in Seq(S)
    BY DEF AddressTypeOK
  <1>2. PICK ch \in S : text' = Append(text, ch)
    BY DEF Advance
  <1> HIDE DEF S
  <1> QED
    BY <1>1, <1>2, FrontAppend

\* The text without its last character, and the pieces of it.
LEMMA TextFacts ==
    ASSUME AddressTypeOK, text # <<>>
    PROVE  LET ps == Split(Front(text))
               p == Last(ps)
           IN  /\ c \in Chars \cup {Nul}
               /\ Split(text) = More(ps, c)
               /\ ps \in Pieces(Chars \cup {Nul})
               /\ Len(ps) \in Nat /\ Len(ps) >= 1 /\ p = ps[Len(ps)]
               /\ p \in Seq(Chars \cup {Nul})
  <1> DEFINE S == Chars \cup {Nul}
             s == Front(text)
             ps == Split(s)
  <1>1. text \in Seq(S) /\ Len(text) \in Nat
    BY LenProperties DEF AddressTypeOK
  <1>2. /\ s \in Seq(S) /\ Len(text) - 1 \in Nat /\ Len(s) = Len(text) - 1
        /\ \A i \in 1 .. Len(text) - 1 : s[i] = text[i]
        /\ c = text[Len(text)] /\ c \in S
    <2> HIDE DEF S
    <2> QED
      BY <1>1, FrontLast DEF c
  <1> HIDE DEF S, s
  <1>3. text = Append(s, c)
    <2> DEFINE a == Append(s, c)
    <2>1. /\ a \in Seq(S) /\ Len(a) = Len(s) + 1
          /\ \A i \in 1..Len(s) : a[i] = s[i]
          /\ a[Len(s) + 1] = c
      BY <1>2, AppendProperties
    <2> HIDE DEF a
    <2>2. Len(a) = Len(text)
      BY <1>1, <1>2, <2>1
    <2>3. \A i \in 1..Len(text) : a[i] = text[i]
      BY <1>1, <1>2, <2>1
    <2>4. a = text
      BY <1>1, <2>1, <2>2, <2>3, SeqEqual
    <2> QED
      BY <2>4 DEF a
  <1>4. Split(text) = More(ps, c) /\ ps \in Pieces(S)
    BY <1>2, <1>3, SplitFacts
  <1> HIDE DEF ps
  <1>5. ps \in Seq(Seq(S)) /\ ps # <<>>
    BY <1>4 DEF Pieces
  <1>6. Len(ps) - 1 \in Nat /\ Last(ps) = ps[Len(ps)] /\ Last(ps) \in Seq(S)
    BY <1>5, FrontLast
  <1>7. Len(ps) \in Nat /\ Len(ps) >= 1
    BY <1>5, <1>6, LenProperties
  <1> QED
    BY <1>2, <1>4, <1>6, <1>7 DEF ps, S, s

\* ReadSoFar after a step, told of the pieces that have been read by then.
ReadOn(ps) ==
    LET p == Last(ps)
    IN  /\ Len(ps) = Len(parts') + 1
        /\ \A i \in 1..Len(parts') : ReadsAsNumber(ps[i]) /\ parts'[i] = NumberOf(ps[i]) % Word
        /\ at' = "number" => p = <<>>
        /\ at' = "prefix" => p = <<"0">> /\ val' = 0
        /\ (at' = "digits" /\ p = <<>>) =>
               val' = 0 /\ base' = 10 /\ c' \in Decimal /\ c' # "0"
        /\ (at' = "digits" /\ p # <<>>) =>
               ReadsAsNumber(p) /\ val' = NumberOf(p) % Word /\ base' = RadixOf(p)

LEMMA ReadOnPrimed == ReadSoFar' <=> ReadOn(Split(Front(text')))
  BY DEF ReadSoFar, ReadOn

LEMMA InitAton == AddressInit => AtonInv
  BY InitAddress DEF AddressInit, AtonInv, AtonReadsText

LEMMA BeginRead ==
    ASSUME AtonInv, Begin
    PROVE  ReadSoFar'
  <1>1. /\ at = "begin" /\ at' = "number" /\ Advance /\ parts' = <<>>
    BY DEF AtonInv, Begin
  <1>2. AddressTypeOK /\ text = <<>>
    BY <1>1 DEF AtonInv, AddressInv, TextRead
  <1>3. Split(Front(text')) = << <<>> >>
    BY <1>1, <1>2, AdvanceReads, SplitFacts
  <1>4. Len(<< <<>> >>) = 1 /\ Last(<< <<>> >>) = <<>> /\ Len(<<>>) = 0 /\ 1..0 = {}
    BY DEF Last
  <1>5. ReadOn(<< <<>> >>)
    BY <1>1, <1>4 DEF ReadOn
  <1> QED
    BY <1>3, <1>5, ReadOnPrimed

\* A character that is no dot is read: only the last piece grows.
LEMMA PieceGrows ==
    ASSUME AtonInv, at \in {"number", "prefix", "digits"}, Advance, c # ".", parts' = parts
    PROVE  LET ps == Split(Front(text))
               qs == Split(Front(text'))
           IN  /\ Len(qs) = Len(parts') + 1 /\ Last(qs) = Append(Last(ps), c)
               /\ \A i \in 1..Len(parts') :
                     ReadsAsNumber(qs[i]) /\ parts'[i] = NumberOf(qs[i]) % Word
               /\ Last(ps) \in Seq(Chars \cup {Nul}) /\ c \in Chars \cup {Nul}
               /\ Last(qs) # <<>>
  <1> DEFINE S == Chars \cup {Nul}
             ps == Split(Front(text))
             qs == Split(Front(text'))
  <1>1. AddressTypeOK /\ text # <<>> /\ ReadSoFar
    BY DEF AtonInv, AddressInv, TextRead
  <1>2. qs = More(ps, c)
    BY <1>1, AdvanceReads, TextFacts
  <1>3. /\ c \in S /\ ps \in Pieces(S) /\ Len(ps) \in Nat /\ Last(ps) \in Seq(S)
    BY <1>1, TextFacts
  <1>4. /\ Len(ps) = Len(parts) + 1
        /\ \A i \in 1..Len(parts) : ReadsAsNumber(ps[i]) /\ parts[i] = NumberOf(ps[i]) % Word
    BY <1>1 DEF ReadSoFar
  <1> HIDE DEF S, ps, qs
  <1>5. /\ Len(qs) = Len(ps) /\ Last(qs) = Append(Last(ps), c)
        /\ \A i \in 1 .. Len(ps) - 1 : qs[i] = ps[i]
    BY <1>2, <1>3, MoreFacts
  <1>6. Last(qs) # <<>>
    BY <1>3, <1>5, AppendProperties
  <1>7. Len(parts) \in Nat /\ Len(ps) - 1 = Len(parts)
    BY <1>1, <1>4, LenProperties DEF AddressTypeOK
  <1>8. \A i \in 1..Len(parts') : ReadsAsNumber(qs[i]) /\ parts'[i] = NumberOf(qs[i]) % Word
    BY <1>4, <1>5, <1>7
  <1> QED
    BY <1>3, <1>4, <1>5, <1>6, <1>8 DEF S, ps, qs

LEMMA NumberBeginsRead ==
    ASSUME AtonInv, NumberBegins, at' # "returned"
    PROVE  ReadSoFar'
  <1>1. /\ at = "number" /\ parts' = parts /\ c \in Decimal /\ val' = 0 /\ base' = 10
        /\ IF c = "0" THEN Advance /\ at' = "prefix" ELSE at' = "digits" /\ text' = text
    BY DEF NumberBegins, AtonReturn
  <1>2. AddressTypeOK /\ text # <<>> /\ ReadSoFar
    BY <1>1 DEF AtonInv, AddressInv, TextRead
  <1>3. Last(Split(Front(text))) = <<>>
    BY <1>1, <1>2 DEF ReadSoFar
  <1>4. CASE c = "0"
    <2> DEFINE qs == Split(Front(text'))
    <2>1. /\ Len(qs) = Len(parts') + 1 /\ Last(qs) = Append(<<>>, "0")
          /\ \A i \in 1..Len(parts') : ReadsAsNumber(qs[i]) /\ parts'[i] = NumberOf(qs[i]) % Word
      <3>1. c # "."
        BY <1>4
      <3> QED
        BY <1>1, <1>3, <1>4, <3>1, PieceGrows
    <2> HIDE DEF qs
    <2>2. Append(<<>>, "0") = <<"0">>
      OBVIOUS
    <2>3. ReadOn(qs)
      BY <1>1, <1>4, <2>1, <2>2 DEF ReadOn
    <2> QED
      BY <2>3, ReadOnPrimed DEF qs
  <1>5. CASE c # "0"
    <2>1. c' = c /\ text' = text /\ at' = "digits"
      BY <1>1, <1>5 DEF c
    <2> DEFINE ps == Split(Front(text))
    <2>2. Last(ps) = <<>>
      BY <1>3
    <2>3. /\ Len(ps) = Len(parts) + 1
          /\ \A i \in 1..Len(parts) : ReadsAsNumber(ps[i]) /\ parts[i] = NumberOf(ps[i]) % Word
      BY <1>2 DEF ReadSoFar
    <2> HIDE DEF ps
    <2>4. ReadOn(ps)
      BY <1>1, <1>5, <2>1, <2>2, <2>3 DEF ReadOn
    <2> QED
      BY <2>1, <2>4, ReadOnPrimed DEF ps
  <1> QED
    BY <1>4, <1>5

LEMMA PrefixRead ==
    ASSUME AtonInv, Prefix
    PROVE  ReadSoFar'
  <1>1. /\ at = "prefix" /\ at' = "digits" /\ parts' = parts /\ val' = val
        /\ IF c = "x" THEN base' = 16 /\ Advance ELSE base' = 8 /\ text' = text
    BY DEF Prefix
  <1>2. AddressTypeOK /\ text # <<>> /\ ReadSoFar
    BY <1>1 DEF AtonInv, AddressInv, TextRead
  <1>3. Last(Split(Front(text))) = <<"0">> /\ val = 0
    BY <1>1, <1>2 DEF ReadSoFar
  <1>4. Word \in Nat \ {0} /\ 0 % Word = 0
    BY ValuesFacts
  <1>5. CASE c = "x"
    <2> DEFINE qs == Split(Front(text'))
               q == Append(<<"0">>, "x")
    <2>1. /\ Len(qs) = Len(parts') + 1 /\ Last(qs) = q /\ q # <<>>
          /\ \A i \in 1..Len(parts') : ReadsAsNumber(qs[i]) /\ parts'[i] = NumberOf(qs[i]) % Word
      <3>1. c # "."
        BY <1>5
      <3> QED
        BY <1>1, <1>3, <1>5, <3>1, PieceGrows
    <2>2. ReadsAsNumber(q) /\ NumberOf(q) = 0 /\ RadixOf(q) = 16
      BY OnlyPrefix
    <2> HIDE DEF qs, q
    <2>3. ReadOn(qs)
      BY <1>1, <1>3, <1>4, <1>5, <2>1, <2>2 DEF ReadOn
    <2> QED
      BY <2>3, ReadOnPrimed DEF qs
  <1>6. CASE c # "x"
    <2>1. text' = text /\ base' = 8
      BY <1>1, <1>6
    <2> DEFINE ps == Split(Front(text))
               p == Append(<<>>, "0")
    <2>2. Last(ps) = p /\ p # <<>>
      BY <1>3
    <2>3. /\ Len(ps) = Len(parts) + 1
          /\ \A i \in 1..Len(parts) : ReadsAsNumber(ps[i]) /\ parts[i] = NumberOf(ps[i]) % Word
      BY <1>2 DEF ReadSoFar
    <2>4. "0" \in Decimal /\ DigitValue("0") = 0
      BY DigitFacts, Zenon
    <2>5. ReadsAsNumber(p) /\ NumberOf(p) = 0 /\ RadixOf(p) = 8
      <3>1. ReadsAsNumber(p) /\ NumberOf(p) = DigitValue("0") /\ RadixOf(p) = IF "0" = "0" THEN 8 ELSE 10
        BY <2>4, FirstDigit, Zenon
      <3> QED
        BY <2>4, <3>1, Zenon
    <2> HIDE DEF ps, p
    <2>6. ReadOn(ps)
      BY <1>1, <1>3, <1>4, <2>1, <2>2, <2>3, <2>5 DEF ReadOn
    <2> QED
      BY <2>1, <2>6, ReadOnPrimed DEF ps
  <1> QED
    BY <1>5, <1>6

LEMMA DigitRead ==
    ASSUME AtonInv, Digit
    PROVE  ReadSoFar'
  <1> DEFINE ps == Split(Front(text))
             qs == Split(Front(text'))
             p == Last(ps)
             q == Append(p, c)
  <1>1. /\ at = "digits" /\ at' = "digits" /\ parts' = parts /\ base' = base
        /\ c \in Decimal \/ (base = 16 /\ c \in Hex)
        /\ val' = (val * base + DigitValue(c)) % Word /\ Advance
    BY DEF Digit, DigitOfBase, Shifted
  <1>2. AddressTypeOK /\ text # <<>> /\ ReadSoFar
    BY <1>1 DEF AtonInv, AddressInv, TextRead
  <1>3. c \in Hex /\ c # "." /\ DigitValue(c) \in Nat
    BY <1>1, DigitFacts
  <1>4. /\ Len(qs) = Len(parts') + 1 /\ Last(qs) = q /\ Last(qs) # <<>>
        /\ \A i \in 1..Len(parts') : ReadsAsNumber(qs[i]) /\ parts'[i] = NumberOf(qs[i]) % Word
        /\ p \in Seq(Chars \cup {Nul}) /\ c \in Chars \cup {Nul}
    BY <1>1, <1>3, PieceGrows
  <1>5. /\ p = <<>> => val = 0 /\ base = 10 /\ c \in Decimal /\ c # "0"
        /\ p # <<>> => ReadsAsNumber(p) /\ val = NumberOf(p) % Word /\ base = RadixOf(p)
    BY <1>1, <1>2 DEF ReadSoFar
  <1>6. Word \in Nat \ {0}
    BY ValuesFacts
  <1> HIDE DEF ps, qs, p
  <1>7. ReadsAsNumber(q) /\ val' = NumberOf(q) % Word /\ base' = RadixOf(q)
    <2>1. CASE p = <<>>
      <3>1. /\ ReadsAsNumber(q) /\ NumberOf(q) = DigitValue(c)
            /\ RadixOf(q) = IF c = "0" THEN 8 ELSE 10
        BY <1>4, <1>5, <2>1, FirstDigit
      <3>2. val * base + DigitValue(c) = DigitValue(c)
        BY <1>3, <1>5, <2>1
      <3> QED
        BY <1>1, <1>5, <2>1, <3>1, <3>2
    <2>2. CASE p # <<>>
      <3>1. c \in (IF Prefixed(p) THEN Hex ELSE Decimal)
        <4>1. base = 16 => Prefixed(p)
          BY <1>5, <2>2 DEF RadixOf
        <4> QED
          BY <1>1, <1>3, <4>1
      <3>2. /\ ReadsAsNumber(q) /\ RadixOf(q) = RadixOf(p)
            /\ NumberOf(q) = NumberOf(p) * RadixOf(p) + DigitValue(c)
        BY <1>4, <1>5, <2>2, <3>1, NextDigit
      <3>3. NumberOf(p) \in Nat /\ RadixOf(p) \in Nat
        BY <1>4, <1>5, <2>2, NumberIsNat, RadixIsNat
      <3>4. val' = NumberOf(q) % Word
        <4>1. val' = ((NumberOf(p) % Word) * RadixOf(p) + DigitValue(c)) % Word
          BY <1>1, <1>5, <2>2
        <4>2. /\ ((NumberOf(p) % Word) * RadixOf(p) + DigitValue(c)) % Word
                    = (NumberOf(p) * RadixOf(p) + DigitValue(c)) % Word
          BY <1>3, <1>6, <3>3, ShiftedRemainder
        <4> QED
          BY <3>2, <4>1, <4>2
      <3> QED
        BY <1>1, <1>5, <2>2, <3>2, <3>4
    <2> QED
      BY <2>1, <2>2
  <1> HIDE DEF q
  <1>8. ReadOn(qs)
    BY <1>1, <1>4, <1>7 DEF ReadOn
  <1> QED
    BY <1>8, ReadOnPrimed DEF qs

LEMMA DotRead ==
    ASSUME AtonInv, Dot, at' # "returned"
    PROVE  ReadSoFar'
  <1> DEFINE S == Chars \cup {Nul}
             ps == Split(Front(text))
             qs == Split(Front(text'))
             p == Last(ps)
  <1>1. /\ at = "digits" /\ at' = "number" /\ c = "." /\ parts' = Append(parts, val)
        /\ val' = val /\ Advance
    BY DEF Dot, AtonReturn
  <1>2. AddressTypeOK /\ text # <<>> /\ ReadSoFar
    BY <1>1 DEF AtonInv, AddressInv, TextRead
  <1>3. "." \notin Decimal
    BY DigitFacts, Zenon
  <1>4. p # <<>>
    <2>1. p = <<>> => c \in Decimal
      BY <1>1, <1>2 DEF ReadSoFar
    <2> QED
      BY <1>1, <1>3, <2>1, Zenon
  <1>5. ReadsAsNumber(p) /\ val = NumberOf(p) % Word
    BY <1>1, <1>2, <1>4 DEF ReadSoFar
  <1>6. /\ Len(ps) = Len(parts) + 1
        /\ \A i \in 1..Len(parts) : ReadsAsNumber(ps[i]) /\ parts[i] = NumberOf(ps[i]) % Word
    BY <1>2 DEF ReadSoFar
  <1>7. c \in S /\ ps \in Pieces(S) /\ Len(ps) \in Nat /\ p = ps[Len(ps)]
    BY <1>2, TextFacts
  <1>8. qs = More(ps, c)
    BY <1>1, <1>2, AdvanceReads, TextFacts
  <1> HIDE DEF S, ps, qs, p
  <1>9. /\ Len(qs) = Len(ps) + 1 /\ Last(qs) = <<>> /\ \A i \in 1..Len(ps) : qs[i] = ps[i]
    BY <1>1, <1>7, <1>8, MoreFacts
  <1>10. /\ Len(parts) \in Nat /\ Len(parts') = Len(parts) + 1
         /\ \A i \in 1..Len(parts) : parts'[i] = parts[i]
         /\ parts'[Len(parts) + 1] = val
    <2>1. parts \in Seq(0 .. Word - 1) /\ val \in 0 .. Word - 1
      BY <1>2 DEF AddressTypeOK
    <2> QED
      BY <1>1, <2>1, LenProperties, AppendProperties
  <1>11. ASSUME NEW i \in 1..Len(parts')
         PROVE  ReadsAsNumber(qs[i]) /\ parts'[i] = NumberOf(qs[i]) % Word
    <2>1. CASE i \in 1..Len(parts)
      <3>1. i \in 1..Len(ps)
        BY <1>6, <1>10, <2>1
      <3> QED
        BY <1>6, <1>9, <1>10, <2>1, <3>1
    <2>2. CASE i \notin 1..Len(parts)
      <3>1. i = Len(parts) + 1 /\ i = Len(ps) /\ i \in 1..Len(ps)
        BY <1>6, <1>10, <1>11, <2>2
      <3> QED
        BY <1>5, <1>7, <1>9, <1>10, <3>1
    <2> QED
      BY <2>1, <2>2
  <1>12. Len(qs) = Len(parts') + 1
    BY <1>6, <1>9, <1>10
  <1>13. ReadOn(qs)
    BY <1>1, <1>9, <1>11, <1>12 DEF ReadOn
  <1> QED
    BY <1>13, ReadOnPrimed DEF qs


\* What ip4addr_aton returns for a text that ends after a number.
LEMMA EndReads ==
    ASSUME AtonInv, End
    PROVE  AtonReadsText'
  <1> DEFINE s == Front(text)
             ps == Split(s)
             n == Len(ps)
             m == Len(parts)
             ns == [i \in DOMAIN ps |-> NumberOf(ps[i]) % Word]
  <1>1. /\ at = "digits" /\ ~DigitOfBase /\ c # "."
        /\ IF c \in {Nul, " "} /\ InRange(m)
           THEN result' = 1 /\ m_address' = toNetwork(Concocted(m))
           ELSE result' = 0
        /\ text' = text
    BY DEF End, AtonReturn
  <1>2. AddressTypeOK /\ text # <<>> /\ ReadSoFar
    BY <1>1 DEF AtonInv, AddressInv, TextRead
  <1>3. /\ n = m + 1
        /\ \A i \in 1..m : ReadsAsNumber(ps[i]) /\ parts[i] = NumberOf(ps[i]) % Word
    BY <1>2 DEF ReadSoFar
  <1>4. Last(ps) # <<>>
    <2>1. Last(ps) = <<>> => c \in Decimal
      BY <1>1, <1>2 DEF ReadSoFar
    <2> QED
      BY <1>1, <2>1 DEF DigitOfBase
  <1>5. ReadsAsNumber(Last(ps)) /\ val = NumberOf(Last(ps)) % Word
    BY <1>1, <1>2, <1>4 DEF ReadSoFar
  <1>6. ps \in Seq(Seq(Chars \cup {Nul})) /\ n \in Nat /\ Last(ps) = ps[n]
    BY <1>2, TextFacts DEF Pieces
  <1>7. m \in 0..3 /\ val \in 0 .. Word - 1 /\ \A i \in 1..m : parts[i] \in Nat
    <2>1. parts \in Seq(0 .. Word - 1) /\ m <= 3 /\ val \in 0 .. Word - 1
      BY <1>2 DEF AddressTypeOK
    <2>2. m \in Nat /\ \A i \in 1..m : parts[i] \in 0 .. Word - 1
      BY <2>1, LenProperties, ElementOfSeq
    <2>3. Word \in Nat
      BY ValuesFacts
    <2> HIDE DEF m
    <2> QED
      BY <2>1, <2>2, <2>3
  <1>8. DOMAIN ps = 1..n
    BY <1>6, LenProperties
  <1> HIDE DEF s, ps
  <1>9. /\ 5 - n = 4 - m /\ n <= 4 /\ n \in 1..n /\ 1 .. n - 1 = 1..m
        /\ \A i \in 1..n : i \in 1..m \/ i = n
        /\ \A i \in 1..m : i \in 1..n
    BY <1>3, <1>7
  <1>10. ReadsAsAddress(s) <=> InRange(m)
    <2>1. \A i \in 1..n : ReadsAsNumber(ps[i])
      BY <1>3, <1>5, <1>6, <1>9
    <2>2. ReadsAsAddress(s) <=> /\ \A i \in 1 .. n - 1 : NumberOf(ps[i]) % Word < Byte
                                /\ NumberOf(ps[n]) % Word < Values(5 - n)
      BY <1>9, <2>1, Zenon DEF ReadsAsAddress, ps
    <2>3. NumberOf(ps[n]) % Word = val
      BY <1>5, <1>6
    <2>4. (NumberOf(ps[n]) % Word < Values(5 - n)) <=> (val < Values(4 - m))
      BY <1>9, <2>3
    <2>5. (\A i \in 1 .. n - 1 : NumberOf(ps[i]) % Word < Byte) <=> \A i \in 1..m : parts[i] < Byte
      <3>1. \A i \in 1..m : (NumberOf(ps[i]) % Word < Byte) <=> (parts[i] < Byte)
        BY <1>3
      <3> QED
        BY <1>9, <3>1, Zenon
    <2> QED
      BY <2>2, <2>4, <2>5, Zenon DEF InRange
  <1>11. result' = 1 <=> (c \in {Nul, " "} /\ ReadsAsAddress(s))
    <2>1. 1 # 0
      OBVIOUS
    <2> QED
      BY <1>1, <1>10, <2>1, Zenon
  <1>12. ASSUME result' = 1
         PROVE  Memory(m_address') = BytesOf(ns)
    <2>1. InRange(m) /\ m_address' = toNetwork(Concocted(m))
      <3>1. 1 # 0
        OBVIOUS
      <3> QED
        BY <1>1, <1>12, <3>1, Zenon
    <2>2. val < Values(4 - m) /\ \A i \in 1..m : parts[i] \in 0 .. Byte - 1
      <3>1. val < Values(4 - m) /\ \A i \in 1..m : parts[i] < Byte
        BY <2>1, Zenon DEF InRange
      <3>2. Byte \in Nat
        BY ValuesFacts
      <3> HIDE DEF m
      <3>3. \A i \in 1..m : parts[i] \in 0 .. Byte - 1
        BY <1>7, <3>1, <3>2
      <3> QED
        BY <3>1, <3>3
    <2>3. Memory(m_address') = Bytes4(m)
      BY <1>7, <2>1, <2>2, Stored
    <2>4. ns = [i \in 1..n |-> NumberOf(ps[i]) % Word]
      BY <1>8
    <2>5. Len(ns) = n
      BY <1>6, <2>4
    <2>6. /\ \A i \in 1..m : ns[i] = parts[i]
          /\ ns[n] = val
      BY <1>3, <1>5, <1>6, <1>9, <2>4
    <2> HIDE DEF ns
    <2>7. BytesOf(ns) = [i \in 1..4 |-> IF i < n THEN ns[i] ELSE (ns[n] \div Values(4 - i)) % Byte]
      BY <2>5, Zenon DEF BytesOf
    <2>8. \A i \in 1..4 : (i < n <=> i <= m) /\ (i <= m => i \in 1..m)
      BY <1>3, <1>7
    <2>9. \A i \in 1..4 : (IF i < n THEN ns[i] ELSE (ns[n] \div Values(4 - i)) % Byte)
                            = IF i <= m THEN parts[i] ELSE (val \div Values(4 - i)) % Byte
      BY <2>6, <2>8, Zenon
    <2>10. BytesOf(ns) = Bytes4(m)
      BY <2>7, <2>9 DEF Bytes4
    <2> QED
      BY <2>3, <2>10
  <1>13. c' = c /\ Front(text') = s
    BY <1>1 DEF c, s
  <1> QED
    BY <1>11, <1>12, <1>13 DEF AtonReadsText, s, ps

\* Where a number should begin there is none.
LEMMA NoNumber ==
    ASSUME AtonInv, NumberBegins, at' = "returned"
    PROVE  AtonReadsText'
  <1> DEFINE s == Front(text)
             ps == Split(s)
             n == Len(ps)
  <1>1. at = "number" /\ result' = 0 /\ text' = text
    BY DEF NumberBegins, AtonReturn
  <1>2. AddressTypeOK /\ text # <<>> /\ ReadSoFar
    BY <1>1 DEF AtonInv, AddressInv, TextRead
  <1>3. Last(ps) = <<>>
    BY <1>1, <1>2 DEF ReadSoFar
  <1>4. n \in Nat /\ n >= 1 /\ Last(ps) = ps[n]
    BY <1>2, TextFacts
  <1> HIDE DEF s, ps
  <1>5. ~ReadsAsAddress(s)
    <2>1. ~ReadsAsNumber(<<>>)
      BY DEF ReadsAsNumber
    <2>2. n \in 1..n
      BY <1>4
    <2> QED
      BY <1>3, <1>4, <2>1, <2>2, Zenon DEF ReadsAsAddress, ps
  <1>6. ~ReadsAsAddress(Front(text')) /\ result' # 1
    BY <1>1, <1>5 DEF s
  <1> QED
    BY <1>6, Zenon DEF AtonReadsText

LEMMA StepAton == AtonInv /\ [AddressNext]_addressVars => AtonInv'
  <1> SUFFICES ASSUME AtonInv, [AddressNext]_addressVars PROVE AtonInv'
    OBVIOUS
  <1>1. AddressInv'
    BY StepAddress DEF AtonInv
  <1>2. ASSUME at' # "returned" PROVE AtonReadsText'
    BY <1>2 DEF AtonReadsText
  <1>3. ASSUME NEW b \in [1..4 -> 0 .. Byte - 1], NEW how \in {"string", "bytes", "number"},
               Construct(b, how)
        PROVE  AtonInv'
    <2>1. at' = "object"
      BY <1>3 DEF Construct
    <2> QED
      BY <1>1, <1>2, <2>1 DEF AtonInv
  <1>4. ASSUME Begin PROVE AtonInv'
    <2>1. at' = "number"
      BY <1>4 DEF Begin
    <2> QED
      BY <1>1, <1>2, <1>4, <2>1, BeginRead DEF AtonInv
  <1>5. ASSUME NumberBegins PROVE AtonInv'
    <2>1. at' \in {"returned", "prefix", "digits"}
      BY <1>5 DEF NumberBegins, AtonReturn
    <2> QED
      BY <1>1, <1>2, <1>5, <2>1, NumberBeginsRead, NoNumber DEF AtonInv
  <1>6. ASSUME Prefix PROVE AtonInv'
    <2>1. at' = "digits"
      BY <1>6 DEF Prefix
    <2> QED
      BY <1>1, <1>2, <1>6, <2>1, PrefixRead DEF AtonInv
  <1>7. ASSUME Digit PROVE AtonInv'
    <2>1. at' = "digits"
      BY <1>7 DEF Digit
    <2> QED
      BY <1>1, <1>2, <1>7, <2>1, DigitRead DEF AtonInv
  <1>8. ASSUME Dot PROVE AtonInv'
    <2>1. CASE at' = "returned"
      <3>1. c = "." /\ result' = 0 /\ text' = text
        BY <1>8, <2>1 DEF Dot, AtonReturn
      <3>2. c' = c
        BY <3>1 DEF c
      <3>3. "." \notin {Nul, " "}
        BY DEF Nul
      <3>4. AtonReadsText'
        BY <3>1, <3>2, <3>3 DEF AtonReadsText
      <3> QED
        BY <1>1, <2>1, <3>4 DEF AtonInv
    <2>2. CASE at' # "returned"
      <3>1. at' = "number"
        BY <1>8, <2>2 DEF Dot, AtonReturn
      <3> QED
        BY <1>1, <1>2, <1>8, <2>2, <3>1, DotRead DEF AtonInv
    <2> QED
      BY <2>1, <2>2
  <1>9. ASSUME End PROVE AtonInv'
    <2>1. at' = "returned"
      BY <1>9 DEF End, AtonReturn
    <2> QED
      BY <1>1, <1>9, <2>1, EndReads DEF AtonInv
  <1>10. ASSUME UNCHANGED addressVars PROVE AtonInv'
    <2>1. c' = c
      BY <1>10 DEF addressVars, c
    <2>2. ReadSoFar => ReadSoFar'
      BY <1>10, <2>1 DEF addressVars, ReadSoFar
    <2>3. AtonReadsText'
      BY <1>10, <2>1 DEF addressVars, AtonInv, AtonReadsText
    <2> QED
      BY <1>1, <1>10, <2>2, <2>3 DEF addressVars, AtonInv
  <1> QED
    BY <1>3, <1>4, <1>5, <1>6, <1>7, <1>8, <1>9, <1>10 DEF AddressNext

\* A number of C is one that ip4addr_aton reads.
LEMMA CNumberReads ==
    ASSUME NEW p, IsNumber(p)
    PROVE  ReadsAsNumber(p)
  <1>1. Octal \subseteq Decimal
    <2>1. Decimal = {Digits[i] : i \in 1..10}
      BY DigitFacts
    <2>2. \A i \in 1..8 : i \in 1..10
      OBVIOUS
    <2> QED
      BY <2>1, <2>2 DEF Octal
  <1>2. Prefixed(p) => p # <<>>
    BY DEF Prefixed
  <1> QED
    BY <1>1, <1>2, Zenon DEF IsNumber, ReadsAsNumber

\* Of a text of numbers of at most 32 bits it reads what the text says.
LEMMA CAddressReads ==
    ASSUME AddressTypeOK, text # <<>>, HasNumbers(Front(text))
    PROVE  LET s == Front(text)
           IN  /\ ReadsAsAddress(s) <=> IsAddress(s)
               /\ [i \in DOMAIN Split(s) |-> NumberOf(Split(s)[i]) % Word]
                     = [i \in DOMAIN Split(s) |-> NumberOf(Split(s)[i])]
  <1> DEFINE s == Front(text)
             ps == Split(s)
             n == Len(ps)
  <1>1. /\ ps \in Seq(Seq(Chars \cup {Nul})) /\ n \in Nat /\ n >= 1
    BY TextFacts DEF Pieces
  <1>2. DOMAIN ps = 1..n /\ \A i \in 1..n : ps[i] \in Seq(Chars \cup {Nul})
    BY <1>1, LenProperties, ElementOfSeq
  <1>3. HasNumbers(s) <=> \A i \in 1..n : IsNumber(ps[i]) /\ NumberOf(ps[i]) < Word
    BY <1>2, Zenon DEF HasNumbers
  <1> HIDE DEF s, ps, n
  <1>4. \A i \in 1..n : IsNumber(ps[i]) /\ NumberOf(ps[i]) < Word
    BY <1>3 DEF s
  <1>5. \A i \in 1..n : ReadsAsNumber(ps[i]) /\ NumberOf(ps[i]) \in Nat
    BY <1>2, <1>4, CNumberReads, NumberIsNat
  <1>6. \A v \in Nat : v < Word => v % Word = v
    <2>1. Word \in Nat \ {0}
      BY ValuesFacts
    <2> QED
      BY <2>1
  <1>7. \A i \in 1..n : NumberOf(ps[i]) % Word = NumberOf(ps[i])
    BY <1>4, <1>5, <1>6
  <1>8. (\A i \in 1 .. n - 1 : NumberOf(ps[i]) % Word < Byte)
           <=> \A i \in 1 .. n - 1 : NumberOf(ps[i]) < Byte
    <2>1. \A i \in 1 .. n - 1 : i \in 1..n
      BY <1>1
    <2> QED
      BY <1>7, <2>1
  <1>9. n \in 1..n
    BY <1>1
  <1>10. ReadsAsAddress(s) <=> IsAddress(s)
    BY <1>4, <1>5, <1>7, <1>8, <1>9, Zenon DEF ReadsAsAddress, IsAddress, ps, n
  <1>11. [i \in DOMAIN ps |-> NumberOf(ps[i]) % Word] = [i \in DOMAIN ps |-> NumberOf(ps[i])]
    BY <1>2, <1>7
  <1> QED
    BY <1>10, <1>11 DEF s, ps

\* Of the texts that are numbers, written as in C and of at most 32 bits, with
\* dots between them, ip4addr_aton takes exactly the addresses, and stores the
\* bytes they stand for, whatever the length of the text and the width of a
\* byte, though it only ever sees one character and computes modulo a word.
THEOREM AtonIsRight == AddressSpec => []AtonReadsAddress
  <1>1. AtonInv => AtonReadsAddress
    <2> SUFFICES ASSUME AtonInv, at = "returned", HasNumbers(Front(text))
                 PROVE  /\ result = 1 <=> c \in {Nul, " "} /\ IsAddress(Front(text))
                        /\ result = 1 => Memory(m_address) = AddressOf(Front(text))
      BY DEF AtonReadsAddress
    <2>1. AddressTypeOK /\ text # <<>> /\ AtonReadsText
      BY DEF AtonInv, AddressInv, TextRead
    <2>2. ReadsAsAddress(Front(text)) <=> IsAddress(Front(text))
      BY <2>1, CAddressReads
    <2>3. [i \in DOMAIN Split(Front(text)) |-> NumberOf(Split(Front(text))[i]) % Word]
             = [i \in DOMAIN Split(Front(text)) |-> NumberOf(Split(Front(text))[i])]
      BY <2>1, CAddressReads
    <2> QED
      BY <2>1, <2>2, <2>3, Zenon DEF AtonReadsText, AddressOf
  <1> QED
    BY <1>1, InitAton, StepAton, PTL DEF AddressSpec

-----------------------------------------------------------------------------
(* ScopeGuard                                                              *)

\* An active object holds a callable that is still to be called, and is the
\* only one to do so.
Armed ==
    /\ \A g \in active_ : func_[g] \in made \ (called \cup released)
    /\ \A g, h \in active_ : func_[g] = func_[h] => g = h

GuardInv == GuardTypeOK /\ Armed /\ CalledOnce

LEMMA InitGuard == GuardInit => GuardInv
  BY DEF GuardInit, GuardInv, GuardTypeOK, Armed, CalledOnce

LEMMA MakeGuard ==
    ASSUME GuardInv, NEW g \in Guard, NEW fun \in Cleanup, Make(g, fun)
    PROVE  GuardInv'
  <1>1. GuardTypeOK'
    BY DEF GuardInv, GuardTypeOK, Make
  <1>2. /\ active_' = active_ \cup {g} /\ g \notin active_ /\ func_'[g] = fun
        /\ \A h \in active_ : func_'[h] = func_[h]
        /\ made' = made \cup {fun} /\ fun \notin made
        /\ called' = called /\ released' = released /\ again' = again
    BY DEF GuardInv, GuardTypeOK, Make
  <1>3. fun \notin called \cup released
    BY <1>2 DEF GuardInv, GuardTypeOK
  <1>4. Armed'
    BY <1>2, <1>3 DEF GuardInv, Armed
  <1>5. CalledOnce'
    BY <1>2 DEF GuardInv, CalledOnce
  <1> QED
    BY <1>1, <1>4, <1>5 DEF GuardInv

\* g holds what other held, and is active if and only if other was.
LEMMA MoveGuard ==
    ASSUME GuardInv, NEW other \in Guard, NEW g \in Guard, Move(other, g)
    PROVE  GuardInv'
  <1>1. PICK left \in {func_[other], NoCleanup} :
            func_' = [func_ EXCEPT ![g] = func_[other], ![other] = left]
    BY DEF Move
  <1>2. /\ other \in alive /\ g \notin alive /\ g \notin active_ /\ g # other
        /\ active_' = (active_ \cup {h \in {g} : other \in active_}) \ {other}
        /\ UNCHANGED histVars
    BY DEF GuardInv, GuardTypeOK, Move, Disarmed
  <1>3. /\ made' = made /\ called' = called /\ released' = released /\ again' = again
    BY <1>2 DEF histVars
  <1>4. /\ func_'[g] = func_[other]
        /\ \A h \in Guard \ {g, other} : func_'[h] = func_[h]
    BY <1>1, <1>2 DEF GuardInv, GuardTypeOK
  <1>5. GuardTypeOK'
    <2>1. func_' \in [Guard -> Cleanup \cup {NoCleanup}]
      BY <1>1 DEF GuardInv, GuardTypeOK
    <2>2. /\ alive' = alive \cup {g} /\ gone' = gone /\ g \notin gone
      BY DEF Move
    <2> QED
      BY <1>2, <1>3, <2>1, <2>2 DEF GuardInv, GuardTypeOK
  <1>6. \A h \in active_' : (h = g /\ other \in active_) \/ (h \in active_ /\ h \notin {g, other})
    BY <1>2
  <1>7. Armed'
    <2>1. \A h \in active_' : \E k \in active_ : func_'[h] = func_[k] /\ (k = h \/ (h = g /\ k = other))
      BY <1>4, <1>6 DEF GuardInv, GuardTypeOK
    <2>2. \A h \in active_' : func_'[h] \in made \ (called \cup released)
      BY <2>1 DEF GuardInv, Armed
    <2>3. ASSUME NEW h \in active_', NEW k \in active_', func_'[h] = func_'[k]
          PROVE  h = k
      <3>1. CASE h = g \/ k = g
        BY <3>1, <2>3, <1>4, <1>6 DEF GuardInv, GuardTypeOK, Armed
      <3>2. CASE h # g /\ k # g
        BY <3>2, <2>3, <1>4, <1>6 DEF GuardInv, GuardTypeOK, Armed
      <3> QED
        BY <3>1, <3>2
    <2> QED
      BY <1>3, <2>2, <2>3 DEF Armed
  <1>8. CalledOnce'
    <2>1. ASSUME NEW fun \in made \ (called \cup released)
          PROVE  \E h \in active_' : func_'[h] = fun
      <3>1. PICK k \in active_ : func_[k] = fun
        BY DEF GuardInv, CalledOnce
      <3>2. CASE k = other
        BY <3>1, <3>2, <1>2, <1>4
      <3>3. CASE k # other
        BY <3>1, <3>3, <1>2, <1>4 DEF GuardInv, GuardTypeOK
      <3> QED
        BY <3>2, <3>3
    <2> QED
      BY <1>3, <2>1 DEF GuardInv, CalledOnce
  <1> QED
    BY <1>5, <1>7, <1>8 DEF GuardInv

\* An object stops being active: its callable is called or released by now, and
\* every other callable still has its object.
LEMMA DisarmGuard ==
    ASSUME GuardInv, NEW g \in Guard, active_' = active_ \ {g}, func_' = func_, made' = made,
           called' \cup released' = (called \cup released) \cup {fun \in {func_[g]} : g \in active_},
           called' \cap released' = {}, again' = {}
    PROVE  Armed' /\ CalledOnce'
  <1>1. Armed'
    BY DEF GuardInv, Armed
  <1>2. ASSUME NEW fun \in made' \ (called' \cup released')
        PROVE  \E h \in active_' : func_'[h] = fun
    <2>1. fun \in made \ (called \cup released)
      BY <1>2
    <2>2. PICK h \in active_ : func_[h] = fun
      BY <2>1 DEF GuardInv, CalledOnce
    <2>3. h # g
      BY <1>2, <2>2
    <2> QED
      BY <2>2, <2>3
  <1> QED
    BY <1>1, <1>2 DEF CalledOnce

LEMMA ReleaseGuard ==
    ASSUME GuardInv, NEW g \in Guard, Release(g)
    PROVE  GuardInv'
  <1>1. g \in active_ => func_[g] \in made /\ func_[g] \notin called
    BY DEF GuardInv, Armed
  <1>2. GuardTypeOK'
    BY <1>1 DEF GuardInv, GuardTypeOK, Release
  <1>3. /\ released' = released \cup {fun \in {func_[g]} : g \in active_}
        /\ called' = called /\ again' = {}
    BY DEF Release, GuardInv, CalledOnce
  <1>4. called' \cap released' = {}
    BY <1>1, <1>3 DEF GuardInv, CalledOnce
  <1>5. Armed' /\ CalledOnce'
    BY <1>3, <1>4, DisarmGuard DEF Release
  <1> QED
    BY <1>2, <1>5 DEF GuardInv

LEMMA DestroyGuard ==
    ASSUME GuardInv, NEW g \in Guard, Destroy(g)
    PROVE  GuardInv'
  <1>1. g \in active_ => func_[g] \in made /\ func_[g] \notin called \cup released
    BY DEF GuardInv, Armed
  <1>2. /\ called' = called \cup {fun \in {func_[g]} : g \in active_}
        /\ released' = released /\ again' = {}
    BY <1>1 DEF Destroy, GuardInv, CalledOnce
  <1>3. GuardTypeOK'
    BY <1>1, <1>2 DEF GuardInv, GuardTypeOK, Destroy
  <1>4. called' \cap released' = {}
    BY <1>1, <1>2 DEF GuardInv, CalledOnce
  <1>5. Armed' /\ CalledOnce'
    BY <1>2, <1>4, DisarmGuard DEF Destroy
  <1> QED
    BY <1>3, <1>5 DEF GuardInv

\* However guards are moved, released and destroyed, a clean-up is called once
\* unless it was released: not twice, and not never.
THEOREM CleanupIsCalledOnce == GuardSpec => []CalledOnce
  <1>1. GuardInv /\ [GuardNext]_guardVars => GuardInv'
    <2> SUFFICES ASSUME GuardInv, [GuardNext]_guardVars PROVE GuardInv'
      OBVIOUS
    <2>1. CASE UNCHANGED guardVars
      BY <2>1 DEF guardVars, objVars, histVars, GuardInv, GuardTypeOK, Armed, CalledOnce
    <2> QED
      BY <2>1, MakeGuard, MoveGuard, ReleaseGuard, DestroyGuard DEF GuardNext
  <1>2. GuardInv => CalledOnce
    BY DEF GuardInv
  <1> QED
    BY <1>1, <1>2, InitGuard, PTL DEF GuardSpec

=============================================================================
