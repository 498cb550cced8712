------------------------------- MODULE Words -------------------------------
(***************************************************************************)
(* The word-wide byte tests of include/oscpm/detail/word.h, and the two    *)
(* that validate.h makes of them.  A word is one number in the code; here  *)
(* it is its bytes, the first in the low byte, and a sum carries from one  *)
(* byte into the next.  Bytes are the numbers they are in ASCII.           *)
(***************************************************************************)
EXTENDS Integers, Sequences, FiniteSets, FiniteSetsExt, TLC

CONSTANTS
    wordSize    \* bytes of a word, eight in the code

bitsPerByte == 8
Byte == 0..255

nul == 0
firstPrintableAscii == 33
hash == 35
anyBytes == 42
listSeparator == 44
partSeparator == 47
anyByte == 63
setOpen == 91
setClose == 93
listOpen == 123
listClose == 125
lastPrintableAscii == 126
lastAscii == 127
asciiLimit == 127
lowerCaseBit == 32

\* Marks are spread over eight bytes and no more.
ASSUME WordAssumption == wordSize \in 1..8

-----------------------------------------------------------------------------
Places == 1..wordSize

\* The word with the bytes f[1], f[2], ...; `<<>> \o' has TLC tabulate them.
WordOf(f) == <<>> \o f

Broadcast(byte) == WordOf([k \in Places |-> byte])

noBits           == Broadcast(0)
allBits          == Broadcast(255)
highBitPerByte   == Broadcast(128)
lowBitsPerByte   == Broadcast(127)
firstByteHighBit == WordOf([k \in Places |-> IF k = 1 THEN 128 ELSE 0])

\* The sum modulo the word; carry[k] is what byte k passes on.
Plus(v, w) ==
    LET carry[k \in 0..wordSize] ==
            IF k = 0 THEN 0
            ELSE (v[k] + w[k] + carry[k - 1]) \div 2 ^ bitsPerByte
    IN  WordOf([k \in Places |-> (v[k] + w[k] + carry[k - 1]) % 2 ^ bitsPerByte])

Bit(b, k) == (b \div 2 ^ k) % 2

\* The bits set in both of two bytes.
ByteAnd ==
    [b \in Byte |->
        [c \in Byte |->
            LET Both(k) == Bit(b, k) * Bit(c, k) * 2 ^ k
            IN  Both(0) + Both(1) + Both(2) + Both(3)
                    + Both(4) + Both(5) + Both(6) + Both(7)]]

And(v, w) == WordOf([k \in Places |-> ByteAnd[v[k]][w[k]]])
Or(v, w)  == WordOf([k \in Places |-> v[k] + w[k] - ByteAnd[v[k]][w[k]]])
Xor(v, w) == WordOf([k \in Places |-> v[k] + w[k] - 2 * ByteAnd[v[k]][w[k]]])
Complement(w) == WordOf([k \in Places |-> 255 - w[k]])

AllOf(words) ==
    LET all[k \in 0..Len(words)] ==
            IF k = 0 THEN allBits ELSE And(all[k - 1], words[k])
    IN  all[Len(words)]

\* Shifts by whole bytes, and by all bits of a byte but one.
ShiftRight(w, numBytes) ==
    WordOf([k \in Places |->
        IF k + numBytes \in Places THEN w[k + numBytes] ELSE 0])
ShiftLeft(w, numBytes) ==
    WordOf([k \in Places |-> IF k > numBytes THEN w[k - numBytes] ELSE 0])
HighBitsToLow(w) ==
    WordOf([k \in Places |-> w[k] \div 128
        + (IF k + 1 \in Places THEN 2 * (w[k + 1] % 128) ELSE 0)])

\* word * k::onePerByte: each byte is added into itself and all above it.
TimesOnePerByte(w) ==
    LET sum[k \in 0..(wordSize - 1)] ==
            IF k = 0 THEN w ELSE Plus(sum[k - 1], ShiftLeft(w, k))
    IN  sum[wordSize - 1]

\* loadWord, from a position counted from zero.
LoadWord(chars, at) == SubSeq(chars, at + 1, at + wordSize)

\* The high bit of each byte that differs from `byte'.
BytesDifferingFrom(word, byte) ==
    Plus(Xor(word, Broadcast(byte)), lowBitsPerByte)

\* Mutant: one too few is added.
BytesAtLeastShort(word, limit) == Plus(word, Broadcast(asciiLimit - limit))

\* The high bit of each byte that is at least `limit'.
BytesAtLeast(word, limit) == Plus(word, Broadcast(asciiLimit + 1 - limit))

BytesAboveAscii(word) == And(word, highBitPerByte)

\* The high bit of each byte that equals `byte', and no other bit.
BytesEqualTo(word, byte) ==
    LET difference == Xor(word, Broadcast(byte))
        sum == Plus(And(difference, lowBitsPerByte), lowBitsPerByte)
    IN  And(Complement(Or(sum, difference)), highBitPerByte)

HasAdjacentPair(bytes) == And(bytes, ShiftRight(bytes, 1)) # noBits

HasFirstByte(bytes) == And(bytes, firstByteHighBit) # noBits

\* Mutant: the marks are not spread past the fourth byte below.
NumBytesAfterLastUnspread(bytes) ==
    LET one == Or(bytes, ShiftRight(bytes, 1))
        upToLast == Or(one, ShiftRight(one, 2))
        after == And(Complement(upToLast), highBitPerByte)
    IN  ShiftRight(TimesOnePerByte(HighBitsToLow(after)), wordSize - 1)[1]

\* The low byte of the result is all of it.
NumBytesAfterLast(bytes) ==
    LET one == Or(bytes, ShiftRight(bytes, 1))
        two == Or(one, ShiftRight(one, 2))
        upToLast == Or(two, ShiftRight(two, 4))
        after == And(Complement(upToLast), highBitPerByte)
    IN  ShiftRight(TimesOnePerByte(HighBitsToLow(after)), wordSize - 1)[1]

-----------------------------------------------------------------------------
\* Setting the bit of lower case takes '[' and ']' to '{' and '}'.
Folded(word) == Or(word, Broadcast(lowerCaseBit))

\* Mutant: the bytes are compared with '{' unfolded.
HasPatternOpenerUnfolded(word) ==
    LET plain == AllOf(<<BytesDifferingFrom(word, nul),
                         BytesDifferingFrom(word, anyBytes),
                         BytesDifferingFrom(word, anyByte),
                         BytesDifferingFrom(word, listOpen)>>)
    IN  And(Or(Complement(plain), BytesAboveAscii(word)), highBitPerByte) # noBits

HasPatternOpenerOrIllegalByte(word) ==
    LET plain == AllOf(<<BytesDifferingFrom(word, nul),
                         BytesDifferingFrom(word, anyBytes),
                         BytesDifferingFrom(word, anyByte),
                         BytesDifferingFrom(Folded(word), listOpen)>>)
    IN  And(Or(Complement(plain), BytesAboveAscii(word)), highBitPerByte) # noBits

HasIllegalAddressByte(word) ==
    LET plain == AllOf(<<BytesAtLeast(word, firstPrintableAscii),
                         BytesDifferingFrom(word, lastAscii),
                         BytesDifferingFrom(word, hash),
                         BytesDifferingFrom(word, anyBytes),
                         BytesDifferingFrom(word, listSeparator),
                         BytesDifferingFrom(word, anyByte),
                         BytesDifferingFrom(Folded(word), listOpen),
                         BytesDifferingFrom(Folded(word), listClose)>>)
    IN  And(Or(Complement(plain), BytesAboveAscii(word)), highBitPerByte) # noBits

-----------------------------------------------------------------------------
(***************************************************************************)
(* The same questions asked of one byte (include/oscpm/detail/syntax.h).   *)
(***************************************************************************)
IsLegalInPattern(byte) == byte # nul /\ byte <= lastAscii

IsOpener(byte) == byte \in {anyBytes, anyByte, setOpen, listOpen}

IsPrintableAscii(byte) == byte \in firstPrintableAscii..lastPrintableAscii

IsReservedInAddress(byte) ==
    byte \in {hash, anyBytes, listSeparator, anyByte, setOpen, setClose,
              listOpen, listClose}

IsLegalInAddressPart(byte) == IsPrintableAscii(byte) /\ ~IsReservedInAddress(byte)
=============================================================================
