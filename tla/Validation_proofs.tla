------------------------- MODULE Validation_proofs -------------------------
(***************************************************************************)
(* Proofs about Words and about Validation, which scans by words.          *)
(*                                                                         *)
(* Of Words: the word-wide tests are exact for every word, of which TLC    *)
(* checks chosen ones.  A byte of 128 or more carries into the byte above  *)
(* it, where a test may go wrong; but then the test of the word is settled *)
(* by that byte alone.                                                     *)
(*                                                                         *)
(* Of Validation, for every set of texts, every length of words and of     *)
(* runs and every limit: the scans go through a text by words and runs of  *)
(* bytes and report the fault a reading from left to right would.          *)
(***************************************************************************)
EXTENDS Validation, MCWords, DataLemmas

\* Every word there is.
Words == [Places -> Byte]

\* A tabulated function is the function.
LEMMA Tabulated ==
    ASSUME NEW S, NEW f \in [Places -> S]
    PROVE  WordOf(f) = f
<1>1. wordSize \in Nat
    BY WordAssumption
<1>2. f \in Seq(S)
    BY <1>1, SeqDef DEF Places
<1> QED
    BY <1>2, ConcatEmptySeq DEF WordOf

(***************************************************************************)
(* Bytes.                                                                  *)
(***************************************************************************)

\* A byte is the sum of its bits.
LEMMA Bits ==
    ASSUME NEW b \in Byte
    PROVE  /\ \A k \in 0..7 : Bit(b, k) \in {0, 1}
           /\ b = Bit(b, 0) + 2 * Bit(b, 1) + 4 * Bit(b, 2) + 8 * Bit(b, 3)
                    + 16 * Bit(b, 4) + 32 * Bit(b, 5) + 64 * Bit(b, 6)
                    + 128 * Bit(b, 7)
<1>1. /\ Bit(b, 0) = b % 2           /\ Bit(b, 1) = (b \div 2) % 2
      /\ Bit(b, 2) = (b \div 4) % 2  /\ Bit(b, 3) = (b \div 8) % 2
    BY DEF Bit, Byte
<1>2. /\ Bit(b, 4) = (b \div 16) % 2 /\ Bit(b, 5) = (b \div 32) % 2
      /\ Bit(b, 6) = (b \div 64) % 2 /\ Bit(b, 7) = (b \div 128) % 2
    BY DEF Bit, Byte
<1>3. \A k \in 0..7 : k \in {0, 1, 2, 3, 4, 5, 6, 7}
    OBVIOUS
<1>4. \A k \in 0..7 : Bit(b, k) \in {0, 1}
    BY <1>1, <1>2, <1>3 DEF Byte
<1>5. b = (b % 2) + 2 * ((b \div 2) % 2) + 4 * ((b \div 4) % 2)
            + 8 * ((b \div 8) % 2) + 16 * ((b \div 16) % 2)
            + 32 * ((b \div 32) % 2) + 64 * ((b \div 64) % 2)
            + 128 * ((b \div 128) % 2)
    BY DEF Byte
<1> QED
    BY <1>1, <1>2, <1>4, <1>5

\* The bits common to two bytes, one by one.
LEMMA CommonBits ==
    ASSUME NEW b \in Byte, NEW c \in Byte
    PROVE  LET P(k) == Bit(b, k) * Bit(c, k)
           IN  ByteAnd[b][c] = P(0) + 2 * P(1) + 4 * P(2) + 8 * P(3) + 16 * P(4)
                                 + 32 * P(5) + 64 * P(6) + 128 * P(7)
<1> DEFINE P(k) == Bit(b, k) * Bit(c, k)
<1>1. /\ 2 ^ 0 = 1  /\ 2 ^ 1 = 2  /\ 2 ^ 2 = 4  /\ 2 ^ 3 = 8
      /\ 2 ^ 4 = 16 /\ 2 ^ 5 = 32 /\ 2 ^ 6 = 64 /\ 2 ^ 7 = 128
    OBVIOUS
<1>2. \A k \in 0..7 : P(k) \in Int
    BY Bits
<1>3. ByteAnd[b][c] = P(0) * 2 ^ 0 + P(1) * 2 ^ 1 + P(2) * 2 ^ 2 + P(3) * 2 ^ 3
            + P(4) * 2 ^ 4 + P(5) * 2 ^ 5 + P(6) * 2 ^ 6 + P(7) * 2 ^ 7
    BY DEF ByteAnd
<1> HIDE DEF P
<1>4. ByteAnd[b][c] = P(0) + 2 * P(1) + 4 * P(2) + 8 * P(3) + 16 * P(4)
                          + 32 * P(5) + 64 * P(6) + 128 * P(7)
    BY <1>1, <1>2, <1>3
<1> QED
    BY <1>4 DEF P

\* What is common to two bits.
LEMMA BothBits ==
    ASSUME NEW x \in {0, 1}, NEW y \in {0, 1}
    PROVE  /\ x * y \in {0, 1}
           /\ x * y <= x /\ x * y <= y /\ x + y - x * y <= 1
           /\ x + y - 2 * (x * y) \in {0, 1}
           /\ x + y - 2 * (x * y) = 0 <=> x = y
           /\ x * y = 1 <=> x = 1 /\ y = 1
OBVIOUS

\* Eight bits make a byte, and the highest tells whether it is above ASCII.
LEMMA ByteOfBits ==
    ASSUME NEW z0 \in 0..1, NEW z1 \in 0..1, NEW z2 \in 0..1, NEW z3 \in 0..1,
           NEW z4 \in 0..1, NEW z5 \in 0..1, NEW z6 \in 0..1, NEW z7 \in 0..1
    PROVE  LET sum == z0 + 2 * z1 + 4 * z2 + 8 * z3 + 16 * z4 + 32 * z5
                        + 64 * z6 + 128 * z7
           IN  /\ sum \in Byte
               /\ sum >= 128 <=> z7 = 1
               /\ sum = 0 <=> /\ z0 = 0 /\ z1 = 0 /\ z2 = 0 /\ z3 = 0
                             /\ z4 = 0 /\ z5 = 0 /\ z6 = 0 /\ z7 = 0
BY DEF Byte

\* The bits common to two bytes, in one of them, and in one of them alone.
LEMMA ByteOps ==
    ASSUME NEW b \in Byte, NEW c \in Byte
    PROVE  LET both == ByteAnd[b][c]
           IN  /\ both \in Byte
               /\ both >= 128 <=> b >= 128 /\ c >= 128
               /\ b + c - both \in Byte
               /\ b + c - both >= 128 <=> b >= 128 \/ c >= 128
               /\ b + c - 2 * both \in Byte
               /\ b + c - 2 * both = 0 <=> b = c
               /\ b + c - 2 * both >= 128 <=> ~(b >= 128 <=> c >= 128)
<1> DEFINE P(k) == Bit(b, k) * Bit(c, k)
<1>1. /\ \A k \in 0..7 : Bit(b, k) \in {0, 1} /\ Bit(c, k) \in {0, 1}
      /\ b = Bit(b, 0) + 2 * Bit(b, 1) + 4 * Bit(b, 2) + 8 * Bit(b, 3)
               + 16 * Bit(b, 4) + 32 * Bit(b, 5) + 64 * Bit(b, 6)
               + 128 * Bit(b, 7)
      /\ c = Bit(c, 0) + 2 * Bit(c, 1) + 4 * Bit(c, 2) + 8 * Bit(c, 3)
               + 16 * Bit(c, 4) + 32 * Bit(c, 5) + 64 * Bit(c, 6)
               + 128 * Bit(c, 7)
    BY Bits
<1>2. \A k \in 0..7 :
          /\ P(k) \in {0, 1}
          /\ P(k) <= Bit(b, k) /\ P(k) <= Bit(c, k) /\ Bit(b, k) + Bit(c, k) - P(k) <= 1
          /\ Bit(b, k) + Bit(c, k) - 2 * P(k) \in {0, 1}
          /\ Bit(b, k) + Bit(c, k) - 2 * P(k) = 0 <=> Bit(b, k) = Bit(c, k)
          /\ P(k) = 1 <=> Bit(b, k) = 1 /\ Bit(c, k) = 1
    BY <1>1, BothBits
<1>3. ByteAnd[b][c] = P(0) + 2 * P(1) + 4 * P(2) + 8 * P(3) + 16 * P(4)
                          + 32 * P(5) + 64 * P(6) + 128 * P(7)
    BY CommonBits
<1> HIDE DEF P
<1> DEFINE X(k) == Bit(b, k)
           Y(k) == Bit(c, k)
           U(k) == X(k) + Y(k) - P(k)
           V(k) == X(k) + Y(k) - 2 * P(k)
           Sum(Z(_)) == Z(0) + 2 * Z(1) + 4 * Z(2) + 8 * Z(3) + 16 * Z(4)
                          + 32 * Z(5) + 64 * Z(6) + 128 * Z(7)
<1>4. ASSUME NEW k \in 0..7
      PROVE  /\ X(k) \in 0..1 /\ Y(k) \in 0..1 /\ P(k) \in 0..1
             /\ U(k) \in 0..1 /\ V(k) \in 0..1
             /\ U(k) = 1 <=> X(k) = 1 \/ Y(k) = 1
             /\ V(k) = 0 <=> X(k) = Y(k)
             /\ P(k) = 1 <=> X(k) = 1 /\ Y(k) = 1
    BY <1>1, <1>2
<1>5. b = Sum(X) /\ c = Sum(Y) /\ ByteAnd[b][c] = Sum(P)
    BY <1>1, <1>3
<1>6. /\ 0 \in 0..7 /\ 1 \in 0..7 /\ 2 \in 0..7 /\ 3 \in 0..7
      /\ 4 \in 0..7 /\ 5 \in 0..7 /\ 6 \in 0..7 /\ 7 \in 0..7
    OBVIOUS
<1> HIDE DEF X, Y, U, V
<1>7. b + c - ByteAnd[b][c] = Sum(U) /\ b + c - 2 * ByteAnd[b][c] = Sum(V)
    <2>1. /\ X(0) \in Int /\ X(1) \in Int /\ X(2) \in Int /\ X(3) \in Int
          /\ X(4) \in Int /\ X(5) \in Int /\ X(6) \in Int /\ X(7) \in Int
        BY <1>4, <1>6
    <2>2. /\ Y(0) \in Int /\ Y(1) \in Int /\ Y(2) \in Int /\ Y(3) \in Int
          /\ Y(4) \in Int /\ Y(5) \in Int /\ Y(6) \in Int /\ Y(7) \in Int
        BY <1>4, <1>6
    <2>3. /\ P(0) \in Int /\ P(1) \in Int /\ P(2) \in Int /\ P(3) \in Int
          /\ P(4) \in Int /\ P(5) \in Int /\ P(6) \in Int /\ P(7) \in Int
        BY <1>4, <1>6
    <2>4. Sum(X) + Sum(Y) - Sum(P) = Sum(U)
        BY <2>1, <2>2, <2>3 DEF U
    <2>5. Sum(X) + Sum(Y) - 2 * Sum(P) = Sum(V)
        BY <2>1, <2>2, <2>3 DEF V
    <2> HIDE DEF Sum
    <2> QED
        BY <1>5, <2>4, <2>5
<1>8. (Sum(X) >= 128 <=> X(7) = 1) /\ (Sum(Y) >= 128 <=> Y(7) = 1)
    BY <1>4, <1>6, ByteOfBits
<1>9. ByteAnd[b][c] \in Byte /\ (ByteAnd[b][c] >= 128 <=> P(7) = 1)
    BY <1>4, <1>5, <1>6, ByteOfBits
<1>10. /\ b + c - ByteAnd[b][c] \in Byte
       /\ b + c - ByteAnd[b][c] >= 128 <=> U(7) = 1
    BY <1>4, <1>6, <1>7, ByteOfBits
<1>11. /\ b + c - 2 * ByteAnd[b][c] \in Byte
       /\ b + c - 2 * ByteAnd[b][c] >= 128 <=> V(7) = 1
       /\ b + c - 2 * ByteAnd[b][c] = 0
             <=> /\ V(0) = 0 /\ V(1) = 0 /\ V(2) = 0 /\ V(3) = 0
                 /\ V(4) = 0 /\ V(5) = 0 /\ V(6) = 0 /\ V(7) = 0
    BY <1>4, <1>6, <1>7, ByteOfBits
<1>12. b = c <=> /\ X(0) = Y(0) /\ X(1) = Y(1) /\ X(2) = Y(2) /\ X(3) = Y(3)
                 /\ X(4) = Y(4) /\ X(5) = Y(5) /\ X(6) = Y(6) /\ X(7) = Y(7)
    <2>1. \A k \in 0..7 : b = c => X(k) = Y(k)
        BY DEF X, Y
    <2> QED
        BY <1>5, <1>6, <2>1
<1>13. X(7) \in 0..1 /\ Y(7) \in 0..1 /\ V(7) \in 0..1
    BY <1>4, <1>6
<1> QED
    BY <1>4, <1>5, <1>6, <1>8, <1>9, <1>10, <1>11, <1>12, <1>13

\* A byte's high bit alone, and its other bits.
LEMMA HighAndLow ==
    ASSUME NEW b \in Byte
    PROVE  /\ ByteAnd[b][128] = IF b >= 128 THEN 128 ELSE 0
           /\ ByteAnd[b][127] = IF b >= 128 THEN b - 128 ELSE b
<1>1. 128 \in Byte /\ 127 \in Byte
    BY DEF Byte
<1>2. /\ Bit(128, 0) = 0 /\ Bit(128, 1) = 0 /\ Bit(128, 2) = 0 /\ Bit(128, 3) = 0
      /\ Bit(128, 4) = 0 /\ Bit(128, 5) = 0 /\ Bit(128, 6) = 0 /\ Bit(128, 7) = 1
    BY DEF Bit
<1>3. /\ Bit(127, 0) = 1 /\ Bit(127, 1) = 1 /\ Bit(127, 2) = 1 /\ Bit(127, 3) = 1
      /\ Bit(127, 4) = 1 /\ Bit(127, 5) = 1 /\ Bit(127, 6) = 1 /\ Bit(127, 7) = 0
    BY DEF Bit
<1> DEFINE X(k) == Bit(b, k)
<1>4. /\ X(0) \in 0..1 /\ X(1) \in 0..1 /\ X(2) \in 0..1 /\ X(3) \in 0..1
      /\ X(4) \in 0..1 /\ X(5) \in 0..1 /\ X(6) \in 0..1 /\ X(7) \in 0..1
      /\ b = X(0) + 2 * X(1) + 4 * X(2) + 8 * X(3) + 16 * X(4) + 32 * X(5)
               + 64 * X(6) + 128 * X(7)
    BY Bits
<1>5. ByteAnd[b][128] = X(0) * 0 + 2 * (X(1) * 0) + 4 * (X(2) * 0) + 8 * (X(3) * 0)
          + 16 * (X(4) * 0) + 32 * (X(5) * 0) + 64 * (X(6) * 0) + 128 * (X(7) * 1)
    BY <1>1, <1>2, CommonBits
<1>6. ByteAnd[b][127] = X(0) * 1 + 2 * (X(1) * 1) + 4 * (X(2) * 1) + 8 * (X(3) * 1)
          + 16 * (X(4) * 1) + 32 * (X(5) * 1) + 64 * (X(6) * 1) + 128 * (X(7) * 0)
    BY <1>1, <1>3, CommonBits
<1> HIDE DEF X
<1> QED
    BY <1>4, <1>5, <1>6

\* With the bit of lower case set, only the brackets and braces are braces.
LEMMA Fold ==
    ASSUME NEW b \in Byte
    PROVE  /\ b + 32 - ByteAnd[b][32] = 123 <=> b \in {91, 123}
           /\ b + 32 - ByteAnd[b][32] = 125 <=> b \in {93, 125}
<1>1. 32 \in Byte
    BY DEF Byte
<1>2. /\ Bit(32, 0) = 0 /\ Bit(32, 1) = 0 /\ Bit(32, 2) = 0 /\ Bit(32, 3) = 0
      /\ Bit(32, 4) = 0 /\ Bit(32, 5) = 1 /\ Bit(32, 6) = 0 /\ Bit(32, 7) = 0
    BY DEF Bit
<1> DEFINE X(k) == Bit(b, k)
<1>3. /\ X(0) \in 0..1 /\ X(1) \in 0..1 /\ X(2) \in 0..1 /\ X(3) \in 0..1
      /\ X(4) \in 0..1 /\ X(5) \in 0..1 /\ X(6) \in 0..1 /\ X(7) \in 0..1
      /\ b = X(0) + 2 * X(1) + 4 * X(2) + 8 * X(3) + 16 * X(4) + 32 * X(5)
               + 64 * X(6) + 128 * X(7)
    BY Bits
<1>4. ByteAnd[b][32] = X(0) * 0 + 2 * (X(1) * 0) + 4 * (X(2) * 0) + 8 * (X(3) * 0)
          + 16 * (X(4) * 0) + 32 * (X(5) * 1) + 64 * (X(6) * 0) + 128 * (X(7) * 0)
    BY <1>1, <1>2, CommonBits
<1> HIDE DEF X
<1>5. ByteAnd[b][32] = 32 * X(5)
    BY <1>3, <1>4
<1> QED
    BY <1>3, <1>5

(***************************************************************************)
(* Words.                                                                  *)
(***************************************************************************)

\* A word of one byte all over.
LEMMA BroadcastIs ==
    ASSUME NEW b \in Byte
    PROVE  Broadcast(b) \in Words /\ \A k \in Places : Broadcast(b)[k] = b
<1>1. [k \in Places |-> b] \in Words
    BY DEF Words
<1>2. Broadcast(b) = [k \in Places |-> b]
    BY <1>1, Tabulated DEF Broadcast, Words
<1> QED
    BY <1>1, <1>2

\* The constants of word.h.
LEMMA ConstantWords ==
    /\ noBits \in Words /\ \A k \in Places : noBits[k] = 0
    /\ allBits \in Words /\ \A k \in Places : allBits[k] = 255
    /\ highBitPerByte \in Words /\ \A k \in Places : highBitPerByte[k] = 128
    /\ lowBitsPerByte \in Words /\ \A k \in Places : lowBitsPerByte[k] = 127
    /\ firstByteHighBit \in Words
    /\ \A k \in Places : firstByteHighBit[k] = IF k = 1 THEN 128 ELSE 0
<1>1. 0 \in Byte /\ 255 \in Byte /\ 128 \in Byte /\ 127 \in Byte
    BY DEF Byte
<1>2. [k \in Places |-> IF k = 1 THEN 128 ELSE 0] \in [Places -> Byte]
    BY <1>1
<1>3. firstByteHighBit = [k \in Places |-> IF k = 1 THEN 128 ELSE 0]
    BY <1>2, Tabulated DEF firstByteHighBit
<1> QED
    BY <1>1, <1>2, <1>3, BroadcastIs
       DEF noBits, allBits, highBitPerByte, lowBitsPerByte, Words

\* The bits common to two words, in one of them, and in one of them alone.
LEMMA WordOps ==
    ASSUME NEW v \in Words, NEW w \in Words
    PROVE  /\ And(v, w) \in Words /\ Or(v, w) \in Words /\ Xor(v, w) \in Words
           /\ Complement(v) \in Words
           /\ \A k \in Places :
                 /\ And(v, w)[k] = ByteAnd[v[k]][w[k]]
                 /\ Or(v, w)[k] = v[k] + w[k] - ByteAnd[v[k]][w[k]]
                 /\ Xor(v, w)[k] = v[k] + w[k] - 2 * ByteAnd[v[k]][w[k]]
                 /\ Complement(v)[k] = 255 - v[k]
<1> DEFINE a == [k \in Places |-> ByteAnd[v[k]][w[k]]]
           o == [k \in Places |-> v[k] + w[k] - ByteAnd[v[k]][w[k]]]
           x == [k \in Places |-> v[k] + w[k] - 2 * ByteAnd[v[k]][w[k]]]
           c == [k \in Places |-> 255 - v[k]]
<1>1. \A k \in Places : v[k] \in Byte /\ w[k] \in Byte
    BY DEF Words
<1>2. a \in [Places -> Byte] /\ o \in [Places -> Byte] /\ x \in [Places -> Byte]
    BY <1>1, ByteOps
<1>3. c \in [Places -> Byte]
    BY <1>1 DEF Byte
<1>4. And(v, w) = a /\ Or(v, w) = o /\ Xor(v, w) = x
    BY <1>2, Tabulated DEF And, Or, Xor
<1>5. Complement(v) = c
    BY <1>3, Tabulated DEF Complement
<1> QED
    BY <1>2, <1>3, <1>4, <1>5 DEF Words

\* The bytes whose high bit is set: what a word-wide test marks.
Marked(w) == {k \in Places : w[k] >= 128}

\* The marks of two words together.
LEMMA MarkOps ==
    ASSUME NEW v \in Words, NEW w \in Words
    PROVE  /\ Marked(And(v, w)) = Marked(v) \cap Marked(w)
           /\ Marked(Or(v, w)) = Marked(v) \cup Marked(w)
           /\ Marked(Complement(v)) = Places \ Marked(v)
           /\ And(v, highBitPerByte) # noBits <=> Marked(v) # {}
<1>1. \A k \in Places : v[k] \in Byte /\ w[k] \in Byte
    BY DEF Words
<1>2. Marked(And(v, w)) = Marked(v) \cap Marked(w)
    <2> SUFFICES ASSUME NEW k \in Places
                 PROVE  And(v, w)[k] >= 128 <=> v[k] >= 128 /\ w[k] >= 128
        BY DEF Marked
    <2>1. And(v, w)[k] = ByteAnd[v[k]][w[k]]
        BY WordOps
    <2> QED
        BY <1>1, <2>1, ByteOps
<1>3. Marked(Or(v, w)) = Marked(v) \cup Marked(w)
    BY <1>1, WordOps, ByteOps DEF Marked
<1>4. \A k \in Places : 255 - v[k] >= 128 <=> ~(v[k] >= 128)
    BY <1>1 DEF Byte
<1>5. Marked(Complement(v)) = Places \ Marked(v)
    BY <1>4, WordOps DEF Marked
<1>6. /\ And(v, highBitPerByte) \in Words
      /\ \A k \in Places : And(v, highBitPerByte)[k] = IF v[k] >= 128 THEN 128 ELSE 0
    <2>1. \A k \in Places : And(v, highBitPerByte)[k] = ByteAnd[v[k]][128]
        BY ConstantWords, WordOps
    <2>2. \A k \in Places : ByteAnd[v[k]][128] = IF v[k] >= 128 THEN 128 ELSE 0
        BY <1>1, HighAndLow
    <2> QED
        BY <2>1, <2>2, ConstantWords, WordOps
<1>7. CASE Marked(v) = {}
    <2>1. \A k \in Places : And(v, highBitPerByte)[k] = noBits[k]
        BY <1>6, <1>7, ConstantWords DEF Marked
    <2>2. And(v, highBitPerByte) = noBits
        BY <1>6, <2>1, ConstantWords DEF Words
    <2> QED
        BY <1>2, <1>3, <1>5, <1>7, <2>2
<1>8. CASE Marked(v) # {}
    <2>1. PICK k \in Places : v[k] >= 128
        BY <1>8 DEF Marked
    <2>2. And(v, highBitPerByte)[k] = 128 /\ noBits[k] = 0
        BY <1>6, <2>1, ConstantWords
    <2> QED
        BY <1>2, <1>3, <1>5, <1>8, <2>2
<1> QED
    BY <1>7, <1>8

\* What a byte of a sum keeps and what it passes on to the next.
Kept(x, y, c) == (x + y + c) % 256
PassedOn(x, y, c) == (x + y + c) \div 256

\* A sum is a word, and where no byte overflows it is the sum byte by byte.
LEMMA Sums ==
    ASSUME NEW v \in Words, NEW w \in Words
    PROVE  /\ Plus(v, w) \in Words
           /\ (\A k \in Places : v[k] + w[k] <= 255)
                 => \A k \in Places : Plus(v, w)[k] = v[k] + w[k]
<1> DEFINE Bits01 == {0, 1}
           next == [k \in 1..wordSize |->
                      [c \in Bits01 |-> PassedOn(v[k], w[k], c)]]
           carry == CHOOSE g : g = [k \in 0..wordSize |->
                       IF k = 0 THEN 0 ELSE (v[k] + w[k] + g[k - 1]) \div 2 ^ bitsPerByte]
           sum == [k \in Places |-> (v[k] + w[k] + carry[k - 1]) % 2 ^ bitsPerByte]
<1> HIDE DEF next, carry, sum
<1>1. wordSize \in Nat /\ Places = 1..wordSize /\ 2 ^ bitsPerByte = 256
    <2>1. wordSize \in Nat /\ Places = 1..wordSize
        BY WordAssumption DEF Places
    <2>2. 2 ^ bitsPerByte = 256
        BY ONLY DEF bitsPerByte
    <2> QED
        BY <2>1, <2>2
<1>2. \A k \in 1..wordSize : v[k] \in 0..255 /\ w[k] \in 0..255
    <2>1. \A k \in Places : v[k] \in Byte /\ w[k] \in Byte
        BY ONLY v \in Words, w \in Words DEF Words
    <2> QED
        BY <1>1, <2>1 DEF Byte
<1>3. \A k \in 1..wordSize, c \in Bits01 :
         /\ PassedOn(v[k], w[k], c) \in Bits01 /\ Kept(v[k], w[k], c) \in 0..255
         /\ v[k] + w[k] <= 255 /\ c = 0
              => PassedOn(v[k], w[k], c) = 0 /\ Kept(v[k], w[k], c) = v[k] + w[k]
    <2> SUFFICES ASSUME NEW k \in 1..wordSize, NEW c \in Bits01
                 PROVE  /\ PassedOn(v[k], w[k], c) \in Bits01
                        /\ Kept(v[k], w[k], c) \in 0..255
                        /\ v[k] + w[k] <= 255 /\ c = 0
                             => /\ PassedOn(v[k], w[k], c) = 0
                                /\ Kept(v[k], w[k], c) = v[k] + w[k]
        OBVIOUS
    <2> DEFINE x == v[k]
               y == w[k]
    <2>1. x \in 0..255 /\ y \in 0..255 /\ c \in {0, 1}
        BY <1>2
    <2> HIDE DEF x, y, Bits01
    <2>2. /\ PassedOn(x, y, c) \in {0, 1} /\ Kept(x, y, c) \in 0..255
          /\ x + y <= 255 /\ c = 0 => PassedOn(x, y, c) = 0 /\ Kept(x, y, c) = x + y
        BY <2>1 DEF Kept, PassedOn
    <2> QED
        BY <2>2 DEF x, y, Bits01
<1>4. /\ carry \in [0..wordSize -> Bits01] /\ carry[0] = 0
      /\ \A k \in 1..wordSize : carry[k] = PassedOn(v[k], w[k], carry[k - 1])
    <2>1. StepsWithin(next, Bits01, wordSize) /\ 0 \in Bits01
        BY <1>3 DEF StepsWithin, next
    <2> HIDE DEF Bits01
    <2>2. PICK f : FollowsSteps(f, 0, next, Bits01, wordSize)
        BY <1>1, <2>1, Recursion
    <2>3. /\ f \in [0..wordSize -> Bits01] /\ f[0] = 0
          /\ \A k \in 1..wordSize : f[k] = next[k][f[k - 1]]
        BY <2>2 DEF FollowsSteps
    <2>4. \A k \in 1..wordSize : f[k - 1] \in Bits01
        BY <1>1, <2>3
    <2>5. \A k \in 1..wordSize : f[k] = PassedOn(v[k], w[k], f[k - 1])
        BY <2>3, <2>4 DEF next
    <2>6. f = [k \in 0..wordSize |-> IF k = 0 THEN 0
                  ELSE (v[k] + w[k] + f[k - 1]) \div 2 ^ bitsPerByte]
        BY <1>1, <2>3, <2>5 DEF PassedOn
    <2>7. carry = [k \in 0..wordSize |-> IF k = 0 THEN 0
                  ELSE (v[k] + w[k] + carry[k - 1]) \div 2 ^ bitsPerByte]
        BY <2>6 DEF carry
    <2>8. \A k \in 1..wordSize : carry[k] = PassedOn(v[k], w[k], carry[k - 1])
        BY <1>1, <2>7 DEF PassedOn
    <2>9. carry[0] = 0
        BY <1>1, <2>7
    <2> DEFINE Same == {k \in 0..wordSize : carry[k] = f[k]}
    <2>10. 0..wordSize \subseteq Same
        <3>1. 0 \in Same
            BY <1>1, <2>3, <2>9
        <3>2. ASSUME NEW k \in 0..(wordSize - 1), k \in Same PROVE k + 1 \in Same
            BY <1>1, <2>5, <2>8, <3>2
        <3> HIDE DEF Same
        <3> QED
            BY <1>1, <3>1, <3>2, Induction
    <2>11. \A k \in 0..wordSize : carry[k] \in Bits01
        BY <2>3, <2>10
    <2>12. DOMAIN carry = 0..wordSize /\ carry = [k \in 0..wordSize |-> carry[k]]
        BY <2>7
    <2> QED
        BY <2>8, <2>9, <2>11, <2>12
<1>5. \A k \in Places : carry[k - 1] \in Bits01
    BY <1>1, <1>4
<1>6. DOMAIN sum = Places /\ \A k \in Places : sum[k] = Kept(v[k], w[k], carry[k - 1])
    BY <1>1 DEF sum, Kept
<1>7. sum \in [Places -> Byte]
    <2>1. \A k \in Places : sum[k] \in Byte
        <3> SUFFICES ASSUME NEW k \in Places PROVE sum[k] \in Byte
            OBVIOUS
        <3>1. Kept(v[k], w[k], carry[k - 1]) \in 0..255
            BY <1>1, <1>3, <1>5
        <3> QED
            BY <1>6, <3>1 DEF Byte
    <2>2. sum = [k \in Places |-> sum[k]]
        BY DEF sum
    <2> QED
        BY <2>1, <2>2
<1>8. Plus(v, w) = sum
    <2>1. Plus(v, w) = WordOf(sum)
        BY DEF Plus, carry, sum
    <2> QED
        BY <1>7, <2>1, Tabulated
<1>9. ASSUME \A k \in Places : v[k] + w[k] <= 255
      PROVE  \A k \in Places : sum[k] = v[k] + w[k]
    <2> DEFINE None == {k \in 0..wordSize : carry[k] = 0}
    <2>1. 0 \in None
        BY <1>1, <1>4
    <2>2. ASSUME NEW k \in 0..(wordSize - 1), k \in None PROVE k + 1 \in None
        <3>1. k + 1 \in 1..wordSize /\ (k + 1) - 1 = k /\ v[k + 1] + w[k + 1] <= 255
            BY <1>1, <1>9
        <3>2. carry[k] = 0 /\ carry[k] \in Bits01
            BY <2>2
        <3>3. carry[k + 1] = PassedOn(v[k + 1], w[k + 1], carry[k])
            BY <1>4, <3>1
        <3>4. carry[k + 1] = 0
            BY <1>3, <3>1, <3>2, <3>3
        <3> QED
            BY <1>1, <3>1, <3>4
    <2>3. 0..wordSize \subseteq None
        <3> HIDE DEF None
        <3> QED
            BY <1>1, <2>1, <2>2, Induction
    <2>4. ASSUME NEW k \in Places PROVE sum[k] = v[k] + w[k]
        <3>1. carry[k - 1] = 0 /\ carry[k - 1] \in Bits01 /\ k \in 1..wordSize
            BY <1>1, <2>3
        <3> QED
            BY <1>3, <1>6, <1>9, <3>1
    <2> QED
        BY <2>4
<1> QED
    BY <1>7, <1>8, <1>9 DEF Words

\* A byte is marked in all of some words together if it is in each.
LEMMA AllMarked ==
    ASSUME NEW words \in Seq(Words)
    PROVE  /\ AllOf(words) \in Words
           /\ Marked(AllOf(words))
                 = {k \in Places : \A j \in 1..Len(words) : k \in Marked(words[j])}
<1> DEFINE n == Len(words)
           next == [j \in 1..n |-> [w \in Words |-> And(w, words[j])]]
           all == CHOOSE g : g = [j \in 0..n |->
                       IF j = 0 THEN allBits ELSE And(g[j - 1], words[j])]
           Upto(m) == {k \in Places : \A j \in 1..m : k \in Marked(words[j])}
           Done == {m \in 0..n : all[m] \in Words /\ Marked(all[m]) = Upto(m)}
<1>1. n \in Nat /\ \A j \in 1..n : words[j] \in Words
    BY LenProperties, ElementOfSeq
<1> HIDE DEF n
<1>2. \A j \in 1..n, w \in Words : And(w, words[j]) \in Words
    BY <1>1, WordOps
<1>3. all = [j \in 0..n |-> IF j = 0 THEN allBits ELSE And(all[j - 1], words[j])]
    <2>1. StepsWithin(next, Words, n) /\ allBits \in Words
        BY <1>2, ConstantWords DEF StepsWithin
    <2> HIDE DEF next, all
    <2>2. PICK f : FollowsSteps(f, allBits, next, Words, n)
        BY <1>1, <2>1, Recursion
    <2>3. /\ f \in [0..n -> Words] /\ f[0] = allBits
          /\ \A j \in 1..n : f[j] = next[j][f[j - 1]]
        BY <2>2 DEF FollowsSteps
    <2>4. \A j \in 1..n : f[j - 1] \in Words
        BY <1>1, <2>3
    <2>5. \A j \in 1..n : f[j] = And(f[j - 1], words[j])
        BY <2>3, <2>4 DEF next
    <2>6. f = [j \in 0..n |-> IF j = 0 THEN allBits ELSE And(f[j - 1], words[j])]
        BY <1>1, <2>3, <2>5
    <2> QED
        BY <2>6 DEF all
<1>4. AllOf(words) = all[n]
    BY DEF AllOf, n
<1> HIDE DEF all
<1>5. 0 \in Done
    <2>1. all[0] = allBits /\ 0 \in 0..n /\ 1..0 = {}
        BY <1>1, <1>3
    <2>2. Marked(allBits) = Places
        BY ConstantWords DEF Marked
    <2> QED
        BY <2>1, <2>2, ConstantWords
<1>6. ASSUME NEW m \in 0..(n - 1), m \in Done PROVE m + 1 \in Done
    <2>1. m + 1 \in 1..n /\ m + 1 \in 0..n /\ (m + 1) - 1 = m /\ m + 1 # 0
        BY <1>1
    <2>2. all[m + 1] = And(all[m], words[m + 1])
        BY <1>3, <2>1
    <2>3. all[m + 1] \in Words /\ Marked(all[m + 1]) = Upto(m) \cap Marked(words[m + 1])
        <3>1. all[m] \in Words /\ words[m + 1] \in Words /\ Marked(all[m]) = Upto(m)
            BY <1>1, <1>6, <2>1
        <3> HIDE DEF Upto
        <3>2. And(all[m], words[m + 1]) \in Words
            BY <3>1, WordOps
        <3>3. Marked(And(all[m], words[m + 1])) = Marked(all[m]) \cap Marked(words[m + 1])
            BY <3>1, MarkOps
        <3> QED
            BY <2>2, <3>1, <3>2, <3>3
    <2>4. 1..(m + 1) = (1..m) \cup {m + 1}
        BY <1>1
    <2>5. Upto(m) \cap Marked(words[m + 1]) = Upto(m + 1)
        BY <2>4
    <2> QED
        BY <2>1, <2>3, <2>5
<1>7. 0..n \subseteq Done
    <2> HIDE DEF Done
    <2> QED
        BY <1>1, <1>5, <1>6, Induction
<1>8. n \in 0..n
    BY <1>1
<1> QED
    BY <1>4, <1>7, <1>8 DEF n

(***************************************************************************)
(* The tests of word.h, on a word with no byte above ASCII.                *)
(***************************************************************************)

\* A word without a byte above ASCII.
IsAscii(w) == \A k \in Places : w[k] <= 127

\* bytesDifferingFrom marks the bytes that differ.
LEMMA DifferingMarked ==
    ASSUME NEW w \in Words, NEW byte \in 0..127
    PROVE  /\ BytesDifferingFrom(w, byte) \in Words
           /\ IsAscii(w) =>
                \A k \in Places : k \in Marked(BytesDifferingFrom(w, byte)) <=> w[k] # byte
<1> DEFINE x == Xor(w, Broadcast(byte))
<1>1. byte \in Byte /\ byte < 128
    BY DEF Byte
<1>2. Broadcast(byte) \in Words /\ \A k \in Places : Broadcast(byte)[k] = byte
    BY <1>1, BroadcastIs
<1>3. x \in Words /\ \A k \in Places : x[k] = w[k] + byte - 2 * ByteAnd[w[k]][byte]
    <2> DEFINE u == Broadcast(byte)
    <2>1. u \in Words /\ \A k \in Places : u[k] = byte
        BY <1>2
    <2>2. Xor(w, u) \in Words
        BY <2>1, WordOps
    <2> HIDE DEF u
    <2>3. \A k \in Places : Xor(w, u)[k] = w[k] + u[k] - 2 * ByteAnd[w[k]][u[k]]
        BY <2>1, WordOps
    <2> QED
        BY <2>1, <2>2, <2>3 DEF u
<1> HIDE DEF x
<1>4. BytesDifferingFrom(w, byte) = Plus(x, lowBitsPerByte)
    BY DEF BytesDifferingFrom, x
<1>5. Plus(x, lowBitsPerByte) \in Words
    BY <1>3, ConstantWords, Sums
<1>6. ASSUME IsAscii(w), NEW k \in Places
      PROVE  x[k] \in 0..127 /\ (x[k] = 0 <=> w[k] = byte)
    <2>1. w[k] \in Byte /\ ~(w[k] >= 128)
        BY <1>6 DEF IsAscii, Words, Byte
    <2> DEFINE c == w[k]
               y == c + byte - 2 * ByteAnd[c][byte]
    <2>2. c \in Byte /\ ~(c >= 128) /\ ~(byte >= 128) /\ x[k] = y
        BY <1>1, <1>3, <1>6, <2>1
    <2> HIDE DEF c
    <2>3. /\ y \in Byte
          /\ y = 0 <=> c = byte
          /\ y >= 128 <=> ~(c >= 128 <=> byte >= 128)
        <3>1. c \in Byte /\ byte \in Byte
            BY <1>1, <2>2
        <3> QED
            BY ONLY <3>1, ByteOps
    <2> HIDE DEF y
    <2>4. y \in 0..127 /\ (y = 0 <=> c = byte)
        BY <2>2, <2>3 DEF Byte
    <2> QED
        BY <2>2, <2>4 DEF c
<1>7. ASSUME IsAscii(w)
      PROVE  \A k \in Places : k \in Marked(Plus(x, lowBitsPerByte)) <=> w[k] # byte
    <2>1. \A k \in Places : lowBitsPerByte[k] = 127
        BY ConstantWords
    <2>2. \A k \in Places : x[k] + lowBitsPerByte[k] <= 255
        BY <1>6, <1>7, <2>1
    <2>3. \A k \in Places : Plus(x, lowBitsPerByte)[k] = x[k] + 127
        BY <1>3, <2>1, <2>2, ConstantWords, Sums
    <2> QED
        BY <1>6, <1>7, <2>3 DEF Marked
<1> QED
    BY <1>4, <1>5, <1>7

\* bytesAtLeast marks the bytes that are at least the limit.
LEMMA AtLeastMarked ==
    ASSUME NEW w \in Words, NEW limit \in 1..128
    PROVE  /\ BytesAtLeast(w, limit) \in Words
           /\ IsAscii(w) =>
                \A k \in Places : k \in Marked(BytesAtLeast(w, limit)) <=> w[k] >= limit
<1> DEFINE b == asciiLimit + 1 - limit
<1>1. b \in Byte /\ b = 128 - limit
    BY DEF Byte, asciiLimit
<1>2. Broadcast(b) \in Words /\ \A k \in Places : Broadcast(b)[k] = b
    BY <1>1, BroadcastIs
<1> HIDE DEF b
<1>3. BytesAtLeast(w, limit) = Plus(w, Broadcast(b))
    BY DEF BytesAtLeast, b
<1>4. Plus(w, Broadcast(b)) \in Words
    BY <1>2, Sums
<1>5. \A k \in Places : w[k] \in 0..255
    BY DEF Words, Byte
<1>6. ASSUME IsAscii(w)
      PROVE  \A k \in Places : k \in Marked(Plus(w, Broadcast(b))) <=> w[k] >= limit
    <2>1. \A k \in Places : w[k] \in 0..127
        BY <1>5, <1>6 DEF IsAscii
    <2>2. \A k \in Places : w[k] + Broadcast(b)[k] <= 255
        BY <1>1, <1>2, <2>1
    <2>3. \A k \in Places : Plus(w, Broadcast(b))[k] = w[k] + Broadcast(b)[k]
        BY ONLY w \in Words, <1>2, <2>2, Sums
    <2>4. \A k \in Places : Plus(w, Broadcast(b))[k] = w[k] + b
        BY <1>2, <2>3
    <2>5. \A x \in 0..127 : x + b >= 128 <=> x >= limit
        BY <1>1
    <2>6. \A k \in Places : Plus(w, Broadcast(b))[k] >= 128 <=> w[k] >= limit
        BY <2>1, <2>4, <2>5
    <2> QED
        BY <2>6 DEF Marked
<1> QED
    BY <1>3, <1>4, <1>6

\* Setting the bit of lower case leaves a word ASCII and makes braces of the
\* brackets, and of nothing else.
LEMMA FoldedIs ==
    ASSUME NEW w \in Words
    PROVE  /\ Folded(w) \in Words
           /\ IsAscii(w) => IsAscii(Folded(w))
           /\ \A k \in Places : /\ Folded(w)[k] = 123 <=> w[k] \in {91, 123}
                                /\ Folded(w)[k] = 125 <=> w[k] \in {93, 125}
<1>1. 32 \in Byte
    BY DEF Byte
<1>2. Broadcast(32) \in Words /\ \A k \in Places : Broadcast(32)[k] = 32
    BY <1>1, BroadcastIs
<1>3. /\ Folded(w) \in Words
      /\ \A k \in Places : Folded(w)[k] = w[k] + 32 - ByteAnd[w[k]][32]
    <2> DEFINE u == Broadcast(32)
    <2>1. Folded(w) = Or(w, u)
        BY DEF Folded, lowerCaseBit
    <2>2. u \in Words /\ \A k \in Places : u[k] = 32
        BY <1>2
    <2>3. Or(w, u) \in Words
        BY <2>2, WordOps
    <2>4. \A k \in Places : Or(w, u)[k] = w[k] + u[k] - ByteAnd[w[k]][u[k]]
        BY <2>2, WordOps
    <2> QED
        BY <2>1, <2>2, <2>3, <2>4
<1>4. \A k \in Places : w[k] \in Byte
    BY DEF Words
<1>5. Marked(Folded(w)) = Marked(w) \cup Marked(Broadcast(32))
    BY <1>2, MarkOps DEF Folded, lowerCaseBit
<1>6. Marked(Broadcast(32)) = {}
    BY <1>2 DEF Marked
<1>7. ASSUME IsAscii(w) PROVE IsAscii(Folded(w))
    <2>1. Marked(Folded(w)) = {}
        BY <1>4, <1>5, <1>6, <1>7 DEF IsAscii, Marked, Byte
    <2>2. \A k \in Places : Folded(w)[k] \in 0..255 /\ ~(Folded(w)[k] >= 128)
        BY <1>3, <2>1 DEF Marked, Words, Byte
    <2> QED
        BY <2>2 DEF IsAscii
<1>8. ASSUME NEW k \in Places
      PROVE  /\ Folded(w)[k] = 123 <=> w[k] \in {91, 123}
             /\ Folded(w)[k] = 125 <=> w[k] \in {93, 125}
    BY <1>3, <1>4, Fold
<1> QED
    BY <1>3, <1>7, <1>8

\* A test that marks the plain bytes of a word finds a byte that is not plain
\* or above ASCII.
LEMMA Verdict ==
    ASSUME NEW w \in Words, NEW words \in Seq(Words)
    PROVE  And(Or(Complement(AllOf(words)), BytesAboveAscii(w)), highBitPerByte) # noBits
               <=> \/ ~IsAscii(w)
                   \/ \E k \in Places, j \in 1..Len(words) : k \notin Marked(words[j])
<1> DEFINE plain == AllOf(words)
           above == BytesAboveAscii(w)
<1>1. plain \in Words /\ Complement(plain) \in Words
    BY AllMarked, WordOps
<1>2. above \in Words /\ Marked(above) = Marked(w)
    <2>1. Marked(highBitPerByte) = Places
        BY ConstantWords DEF Marked
    <2>2. Marked(w) \subseteq Places
        BY DEF Marked
    <2>3. above = And(w, highBitPerByte) /\ highBitPerByte \in Words
        BY ConstantWords DEF BytesAboveAscii
    <2>4. And(w, highBitPerByte) \in Words
        BY <2>3, WordOps
    <2>5. Marked(And(w, highBitPerByte)) = Marked(w) \cap Marked(highBitPerByte)
        BY <2>3, MarkOps
    <2> QED
        BY <2>1, <2>2, <2>3, <2>4, <2>5
<1> HIDE DEF plain, above
<1>3. /\ Or(Complement(plain), above) \in Words
      /\ Marked(Or(Complement(plain), above)) = (Places \ Marked(plain)) \cup Marked(w)
    <2> DEFINE c == Complement(plain)
    <2>1. c \in Words /\ Marked(c) = Places \ Marked(plain)
        BY <1>1, MarkOps
    <2> HIDE DEF c
    <2>2. Or(c, above) \in Words
        BY <1>2, <2>1, WordOps
    <2>3. Marked(Or(c, above)) = Marked(c) \cup Marked(above)
        BY <1>2, <2>1, MarkOps
    <2> QED
        BY <1>2, <2>1, <2>2, <2>3 DEF c
<1>4. And(Or(Complement(plain), above), highBitPerByte) # noBits
          <=> (Places \ Marked(plain)) \cup Marked(w) # {}
    BY <1>1, <1>3, MarkOps
<1>5. IsAscii(w) <=> Marked(w) = {}
    <2>1. \A k \in Places : w[k] \in 0..255
        BY DEF Words, Byte
    <2>2. \A b \in 0..255 : b <= 127 <=> ~(b >= 128)
        OBVIOUS
    <2>3. \A k \in Places : w[k] <= 127 <=> ~(w[k] >= 128)
        BY <2>1, <2>2
    <2> QED
        BY <2>3 DEF IsAscii, Marked
<1>6. Marked(plain) = {k \in Places : \A j \in 1..Len(words) : k \in Marked(words[j])}
    BY AllMarked DEF plain
<1>7. (Places \ Marked(plain)) \cup Marked(w) # {}
          <=> \/ ~IsAscii(w)
              \/ \E k \in Places, j \in 1..Len(words) : k \notin Marked(words[j])
    BY <1>5, <1>6 DEF Marked
<1> QED
    BY <1>4, <1>7 DEF plain, above

\* The word-wide test of a pattern finds a byte that is not plain exactly when
\* the word has one: HasPatternOpenerOrIllegalByte, for every word.
THEOREM PatternTest ==
    ASSUME NEW w \in Words
    PROVE  HasPatternOpenerOrIllegalByte(w)
               <=> \E k \in Places : IsOpener(w[k]) \/ ~IsLegalInPattern(w[k])
<1> DEFINE f == Folded(w)
           tests == <<BytesDifferingFrom(w, nul), BytesDifferingFrom(w, anyBytes),
                      BytesDifferingFrom(w, anyByte), BytesDifferingFrom(f, listOpen)>>
<1>1. f \in Words /\ (IsAscii(w) => IsAscii(f))
    BY FoldedIs
<1>2. \A k \in Places : f[k] = 123 <=> w[k] \in {91, 123}
    BY FoldedIs
<1>3. HasPatternOpenerOrIllegalByte(w) <=>
          And(Or(Complement(AllOf(tests)), BytesAboveAscii(w)), highBitPerByte) # noBits
    BY DEF HasPatternOpenerOrIllegalByte
<1> HIDE DEF f
<1>4. /\ nul = 0 /\ anyBytes = 42 /\ anyByte = 63 /\ listOpen = 123 /\ setOpen = 91
      /\ nul \in 0..127 /\ anyBytes \in 0..127 /\ anyByte \in 0..127
      /\ listOpen \in 0..127 /\ lastAscii = 127
    BY DEF nul, anyBytes, anyByte, listOpen, setOpen, lastAscii
<1>5. /\ BytesDifferingFrom(w, nul) \in Words
      /\ BytesDifferingFrom(w, anyBytes) \in Words
      /\ BytesDifferingFrom(w, anyByte) \in Words
      /\ BytesDifferingFrom(f, listOpen) \in Words
    BY <1>1, <1>4, DifferingMarked
<1>6. tests \in Seq(Words) /\ Len(tests) = 4
    BY <1>5
<1>7. IsAscii(w) => \A k \in Places :
          /\ k \in Marked(tests[1]) <=> w[k] # 0
          /\ k \in Marked(tests[2]) <=> w[k] # 42
          /\ k \in Marked(tests[3]) <=> w[k] # 63
          /\ k \in Marked(tests[4]) <=> w[k] \notin {91, 123}
    BY <1>1, <1>2, <1>4, DifferingMarked
<1> HIDE DEF tests
<1>8. HasPatternOpenerOrIllegalByte(w)
          <=> ~IsAscii(w) \/ \E k \in Places, j \in 1..4 : k \notin Marked(tests[j])
    BY <1>3, <1>6, Verdict
<1>9. 1..4 = {1, 2, 3, 4}
    OBVIOUS
<1>10. \A k \in Places : w[k] \in 0..255
    BY DEF Words, Byte
<1>11. \A b \in 0..255 : /\ IsOpener(b) <=> b \in {42, 63, 91, 123}
                         /\ ~IsLegalInPattern(b) <=> b = 0 \/ ~(b <= 127)
    BY <1>4 DEF IsOpener, IsLegalInPattern
<1>12. CASE IsAscii(w)
    BY <1>7, <1>8, <1>9, <1>10, <1>11, <1>12 DEF IsAscii
<1>13. CASE ~IsAscii(w)
    BY <1>8, <1>10, <1>11, <1>13 DEF IsAscii
<1> QED
    BY <1>12, <1>13

\* The word-wide test of an address finds a byte that may not stand in one
\* exactly when the word has one: HasIllegalAddressByte, for every word.
THEOREM AddressTest ==
    ASSUME NEW w \in Words
    PROVE  HasIllegalAddressByte(w)
               <=> \E k \in Places :
                        w[k] # partSeparator /\ ~IsLegalInAddressPart(w[k])
<1> DEFINE f == Folded(w)
           tests == <<BytesAtLeast(w, firstPrintableAscii),
                      BytesDifferingFrom(w, lastAscii),
                      BytesDifferingFrom(w, hash),
                      BytesDifferingFrom(w, anyBytes),
                      BytesDifferingFrom(w, listSeparator),
                      BytesDifferingFrom(w, anyByte),
                      BytesDifferingFrom(f, listOpen),
                      BytesDifferingFrom(f, listClose)>>
           Illegal(b) ==
               ~(b >= 33) \/ b \in {127, 35, 42, 44, 63, 91, 123, 93, 125}
<1>1. f \in Words /\ (IsAscii(w) => IsAscii(f))
    BY FoldedIs
<1>2. \A k \in Places : /\ f[k] = 123 <=> w[k] \in {91, 123}
                        /\ f[k] = 125 <=> w[k] \in {93, 125}
    BY FoldedIs
<1>3. HasIllegalAddressByte(w) <=>
          And(Or(Complement(AllOf(tests)), BytesAboveAscii(w)), highBitPerByte) # noBits
    BY DEF HasIllegalAddressByte
<1> HIDE DEF f
<1>4. /\ firstPrintableAscii = 33 /\ lastAscii = 127 /\ hash = 35 /\ anyBytes = 42
      /\ listSeparator = 44 /\ anyByte = 63 /\ listOpen = 123 /\ listClose = 125
      /\ firstPrintableAscii \in 1..128
      /\ lastAscii \in 0..127 /\ hash \in 0..127 /\ anyBytes \in 0..127
      /\ listSeparator \in 0..127 /\ anyByte \in 0..127 /\ listOpen \in 0..127
      /\ listClose \in 0..127
    BY DEF firstPrintableAscii, lastAscii, hash, anyBytes, listSeparator, anyByte,
           listOpen, listClose
<1>5. /\ BytesAtLeast(w, firstPrintableAscii) \in Words
      /\ BytesDifferingFrom(w, lastAscii) \in Words
      /\ BytesDifferingFrom(w, hash) \in Words
      /\ BytesDifferingFrom(w, anyBytes) \in Words
      /\ BytesDifferingFrom(w, listSeparator) \in Words
      /\ BytesDifferingFrom(w, anyByte) \in Words
      /\ BytesDifferingFrom(f, listOpen) \in Words
      /\ BytesDifferingFrom(f, listClose) \in Words
    BY <1>1, <1>4, DifferingMarked, AtLeastMarked
<1>6. tests \in Seq(Words) /\ Len(tests) = 8
    BY <1>5
<1>7. ASSUME IsAscii(w)
      PROVE  \A k \in Places :
          /\ k \in Marked(tests[1]) <=> w[k] >= 33
          /\ k \in Marked(tests[2]) <=> w[k] # 127
          /\ k \in Marked(tests[3]) <=> w[k] # 35
          /\ k \in Marked(tests[4]) <=> w[k] # 42
          /\ k \in Marked(tests[5]) <=> w[k] # 44
          /\ k \in Marked(tests[6]) <=> w[k] # 63
          /\ k \in Marked(tests[7]) <=> w[k] \notin {91, 123}
          /\ k \in Marked(tests[8]) <=> w[k] \notin {93, 125}
    <2>1. \A k \in Places : k \in Marked(tests[1]) <=> w[k] >= 33
        BY <1>4, <1>7, AtLeastMarked
    <2>2. \A k \in Places :
              /\ k \in Marked(tests[2]) <=> w[k] # 127
              /\ k \in Marked(tests[3]) <=> w[k] # 35
              /\ k \in Marked(tests[4]) <=> w[k] # 42
              /\ k \in Marked(tests[5]) <=> w[k] # 44
              /\ k \in Marked(tests[6]) <=> w[k] # 63
        BY <1>4, <1>7, DifferingMarked
    <2>3. \A k \in Places :
              /\ k \in Marked(tests[7]) <=> w[k] \notin {91, 123}
              /\ k \in Marked(tests[8]) <=> w[k] \notin {93, 125}
        BY <1>1, <1>2, <1>4, <1>7, DifferingMarked
    <2> QED
        BY <2>1, <2>2, <2>3
<1> HIDE DEF tests
<1>8. HasIllegalAddressByte(w)
          <=> ~IsAscii(w) \/ \E k \in Places, j \in 1..8 : k \notin Marked(tests[j])
    BY <1>3, <1>6, Verdict
<1>9. 1..8 = {1, 2, 3, 4, 5, 6, 7, 8}
    OBVIOUS
<1>10. \A k \in Places : w[k] \in 0..255
    BY DEF Words, Byte
<1>11. \A b \in 0..255 :
           b # partSeparator /\ ~IsLegalInAddressPart(b) <=> Illegal(b) \/ ~(b <= 127)
    BY DEF IsLegalInAddressPart, IsPrintableAscii, IsReservedInAddress, partSeparator,
           firstPrintableAscii, lastPrintableAscii, hash, anyBytes, listSeparator,
           anyByte, setOpen, setClose, listOpen, listClose
<1>12. CASE IsAscii(w)
    <2>1. \A k \in Places :
              (\E j \in 1..8 : k \notin Marked(tests[j])) <=> Illegal(w[k])
        BY <1>7, <1>9, <1>12
    <2> QED
        BY <1>8, <1>10, <1>11, <1>12, <2>1 DEF IsAscii
<1>13. CASE ~IsAscii(w)
    BY <1>8, <1>10, <1>11, <1>13 DEF IsAscii
<1> QED
    BY <1>12, <1>13

(***************************************************************************)
(* The marks of separators and what is read from them.                     *)
(***************************************************************************)

\* A word of marks: the high bit of some bytes and nothing else.
IsMarks(w, S) ==
    w \in Words /\ \A k \in Places : w[k] = IF k \in S THEN 128 ELSE 0

\* The common bits of two marks.
LEMMA MarkBytes ==
    /\ ByteAnd[0][0] = 0 /\ ByteAnd[0][128] = 0
    /\ ByteAnd[128][0] = 0 /\ ByteAnd[128][128] = 128
<1>1. 0 \in Byte /\ 128 \in Byte
    BY DEF Byte
<1>2. ByteAnd[0][128] = 0 /\ ByteAnd[128][128] = 128
    BY <1>1, HighAndLow
<1>3. \A k \in 0..7 : Bit(128, k) \in 0..1
    BY <1>1, Bits
<1>4. /\ Bit(0, 0) = 0 /\ Bit(0, 1) = 0 /\ Bit(0, 2) = 0 /\ Bit(0, 3) = 0
      /\ Bit(0, 4) = 0 /\ Bit(0, 5) = 0 /\ Bit(0, 6) = 0 /\ Bit(0, 7) = 0
    BY DEF Bit
<1> DEFINE X(k) == Bit(128, k)
<1>5. /\ X(0) \in 0..1 /\ X(1) \in 0..1 /\ X(2) \in 0..1 /\ X(3) \in 0..1
      /\ X(4) \in 0..1 /\ X(5) \in 0..1 /\ X(6) \in 0..1 /\ X(7) \in 0..1
    BY <1>3
<1>6. ByteAnd[128][0] = X(0) * 0 + 2 * (X(1) * 0) + 4 * (X(2) * 0) + 8 * (X(3) * 0)
          + 16 * (X(4) * 0) + 32 * (X(5) * 0) + 64 * (X(6) * 0) + 128 * (X(7) * 0)
    BY <1>1, <1>4, CommonBits
<1>7. ByteAnd[0][0] = 0 * 0 + 2 * (0 * 0) + 4 * (0 * 0) + 8 * (0 * 0)
          + 16 * (0 * 0) + 32 * (0 * 0) + 64 * (0 * 0) + 128 * (0 * 0)
    BY <1>1, <1>4, CommonBits
<1> HIDE DEF X
<1> QED
    BY <1>2, <1>5, <1>6, <1>7

\* Marks of one word, of either of two and of both.
LEMMA MarksTogether ==
    ASSUME NEW v, NEW w, NEW S, NEW T, IsMarks(v, S), IsMarks(w, T)
    PROVE  IsMarks(Or(v, w), S \cup T) /\ IsMarks(And(v, w), S \cap T)
<1>1. v \in Words /\ w \in Words
    BY DEF IsMarks
<1>2. \A k \in Places : /\ v[k] = IF k \in S THEN 128 ELSE 0
                        /\ w[k] = IF k \in T THEN 128 ELSE 0
    BY DEF IsMarks
<1>3. Or(v, w) \in Words /\ And(v, w) \in Words
    BY <1>1, WordOps
<1>4. \A k \in Places : And(v, w)[k] = ByteAnd[v[k]][w[k]]
    BY <1>1, WordOps
<1>5. \A k \in Places : Or(v, w)[k] = v[k] + w[k] - ByteAnd[v[k]][w[k]]
    BY <1>1, WordOps
<1>6. ASSUME NEW k \in Places
      PROVE  /\ And(v, w)[k] = IF k \in S \cap T THEN 128 ELSE 0
             /\ Or(v, w)[k] = IF k \in S \cup T THEN 128 ELSE 0
    <2>1. CASE k \in S /\ k \in T
        BY <1>2, <1>4, <1>5, <2>1, MarkBytes
    <2>2. CASE k \in S /\ k \notin T
        BY <1>2, <1>4, <1>5, <2>2, MarkBytes
    <2>3. CASE k \notin S /\ k \in T
        BY <1>2, <1>4, <1>5, <2>3, MarkBytes
    <2>4. CASE k \notin S /\ k \notin T
        BY <1>2, <1>4, <1>5, <2>4, MarkBytes
    <2> QED
        BY <2>1, <2>2, <2>3, <2>4
<1> QED
    BY <1>3, <1>6 DEF IsMarks

\* A word of marks has a bit set where it has a mark.
LEMMA AnyMark ==
    ASSUME NEW v, NEW S, IsMarks(v, S)
    PROVE  v # noBits <=> S \cap Places # {}
<1>1. noBits \in Words /\ \A k \in Places : noBits[k] = 0
    BY ConstantWords
<1>2. v \in Words /\ \A k \in Places : v[k] = IF k \in S THEN 128 ELSE 0
    BY DEF IsMarks
<1>3. v = noBits <=> \A k \in Places : v[k] = 0
    BY <1>1, <1>2 DEF Words
<1> QED
    BY <1>2, <1>3

\* The marks of a word.
LEMMA HighBits ==
    ASSUME NEW w \in Words
    PROVE  IsMarks(And(w, highBitPerByte), Marked(w))
<1>1. highBitPerByte \in Words /\ \A k \in Places : highBitPerByte[k] = 128
    BY ConstantWords
<1>2. And(w, highBitPerByte) \in Words
    BY <1>1, WordOps
<1>3. \A k \in Places : And(w, highBitPerByte)[k] = ByteAnd[w[k]][highBitPerByte[k]]
    BY <1>1, WordOps
<1>4. \A k \in Places : w[k] \in Byte
    BY DEF Words
<1>5. \A b \in Byte : ByteAnd[b][128] = IF b >= 128 THEN 128 ELSE 0
    BY HighAndLow
<1> QED
    BY <1>1, <1>2, <1>3, <1>4, <1>5 DEF IsMarks, Marked

\* bytesEqualTo marks the bytes that equal another, whatever lies beside them.
THEOREM EqualMarked ==
    ASSUME NEW w \in Words, NEW byte \in Byte
    PROVE  IsMarks(BytesEqualTo(w, byte), {k \in Places : w[k] = byte})
<1> DEFINE u == Broadcast(byte)
           x == Xor(w, u)
           low == And(x, lowBitsPerByte)
           sum == Plus(low, lowBitsPerByte)
           o == Or(sum, x)
           c == Complement(o)
<1>1. BytesEqualTo(w, byte) = And(c, highBitPerByte)
    BY DEF BytesEqualTo
<1>2. u \in Words /\ \A k \in Places : u[k] = byte
    BY BroadcastIs
<1> HIDE DEF u
<1>3. x \in Words /\ \A k \in Places : x[k] \in Byte /\ (x[k] = 0 <=> w[k] = byte)
    <2>1. x \in Words
        BY <1>2, WordOps
    <2>2. \A k \in Places : x[k] = w[k] + u[k] - 2 * ByteAnd[w[k]][u[k]]
        BY <1>2, WordOps
    <2>3. \A b \in Byte : /\ b + byte - 2 * ByteAnd[b][byte] \in Byte
                          /\ b + byte - 2 * ByteAnd[b][byte] = 0 <=> b = byte
        <3> SUFFICES ASSUME NEW b \in Byte
                     PROVE  /\ b + byte - 2 * ByteAnd[b][byte] \in Byte
                            /\ b + byte - 2 * ByteAnd[b][byte] = 0 <=> b = byte
            OBVIOUS
        <3> QED
            BY ByteOps
    <2>4. \A k \in Places : w[k] \in Byte
        BY DEF Words
    <2> HIDE DEF x
    <2> QED
        BY <1>2, <2>1, <2>2, <2>3, <2>4
<1> HIDE DEF x
<1>4. /\ low \in Words
      /\ \A k \in Places : low[k] = IF x[k] >= 128 THEN x[k] - 128 ELSE x[k]
    <2>1. lowBitsPerByte \in Words /\ \A k \in Places : lowBitsPerByte[k] = 127
        BY ConstantWords
    <2>2. low \in Words
        BY <1>3, <2>1, WordOps
    <2>3. \A k \in Places : low[k] = ByteAnd[x[k]][lowBitsPerByte[k]]
        BY <1>3, <2>1, WordOps
    <2>4. \A b \in Byte : ByteAnd[b][127] = IF b >= 128 THEN b - 128 ELSE b
        BY HighAndLow
    <2> HIDE DEF low
    <2> QED
        BY <1>3, <2>1, <2>2, <2>3, <2>4
<1> HIDE DEF low
<1>5. sum \in Words /\ \A k \in Places : sum[k] = low[k] + 127
    <2>1. lowBitsPerByte \in Words /\ \A k \in Places : lowBitsPerByte[k] = 127
        BY ConstantWords
    <2>2. sum \in Words
        BY <1>4, <2>1, Sums
    <2>3. \A k \in Places : low[k] \in 0..127
        BY <1>3, <1>4 DEF Byte
    <2>4. \A k \in Places : low[k] + lowBitsPerByte[k] <= 255
        BY <2>1, <2>3
    <2>5. \A k \in Places : sum[k] = low[k] + lowBitsPerByte[k]
        BY <1>4, <2>1, <2>4, Sums
    <2> HIDE DEF sum
    <2> QED
        BY <2>1, <2>2, <2>5
<1> HIDE DEF sum
<1>6. o \in Words /\ Marked(o) = Marked(sum) \cup Marked(x)
    BY <1>3, <1>5, WordOps, MarkOps
<1> HIDE DEF o
<1>7. c \in Words /\ Marked(c) = Places \ Marked(o)
    BY <1>6, WordOps, MarkOps
<1> HIDE DEF c
<1>8. IsMarks(And(c, highBitPerByte), Marked(c))
    BY <1>7, HighBits
<1>9. \A k \in Places : k \in Marked(sum) \cup Marked(x) <=> w[k] # byte
    <2> SUFFICES ASSUME NEW k \in Places
                 PROVE  sum[k] >= 128 \/ x[k] >= 128 <=> ~(x[k] = 0)
        BY <1>3 DEF Marked
    <2> DEFINE b == x[k]
               l == low[k]
               s == sum[k]
    <2>1. b \in Byte /\ (l = IF b >= 128 THEN b - 128 ELSE b) /\ s = l + 127
        BY <1>3, <1>4, <1>5
    <2> HIDE DEF b, l, s
    <2>2. s >= 128 \/ b >= 128 <=> ~(b = 0)
        BY <2>1 DEF Byte
    <2> QED
        BY <2>2 DEF b, s
<1>10. Marked(c) = {k \in Places : w[k] = byte}
    BY <1>6, <1>7, <1>9
<1> QED
    BY <1>1, <1>8, <1>10

\* A tabulated word has the bytes it was made of.
LEMMA WordOfBytes ==
    ASSUME NEW f, f \in [Places -> Byte]
    PROVE  WordOf(f) \in Words /\ \A k \in Places : WordOf(f)[k] = f[k]
BY Tabulated DEF Words

\* Marks shifted down by some bytes.
LEMMA MarksShifted ==
    ASSUME NEW w, NEW S, IsMarks(w, S), NEW n \in Nat
    PROVE  IsMarks(ShiftRight(w, n), {k \in Places : k + n \in S \cap Places})
<1> DEFINE f == [k \in Places |-> IF k + n \in Places THEN w[k + n] ELSE 0]
<1>1. \A k \in Places : w[k] = IF k \in S THEN 128 ELSE 0
    BY DEF IsMarks
<1>2. 0 \in Byte /\ 128 \in Byte
    BY DEF Byte
<1>3. \A k \in Places : f[k] = IF k + n \in S \cap Places THEN 128 ELSE 0
    BY <1>1
<1>4. f \in [Places -> Byte]
    BY <1>1, <1>2
<1>5. ShiftRight(w, n) = WordOf(f)
    BY DEF ShiftRight
<1> HIDE DEF f
<1> QED
    BY <1>3, <1>4, <1>5, WordOfBytes DEF IsMarks

\* hasFirstByte and hasAdjacentPair read the marks right.
THEOREM MarksRead ==
    ASSUME NEW w, NEW S, IsMarks(w, S)
    PROVE  /\ w # noBits <=> S \cap Places # {}
           /\ HasFirstByte(w) <=> 1 \in S
           /\ HasAdjacentPair(w) <=> \E k \in S \cap Places : k + 1 \in S \cap Places
<1>1. 1 \in Places
    BY WordAssumption DEF Places
<1>2. IsMarks(firstByteHighBit, {1})
    BY ConstantWords DEF IsMarks
<1>3. IsMarks(And(w, firstByteHighBit), S \cap {1})
    BY <1>2, MarksTogether
<1>4. HasFirstByte(w) <=> (S \cap {1}) \cap Places # {}
    BY <1>3, AnyMark DEF HasFirstByte
<1> DEFINE T == {k \in Places : k + 1 \in S \cap Places}
<1>5. IsMarks(ShiftRight(w, 1), T)
    BY MarksShifted
<1> HIDE DEF T
<1>6. IsMarks(And(w, ShiftRight(w, 1)), S \cap T)
    BY <1>5, MarksTogether
<1>7. HasAdjacentPair(w) <=> (S \cap T) \cap Places # {}
    BY <1>6, AnyMark DEF HasAdjacentPair
<1>8. w # noBits <=> S \cap Places # {}
    BY AnyMark
<1> QED
    BY <1>1, <1>4, <1>7, <1>8 DEF T

\* Marks spread down over one byte, two more and four more mark every byte up
\* to the last mark of a word, which has eight bytes at most.
LEMMA Spread ==
    ASSUME NEW w, NEW S \in SUBSET Places, IsMarks(w, S)
    PROVE  LET one == Or(w, ShiftRight(w, 1))
               two == Or(one, ShiftRight(one, 2))
           IN  IsMarks(Or(two, ShiftRight(two, 4)),
                       {k \in Places : \E j \in S : k <= j})
<1> DEFINE Within(n) == {k \in Places : \E j \in S : k <= j /\ j <= k + n}
           one == Or(w, ShiftRight(w, 1))
           two == Or(one, ShiftRight(one, 2))
           up == Or(two, ShiftRight(two, 4))
<1>1. wordSize \in Nat /\ wordSize <= 8 /\ Places = 1..wordSize
    BY WordAssumption DEF Places
<1>2. ASSUME NEW v, NEW a \in {0, 1, 3}, NEW n \in {1, 2, 4}, a + 1 = n,
             IsMarks(v, Within(a))
      PROVE  IsMarks(Or(v, ShiftRight(v, n)), Within(a + n))
    <2> DEFINE T == {k \in Places : k + n \in Within(a) \cap Places}
    <2>1. IsMarks(ShiftRight(v, n), T)
        BY <1>2, MarksShifted
    <2>2. Within(a) \cup T = Within(a + n)
        <3>1. ASSUME NEW k \in Places PROVE k \in Within(a) \cup T <=> k \in Within(a + n)
            BY <1>1, <1>2
        <3> QED
            BY <3>1
    <2> HIDE DEF T, Within
    <2>3. IsMarks(Or(v, ShiftRight(v, n)), Within(a) \cup T)
        BY ONLY <1>2, <2>1, MarksTogether
    <2> QED
        BY <2>2, <2>3
<1>3. IsMarks(w, Within(0))
    <2>1. Within(0) = S
        <3>1. \A k, j \in 1..wordSize : k <= j /\ j <= k + 0 <=> k = j
            BY <1>1
        <3>2. ASSUME NEW k \in Places PROVE k \in Within(0) <=> k \in S
            <4>1. k \in Within(0) <=> \E j \in S : k <= j /\ j <= k + 0
                OBVIOUS
            <4>2. \A j \in S : k <= j /\ j <= k + 0 <=> k = j
                BY <1>1, <3>1
            <4> HIDE DEF Within
            <4> QED
                BY <4>1, <4>2
        <3>3. Within(0) \subseteq Places
            OBVIOUS
        <3> HIDE DEF Within
        <3> QED
            BY <3>2, <3>3
    <2> QED
        BY <2>1
<1> HIDE DEF Within
<1>4. IsMarks(one, Within(1))
    BY <1>2, <1>3
<1> HIDE DEF one
<1>5. IsMarks(two, Within(3))
    BY <1>2, <1>4
<1> HIDE DEF two
<1>6. IsMarks(up, Within(7))
    BY <1>2, <1>5
<1>7. Within(7) = {k \in Places : \E j \in S : k <= j}
    BY <1>1 DEF Within
<1> QED
    BY <1>6, <1>7 DEF one, two

\* Each byte of a word added into itself and all above it: where the word is
\* one byte of 1 after another from some place on, the highest has their number.
LEMMA Multiplied ==
    ASSUME NEW w \in Words, NEW last \in Places,
           \A k \in Places : w[k] = IF k > last THEN 1 ELSE 0
    PROVE  /\ TimesOnePerByte(w) \in Words
           /\ TimesOnePerByte(w)[wordSize] = wordSize - last
<1> DEFINE n == wordSize - 1
           next == [k \in 1..n |-> [v \in Words |-> Plus(v, ShiftLeft(w, k))]]
           sum == CHOOSE g : g = [k \in 0..n |->
                      IF k = 0 THEN w ELSE Plus(g[k - 1], ShiftLeft(w, k))]
           Upto(m, j) == IF j <= last THEN 0
                         ELSE IF j - last <= m + 1 THEN j - last ELSE m + 1
           Done == {m \in 0..n : sum[m] \in Words
                                    /\ \A j \in Places : sum[m][j] = Upto(m, j)}
<1>1. /\ wordSize \in Nat /\ wordSize <= 8 /\ Places = 1..wordSize
      /\ n \in Nat /\ n + 1 = wordSize /\ n <= 7 /\ last \in 1..8
    BY WordAssumption DEF Places
<1> HIDE DEF n
<1>2. ASSUME NEW k \in 1..n
      PROVE  /\ ShiftLeft(w, k) \in Words
             /\ \A j \in Places : ShiftLeft(w, k)[j] = IF j - last > k THEN 1 ELSE 0
    <2> DEFINE f == [j \in Places |-> IF j > k THEN w[j - k] ELSE 0]
    <2>1. 0 \in Byte /\ 1 \in Byte
        BY DEF Byte
    <2>2. \A j \in Places : f[j] = IF j - last > k THEN 1 ELSE 0
        <3> SUFFICES ASSUME NEW j \in Places
                     PROVE  f[j] = IF j - last > k THEN 1 ELSE 0
            OBVIOUS
        <3>1. CASE j > k
            <4>1. j - k \in Places
                BY <1>1, <3>1
            <4>2. f[j] = IF j - k > last THEN 1 ELSE 0
                BY <3>1, <4>1
            <4> QED
                BY <1>1, <4>2
        <3>2. CASE ~(j > k)
            BY <1>1, <3>2
        <3> QED
            BY <3>1, <3>2
    <2>3. f \in [Places -> Byte]
        BY <2>1, <2>2
    <2>4. ShiftLeft(w, k) = WordOf(f)
        BY DEF ShiftLeft
    <2> HIDE DEF f
    <2> QED
        BY <2>2, <2>3, <2>4, WordOfBytes
<1>3. sum = [k \in 0..n |-> IF k = 0 THEN w ELSE Plus(sum[k - 1], ShiftLeft(w, k))]
    <2>1. StepsWithin(next, Words, n)
        BY <1>2, Sums DEF StepsWithin
    <2> HIDE DEF next, sum
    <2>2. PICK f : FollowsSteps(f, w, next, Words, n)
        BY <1>1, <2>1, Recursion
    <2>3. /\ f \in [0..n -> Words] /\ f[0] = w
          /\ \A j \in 1..n : f[j] = next[j][f[j - 1]]
        BY <2>2 DEF FollowsSteps
    <2>4. \A j \in 1..n : f[j - 1] \in Words
        BY <1>1, <2>3
    <2>5. \A j \in 1..n : f[j] = Plus(f[j - 1], ShiftLeft(w, j))
        BY <2>3, <2>4 DEF next
    <2>6. f = [j \in 0..n |-> IF j = 0 THEN w ELSE Plus(f[j - 1], ShiftLeft(w, j))]
        BY <1>1, <2>3, <2>5
    <2> QED
        BY <2>6 DEF sum
<1>4. TimesOnePerByte(w) = sum[n]
    BY DEF TimesOnePerByte, n
<1> HIDE DEF sum
<1>5. 0 \in Done
    <2>1. sum[0] = w /\ 0 \in 0..n
        BY <1>1, <1>3
    <2>2. \A j \in Places : Upto(0, j) = IF j > last THEN 1 ELSE 0
        BY <1>1
    <2> HIDE DEF Upto
    <2> QED
        BY <2>1, <2>2
<1>6. ASSUME NEW m \in 0..(n - 1), m \in Done PROVE m + 1 \in Done
    <2>1. m + 1 \in 1..n /\ m + 1 \in 0..n /\ (m + 1) - 1 = m /\ m + 1 # 0
        BY <1>1
    <2> DEFINE v == sum[m]
               u == ShiftLeft(w, m + 1)
    <2>2. sum[m + 1] = Plus(v, u)
        BY <1>3, <2>1
    <2>3. u \in Words /\ \A j \in Places : u[j] = IF j - last > m + 1 THEN 1 ELSE 0
        BY <1>2, <2>1
    <2>4. v \in Words /\ \A j \in Places : v[j] = Upto(m, j)
        BY <1>6
    <2> HIDE DEF v, u
    <2>5. \A j \in Places : /\ Upto(m, j) + (IF j - last > m + 1 THEN 1 ELSE 0) <= 255
                            /\ Upto(m, j) + (IF j - last > m + 1 THEN 1 ELSE 0)
                                  = Upto(m + 1, j)
        BY <1>1, <2>1
    <2> HIDE DEF Upto
    <2>6. \A j \in Places : v[j] + u[j] <= 255
        BY <2>3, <2>4, <2>5
    <2>7. Plus(v, u) \in Words /\ \A j \in Places : Plus(v, u)[j] = v[j] + u[j]
        <3>1. Plus(v, u) \in Words
            BY <2>3, <2>4, Sums
        <3>2. \A j \in Places : Plus(v, u)[j] = v[j] + u[j]
            BY <2>3, <2>4, <2>6, Sums
        <3> QED
            BY <3>1, <3>2
    <2>8. \A j \in Places : Plus(v, u)[j] = Upto(m + 1, j)
        BY <2>3, <2>4, <2>5, <2>7
    <2> QED
        BY <2>1, <2>2, <2>7, <2>8
<1>7. 0..n \subseteq Done
    <2> HIDE DEF Done
    <2> QED
        BY <1>1, <1>5, <1>6, Induction
<1>8. n \in 0..n /\ wordSize \in Places
    BY <1>1
<1>9. Upto(n, wordSize) = wordSize - last
    BY <1>1
<1> HIDE DEF Upto
<1> QED
    BY <1>4, <1>7, <1>8, <1>9

\* numBytesAfterLast counts the bytes above the last mark.
THEOREM AfterLast ==
    ASSUME NEW w, NEW S \in SUBSET Places, IsMarks(w, S),
           NEW last \in S, \A k \in S : k <= last
    PROVE  NumBytesAfterLast(w) = wordSize - last
<1> DEFINE one == Or(w, ShiftRight(w, 1))
           two == Or(one, ShiftRight(one, 2))
           upToLast == Or(two, ShiftRight(two, 4))
           after == And(Complement(upToLast), highBitPerByte)
           ones == HighBitsToLow(after)
           sum == TimesOnePerByte(ones)
           f == [k \in Places |-> after[k] \div 128
                   + (IF k + 1 \in Places THEN 2 * (after[k + 1] % 128) ELSE 0)]
           g == [k \in Places |->
                   IF k + (wordSize - 1) \in Places THEN sum[k + (wordSize - 1)] ELSE 0]
<1>1. /\ wordSize \in Nat /\ Places = 1..wordSize /\ 1 \in Places
      /\ 1 + (wordSize - 1) = wordSize /\ wordSize \in Places
    BY WordAssumption DEF Places
<1>2. NumBytesAfterLast(w) = ShiftRight(sum, wordSize - 1)[1]
    BY DEF NumBytesAfterLast
<1>3. ones = WordOf(f) /\ ShiftRight(sum, wordSize - 1) = WordOf(g)
    BY DEF HighBitsToLow, ShiftRight
<1>4. IsMarks(upToLast, {k \in Places : \E j \in S : k <= j})
    BY Spread
<1> HIDE DEF upToLast
<1>5. {k \in Places : \E j \in S : k <= j} = {k \in Places : k <= last}
    BY <1>1
<1>6. upToLast \in Words /\ Marked(upToLast) = {k \in Places : k <= last}
    BY <1>4, <1>5 DEF IsMarks, Marked
<1>7. /\ Complement(upToLast) \in Words
      /\ Marked(Complement(upToLast)) = Places \ {k \in Places : k <= last}
    BY <1>6, WordOps, MarkOps
<1>8. IsMarks(after, Places \ {k \in Places : k <= last})
    BY <1>7, HighBits
<1> HIDE DEF after
<1>9. \A k \in Places : after[k] = IF k > last THEN 128 ELSE 0
    BY <1>1, <1>8 DEF IsMarks
<1>10. \A k \in Places : f[k] = IF k > last THEN 1 ELSE 0
    <2>1. 128 \div 128 = 1 /\ 0 \div 128 = 0 /\ 128 % 128 = 0 /\ 0 % 128 = 0
        OBVIOUS
    <2> QED
        BY <1>9, <2>1
<1>11. ones \in Words /\ \A k \in Places : ones[k] = IF k > last THEN 1 ELSE 0
    <2>1. f \in [Places -> Byte]
        BY <1>10 DEF Byte
    <2> HIDE DEF f, ones
    <2> QED
        BY <1>3, <1>10, <2>1, WordOfBytes
<1> HIDE DEF f, ones
<1>12. sum \in Words /\ sum[wordSize] = wordSize - last
    BY <1>11, Multiplied
<1> HIDE DEF sum
<1>13. g \in [Places -> Byte]
    BY <1>12 DEF Words, Byte
<1>14. g[1] = wordSize - last
    BY <1>1, <1>12
<1> HIDE DEF g
<1> QED
    BY <1>1, <1>2, <1>3, <1>13, <1>14, WordOfBytes

(***************************************************************************)
(* What the runs check of a word read from a text.                         *)
(***************************************************************************)

\* The text read is made of bytes.
TextOfBytes == chars \in Seq(Byte)

\* Reading keeps it so.
LEMMA ReadsBytes == MCSpec => []TextOfBytes
<1>1. MCInit => TextOfBytes
    BY DEF MCInit, TextOfBytes
<1>2. TextOfBytes /\ [MCNext]_chars => TextOfBytes'
    <2>1. BoundaryBytes \subseteq Byte
        BY DEF BoundaryBytes, Byte
    <2> QED
        BY <2>1 DEF MCNext, ReadByte, TextOfBytes
<1> QED
    BY <1>1, <1>2, PTL DEF MCSpec

\* A full text is the word read from it.
LEMMA FullWord ==
    ASSUME TextOfBytes, Full
    PROVE  word = chars /\ word \in Words
<1>1. chars \in Seq(Byte) /\ Len(chars) = wordSize /\ wordSize \in Nat
    BY WordAssumption DEF TextOfBytes, Full
<1>2. word = SubSeq(chars, 1, Len(chars))
    BY <1>1 DEF word, LoadWord
<1>3. SubSeq(chars, 1, Len(chars)) = chars
    BY <1>1
<1>4. chars \in [1..wordSize -> Byte]
    BY <1>1
<1> QED
    BY <1>2, <1>3, <1>4 DEF Words, Places

\* HasPatternOpenerOrIllegalByte is exact on a word of text.
THEOREM PatternTestOfText == MCSpec => []PatternTestExact
<1>1. TextOfBytes => PatternTestExact
    BY FullWord, PatternTest DEF PatternTestExact, Places
<1> QED
    BY <1>1, ReadsBytes, PTL

\* HasIllegalAddressByte is exact on a word of text.
THEOREM AddressTestOfText == MCSpec => []AddressTestExact
<1>1. TextOfBytes => AddressTestExact
    BY FullWord, AddressTest DEF AddressTestExact, Places
<1> QED
    BY <1>1, ReadsBytes, PTL

\* The marks of separators, and what is read from them, are exact on a word of
\* text.
THEOREM SeparatorsOfText == MCSpec => []SeparatorsExact
<1>1. ASSUME TextOfBytes, Full PROVE SeparatorsExact
    <2> DEFINE separators == BytesEqualTo(word, partSeparator)
               S == {k \in 1..wordSize : chars[k] = partSeparator}
               m == [k \in Places |-> IF chars[k] = partSeparator THEN 128 ELSE 0]
    <2>1. word = chars /\ word \in Words /\ Places = 1..wordSize
        BY <1>1, FullWord DEF Places
    <2>2. partSeparator \in Byte /\ 0 \in Byte /\ 128 \in Byte
        BY DEF Byte, partSeparator
    <2>3. IsMarks(separators, S)
        BY <2>1, <2>2, EqualMarked
    <2> HIDE DEF separators
    <2>4. separators = Marks(LAMBDA byte : byte = partSeparator)
        <3>1. m \in [Places -> Byte]
            BY <2>2
        <3>2. Marks(LAMBDA byte : byte = partSeparator) = WordOf(m)
            BY DEF Marks
        <3>3. \A k \in Places : m[k] = separators[k]
            BY <2>1, <2>3 DEF IsMarks
        <3>4. separators \in [Places -> Byte]
            BY <2>3 DEF IsMarks, Words
        <3>5. m = separators
            BY <3>1, <3>3, <3>4
        <3> QED
            BY <3>1, <3>2, <3>5, Tabulated
    <2>5. HasFirstByte(separators) <=> 1 \in S
        BY <2>3, MarksRead
    <2>6. HasAdjacentPair(separators) <=> \E k \in S : k + 1 \in S
        <3>1. HasAdjacentPair(separators)
                  <=> \E k \in S \cap Places : k + 1 \in S \cap Places
            BY <2>3, MarksRead
        <3> QED
            BY <2>1, <3>1
    <2>7. ASSUME S # {} PROVE NumBytesAfterLast(separators) = wordSize - Max(S)
        <3>1. S \subseteq 1..wordSize /\ wordSize \in Nat /\ S \subseteq 0..wordSize
            BY WordAssumption
        <3> HIDE DEF S
        <3>2. Max(S) \in S /\ \A k \in S : k <= Max(S)
            BY <2>7, <3>1, GreatestOf
        <3> QED
            BY <2>1, <2>3, <3>1, <3>2, AfterLast
    <2> QED
        BY <2>4, <2>5, <2>6, <2>7 DEF SeparatorsExact, separators
<1>2. TextOfBytes => SeparatorsExact
    BY <1>1 DEF SeparatorsExact
<1> QED
    BY <1>2, ReadsBytes, PTL

-----------------------------------------------------------------------------
(***************************************************************************)
(* The text and its words.                                                 *)
(***************************************************************************)

\* The limits are numbers, and so is the length of a word.
LEMMA Limits ==
    /\ wordSize \in Nat /\ wordSize >= 1
    /\ kMaxPatternLength \in Nat /\ kMaxPatternLength >= 1
    /\ kMaxAddressPartLength \in Nat /\ kMaxPatternLength <= kMaxAddressPartLength
    /\ firstByteRun \in Nat /\ firstByteRun >= 1
BY WordAssumption, LengthAssumption, ConstantsAssumption

\* The bytes of a text.
LEMMA TextIs ==
    ASSUME TypeOK
    PROVE  /\ text \in Seq(TextBytes) /\ Len(text) \in Nat
           /\ \A at \in 0..(Len(text) - 1) : At(at) \in TextBytes /\ At(at) \in Byte
           /\ HasLeadingSlash => Len(text) >= 1 /\ IsSeparator(0)
<1>1. text \in Seq(TextBytes) /\ Len(text) \in Nat
    BY DEF TypeOK
<1>2. ASSUME NEW at \in 0..(Len(text) - 1)
      PROVE  At(at) \in TextBytes /\ At(at) \in Byte
    <2>1. at + 1 \in 1..Len(text)
        BY <1>1
    <2>2. text[at + 1] \in TextBytes
        BY <1>1, <2>1, ElementOfSeq
    <2> QED
        BY <2>2, ConstantsAssumption DEF At
<1>3. HasLeadingSlash => Len(text) >= 1 /\ IsSeparator(0)
    BY <1>1, EmptySeq DEF HasLeadingSlash, IsSeparator
<1> QED
    BY <1>1, <1>2, <1>3

\* The scans stay within a text that is not empty.
LEMMA PlacesAre ==
    ASSUME TypeOK, Len(text) >= 1
    PROVE  /\ Max({1, Len(text)}) = Len(text)
           /\ i \in 1..Len(text) /\ stop \in 1..Len(text)
           /\ partStart \in 1..Len(text)
<1>1. Len(text) \in Nat
    BY TextIs
<1>2. {1, Len(text)} \subseteq 0..Len(text) /\ {1, Len(text)} # {}
    BY <1>1
<1>3. /\ Max({1, Len(text)}) \in {1, Len(text)}
      /\ \A n \in {1, Len(text)} : n <= Max({1, Len(text)})
    BY <1>1, <1>2, GreatestOf
<1>4. Max({1, Len(text)}) = Len(text)
    BY <1>1, <1>3
<1> QED
    BY <1>4 DEF TypeOK

\* How much of a pattern is scanned.
LEMMA CheckedIs ==
    ASSUME Len(text) \in Nat
    PROVE  /\ Checked \in Nat /\ Checked <= Len(text)
           /\ Checked <= kMaxPatternLength
           /\ Len(text) <= kMaxPatternLength => Checked = Len(text)
           /\ Len(text) > kMaxPatternLength => Checked = kMaxPatternLength
           /\ Len(text) >= 1 => Checked >= 1
<1>1. kMaxPatternLength \in Nat /\ kMaxPatternLength >= 1
    BY Limits
<1>2. /\ Checked \in {Len(text), kMaxPatternLength}
      /\ \A n \in {Len(text), kMaxPatternLength} : Checked <= n
    <2>1. {Len(text), kMaxPatternLength} \subseteq Nat
        BY <1>1
    <2> QED
        BY <2>1, LeastOf DEF Checked
<1> QED
    BY <1>1, <1>2

\* What is asked of the word at a position, said of its bytes.
WordIsTested(at) ==
    LET Within == at..(at + wordSize - 1)
    IN  /\ Word(at).hasOpenerOrIllegal
               <=> \E p \in Within : IsOpener(At(p)) \/ ~IsLegalInPattern(At(p))
        /\ Word(at).hasIllegal
               <=> \E p \in Within : ~IsSeparator(p) /\ ~IsLegalInAddressPart(At(p))
        /\ Word(at).hasSeparator <=> \E p \in Within : IsSeparator(p)
        /\ Word(at).hasAdjacentPair
               <=> \E p \in Within : p + 1 \in Within /\ IsSeparator(p) /\ IsSeparator(p + 1)
        /\ Word(at).hasFirstByte <=> IsSeparator(at)
        /\ \A last \in Within :
               IsSeparator(last) /\ (\A p \in (last + 1)..(at + wordSize - 1) : ~IsSeparator(p))
                   => Word(at).numBytesAfterLast = at + wordSize - 1 - last

\* A word of the text is one of those tabulated, and its bytes are the text's.
LEMMA WordOfText ==
    ASSUME TypeOK, NEW at \in Nat, at + wordSize <= Len(text)
    PROVE  /\ LoadWord(text, at) \in [Places -> TextBytes]
           /\ LoadWord(text, at) \in Words
           /\ \A k \in Places : LoadWord(text, at)[k] = At(at + k - 1)
<1>1. text \in Seq(TextBytes) /\ Len(text) \in Nat /\ wordSize \in Nat
    BY TextIs, Limits
<1> DEFINE w == LoadWord(text, at)
<1>2. w = [k \in 1..wordSize |-> text[at + k]]
    <2>1. w = SubSeq(text, at + 1, at + wordSize)
        BY DEF LoadWord
    <2>2. /\ at + 1 \in 1..(Len(text) + 1) /\ at + wordSize \in 0..Len(text)
          /\ (at + wordSize) - (at + 1) + 1 = wordSize
        BY <1>1
    <2>3. \A k \in 1..wordSize : at + 1 + k - 1 = at + k
        BY <1>1
    <2> HIDE DEF w
    <2> QED
        BY <1>1, <2>1, <2>2, <2>3
<1> HIDE DEF w
<1>3. \A k \in 1..wordSize : text[at + k] = At(at + k - 1) /\ at + k \in 1..Len(text)
    BY <1>1 DEF At
<1>4. w \in [1..wordSize -> TextBytes]
    BY <1>1, <1>2, <1>3, ElementOfSeq
<1>5. w \in [1..wordSize -> Byte]
    BY <1>4, ConstantsAssumption
<1> QED
    BY <1>2, <1>3, <1>4, <1>5 DEF w, Words, Places

\* The answers tabulated for the words of a text are right.
LEMMA WordTested ==
    ASSUME TypeOK, NEW at \in Nat, at + wordSize <= Len(text)
    PROVE  WordIsTested(at)
<1> DEFINE w == LoadWord(text, at)
           Within == at..(at + wordSize - 1)
           separators == BytesEqualTo(w, partSeparator)
           S == {k \in Places : w[k] = partSeparator}
           Tests(v) ==
               LET marks == BytesEqualTo(v, partSeparator)
               IN  [hasOpenerOrIllegal |-> HasPatternOpenerOrIllegalByte(v),
                    hasIllegal         |-> HasIllegalAddressByte(v),
                    hasSeparator       |-> marks # noBits,
                    hasAdjacentPair    |-> HasAdjacentPair(marks),
                    hasFirstByte       |-> HasFirstByte(marks),
                    numBytesAfterLast  |-> NumBytesAfterLast(marks)]
<1>1. /\ w \in [Places -> TextBytes] /\ w \in Words
      /\ \A k \in Places : w[k] = At(at + k - 1)
    BY WordOfText
<1>2. w \in {WordOf(bytes) : bytes \in [Places -> TextBytes]}
    <2>1. WordOf(w) = w
        BY <1>1, Tabulated
    <2> HIDE DEF w
    <2> QED
        BY <1>1, <2>1
<1>3. wordSize \in Nat /\ wordSize >= 1 /\ Places = 1..wordSize
    BY Limits DEF Places
<1> HIDE DEF w
<1>4. Word(at) = Tests(w)
    BY <1>2 DEF Word, WordTests, w
<1>5. /\ Word(at).hasOpenerOrIllegal <=> HasPatternOpenerOrIllegalByte(w)
      /\ Word(at).hasIllegal <=> HasIllegalAddressByte(w)
      /\ Word(at).hasSeparator <=> separators # noBits
      /\ Word(at).hasAdjacentPair <=> HasAdjacentPair(separators)
      /\ Word(at).hasFirstByte <=> HasFirstByte(separators)
      /\ Word(at).numBytesAfterLast = NumBytesAfterLast(separators)
    <2> DEFINE a == HasPatternOpenerOrIllegalByte(w)
               b == HasIllegalAddressByte(w)
               c == separators # noBits
               d == HasAdjacentPair(separators)
               e == HasFirstByte(separators)
               f == NumBytesAfterLast(separators)
               r == Word(at)
    <2>1. r = [hasOpenerOrIllegal |-> a, hasIllegal |-> b, hasSeparator |-> c,
               hasAdjacentPair |-> d, hasFirstByte |-> e, numBytesAfterLast |-> f]
        BY <1>4
    <2> HIDE DEF a, b, c, d, e, f, r
    <2>2. /\ r.hasOpenerOrIllegal = a /\ r.hasIllegal = b /\ r.hasSeparator = c
          /\ r.hasAdjacentPair = d /\ r.hasFirstByte = e /\ r.numBytesAfterLast = f
        BY <2>1
    <2>3. /\ r.hasOpenerOrIllegal <=> a
          /\ r.hasIllegal <=> b
          /\ r.hasSeparator <=> c
          /\ r.hasAdjacentPair <=> d
          /\ r.hasFirstByte <=> e
          /\ r.numBytesAfterLast = f
        BY <2>2, Zenon
    <2> QED
        BY <2>3, Zenon DEF a, b, c, d, e, f, r
<1> HIDE DEF Tests
<1>6. /\ \A k \in Places : at + k - 1 \in Within
      /\ \A p \in Within : p - at + 1 \in Places /\ at + (p - at + 1) - 1 = p
    BY <1>3
<1>7. \A p \in Within : w[p - at + 1] = At(p)
    BY <1>1, <1>6
<1>8. IsMarks(separators, S) /\ S \subseteq Places
    <2>1. partSeparator \in Byte
        BY DEF partSeparator, Byte
    <2> QED
        BY <1>1, <2>1, EqualMarked
<1> HIDE DEF separators
<1>9. \A p \in Within : p - at + 1 \in S <=> IsSeparator(p)
    BY <1>6, <1>7 DEF IsSeparator
<1> HIDE DEF S
<1>10. Word(at).hasOpenerOrIllegal
           <=> \E p \in Within : IsOpener(At(p)) \/ ~IsLegalInPattern(At(p))
    <2>1. HasPatternOpenerOrIllegalByte(w)
              <=> \E k \in Places : IsOpener(w[k]) \/ ~IsLegalInPattern(w[k])
        BY <1>1, PatternTest
    <2>2. (\E k \in Places : IsOpener(w[k]) \/ ~IsLegalInPattern(w[k]))
              <=> \E p \in Within : IsOpener(At(p)) \/ ~IsLegalInPattern(At(p))
        BY <1>1, <1>6, <1>7
    <2> QED
        BY <1>5, <2>1, <2>2
<1>11. Word(at).hasIllegal
           <=> \E p \in Within : ~IsSeparator(p) /\ ~IsLegalInAddressPart(At(p))
    <2>1. HasIllegalAddressByte(w)
              <=> \E k \in Places : w[k] # partSeparator /\ ~IsLegalInAddressPart(w[k])
        BY <1>1, AddressTest
    <2>2. (\E k \in Places : w[k] # partSeparator /\ ~IsLegalInAddressPart(w[k]))
              <=> \E p \in Within : ~IsSeparator(p) /\ ~IsLegalInAddressPart(At(p))
        BY <1>1, <1>6, <1>7 DEF IsSeparator
    <2> QED
        BY <1>5, <2>1, <2>2
<1>12. Word(at).hasSeparator <=> \E p \in Within : IsSeparator(p)
    <2>1. separators # noBits <=> S \cap Places # {}
        BY <1>8, MarksRead
    <2>2. S \cap Places # {} <=> \E p \in Within : IsSeparator(p)
        BY <1>1, <1>6, <1>8, <1>9 DEF IsSeparator, S
    <2> QED
        BY <1>5, <2>1, <2>2
<1>13. Word(at).hasAdjacentPair
           <=> \E p \in Within : p + 1 \in Within /\ IsSeparator(p) /\ IsSeparator(p + 1)
    <2>1. HasAdjacentPair(separators)
              <=> \E k \in S \cap Places : k + 1 \in S \cap Places
        BY <1>8, MarksRead
    <2>2. ASSUME NEW k \in S \cap Places, k + 1 \in S \cap Places
          PROVE  \E p \in Within : p + 1 \in Within /\ IsSeparator(p) /\ IsSeparator(p + 1)
        <3> DEFINE p == at + k - 1
        <3>1. p \in Within /\ p + 1 \in Within /\ p - at + 1 = k /\ (p + 1) - at + 1 = k + 1
            <4>1. k \in Places /\ k + 1 \in Places
                BY <2>2
            <4> QED
                BY <1>3, <4>1
        <3> HIDE DEF p
        <3> QED
            BY <1>9, <2>2, <3>1
    <2>3. ASSUME NEW p \in Within, p + 1 \in Within, IsSeparator(p), IsSeparator(p + 1)
          PROVE  \E k \in S \cap Places : k + 1 \in S \cap Places
        <3> DEFINE k == p - at + 1
        <3>1. k \in S /\ (p + 1) - at + 1 \in S /\ (p + 1) - at + 1 = k + 1
            BY <1>3, <1>9, <2>3
        <3> HIDE DEF k
        <3> QED
            BY <1>8, <3>1
    <2> QED
        BY <1>5, <2>1, <2>2, <2>3
<1>14. Word(at).hasFirstByte <=> IsSeparator(at)
    <2>1. at \in Within /\ at - at + 1 = 1
        BY <1>3
    <2> QED
        BY <1>5, <1>8, <1>9, <2>1, MarksRead
<1>15. ASSUME NEW last \in Within, IsSeparator(last),
              \A p \in (last + 1)..(at + wordSize - 1) : ~IsSeparator(p)
       PROVE  Word(at).numBytesAfterLast = at + wordSize - 1 - last
    <2> DEFINE k == last - at + 1
    <2>1. k \in S
        BY <1>9, <1>15
    <2>2. ASSUME NEW j \in S PROVE j <= k
        <3> DEFINE p == at + j - 1
        <3>1. p \in Within /\ p - at + 1 = j /\ j \in Int
            BY <1>3, <1>8, <2>2
        <3> HIDE DEF p
        <3>2. IsSeparator(p)
            BY <1>9, <2>2, <3>1
        <3>3. p <= last
            BY <1>15, <3>1, <3>2
        <3> QED
            BY <3>1, <3>3
    <2> HIDE DEF k
    <2>3. NumBytesAfterLast(separators) = wordSize - k
        BY <1>8, <2>1, <2>2, AfterLast
    <2> QED
        BY <1>3, <1>5, <2>3 DEF k
<1> QED
    BY <1>10, <1>11, <1>12, <1>13, <1>14, <1>15 DEF WordIsTested

\* What is read off the text stays the same while the text does.
LEMMA TextKept ==
    ASSUME text' = text
    PROVE  /\ Checked' = Checked
           /\ HasWildcard' <=> HasWildcard
           /\ HasLeadingSlash' <=> HasLeadingSlash
           /\ \A limit : HasPartLongerThan(limit)' <=> HasPartLongerThan(limit)
           /\ AddressFault' = AddressFault
           /\ PatternFault' = PatternFault
<1>1. /\ Checked' = Checked
      /\ HasWildcard' <=> HasWildcard
      /\ HasLeadingSlash' <=> HasLeadingSlash
      /\ \A limit : HasPartLongerThan(limit)' <=> HasPartLongerThan(limit)
    BY DEF Checked, HasWildcard, HasLeadingSlash, HasPartLongerThan, IsSeparator, At
<1>2. AddressFault' = AddressFault
    BY DEF AddressFault, AddressFaultAt, PartLengthAt, IsSeparator, At
<1>3. PatternFault' = PatternFault
    BY DEF PatternFault, Close, ConstructIsLegal, Unterminated, IsSeparator, At, NoFault
<1> QED
    BY <1>1, <1>2, <1>3

-----------------------------------------------------------------------------
(***************************************************************************)
(* Addresses.                                                              *)
(***************************************************************************)

\* The bytes before a position have been read without a fault, and the part
\* they end in begins at `from'.
AddressReadTo(from, to) ==
    /\ from <= to
    /\ IsSeparator(from - 1)
    /\ \A at \in from..(to - 1) : ~IsSeparator(at)
    /\ \A at \in 1..(to - 1) : AddressFaultAt(at) = "ok"

\* An address is read up to the position of its scan.
AddressRead ==
    result = "running" /\ HasLeadingSlash /\ scanning # "pattern" =>
        AddressReadTo(partStart, i)

\* The length of a part up to one of its bytes, and the most it can be.
LEMMA PartLength ==
    ASSUME NEW from \in Nat, from >= 1, IsSeparator(from - 1),
           NEW at \in Nat, from - 1 <= at
    PROVE  /\ PartLengthAt(at) \in Int /\ PartLengthAt(at) <= at + 1 - from
           /\ (\A p \in from..at : ~IsSeparator(p)) => PartLengthAt(at) = at + 1 - from
<1> DEFINE S == {b \in 0..at : IsSeparator(b)}
<1>1. from - 1 \in S /\ S \subseteq 0..at
    OBVIOUS
<1>2. Max(S) \in S /\ \A b \in S : b <= Max(S)
    <2> HIDE DEF S
    <2> QED
        BY <1>1, GreatestOf
<1>3. PartLengthAt(at) = at - Max(S)
    BY DEF PartLengthAt
<1>4. Max(S) \in 0..at /\ from - 1 <= Max(S) /\ IsSeparator(Max(S))
    BY <1>1, <1>2
<1>5. ASSUME \A p \in from..at : ~IsSeparator(p) PROVE Max(S) = from - 1
    <2>1. Max(S) \notin from..at
        BY <1>4, <1>5
    <2> HIDE DEF S
    <2> QED
        BY <1>4, <2>1
<1> HIDE DEF S
<1> QED
    BY <1>3, <1>4, <1>5

\* The first fault of an address is its fault.
LEMMA FirstFault ==
    ASSUME Len(text) \in Nat, NEW p \in 1..(Len(text) - 1),
           \A at \in 1..(p - 1) : AddressFaultAt(at) = "ok",
           AddressFaultAt(p) # "ok"
    PROVE  AddressFault = AddressFaultAt(p)
<1> DEFINE Faults == {at \in 1..(Len(text) - 1) : AddressFaultAt(at) # "ok"}
<1>1. p \in Faults /\ Faults \subseteq Nat
    OBVIOUS
<1>2. Min(Faults) \in Faults /\ \A at \in Faults : Min(Faults) <= at
    <2> HIDE DEF Faults
    <2> QED
        BY <1>1, LeastOf
<1>3. \A at \in Faults : p <= at
    OBVIOUS
<1>4. Min(Faults) = p
    <2> HIDE DEF Faults
    <2>1. Min(Faults) \in Nat /\ p \in Nat
        BY <1>1, <1>2
    <2>2. Min(Faults) <= p /\ p <= Min(Faults)
        BY <1>1, <1>2, <1>3
    <2> QED
        BY <2>1, <2>2
<1> QED
    BY <1>1, <1>4 DEF AddressFault

\* An address without a fault in its bytes may end in a slash.
LEMMA FaultAtEnd ==
    ASSUME \A at \in 1..(Len(text) - 1) : AddressFaultAt(at) = "ok"
    PROVE  AddressFault
               = IF IsSeparator(Len(text) - 1) THEN "TrailingSlash" ELSE "ok"
BY DEF AddressFault

\* In a part, an address may only have an illegal byte or one too many.
LEMMA FaultInPart ==
    ASSUME NEW from \in Nat, from >= 1, NEW to \in Nat, AddressReadTo(from, to)
    PROVE  /\ IsSeparator(to) =>
                 AddressFaultAt(to) = IF to = from THEN "EmptyPart" ELSE "ok"
           /\ ~IsSeparator(to) =>
                 AddressFaultAt(to) =
                     IF ~IsLegalInAddressPart(At(to)) THEN "IllegalByte"
                     ELSE IF to + 1 - from > kMaxAddressPartLength THEN "PartTooLong"
                     ELSE "ok"
<1>1. /\ from <= to /\ IsSeparator(from - 1)
      /\ \A at \in from..(to - 1) : ~IsSeparator(at)
    BY DEF AddressReadTo
<1>2. ASSUME IsSeparator(to)
      PROVE  AddressFaultAt(to) = IF to = from THEN "EmptyPart" ELSE "ok"
    <2>1. IsSeparator(to - 1) <=> to = from
        BY <1>1
    <2> QED
        BY <1>2, <2>1 DEF AddressFaultAt
<1>3. ASSUME ~IsSeparator(to) PROVE PartLengthAt(to) = to + 1 - from
    <2>1. \A p \in from..to : ~IsSeparator(p)
        BY <1>1, <1>3
    <2> QED
        BY <1>1, <2>1, PartLength
<1> QED
    BY <1>2, <1>3 DEF AddressFaultAt

\* A word with no illegal byte, read within the length of a part, has an empty
\* part if the test says so, and else the scan goes on behind its last slash.
LEMMA WordInAddress ==
    ASSUME TypeOK, HasLeadingSlash, AddressReadTo(partStart, i), WordIsLegal
    PROVE  /\ WordHasEmptyPart =>
                \E p \in 1..(Len(text) - 1) :
                    /\ \A at \in 1..(p - 1) : AddressFaultAt(at) = "ok"
                    /\ AddressFaultAt(p) = "EmptyPart"
           /\ ~WordHasEmptyPart =>
                /\ AddressReadTo(PartStartInWord, i + wordSize)
                /\ PartStartInWord \in 1..Len(text)
<1> DEFINE n == Len(text)
           end == i + wordSize
           Within == i..(i + wordSize - 1)
           Empty == {p \in Within : IsSeparator(p) /\ IsSeparator(p - 1)}
<1>1. /\ n \in Nat /\ n >= 1 /\ wordSize \in Nat /\ wordSize >= 1
      /\ kMaxAddressPartLength \in Nat
    BY TextIs, Limits
<1>2. i \in Nat /\ i >= 1 /\ i <= n /\ partStart \in Nat /\ partStart >= 1
    <2>1. i \in 1..n /\ partStart \in 1..n
        BY <1>1, PlacesAre
    <2> HIDE DEF n
    <2> QED
        BY <1>1, <2>1
<1>3. /\ end <= n /\ ~Word(i).hasIllegal
      /\ end - partStart <= kMaxAddressPartLength
    <2>1. ~Word(i).hasIllegal
        BY Zenon DEF WordIsLegal
    <2>2. i + wordSize <= Len(text) /\ i + wordSize - partStart <= kMaxAddressPartLength
        BY Zenon DEF WordIsLegal
    <2>3. end - partStart = i + wordSize - partStart
        BY <1>1, <1>2
    <2> QED
        BY <2>1, <2>2, <2>3, Zenon
<1>4. /\ partStart <= i /\ IsSeparator(partStart - 1)
      /\ \A at \in partStart..(i - 1) : ~IsSeparator(at)
      /\ \A at \in 1..(i - 1) : AddressFaultAt(at) = "ok"
    BY DEF AddressReadTo
<1>5. WordIsTested(i)
    BY <1>2, <1>3, WordTested
<1>6. /\ \A p \in Within : IsSeparator(p) \/ IsLegalInAddressPart(At(p))
      /\ Word(i).hasSeparator <=> \E p \in Within : IsSeparator(p)
      /\ Word(i).hasAdjacentPair
           <=> \E p \in Within : p + 1 \in Within /\ IsSeparator(p) /\ IsSeparator(p + 1)
      /\ Word(i).hasFirstByte <=> IsSeparator(i)
      /\ \A last \in Within :
             IsSeparator(last) /\ (\A p \in (last + 1)..(i + wordSize - 1) : ~IsSeparator(p))
                 => Word(i).numBytesAfterLast = i + wordSize - 1 - last
    BY <1>3, <1>5, Zenon DEF WordIsTested
<1>7. ASSUME NEW p \in Within
      PROVE  AddressFaultAt(p) = IF p \in Empty THEN "EmptyPart" ELSE "ok"
    <2>1. CASE IsSeparator(p)
        BY <2>1 DEF AddressFaultAt
    <2>2. CASE ~IsSeparator(p)
        <3>1. PartLengthAt(p) \in Int /\ PartLengthAt(p) <= p + 1 - partStart
            BY <1>2, <1>4, PartLength
        <3>2. p + 1 - partStart <= kMaxAddressPartLength
            BY <1>1, <1>2, <1>3
        <3>3. ~(PartLengthAt(p) > kMaxAddressPartLength)
            BY <1>1, <1>2, <3>1, <3>2
        <3> QED
            BY <1>6, <2>2, <3>3 DEF AddressFaultAt
    <2> QED
        BY <2>1, <2>2
<1>8. WordHasEmptyPart <=> Empty # {}
    <2>1. ASSUME NEW p \in Within, p + 1 \in Within, IsSeparator(p), IsSeparator(p + 1)
          PROVE  p + 1 \in Empty
        BY <1>2, <2>1
    <2>2. ASSUME partStart = i, IsSeparator(i) PROVE i \in Empty
        BY <1>1, <1>2, <1>4, <2>2
    <2>3. ASSUME NEW p \in Empty, p # i
          PROVE  p - 1 \in Within /\ (p - 1) + 1 = p
        BY <1>1, <1>2, <2>3
    <2>4. ASSUME i \in Empty PROVE partStart = i /\ IsSeparator(i)
        BY <1>2, <1>4, <2>4
    <2>5. \A p \in Empty : p \in Within /\ IsSeparator(p) /\ IsSeparator(p - 1)
        OBVIOUS
    <2> HIDE DEF Empty, Within
    <2> QED
        BY <1>6, <2>1, <2>2, <2>3, <2>4, <2>5 DEF WordHasEmptyPart
<1>9. ASSUME Empty # {}
      PROVE  \E p \in 1..(n - 1) : /\ \A at \in 1..(p - 1) : AddressFaultAt(at) = "ok"
                                   /\ AddressFaultAt(p) = "EmptyPart"
    <2>1. Empty \subseteq Nat
        BY <1>1, <1>2
    <2>2. PICK p \in Empty : \A q \in Empty : p <= q
        <3> HIDE DEF Empty
        <3> QED
            BY <1>9, <2>1, LeastNumber
    <2>3. p \in 1..(n - 1) /\ p \in Within
        BY <1>1, <1>2, <1>3, <2>2
    <2>4. ASSUME NEW at \in 1..(p - 1) PROVE AddressFaultAt(at) = "ok"
        <3>1. CASE at < i
            BY <1>2, <1>4, <3>1
        <3>2. CASE ~(at < i)
            <4>1. at \in Within /\ ~(p <= at)
                BY <1>1, <1>2, <2>3, <3>2
            <4>2. at \notin Empty
                BY <2>2, <4>1
            <4> HIDE DEF Empty, Within
            <4> QED
                BY <1>7, <4>1, <4>2
        <3> QED
            BY <3>1, <3>2
    <2>5. AddressFaultAt(p) = "EmptyPart"
        <3> HIDE DEF Empty, Within
        <3> QED
            BY <1>7, <2>2, <2>3
    <2> QED
        BY <2>3, <2>4, <2>5
<1>10. ASSUME Empty = {}
       PROVE  AddressReadTo(PartStartInWord, end) /\ PartStartInWord \in 1..n
    <2>1. ASSUME NEW at \in 1..(end - 1) PROVE AddressFaultAt(at) = "ok"
        <3>1. CASE at < i
            BY <1>2, <1>4, <3>1
        <3>2. CASE ~(at < i)
            <4>1. at \in Within
                BY <1>1, <1>2, <3>2
            <4> HIDE DEF Empty, Within
            <4> QED
                BY <1>7, <1>10, <4>1
        <3> QED
            BY <3>1, <3>2
    <2>2. CASE \A p \in Within : ~IsSeparator(p)
        <3>1. PartStartInWord = partStart
            BY <1>6, <2>2 DEF PartStartInWord
        <3>2. \A p \in partStart..(end - 1) : ~IsSeparator(p)
            BY <1>1, <1>2, <1>4, <2>2
        <3> QED
            BY <1>1, <1>2, <1>3, <1>4, <2>1, <3>1, <3>2 DEF AddressReadTo
    <2>3. CASE \E p \in Within : IsSeparator(p)
        <3> DEFINE S == {p \in Within : IsSeparator(p)}
                   last == Max(S)
        <3>1. S \subseteq 0..n /\ S # {}
            BY <1>1, <1>2, <1>3, <2>3
        <3>2. last \in S /\ \A p \in S : p <= last
            <4> HIDE DEF S
            <4> QED
                BY <1>1, <3>1, GreatestOf
        <3>3. last \in Within /\ IsSeparator(last)
            BY <3>2
        <3>4. \A p \in (last + 1)..(end - 1) : ~IsSeparator(p)
            <4>1. ASSUME NEW p \in (last + 1)..(end - 1) PROVE p \in Within /\ ~(p <= last)
                BY <1>1, <1>2, <3>3, <4>1
            <4>2. \A p \in Within : IsSeparator(p) => p <= last
                BY <3>2
            <4> HIDE DEF Within, last
            <4> QED
                BY <4>1, <4>2
        <3> HIDE DEF last
        <3>5. Word(i).numBytesAfterLast = i + wordSize - 1 - last
            <4>1. (last + 1)..(i + wordSize - 1) = (last + 1)..(end - 1)
                BY <1>1, <1>2
            <4> QED
                BY <1>6, <3>3, <3>4, <4>1
        <3>6. PartStartInWord = last + 1
            <4>1. PartStartInWord = i + wordSize - Word(i).numBytesAfterLast
                BY <1>6, <2>3, Zenon DEF PartStartInWord
            <4> QED
                BY <1>1, <1>2, <3>3, <3>5, <4>1
        <3>7. last + 1 <= end /\ (last + 1) - 1 = last /\ last + 1 \in 1..n
            BY <1>1, <1>2, <1>3, <3>3
        <3> QED
            BY <2>1, <3>3, <3>4, <3>6, <3>7 DEF AddressReadTo
    <2> QED
        BY <2>2, <2>3
<1> HIDE DEF Empty
<1> QED
    BY <1>8, <1>9, <1>10

-----------------------------------------------------------------------------
(***************************************************************************)
(* The reference reading of a pattern.                                     *)
(***************************************************************************)

\* The fault of the rest of a pattern, from each position.
FaultsFrom ==
    LET from[at \in 1..Len(text)] ==
            IF at = Len(text) THEN NoFault
            ELSE IF ~IsLegalInPattern(At(at))
                 THEN [kind |-> "IllegalByte", open |-> at, at |-> at]
            ELSE IF ~IsConstruct(At(at)) THEN from[at + 1]
            ELSE IF Close(at) = -1
                 THEN [kind |-> Unterminated(at), open |-> at, at |-> at]
            ELSE IF ~ConstructIsLegal(at)
                 THEN [kind |-> "IllegalByte", open |-> at,
                       at |-> Min({b \in at..(Len(text) - 1) :
                                      ~IsLegalInPattern(At(b))})]
            ELSE from[Close(at) + 1]
    IN  from

\* The fault of a pattern is that of all of it.
LEMMA FaultOfWhole == PatternFault = FaultsFrom[1]
BY DEF PatternFault, FaultsFrom

\* A construct closes behind its opening byte and within the text, if at all.
LEMMA CloseIs ==
    ASSUME Len(text) \in Nat, NEW at \in Nat
    PROVE  Close(at) = -1 \/ Close(at) \in (at + 1)..(Len(text) - 1)
<1> DEFINE close == IF At(at) = setOpen THEN setClose ELSE listClose
           Stops == {p \in (at + 1)..(Len(text) - 1) :
                        At(p) = close \/ IsSeparator(p)}
<1>1. Stops \subseteq (at + 1)..(Len(text) - 1) /\ Stops \subseteq Nat
    OBVIOUS
<1>2. Close(at) = IF Stops = {} \/ At(Min(Stops)) # close THEN -1 ELSE Min(Stops)
    BY DEF Close
<1>3. Stops # {} => Min(Stops) \in Stops
    <2> HIDE DEF Stops
    <2> QED
        BY <1>1, LeastOf
<1> HIDE DEF Stops, close
<1> QED
    BY <1>1, <1>2, <1>3

\* Where a reading from left to right stops: at the end and at a fault.
StopsAt(at) ==
    \/ at = Len(text)
    \/ ~IsLegalInPattern(At(at))
    \/ IsConstruct(At(at)) /\ (Close(at) = -1 \/ ~ConstructIsLegal(at))

\* What it finds there.
FaultAt(at) ==
    IF at = Len(text) THEN NoFault
    ELSE IF ~IsLegalInPattern(At(at))
         THEN [kind |-> "IllegalByte", open |-> at, at |-> at]
    ELSE IF Close(at) = -1
         THEN [kind |-> Unterminated(at), open |-> at, at |-> at]
    ELSE [kind |-> "IllegalByte", open |-> at,
          at |-> Min({b \in at..(Len(text) - 1) : ~IsLegalInPattern(At(b))})]

\* Where it goes on otherwise.
NextOf(at) == IF IsConstruct(At(at)) THEN Close(at) + 1 ELSE at + 1

\* The reference is well defined: it reads on until it stops.
LEMMA FaultSteps ==
    ASSUME Len(text) \in Nat
    PROVE  \A at \in 1..Len(text) :
              /\ StopsAt(at) => FaultsFrom[at] = FaultAt(at)
              /\ ~StopsAt(at) => /\ FaultsFrom[at] = FaultsFrom[NextOf(at)]
                                 /\ NextOf(at) \in (at + 1)..Len(text)
<1> DEFINE n == Len(text)
           Body(f, at) ==
               IF at = n THEN NoFault
               ELSE IF ~IsLegalInPattern(At(at))
                    THEN [kind |-> "IllegalByte", open |-> at, at |-> at]
               ELSE IF ~IsConstruct(At(at)) THEN f[at + 1]
               ELSE IF Close(at) = -1
                    THEN [kind |-> Unterminated(at), open |-> at, at |-> at]
               ELSE IF ~ConstructIsLegal(at)
                    THEN [kind |-> "IllegalByte", open |-> at,
                          at |-> Min({b \in at..(n - 1) : ~IsLegalInPattern(At(b))})]
               ELSE f[Close(at) + 1]
           next == [at \in 1..n |-> IF StopsAt(at) THEN at ELSE NextOf(at)]
           value == [at \in 1..n |-> FaultAt(at)]
           S == {FaultAt(at) : at \in 1..n}
<1>1. ASSUME NEW at \in 1..n, ~StopsAt(at) PROVE NextOf(at) \in (at + 1)..n
    <2>1. at # n
        BY <1>1 DEF StopsAt
    <2>2. CASE IsConstruct(At(at))
        <3>1. Close(at) # -1
            BY <1>1, <2>2 DEF StopsAt
        <3>2. Close(at) \in (at + 1)..(n - 1)
            BY <3>1, CloseIs
        <3> QED
            BY <2>2, <3>2 DEF NextOf
    <2>3. CASE ~IsConstruct(At(at))
        BY <2>1, <2>3 DEF NextOf
    <2> QED
        BY <2>2, <2>3
<1>2. ASSUME NEW f, NEW at \in 1..n
      PROVE  Body(f, at) = IF StopsAt(at) THEN FaultAt(at) ELSE f[NextOf(at)]
    BY DEF StopsAt, FaultAt, NextOf
<1>3. FaultsFrom = CHOOSE f : f = [at \in 1..n |-> Body(f, at)]
    BY DEF FaultsFrom
<1> HIDE DEF Body
<1>4. JumpsAhead(next, value, n, S)
    <2>1. \A at \in 1..n : next[at] \in 1..n /\ at <= next[at]
        BY <1>1
    <2>2. next \in [1..n -> 1..n] /\ value \in [1..n -> S]
        BY <2>1
    <2> HIDE DEF next, value, S
    <2> QED
        BY <2>1, <2>2 DEF JumpsAhead
<1>5. \A at \in 1..n : /\ next[at] = at <=> StopsAt(at)
                       /\ ~StopsAt(at) => next[at] = NextOf(at)
                       /\ value[at] = FaultAt(at)
    <2> SUFFICES ASSUME NEW at \in 1..n
                 PROVE  /\ next[at] = at <=> StopsAt(at)
                        /\ ~StopsAt(at) => next[at] = NextOf(at)
                        /\ value[at] = FaultAt(at)
        OBVIOUS
    <2>1. ~StopsAt(at) => NextOf(at) # at
        BY <1>1
    <2> QED
        BY <2>1
<1> HIDE DEF next, value, S, n
<1>6. PICK f : FollowsJumps(f, n, next, value, S)
    BY <1>4, JumpRecursion DEF n
<1>7. ASSUME NEW at \in 1..n PROVE f[at] = Body(f, at)
    <2>1. f[at] = IF next[at] = at THEN value[at] ELSE f[next[at]]
        BY <1>6 DEF FollowsJumps
    <2>2. f[at] = IF StopsAt(at) THEN FaultAt(at) ELSE f[NextOf(at)]
        BY <1>5, <2>1
    <2> QED
        BY <1>2, <2>2
<1>8. f = [at \in 1..n |-> Body(f, at)]
    BY <1>6, <1>7 DEF FollowsJumps
<1>9. FaultsFrom = [at \in 1..n |-> Body(FaultsFrom, at)]
    BY <1>3, <1>8
<1>10. \A at \in 1..n : FaultsFrom[at] = Body(FaultsFrom, at)
    BY <1>9
<1> QED
    BY <1>1, <1>2, <1>10 DEF n

\* A byte that is legal and opens no construct.
IsRead(at) == IsLegalInPattern(At(at)) /\ ~IsConstruct(At(at))

\* Such bytes are read one after another.
LEMMA ReadOnTo ==
    ASSUME Len(text) \in Nat, NEW from \in 1..Len(text), NEW to \in from..Len(text),
           \A at \in from..(to - 1) : IsRead(at)
    PROVE  FaultsFrom[from] = FaultsFrom[to]
<1> DEFINE Same == {at \in from..to : FaultsFrom[at] = FaultsFrom[from]}
<1>1. from \in Same /\ from \in Nat /\ to \in Nat /\ to \in from..to
    OBVIOUS
<1>2. ASSUME NEW at \in from..(to - 1), at \in Same PROVE at + 1 \in Same
    <2>1. at \in 1..Len(text) /\ at # Len(text) /\ at + 1 \in from..to
        OBVIOUS
    <2>2. ~StopsAt(at) /\ NextOf(at) = at + 1
        BY <2>1 DEF StopsAt, NextOf, IsRead
    <2>3. FaultsFrom[at] = FaultsFrom[at + 1]
        BY <2>1, <2>2, FaultSteps
    <2> QED
        BY <1>2, <2>1, <2>3
<1>3. from..to \subseteq Same
    <2> HIDE DEF Same
    <2> QED
        BY <1>1, <1>2, Induction
<1> QED
    BY <1>1, <1>3

\* A fault does not lie before the position it is looked for from, nor before
\* the construct that has it.
LEMMA FaultAhead ==
    ASSUME Len(text) \in Nat
    PROVE  \A at \in 1..Len(text) :
              /\ FaultsFrom[at].open \in Nat /\ FaultsFrom[at].at \in Nat
              /\ at <= FaultsFrom[at].open
              /\ FaultsFrom[at].open <= FaultsFrom[at].at
<1> DEFINE n == Len(text)
           Ahead(at) == /\ FaultsFrom[at].open \in Nat /\ FaultsFrom[at].at \in Nat
                        /\ at <= FaultsFrom[at].open
                        /\ FaultsFrom[at].open <= FaultsFrom[at].at
           Done == {m \in 0..n : \A at \in 1..n : at > n - m => Ahead(at)}
<1>1. ASSUME NEW at \in 1..n, StopsAt(at) PROVE Ahead(at)
    <2>1. FaultAt(at).open = at /\ at \in Nat
        BY DEF FaultAt, NoFault
    <2>2. FaultAt(at).at \in Nat /\ at <= FaultAt(at).at
        <3> DEFINE Illegal == {b \in at..(n - 1) : ~IsLegalInPattern(At(b))}
        <3>1. \/ FaultAt(at).at = at
              \/ /\ FaultAt(at).at = Min(Illegal)
                 /\ IsConstruct(At(at)) /\ ~ConstructIsLegal(at)
                 /\ Close(at) # -1 /\ at # n
            BY <1>1 DEF FaultAt, NoFault, StopsAt
        <3>2. CASE FaultAt(at).at = at
            BY <2>1, <3>2
        <3>3. CASE /\ FaultAt(at).at = Min(Illegal) /\ ~ConstructIsLegal(at)
                   /\ Close(at) # -1
            <4>1. Close(at) \in (at + 1)..(n - 1)
                BY <2>1, <3>3, CloseIs
            <4>2. PICK b \in (at + 1)..(Close(at) - 1) : ~IsLegalInPattern(At(b))
                BY <3>3 DEF ConstructIsLegal
            <4>3. b \in Illegal
                BY <2>1, <4>1, <4>2
            <4>4. Illegal \subseteq Nat /\ Illegal # {}
                BY <2>1, <4>3
            <4>5. Min(Illegal) \in Illegal
                <5> HIDE DEF Illegal
                <5> QED
                    BY <4>4, LeastOf
            <4>6. Min(Illegal) \in Nat /\ at <= Min(Illegal)
                BY <2>1, <4>5
            <4> QED
                BY <3>3, <4>6
        <3> QED
            BY <3>1, <3>2, <3>3
    <2> QED
        BY <1>1, <2>1, <2>2, FaultSteps
<1>2. ASSUME NEW at \in 1..n, ~StopsAt(at), \A p \in (at + 1)..n : Ahead(p)
      PROVE  Ahead(at)
    <2>1. /\ FaultsFrom[at] = FaultsFrom[NextOf(at)]
          /\ NextOf(at) \in (at + 1)..n
        BY <1>2, FaultSteps
    <2>2. Ahead(NextOf(at))
        BY <1>2, <2>1
    <2> QED
        BY <2>1, <2>2
<1> HIDE DEF Ahead
<1>3. 0 \in Done
    OBVIOUS
<1>4. ASSUME NEW m \in 0..(n - 1), m \in Done PROVE m + 1 \in Done
    <2>1. m + 1 \in 0..n
        OBVIOUS
    <2>2. ASSUME NEW at \in 1..n, at > n - (m + 1) PROVE Ahead(at)
        <3>1. \A p \in (at + 1)..n : Ahead(p)
            BY <1>4, <2>2
        <3> QED
            BY <1>1, <1>2, <3>1
    <2> QED
        BY <2>1, <2>2
<1>5. n \in Done
    <2>1. n \in Nat /\ n \in 0..n
        OBVIOUS
    <2> HIDE DEF Done, n
    <2>2. 0..n \subseteq Done
        BY <1>3, <1>4, <2>1, Induction
    <2> QED
        BY <2>1, <2>2
<1>6. \A at \in 1..n : Ahead(at)
    BY <1>5
<1> QED
    BY <1>6 DEF Ahead

\* A pattern with no wildcard can only have illegal bytes.
LEMMA FaultOfLiteral ==
    ASSUME Len(text) \in Nat, ~HasWildcard, NEW from \in 1..Len(text)
    PROVE  FaultsFrom[from].kind
               = IF HasIllegalByteFrom(from) THEN "IllegalByte" ELSE "ok"
<1> DEFINE n == Len(text)
           Illegal == {at \in from..(n - 1) : ~IsLegalInPattern(At(at))}
<1>1. \A at \in 1..(n - 1) : ~IsConstruct(At(at))
    BY DEF HasWildcard, IsConstruct, IsOpener
<1>2. HasIllegalByteFrom(from) <=> Illegal # {}
    BY DEF HasIllegalByteFrom
<1>3. CASE Illegal = {}
    <2>1. \A at \in from..(n - 1) : IsRead(at)
        BY <1>1, <1>3 DEF IsRead
    <2>2. n \in from..n /\ n \in 1..n
        OBVIOUS
    <2>3. FaultsFrom[from] = FaultsFrom[n]
        BY <2>1, <2>2, ReadOnTo
    <2>4. StopsAt(n) /\ FaultAt(n) = NoFault
        BY DEF StopsAt, FaultAt
    <2>5. FaultsFrom[n] = NoFault
        BY <2>2, <2>4, FaultSteps
    <2> QED
        BY <1>2, <1>3, <2>3, <2>5 DEF NoFault
<1>4. CASE Illegal # {}
    <2>1. Illegal \subseteq Nat
        OBVIOUS
    <2>2. PICK p \in Illegal : \A q \in Illegal : p <= q
        <3> HIDE DEF Illegal
        <3> QED
            BY <1>4, <2>1, LeastNumber
    <2>3. p \in from..n /\ p \in 1..n /\ p # n /\ ~IsLegalInPattern(At(p))
        BY <2>2
    <2>4. \A at \in from..(p - 1) : IsRead(at)
        <3> SUFFICES ASSUME NEW at \in from..(p - 1) PROVE IsRead(at)
            OBVIOUS
        <3>1. at \in 1..(n - 1) /\ at \in from..(n - 1) /\ ~(p <= at)
            BY <2>3
        <3> QED
            BY <1>1, <2>2, <3>1 DEF IsRead
    <2>5. FaultsFrom[from] = FaultsFrom[p]
        BY <2>3, <2>4, ReadOnTo
    <2>6. StopsAt(p) /\ FaultAt(p).kind = "IllegalByte"
        BY <2>3 DEF StopsAt, FaultAt
    <2>7. FaultsFrom[p] = FaultAt(p)
        BY <2>3, <2>6, FaultSteps
    <2> QED
        BY <1>2, <1>4, <2>5, <2>6, <2>7
<1> QED
    BY <1>3, <1>4

-----------------------------------------------------------------------------
(***************************************************************************)
(* The inductive invariant.                                                *)
(***************************************************************************)

\* Up to a position a pattern has no wildcard and no run of slashes.
IsPlainTo(to) ==
    \A at \in 1..(to - 1) :
        ~IsOpener(At(at)) /\ ~(IsSeparator(at - 1) /\ IsSeparator(at))

\* The bytes before a position have been read without a fault, and only a
\* construct leads past what is scanned.
PatternReadTo(to) ==
    /\ FaultsFrom[to] = FaultsFrom[1]
    /\ to > Checked => HasWildcard

\* A pattern is read up to the position of its scan.
PatternRead ==
    result = "running" /\ HasLeadingSlash /\ scanning = "pattern" =>
        /\ stop <= Checked
        /\ PatternReadTo(i)
        /\ isLiteral <=> IsPlainTo(i)

\* The inductive invariant.
IInv ==
    /\ TypeOK
    /\ AddressRead
    /\ PatternRead
    /\ PatternFaultAsDefined
    /\ AddressFaultAsDefined
    /\ LiteralAsDefined

\* How far a text has been read stays true while the text does.
LEMMA ReadKept ==
    ASSUME text' = text
    PROVE  /\ AddressRead' <=>
                (result' = "running" /\ HasLeadingSlash /\ scanning' # "pattern" =>
                    AddressReadTo(partStart', i'))
           /\ PatternRead' <=>
                (result' = "running" /\ HasLeadingSlash /\ scanning' = "pattern" =>
                    /\ stop' <= Checked
                    /\ PatternReadTo(i')
                    /\ isLiteral' <=> IsPlainTo(i'))
<1>1. HasLeadingSlash' <=> HasLeadingSlash
    BY TextKept
<1>2. AddressReadTo(partStart, i)' <=> AddressReadTo(partStart', i')
    BY DEF AddressReadTo, AddressFaultAt, PartLengthAt, IsSeparator, At
<1>3. FaultsFrom' = FaultsFrom
    BY DEF FaultsFrom, Close, ConstructIsLegal, Unterminated, IsSeparator, At, NoFault
<1>4. PatternReadTo(i)' <=> PatternReadTo(i')
    BY <1>3, TextKept DEF PatternReadTo
<1>5. IsPlainTo(i)' <=> IsPlainTo(i')
    BY DEF IsPlainTo, IsSeparator, At
<1>6. Checked' = Checked
    BY TextKept
<1> QED
    BY <1>1, <1>2, <1>4, <1>5, <1>6, Zenon DEF AddressRead, PatternRead

\* A scan that goes on has nothing to answer for.
LEMMA GoesOn ==
    ASSUME text' = text, result' = "running", TypeOK',
           HasLeadingSlash /\ scanning' # "pattern" => AddressReadTo(partStart', i'),
           HasLeadingSlash /\ scanning' = "pattern" =>
               /\ stop' <= Checked
               /\ PatternReadTo(i')
               /\ isLiteral' <=> IsPlainTo(i')
    PROVE  IInv'
<1>1. AddressRead' /\ PatternRead'
    BY ReadKept
<1>2. ~Parsed'
    BY DEF Parsed
<1> QED
    BY <1>1, <1>2
       DEF IInv, PatternFaultAsDefined, AddressFaultAsDefined, LiteralAsDefined

\* The scan judges a fault where its construct opens: where it lies, except in a
\* construct that is open at the limit.
LEMMA JudgedWhereItOpens ==
    ASSUME Len(text) \in Nat, HasLeadingSlash
    PROVE  LET fault == PatternFault
           IN  WithLength(fault, fault.open)
                  = IF StraddlesLimit(fault) THEN fault.kind
                                             ELSE WithLength(fault, fault.at)
<1> DEFINE open == PatternFault.open
           at == PatternFault.at
<1>1. 1 \in 1..Len(text)
    BY DEF HasLeadingSlash
<1>2. open \in Nat /\ at \in Nat /\ open <= at /\ kMaxPatternLength \in Nat
    BY <1>1, FaultAhead, FaultOfWhole, ConstantsAssumption
<1> QED
    BY <1>2 DEF WithLength, StraddlesLimit

\* A scan that returns has read as far as it did.
LEMMA ReturnsFault ==
    ASSUME TypeOK, text' = text, result' # "running", isLiteral' \in BOOLEAN,
           UNCHANGED <<scanning, i, stop, byteRun, partStart>>,
           scanning = "pattern" => result' \in {"ok"} \cup SharedError \cup PatternError,
           scanning # "pattern" => result' \in {"ok"} \cup SharedError \cup AddressError,
           HasLeadingSlash /\ scanning = "pattern" =>
               result' = WithLength(PatternFault, PatternFault.open),
           HasLeadingSlash /\ scanning # "pattern" => result' = AddressFault,
           HasLeadingSlash /\ scanning = "pattern" /\ result' = "ok" =>
               (isLiteral' <=>
                   ~HasWildcard /\ ~HasPartLongerThan(kMaxAddressPartLength))
    PROVE  IInv'
<1>1. TypeOK'
    BY DEF TypeOK
<1>2. AddressRead' /\ PatternRead'
    BY DEF AddressRead, PatternRead
<1>3. Parsed' => HasLeadingSlash
    BY TextKept DEF Parsed
<1>4. PatternFault' = PatternFault /\ (IsTooLong' <=> IsTooLong)
    <2>1. PatternFault' = PatternFault /\ (HasWildcard' <=> HasWildcard)
        BY TextKept
    <2> QED
        BY <2>1 DEF IsTooLong
<1>5. PatternFaultAsDefined'
    <2>1. Len(text) \in Nat
        BY LenProperties DEF TypeOK
    <2>2. HasLeadingSlash =>
              WithLength(PatternFault, PatternFault.open)
                  = IF StraddlesLimit(PatternFault) THEN PatternFault.kind
                    ELSE WithLength(PatternFault, PatternFault.at)
        BY <2>1, JudgedWhereItOpens
    <2>3. WithLength(PatternFault, PatternFault.at)'
              = WithLength(PatternFault, PatternFault.at)
        BY <1>4 DEF WithLength
    <2>4. StraddlesLimit(PatternFault)' <=> StraddlesLimit(PatternFault)
        BY <1>4 DEF StraddlesLimit
    <2> QED
        BY <1>3, <1>4, <2>2, <2>3, <2>4 DEF PatternFaultAsDefined
<1>6. AddressFaultAsDefined'
    BY <1>3, TextKept DEF AddressFaultAsDefined
<1>7. LiteralAsDefined'
    <2>1. /\ HasWildcard' <=> HasWildcard
          /\ HasPartLongerThan(kMaxAddressPartLength)'
                <=> HasPartLongerThan(kMaxAddressPartLength)
        BY TextKept
    <2> QED
        BY <1>3, <2>1, Zenon DEF LiteralAsDefined
<1> QED
    BY <1>1, <1>2, <1>5, <1>6, <1>7 DEF IInv

-----------------------------------------------------------------------------
(***************************************************************************)
(* The steps of the scans.                                                 *)
(***************************************************************************)

\* A scan begins with nothing read.
LEMMA InitIInv == Init => IInv
<1> SUFFICES ASSUME Init PROVE IInv
    OBVIOUS
<1>1. TypeOK
    <2>1. text \in Seq(TextBytes)
        BY ConstantsAssumption DEF Init
    <2>2. Len(text) \in Nat
        BY <2>1
    <2>3. Max({1, Len(text)}) \in Nat /\ Max({1, Len(text)}) >= 1
        BY <2>2, Greater
    <2>4. 1 \in 1..Max({1, Len(text)})
        BY <2>3
    <2> QED
        BY <2>1, <2>4, Limits DEF Init, TypeOK
<1>2. AddressRead
    BY TextIs, <1>1 DEF Init, AddressRead, AddressReadTo
<1>3. PatternRead
    <2>1. HasLeadingSlash => Checked \in Nat /\ Checked >= 1
        BY <1>1, TextIs, CheckedIs
    <2>2. IsPlainTo(1)
        BY DEF IsPlainTo
    <2>3. HasLeadingSlash => stop <= Checked /\ PatternReadTo(i)
        BY <2>1 DEF Init, PatternReadTo
    <2> QED
        BY <2>2, <2>3 DEF Init, PatternRead
<1> QED
    BY <1>1, <1>2, <1>3
       DEF Init, IInv, PatternFaultAsDefined, AddressFaultAsDefined, LiteralAsDefined,
           Parsed

\* A text without a leading slash is turned down.
LEMMA RejectsStart == IInv /\ RejectStart => IInv'
BY ReturnsFault DEF IInv, TypeOK, RejectStart, Return, SharedError

\* validateAddress reads on behind a word.
LEMMA AcceptsWord == IInv /\ AcceptWord => IInv'
<1> SUFFICES ASSUME IInv, AcceptWord PROVE IInv'
    OBVIOUS
<1>1. /\ result = "running" /\ scanning = "address" /\ HasLeadingSlash
      /\ WordIsLegal /\ ~WordHasEmptyPart
      /\ i' = i + wordSize /\ partStart' = PartStartInWord
      /\ UNCHANGED <<scanning, text, stop, byteRun, isLiteral, result>>
    BY DEF AcceptWord, ReadingWords
<1>2. TypeOK /\ AddressReadTo(partStart, i)
    BY <1>1 DEF IInv, AddressRead
<1>3. AddressReadTo(PartStartInWord, i + wordSize) /\ PartStartInWord \in 1..Len(text)
    BY <1>1, <1>2, WordInAddress
<1>4. Len(text) \in Nat /\ Len(text) >= 1 /\ wordSize \in Nat
    BY <1>1, <1>2, TextIs, Limits
<1>5. i \in 1..Len(text) /\ Max({1, Len(text)}) = Len(text)
    BY <1>2, <1>4, PlacesAre
<1>6. i + wordSize <= Len(text)
    BY <1>1 DEF WordIsLegal
<1>7. i' \in 1..Len(text)
    BY <1>1, <1>4, <1>5, <1>6
<1>8. TypeOK'
    BY <1>1, <1>2, <1>3, <1>5, <1>7 DEF TypeOK
<1> QED
    BY <1>1, <1>3, <1>8, GoesOn

\* It returns at a word with an empty part.
LEMMA RejectsWord == IInv /\ RejectWord => IInv'
<1> SUFFICES ASSUME IInv, RejectWord PROVE IInv'
    OBVIOUS
<1>1. /\ result = "running" /\ scanning = "address" /\ HasLeadingSlash
      /\ WordIsLegal /\ WordHasEmptyPart
      /\ result' = "EmptyPart"
      /\ UNCHANGED <<scanning, text, i, stop, byteRun, partStart, isLiteral>>
    BY DEF RejectWord, ReadingWords, Return
<1>2. TypeOK /\ AddressReadTo(partStart, i)
    BY <1>1 DEF IInv, AddressRead
<1>3. PICK p \in 1..(Len(text) - 1) :
          /\ \A at \in 1..(p - 1) : AddressFaultAt(at) = "ok"
          /\ AddressFaultAt(p) = "EmptyPart"
    BY <1>1, <1>2, WordInAddress
<1>4. AddressFault = "EmptyPart"
    BY <1>2, <1>3, TextIs, FirstFault
<1> QED
    BY <1>1, <1>2, <1>4, ReturnsFault DEF TypeOK, AddressError

\* The rest is left to validateAddressBytes.
LEMMA LeavesWords == IInv /\ LeaveWords => IInv'
<1> SUFFICES ASSUME IInv, LeaveWords PROVE IInv'
    OBVIOUS
<1>1. /\ result = "running" /\ scanning = "address" /\ HasLeadingSlash
      /\ scanning' = "bytes"
      /\ UNCHANGED <<text, i, stop, byteRun, partStart, isLiteral, result>>
    BY DEF LeaveWords, ReadingWords
<1>2. TypeOK /\ AddressReadTo(partStart, i)
    BY <1>1 DEF IInv, AddressRead
<1>3. TypeOK'
    BY <1>1, <1>2 DEF TypeOK
<1> QED
    BY <1>1, <1>2, <1>3, GoesOn

\* What is known of an address whose bytes are read.
LEMMA ReadsAddressByte ==
    ASSUME IInv, ReadingAddressByte
    PROVE  /\ TypeOK /\ result = "running" /\ scanning = "bytes"
           /\ Len(text) \in Nat /\ Len(text) >= 1 /\ Max({1, Len(text)}) = Len(text)
           /\ i \in 1..(Len(text) - 1) /\ partStart \in 1..Len(text)
           /\ kMaxAddressPartLength \in Nat
           /\ HasLeadingSlash => AddressReadTo(partStart, i)
           /\ HasLeadingSlash /\ AddressFaultAt(i) # "ok" => AddressFault = AddressFaultAt(i)
           /\ HasLeadingSlash /\ IsSeparator(i) =>
                 AddressFaultAt(i) = IF i = partStart THEN "EmptyPart" ELSE "ok"
           /\ HasLeadingSlash /\ ~IsSeparator(i) =>
                 AddressFaultAt(i) =
                     IF ~IsLegalInAddressPart(At(i)) THEN "IllegalByte"
                     ELSE IF i + 1 - partStart > kMaxAddressPartLength THEN "PartTooLong"
                     ELSE "ok"
<1>1. TypeOK /\ result = "running" /\ scanning = "bytes" /\ i < Len(text)
    BY DEF IInv, ReadingAddressByte
<1>2. Len(text) \in Nat /\ kMaxAddressPartLength \in Nat
    BY <1>1, TextIs, Limits
<1>3. Len(text) >= 1
    <2>1. 0 \in 0..1 /\ Max({1, Len(text)}) \in Nat
        BY <1>2, Greater
    <2>2. i \in 1..Max({1, Len(text)})
        BY <1>1 DEF TypeOK
    <2> QED
        BY <1>1, <1>2, <2>1, <2>2
<1>4. /\ i \in 1..Len(text) /\ partStart \in 1..Len(text)
      /\ Max({1, Len(text)}) = Len(text)
    BY <1>1, <1>3, PlacesAre
<1>5. i \in 1..(Len(text) - 1)
    BY <1>1, <1>2, <1>4
<1>6. ASSUME HasLeadingSlash
      PROVE  /\ AddressReadTo(partStart, i)
             /\ AddressFaultAt(i) # "ok" => AddressFault = AddressFaultAt(i)
             /\ IsSeparator(i) =>
                   AddressFaultAt(i) = IF i = partStart THEN "EmptyPart" ELSE "ok"
             /\ ~IsSeparator(i) =>
                   AddressFaultAt(i) =
                       IF ~IsLegalInAddressPart(At(i)) THEN "IllegalByte"
                       ELSE IF i + 1 - partStart > kMaxAddressPartLength THEN "PartTooLong"
                       ELSE "ok"
    <2>1. AddressReadTo(partStart, i)
        BY <1>1, <1>6 DEF IInv, AddressRead
    <2>2. i \in Nat /\ partStart \in Nat /\ partStart >= 1
        BY <1>2, <1>4
    <2>3. AddressFaultAt(i) # "ok" => AddressFault = AddressFaultAt(i)
        BY <1>2, <1>5, <2>1, FirstFault DEF AddressReadTo
    <2> QED
        BY <2>1, <2>2, <2>3, FaultInPart
<1> QED
    BY <1>1, <1>2, <1>3, <1>4, <1>5, <1>6

\* At a slash a part ends; an empty one is a fault.
LEMMA EndsPart == IInv /\ EndPart => IInv'
<1> SUFFICES ASSUME IInv, EndPart PROVE IInv'
    OBVIOUS
<1>1. /\ ReadingAddressByte /\ IsSeparator(i)
      /\ IF i = partStart
         THEN result' = "EmptyPart" /\ UNCHANGED <<i, partStart>>
         ELSE i' = i + 1 /\ partStart' = i + 1 /\ UNCHANGED result
      /\ UNCHANGED <<scanning, text, stop, byteRun, isLiteral>>
    BY DEF EndPart
<1>2. /\ TypeOK /\ result = "running" /\ scanning = "bytes"
      /\ Len(text) \in Nat /\ Max({1, Len(text)}) = Len(text)
      /\ i \in 1..(Len(text) - 1)
      /\ HasLeadingSlash => AddressReadTo(partStart, i)
      /\ HasLeadingSlash /\ AddressFaultAt(i) # "ok" => AddressFault = AddressFaultAt(i)
      /\ HasLeadingSlash =>
            AddressFaultAt(i) = IF i = partStart THEN "EmptyPart" ELSE "ok"
    BY <1>1, ReadsAddressByte
<1>3. CASE i = partStart
    BY <1>1, <1>2, <1>3, ReturnsFault DEF TypeOK, AddressError
<1>4. CASE i # partStart
    <2>1. i' = i + 1 /\ partStart' = i + 1 /\ result' = "running"
        BY <1>1, <1>2, <1>4
    <2>2. i + 1 \in 1..Len(text)
        BY <1>2
    <2>3. TypeOK'
        BY <1>1, <1>2, <2>1, <2>2 DEF TypeOK
    <2>4. HasLeadingSlash => AddressReadTo(i + 1, i + 1)
        BY <1>1, <1>2, <1>4 DEF AddressReadTo
    <2> QED
        BY <1>1, <1>2, <2>1, <2>3, <2>4, GoesOn
<1> QED
    BY <1>3, <1>4

\* An illegal byte and a part that is too long are faults where they are met.
LEMMA RejectsByte == IInv /\ (RejectAddressByte \/ RejectLongPart) => IInv'
<1> SUFFICES ASSUME IInv, RejectAddressByte \/ RejectLongPart PROVE IInv'
    OBVIOUS
<1>1. /\ ReadingAddressByte /\ ~IsSeparator(i)
      /\ result' = IF ~IsLegalInAddressPart(At(i)) THEN "IllegalByte" ELSE "PartTooLong"
      /\ IsLegalInAddressPart(At(i)) => i + 1 - partStart > kMaxAddressPartLength
      /\ UNCHANGED <<scanning, text, i, stop, byteRun, partStart, isLiteral>>
    BY DEF RejectAddressByte, RejectLongPart, Return
<1>2. /\ TypeOK /\ result = "running" /\ scanning = "bytes"
      /\ HasLeadingSlash /\ AddressFaultAt(i) # "ok" => AddressFault = AddressFaultAt(i)
      /\ HasLeadingSlash =>
            AddressFaultAt(i) =
                IF ~IsLegalInAddressPart(At(i)) THEN "IllegalByte"
                ELSE IF i + 1 - partStart > kMaxAddressPartLength THEN "PartTooLong"
                ELSE "ok"
    BY <1>1, ReadsAddressByte
<1>3. HasLeadingSlash => AddressFault = result'
    BY <1>1, <1>2
<1> QED
    BY <1>1, <1>2, <1>3, ReturnsFault DEF TypeOK, AddressError, SharedError

\* A legal byte is read on.
LEMMA ReadsPartByte == IInv /\ ReadPartByte => IInv'
<1> SUFFICES ASSUME IInv, ReadPartByte PROVE IInv'
    OBVIOUS
<1>1. /\ ReadingAddressByte /\ ~IsSeparator(i) /\ IsLegalInAddressPart(At(i))
      /\ i + 1 - partStart <= kMaxAddressPartLength
      /\ i' = i + 1 /\ isLiteral' = (isLiteral /\ TRUE)
      /\ UNCHANGED <<scanning, text, stop, byteRun, partStart, result>>
    BY DEF ReadPartByte, ReadOn
<1>2. /\ TypeOK /\ result = "running" /\ scanning = "bytes"
      /\ Len(text) \in Nat /\ Max({1, Len(text)}) = Len(text)
      /\ i \in 1..(Len(text) - 1) /\ partStart \in 1..Len(text)
      /\ kMaxAddressPartLength \in Nat
      /\ HasLeadingSlash => AddressReadTo(partStart, i)
      /\ HasLeadingSlash /\ ~IsSeparator(i) =>
            AddressFaultAt(i) =
                IF ~IsLegalInAddressPart(At(i)) THEN "IllegalByte"
                ELSE IF i + 1 - partStart > kMaxAddressPartLength THEN "PartTooLong"
                ELSE "ok"
    BY <1>1, ReadsAddressByte
<1>3. ~(i + 1 - partStart > kMaxAddressPartLength) /\ i + 1 \in 1..Len(text)
    BY <1>1, <1>2
<1>4. HasLeadingSlash => AddressFaultAt(i) = "ok"
    BY <1>1, <1>2, <1>3
<1>5. TypeOK'
    BY <1>1, <1>2, <1>3 DEF TypeOK
<1>6. HasLeadingSlash => AddressReadTo(partStart, i + 1)
    BY <1>1, <1>2, <1>4 DEF AddressReadTo
<1> QED
    BY <1>1, <1>2, <1>5, <1>6, GoesOn

\* At the end of an address its last byte decides.
LEMMA EndsAddress == IInv /\ EndAddress => IInv'
<1> SUFFICES ASSUME IInv, EndAddress PROVE IInv'
    OBVIOUS
<1>1. /\ result = "running" /\ scanning = "bytes" /\ i >= Len(text)
      /\ result' = IF partStart = Len(text) THEN "TrailingSlash" ELSE "ok"
      /\ UNCHANGED <<scanning, text, i, stop, byteRun, partStart, isLiteral>>
    BY DEF EndAddress, Return
<1>2. TypeOK
    BY DEF IInv
<1>3. ASSUME HasLeadingSlash PROVE AddressFault = result'
    <2>1. AddressReadTo(partStart, i)
        BY <1>1, <1>3 DEF IInv, AddressRead
    <2>2. Len(text) \in Nat /\ Len(text) >= 1
        BY <1>2, <1>3, TextIs
    <2>3. i \in 1..Len(text) /\ partStart \in 1..Len(text)
        BY <1>2, <2>2, PlacesAre
    <2>4. i = Len(text)
        BY <1>1, <2>2, <2>3
    <2>5. AddressFault = IF IsSeparator(Len(text) - 1) THEN "TrailingSlash" ELSE "ok"
        BY <2>1, <2>4, FaultAtEnd DEF AddressReadTo
    <2>6. IsSeparator(Len(text) - 1) <=> partStart = Len(text)
        BY <2>1, <2>2, <2>3, <2>4 DEF AddressReadTo
    <2> QED
        BY <1>1, <2>5, <2>6
<1> QED
    BY <1>1, <1>2, <1>3, ReturnsFault DEF TypeOK, AddressError

\* What is known of a pattern that is scanned.
LEMMA ScansPattern ==
    ASSUME IInv, ScanningPattern
    PROVE  /\ TypeOK /\ result = "running" /\ scanning = "pattern" /\ HasLeadingSlash
           /\ Len(text) \in Nat /\ Len(text) >= 1 /\ Max({1, Len(text)}) = Len(text)
           /\ i \in 1..Len(text) /\ stop \in 1..Len(text)
           /\ byteRun \in Nat /\ byteRun >= 1
           /\ Checked \in Nat /\ Checked >= 1 /\ Checked <= Len(text)
           /\ Checked <= kMaxPatternLength /\ kMaxPatternLength \in Nat
           /\ stop <= Checked /\ PatternReadTo(i)
           /\ isLiteral <=> IsPlainTo(i)
<1>1. TypeOK /\ result = "running" /\ scanning = "pattern" /\ HasLeadingSlash
    BY DEF IInv, ScanningPattern
<1>2. Len(text) \in Nat /\ Len(text) >= 1
    BY <1>1, TextIs
<1>3. /\ Max({1, Len(text)}) = Len(text)
      /\ i \in 1..Len(text) /\ stop \in 1..Len(text)
    BY <1>1, <1>2, PlacesAre
<1>4. byteRun \in Nat /\ byteRun >= 1
    BY <1>1 DEF TypeOK
<1>5. /\ Checked \in Nat /\ Checked >= 1 /\ Checked <= Len(text)
      /\ Checked <= kMaxPatternLength /\ kMaxPatternLength \in Nat
    BY <1>2, CheckedIs, Limits
<1>6. /\ stop <= Checked
      /\ PatternReadTo(i)
      /\ isLiteral <=> IsPlainTo(i)
    BY <1>1, Zenon DEF IInv, PatternRead
<1> QED
    BY <1>1, <1>2, <1>3, <1>4, <1>5, <1>6, Zenon

\* Between two positions a pattern has no wildcard and no run of slashes.
IsPlainBetween(from, to) ==
    \A at \in from..(to - 1) :
        ~IsOpener(At(at)) /\ ~(IsSeparator(at - 1) /\ IsSeparator(at))

\* Legal bytes are read on.
LEMMA ReadsFurther ==
    ASSUME IInv, ScanningPattern, NEW next \in (i + 1)..Len(text),
           FaultsFrom[i] = FaultsFrom[next],
           next > Checked => HasWildcard,
           isLiteral' \in BOOLEAN,
           isLiteral' <=> isLiteral /\ IsPlainBetween(i, next),
           i' = next, byteRun' \in Nat \ {0},
           UNCHANGED <<scanning, text, stop, partStart, result>>
    PROVE  IInv'
<1>1. /\ TypeOK /\ result = "running" /\ scanning = "pattern"
      /\ Len(text) \in Nat /\ Max({1, Len(text)}) = Len(text)
      /\ i \in 1..Len(text)
      /\ stop <= Checked /\ PatternReadTo(i)
    BY ScansPattern
<1>2. isLiteral <=> IsPlainTo(i)
    BY ScansPattern, Zenon
<1>3. next \in 1..Len(text)
    BY <1>1
<1>4. TypeOK'
    BY <1>1, <1>3 DEF TypeOK
<1>5. PatternReadTo(next)
    BY <1>1 DEF PatternReadTo
<1>6. IsPlainTo(next) <=> IsPlainTo(i) /\ IsPlainBetween(i, next)
    <2>1. 1..(next - 1) = (1..(i - 1)) \cup (i..(next - 1))
        BY <1>1, <1>3
    <2> QED
        BY <2>1 DEF IsPlainTo, IsPlainBetween
<1>7. isLiteral' <=> IsPlainTo(i')
    BY <1>2, <1>6, Zenon
<1> QED
    BY <1>1, <1>4, <1>5, <1>7, GoesOn, Zenon

\* A fault met by a byte of a run is the pattern's, for the limit is not reached.
LEMMA FaultIsMet ==
    ASSUME IInv, ReadingByte, StopsAt(i)
    PROVE  WithLength(PatternFault, PatternFault.open) = FaultAt(i).kind
<1>1. /\ Len(text) \in Nat /\ i \in 1..Len(text) /\ stop \in 1..Len(text)
      /\ Checked \in Nat /\ Checked <= Len(text) /\ Checked <= kMaxPatternLength
      /\ kMaxPatternLength \in Nat
      /\ stop <= Checked /\ PatternReadTo(i)
    BY ScansPattern DEF ReadingByte
<1>2. i < stop
    BY DEF ReadingByte, InRun
<1>3. i # Len(text) /\ ~(i >= kMaxPatternLength)
    BY <1>1, <1>2
<1>4. PatternFault = FaultAt(i)
    BY <1>1, FaultOfWhole, FaultSteps DEF PatternReadTo
<1>5. FaultAt(i).open = i
    BY <1>3 DEF FaultAt
<1> QED
    BY <1>3, <1>4, <1>5 DEF WithLength

\* A fault in a run is reported.
LEMMA ReadsFault ==
    IInv /\ (ReadIllegal \/ ReadUnterminated \/ ReadIllegalConstruct) => IInv'
<1> SUFFICES ASSUME IInv, ReadIllegal \/ ReadUnterminated \/ ReadIllegalConstruct
             PROVE  IInv'
    OBVIOUS
<1>1. /\ ReadingByte /\ StopsAt(i) /\ result' = FaultAt(i).kind
      /\ result' \in {"IllegalByte", "UnterminatedClass", "UnterminatedBraces"}
      /\ UNCHANGED <<scanning, text, i, stop, byteRun, partStart, isLiteral>>
    <2>1. /\ ReadingByte
          /\ UNCHANGED <<scanning, text, i, stop, byteRun, partStart, isLiteral>>
        BY DEF ReadIllegal, ReadUnterminated, ReadIllegalConstruct, Return
    <2>2. i # Len(text)
        BY <2>1, ScansPattern DEF ReadingByte, InRun
    <2>3. IsConstruct(At(i)) => IsLegalInPattern(At(i))
        BY DEF IsConstruct, IsLegalInPattern, setOpen, listOpen, nul, lastAscii
    <2>4. CASE ReadIllegal
        BY <2>1, <2>2, <2>4 DEF ReadIllegal, Return, StopsAt, FaultAt
    <2>5. CASE ReadUnterminated
        BY <2>1, <2>2, <2>3, <2>5
           DEF ReadUnterminated, Return, StopsAt, FaultAt, Unterminated
    <2>6. CASE ReadIllegalConstruct
        BY <2>1, <2>2, <2>3, <2>6 DEF ReadIllegalConstruct, Return, StopsAt, FaultAt
    <2> QED
        BY <2>1, <2>4, <2>5, <2>6
<1>2. WithLength(PatternFault, PatternFault.open) = result'
    BY <1>1, FaultIsMet
<1>3. TypeOK /\ scanning = "pattern" /\ isLiteral' \in BOOLEAN
    BY <1>1, ScansPattern DEF ReadingByte, TypeOK
<1> QED
    BY <1>1, <1>2, <1>3, ReturnsFault DEF SharedError, PatternError

\* A byte of a run that stands for itself is read alone.
LEMMA ReadsByte ==
    IInv /\ (ReadPlain \/ ReadSeparator \/ ReadWildcard) => IInv'
<1> SUFFICES ASSUME IInv, ReadPlain \/ ReadSeparator \/ ReadWildcard
             PROVE  IInv'
    OBVIOUS
<1> DEFINE Literal == ~IsOpener(At(i)) /\ ~(IsSeparator(i - 1) /\ IsSeparator(i))
<1>1. /\ ReadingByte /\ IsRead(i)
      /\ i' = i + 1
      /\ UNCHANGED <<scanning, text, stop, byteRun, partStart, result>>
    BY DEF ReadPlain, ReadSeparator, ReadWildcard, ReadOn, IsRead, IsConstruct, IsOpener,
           IsLegalInPattern, IsSeparator, partSeparator, anyByte, anyBytes, setOpen,
           listOpen, nul, lastAscii
<1>2. isLiteral' \in BOOLEAN /\ (isLiteral' <=> isLiteral /\ Literal)
    <2>1. CASE ReadPlain
        BY <2>1, Zenon DEF ReadPlain, ReadOn
    <2>2. CASE ReadSeparator
        <3>1. IsSeparator(i) /\ ~IsOpener(At(i))
            BY <2>2 DEF ReadSeparator, IsSeparator, IsOpener, partSeparator, anyByte,
                        anyBytes, setOpen, listOpen
        <3>2. isLiteral' = (isLiteral /\ ~IsSeparator(i - 1))
            BY <2>2, Zenon DEF ReadSeparator, ReadOn
        <3> QED
            BY <3>1, <3>2, Zenon
    <2>3. CASE ReadWildcard
        <3>1. IsOpener(At(i))
            BY <2>3 DEF ReadWildcard, IsOpener
        <3>2. isLiteral' = (isLiteral /\ FALSE)
            BY <2>3, Zenon DEF ReadWildcard, ReadOn
        <3> QED
            BY <3>1, <3>2, Zenon
    <2> QED
        BY <2>1, <2>2, <2>3, Zenon
<1>3. ScanningPattern /\ i < stop
    BY <1>1 DEF ReadingByte, InRun
<1>4. /\ Len(text) \in Nat /\ i \in 1..Len(text) /\ stop \in 1..Len(text)
      /\ byteRun \in Nat \ {0}
      /\ Checked \in Nat /\ Checked <= Len(text) /\ stop <= Checked
    BY <1>3, ScansPattern
<1>5. i + 1 \in (i + 1)..Len(text) /\ ~(i + 1 > Checked)
    BY <1>3, <1>4
<1>6. FaultsFrom[i] = FaultsFrom[i + 1]
    BY <1>1, <1>3, <1>4, FaultSteps DEF IsRead, StopsAt, NextOf
<1>7. IsPlainBetween(i, i + 1) <=> Literal
    <2>1. i..((i + 1) - 1) = {i}
        BY <1>4
    <2> QED
        BY <2>1, Zenon DEF IsPlainBetween
<1>8. isLiteral' <=> isLiteral /\ IsPlainBetween(i, i + 1)
    BY <1>2, <1>7, Zenon
<1>9. byteRun' \in Nat \ {0}
    BY <1>1, <1>4
<1> QED
    BY <1>1, <1>2, <1>3, <1>5, <1>6, <1>8, <1>9, ReadsFurther, Zenon

\* A construct is read whole, and is a wildcard.
LEMMA ReadsConstruct == IInv /\ ReadConstruct => IInv'
<1> SUFFICES ASSUME IInv, ReadConstruct PROVE IInv'
    OBVIOUS
<1>1. /\ ReadingByte /\ IsConstruct(At(i)) /\ Close(i) # -1 /\ ConstructIsLegal(i)
      /\ i' = Close(i) + 1
      /\ UNCHANGED <<scanning, text, stop, byteRun, partStart, result>>
    BY DEF ReadConstruct, ReadOn
<1>2. ~isLiteral' /\ isLiteral' \in BOOLEAN
    BY Zenon DEF ReadConstruct, ReadOn
<1>3. ScanningPattern /\ i < stop
    BY <1>1 DEF ReadingByte, InRun
<1>4. /\ Len(text) \in Nat /\ i \in 1..Len(text) /\ stop \in 1..Len(text)
      /\ byteRun \in Nat \ {0}
    BY <1>3, ScansPattern
<1>5. IsOpener(At(i)) /\ IsLegalInPattern(At(i))
    BY <1>1 DEF IsConstruct, IsOpener, IsLegalInPattern, setOpen, listOpen, nul, lastAscii
<1>6. ~StopsAt(i) /\ NextOf(i) = Close(i) + 1
    BY <1>1, <1>3, <1>4, <1>5 DEF StopsAt, NextOf
<1>7. /\ FaultsFrom[i] = FaultsFrom[Close(i) + 1]
      /\ Close(i) + 1 \in (i + 1)..Len(text)
    BY <1>4, <1>6, FaultSteps
<1>8. HasWildcard
    BY <1>3, <1>4, <1>5 DEF HasWildcard
<1>9. ~IsPlainBetween(i, Close(i) + 1)
    <2>1. i \in i..((Close(i) + 1) - 1)
        BY <1>4, <1>7
    <2> QED
        BY <2>1, <1>5, Zenon DEF IsPlainBetween
<1>10. isLiteral' <=> isLiteral /\ IsPlainBetween(i, Close(i) + 1)
    BY <1>2, <1>9, Zenon
<1>11. byteRun' \in Nat \ {0}
    BY <1>1, <1>4
<1> QED
    BY <1>1, <1>2, <1>3, <1>7, <1>8, <1>10, <1>11, ReadsFurther, Zenon

\* A word without openers and illegal bytes is read at once.
LEMMA ReadsWord == IInv /\ ReadWord => IInv'
<1> SUFFICES ASSUME IInv, ReadWord PROVE IInv'
    OBVIOUS
<1>1. /\ ScanningPattern /\ PlainWordAt(i)
      /\ i' = i + wordSize /\ byteRun' = firstByteRun
      /\ UNCHANGED <<scanning, text, stop, partStart, result>>
    BY DEF ReadWord
<1>2. isLiteral' = (isLiteral /\ WordIsLiteral(i))
    BY Zenon DEF ReadWord
<1>3. /\ TypeOK /\ Len(text) \in Nat /\ i \in 1..Len(text)
      /\ Checked \in Nat /\ Checked <= Len(text)
    BY <1>1, ScansPattern
<1>4. /\ wordSize \in Nat /\ wordSize >= 1
      /\ i + wordSize <= Checked /\ ~Word(i).hasOpenerOrIllegal
      /\ firstByteRun \in Nat \ {0}
    BY <1>1, Limits DEF PlainWordAt
<1>5. WordIsTested(i)
    BY <1>3, <1>4, WordTested
<1>6. \A p \in i..(i + wordSize - 1) : ~IsOpener(At(p)) /\ IsLegalInPattern(At(p))
    BY <1>4, <1>5, Zenon DEF WordIsTested
<1>7. /\ i + wordSize \in (i + 1)..Len(text) /\ i + wordSize \in i..Len(text)
      /\ i..((i + wordSize) - 1) = i..(i + wordSize - 1)
    BY <1>3, <1>4
<1>8. FaultsFrom[i] = FaultsFrom[i + wordSize]
    <2>1. \A p \in i..((i + wordSize) - 1) : IsRead(p)
        BY <1>6, <1>7 DEF IsRead, IsConstruct, IsOpener
    <2> QED
        BY <1>3, <1>7, <2>1, ReadOnTo, Zenon
<1>9. WordIsLiteral(i) <=> IsPlainBetween(i, i + wordSize)
    <2> DEFINE Within == i..(i + wordSize - 1)
    <2>1. WordIsLiteral(i)
              <=> /\ ~(\E p \in Within : p + 1 \in Within /\ IsSeparator(p) /\ IsSeparator(p + 1))
                  /\ ~(IsSeparator(i - 1) /\ IsSeparator(i))
        BY <1>5, Zenon DEF WordIsTested, WordIsLiteral
    <2>2. IsPlainBetween(i, i + wordSize)
              <=> \A p \in Within : ~(IsSeparator(p - 1) /\ IsSeparator(p))
        BY <1>6, <1>7, Zenon DEF IsPlainBetween
    <2>3. i \in Within
        BY <1>3, <1>4
    <2>4. (\E p \in Within : p + 1 \in Within /\ IsSeparator(p) /\ IsSeparator(p + 1))
              <=> \E p \in Within : p # i /\ IsSeparator(p - 1) /\ IsSeparator(p)
        <3>1. ASSUME NEW p \in Within, p + 1 \in Within, IsSeparator(p), IsSeparator(p + 1)
              PROVE  p + 1 # i /\ IsSeparator(p + 1 - 1)
            BY <1>3, <1>4, <3>1
        <3>2. ASSUME NEW p \in Within, p # i, IsSeparator(p - 1), IsSeparator(p)
              PROVE  /\ p - 1 \in Within /\ p - 1 + 1 \in Within
                     /\ IsSeparator(p - 1 + 1)
            BY <1>3, <1>4, <3>2
        <3> QED
            BY <3>1, <3>2
    <2> HIDE DEF Within
    <2> QED
        BY <2>1, <2>2, <2>3, <2>4
<1>10. isLiteral' \in BOOLEAN /\ (isLiteral' <=> isLiteral /\ IsPlainBetween(i, i + wordSize))
    BY <1>2, <1>9, Zenon
<1>11. ~(i + wordSize > Checked) /\ byteRun' \in Nat \ {0}
    BY <1>1, <1>3, <1>4
<1> QED
    BY <1>1, <1>7, <1>8, <1>10, <1>11, ReadsFurther, Zenon

\* A run ends within what is scanned.
LEMMA StartsRun == IInv /\ StartRun => IInv'
<1> SUFFICES ASSUME IInv, StartRun PROVE IInv'
    OBVIOUS
<1>1. /\ ScanningPattern
      /\ stop' = Min({i + byteRun, Checked}) /\ byteRun' = 2 * byteRun
      /\ UNCHANGED <<scanning, text, i, partStart, isLiteral, result>>
    BY DEF StartRun
<1>2. /\ TypeOK /\ result = "running" /\ scanning = "pattern"
      /\ Len(text) \in Nat /\ Max({1, Len(text)}) = Len(text)
      /\ i \in 1..Len(text) /\ byteRun \in Nat /\ byteRun >= 1
      /\ Checked \in Nat /\ Checked >= 1 /\ Checked <= Len(text)
      /\ PatternReadTo(i)
    BY <1>1, ScansPattern
<1>3. isLiteral <=> IsPlainTo(i)
    BY <1>1, ScansPattern, Zenon
<1>4. /\ Min({i + byteRun, Checked}) \in {i + byteRun, Checked}
      /\ Min({i + byteRun, Checked}) <= Checked
    <2>1. {i + byteRun, Checked} \subseteq Nat /\ {i + byteRun, Checked} # {}
        BY <1>2
    <2>2. /\ Min({i + byteRun, Checked}) \in {i + byteRun, Checked}
          /\ \A n \in {i + byteRun, Checked} : Min({i + byteRun, Checked}) <= n
        BY <2>1, LeastOf, Zenon
    <2> QED
        BY <2>2
<1>5. stop' \in 1..Len(text) /\ stop' <= Checked
    BY <1>1, <1>2, <1>4
<1>6. TypeOK'
    BY <1>1, <1>2, <1>5 DEF TypeOK
<1>7. isLiteral' <=> IsPlainTo(i')
    BY <1>1, <1>3, Zenon
<1> QED
    BY <1>1, <1>2, <1>5, <1>6, <1>7, GoesOn, Zenon

\* What the end of a pattern's scan returns, case by case.
LEMMA EndIs ==
    ASSUME EndPattern
    PROVE  /\ IsTooLong => result' = "PatternTooLong"
           /\ ~IsTooLong /\ HasIllegalByteFrom(Checked) => result' = "IllegalByte"
           /\ ~IsTooLong /\ ~HasIllegalByteFrom(Checked) => result' = "ok"
BY DEF EndPattern

\* A pattern of no more than the limit is scanned whole.
LEMMA EndsShort ==
    ASSUME IInv, EndPattern, Len(text) <= kMaxPatternLength
    PROVE  /\ result' = "ok" /\ WithLength(PatternFault, PatternFault.open) = "ok"
           /\ isLiteral' \in BOOLEAN
           /\ isLiteral' <=>
                 ~HasWildcard /\ ~HasPartLongerThan(kMaxAddressPartLength)
<1>1. /\ ScanningPattern /\ i >= Checked
      /\ isLiteral' = IF Len(text) > kMaxPatternLength /\ result' = "ok"
                      THEN ~HasPartLongerThan(kMaxAddressPartLength)
                      ELSE isLiteral
    BY Zenon DEF EndPattern
<1>2. /\ TypeOK /\ HasLeadingSlash
      /\ Len(text) \in Nat /\ Len(text) >= 1 /\ i \in 1..Len(text)
      /\ Checked = Len(text) /\ kMaxPatternLength \in Nat
      /\ PatternReadTo(i)
    BY <1>1, ScansPattern, CheckedIs
<1>3. i = Len(text) /\ ~(Len(text) > kMaxPatternLength)
    BY <1>1, <1>2
<1>4. PatternFault = NoFault /\ ~IsTooLong
    <2>1. FaultsFrom[Len(text)] = NoFault
        <3>1. Len(text) \in 1..Len(text) /\ StopsAt(Len(text))
            BY <1>2 DEF StopsAt
        <3>2. FaultAt(Len(text)) = NoFault
            BY Zenon DEF FaultAt
        <3> QED
            BY <1>2, <3>1, <3>2, FaultSteps
    <2> QED
        BY <1>2, <1>3, <2>1, FaultOfWhole DEF PatternReadTo, IsTooLong
<1>5. result' = "ok"
    <2>1. ~HasIllegalByteFrom(Checked)
        BY <1>2 DEF HasIllegalByteFrom
    <2> QED
        BY <1>4, <2>1, EndIs
<1>6. WithLength(PatternFault, PatternFault.open) = "ok"
    BY <1>4 DEF WithLength, NoFault
<1>7. IsPlainTo(i) <=> ~HasWildcard
    <2>1. ~IsOpener(At(0))
        BY <1>2, TextIs DEF IsSeparator, IsOpener, partSeparator, anyByte, anyBytes,
                            setOpen, listOpen
    <2>2. 0..(Len(text) - 1) = {0} \cup 1..(Len(text) - 1)
        BY <1>2
    <2>3. HasWildcard
              <=> \/ \E at \in 1..(Len(text) - 1) : IsOpener(At(at))
                  \/ \E at \in 1..(Len(text) - 1) : IsSeparator(at - 1) /\ IsSeparator(at)
        BY <2>1, <2>2 DEF HasWildcard
    <2> QED
        BY <1>3, <2>3, Zenon DEF IsPlainTo
<1>8. ~HasPartLongerThan(kMaxAddressPartLength)
    <2>1. 0..(Len(text) - kMaxAddressPartLength - 1) = {}
        BY <1>2, Limits
    <2> QED
        BY <2>1 DEF HasPartLongerThan
<1>9. isLiteral <=> IsPlainTo(i)
    BY <1>1, ScansPattern, Zenon
<1>10. isLiteral' = isLiteral
    BY <1>1, <1>3, Zenon
<1>11. isLiteral' \in BOOLEAN
    BY <1>2, <1>10 DEF TypeOK
<1> QED
    BY <1>5, <1>6, <1>7, <1>8, <1>9, <1>10, <1>11, Zenon

\* Of a longer one the limit is met before the first fault after it, unless the
\* pattern is literal: then only its bytes and its parts matter.
LEMMA EndsLong ==
    ASSUME IInv, EndPattern, Len(text) > kMaxPatternLength
    PROVE  /\ result' \in {"PatternTooLong", "IllegalByte", "ok"}
           /\ result' = WithLength(PatternFault, PatternFault.open)
           /\ isLiteral' \in BOOLEAN
           /\ result' = "ok" =>
                 (isLiteral' <=>
                     ~HasWildcard /\ ~HasPartLongerThan(kMaxAddressPartLength))
<1>1. /\ ScanningPattern /\ i >= Checked
      /\ isLiteral' = IF Len(text) > kMaxPatternLength /\ result' = "ok"
                      THEN ~HasPartLongerThan(kMaxAddressPartLength)
                      ELSE isLiteral
    BY Zenon DEF EndPattern
<1>2. /\ TypeOK /\ Len(text) \in Nat /\ i \in 1..Len(text)
      /\ Checked = kMaxPatternLength /\ kMaxPatternLength \in Nat
      /\ PatternReadTo(i)
    BY <1>1, ScansPattern, CheckedIs
<1>3. PatternFault = FaultsFrom[i]
    BY <1>2, FaultOfWhole DEF PatternReadTo
<1>4. isLiteral' \in BOOLEAN
    <2>1. isLiteral \in BOOLEAN
        BY <1>2 DEF TypeOK
    <2>2. HasPartLongerThan(kMaxAddressPartLength) \in BOOLEAN
        BY DEF HasPartLongerThan
    <2> QED
        BY <1>1, <2>1, <2>2, Zenon
<1>5. CASE HasWildcard
    <2>1. IsTooLong
        BY <1>5 DEF IsTooLong
    <2>2. result' = "PatternTooLong"
        BY <2>1, EndIs
    <2>3. PatternFault.open >= kMaxPatternLength
        <3>1. FaultsFrom[i].open \in Nat /\ i <= FaultsFrom[i].open
            BY <1>2, FaultAhead
        <3> QED
            BY <1>1, <1>2, <1>3, <3>1
    <2> QED
        BY <1>4, <2>1, <2>2, <2>3 DEF WithLength
<1>6. CASE ~HasWildcard
    <2>1. ~IsTooLong
        BY <1>6 DEF IsTooLong
    <2>2. i = Checked
        BY <1>1, <1>2, <1>6 DEF PatternReadTo
    <2>3. PatternFault.kind = IF HasIllegalByteFrom(Checked) THEN "IllegalByte" ELSE "ok"
        BY <1>2, <1>3, <1>6, <2>2, FaultOfLiteral
    <2>4. WithLength(PatternFault, PatternFault.open) = PatternFault.kind
        BY <2>1, Zenon DEF WithLength
    <2>5. result' = IF HasIllegalByteFrom(Checked) THEN "IllegalByte" ELSE "ok"
        BY <2>1, EndIs
    <2>6. result' = "ok" => (isLiteral' <=> ~HasPartLongerThan(kMaxAddressPartLength))
        BY <1>1, Zenon
    <2>7. result' \in {"PatternTooLong", "IllegalByte", "ok"}
        BY <2>5
    <2>8. result' = WithLength(PatternFault, PatternFault.open)
        BY <2>3, <2>4, <2>5
    <2> QED
        BY <1>4, <1>6, <2>6, <2>7, <2>8, Zenon
<1> QED
    BY <1>5, <1>6, Zenon

\* The end of a pattern's scan returns what the definition does.
LEMMA EndsPattern == IInv /\ EndPattern => IInv'
<1> SUFFICES ASSUME IInv, EndPattern PROVE IInv'
    OBVIOUS
<1>1. ScanningPattern /\ UNCHANGED <<scanning, text, i, stop, byteRun, partStart>>
    BY DEF EndPattern
<1>2. /\ TypeOK /\ scanning = "pattern" /\ Len(text) \in Nat
      /\ kMaxPatternLength \in Nat
    BY <1>1, ScansPattern
<1>3. /\ result' \in {"PatternTooLong", "IllegalByte", "ok"}
      /\ result' = WithLength(PatternFault, PatternFault.open)
      /\ isLiteral' \in BOOLEAN
      /\ result' = "ok" =>
            (isLiteral' <=>
                ~HasWildcard /\ ~HasPartLongerThan(kMaxAddressPartLength))
    <2>1. Len(text) <= kMaxPatternLength \/ Len(text) > kMaxPatternLength
        BY <1>2
    <2>2. CASE Len(text) <= kMaxPatternLength
        <3>1. /\ result' = "ok" /\ WithLength(PatternFault, PatternFault.open) = "ok"
              /\ isLiteral' \in BOOLEAN
              /\ isLiteral' <=>
                    ~HasWildcard /\ ~HasPartLongerThan(kMaxAddressPartLength)
            BY <2>2, EndsShort, Zenon
        <3>2. result' \in {"PatternTooLong", "IllegalByte", "ok"}
            BY <3>1
        <3> QED
            BY <3>1, <3>2, Zenon
    <2>3. CASE Len(text) > kMaxPatternLength
        BY <2>3, EndsLong, Zenon
    <2> QED
        BY <2>1, <2>2, <2>3, Zenon
<1>4. result' # "running" /\ result' \in {"ok"} \cup SharedError \cup PatternError
    BY <1>3 DEF SharedError, PatternError
<1> QED
    BY <1>1, <1>2, <1>3, <1>4, ReturnsFault, Zenon

\* No step leaves the invariant.
LEMMA NextIInv == IInv /\ [Next]_vars => IInv'
<1> SUFFICES ASSUME IInv, [Next]_vars PROVE IInv'
    OBVIOUS
<1>1. CASE RejectStart
    BY <1>1, RejectsStart
<1>2. CASE ScanPattern
    BY <1>2, ReadsWord, StartsRun, ReadsByte, ReadsFault, ReadsConstruct, EndsPattern
       DEF ScanPattern
<1>3. CASE ScanAddress
    BY <1>3, AcceptsWord, RejectsWord, LeavesWords, EndsPart, RejectsByte, ReadsPartByte,
       EndsAddress
       DEF ScanAddress
<1>4. CASE UNCHANGED vars
    <2>1. UNCHANGED <<scanning, text, i, stop, byteRun, partStart, isLiteral, result>>
        BY <1>4 DEF vars
    <2>2. CASE result = "running"
        <3>1. TypeOK'
            BY <2>1 DEF IInv, TypeOK
        <3>2. AddressRead' /\ PatternRead'
            <4>1. AddressRead /\ PatternRead
                BY Zenon DEF IInv
            <4> QED
                BY <2>1, <4>1, ReadKept, Zenon DEF AddressRead, PatternRead
        <3>3. ~Parsed'
            BY <2>1, <2>2 DEF Parsed
        <3> QED
            BY <3>1, <3>2, <3>3, Zenon
               DEF IInv, PatternFaultAsDefined, AddressFaultAsDefined, LiteralAsDefined
    <2>3. CASE result # "running"
        <3>1. /\ TypeOK /\ isLiteral' \in BOOLEAN
              /\ scanning = "pattern" => result' \in {"ok"} \cup SharedError \cup PatternError
              /\ scanning # "pattern" => result' \in {"ok"} \cup SharedError \cup AddressError
            BY <2>1, <2>3 DEF IInv, TypeOK
        <3>2. /\ HasLeadingSlash /\ scanning = "pattern" =>
                     result' = WithLength(PatternFault, PatternFault.open)
              /\ HasLeadingSlash /\ scanning # "pattern" => result' = AddressFault
            <4>1. Len(text) \in Nat
                BY <3>1, LenProperties DEF TypeOK
            <4>2. HasLeadingSlash /\ scanning = "pattern" =>
                      result = WithLength(PatternFault, PatternFault.open)
                BY <2>3, <4>1, JudgedWhereItOpens
                   DEF IInv, PatternFaultAsDefined, Parsed
            <4> QED
                BY <2>1, <2>3, <4>2 DEF IInv, AddressFaultAsDefined, Parsed
        <3>3. HasLeadingSlash /\ scanning = "pattern" /\ result' = "ok" =>
                  (isLiteral' <=>
                      ~HasWildcard /\ ~HasPartLongerThan(kMaxAddressPartLength))
            BY <2>1, <2>3, Zenon DEF IInv, LiteralAsDefined, Parsed
        <3> QED
            BY <2>1, <2>3, <3>1, <3>2, <3>3, ReturnsFault, Zenon
    <2> QED
        BY <2>2, <2>3
<1> QED
    BY <1>1, <1>2, <1>3, <1>4 DEF Next

\* The invariant holds of every state.
THEOREM InductiveInvariant == Spec => []IInv
BY InitIInv, NextIInv, PTL DEF Spec

-----------------------------------------------------------------------------
\* The scans stay within the text, and each fault is one of those its kind of
\* text can have.
THEOREM TypeCorrect == Spec => []TypeOK
<1>1. IInv => TypeOK
    BY DEF IInv
<1> QED
    BY <1>1, InductiveInvariant, PTL

\* However its words and its runs of bytes fall, a pattern's fault is the first
\* from the left, the length's where the limit comes before it, with one exception:
\* an illegal byte behind the limit in a construct that opens ahead of it.
THEOREM PatternFaultCorrect == Spec => []PatternFaultAsDefined
<1>1. IInv => PatternFaultAsDefined
    BY DEF IInv
<1> QED
    BY <1>1, InductiveInvariant, PTL

\* So is an address's, which words read without its bytes.
THEOREM AddressFaultCorrect == Spec => []AddressFaultAsDefined
<1>1. IInv => AddressFaultAsDefined
    BY DEF IInv
<1> QED
    BY <1>1, InductiveInvariant, PTL

\* A pattern is taken as literal exactly when comparing it is matching it.
THEOREM LiteralCorrect == Spec => []LiteralAsDefined
<1>1. IInv => LiteralAsDefined
    BY DEF IInv
<1> QED
    BY <1>1, InductiveInvariant, PTL
=============================================================================
