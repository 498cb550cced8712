------------------------ MODULE PatternText_proofs ------------------------
(***************************************************************************)
(* Proofs about PatternText, for all texts of patterns and of addresses:   *)
(* in each of the three ways of matching, the loop takes the steps of      *)
(* PartMatching over the tokens of the pattern and the parts of the        *)
(* address, and so answers as the reference of PartMatching does.          *)
(***************************************************************************)
EXTENDS PatternText, DataLemmas

(***************************************************************************)
(* Texts.                                                                  *)
(***************************************************************************)

\* There is no separator past the end of a text.
LEMMA SeparatorWithin ==
    ASSUME NEW text, NEW at, IsSeparator(text, at)
    PROVE  at < Len(text)
BY DEF IsSeparator

\* partEnd finds the first separator, or the end of the text.
LEMMA PartEndIs ==
    ASSUME NEW text, Len(text) \in Nat, NEW from \in 0..Len(text)
    PROVE  /\ PartEnd(text, from) \in from..Len(text)
           /\ \A q \in from..(PartEnd(text, from) - 1) : ~IsSeparator(text, q)
           /\ PartEnd(text, from) = Len(text) \/ IsSeparator(text, PartEnd(text, from))
<1> DEFINE S == {q \in from..Len(text) : IsSeparator(text, q)} \cup {Len(text)}
<1>1. S \subseteq Nat /\ S # {}
    OBVIOUS
<1>2. Min(S) \in S /\ \A n \in S : Min(S) <= n
    BY <1>1, LeastOf
<1>3. PartEnd(text, from) = Min(S)
    BY DEF PartEnd
<1>4. Min(S) \in from..Len(text)
    BY <1>2
<1>5. ASSUME NEW q \in from..(Min(S) - 1) PROVE ~IsSeparator(text, q)
    <2>1. q \notin S /\ q \in from..Len(text)
        BY <1>2, <1>4
    <2> QED
        BY <2>1
<1>6. Min(S) = Len(text) \/ IsSeparator(text, Min(S))
    BY <1>2
<1> HIDE DEF S
<1> QED
    BY <1>3, <1>4, <1>5, <1>6

\* A run of separators ends before the first byte that is none.
LEMMA RunEndIs ==
    ASSUME NEW text, Len(text) \in Nat, NEW from \in 0..Len(text)
    PROVE  /\ RunEnd(text, from) \in from..Len(text)
           /\ \A q \in from..(RunEnd(text, from) - 1) : IsSeparator(text, q)
           /\ ~IsSeparator(text, RunEnd(text, from))
<1> DEFINE S == {q \in from..Len(text) : ~IsSeparator(text, q)}
<1>1. S \subseteq Nat /\ S # {}
    <2>1. ~IsSeparator(text, Len(text))
        BY SeparatorWithin
    <2>2. Len(text) \in S
        BY <2>1
    <2> QED
        BY <2>2
<1>2. Min(S) \in S /\ \A n \in S : Min(S) <= n
    BY <1>1, LeastOf
<1>3. RunEnd(text, from) = Min(S)
    BY DEF RunEnd
<1>4. Min(S) \in from..Len(text) /\ ~IsSeparator(text, Min(S))
    BY <1>2
<1>5. ASSUME NEW q \in from..(Min(S) - 1) PROVE IsSeparator(text, q)
    <2>1. q \notin S /\ q \in from..Len(text)
        BY <1>2, <1>4
    <2> QED
        BY <2>1
<1> HIDE DEF S
<1> QED
    BY <1>3, <1>4, <1>5

\* Every end with no separator before it is the end partEnd finds.
LEMMA PartEndAt ==
    ASSUME NEW text, Len(text) \in Nat, NEW from \in 0..Len(text),
           NEW end \in from..Len(text),
           \A q \in from..(end - 1) : ~IsSeparator(text, q),
           end = Len(text) \/ IsSeparator(text, end)
    PROVE  PartEnd(text, from) = end
<1> DEFINE e == PartEnd(text, from)
<1>1. /\ e \in from..Len(text)
      /\ \A q \in from..(e - 1) : ~IsSeparator(text, q)
      /\ e = Len(text) \/ IsSeparator(text, e)
    BY PartEndIs
<1> HIDE DEF e
<1>2. ~(e < end)
    BY <1>1
<1>3. ~(end < e)
    BY <1>1
<1> QED
    BY <1>1, <1>2, <1>3 DEF e

\* The shape of the token that starts at a place: a run of two separators or
\* more, or what lies before the next separator.
IsToken(text, start, end) ==
    /\ start \in 0..Len(text) /\ end \in start..Len(text)
    /\ IsSeparator(text, start) =>
          /\ end >= start + 2 /\ ~IsSeparator(text, end)
          /\ \A q \in start..(end - 1) : IsSeparator(text, q)
    /\ ~IsSeparator(text, start) =>
          /\ end > start \/ start = Len(text)
          /\ \A q \in start..(end - 1) : ~IsSeparator(text, q)
          /\ end = Len(text) \/ IsSeparator(text, end)

\* The token at the start of one has that shape.
LEMMA TokenIs ==
    ASSUME NEW text, Len(text) \in Nat, NEW start \in TokenStarts(text)
    PROVE  IsToken(text, start, TokenEnd(text, start))
<1>1. start \in 0..Len(text) /\ (IsOperatorStart(text, start) \/ IsPartStart(text, start))
    BY DEF TokenStarts
<1> DEFINE end == TokenEnd(text, start)
<1>2. CASE IsSeparator(text, start)
    <2>1. end = RunEnd(text, start)
        BY <1>2 DEF TokenEnd
    <2>2. /\ end \in start..Len(text) /\ ~IsSeparator(text, end)
          /\ \A q \in start..(end - 1) : IsSeparator(text, q)
        BY <1>1, <2>1, RunEndIs
    <2>3. IsSeparator(text, start + 1)
        BY <1>1, <1>2 DEF IsOperatorStart, IsPartStart
    <2> HIDE DEF end
    <2>4. end # start /\ end # start + 1
        BY <1>2, <2>2, <2>3
    <2> QED
        BY <1>1, <1>2, <2>2, <2>4 DEF IsToken, end
<1>3. CASE ~IsSeparator(text, start)
    <2>1. end = PartEnd(text, start)
        BY <1>3 DEF TokenEnd
    <2>2. /\ end \in start..Len(text)
          /\ \A q \in start..(end - 1) : ~IsSeparator(text, q)
          /\ end = Len(text) \/ IsSeparator(text, end)
        BY <1>1, <2>1, PartEndIs
    <2> HIDE DEF end
    <2>3. end > start \/ start = Len(text)
        BY <1>1, <1>3, <2>2
    <2> QED
        BY <1>1, <1>3, <2>2, <2>3 DEF IsToken, end
<1> QED
    BY <1>2, <1>3

\* A token ends before the next begins, and not where the next ends.
LEMMA TokensApart ==
    ASSUME NEW text, Len(text) \in Nat, NEW s \in TokenStarts(text),
           NEW t \in TokenStarts(text), s < t
    PROVE  /\ TokenEnd(text, s) <= t
           /\ TokenEnd(text, s) < TokenEnd(text, t)
<1> DEFINE e == TokenEnd(text, s)
           f == TokenEnd(text, t)
<1>1. IsToken(text, s, e) /\ IsToken(text, t, f)
    BY TokenIs
<1>2. t \in 0..Len(text) /\ (IsOperatorStart(text, t) \/ IsPartStart(text, t))
    BY DEF TokenStarts
<1> HIDE DEF e, f
<1>3. /\ s \in 0..Len(text) /\ e \in s..Len(text)
      /\ t \in 0..Len(text) /\ f \in t..Len(text)
    BY <1>1 DEF IsToken
<1>4. e <= t
    <2> SUFFICES ASSUME t < e PROVE FALSE
        BY <1>3
    <2>1. t \in s..(e - 1) /\ t - 1 \in s..(e - 1) /\ t # 0 /\ t # Len(text)
        BY <1>3
    <2>2. CASE IsSeparator(text, s)
        <3>1. IsSeparator(text, t) /\ IsSeparator(text, t - 1)
            BY <1>1, <2>1, <2>2 DEF IsToken
        <3> QED
            BY <1>2, <2>1, <3>1 DEF IsOperatorStart, IsPartStart
    <2>3. CASE ~IsSeparator(text, s)
        <3>1. ~IsSeparator(text, t) /\ ~IsSeparator(text, t - 1)
            BY <1>1, <2>1, <2>3 DEF IsToken
        <3> QED
            BY <1>2, <2>1, <3>1 DEF IsOperatorStart, IsPartStart
    <2> QED
        BY <2>2, <2>3
<1>5. e < f
    <2> SUFFICES ASSUME e = t, f = t PROVE FALSE
        BY <1>3, <1>4
    <2>1. t = Len(text) /\ ~IsSeparator(text, t)
        BY <1>1, <1>3 DEF IsToken
    <2>2. IsPartStart(text, t) /\ t # 0 /\ IsSeparator(text, t - 1)
          /\ (t = 1 \/ ~IsSeparator(text, t - 2))
        BY <1>2, <1>3, <2>1 DEF IsOperatorStart, IsPartStart
    <2>3. CASE IsSeparator(text, s)
        <3>1. t - 2 \in s..(e - 1) /\ t # 1
            BY <1>1, <1>3, <2>3 DEF IsToken
        <3> QED
            BY <1>1, <2>2, <2>3, <3>1 DEF IsToken
    <2>4. CASE ~IsSeparator(text, s)
        <3>1. t - 1 \in s..(e - 1)
            BY <1>3
        <3> QED
            BY <1>1, <2>2, <2>4, <3>1 DEF IsToken
    <2> QED
        BY <2>3, <2>4
<1> QED
    BY <1>4, <1>5 DEF e, f

(***************************************************************************)
(* A set of numbers in order.                                              *)
(***************************************************************************)

\* The members of a set below a number.
Below(S, n) == {m \in S : m < n}

\* More of a set lies below the greater of two of its members.
LEMMA BelowGrows ==
    ASSUME NEW S \in SUBSET Nat, IsFiniteSet(S), NEW m \in S, NEW n \in S, m < n
    PROVE  /\ Cardinality(Below(S, m)) \in Nat /\ Cardinality(Below(S, n)) \in Nat
           /\ Cardinality(Below(S, m)) < Cardinality(Below(S, n))
<1>1. m \in Nat /\ n \in Nat /\ \A x \in S : x \in Nat
    OBVIOUS
<1>2. Below(S, n) \in SUBSET S
    BY DEF Below
<1>3. IsFiniteSet(Below(S, n))
    BY <1>2, FS_Subset
<1>4. Below(S, m) \in SUBSET Below(S, n)
    <2>1. \A x \in S : x < m => x < n
        BY <1>1
    <2> QED
        BY <2>1 DEF Below
<1>5. m \in Below(S, n) /\ m \notin Below(S, m)
    BY <1>1 DEF Below
<1>6. /\ IsFiniteSet(Below(S, m))
      /\ Cardinality(Below(S, m)) <= Cardinality(Below(S, n))
      /\ Cardinality(Below(S, m)) # Cardinality(Below(S, n))
    BY <1>3, <1>4, <1>5, FS_Subset
<1>7. Cardinality(Below(S, m)) \in Nat /\ Cardinality(Below(S, n)) \in Nat
    BY <1>3, <1>6, FS_CardinalityType
<1> QED
    BY <1>6, <1>7

\* Each member of a set has its own place in order, one for each number below
\* it, and every place is taken.
LEMMA InOrderIs ==
    ASSUME NEW S \in SUBSET Nat, IsFiniteSet(S)
    PROVE  /\ Cardinality(S) \in Nat
           /\ InOrder(S) \in [1..Cardinality(S) -> S]
           /\ \A k \in 1..Cardinality(S) :
                 Cardinality(Below(S, InOrder(S)[k])) = k - 1
           /\ \A n \in S :
                 /\ Cardinality(Below(S, n)) \in 0..(Cardinality(S) - 1)
                 /\ InOrder(S)[Cardinality(Below(S, n)) + 1] = n
<1> DEFINE card == Cardinality(S)
           rank == [n \in S |-> Cardinality(Below(S, n))]
<1>1. card \in Nat
    BY FS_CardinalityType
<1>2. \A n \in S : rank[n] \in 0..(card - 1)
    <2> SUFFICES ASSUME NEW n \in S
                 PROVE  Cardinality(Below(S, n)) \in 0..(card - 1)
        OBVIOUS
    <2>1. Below(S, n) \in SUBSET S /\ n \notin Below(S, n)
        BY DEF Below
    <2>2. /\ IsFiniteSet(Below(S, n))
          /\ Cardinality(Below(S, n)) <= card
          /\ Cardinality(Below(S, n)) # card
        BY <2>1, FS_Subset
    <2>3. Cardinality(Below(S, n)) \in Nat
        BY <2>2, FS_CardinalityType
    <2> QED
        BY <1>1, <2>2, <2>3
<1>3. ASSUME NEW m \in S, NEW n \in S, rank[m] = rank[n] PROVE m = n
    <2>1. m \in Nat /\ n \in Nat
        OBVIOUS
    <2>2. Cardinality(Below(S, m)) = Cardinality(Below(S, n))
        BY <1>3
    <2>3. ~(m < n)
        BY <2>2, BelowGrows
    <2>4. ~(n < m)
        BY <2>2, BelowGrows
    <2> QED
        BY <2>1, <2>3, <2>4
<1>4. rank \in Surjection(S, 0..(card - 1))
    <2>1. rank \in [S -> 0..(card - 1)]
        BY <1>2
    <2> HIDE DEF rank
    <2>2. rank \in Injection(S, 0..(card - 1))
        BY <1>3, <2>1 DEF Injection, IsInjective
    <2>3. IsFiniteSet(0..(card - 1)) /\ Cardinality(0..(card - 1)) = card
        <3> HIDE DEF card
        <3>1. card - 1 \in Int /\ 0 \in Int
            BY <1>1
        <3>2. /\ IsFiniteSet(0..(card - 1))
              /\ Cardinality(0..(card - 1)) = IF 0 > card - 1 THEN 0 ELSE (card - 1) - 0 + 1
            BY <3>1, FS_Interval
        <3> QED
            BY <1>1, <3>2
    <2> QED
        BY <2>2, <2>3, FS_Injection
<1>5. \A k \in 1..card : \E n \in S : rank[n] = k - 1
    <2> HIDE DEF rank
    <2> SUFFICES ASSUME NEW k \in 1..card PROVE \E n \in S : rank[n] = k - 1
        OBVIOUS
    <2>1. k - 1 \in 0..(card - 1)
        BY <1>1
    <2> QED
        BY <1>4, <2>1 DEF Surjection
<1> DEFINE Place(k) == CHOOSE n \in S : Cardinality(Below(S, n)) = k - 1
<1>6. InOrder(S) = [k \in 1..card |-> Place(k)]
    BY DEF InOrder, Below
<1>7. \A k \in 1..card : Place(k) \in S /\ Cardinality(Below(S, Place(k))) = k - 1
    BY <1>5
<1> HIDE DEF Place
<1>8. /\ InOrder(S) \in [1..card -> S]
      /\ \A k \in 1..card : Cardinality(Below(S, InOrder(S)[k])) = k - 1
    BY <1>6, <1>7
<1>9. ASSUME NEW n \in S
      PROVE  /\ Cardinality(Below(S, n)) \in 0..(card - 1)
             /\ InOrder(S)[Cardinality(Below(S, n)) + 1] = n
    <2> DEFINE k == Cardinality(Below(S, n)) + 1
    <2>1. Cardinality(Below(S, n)) \in 0..(card - 1)
        BY <1>2
    <2>2. k \in 1..card /\ ((k - 1) = Cardinality(Below(S, n)))
        BY <1>1, <2>1
    <2>3. InOrder(S)[k] \in S /\ Cardinality(Below(S, InOrder(S)[k])) = k - 1
        BY <1>8, <2>2
    <2>4. rank[InOrder(S)[k]] = rank[n]
        BY <2>2, <2>3
    <2>5. InOrder(S)[k] = n
        BY <1>3, <2>3, <2>4
    <2> QED
        BY <2>1, <2>5
<1> QED
    BY <1>1, <1>8, <1>9

\* The next in order is the least of those above.
LEMMA NextInOrder ==
    ASSUME NEW S \in SUBSET Nat, IsFiniteSet(S), NEW n \in S, NEW next \in S, n < next,
           \A m \in S : n < m => next <= m
    PROVE  Cardinality(Below(S, next)) = Cardinality(Below(S, n)) + 1
<1>1. n \in Nat /\ next \in Nat /\ \A m \in S : m \in Nat
    OBVIOUS
<1>2. Below(S, next) = Below(S, n) \cup {n}
    <2>1. \A m \in S : m < next <=> m < n \/ m = n
        BY <1>1
    <2> QED
        BY <2>1 DEF Below
<1>3. Below(S, n) \in SUBSET S /\ n \notin Below(S, n)
    BY DEF Below
<1>4. IsFiniteSet(Below(S, n))
    BY <1>3, FS_Subset
<1> QED
    BY <1>2, <1>3, <1>4, FS_AddElement

\* Numbers up to a limit are finitely many.
LEMMA NumbersFinite ==
    ASSUME NEW limit \in Nat, NEW S, S \subseteq 0..limit
    PROVE  IsFiniteSet(S) /\ S \in SUBSET Nat
<1>1. IsFiniteSet(0..limit)
    BY FS_Interval
<1>2. IsFiniteSet(S)
    BY <1>1, FS_Subset
<1> QED
    BY <1>2

(***************************************************************************)
(* The tokens of a pattern and the parts of an address.                    *)
(***************************************************************************)

\* The bytes of a part of a pattern.
WildBytes == PlainBytes \cup {anyBytes}

\* The texts are made of these bytes and separators.
LEMMA TextsTyped ==
    /\ \A text \in PatternTexts :
          /\ text \in Seq(WildBytes \cup {partSeparator})
          /\ Len(text) \in Nat
    /\ \A text \in AddressTexts :
          /\ text \in Seq(PlainBytes \cup {partSeparator})
          /\ Len(text) \in Nat
<1>1. PlainBytes \cup {partSeparator, anyBytes} = WildBytes \cup {partSeparator}
    BY DEF WildBytes
<1>2. /\ \A text \in PatternTexts : text \in Seq(WildBytes \cup {partSeparator})
      /\ \A text \in AddressTexts : text \in Seq(PlainBytes \cup {partSeparator})
    BY <1>1, TextsAssumption
<1> QED
    BY <1>2, LenProperties

\* The bytes of a text between two places that hold no separator.
LEMMA BytesBetween ==
    ASSUME NEW B, NEW text \in Seq(B \cup {partSeparator}),
           NEW from \in 0..Len(text), NEW to \in from..Len(text),
           \A q \in from..(to - 1) : ~IsSeparator(text, q)
    PROVE  /\ Bytes(text, from, to) \in Seq(B)
           /\ Len(Bytes(text, from, to)) = to - from
           /\ \A k \in 1..(to - from) : Bytes(text, from, to)[k] = text[from + k]
<1>1. Len(text) \in Nat
    BY LenProperties
<1>2. ASSUME NEW i \in (from + 1)..to PROVE text[i] \in B
    <2>1. i \in 1..Len(text) /\ i - 1 \in from..(to - 1) /\ (i - 1) + 1 = i
        BY <1>1
    <2>2. text[i] \in B \cup {partSeparator}
        BY <2>1, ElementOfSeq
    <2>3. ~IsSeparator(text, i - 1)
        BY <2>1
    <2>4. text[i] # partSeparator
        BY <1>1, <2>1, <2>3 DEF IsSeparator
    <2> QED
        BY <2>2, <2>4
<1>3. from + 1 \in Int /\ to \in Int
    BY <1>1
<1>4. /\ SubSeq(text, from + 1, to) \in Seq(B)
      /\ Len(SubSeq(text, from + 1, to))
             = IF from + 1 <= to THEN to - (from + 1) + 1 ELSE 0
      /\ \A i \in 1..(to - (from + 1) + 1) :
            SubSeq(text, from + 1, to)[i] = text[(from + 1) + i - 1]
    BY <1>2, <1>3, SubSeqProperties
<1>5. to - (from + 1) + 1 = to - from
    BY <1>1
<1>6. Len(SubSeq(text, from + 1, to)) = to - from
    BY <1>1, <1>4
<1>7. ASSUME NEW k \in 1..(to - from)
      PROVE  SubSeq(text, from + 1, to)[k] = text[from + k]
    <2>1. (from + 1) + k - 1 = from + k
        BY <1>1
    <2> QED
        BY <1>4, <1>5, <2>1
<1> QED
    BY <1>4, <1>6, <1>7 DEF Bytes

\* Tabulating a function leaves it as it is.
LEMMA TabulatedIs == ASSUME NEW f PROVE Tabulated(f) = f
BY DEF Tabulated

\* The places where tokens and parts start are finitely many.
LEMMA StartsFinite ==
    ASSUME NEW text, Len(text) \in Nat
    PROVE  /\ TokenStarts(text) \in SUBSET Nat /\ IsFiniteSet(TokenStarts(text))
           /\ PartStarts(text) \in SUBSET Nat /\ IsFiniteSet(PartStarts(text))
           /\ Cardinality(TokenStarts(text)) \in Nat
           /\ Cardinality(PartStarts(text)) \in Nat
<1>1. TokenStarts(text) \subseteq 0..Len(text)
    BY DEF TokenStarts
<1>2. PartStarts(text) \subseteq 0..Len(text)
    BY DEF PartStarts
<1>3. /\ IsFiniteSet(TokenStarts(text)) /\ TokenStarts(text) \in SUBSET Nat
      /\ IsFiniteSet(PartStarts(text)) /\ PartStarts(text) \in SUBSET Nat
    BY <1>1, <1>2, NumbersFinite
<1> QED
    BY <1>3, FS_CardinalityType

\* The text of a token of a pattern is the operator or one of a part.
LEMMA TokenTyped ==
    ASSUME NEW text \in PatternTexts, NEW start \in TokenStarts(text)
    PROVE  /\ TokenText(text, start) \in Seq(WildBytes) \cup {Operator}
           /\ IsSeparator(text, start) <=> TokenText(text, start) = Operator
<1>1. Len(text) \in Nat /\ text \in Seq(WildBytes \cup {partSeparator})
    BY TextsTyped
<1>2. start \in 0..Len(text)
    BY DEF TokenStarts
<1>3. CASE IsSeparator(text, start)
    BY <1>3 DEF TokenText
<1>4. CASE ~IsSeparator(text, start)
    <2>1. /\ PartEnd(text, start) \in start..Len(text)
          /\ \A q \in start..(PartEnd(text, start) - 1) : ~IsSeparator(text, q)
        BY <1>1, <1>2, PartEndIs
    <2>2. Bytes(text, start, PartEnd(text, start)) \in Seq(WildBytes)
        BY <1>1, <1>2, <2>1, BytesBetween
    <2>3. TokenText(text, start) = Bytes(text, start, PartEnd(text, start))
        BY <1>4 DEF TokenText
    <2>4. Operator \notin Seq(WildBytes)
        <3> SUFFICES ASSUME Operator \in Seq(WildBytes) PROVE FALSE
            OBVIOUS
        <3>1. 1 \in 1..Len(Operator) /\ Operator[1] = partSeparator
            BY DEF Operator
        <3>2. partSeparator \in WildBytes
            BY <3>1, ElementOfSeq
        <3> QED
            BY <3>2, BytesAssumption DEF WildBytes
    <2> QED
        BY <1>4, <2>2, <2>3, <2>4
<1> QED
    BY <1>3, <1>4

\* The tokens of a pattern, each at its place.
LEMMA TokensIs ==
    ASSUME NEW text \in PatternTexts
    PROVE  /\ Tokens[text] \in Seq(Seq(WildBytes) \cup {Operator})
           /\ Len(Tokens[text]) = Cardinality(TokenStarts(text))
           /\ \A k \in 1..Len(Tokens[text]) :
                 /\ InOrder(TokenStarts(text))[k] \in TokenStarts(text)
                 /\ Tokens[text][k] = TokenText(text, InOrder(TokenStarts(text))[k])
<1> DEFINE S == TokenStarts(text)
           starts == InOrder(TokenStarts(text))
           tokens == [k \in 1..Cardinality(S) |-> TokenText(text, starts[k])]
<1>1. Len(text) \in Nat
    BY TextsTyped
<1>2. /\ S \in SUBSET Nat /\ IsFiniteSet(S) /\ Cardinality(S) \in Nat
    BY <1>1, StartsFinite
<1>3. starts \in [1..Cardinality(S) -> S]
    BY <1>2, InOrderIs
<1>4. Tokens[text] = tokens
    <2>1. Tokens = [t \in PatternTexts |->
                       [k \in 1..Cardinality(TokenStarts(t)) |->
                           TokenText(t, InOrder(TokenStarts(t))[k])]]
        BY TabulatedIs DEF Tokens
    <2> QED
        BY <2>1
<1>5. \A k \in 1..Cardinality(S) : starts[k] \in S
    BY <1>3
<1>6. \A k \in 1..Cardinality(S) :
         TokenText(text, starts[k]) \in Seq(WildBytes) \cup {Operator}
    BY <1>5, TokenTyped
<1> HIDE DEF S, starts
<1>7. tokens \in [1..Cardinality(S) -> Seq(WildBytes) \cup {Operator}]
    BY <1>6
<1>8. tokens \in Seq(Seq(WildBytes) \cup {Operator}) /\ Len(tokens) = Cardinality(S)
    BY <1>2, <1>7, SeqDef
<1>9. \A k \in 1..Cardinality(S) : tokens[k] = TokenText(text, starts[k])
    OBVIOUS
<1> HIDE DEF tokens
<1>10. Len(Tokens[text]) = Cardinality(S)
    BY <1>4, <1>8
<1> QED
    BY <1>4, <1>5, <1>8, <1>9, <1>10 DEF S, starts

\* The parts of an address, each at its place.
LEMMA PartsIs ==
    ASSUME NEW text \in AddressTexts
    PROVE  /\ AddressParts[text] \in Seq(Seq(PlainBytes))
           /\ Len(AddressParts[text]) = Cardinality(PartStarts(text))
           /\ \A k \in 1..Len(AddressParts[text]) :
                 /\ InOrder(PartStarts(text))[k] \in PartStarts(text)
                 /\ AddressParts[text][k] = PartText(text, InOrder(PartStarts(text))[k])
<1> DEFINE S == PartStarts(text)
           starts == InOrder(PartStarts(text))
           parts == [k \in 1..Cardinality(S) |-> PartText(text, starts[k])]
<1>1. Len(text) \in Nat /\ text \in Seq(PlainBytes \cup {partSeparator})
    BY TextsTyped
<1>2. /\ S \in SUBSET Nat /\ IsFiniteSet(S) /\ Cardinality(S) \in Nat
    BY <1>1, StartsFinite
<1>3. starts \in [1..Cardinality(S) -> S]
    BY <1>2, InOrderIs
<1>4. AddressParts[text] = parts
    <2>1. AddressParts = [t \in AddressTexts |->
                             [k \in 1..Cardinality(PartStarts(t)) |->
                                 PartText(t, InOrder(PartStarts(t))[k])]]
        BY TabulatedIs DEF AddressParts
    <2> QED
        BY <2>1
<1>5. \A k \in 1..Cardinality(S) : starts[k] \in S
    BY <1>3
<1>6. ASSUME NEW start \in S PROVE PartText(text, start) \in Seq(PlainBytes)
    <2>1. start \in 0..Len(text)
        BY <1>1 DEF PartStarts
    <2>2. /\ PartEnd(text, start) \in start..Len(text)
          /\ \A q \in start..(PartEnd(text, start) - 1) : ~IsSeparator(text, q)
        BY <1>1, <2>1, PartEndIs
    <2> QED
        BY <1>1, <2>1, <2>2, BytesBetween DEF PartText
<1>7. \A k \in 1..Cardinality(S) : PartText(text, starts[k]) \in Seq(PlainBytes)
    BY <1>5, <1>6
<1> HIDE DEF S, starts
<1>8. parts \in [1..Cardinality(S) -> Seq(PlainBytes)]
    BY <1>7
<1>9. parts \in Seq(Seq(PlainBytes)) /\ Len(parts) = Cardinality(S)
    BY <1>2, <1>8, SeqDef
<1>10. \A k \in 1..Cardinality(S) : parts[k] = PartText(text, starts[k])
    OBVIOUS
<1> HIDE DEF parts
<1>11. Len(AddressParts[text]) = Cardinality(S)
    BY <1>4, <1>9
<1> QED
    BY <1>4, <1>5, <1>9, <1>10, <1>11 DEF S, starts

(***************************************************************************)
(* Where a pattern cursor stands: at an end of the text, or where a run of *)
(* separators begins or ends.                                              *)
(***************************************************************************)
CursorPlace(text, at) ==
    /\ at \in 0..Len(text)
    /\ \/ at = 0
       \/ at = Len(text)
       \/ IsSeparator(text, at) /\ ~IsSeparator(text, at - 1)
       \/ ~IsSeparator(text, at) /\ IsSeparator(text, at - 1)

\* At such a place a cursor reads the next token, and stops behind it.
LEMMA CursorReads ==
    ASSUME Len(pattern) \in Nat, NEW at, CursorPlace(pattern, at), at < Len(pattern)
    PROVE  /\ PartStart(at) \in TokenStarts(pattern)
           /\ PartStart(at) \in {at, at + 1}
           /\ ReadsOperator(at) <=> IsSeparator(pattern, PartStart(at))
           /\ NextToken(at) = TokenEnd(pattern, PartStart(at))
<1> DEFINE L == Len(pattern)
           r == RunEnd(pattern, at)
<1>1. L \in Nat /\ at \in 0..L /\ at < L
    BY DEF CursorPlace
<1>2. /\ r \in at..L /\ ~IsSeparator(pattern, r)
      /\ \A q \in at..(r - 1) : IsSeparator(pattern, q)
    BY <1>1, RunEndIs
<1>3. RunLength(at) = r - at
    BY DEF RunLength
<1> HIDE DEF r
<1>4. CASE r = at
    <2>1. ~IsSeparator(pattern, at) /\ PartStart(at) = at /\ ~ReadsOperator(at)
        BY <1>1, <1>2, <1>3, <1>4 DEF PartStart, ReadsOperator, operatorRunLength
    <2>2. at = 0 \/ IsSeparator(pattern, at - 1)
        BY <1>1, <2>1 DEF CursorPlace
    <2>3. IsPartStart(pattern, at)
        BY <1>1, <2>1, <2>2 DEF IsPartStart
    <2>4. at \in TokenStarts(pattern)
        BY <1>1, <2>3 DEF TokenStarts
    <2> QED
        BY <2>1, <2>4 DEF NextToken, TokenEnd
<1>5. CASE r = at + 1
    <2>1. IsSeparator(pattern, at) /\ PartStart(at) = at + 1 /\ ~ReadsOperator(at)
        BY <1>1, <1>2, <1>3, <1>5 DEF PartStart, ReadsOperator, operatorRunLength
    <2>2. at = 0 \/ ~IsSeparator(pattern, at - 1)
        BY <1>1, <2>1 DEF CursorPlace
    <2>3. (at + 1) - 1 = at /\ (at + 1) - 2 = at - 1
        BY <1>1
    <2>4. IsPartStart(pattern, at + 1)
        BY <1>1, <1>2, <1>5, <2>1, <2>2, <2>3 DEF IsPartStart
    <2>5. at + 1 \in TokenStarts(pattern)
        BY <1>1, <2>4 DEF TokenStarts
    <2>6. ~IsSeparator(pattern, at + 1)
        BY <1>2, <1>5
    <2> QED
        BY <2>1, <2>5, <2>6 DEF NextToken, TokenEnd
<1>6. CASE r > at + 1
    <2>1. IsSeparator(pattern, at) /\ PartStart(at) = at /\ ReadsOperator(at)
        BY <1>1, <1>2, <1>3, <1>6 DEF PartStart, ReadsOperator, operatorRunLength
    <2>2. at = 0 \/ ~IsSeparator(pattern, at - 1)
        BY <1>1, <2>1 DEF CursorPlace
    <2>3. IsSeparator(pattern, at + 1)
        BY <1>1, <1>2, <1>6
    <2>4. IsOperatorStart(pattern, at)
        BY <1>1, <2>1, <2>2, <2>3 DEF IsOperatorStart
    <2>5. at \in TokenStarts(pattern)
        BY <1>1, <2>4 DEF TokenStarts
    <2> QED
        BY <2>1, <2>5 DEF NextToken, TokenEnd
<1> QED
    BY <1>1, <1>2, <1>4, <1>5, <1>6

\* The tokens that end up to a cursor are those before the one it reads, and
\* once it has read that one, those up to it.
LEMMA CursorOrder ==
    ASSUME Len(pattern) \in Nat, NEW at, CursorPlace(pattern, at), at < Len(pattern),
           NEW s \in TokenStarts(pattern)
    PROVE  /\ TokenEnd(pattern, s) <= at <=> s < PartStart(at)
           /\ TokenEnd(pattern, s) <= NextToken(at)
                  <=> s < PartStart(at) \/ s = PartStart(at)
<1> DEFINE L == Len(pattern)
           t == PartStart(at)
           e == TokenEnd(pattern, s)
           f == TokenEnd(pattern, t)
<1>1. L \in Nat /\ at \in 0..L /\ at < L
    BY DEF CursorPlace
<1>2. t \in TokenStarts(pattern) /\ t \in {at, at + 1} /\ NextToken(at) = f
    BY CursorReads
<1>3. IsToken(pattern, s, e) /\ IsToken(pattern, t, f)
    BY <1>1, <1>2, TokenIs
<1>4. /\ s < t => e <= t /\ e < f
      /\ t < s => f < e
    BY <1>1, <1>2, TokensApart
<1>5. /\ s \in 0..L /\ e \in s..L /\ t \in 0..L /\ f \in t..L
    BY <1>3 DEF IsToken
<1>6. f > at
    BY <1>1, <1>2, <1>3, <1>5 DEF IsToken
<1>7. ASSUME s < t, e > at PROVE FALSE
    <2>1. t = at + 1 /\ e = at + 1
        BY <1>1, <1>2, <1>4, <1>5, <1>7
    <2>2. s = at
        <3> SUFFICES ASSUME s < at PROVE FALSE
            BY <1>1, <1>5, <1>7, <2>1
        <3>1. at \in s..(e - 1) /\ at - 1 \in s..(e - 1) /\ at # 0 /\ at # L
            BY <1>1, <1>5, <2>1
        <3>2. \/ IsSeparator(pattern, at) /\ IsSeparator(pattern, at - 1)
              \/ ~IsSeparator(pattern, at) /\ ~IsSeparator(pattern, at - 1)
            BY <1>3, <3>1 DEF IsToken
        <3> QED
            BY <3>1, <3>2 DEF CursorPlace
    <2>3. IsSeparator(pattern, at)
        <3>1. PartStart(at) # at
            BY <1>1, <2>1
        <3>2. RunLength(at) = 1
            BY <3>1 DEF PartStart
        <3>3. RunEnd(pattern, at) - at = 1
            BY <3>2 DEF RunLength
        <3>4. /\ RunEnd(pattern, at) \in at..L
              /\ \A q \in at..(RunEnd(pattern, at) - 1) : IsSeparator(pattern, q)
            BY <1>1, RunEndIs
        <3> QED
            BY <1>1, <3>3, <3>4
    <2> QED
        BY <1>1, <1>3, <2>1, <2>2, <2>3 DEF IsToken
<1>8. s = t => e = f
    OBVIOUS
<1> HIDE DEF t, e, f, L
<1>9. e <= at <=> s < t
    BY <1>1, <1>4, <1>5, <1>6, <1>7, <1>8
<1>10. e <= f <=> s < t \/ s = t
    BY <1>4, <1>5, <1>8
<1> QED
    BY <1>2, <1>9, <1>10 DEF t, e, f

\* Behind a token a cursor stands in such a place again.
LEMMA CursorMoves ==
    ASSUME Len(pattern) \in Nat, NEW at, CursorPlace(pattern, at), at < Len(pattern)
    PROVE  CursorPlace(pattern, NextToken(at)) /\ NextToken(at) > at
<1> DEFINE t == PartStart(at)
           f == TokenEnd(pattern, t)
<1>1. Len(pattern) \in Nat /\ at \in 0..Len(pattern) /\ at < Len(pattern)
    BY DEF CursorPlace
<1>2. t \in TokenStarts(pattern) /\ t \in {at, at + 1} /\ NextToken(at) = f
    BY CursorReads
<1>3. IsToken(pattern, t, f)
    BY <1>1, <1>2, TokenIs
<1> HIDE DEF t, f
<1>4. t \in 0..Len(pattern) /\ f \in t..Len(pattern) /\ f > at
    BY <1>1, <1>2, <1>3 DEF IsToken
<1>5. CASE f = Len(pattern)
    BY <1>2, <1>4, <1>5 DEF CursorPlace
<1>6. CASE f # Len(pattern)
    <2>1. f - 1 \in t..(f - 1) /\ f \in 0..Len(pattern)
        BY <1>1, <1>3, <1>4, <1>6 DEF IsToken
    <2>2. CASE IsSeparator(pattern, t)
        <3>1. ~IsSeparator(pattern, f) /\ IsSeparator(pattern, f - 1)
            BY <1>3, <2>1, <2>2 DEF IsToken
        <3> QED
            BY <1>2, <1>4, <2>1, <3>1 DEF CursorPlace
    <2>3. CASE ~IsSeparator(pattern, t)
        <3>1. IsSeparator(pattern, f) /\ ~IsSeparator(pattern, f - 1)
            BY <1>3, <1>6, <2>1, <2>3 DEF IsToken
        <3> QED
            BY <1>2, <1>4, <2>1, <3>1 DEF CursorPlace
    <2> QED
        BY <2>2, <2>3
<1> QED
    BY <1>5, <1>6

(***************************************************************************)
(* Where matchParsed stands: past the separator that ends the token before *)
(* it, so at the second separator of an operator, or past the end.         *)
(***************************************************************************)
ParsedPlace(text, at) ==
    \/ at = Len(text) + 1
    \/ at = 0 /\ Len(text) > 0 /\ ~IsSeparator(text, 0)
    \/ /\ at \in 1..Len(text)
       /\ IsSeparator(text, at - 1)
       /\ \/ at = 1
          \/ ~IsSeparator(text, at - 2)
          \/ at < Len(text) /\ ~IsSeparator(text, at)

\* The token there, and where matchParsed stands to read a token.
ParsedToken(text, at) == IF IsSeparator(text, at) THEN at - 1 ELSE at

ReadAt(text, start) == start + (IF IsSeparator(text, start) THEN 1 ELSE 0)

\* At such a place there is a token, which ends where the loop finds its end.
LEMMA ParsedReads ==
    ASSUME NEW text, Len(text) \in Nat, NEW at, ParsedPlace(text, at), at <= Len(text)
    PROVE  /\ at \in 0..Len(text)
           /\ ParsedToken(text, at) \in TokenStarts(text)
           /\ IsSeparator(text, ParsedToken(text, at)) <=> IsSeparator(text, at)
           /\ IsSeparator(text, at) =>
                 /\ at > 0
                 /\ RunEnd(text, at) = TokenEnd(text, at - 1)
           /\ ~IsSeparator(text, at) => PartEnd(text, at) = TokenEnd(text, at)
<1> DEFINE L == Len(text)
<1>1. L \in Nat /\ at \in 0..L
    BY DEF ParsedPlace
<1>2. CASE IsSeparator(text, at)
    <2>1. /\ at \in 1..L /\ at < L /\ IsSeparator(text, at - 1)
          /\ at = 1 \/ ~IsSeparator(text, at - 2)
        BY <1>1, <1>2, SeparatorWithin DEF ParsedPlace
    <2>2. (at - 1) + 1 = at /\ (at - 1) - 1 = at - 2
        BY <2>1
    <2>3. IsOperatorStart(text, at - 1)
        BY <1>2, <2>1, <2>2 DEF IsOperatorStart
    <2>4. at - 1 \in TokenStarts(text)
        BY <1>1, <2>1, <2>3 DEF TokenStarts
    <2>5. RunEnd(text, at) = RunEnd(text, at - 1)
        <3> DEFINE e == RunEnd(text, at)
                   f == RunEnd(text, at - 1)
        <3>1. /\ e \in at..L /\ ~IsSeparator(text, e)
              /\ \A q \in at..(e - 1) : IsSeparator(text, q)
            BY <1>1, RunEndIs
        <3>2. at - 1 \in 0..L
            BY <2>1
        <3>3. /\ f \in (at - 1)..L /\ ~IsSeparator(text, f)
              /\ \A q \in (at - 1)..(f - 1) : IsSeparator(text, q)
            BY <1>1, <3>2, RunEndIs
        <3> HIDE DEF e, f
        <3>4. f # at - 1
            BY <2>1, <3>3
        <3>5. ~(e < f)
            BY <1>1, <3>1, <3>3
        <3>6. ~(f < e)
            BY <1>1, <3>1, <3>3, <3>4
        <3>7. e = f
            BY <1>1, <3>1, <3>3, <3>5, <3>6
        <3> QED
            BY <3>7 DEF e, f
    <2> QED
        BY <1>1, <1>2, <2>1, <2>4, <2>5 DEF ParsedToken, TokenEnd
<1>3. CASE ~IsSeparator(text, at)
    <2>1. IsPartStart(text, at)
        BY <1>1, <1>3 DEF ParsedPlace, IsPartStart
    <2>2. at \in TokenStarts(text)
        BY <1>1, <2>1 DEF TokenStarts
    <2> QED
        BY <1>1, <1>3, <2>2 DEF ParsedToken, TokenEnd
<1> QED
    BY <1>2, <1>3

\* The tokens read before a place are those before the one there.
LEMMA ParsedOrder ==
    ASSUME NEW text, Len(text) \in Nat, NEW at, ParsedPlace(text, at), at <= Len(text),
           NEW s \in TokenStarts(text)
    PROVE  ReadAt(text, s) < at <=> s < ParsedToken(text, at)
<1> DEFINE L == Len(text)
           t == ParsedToken(text, at)
           e == TokenEnd(text, s)
           f == TokenEnd(text, t)
<1>1. /\ L \in Nat /\ at \in 0..L
      /\ t \in TokenStarts(text)
      /\ IsSeparator(text, at) => t = at - 1
      /\ ~IsSeparator(text, at) => t = at
    BY ParsedReads DEF ParsedToken
<1>2. IsToken(text, s, e) /\ IsToken(text, t, f)
    BY <1>1, TokenIs
<1>3. s < t => e <= t
    BY <1>1, TokensApart
<1>4. /\ s \in 0..L /\ e \in s..L /\ t \in 0..L
      /\ IsSeparator(text, s) => e >= s + 2
    BY <1>2 DEF IsToken
<1>5. /\ IsSeparator(text, s) => ReadAt(text, s) = s + 1
      /\ ~IsSeparator(text, s) => ReadAt(text, s) = s
    BY <1>4 DEF ReadAt
<1>6. s = t => (IsSeparator(text, s) <=> IsSeparator(text, at))
    BY ParsedReads
<1> HIDE DEF t, e, f
<1>7. ASSUME s < t PROVE ReadAt(text, s) < at
    BY <1>1, <1>3, <1>4, <1>5, <1>7
<1>8. ASSUME ~(s < t) PROVE ~(ReadAt(text, s) < at)
    <2>1. CASE s = t
        BY <1>1, <1>4, <1>5, <1>6, <2>1
    <2>2. CASE s # t
        BY <1>1, <1>4, <1>5, <1>8, <2>2
    <2> QED
        BY <2>1, <2>2
<1>9. (ReadAt(text, s) < at) <=> (s < t)
    BY <1>7, <1>8
<1> QED
    BY <1>9 DEF t

\* Behind a token, matchParsed stands in such a place again, with the tokens up
\* to that one read.
LEMMA ParsedMoves ==
    ASSUME NEW text, Len(text) \in Nat, NEW t \in TokenStarts(text), NEW next,
           \/ /\ IsSeparator(text, t)
              /\ next = IF TokenEnd(text, t) = Len(text) THEN Len(text) + 1
                                                         ELSE TokenEnd(text, t)
           \/ /\ ~IsSeparator(text, t)
              /\ next = TokenEnd(text, t) + 1
    PROVE  /\ ParsedPlace(text, next)
           /\ next \in (t + 1)..(Len(text) + 1)
           /\ \A s \in TokenStarts(text) :
                 ReadAt(text, s) < next <=> s < t \/ s = t
<1> DEFINE L == Len(text)
           f == TokenEnd(text, t)
<1>1. IsToken(text, t, f)
    BY TokenIs
<1> HIDE DEF f
<1>2. L \in Nat /\ t \in 0..L /\ f \in t..L
    BY <1>1 DEF IsToken
<1>3. ParsedPlace(text, next) /\ next \in (t + 1)..(L + 1)
    <2>1. CASE IsSeparator(text, t) /\ f = L
        BY <1>2, <2>1 DEF ParsedPlace, f
    <2>2. CASE IsSeparator(text, t) /\ f # L
        <3>1. /\ f - 1 \in t..(f - 1) /\ f \in 1..L /\ f < L /\ f > t
              /\ ~IsSeparator(text, f)
            BY <1>1, <1>2, <2>2 DEF IsToken
        <3>2. IsSeparator(text, f - 1)
            BY <1>1, <2>2, <3>1 DEF IsToken
        <3>3. next = f
            BY <2>2 DEF f
        <3> QED
            BY <1>2, <3>1, <3>2, <3>3 DEF ParsedPlace
    <2>3. CASE ~IsSeparator(text, t) /\ f = L
        BY <1>2, <2>3 DEF ParsedPlace, f
    <2>4. CASE ~IsSeparator(text, t) /\ f # L
        <3>1. f > t /\ IsSeparator(text, f) /\ f - 1 \in t..(f - 1) /\ f < L
            BY <1>1, <1>2, <2>4 DEF IsToken
        <3>2. ~IsSeparator(text, f - 1)
            BY <1>1, <2>4, <3>1 DEF IsToken
        <3>3. next = f + 1 /\ (f + 1) - 1 = f /\ (f + 1) - 2 = f - 1 /\ f + 1 \in 1..L
            BY <1>2, <2>4, <3>1 DEF f
        <3> QED
            BY <1>2, <3>1, <3>2, <3>3 DEF ParsedPlace
    <2> QED
        BY <2>1, <2>2, <2>3, <2>4
<1>4. ASSUME NEW s \in TokenStarts(text)
      PROVE  ReadAt(text, s) < next <=> s < t \/ s = t
    <2> DEFINE e == TokenEnd(text, s)
    <2>1. IsToken(text, s, e)
        BY TokenIs
    <2>2. /\ s < t => e <= t /\ e < f
          /\ t < s => f <= s /\ f < e
        BY <1>2, TokensApart DEF f
    <2>3. s = t => e = f
        BY DEF f
    <2> HIDE DEF e
    <2>4. /\ s \in 0..L /\ e \in s..L
          /\ IsSeparator(text, s) => e >= s + 2
          /\ ~IsSeparator(text, s) => e > s \/ s = L
        BY <2>1 DEF IsToken
    <2>5. /\ IsSeparator(text, t) => f >= t + 2
          /\ ~IsSeparator(text, t) => f > t \/ t = L
        BY <1>1 DEF IsToken
    <2>6. /\ IsSeparator(text, s) => ReadAt(text, s) = s + 1
          /\ ~IsSeparator(text, s) => ReadAt(text, s) = s
        BY <2>4 DEF ReadAt
    <2>7. /\ next = f \/ next = f + 1
          /\ ~IsSeparator(text, t) => next = f + 1
        BY <1>2 DEF f
    <2>8. ASSUME s < t \/ s = t PROVE ReadAt(text, s) < next
        <3>1. CASE s < t
            <4>1. ReadAt(text, s) \in {s, s + 1}
                BY <2>4, <2>6
            <4>2. next > t
                BY <1>2, <2>5, <2>7
            <4> QED
                BY <1>2, <2>4, <2>7, <3>1, <4>1, <4>2
        <3>2. CASE s = t
            <4>1. CASE IsSeparator(text, t)
                <5>1. ReadAt(text, s) = t + 1 /\ f >= t + 2
                    BY <2>5, <2>6, <3>2, <4>1
                <5> QED
                    BY <1>2, <2>7, <5>1
            <4>2. CASE ~IsSeparator(text, t)
                <5>1. ReadAt(text, s) = t /\ next = f + 1
                    BY <2>6, <2>7, <3>2, <4>2
                <5> QED
                    BY <1>2, <5>1
            <4> QED
                BY <4>1, <4>2
        <3> QED
            BY <2>8, <3>1, <3>2
    <2>9. ASSUME t < s PROVE ~(ReadAt(text, s) < next)
        <3>1. f <= s /\ f < e
            BY <2>2, <2>9
        <3>2. CASE IsSeparator(text, s)
            BY <1>2, <2>4, <2>6, <2>7, <3>1, <3>2
        <3>3. CASE ~IsSeparator(text, s)
            <4>1. ReadAt(text, s) = s
                BY <2>6, <3>3
            <4>2. CASE IsSeparator(text, t)
                <5>1. f < L /\ f # L
                    BY <1>2, <2>4, <3>1
                <5>2. next = f
                    BY <4>2, <5>1 DEF f
                <5> QED
                    BY <1>2, <2>4, <3>1, <4>1, <5>2
            <4>3. CASE ~IsSeparator(text, t)
                <5>1. f # L
                    BY <1>2, <2>4, <3>1
                <5>2. IsSeparator(text, f)
                    BY <1>1, <4>3, <5>1 DEF IsToken
                <5>3. s # f
                    BY <3>3, <5>2
                <5> QED
                    BY <1>2, <2>4, <2>7, <3>1, <4>1, <5>3
            <4> QED
                BY <4>2, <4>3
        <3> QED
            BY <3>2, <3>3
    <2>10. s < t \/ s = t \/ t < s
        BY <1>2, <2>4
    <2> QED
        BY <1>2, <2>4, <2>8, <2>9, <2>10
<1> QED
    BY <1>3, <1>4

(***************************************************************************)
(* The token a position stands for, in each way of matching.               *)
(***************************************************************************)

\* What prepareParts stores of the token that starts at a place.
PreparedToken(text, start) ==
    IF IsSeparator(text, start) THEN [kind |-> "operator", text |-> <<>>]
    ELSE [kind |-> IF HasOpener(PartText(text, start)) THEN "wildcard" ELSE "literal",
          text |-> PartText(text, start)]

StartOf(k) == InOrder(TokenStarts(pattern))[k]

\* What is stored are the first tokens of the pattern.
PreparedInOrder ==
    \A k \in 1..Len(prepared) : prepared[k] = PreparedToken(pattern, StartOf(k))

\* Where each way may stand in the pattern.
PatternPlace(at) ==
    \/ way = "parsed" /\ ParsedPlace(pattern, at)
    \/ way = "cursors" /\ CursorPlace(pattern, at)
    \/ way = "prepared" /\ at \in 0..Len(prepared)

\* The loop has begun, with all tokens stored if it is to read them there.
LoopMayRun ==
    /\ pattern \in PatternTexts /\ address \in AddressTexts
    /\ way \in {"parsed", "cursors", "prepared"}
    /\ way = "prepared" =>
          /\ IsValidAddress(address)
          /\ PreparedInOrder
          /\ Len(prepared) = Cardinality(TokenStarts(pattern))

\* Where the token at the position starts.
TokenStart ==
    IF way = "parsed" THEN ParsedToken(pattern, patternAt)
    ELSE IF way = "cursors" THEN PartStart(patternAt)
    ELSE StartOf(patternAt + 1)

\* The tokens before one, and the tokens up to it, counted.
LEMMA TokensCounted ==
    ASSUME NEW text, Len(text) \in Nat, NEW t \in TokenStarts(text), NEW C
    PROVE  /\ (\A s : s \in C <=> s \in TokenStarts(text) /\ s < t)
                  => Cardinality(C) = Cardinality(Below(TokenStarts(text), t))
           /\ (\A s : s \in C <=> s \in TokenStarts(text) /\ (s < t \/ s = t))
                  => Cardinality(C) = Cardinality(Below(TokenStarts(text), t)) + 1
<1> DEFINE S == TokenStarts(text)
<1>1. S \in SUBSET Nat /\ IsFiniteSet(S)
    BY StartsFinite
<1>2. \A s : s \in Below(S, t) <=> s \in S /\ s < t
    BY DEF Below
<1>3. t \in S /\ t \notin Below(S, t) /\ Below(S, t) \in SUBSET S
    <2>1. t \in Nat
        BY <1>1
    <2> QED
        BY <2>1, <1>2
<1> HIDE DEF S
<1>4. ASSUME \A s : s \in C <=> s \in S /\ s < t
      PROVE  Cardinality(C) = Cardinality(Below(S, t))
    <2>1. C = Below(S, t)
        BY <1>2, <1>4
    <2> QED
        BY <2>1
<1>5. ASSUME \A s : s \in C <=> s \in S /\ (s < t \/ s = t)
      PROVE  Cardinality(C) = Cardinality(Below(S, t)) + 1
    <2>1. C = Below(S, t) \cup {t}
        BY <1>2, <1>3, <1>5
    <2>2. IsFiniteSet(Below(S, t))
        BY <1>1, <1>3, FS_Subset
    <2> QED
        BY <1>3, <2>1, <2>2, FS_AddElement
<1> QED
    BY <1>4, <1>5 DEF S

\* The tokens before a position, as each way counts them.
LEMMA BeforeIs ==
    ASSUME NEW at, NEW s
    PROVE  /\ way = "parsed" =>
                 (s \in TokensBefore(at) <=>
                     s \in TokenStarts(pattern) /\ ReadAt(pattern, s) < at)
           /\ way = "cursors" =>
                 (s \in TokensBefore(at) <=>
                     s \in TokenStarts(pattern) /\ TokenEnd(pattern, s) <= at)
BY DEF TokensBefore, ReadAt

\* The index of a position is the place in order of the token there.
LEMMA TokenThere ==
    ASSUME LoopMayRun, PatternPlace(patternAt), ~PatternExhausted
    PROVE  /\ TokenStart \in TokenStarts(pattern)
           /\ TokenIndex(patternAt)
                  = Cardinality(Below(TokenStarts(pattern), TokenStart)) + 1
           /\ TokenIndex(patternAt) \in 1..Len(Tokens[pattern])
           /\ Tokens[pattern][TokenIndex(patternAt)] = TokenText(pattern, TokenStart)
           /\ AtOperator <=> IsSeparator(pattern, TokenStart)
<1> DEFINE S == TokenStarts(pattern)
           n == Cardinality(Below(S, TokenStart)) + 1
<1>1. Len(pattern) \in Nat /\ pattern \in PatternTexts
    BY TextsTyped DEF LoopMayRun
<1>2. /\ S \in SUBSET Nat /\ IsFiniteSet(S)
      /\ Cardinality(S) \in Nat
      /\ Len(Tokens[pattern]) = Cardinality(S)
    BY <1>1, StartsFinite, TokensIs
<1>3. /\ TokenStart \in S
      /\ TokenIndex(patternAt) = n
      /\ AtOperator <=> IsSeparator(pattern, TokenStart)
    <2>1. CASE way = "parsed"
        <3>1. ParsedPlace(pattern, patternAt) /\ ~(patternAt > Len(pattern))
            BY <2>1 DEF PatternPlace, PatternExhausted
        <3>2. patternAt <= Len(pattern)
            BY <1>1, <3>1 DEF ParsedPlace
        <3>3. TokenStart = ParsedToken(pattern, patternAt)
            BY <2>1 DEF TokenStart
        <3>4. /\ TokenStart \in S
              /\ IsSeparator(pattern, TokenStart) <=> IsSeparator(pattern, patternAt)
            BY <1>1, <3>1, <3>2, <3>3, ParsedReads
        <3>5. AtOperator <=> IsSeparator(pattern, patternAt)
            BY <2>1, <3>1 DEF AtOperator, PatternExhausted
        <3>6. \A s : s \in TokensBefore(patternAt) <=> s \in S /\ s < TokenStart
            BY <1>1, <2>1, <3>1, <3>2, <3>3, ParsedOrder, BeforeIs
        <3>7. Cardinality(TokensBefore(patternAt)) = Cardinality(Below(S, TokenStart))
            BY <1>1, <3>4, <3>6, TokensCounted
        <3>8. TokenIndex(patternAt) = 1 + Cardinality(TokensBefore(patternAt))
            BY <2>1 DEF TokenIndex
        <3>9. Cardinality(Below(S, TokenStart)) \in 0..(Cardinality(S) - 1)
            BY <1>2, <3>4, InOrderIs
        <3>10. TokenIndex(patternAt) = n
            BY <1>2, <3>7, <3>8, <3>9
        <3> QED
            BY <3>4, <3>5, <3>10
    <2>2. CASE way = "cursors"
        <3>1. /\ CursorPlace(pattern, patternAt) /\ patternAt < Len(pattern)
              /\ patternAt \in 0..Len(pattern)
            BY <1>1, <2>2 DEF PatternPlace, PatternExhausted, CursorPlace
        <3>2. TokenStart = PartStart(patternAt)
            BY <2>2 DEF TokenStart
        <3>3. /\ TokenStart \in S
              /\ ReadsOperator(patternAt) <=> IsSeparator(pattern, TokenStart)
            BY <1>1, <3>1, <3>2, CursorReads
        <3>4. AtOperator <=> ReadsOperator(patternAt)
            BY <1>1, <2>2, <3>1 DEF AtOperator, PatternExhausted
        <3>5. \A s : s \in TokensBefore(patternAt) <=> s \in S /\ s < TokenStart
            BY <1>1, <2>2, <3>1, <3>2, CursorOrder, BeforeIs
        <3>6. Cardinality(TokensBefore(patternAt)) = Cardinality(Below(S, TokenStart))
            BY <1>1, <3>3, <3>5, TokensCounted
        <3>7. TokenIndex(patternAt) = 1 + Cardinality(TokensBefore(patternAt))
            BY <2>2 DEF TokenIndex
        <3>8. Cardinality(Below(S, TokenStart)) \in 0..(Cardinality(S) - 1)
            BY <1>2, <3>3, InOrderIs
        <3>9. TokenIndex(patternAt) = n
            BY <1>2, <3>6, <3>7, <3>8
        <3> QED
            BY <3>3, <3>4, <3>9
    <2>3. CASE way = "prepared"
        <3>1. /\ patternAt \in 0..Len(prepared) /\ patternAt # Len(prepared)
              /\ Len(prepared) = Cardinality(S) /\ PreparedInOrder
            BY <2>3 DEF PatternPlace, PatternExhausted, LoopMayRun
        <3>2. patternAt + 1 \in 1..Cardinality(S)
            BY <1>2, <3>1
        <3>3. TokenStart = InOrder(S)[patternAt + 1]
            BY <2>3 DEF TokenStart, StartOf
        <3>4. /\ TokenStart \in S
              /\ Cardinality(Below(S, TokenStart)) = (patternAt + 1) - 1
            BY <1>2, <3>2, <3>3, InOrderIs
        <3>5. TokenIndex(patternAt) = patternAt + 1
            BY <2>3 DEF TokenIndex
        <3>6. TokenIndex(patternAt) = n
            BY <3>1, <1>2, <3>4, <3>5
        <3>7. prepared[patternAt + 1] = PreparedToken(pattern, TokenStart)
            BY <3>1, <3>2, <3>3 DEF PreparedInOrder, StartOf
        <3>8. prepared[patternAt + 1].kind = "operator" <=> IsSeparator(pattern, TokenStart)
            BY <3>7 DEF PreparedToken
        <3>9. AtOperator <=> prepared[patternAt + 1].kind = "operator"
            BY <2>3, <3>1 DEF AtOperator, PatternExhausted
        <3> QED
            BY <3>4, <3>6, <3>8, <3>9
    <2> QED
        BY <2>1, <2>2, <2>3 DEF LoopMayRun
<1>4. /\ Cardinality(Below(S, TokenStart)) \in 0..(Cardinality(S) - 1)
      /\ InOrder(S)[n] = TokenStart
    BY <1>2, <1>3, InOrderIs
<1>5. n \in 1..Len(Tokens[pattern])
    BY <1>2, <1>4
<1>6. Tokens[pattern][n] = TokenText(pattern, TokenStart)
    BY <1>1, <1>4, <1>5, TokensIs
<1> QED
    BY <1>3, <1>5, <1>6

\* Where the pattern is exhausted, the index is past the last token.
LEMMA TokenPast ==
    ASSUME LoopMayRun, PatternPlace(patternAt), PatternExhausted
    PROVE  TokenIndex(patternAt) = Len(Tokens[pattern]) + 1
<1> DEFINE S == TokenStarts(pattern)
<1>1. Len(pattern) \in Nat /\ pattern \in PatternTexts
    BY TextsTyped DEF LoopMayRun
<1>2. Cardinality(S) \in Nat /\ Len(Tokens[pattern]) = Cardinality(S)
    BY <1>1, StartsFinite, TokensIs
<1>3. ASSUME NEW s \in S
      PROVE  /\ s \in 0..Len(pattern)
             /\ TokenEnd(pattern, s) \in s..Len(pattern)
             /\ ReadAt(pattern, s) \in 0..Len(pattern)
    <2>1. IsToken(pattern, s, TokenEnd(pattern, s))
        BY <1>1, TokenIs
    <2>2. /\ s \in 0..Len(pattern) /\ TokenEnd(pattern, s) \in s..Len(pattern)
          /\ IsSeparator(pattern, s) => TokenEnd(pattern, s) >= s + 2
        BY <2>1 DEF IsToken
    <2>3. ReadAt(pattern, s) \in 0..Len(pattern)
        BY <1>1, <2>2 DEF ReadAt
    <2> QED
        BY <2>2, <2>3
<1>4. CASE way = "parsed"
    <2>1. patternAt = Len(pattern) + 1
        BY <1>1, <1>4 DEF PatternPlace, ParsedPlace, PatternExhausted
    <2>2. \A s : s \in TokensBefore(patternAt) <=> s \in S
        BY <1>1, <1>3, <1>4, <2>1, BeforeIs
    <2>3. TokensBefore(patternAt) = S
        BY <2>2
    <2> QED
        BY <1>2, <1>4, <2>3 DEF TokenIndex
<1>5. CASE way = "cursors"
    <2>1. patternAt = Len(pattern)
        BY <1>1, <1>5 DEF PatternPlace, CursorPlace, PatternExhausted
    <2>2. \A s : s \in TokensBefore(patternAt) <=> s \in S
        BY <1>1, <1>3, <1>5, <2>1, BeforeIs
    <2>3. TokensBefore(patternAt) = S
        BY <2>2
    <2> QED
        BY <1>2, <1>5, <2>3 DEF TokenIndex
<1>6. CASE way = "prepared"
    BY <1>2, <1>6 DEF PatternExhausted, TokenIndex, LoopMayRun
<1> QED
    BY <1>4, <1>5, <1>6 DEF LoopMayRun

\* Behind the token at a position, each way stands at the next.
LEMMA TokenAfter ==
    ASSUME LoopMayRun, PatternPlace(patternAt), ~PatternExhausted, NEW next,
           way = "parsed" =>
               \/ /\ IsSeparator(pattern, TokenStart)
                  /\ next = IF TokenEnd(pattern, TokenStart) = Len(pattern)
                            THEN Len(pattern) + 1 ELSE TokenEnd(pattern, TokenStart)
               \/ /\ ~IsSeparator(pattern, TokenStart)
                  /\ next = TokenEnd(pattern, TokenStart) + 1,
           way = "cursors" => next = NextToken(patternAt),
           way = "prepared" => next = patternAt + 1
    PROVE  PatternPlace(next) /\ TokenIndex(next) = TokenIndex(patternAt) + 1
<1> DEFINE S == TokenStarts(pattern)
           B == Cardinality(Below(S, TokenStart))
<1>1. Len(pattern) \in Nat /\ pattern \in PatternTexts
    BY TextsTyped DEF LoopMayRun
<1>2. /\ S \in SUBSET Nat /\ IsFiniteSet(S)
      /\ TokenStart \in S
      /\ TokenIndex(patternAt) = B + 1
    BY <1>1, StartsFinite, TokenThere
<1>3. B \in Nat
    <2>1. B \in 0..(Cardinality(S) - 1)
        BY <1>2, InOrderIs
    <2> QED
        BY <2>1
<1>4. CASE way = "parsed"
    <2>1. /\ ParsedPlace(pattern, next)
          /\ \A s \in S : ReadAt(pattern, s) < next <=> s < TokenStart \/ s = TokenStart
        BY <1>1, <1>2, <1>4, ParsedMoves
    <2>2. \A s : s \in TokensBefore(next) <=> s \in S /\ (s < TokenStart \/ s = TokenStart)
        BY <1>4, <2>1, BeforeIs
    <2>3. Cardinality(TokensBefore(next)) = B + 1
        BY <1>1, <1>2, <2>2, TokensCounted
    <2>4. TokenIndex(next) = 1 + Cardinality(TokensBefore(next))
        BY <1>4 DEF TokenIndex
    <2>5. TokenIndex(next) = (B + 1) + 1
        BY <1>3, <2>3, <2>4
    <2> QED
        BY <1>2, <1>4, <2>1, <2>5 DEF PatternPlace
<1>5. CASE way = "cursors"
    <2>1. /\ CursorPlace(pattern, patternAt) /\ patternAt < Len(pattern)
        BY <1>1, <1>5 DEF PatternPlace, PatternExhausted, CursorPlace
    <2>2. TokenStart = PartStart(patternAt) /\ next = NextToken(patternAt)
        BY <1>5 DEF TokenStart
    <2>3. CursorPlace(pattern, next)
        BY <1>1, <2>1, <2>2, CursorMoves
    <2>4. \A s : s \in TokensBefore(next) <=> s \in S /\ (s < TokenStart \/ s = TokenStart)
        BY <1>1, <1>5, <2>1, <2>2, CursorOrder, BeforeIs
    <2>5. Cardinality(TokensBefore(next)) = B + 1
        BY <1>1, <1>2, <2>4, TokensCounted
    <2>6. TokenIndex(next) = 1 + Cardinality(TokensBefore(next))
        BY <1>5 DEF TokenIndex
    <2>7. TokenIndex(next) = (B + 1) + 1
        BY <1>3, <2>5, <2>6
    <2> QED
        BY <1>2, <1>5, <2>3, <2>7 DEF PatternPlace
<1>6. CASE way = "prepared"
    <2>1. patternAt \in 0..Len(prepared) /\ patternAt # Len(prepared)
          /\ Len(prepared) = Cardinality(S)
        BY <1>6 DEF PatternPlace, PatternExhausted, LoopMayRun
    <2>2. Cardinality(S) \in Nat
        BY <1>1, StartsFinite
    <2>3. next = patternAt + 1 /\ patternAt + 1 \in 0..Len(prepared)
        BY <1>6, <2>1, <2>2
    <2> QED
        BY <1>6, <2>3 DEF PatternPlace, TokenIndex
<1> QED
    BY <1>4, <1>5, <1>6 DEF LoopMayRun

\* Behind an operator the loop stands at the next token.
LEMMA AfterOperatorIs ==
    ASSUME LoopMayRun, PatternPlace(patternAt), AtOperator
    PROVE  /\ PatternPlace(AfterOperator)
           /\ TokenIndex(AfterOperator) = TokenIndex(patternAt) + 1
<1>1. ~PatternExhausted
    BY DEF AtOperator
<1>2. IsSeparator(pattern, TokenStart)
    BY <1>1, TokenThere
<1>3. Len(pattern) \in Nat
    BY TextsTyped DEF LoopMayRun
<1>4. ASSUME way = "parsed"
      PROVE  AfterOperator = IF TokenEnd(pattern, TokenStart) = Len(pattern)
                             THEN Len(pattern) + 1 ELSE TokenEnd(pattern, TokenStart)
    <2>1. ParsedPlace(pattern, patternAt) /\ ~(patternAt > Len(pattern))
        BY <1>1, <1>4 DEF PatternPlace, PatternExhausted
    <2>2. patternAt <= Len(pattern)
        BY <1>3, <2>1 DEF ParsedPlace
    <2>3. TokenStart = ParsedToken(pattern, patternAt)
        BY <1>4 DEF TokenStart
    <2>4. IsSeparator(pattern, patternAt)
        BY <1>2, <1>3, <2>1, <2>2, <2>3, ParsedReads
    <2>5. /\ TokenStart = patternAt - 1
          /\ RunEnd(pattern, patternAt) = TokenEnd(pattern, patternAt - 1)
        BY <1>3, <2>1, <2>2, <2>3, <2>4, ParsedReads DEF ParsedToken
    <2>6. AfterOperator = ParsedAfterOperator
        BY <1>4 DEF AfterOperator
    <2> QED
        BY <2>5, <2>6 DEF ParsedAfterOperator
<1>5. /\ way = "cursors" => AfterOperator = NextToken(patternAt)
      /\ way = "prepared" => AfterOperator = patternAt + 1
    BY DEF AfterOperator
<1> QED
    BY <1>1, <1>2, <1>4, <1>5, TokenAfter

\* Behind a part whose end it has found the loop stands at the next token.
LEMMA AfterPartIs ==
    ASSUME LoopMayRun, PatternPlace(patternAt), ~PatternExhausted, ~AtOperator,
           way = "parsed" => ParsedPatternEnd = PartEnd(pattern, patternAt)
    PROVE  /\ PatternPlace(PatternAfterPart)
           /\ TokenIndex(PatternAfterPart) = TokenIndex(patternAt) + 1
<1>1. ~IsSeparator(pattern, TokenStart)
    BY TokenThere
<1>2. Len(pattern) \in Nat
    BY TextsTyped DEF LoopMayRun
<1>3. ASSUME way = "parsed"
      PROVE  PatternAfterPart = TokenEnd(pattern, TokenStart) + 1
    <2>1. ParsedPlace(pattern, patternAt) /\ ~(patternAt > Len(pattern))
        BY <1>3 DEF PatternPlace, PatternExhausted
    <2>2. patternAt <= Len(pattern)
        BY <1>2, <2>1 DEF ParsedPlace
    <2>3. TokenStart = ParsedToken(pattern, patternAt)
        BY <1>3 DEF TokenStart
    <2>4. ~IsSeparator(pattern, patternAt)
        BY <1>1, <1>2, <2>1, <2>2, <2>3, ParsedReads
    <2>5. /\ TokenStart = patternAt
          /\ PartEnd(pattern, patternAt) = TokenEnd(pattern, patternAt)
        BY <1>2, <2>1, <2>2, <2>3, <2>4, ParsedReads DEF ParsedToken
    <2> QED
        BY <1>3, <2>5 DEF PatternAfterPart
<1>4. /\ way = "cursors" => PatternAfterPart = NextToken(patternAt)
      /\ way = "prepared" => PatternAfterPart = patternAt + 1
    BY DEF PatternAfterPart
<1> QED
    BY <1>1, <1>3, <1>4, TokenAfter

(***************************************************************************)
(* The parts of an address, one after another.                             *)
(***************************************************************************)

\* A part ends at a separator with the next part behind it, or at the end.
LEMMA NextPart ==
    ASSUME NEW text, Len(text) \in Nat, NEW s \in PartStarts(text)
    PROVE  /\ s \in 1..Len(text)
           /\ PartEnd(text, s) \in s..Len(text)
           /\ PartEnd(text, s) # Len(text) =>
                 /\ PartEnd(text, s) + 1 \in PartStarts(text)
                 /\ IsSeparator(text, PartEnd(text, s))
           /\ \A t \in PartStarts(text) : s < t <=> PartEnd(text, s) < t
<1> DEFINE e == PartEnd(text, s)
<1>1. s \in 1..Len(text) /\ s \in 0..Len(text)
    BY DEF PartStarts
<1>2. /\ e \in s..Len(text)
      /\ \A q \in s..(e - 1) : ~IsSeparator(text, q)
      /\ e = Len(text) \/ IsSeparator(text, e)
    BY <1>1, PartEndIs
<1> HIDE DEF e
<1>3. ASSUME e # Len(text)
      PROVE  e + 1 \in PartStarts(text) /\ IsSeparator(text, e)
    <2>1. e + 1 \in 1..Len(text) /\ (e + 1) - 1 = e
        BY <1>1, <1>2, <1>3
    <2> QED
        BY <1>2, <1>3, <2>1 DEF PartStarts
<1>4. ASSUME NEW t \in PartStarts(text) PROVE s < t <=> e < t
    <2>1. t \in 1..Len(text) /\ IsSeparator(text, t - 1)
        BY DEF PartStarts
    <2>2. ASSUME s < t, ~(e < t) PROVE FALSE
        <3>1. t - 1 \in s..(e - 1)
            BY <1>1, <1>2, <2>1, <2>2
        <3> QED
            BY <1>2, <2>1, <3>1
    <2> QED
        BY <1>1, <1>2, <2>1, <2>2
<1> QED
    BY <1>1, <1>2, <1>3, <1>4 DEF e

\* The first part begins behind the leading slash, each further part behind the
\* separator that ends the one before, and the last reaches the end.
LEMMA PartsFollow ==
    ASSUME NEW text, Len(text) \in Nat, HasLeadingSlash(text)
    PROVE  LET starts == InOrder(PartStarts(text))
               n      == Cardinality(PartStarts(text))
           IN  /\ n \in Nat \ {0}
               /\ starts[1] = 1
               /\ \A k \in 1..(n - 1) :
                     /\ starts[k + 1] = PartEnd(text, starts[k]) + 1
                     /\ IsSeparator(text, PartEnd(text, starts[k]))
               /\ PartEnd(text, starts[n]) = Len(text)
<1> DEFINE S == PartStarts(text)
           starts == InOrder(S)
           n == Cardinality(S)
<1>1. S \in SUBSET Nat /\ IsFiniteSet(S) /\ n \in Nat
    BY StartsFinite
<1>2. /\ starts \in [1..n -> S]
      /\ \A k \in 1..n : Cardinality(Below(S, starts[k])) = k - 1
      /\ \A s \in S : /\ Cardinality(Below(S, s)) \in 0..(n - 1)
                      /\ starts[Cardinality(Below(S, s)) + 1] = s
    BY <1>1, InOrderIs
<1>3. \A k \in 1..n : starts[k] \in S
    BY <1>2
<1>4. 1 \in S
    <2>1. 0 < Len(text) /\ 1 - 1 = 0
        BY SeparatorWithin DEF HasLeadingSlash
    <2>2. 1 \in 1..Len(text)
        BY <2>1
    <2> QED
        BY <2>1, <2>2 DEF PartStarts, HasLeadingSlash
<1>5. \A s \in S : s \in Nat /\ s \in 1..Len(text)
    BY DEF PartStarts
<1>6. n # 0 /\ starts[1] = 1
    <2>1. Below(S, 1) = {}
        BY <1>5 DEF Below
    <2>2. Cardinality(Below(S, 1)) = 0
        BY <2>1, FS_EmptySet
    <2> HIDE DEF S, starts, n
    <2>3. 0 \in 0..(n - 1) /\ starts[0 + 1] = 1
        BY <1>2, <1>4, <2>2
    <2> QED
        BY <1>1, <2>3
<1>7. ASSUME NEW k \in 1..n, PartEnd(text, starts[k]) # Len(text)
      PROVE  /\ k \in 1..(n - 1)
             /\ starts[k + 1] = PartEnd(text, starts[k]) + 1
             /\ IsSeparator(text, PartEnd(text, starts[k]))
    <2> DEFINE s == starts[k]
               next == PartEnd(text, s) + 1
    <2>1. s \in S /\ Cardinality(Below(S, s)) = k - 1
        BY <1>2, <1>3
    <2>2. /\ PartEnd(text, s) \in s..Len(text)
          /\ next \in S /\ IsSeparator(text, PartEnd(text, s))
          /\ \A t \in S : s < t <=> PartEnd(text, s) < t
        BY <1>7, <2>1, NextPart
    <2>3. s \in Nat /\ PartEnd(text, s) \in Nat /\ s < next
        BY <1>5, <2>1, <2>2
    <2>4. \A t \in S : s < t => next <= t
        BY <1>5, <2>2, <2>3
    <2> HIDE DEF S, n, starts, s, next
    <2>5. Cardinality(Below(S, next)) = Cardinality(Below(S, s)) + 1
        BY <1>1, <2>1, <2>2, <2>3, <2>4, NextInOrder
    <2>6. Cardinality(Below(S, next)) = k
        BY <2>1, <2>5
    <2>7. k \in 0..(n - 1) /\ starts[k + 1] = next
        BY <1>2, <2>2, <2>6
    <2> QED
        BY <1>1, <2>2, <2>7 DEF s, next
<1>8. ASSUME NEW k \in 1..(n - 1) PROVE PartEnd(text, starts[k]) # Len(text)
    <2> DEFINE s == starts[k]
               t == starts[k + 1]
    <2>1. k \in 1..n /\ k + 1 \in 1..n
        BY <1>1
    <2>2. /\ s \in S /\ t \in S
          /\ Cardinality(Below(S, s)) = k - 1 /\ Cardinality(Below(S, t)) = (k + 1) - 1
        BY <1>2, <1>3, <2>1
    <2> HIDE DEF S, n, starts, s, t
    <2>3. ~(t < s) /\ t # s
        <3>1. t # s
            BY <1>1, <2>2
        <3>2. ASSUME t < s PROVE FALSE
            <4>1. Cardinality(Below(S, t)) < Cardinality(Below(S, s))
                BY <1>1, <2>2, <3>2, BelowGrows
            <4> QED
                BY <1>1, <2>2, <4>1
        <3> QED
            BY <3>1, <3>2
    <2>4. s < t /\ t \in 1..Len(text)
        BY <1>5, <2>2, <2>3
    <2>5. PartEnd(text, s) < t /\ PartEnd(text, s) \in s..Len(text)
        BY <2>2, <2>4, NextPart DEF S
    <2>6. PartEnd(text, s) # Len(text)
        BY <1>5, <2>2, <2>4, <2>5
    <2> QED
        BY <2>6 DEF s
<1>9. PartEnd(text, starts[n]) = Len(text)
    <2>1. n \in 1..n /\ n \notin 1..(n - 1)
        BY <1>1, <1>6
    <2> QED
        BY <1>7, <2>1
<1>10. \A k \in 1..(n - 1) : k \in 1..n
    BY <1>1
<1> QED
    BY <1>1, <1>6, <1>7, <1>8, <1>9, <1>10

\* Where the parts of an address end.
EndsOf(text) == {i \in 1..Len(text) : i = Len(text) \/ IsSeparator(text, i)}

\* partEndsOf stores where each part of the address ends, in order, so that the
\* parts dispatch cuts from them are the parts of the address.
LEMMA EndsFollow ==
    ASSUME Len(address) \in Nat, HasLeadingSlash(address)
    PROVE  LET starts == InOrder(PartStarts(address))
               n      == Cardinality(PartStarts(address))
           IN  /\ Len(PartEnds) = n
               /\ n <= Len(address)
               /\ \A k \in 1..n : PartEnds[k] = PartEnd(address, starts[k])
               /\ \A at \in 0..(n - 1) :
                     StoredPart(at) = PartText(address, starts[at + 1])
<1> DEFINE S == PartStarts(address)
           E == EndsOf(address)
           starts == InOrder(S)
           n == Cardinality(S)
           L == Len(address)
<1>1. /\ S \in SUBSET Nat /\ IsFiniteSet(S) /\ n \in Nat
      /\ n \in Nat \ {0} /\ starts[1] = 1
      /\ \A k \in 1..(n - 1) : starts[k + 1] = PartEnd(address, starts[k]) + 1
    BY StartsFinite, PartsFollow
<1>2. /\ starts \in [1..n -> S]
      /\ \A k \in 1..n : Cardinality(Below(S, starts[k])) = k - 1
    BY <1>1, InOrderIs
<1>3. \A k \in 1..n : starts[k] \in S
    BY <1>2
<1>4. S \subseteq 1..L /\ 1 \in S /\ L \in Nat
    BY <1>1, <1>3 DEF PartStarts
<1>5. /\ E \in SUBSET Nat /\ IsFiniteSet(E) /\ E \subseteq 1..L /\ L \in E
    <2>1. E \subseteq 1..L /\ E \subseteq 0..L
        BY <1>4 DEF EndsOf
    <2>2. L \in 1..L
        BY <1>4
    <2>3. L \in E
        BY <2>2 DEF EndsOf
    <2> HIDE DEF E
    <2> QED
        BY <1>4, <2>1, <2>3, NumbersFinite
<1>6. PartEnds = InOrder(E)
    BY DEF PartEnds, EndsOf
<1>7. \A e \in E : e # L => e + 1 \in S
    <2> SUFFICES ASSUME NEW e \in E, e # L PROVE e + 1 \in S
        OBVIOUS
    <2>1. e \in 1..L /\ IsSeparator(address, e)
        BY DEF EndsOf
    <2>2. e + 1 \in 1..L /\ (e + 1) - 1 = e
        BY <1>4, <2>1
    <2> QED
        BY <2>1, <2>2 DEF PartStarts
<1>8. \A s \in S : s # 1 => s - 1 \in E /\ s - 1 # L
    <2> SUFFICES ASSUME NEW s \in S, s # 1 PROVE s - 1 \in E /\ s - 1 # L
        OBVIOUS
    <2>1. s \in 1..L /\ IsSeparator(address, s - 1)
        BY DEF PartStarts
    <2>2. s - 1 \in 1..L /\ s - 1 # L
        BY <1>4, <2>1
    <2> QED
        BY <2>1, <2>2 DEF EndsOf
<1>9. ASSUME NEW s \in S
      PROVE  /\ PartEnd(address, s) \in E
             /\ Cardinality(Below(E, PartEnd(address, s))) = Cardinality(Below(S, s))
    <2> DEFINE e == PartEnd(address, s)
               T == (Below(S, s) \cup {s}) \ {1}
               next == [x \in Below(E, e) |-> x + 1]
    <2>1. /\ s \in 1..L /\ e \in s..L
          /\ e # L => IsSeparator(address, e)
          /\ \A t \in S : s < t <=> e < t
        BY <1>4, NextPart
    <2>2. e \in E
        BY <1>4, <2>1 DEF EndsOf
    <2> HIDE DEF e, S, E
    <2>3. \A x : x \in Below(E, e) <=> x \in E /\ x < e
        BY DEF Below
    <2>4. \A x : x \in T <=> x \in S /\ (x < s \/ x = s) /\ x # 1
        BY DEF Below
    <2>5. ASSUME NEW x \in Below(E, e) PROVE x + 1 \in T
        <3>1. x \in E /\ x < e /\ x \in 1..L
            BY <1>5, <2>3
        <3>2. x # L
            BY <1>4, <2>1, <3>1
        <3>3. x + 1 \in S /\ x + 1 \in Nat /\ ~(e < x + 1) /\ x + 1 # 1
            BY <1>4, <1>7, <2>1, <3>1, <3>2
        <3>4. ~(s < x + 1)
            BY <2>1, <3>3
        <3> QED
            BY <2>1, <2>4, <3>3, <3>4
    <2>6. ASSUME NEW t \in T PROVE t - 1 \in Below(E, e) /\ (t - 1) + 1 = t
        <3>1. t \in S /\ (t < s \/ t = s) /\ t # 1 /\ t \in 1..L
            BY <1>4, <2>4
        <3>2. t - 1 \in E /\ t - 1 < e /\ (t - 1) + 1 = t
            BY <1>4, <1>8, <2>1, <3>1
        <3> QED
            BY <2>3, <3>2
    <2>7. \A x \in Below(E, e) : x \in Nat
        BY <1>5, <2>3
    <2> HIDE DEF T
    <2>8. next \in Bijection(Below(E, e), T)
        <3>1. next \in [Below(E, e) -> T]
            BY <2>5
        <3>2. \A x, y \in Below(E, e) : next[x] = next[y] => x = y
            BY <2>7
        <3>3. \A t \in T : \E x \in Below(E, e) : next[x] = t
            BY <2>6
        <3> HIDE DEF next
        <3> QED
            BY <3>1, <3>2, <3>3 DEF Bijection, Injection, Surjection, IsInjective
    <2>9. IsFiniteSet(Below(E, e)) /\ IsFiniteSet(Below(S, s))
          /\ Below(S, s) \in SUBSET S /\ s \notin Below(S, s)
        <3>1. Below(E, e) \in SUBSET E /\ Below(S, s) \in SUBSET S
            BY DEF Below
        <3>2. s \notin Below(S, s)
            BY <1>4 DEF Below
        <3> QED
            BY <1>1, <1>5, <3>1, <3>2, FS_Subset DEF S
    <2>10. Cardinality(Below(E, e)) = Cardinality(T)
        BY <2>8, <2>9, FS_Bijection DEF ExistsBijection
    <2>11. /\ IsFiniteSet(Below(S, s) \cup {s})
           /\ Cardinality(Below(S, s) \cup {s}) = Cardinality(Below(S, s)) + 1
        BY <2>9, FS_AddElement
    <2>12. 1 \in Below(S, s) \cup {s}
        <3>1. 1 < s \/ 1 = s
            BY <2>1
        <3> QED
            BY <1>4, <3>1 DEF Below, S
    <2>13. Cardinality(T) = Cardinality(Below(S, s) \cup {s}) - 1
        BY <2>11, <2>12, FS_RemoveElement DEF T
    <2>14. Cardinality(Below(S, s)) \in Nat
        BY <2>9, FS_CardinalityType
    <2> QED
        BY <2>2, <2>10, <2>11, <2>13, <2>14 DEF e, E, S
<1>10. Cardinality(E) = n
    <2> DEFINE next == [x \in E |-> IF x = L THEN 1 ELSE x + 1]
    <2> HIDE DEF S, E
    <2>1. \A x \in E : x \in 1..L
        BY <1>5
    <2>2. \A x \in E : (IF x = L THEN 1 ELSE x + 1) \in S
        BY <1>4, <1>7
    <2>3. next \in [E -> S]
        BY <2>2
    <2>4. \A x, y \in E : next[x] = next[y] => x = y
        BY <1>4, <2>1
    <2>5. \A s \in S : \E x \in E : next[x] = s
        <3> SUFFICES ASSUME NEW s \in S PROVE \E x \in E : next[x] = s
            OBVIOUS
        <3>1. CASE s = 1
            BY <1>5, <3>1
        <3>2. CASE s # 1
            <4>1. s - 1 \in E /\ s - 1 # L /\ (s - 1) + 1 = s
                BY <1>4, <1>8, <3>2
            <4> QED
                BY <4>1
        <3> QED
            BY <3>1, <3>2
    <2> HIDE DEF next
    <2>6. next \in Bijection(E, S)
        BY <2>3, <2>4, <2>5 DEF Bijection, Injection, Surjection, IsInjective
    <2> QED
        BY <1>5, <2>6, FS_Bijection DEF S, ExistsBijection
<1>11. /\ PartEnds \in [1..n -> E]
       /\ \A e \in E : PartEnds[Cardinality(Below(E, e)) + 1] = e
    <2> HIDE DEF E
    <2> QED
        BY <1>5, <1>6, <1>10, InOrderIs
<1>12. Len(PartEnds) = n
    <2> HIDE DEF E, n
    <2>1. PartEnds \in Seq(E)
        BY <1>1, <1>11, SeqDef
    <2> QED
        BY <1>1, <1>11, <2>1, LenProperties
<1>13. n <= L
    <2>1. IsFiniteSet(1..L) /\ Cardinality(1..L) = L
        <3> HIDE DEF L
        <3>1. 1 \in Int /\ L \in Int
            BY <1>4
        <3>2. /\ IsFiniteSet(1..L)
              /\ Cardinality(1..L) = IF 1 > L THEN 0 ELSE L - 1 + 1
            BY <3>1, FS_Interval
        <3> QED
            BY <1>4, <3>2
    <2> QED
        BY <1>4, <2>1, FS_Subset
<1>14. ASSUME NEW k \in 1..n PROVE PartEnds[k] = PartEnd(address, starts[k])
    <2>1. starts[k] \in S /\ Cardinality(Below(S, starts[k])) = k - 1
        BY <1>2, <1>3
    <2>2. /\ PartEnd(address, starts[k]) \in E
          /\ Cardinality(Below(E, PartEnd(address, starts[k]))) = k - 1
        BY <1>9, <2>1
    <2>3. (k - 1) + 1 = k
        BY <1>1
    <2> HIDE DEF E, S, starts
    <2> QED
        BY <1>11, <2>2, <2>3
<1>15. ASSUME NEW at \in 0..(n - 1)
       PROVE  StoredPart(at) = PartText(address, starts[at + 1])
    <2>1. at + 1 \in 1..n /\ at \in Nat
        BY <1>1
    <2>2. PartEnds[at + 1] = PartEnd(address, starts[at + 1])
        BY <1>14, <2>1
    <2>3. CASE at = 0
        BY <1>1, <2>2, <2>3 DEF StoredPart, PartText
    <2>4. CASE at # 0
        <3>1. at \in 1..(n - 1) /\ at \in 1..n
            BY <1>1, <2>4
        <3>2. starts[at + 1] = PartEnds[at] + 1
            BY <1>1, <1>14, <3>1
        <3> HIDE DEF starts
        <3> QED
            BY <2>2, <2>4, <3>2 DEF StoredPart, PartText
    <2> QED
        BY <2>3, <2>4
<1> QED
    BY <1>12, <1>13, <1>14, <1>15

\* Where each way may stand in the address.
AddressPlace(at) ==
    IF way = "prepared" THEN at \in 0..Len(PartEnds)
    ELSE /\ at \in 1..(Len(address) + 1)
         /\ at = Len(address) + 1 \/ IsSeparator(address, at - 1)

\* Where the part at a position starts.
AddressStart(at) ==
    IF way = "prepared" THEN InOrder(PartStarts(address))[at + 1] ELSE at

\* What a way that reads the stored ends knows of them.
LEMMA StoredEnds ==
    ASSUME LoopMayRun, way = "prepared"
    PROVE  /\ Len(PartEnds) = Cardinality(PartStarts(address))
           /\ Len(PartEnds) \in Nat /\ Len(PartEnds) <= Len(address)
           /\ \A at \in 0..(Len(PartEnds) - 1) :
                 StoredPart(at) = PartText(address, InOrder(PartStarts(address))[at + 1])
<1>1. Len(address) \in Nat /\ HasLeadingSlash(address)
    BY TextsTyped DEF LoopMayRun, IsValidAddress
<1>2. Cardinality(PartStarts(address)) \in Nat
    BY <1>1, StartsFinite
<1> QED
    BY <1>1, <1>2, EndsFollow

\* The index of a position is the place in order of the part there.
LEMMA PartThere ==
    ASSUME LoopMayRun, NEW at, AddressPlace(at), ~AddressExhaustedAt(at)
    PROVE  /\ AddressStart(at) \in PartStarts(address)
           /\ PartIndex(at) = Cardinality(Below(PartStarts(address), AddressStart(at))) + 1
           /\ PartIndex(at) \in 1..Len(AddressParts[address])
           /\ AddressParts[address][PartIndex(at)] = PartText(address, AddressStart(at))
<1> DEFINE S == PartStarts(address)
           s == AddressStart(at)
<1>1. Len(address) \in Nat /\ address \in AddressTexts
    BY TextsTyped DEF LoopMayRun
<1>2. /\ S \in SUBSET Nat /\ IsFiniteSet(S) /\ Cardinality(S) \in Nat
      /\ Len(AddressParts[address]) = Cardinality(S)
    BY <1>1, StartsFinite, PartsIs
<1>3. s \in S /\ PartIndex(at) = Cardinality(Below(S, s)) + 1
    <2>1. CASE way = "prepared"
        <3>1. at \in 0..Cardinality(S) /\ at # Cardinality(S)
            BY <2>1, StoredEnds DEF AddressPlace, AddressExhaustedAt
        <3>2. at + 1 \in 1..Cardinality(S)
            BY <1>2, <3>1
        <3>3. s = InOrder(S)[at + 1] /\ PartIndex(at) = at + 1
            BY <2>1 DEF AddressStart, PartIndex
        <3>4. s \in S /\ Cardinality(Below(S, s)) = (at + 1) - 1
            <4> HIDE DEF S, s
            <4> QED
                BY <1>2, <3>2, <3>3, InOrderIs
        <3> QED
            BY <3>1, <3>3, <3>4, <1>2
    <2>2. CASE way # "prepared"
        <3>1. /\ at \in 1..(Len(address) + 1) /\ ~(at > Len(address))
              /\ at = Len(address) + 1 \/ IsSeparator(address, at - 1)
            BY <2>2 DEF AddressPlace, AddressExhaustedAt
        <3>2. at \in 1..Len(address) /\ IsSeparator(address, at - 1)
            BY <1>1, <3>1
        <3>3. s = at /\ at \in S
            BY <2>2, <3>2 DEF AddressStart, PartStarts
        <3>4. PartIndex(at) = 1 + Cardinality({t \in S : t < at})
            BY <2>2 DEF PartIndex, LoopMayRun
        <3>5. Cardinality(Below(S, at)) \in 0..(Cardinality(S) - 1)
            <4> HIDE DEF S
            <4> QED
                BY <1>2, <3>3, InOrderIs
        <3>6. PartIndex(at) = Cardinality(Below(S, at)) + 1
            BY <1>2, <3>4, <3>5 DEF Below
        <3> QED
            BY <3>3, <3>6
    <2> QED
        BY <2>1, <2>2
<1>4. /\ Cardinality(Below(S, s)) \in 0..(Cardinality(S) - 1)
      /\ InOrder(S)[Cardinality(Below(S, s)) + 1] = s
    <2> HIDE DEF S, s
    <2> QED
        BY <1>2, <1>3, InOrderIs
<1>5. PartIndex(at) \in 1..Len(AddressParts[address])
    BY <1>2, <1>3, <1>4
<1>6. AddressParts[address][PartIndex(at)] = PartText(address, s)
    BY <1>1, <1>3, <1>4, <1>5, PartsIs
<1> QED
    BY <1>3, <1>5, <1>6

\* Where the address is exhausted, the index is past the last part.
LEMMA PartPast ==
    ASSUME LoopMayRun, NEW at, AddressPlace(at), AddressExhaustedAt(at)
    PROVE  PartIndex(at) = Len(AddressParts[address]) + 1
<1> DEFINE S == PartStarts(address)
<1>1. Len(address) \in Nat /\ address \in AddressTexts
    BY TextsTyped DEF LoopMayRun
<1>2. Cardinality(S) \in Nat /\ Len(AddressParts[address]) = Cardinality(S)
    BY <1>1, StartsFinite, PartsIs
<1>3. CASE way = "prepared"
    <2>1. at = Cardinality(S)
        BY <1>3, StoredEnds DEF AddressExhaustedAt
    <2> QED
        BY <1>2, <1>3, <2>1 DEF PartIndex
<1>4. CASE way # "prepared"
    <2>1. at > Len(address) /\ at \in 1..(Len(address) + 1)
        BY <1>4 DEF AddressPlace, AddressExhaustedAt
    <2>2. \A t \in S : t < at
        BY <1>1, <2>1 DEF PartStarts
    <2>3. {t \in S : t < at} = S
        BY <2>2
    <2>4. PartIndex(at) = 1 + Cardinality({t \in S : t < at})
        BY <1>4 DEF PartIndex, LoopMayRun
    <2> HIDE DEF S
    <2>5. PartIndex(at) = 1 + Cardinality(S)
        BY <2>3, <2>4, Zenon
    <2> QED
        BY <1>2, <2>5
<1> QED
    BY <1>3, <1>4

\* Behind a part of the address the loop stands at the next.
LEMMA PartAfter ==
    ASSUME LoopMayRun, NEW at, AddressPlace(at), ~AddressExhaustedAt(at)
    PROVE  /\ AddressPlace(AddressAfterPart(at))
           /\ PartIndex(AddressAfterPart(at)) = PartIndex(at) + 1
<1>1. Len(address) \in Nat
    BY TextsTyped DEF LoopMayRun
<1>2. CASE way = "prepared"
    <2>1. /\ at \in 0..Len(PartEnds) /\ at # Len(PartEnds) /\ Len(PartEnds) \in Nat
        BY <1>2, StoredEnds DEF AddressPlace, AddressExhaustedAt
    <2>2. AddressAfterPart(at) = at + 1 /\ at + 1 \in 0..Len(PartEnds)
        BY <1>2, <2>1 DEF AddressAfterPart
    <2> QED
        BY <1>2, <2>2 DEF AddressPlace, PartIndex
<1>3. CASE way # "prepared"
    <2> DEFINE S == PartStarts(address)
               e == PartEnd(address, at)
    <2>1. at \in S /\ PartIndex(at) = Cardinality(Below(S, at)) + 1
        BY <1>3, PartThere DEF AddressStart
    <2>2. /\ at \in 1..Len(address) /\ e \in at..Len(address)
          /\ e # Len(address) => IsSeparator(address, e)
          /\ \A t \in S : at < t <=> e < t
        BY <1>1, <2>1, NextPart
    <2>3. AddressAfterPart(at) = e + 1
        BY <1>3 DEF AddressAfterPart
    <2> HIDE DEF e
    <2>4. AddressPlace(e + 1)
        <3>1. (e + 1) - 1 = e /\ e + 1 \in 1..(Len(address) + 1)
            BY <1>1, <2>2
        <3> QED
            BY <1>3, <2>2, <3>1 DEF AddressPlace
    <2>5. /\ S \in SUBSET Nat /\ IsFiniteSet(S)
        BY <1>1, StartsFinite
    <2>6. \A t \in S : t < e + 1 <=> t < at \/ t = at
        BY <2>2, <2>5
    <2>7. {t \in S : t < e + 1} = Below(S, at) \cup {at}
        BY <2>1, <2>6 DEF Below
    <2>8. Below(S, at) \in SUBSET S /\ at \notin Below(S, at)
        BY <2>2 DEF Below
    <2> HIDE DEF S
    <2>9. IsFiniteSet(Below(S, at)) /\ Cardinality(Below(S, at)) \in Nat
        BY <2>5, <2>8, FS_Subset, FS_CardinalityType
    <2>10. Cardinality({t \in S : t < e + 1}) = Cardinality(Below(S, at)) + 1
        BY <2>7, <2>8, <2>9, FS_AddElement
    <2>11. PartIndex(e + 1) = 1 + Cardinality({t \in S : t < e + 1})
        BY <1>3 DEF PartIndex, LoopMayRun, S
    <2>12. PartIndex(e + 1) = (Cardinality(Below(S, at)) + 1) + 1
        BY <2>9, <2>10, <2>11
    <2> QED
        BY <2>1, <2>3, <2>4, <2>12
<1> QED
    BY <1>2, <1>3

(***************************************************************************)
(* Which texts the tokens of a part match.                                 *)
(***************************************************************************)

\* The lengths of the prefixes matched with one token more.
ReachAfter(token, text, lengths) ==
    IF token = anyBytes
    THEN {j \in 0..Len(text) : \E k \in lengths : k <= j}
    ELSE {j \in 1..Len(text) : text[j] = token /\ j - 1 \in lengths}

\* The recursive function of Denotes exists.
LEMMA DenotesIs ==
    ASSUME NEW part, NEW text, Len(part) \in Nat, Len(text) \in Nat
    PROVE  \E reach :
              /\ reach[0] = {0}
              /\ \A i \in 1..Len(part) :
                    reach[i] = ReachAfter(part[i], text, reach[i - 1])
              /\ Denotes(part, text) <=> Len(text) \in reach[Len(part)]
<1> DEFINE n == Len(part)
           S == SUBSET (0..Len(text))
           next == [i \in 1..n |-> [r \in S |-> ReachAfter(part[i], text, r)]]
           reach == CHOOSE g : g = [i \in 0..n |->
                        IF i = 0 THEN {0}
                        ELSE IF part[i] = anyBytes
                        THEN {j \in 0..Len(text) : \E k \in g[i - 1] : k <= j}
                        ELSE {j \in 1..Len(text) :
                                 text[j] = part[i] /\ j - 1 \in g[i - 1]}]
<1>1. \A i \in 1..n, r \in S : ReachAfter(part[i], text, r) \in S
    BY DEF ReachAfter
<1>2. n \in Nat /\ {0} \in S
    OBVIOUS
<1> HIDE DEF n
<1>3. reach = [i \in 0..n |->
                  IF i = 0 THEN {0}
                  ELSE IF part[i] = anyBytes
                  THEN {j \in 0..Len(text) : \E k \in reach[i - 1] : k <= j}
                  ELSE {j \in 1..Len(text) : text[j] = part[i] /\ j - 1 \in reach[i - 1]}]
    <2> HIDE DEF S, reach
    <2>1. StepsWithin(next, S, n)
        BY <1>1 DEF StepsWithin
    <2> HIDE DEF next
    <2>2. PICK f : FollowsSteps(f, {0}, next, S, n)
        BY <1>2, <2>1, Recursion
    <2>3. /\ f \in [0..n -> S] /\ f[0] = {0}
          /\ \A i \in 1..n : f[i] = next[i][f[i - 1]]
        BY <2>2 DEF FollowsSteps
    <2>4. \A i \in 1..n : f[i - 1] \in S
        BY <1>2, <2>3
    <2>5. \A i \in 1..n : f[i] = ReachAfter(part[i], text, f[i - 1])
        BY <2>3, <2>4 DEF next
    <2>6. f = [i \in 0..n |->
                  IF i = 0 THEN {0}
                  ELSE IF part[i] = anyBytes
                  THEN {j \in 0..Len(text) : \E k \in f[i - 1] : k <= j}
                  ELSE {j \in 1..Len(text) : text[j] = part[i] /\ j - 1 \in f[i - 1]}]
        <3>1. \A i \in 1..n :
                 f[i] = IF part[i] = anyBytes
                        THEN {j \in 0..Len(text) : \E k \in f[i - 1] : k <= j}
                        ELSE {j \in 1..Len(text) : text[j] = part[i] /\ j - 1 \in f[i - 1]}
            BY <2>5 DEF ReachAfter
        <3>2. \A i \in 0..n : i = 0 \/ i \in 1..n
            BY <1>2
        <3> QED
            BY <2>3, <3>1, <3>2
    <2> QED
        BY <2>6 DEF reach
<1>4. Denotes(part, text) <=> Len(text) \in reach[n]
    BY DEF Denotes, n
<1> HIDE DEF reach
<1>5. 0 \in 0..n /\ \A i \in 1..n : i \in 0..n /\ i # 0
    BY <1>2
<1>6. reach[0] = {0} /\ \A i \in 1..n : reach[i] = ReachAfter(part[i], text, reach[i - 1])
    <2>1. reach[0] = {0}
        BY <1>3, <1>5
    <2>2. ASSUME NEW i \in 1..n PROVE reach[i] = ReachAfter(part[i], text, reach[i - 1])
        BY <1>3, <1>5 DEF ReachAfter
    <2> QED
        BY <2>1, <2>2
<1> QED
    BY <1>4, <1>6 DEF n

\* The bytes a part begins with are those its text begins with, and a part with
\* no opener matches no text but itself.
LEMMA LiteralPrefix ==
    ASSUME NEW part, NEW text, Len(part) \in Nat, Len(text) \in Nat,
           NEW m \in 0..Len(part), \A k \in 1..m : part[k] # anyBytes
    PROVE  /\ Denotes(part, text) =>
                 m <= Len(text) /\ \A k \in 1..m : part[k] = text[k]
           /\ m = Len(part) =>
                 (Denotes(part, text) <=>
                     Len(text) = m /\ \A k \in 1..m : part[k] = text[k])
<1>1. PICK reach :
          /\ reach[0] = {0}
          /\ \A i \in 1..Len(part) : reach[i] = ReachAfter(part[i], text, reach[i - 1])
          /\ Denotes(part, text) <=> Len(text) \in reach[Len(part)]
    BY DenotesIs
<1> DEFINE Same(i) == i <= Len(text) /\ \A k \in 1..i : part[k] = text[k]
           Done == {i \in 0..m : reach[i] = IF Same(i) THEN {i} ELSE {}}
           Kept == {i \in m..Len(part) : reach[i] # {} => reach[m] # {}}
<1>0. 0 \in Nat /\ m \in Nat /\ m \in 0..m
    OBVIOUS
<1>2. ASSUME NEW i \in 0..m PROVE reach[i] = IF Same(i) THEN {i} ELSE {}
    <2>1. 0 \in Done
        <3>1. Same(0)
            OBVIOUS
        <3> HIDE DEF Same
        <3> QED
            BY <1>1, <3>1
    <2>2. \A j \in 0..(m - 1) : j \in Done => j + 1 \in Done
        <3> SUFFICES ASSUME NEW j \in 0..(m - 1), j \in Done PROVE j + 1 \in Done
            OBVIOUS
        <3>1. j + 1 \in 0..m /\ j + 1 \in 1..m /\ j + 1 \in 1..Len(part) /\ (j + 1) - 1 = j
            OBVIOUS
        <3>2. /\ reach[j + 1] = ReachAfter(part[j + 1], text, reach[j])
              /\ part[j + 1] # anyBytes
            BY <1>1, <3>1
        <3>3. reach[j + 1] = {q \in 1..Len(text) : text[q] = part[j + 1] /\ q - 1 \in reach[j]}
            BY <3>2 DEF ReachAfter
        <3>4. Same(j + 1) <=> Same(j) /\ j + 1 <= Len(text) /\ part[j + 1] = text[j + 1]
            <4>1. \A k : k \in 1..(j + 1) <=> k \in 1..j \/ k = j + 1
                OBVIOUS
            <4> QED
                BY <4>1
        <3>5. reach[j] = IF Same(j) THEN {j} ELSE {}
            OBVIOUS
        <3> HIDE DEF Same, Done
        <3>6. reach[j + 1] = IF Same(j + 1) THEN {j + 1} ELSE {}
            <4>1. \A q \in 1..Len(text) : q - 1 = j <=> q = j + 1
                OBVIOUS
            <4>2. j + 1 <= Len(text) <=> j + 1 \in 1..Len(text)
                OBVIOUS
            <4>3. CASE Same(j + 1)
                BY <3>3, <3>4, <3>5, <4>1, <4>2, <4>3
            <4>4. CASE ~Same(j + 1)
                BY <3>3, <3>4, <3>5, <4>1, <4>2, <4>4
            <4> QED
                BY <4>3, <4>4
        <3> QED
            BY <3>1, <3>6 DEF Done
    <2> HIDE DEF Same, Done
    <2>3. 0..m \subseteq Done
        BY <1>0, <2>1, <2>2, Induction
    <2> QED
        BY <2>3 DEF Done
<1>3. reach[Len(part)] # {} => reach[m] # {}
    <2>1. m \in Kept
        OBVIOUS
    <2>2. \A j \in m..(Len(part) - 1) : j \in Kept => j + 1 \in Kept
        <3> SUFFICES ASSUME NEW j \in m..(Len(part) - 1), j \in Kept,
                            reach[j + 1] # {}
                     PROVE  j + 1 \in Kept
            OBVIOUS
        <3>1. j + 1 \in m..Len(part) /\ j + 1 \in 1..Len(part) /\ (j + 1) - 1 = j
            OBVIOUS
        <3>2. reach[j + 1] = ReachAfter(part[j + 1], text, reach[j])
            BY <1>1, <3>1
        <3>3. reach[j] # {}
            BY <3>2 DEF ReachAfter
        <3> QED
            BY <3>1, <3>3
    <2> HIDE DEF Kept
    <2>3. m..Len(part) \subseteq Kept
        BY <1>0, <2>1, <2>2, Induction
    <2> QED
        BY <2>3 DEF Kept
<1> HIDE DEF Same, Kept, Done
<1>4. reach[m] = IF Same(m) THEN {m} ELSE {}
    BY <1>0, <1>2
<1>5. Denotes(part, text) => Same(m)
    BY <1>1, <1>3, <1>4
<1>6. m = Len(part) => (Denotes(part, text) <=> Len(text) = m /\ Same(m))
    BY <1>1, <1>4
<1> QED
    BY <1>5, <1>6 DEF Same

\* The byte at a place counts as a separator past the end of the text.
LEMMA ByteIs ==
    ASSUME NEW text, Len(text) \in Nat, NEW at \in Nat
    PROVE  /\ ByteOrSeparator(text, at) # partSeparator =>
                 /\ at < Len(text) /\ ~IsSeparator(text, at)
                 /\ ByteOrSeparator(text, at) = text[at + 1]
           /\ ByteOrSeparator(text, at) = partSeparator =>
                 at >= Len(text) \/ IsSeparator(text, at)
BY DEF ByteOrSeparator, IsSeparator

\* Where the comparison of bytes stops, and what lies before.
LEMMA NumEqualIs ==
    ASSUME Len(pattern) \in Nat, Len(address) \in Nat,
           patternAt \in 0..Len(pattern), addressAt \in 0..Len(address)
    PROVE  /\ NumEqual \in 0..(Len(pattern) - patternAt)
           /\ \/ IsOpener(ByteOrSeparator(pattern, patternAt + NumEqual))
              \/ ByteOrSeparator(pattern, patternAt + NumEqual) = partSeparator
              \/ ByteOrSeparator(pattern, patternAt + NumEqual)
                     # ByteOrSeparator(address, addressAt + NumEqual)
           /\ \A k \in 0..(NumEqual - 1) :
                 /\ patternAt + k < Len(pattern) /\ addressAt + k < Len(address)
                 /\ ~IsSeparator(pattern, patternAt + k)
                 /\ ~IsSeparator(address, addressAt + k)
                 /\ pattern[(patternAt + k) + 1] = address[(addressAt + k) + 1]
                 /\ pattern[(patternAt + k) + 1] # anyBytes
<1> DEFINE P(n) == ByteOrSeparator(pattern, patternAt + n)
           A(n) == ByteOrSeparator(address, addressAt + n)
           Stops(n) == IsOpener(P(n)) \/ P(n) = partSeparator \/ P(n) # A(n)
           last == Len(pattern) - patternAt
           S == {n \in 0..last : Stops(n)}
<1>1. NumEqual = Min(S)
    BY DEF NumEqual
<1>2. S \subseteq Nat /\ last \in Nat
    OBVIOUS
<1>3. last \in S
    <2>1. ~(patternAt + last < Len(pattern))
        OBVIOUS
    <2>2. P(last) = partSeparator
        BY <2>1 DEF ByteOrSeparator
    <2> HIDE DEF P, A, last
    <2> QED
        BY <1>2, <2>2
<1>4. Min(S) \in S /\ \A n \in S : Min(S) <= n
    <2> HIDE DEF S
    <2> QED
        BY <1>2, <1>3, LeastOf
<1> DEFINE num == Min(S)
<1>5. num \in 0..last /\ Stops(num)
    BY <1>4
<1>6. \A k \in 0..(num - 1) : k \in Nat /\ ~Stops(k)
    <2> SUFFICES ASSUME NEW k \in 0..(num - 1) PROVE k \in Nat /\ ~Stops(k)
        OBVIOUS
    <2> HIDE DEF Stops, last, num
    <2>1. k \in 0..last /\ k \in Nat /\ ~(num <= k)
        BY <1>2, <1>5
    <2>2. k \notin S
        BY <1>4, <2>1 DEF num
    <2> QED
        BY <2>1, <2>2
<1> HIDE DEF num, S
<1>7. ASSUME NEW k \in 0..(num - 1)
      PROVE  /\ patternAt + k < Len(pattern) /\ addressAt + k < Len(address)
             /\ ~IsSeparator(pattern, patternAt + k)
             /\ ~IsSeparator(address, addressAt + k)
             /\ pattern[(patternAt + k) + 1] = address[(addressAt + k) + 1]
             /\ pattern[(patternAt + k) + 1] # anyBytes
    <2>1. /\ k \in Nat /\ ~IsOpener(P(k)) /\ P(k) # partSeparator /\ P(k) = A(k)
        BY <1>6
    <2>2. patternAt + k \in Nat /\ addressAt + k \in Nat
        BY <2>1
    <2>3. /\ patternAt + k < Len(pattern) /\ ~IsSeparator(pattern, patternAt + k)
          /\ P(k) = pattern[(patternAt + k) + 1]
        BY <2>1, <2>2, ByteIs
    <2>4. /\ addressAt + k < Len(address) /\ ~IsSeparator(address, addressAt + k)
          /\ A(k) = address[(addressAt + k) + 1]
        BY <2>1, <2>2, ByteIs
    <2>5. P(k) # anyBytes
        BY <2>1 DEF IsOpener
    <2> HIDE DEF P, A
    <2> QED
        BY <2>1, <2>3, <2>4, <2>5
<1> QED
    BY <1>1, <1>5, <1>7 DEF num

\* The bytes of a part are those between its start and its end.
LEMMA PartTextIs ==
    ASSUME NEW B, NEW text \in Seq(B \cup {partSeparator}), NEW from \in 0..Len(text)
    PROVE  /\ PartText(text, from) \in Seq(B)
           /\ Len(PartText(text, from)) = PartEnd(text, from) - from
           /\ \A k \in 1..Len(PartText(text, from)) :
                 PartText(text, from)[k] = text[from + k]
<1>1. Len(text) \in Nat
    BY LenProperties
<1>2. /\ PartEnd(text, from) \in from..Len(text)
      /\ \A q \in from..(PartEnd(text, from) - 1) : ~IsSeparator(text, q)
    BY <1>1, PartEndIs
<1> QED
    BY <1>1, <1>2, BytesBetween DEF PartText

\* With no separator on the way, the end of the part is found from further on.
LEMMA PartEndFurther ==
    ASSUME NEW text, Len(text) \in Nat, NEW from \in 0..Len(text),
           NEW mid \in from..Len(text),
           \A q \in from..(mid - 1) : ~IsSeparator(text, q)
    PROVE  PartEnd(text, mid) = PartEnd(text, from) /\ mid <= PartEnd(text, from)
<1> DEFINE e == PartEnd(text, mid)
<1>1. mid \in 0..Len(text)
    OBVIOUS
<1>2. /\ e \in mid..Len(text)
      /\ \A q \in mid..(e - 1) : ~IsSeparator(text, q)
      /\ e = Len(text) \/ IsSeparator(text, e)
    BY <1>1, PartEndIs
<1> HIDE DEF e
<1>3. e \in from..Len(text)
    BY <1>2
<1>4. ASSUME NEW q \in from..(e - 1) PROVE ~IsSeparator(text, q)
    <2>1. q \in from..(mid - 1) \/ q \in mid..(e - 1)
        BY <1>2
    <2> QED
        BY <1>2, <2>1
<1>5. PartEnd(text, from) = e
    BY <1>2, <1>3, <1>4, PartEndAt
<1> QED
    BY <1>2, <1>5 DEF e

\* matchPartAt compares the two parts it stands at, and if they match it leaves
\* both positions at their ends.
LEMMA MatchPartAtIs ==
    ASSUME pattern \in PatternTexts, address \in AddressTexts,
           patternAt \in 0..Len(pattern), addressAt \in 0..Len(address)
    PROVE  /\ MatchPartAt <=> MatchPart(PartText(pattern, patternAt),
                                        PartText(address, addressAt))
           /\ MatchPartAt => /\ ParsedPatternEnd = PartEnd(pattern, patternAt)
                             /\ ParsedAddressEnd = PartEnd(address, addressAt)
<1> DEFINE n == NumEqual
           P == PartText(pattern, patternAt)
           A == PartText(address, addressAt)
           pe == PartEnd(pattern, patternAt)
           ae == PartEnd(address, addressAt)
           bP == ByteOrSeparator(pattern, patternAt + n)
           bA == ByteOrSeparator(address, addressAt + n)
<1>1. /\ Len(pattern) \in Nat /\ Len(address) \in Nat
      /\ pattern \in Seq(WildBytes \cup {partSeparator})
      /\ address \in Seq(PlainBytes \cup {partSeparator})
    BY TextsTyped
<1>2. /\ n \in 0..(Len(pattern) - patternAt)
      /\ IsOpener(bP) \/ bP = partSeparator \/ bP # bA
      /\ \A k \in 0..(n - 1) :
            /\ patternAt + k < Len(pattern) /\ addressAt + k < Len(address)
            /\ ~IsSeparator(pattern, patternAt + k)
            /\ ~IsSeparator(address, addressAt + k)
            /\ pattern[(patternAt + k) + 1] = address[(addressAt + k) + 1]
            /\ pattern[(patternAt + k) + 1] # anyBytes
    BY <1>1, NumEqualIs
<1>3. /\ Len(P) = pe - patternAt /\ \A k \in 1..Len(P) : P[k] = pattern[patternAt + k]
      /\ pe \in patternAt..Len(pattern)
      /\ pe = Len(pattern) \/ IsSeparator(pattern, pe)
    BY <1>1, PartTextIs, PartEndIs
<1>4. /\ Len(A) = ae - addressAt /\ \A k \in 1..Len(A) : A[k] = address[addressAt + k]
      /\ ae \in addressAt..Len(address)
      /\ ae = Len(address) \/ IsSeparator(address, ae)
    BY <1>1, PartTextIs, PartEndIs
<1>5. /\ StopsAtOpener <=> IsOpener(bP)
      /\ MatchPartAt <=>
            \/ /\ StopsAtOpener
               /\ MatchPart(Bytes(pattern, patternAt, ParsedPatternEnd),
                            Bytes(address, addressAt, ParsedAddressEnd))
            \/ /\ ~StopsAtOpener /\ bP = partSeparator /\ bA = partSeparator
               /\ n <= kMaxAddressPartLength
      /\ StopsAtOpener => /\ ParsedPatternEnd = PartEnd(pattern, patternAt + n)
                          /\ ParsedAddressEnd = PartEnd(address, addressAt + n)
      /\ ~StopsAtOpener => /\ ParsedPatternEnd = patternAt + n
                           /\ ParsedAddressEnd = addressAt + n
    BY DEF StopsAtOpener, MatchPartAt, ParsedPatternEnd, ParsedAddressEnd
<1>6. /\ bP # partSeparator =>
            /\ patternAt + n < Len(pattern) /\ ~IsSeparator(pattern, patternAt + n)
            /\ bP = pattern[(patternAt + n) + 1]
      /\ bA # partSeparator =>
            /\ addressAt + n < Len(address) /\ ~IsSeparator(address, addressAt + n)
      /\ bP = partSeparator =>
            patternAt + n >= Len(pattern) \/ IsSeparator(pattern, patternAt + n)
      /\ bA = partSeparator =>
            addressAt + n >= Len(address) \/ IsSeparator(address, addressAt + n)
      /\ addressAt + n < Len(address) => bA = address[(addressAt + n) + 1]
    <2>1. patternAt + n \in Nat /\ addressAt + n \in Nat
        BY <1>1, <1>2
    <2>2. addressAt + n < Len(address) => bA = address[(addressAt + n) + 1]
        BY DEF ByteOrSeparator
    <2> HIDE DEF n
    <2> QED
        BY <1>1, <2>1, <2>2, ByteIs
<1> HIDE DEF n, P, A, pe, ae, bP, bA
<1>7. /\ n \in Nat /\ patternAt + n \in patternAt..Len(pattern)
      /\ addressAt + n \in addressAt..Len(address)
    <2>1. n \in Nat /\ patternAt + n \in patternAt..Len(pattern)
        BY <1>1, <1>2
    <2>2. CASE n = 0
        BY <1>1, <2>1, <2>2
    <2>3. CASE n # 0
        <3>1. n - 1 \in 0..(n - 1)
            BY <2>1, <2>3
        <3>2. addressAt + (n - 1) < Len(address)
            BY <1>2, <3>1
        <3> QED
            BY <1>1, <2>1, <3>2
    <2> QED
        BY <2>2, <2>3
<1>8. /\ \A q \in patternAt..((patternAt + n) - 1) : ~IsSeparator(pattern, q)
      /\ \A q \in addressAt..((addressAt + n) - 1) : ~IsSeparator(address, q)
    <2>1. ASSUME NEW q \in patternAt..((patternAt + n) - 1)
          PROVE  ~IsSeparator(pattern, q)
        <3>1. q - patternAt \in 0..(n - 1) /\ patternAt + (q - patternAt) = q
            BY <1>1, <1>7
        <3> QED
            BY <1>2, <3>1
    <2>2. ASSUME NEW q \in addressAt..((addressAt + n) - 1)
          PROVE  ~IsSeparator(address, q)
        <3>1. q - addressAt \in 0..(n - 1) /\ addressAt + (q - addressAt) = q
            BY <1>1, <1>7
        <3> QED
            BY <1>2, <3>1
    <2> QED
        BY <2>1, <2>2
<1>9. /\ PartEnd(pattern, patternAt + n) = pe /\ patternAt + n <= pe
      /\ PartEnd(address, addressAt + n) = ae /\ addressAt + n <= ae
    BY <1>1, <1>7, <1>8, PartEndFurther DEF pe, ae
<1>10. ASSUME NEW k \in 1..n
       PROVE  P[k] # anyBytes /\ (k <= Len(A) => P[k] = A[k])
    <2>1. /\ k - 1 \in 0..(n - 1) /\ k \in 1..Len(P)
          /\ (patternAt + (k - 1)) + 1 = patternAt + k
          /\ (addressAt + (k - 1)) + 1 = addressAt + k
        BY <1>1, <1>3, <1>7, <1>9
    <2>2. /\ pattern[patternAt + k] = address[addressAt + k]
          /\ pattern[patternAt + k] # anyBytes
        BY <1>2, <2>1
    <2>3. P[k] = pattern[patternAt + k]
        BY <1>3, <2>1
    <2>4. k <= Len(A) => A[k] = address[addressAt + k]
        BY <1>1, <1>4
    <2> QED
        BY <2>2, <2>3, <2>4
<1>11. Len(P) \in Nat /\ Len(A) \in Nat
    BY <1>1, <1>3, <1>4
<1>12. MatchPart(P, A) <=> Len(A) <= kMaxAddressPartLength /\ Denotes(P, A)
    BY DEF MatchPart
<1>13. CASE StopsAtOpener
    <2>1. ParsedPatternEnd = pe /\ ParsedAddressEnd = ae
        BY <1>5, <1>9, <1>13
    <2>2. /\ Bytes(pattern, patternAt, pe) = P
          /\ Bytes(address, addressAt, ae) = A
        BY DEF P, A, pe, ae, PartText
    <2>3. MatchPartAt <=> MatchPart(P, A)
        BY <1>5, <1>13, <2>1, <2>2
    <2> QED
        BY <2>1, <2>3 DEF P, A, pe, ae
<1>14. CASE ~StopsAtOpener /\ bP = partSeparator
    <2>1. pe = patternAt + n
        <3>1. patternAt + n = Len(pattern) \/ IsSeparator(pattern, patternAt + n)
            BY <1>1, <1>6, <1>7, <1>14
        <3> QED
            BY <1>1, <1>7, <1>8, <3>1, PartEndAt DEF pe
    <2>2. Len(P) = n /\ n \in 0..Len(P)
        BY <1>1, <1>3, <1>7, <2>1
    <2>3. Denotes(P, A) <=> Len(A) = n /\ \A k \in 1..n : P[k] = A[k]
        BY <1>10, <1>11, <2>2, LiteralPrefix
    <2>4. Denotes(P, A) <=> Len(A) = n
        <3>1. Len(A) = n => \A k \in 1..n : P[k] = A[k]
            BY <1>7, <1>10
        <3> QED
            BY <2>3, <3>1
    <2>5. bA = partSeparator <=> ae = addressAt + n
        <3>1. ASSUME bA = partSeparator PROVE ae = addressAt + n
            <4>1. addressAt + n = Len(address) \/ IsSeparator(address, addressAt + n)
                BY <1>1, <1>6, <1>7, <3>1
            <4> QED
                BY <1>1, <1>7, <1>8, <4>1, PartEndAt DEF ae
        <3>2. ASSUME bA # partSeparator PROVE ae # addressAt + n
            BY <1>1, <1>4, <1>6, <3>2
        <3> QED
            BY <3>1, <3>2
    <2>6. ae = addressAt + n <=> Len(A) = n
        BY <1>1, <1>4, <1>7
    <2>7. MatchPartAt <=> bA = partSeparator /\ n <= kMaxAddressPartLength
        BY <1>5, <1>14
    <2>8. MatchPartAt <=> MatchPart(P, A)
        BY <1>12, <2>4, <2>5, <2>6, <2>7
    <2>9. MatchPartAt => ParsedPatternEnd = pe /\ ParsedAddressEnd = ae
        BY <1>5, <1>14, <2>1, <2>5, <2>7
    <2> QED
        BY <2>8, <2>9 DEF P, A, pe, ae
<1>15. CASE ~StopsAtOpener /\ bP # partSeparator
    <2>1. ~MatchPartAt
        BY <1>5, <1>15
    <2>2. bP # bA /\ bP # anyBytes /\ bP = pattern[(patternAt + n) + 1]
        BY <1>2, <1>5, <1>6, <1>15 DEF IsOpener
    <2>3. patternAt + n < pe
        BY <1>1, <1>3, <1>6, <1>7, <1>9, <1>15
    <2>4. n + 1 \in 0..Len(P) /\ n + 1 \in 1..Len(P)
          /\ (patternAt + n) + 1 = patternAt + (n + 1)
          /\ (addressAt + n) + 1 = addressAt + (n + 1)
        BY <1>1, <1>3, <1>7, <2>3
    <2>5. P[n + 1] = bP
        BY <1>3, <2>2, <2>4
    <2>6. ASSUME NEW k \in 1..(n + 1) PROVE P[k] # anyBytes
        <3>1. k \in 1..n \/ k = n + 1
            BY <1>7
        <3> QED
            BY <1>10, <2>2, <2>5, <3>1
    <2>7. ASSUME Denotes(P, A) PROVE FALSE
        <3>1. n + 1 <= Len(A) /\ P[n + 1] = A[n + 1]
            <4>1. n + 1 \in 1..(n + 1)
                BY <1>7
            <4> DEFINE m == n + 1
            <4>2. m \in 0..Len(P) /\ \A k \in 1..m : P[k] # anyBytes
                BY <2>4, <2>6
            <4> HIDE DEF m
            <4>3. m <= Len(A) /\ \A k \in 1..m : P[k] = A[k]
                BY <1>11, <2>7, <4>2, LiteralPrefix
            <4> QED
                BY <4>1, <4>3 DEF m
        <3>2. n + 1 \in 1..Len(A) /\ addressAt + n < Len(address)
            BY <1>1, <1>4, <1>7, <3>1
        <3>3. A[n + 1] = bA
            <4>1. bA = address[(addressAt + n) + 1]
                BY <1>6, <3>2
            <4>2. A[n + 1] = address[addressAt + (n + 1)]
                BY <1>4, <3>2
            <4> QED
                BY <2>4, <4>1, <4>2
        <3> QED
            BY <2>2, <2>5, <3>1, <3>3
    <2>8. MatchPartAt <=> MatchPart(P, A)
        BY <1>12, <2>1, <2>7
    <2> QED
        BY <2>1, <2>8 DEF P, A
<1> QED
    BY <1>13, <1>14, <1>15

\* A part that dispatch has stored is compared as matchPart would compare it:
\* no part of a registered address is too long.
LEMMA PreparedMatchesIs ==
    ASSUME pattern \in PatternTexts, address \in AddressTexts, IsValidAddress(address),
           NEW s \in TokenStarts(pattern), ~IsSeparator(pattern, s),
           NEW t \in PartStarts(address)
    PROVE  PreparedMatches(PreparedToken(pattern, s), PartText(address, t))
               <=> MatchPart(PartText(pattern, s), PartText(address, t))
<1> DEFINE P == PartText(pattern, s)
           A == PartText(address, t)
<1>1. /\ Len(pattern) \in Nat /\ Len(address) \in Nat
      /\ pattern \in Seq(WildBytes \cup {partSeparator})
      /\ address \in Seq(PlainBytes \cup {partSeparator})
    BY TextsTyped
<1>2. s \in 0..Len(pattern) /\ t \in 1..Len(address) /\ IsSeparator(address, t - 1)
    BY DEF TokenStarts, PartStarts
<1>3. /\ P \in Seq(WildBytes) /\ A \in Seq(PlainBytes)
      /\ Len(A) = PartEnd(address, t) - t
    <2>1. t \in 0..Len(address)
        BY <1>2
    <2> QED
        BY <1>1, <1>2, <2>1, PartTextIs
<1>4. Len(P) \in Nat /\ Len(A) \in Nat
    BY <1>3, LenProperties
<1>5. Len(A) <= kMaxAddressPartLength
    <2>1. t - 1 \in 0..(Len(address) - 1) /\ (t - 1) + 1 = t
        BY <1>1, <1>2
    <2>2. PartEnd(address, t) - t \in 1..kMaxAddressPartLength
        BY <1>2, <2>1 DEF IsValidAddress
    <2> QED
        BY <1>3, <2>2
<1>6. PreparedToken(pattern, s)
          = [kind |-> IF HasOpener(P) THEN "wildcard" ELSE "literal", text |-> P]
    BY DEF PreparedToken
<1> HIDE DEF P, A
<1>7. CASE HasOpener(P)
    BY <1>6, <1>7 DEF PreparedMatches, P, A
<1>8. CASE ~HasOpener(P)
    <2>1. PreparedMatches(PreparedToken(pattern, s), A) <=> P = A
        BY <1>6, <1>8 DEF PreparedMatches
    <2>2. \A k \in 1..Len(P) : P[k] # anyBytes
        <3>1. DOMAIN P = 1..Len(P)
            BY <1>3, LenProperties
        <3> QED
            BY <1>8, <3>1 DEF HasOpener, IsOpener
    <2>3. Denotes(P, A) <=> Len(A) = Len(P) /\ \A k \in 1..Len(P) : P[k] = A[k]
        <3>1. Len(P) \in 0..Len(P)
            BY <1>4
        <3> QED
            BY <1>4, <2>2, <3>1, LiteralPrefix
    <2>4. ASSUME Len(A) = Len(P), \A k \in 1..Len(P) : P[k] = A[k] PROVE P = A
        <3>1. P \in Seq(WildBytes) /\ A \in Seq(WildBytes)
            <4>1. \A k \in 1..Len(A) : A[k] \in WildBytes
                BY <1>3, ElementOfSeq DEF WildBytes
            <4>2. A \in [1..Len(A) -> WildBytes]
                BY <1>3, <4>1, LenProperties
            <4> QED
                BY <1>3, <1>4, <4>2, SeqDef
        <3> QED
            BY <2>4, <3>1, SeqEqual
    <2>5. Denotes(P, A) <=> P = A
        BY <2>3, <2>4
    <2> QED
        BY <1>5, <2>1, <2>5 DEF MatchPart, P, A
<1> QED
    BY <1>7, <1>8

\* Two parts the loop stands at match as the relation of PartMatching has it.
LEMMA PartsMatchIs ==
    ASSUME LoopMayRun, PatternPlace(patternAt), AddressPlace(addressAt), Comparing
    PROVE  /\ PartsMatch <=>
                 <<Tokens[pattern][TokenIndex(patternAt)],
                   AddressParts[address][PartIndex(addressAt)]>> \in Fits
           /\ PartsMatch /\ way = "parsed" =>
                 /\ ParsedPatternEnd = PartEnd(pattern, patternAt)
                 /\ ParsedAddressEnd = PartEnd(address, addressAt)
<1> DEFINE s == TokenStart
           t == AddressStart(addressAt)
           P == PartText(pattern, s)
           A == PartText(address, t)
<1>1. /\ Len(pattern) \in Nat /\ Len(address) \in Nat
      /\ pattern \in PatternTexts /\ address \in AddressTexts
      /\ pattern \in Seq(WildBytes \cup {partSeparator})
      /\ address \in Seq(PlainBytes \cup {partSeparator})
    BY TextsTyped DEF LoopMayRun
<1>2. ~PatternExhausted /\ ~AtOperator /\ ~AddressExhaustedAt(addressAt)
    BY DEF Comparing
<1>3. /\ s \in TokenStarts(pattern) /\ ~IsSeparator(pattern, s)
      /\ Tokens[pattern][TokenIndex(patternAt)] = TokenText(pattern, s)
    BY <1>2, TokenThere
<1>4. /\ t \in PartStarts(address)
      /\ AddressParts[address][PartIndex(addressAt)] = A
    BY <1>2, PartThere
<1>5. s \in 0..Len(pattern) /\ t \in 0..Len(address)
    BY <1>1, <1>3, <1>4 DEF TokenStarts, PartStarts
<1>6. TokenText(pattern, s) = P
    BY <1>3 DEF TokenText, PartText
<1>7. P \in Seq(WildBytes) /\ A \in Seq(PlainBytes)
    BY <1>1, <1>5, PartTextIs
<1>8. <<P, A>> \in Fits <=> MatchPart(P, A)
    BY <1>7 DEF Fits, WildBytes
<1>9. /\ PartsMatch <=> MatchPart(P, A)
      /\ PartsMatch /\ way = "parsed" =>
            /\ ParsedPatternEnd = PartEnd(pattern, patternAt)
            /\ ParsedAddressEnd = PartEnd(address, addressAt)
    <2>1. CASE way = "parsed"
        <3>1. ParsedPlace(pattern, patternAt) /\ ~(patternAt > Len(pattern))
            BY <1>2, <2>1 DEF PatternPlace, PatternExhausted
        <3>2. patternAt <= Len(pattern)
            BY <1>1, <3>1 DEF ParsedPlace
        <3>3. s = ParsedToken(pattern, patternAt) /\ t = addressAt
            BY <2>1 DEF TokenStart, AddressStart
        <3>4. patternAt \in 0..Len(pattern) /\ s = patternAt
            BY <1>1, <1>3, <3>1, <3>2, <3>3, ParsedReads DEF ParsedToken
        <3>5. addressAt \in 0..Len(address)
            BY <1>5, <3>3
        <3>6. PartsMatch <=> MatchPartAt
            BY <2>1 DEF PartsMatch
        <3> QED
            BY <1>1, <3>3, <3>4, <3>5, <3>6, MatchPartAtIs
    <2>2. CASE way = "cursors"
        <3>1. /\ CursorPlace(pattern, patternAt) /\ patternAt < Len(pattern)
            BY <1>1, <1>2, <2>2 DEF PatternPlace, PatternExhausted, CursorPlace
        <3>2. s = PartStart(patternAt) /\ t = addressAt
            BY <2>2 DEF TokenStart, AddressStart
        <3>3. NextToken(patternAt) = PartEnd(pattern, s)
            BY <1>1, <1>3, <3>1, <3>2, CursorReads DEF TokenEnd
        <3>4. PartRead(patternAt) = P
            BY <3>2, <3>3 DEF PartRead, PartText
        <3>5. PartsMatch <=> MatchPart(PartRead(patternAt), A)
            BY <2>2, <3>2 DEF PartsMatch, PartText
        <3> QED
            BY <2>2, <3>4, <3>5
    <2>3. CASE way = "prepared"
        <3>1. /\ patternAt \in 0..Len(prepared) /\ patternAt # Len(prepared)
              /\ Len(prepared) = Cardinality(TokenStarts(pattern)) /\ PreparedInOrder
              /\ IsValidAddress(address)
            BY <1>2, <2>3 DEF PatternPlace, PatternExhausted, LoopMayRun
        <3>2. patternAt + 1 \in 1..Len(prepared)
            BY <1>1, <3>1, StartsFinite
        <3>3. prepared[patternAt + 1] = PreparedToken(pattern, s)
            BY <2>3, <3>1, <3>2 DEF PreparedInOrder, TokenStart
        <3>4. addressAt \in 0..(Len(PartEnds) - 1)
            BY <1>2, <2>3, StoredEnds DEF AddressPlace, AddressExhaustedAt
        <3>5. StoredPart(addressAt) = A
            BY <2>3, <3>4, StoredEnds DEF AddressStart
        <3>6. PartsMatch <=> PreparedMatches(PreparedToken(pattern, s), A)
            BY <2>3, <3>3, <3>5 DEF PartsMatch
        <3> QED
            BY <1>1, <1>3, <1>4, <2>3, <3>1, <3>6, PreparedMatchesIs
    <2> QED
        BY <2>1, <2>2, <2>3 DEF LoopMayRun
<1> QED
    BY <1>3, <1>4, <1>6, <1>8, <1>9

(***************************************************************************)
(* The loop of PartMatching, with what is proved about it, over the tokens *)
(* of the pattern and the parts of the address.                            *)
(***************************************************************************)
Loop ==
    INSTANCE PartMatching_proofs WITH
        PatternParts        <- Seq(PlainBytes \cup {anyBytes}),
        AddressParts        <- Seq(PlainBytes),
        MaxTokens           <- 0,
        MaxParts            <- 0,
        pattern             <- Tokens[pattern],
        address             <- AddressParts[address],
        patternPart         <- TokenIndex(patternAt),
        addressPart         <- PartIndex(addressAt),
        patternAfterOperator <- TokenIndex(retryPattern),
        addressAtOperator   <- PartIndex(retryAddress)

\* Where the loop stands, and where it would resume.
Standing ==
    /\ LoopMayRun
    /\ PatternPlace(patternAt) /\ AddressPlace(addressAt)
    /\ seenOperator => PatternPlace(retryPattern) /\ AddressPlace(retryAddress)

\* The places the loop may stand at lie within the texts.
LEMMA PlacesWithin ==
    ASSUME LoopMayRun, NEW at
    PROVE  /\ PatternPlace(at) => at \in 0..(Len(pattern) + 1)
           /\ AddressPlace(at) => at \in 0..(Len(address) + 1)
<1>1. Len(pattern) \in Nat /\ Len(address) \in Nat
    BY TextsTyped DEF LoopMayRun
<1>2. ASSUME PatternPlace(at) PROVE at \in 0..(Len(pattern) + 1)
    <2>1. CASE way = "prepared"
        <3>1. at \in 0..Cardinality(TokenStarts(pattern))
            BY <1>2, <2>1 DEF PatternPlace, LoopMayRun
        <3>2. TokenStarts(pattern) \subseteq 0..Len(pattern)
            BY DEF TokenStarts
        <3>3. /\ IsFiniteSet(0..Len(pattern))
              /\ Cardinality(0..Len(pattern)) = Len(pattern) + 1
            <4>1. 0 \in Int /\ Len(pattern) \in Int /\ ~(0 > Len(pattern))
                BY <1>1
            <4>2. /\ IsFiniteSet(0..Len(pattern))
                  /\ Cardinality(0..Len(pattern)) = Len(pattern) - 0 + 1
                BY <4>1, FS_Interval
            <4> QED
                BY <1>1, <4>2
        <3>4. Cardinality(TokenStarts(pattern)) <= Len(pattern) + 1
            BY <3>2, <3>3, FS_Subset
        <3> QED
            BY <1>1, <3>1, <3>4, StartsFinite
    <2>2. CASE way # "prepared"
        BY <1>1, <1>2, <2>2 DEF PatternPlace, ParsedPlace, CursorPlace
    <2> QED
        BY <2>1, <2>2
<1>3. ASSUME AddressPlace(at) PROVE at \in 0..(Len(address) + 1)
    <2>1. CASE way = "prepared"
        BY <1>1, <1>3, <2>1, StoredEnds DEF AddressPlace
    <2>2. CASE way # "prepared"
        BY <1>1, <1>3, <2>2 DEF AddressPlace
    <2> QED
        BY <2>1, <2>2
<1> QED
    BY <1>2, <1>3

\* What the loop asks of its two positions is what PartMatching asks.
LEMMA GuardsAgree ==
    ASSUME Standing
    PROVE  /\ PatternExhausted <=> Loop!PatternExhausted
           /\ AddressExhaustedAt(addressAt) <=> Loop!AddressExhausted
           /\ seenOperator => (AddressExhaustedAt(retryAddress) <=>
                                  PartIndex(retryAddress) > Len(AddressParts[address]))
           /\ AtOperator <=> Loop!AtOperator
           /\ Comparing <=> Loop!Comparing
           /\ Comparing /\ PartsMatch <=> Loop!PartsMatch
<1>1. /\ LoopMayRun /\ PatternPlace(patternAt) /\ AddressPlace(addressAt)
      /\ pattern \in PatternTexts /\ address \in AddressTexts
    BY DEF Standing, LoopMayRun
<1>2. Len(Tokens[pattern]) \in Nat /\ Len(AddressParts[address]) \in Nat
    BY <1>1, TokensIs, PartsIs, LenProperties
<1>3. /\ ~PatternExhausted => TokenIndex(patternAt) \in 1..Len(Tokens[pattern])
      /\ PatternExhausted => TokenIndex(patternAt) = Len(Tokens[pattern]) + 1
    BY <1>1, TokenThere, TokenPast
<1>4. ASSUME NEW at, AddressPlace(at)
      PROVE  AddressExhaustedAt(at) <=> PartIndex(at) > Len(AddressParts[address])
    <2>1. /\ ~AddressExhaustedAt(at) => PartIndex(at) \in 1..Len(AddressParts[address])
          /\ AddressExhaustedAt(at) => PartIndex(at) = Len(AddressParts[address]) + 1
        BY <1>1, <1>4, PartThere, PartPast
    <2> QED
        BY <1>2, <2>1
<1>5. PatternExhausted <=> Loop!PatternExhausted
    BY <1>2, <1>3 DEF Loop!PatternExhausted
<1>6. AddressExhaustedAt(addressAt) <=> Loop!AddressExhausted
    BY <1>1, <1>4 DEF Loop!AddressExhausted
<1>7. seenOperator => (AddressExhaustedAt(retryAddress) <=>
                          PartIndex(retryAddress) > Len(AddressParts[address]))
    BY <1>4 DEF Standing
<1>8. AtOperator <=> Loop!AtOperator
    <2>1. CASE PatternExhausted
        BY <1>5, <2>1 DEF AtOperator, Loop!AtOperator
    <2>2. CASE ~PatternExhausted
        <3>1. /\ TokenStart \in TokenStarts(pattern)
              /\ Tokens[pattern][TokenIndex(patternAt)] = TokenText(pattern, TokenStart)
              /\ AtOperator <=> IsSeparator(pattern, TokenStart)
            BY <1>1, <2>2, TokenThere
        <3>2. AtOperator <=> Tokens[pattern][TokenIndex(patternAt)] = Operator
            BY <1>1, <3>1, TokenTyped
        <3> QED
            BY <1>5, <2>2, <3>2 DEF Loop!AtOperator
    <2> QED
        BY <2>1, <2>2
<1>9. Comparing <=> Loop!Comparing
    BY <1>5, <1>6, <1>8 DEF Comparing, Loop!Comparing
<1>10. Comparing /\ PartsMatch <=> Loop!PartsMatch
    BY <1>1, <1>9, PartsMatchIs DEF Loop!PartsMatch
<1> QED
    BY <1>5, <1>6, <1>7, <1>8, <1>9, <1>10

\* While the texts and the way stay the same, so do the indices of positions.
LEMMA IndicesKept ==
    ASSUME UNCHANGED <<way, texts, prepared>>
    PROVE  /\ TokenIndex(patternAt)' = TokenIndex(patternAt')
           /\ TokenIndex(retryPattern)' = TokenIndex(retryPattern')
           /\ PartIndex(addressAt)' = PartIndex(addressAt')
           /\ PartIndex(retryAddress)' = PartIndex(retryAddress')
           /\ Tokens[pattern]' = Tokens[pattern]
           /\ AddressParts[address]' = AddressParts[address]
<1>1. way' = way /\ pattern' = pattern /\ address' = address
    BY DEF texts
<1>2. \A at : TokensBefore(at)' = TokensBefore(at)
    BY <1>1 DEF TokensBefore
<1> QED
    BY <1>1, <1>2 DEF TokenIndex, PartIndex

\* Likewise for the places the loop may stand at.
LEMMA PlacesKept ==
    ASSUME UNCHANGED <<way, texts, prepared>>
    PROVE  /\ LoopMayRun' <=> LoopMayRun
           /\ PatternPlace(patternAt)' <=> PatternPlace(patternAt')
           /\ PatternPlace(retryPattern)' <=> PatternPlace(retryPattern')
           /\ AddressPlace(addressAt)' <=> AddressPlace(addressAt')
           /\ AddressPlace(retryAddress)' <=> AddressPlace(retryAddress')
<1>1. way' = way /\ pattern' = pattern /\ address' = address /\ prepared' = prepared
    BY DEF texts
<1> QED
    BY <1>1 DEF LoopMayRun, PatternPlace, AddressPlace, PartEnds, PreparedInOrder, StartOf

(***************************************************************************)
(* Each action of the loop is the action of PartMatching.                  *)
(***************************************************************************)

\* An operator is passed as PartMatching passes it.
LEMMA PassOperatorMaps ==
    ASSUME Standing, PassOperator
    PROVE  Loop!PassOperator /\ Standing'
<1>1. /\ result = "running" /\ AtOperator
      /\ patternAt' = AfterOperator /\ retryPattern' = AfterOperator
      /\ retryAddress' = addressAt /\ addressAt' = addressAt
      /\ seenOperator' = TRUE
      /\ UNCHANGED <<way, texts, prepared>> /\ result' = result /\ compared' = compared
    BY DEF PassOperator, Running
<1>2. LoopMayRun /\ PatternPlace(patternAt) /\ AddressPlace(addressAt)
    BY DEF Standing
<1>3. /\ PatternPlace(AfterOperator)
      /\ TokenIndex(AfterOperator) = TokenIndex(patternAt) + 1
    BY <1>1, <1>2, AfterOperatorIs
<1>4. Loop!AtOperator /\ Loop!Looping
    BY <1>1, GuardsAgree DEF Loop!AtOperator, Loop!Looping
<1>5. /\ TokenIndex(patternAt)' = TokenIndex(patternAt) + 1
      /\ TokenIndex(retryPattern)' = TokenIndex(patternAt) + 1
      /\ PartIndex(addressAt)' = PartIndex(addressAt)
      /\ PartIndex(retryAddress)' = PartIndex(addressAt)
      /\ Tokens[pattern]' = Tokens[pattern]
      /\ AddressParts[address]' = AddressParts[address]
    BY <1>1, <1>3, IndicesKept
<1>6. Standing'
    BY <1>1, <1>2, <1>3, PlacesKept DEF Standing
<1>7. Loop!PassOperator
    BY <1>1, <1>4, <1>5 DEF Loop!PassOperator, Loop!texts
<1> QED
    BY <1>6, <1>7

\* The pairs compared are those PartMatching compares.
LEMMA CompareMaps == ASSUME Standing, Compare PROVE Loop!Compare
BY GuardsAgree DEF Compare, Loop!Compare

\* Two parts that match are passed as PartMatching passes them.
LEMMA AdvanceBothMaps ==
    ASSUME Standing, AdvanceBoth
    PROVE  Loop!AdvanceBoth /\ Standing'
<1>1. /\ result = "running" /\ Comparing /\ PartsMatch /\ Compare
      /\ patternAt' = PatternAfterPart
      /\ addressAt' = IF way = "parsed" THEN ParsedAddressEnd + 1
                                        ELSE AddressAfterPart(addressAt)
      /\ retryPattern' = retryPattern /\ retryAddress' = retryAddress
      /\ seenOperator' = seenOperator
      /\ UNCHANGED <<way, texts, prepared>> /\ result' = result
    BY DEF AdvanceBoth, Running
<1>2. LoopMayRun /\ PatternPlace(patternAt) /\ AddressPlace(addressAt)
    BY DEF Standing
<1>3. ~PatternExhausted /\ ~AtOperator /\ ~AddressExhaustedAt(addressAt)
    BY <1>1 DEF Comparing
<1>4. way = "parsed" => /\ ParsedPatternEnd = PartEnd(pattern, patternAt)
                        /\ ParsedAddressEnd = PartEnd(address, addressAt)
    BY <1>1, <1>2, PartsMatchIs
<1>5. /\ PatternPlace(patternAt')
      /\ TokenIndex(patternAt') = TokenIndex(patternAt) + 1
    BY <1>1, <1>2, <1>3, <1>4, AfterPartIs
<1>6. addressAt' = AddressAfterPart(addressAt)
    BY <1>1, <1>4 DEF AddressAfterPart
<1>7. /\ AddressPlace(addressAt')
      /\ PartIndex(addressAt') = PartIndex(addressAt) + 1
    BY <1>2, <1>3, <1>6, PartAfter
<1>8. Loop!PartsMatch /\ Loop!Looping
    BY <1>1, <1>3, GuardsAgree DEF Loop!Looping
<1>9. /\ TokenIndex(patternAt)' = TokenIndex(patternAt) + 1
      /\ TokenIndex(retryPattern)' = TokenIndex(retryPattern)
      /\ PartIndex(addressAt)' = PartIndex(addressAt) + 1
      /\ PartIndex(retryAddress)' = PartIndex(retryAddress)
      /\ Tokens[pattern]' = Tokens[pattern]
      /\ AddressParts[address]' = AddressParts[address]
    BY <1>1, <1>5, <1>7, IndicesKept
<1>10. Standing'
    BY <1>1, <1>2, <1>5, <1>7, PlacesKept DEF Standing
<1>11. Loop!AdvanceBoth
    BY <1>1, <1>8, <1>9, CompareMaps DEF Loop!AdvanceBoth, Loop!texts
<1> QED
    BY <1>10, <1>11

\* The loop is stuck where PartMatching is.
LEMMA StuckMaps ==
    ASSUME Standing, Stuck
    PROVE  Loop!Stuck /\ (NoRetry <=> Loop!NoRetry)
<1>1. /\ result = "running" /\ ~Exhausted /\ ~AtOperator /\ ~(Comparing /\ PartsMatch)
    BY DEF Stuck, Running
<1>2. Loop!Stuck
    BY <1>1, GuardsAgree DEF Exhausted, Loop!Stuck, Loop!Looping
<1>3. NoRetry <=> Loop!NoRetry
    BY GuardsAgree DEF NoRetry, Loop!NoRetry
<1> QED
    BY <1>2, <1>3

\* A retry is one of PartMatching.
LEMMA RetryMaps ==
    ASSUME Standing, Retry
    PROVE  Loop!Retry /\ Standing'
<1>1. /\ Stuck /\ ~NoRetry /\ Compare
      /\ retryAddress' = AddressAfterPart(retryAddress)
      /\ addressAt' = AddressAfterPart(retryAddress)
      /\ patternAt' = retryPattern /\ retryPattern' = retryPattern
      /\ seenOperator' = seenOperator
      /\ UNCHANGED <<way, texts, prepared>> /\ result' = result
    BY DEF Retry
<1>2. seenOperator /\ ~AddressExhaustedAt(retryAddress)
    BY <1>1 DEF NoRetry
<1>3. LoopMayRun /\ PatternPlace(retryPattern) /\ AddressPlace(retryAddress)
    BY <1>2 DEF Standing
<1>4. /\ AddressPlace(AddressAfterPart(retryAddress))
      /\ PartIndex(AddressAfterPart(retryAddress)) = PartIndex(retryAddress) + 1
    BY <1>2, <1>3, PartAfter
<1>5. Loop!Stuck /\ ~Loop!NoRetry /\ Loop!Compare
    BY <1>1, StuckMaps, CompareMaps
<1>6. /\ TokenIndex(patternAt)' = TokenIndex(retryPattern)
      /\ TokenIndex(retryPattern)' = TokenIndex(retryPattern)
      /\ PartIndex(addressAt)' = PartIndex(retryAddress) + 1
      /\ PartIndex(retryAddress)' = PartIndex(retryAddress) + 1
      /\ Tokens[pattern]' = Tokens[pattern]
      /\ AddressParts[address]' = AddressParts[address]
    BY <1>1, <1>4, IndicesKept
<1>7. Standing'
    BY <1>1, <1>3, <1>4, PlacesKept DEF Standing
<1>8. Loop!Retry
    BY <1>1, <1>5, <1>6 DEF Loop!Retry, Loop!texts
<1> QED
    BY <1>7, <1>8

\* Where nothing but the answer changes, the loop stands where it stood.
LEMMA StandingKept ==
    ASSUME UNCHANGED <<way, texts, prepared, positions>>
    PROVE  /\ Standing => Standing'
           /\ TokenIndex(patternAt)' = TokenIndex(patternAt)
           /\ TokenIndex(retryPattern)' = TokenIndex(retryPattern)
           /\ PartIndex(addressAt)' = PartIndex(addressAt)
           /\ PartIndex(retryAddress)' = PartIndex(retryAddress)
           /\ Tokens[pattern]' = Tokens[pattern]
           /\ AddressParts[address]' = AddressParts[address]
           /\ seenOperator' = seenOperator
<1>1. /\ UNCHANGED <<way, texts, prepared>>
      /\ patternAt' = patternAt /\ addressAt' = addressAt
      /\ retryPattern' = retryPattern /\ retryAddress' = retryAddress
      /\ seenOperator' = seenOperator
    BY DEF positions
<1> QED
    BY <1>1, IndicesKept, PlacesKept DEF Standing

\* A failure is one of PartMatching.
LEMMA FailMaps ==
    ASSUME Standing, Fail
    PROVE  Loop!Fail /\ Standing'
<1>1. /\ Stuck /\ NoRetry /\ Compare /\ result' = "no match"
      /\ UNCHANGED <<way, texts, prepared, positions>>
    BY DEF Fail
<1>2. Loop!Stuck /\ Loop!NoRetry /\ Loop!Compare
    BY <1>1, StuckMaps, CompareMaps
<1>3. Loop!Fail
    BY <1>1, <1>2, StandingKept DEF Loop!Fail, Loop!texts, Loop!cursors
<1> QED
    BY <1>1, <1>3, StandingKept

\* A success is one of PartMatching.
LEMMA SucceedMaps ==
    ASSUME Standing, Succeed
    PROVE  Loop!Succeed /\ Standing'
<1>1. /\ result = "running" /\ Exhausted /\ result' = "match" /\ compared' = compared
      /\ UNCHANGED <<way, texts, prepared, positions>>
    BY DEF Succeed, Running
<1>2. Loop!PatternExhausted /\ Loop!AddressExhausted
    BY <1>1, GuardsAgree DEF Exhausted
<1>3. Loop!Succeed
    BY <1>1, <1>2, StandingKept DEF Loop!Succeed, Loop!texts, Loop!cursors
<1> QED
    BY <1>1, <1>3, StandingKept

(***************************************************************************)
(* The tokens prepareParts stores, and where each way begins.              *)
(***************************************************************************)

\* The tokens a cursor at a position has left behind.
TokensRead(at) == {s \in TokenStarts(pattern) : TokenEnd(pattern, s) <= at}

\* While tokens are stored: those stored are the first of the pattern, one for
\* each that the cursor has left behind, and the loop has not begun.
Preparing ==
    /\ HasLeadingSlash(pattern) /\ IsValidAddress(address)
    /\ CursorPlace(pattern, patternAt)
    /\ prepared \in Seq({PreparedToken(pattern, s) : s \in TokenStarts(pattern)})
    /\ PreparedInOrder
    /\ Len(prepared) = Cardinality(TokensRead(patternAt))
    /\ addressAt = 0 /\ retryPattern = 0 /\ retryAddress = 0
    /\ seenOperator = FALSE /\ result = "running" /\ compared = {}

\* Where the loop begins, in each way.
Starts ==
    /\ pattern \in PatternTexts /\ address \in AddressTexts
    /\ retryPattern = 0 /\ retryAddress \in {0, 1}
    /\ seenOperator = FALSE /\ result = "running" /\ compared = {}
    /\ \/ way = "preparing" /\ addressAt = 0 /\ retryAddress = 0
       \/ way = "prepared" /\ patternAt = 0 /\ addressAt = 0 /\ retryAddress = 0
       \/ way = "cursors" /\ patternAt = 0 /\ addressAt = 1
       \/ /\ way = "parsed" /\ addressAt = 1
          /\ \/ patternAt = 0
             \/ patternAt = 1 /\ (pattern = <<>> \/ HasLeadingSlash(pattern))

\* There it is where PartMatching begins.
LEMMA StartsBegins == Starts => Loop!Begins
<1> SUFFICES ASSUME Starts PROVE Loop!Begins
    OBVIOUS
<1>1. /\ pattern \in PatternTexts /\ Len(pattern) \in Nat
      /\ address \in AddressTexts /\ Len(address) \in Nat
    BY TextsTyped DEF Starts
<1>2. Cardinality({}) = 0
    BY FS_EmptySet
<1>3. ASSUME NEW at \in {0, 1}, way \in {"parsed", "cursors"}
      PROVE  PartIndex(at) = 1
    <2>1. {start \in PartStarts(address) : start < at} = {}
        BY <1>1 DEF PartStarts
    <2>2. PartIndex(at) = 1 + Cardinality({start \in PartStarts(address) : start < at})
        BY <1>3 DEF PartIndex
    <2>3. PartIndex(at) = 1 + Cardinality({})
        BY <2>1, <2>2, Zenon
    <2> QED
        BY <1>2, <2>3
<1>4. PartIndex(addressAt) = 1 /\ PartIndex(retryAddress) = 1
    <2>1. CASE way \in {"parsed", "cursors"}
        BY <1>3, <2>1 DEF Starts
    <2>2. CASE way \in {"preparing", "prepared"}
        BY <2>2 DEF Starts, PartIndex
    <2> QED
        BY <2>1, <2>2 DEF Starts
<1>5. ASSUME NEW s \in TokenStarts(pattern)
      PROVE  /\ s \in 0..Len(pattern)
             /\ TokenEnd(pattern, s) \in Nat \ {0}
             /\ pattern # <<>>
             /\ ReadAt(pattern, s) \in Nat
             /\ IsSeparator(pattern, 0) => ReadAt(pattern, s) > 0
    <2>1. IsToken(pattern, s, TokenEnd(pattern, s))
        BY <1>1, TokenIs
    <2>2. /\ s \in 0..Len(pattern) /\ TokenEnd(pattern, s) \in s..Len(pattern)
          /\ IsSeparator(pattern, s) => TokenEnd(pattern, s) >= s + 2
          /\ ~IsSeparator(pattern, s) => TokenEnd(pattern, s) > s \/ s = Len(pattern)
        BY <2>1 DEF IsToken
    <2>3. Len(pattern) # 0
        <3> SUFFICES ASSUME Len(pattern) = 0 PROVE FALSE
            OBVIOUS
        <3>1. s = 0 /\ ~IsSeparator(pattern, s)
            BY <2>2 DEF IsSeparator
        <3> QED
            BY <3>1 DEF TokenStarts, IsOperatorStart, IsPartStart
    <2>4. pattern # <<>>
        BY <2>3
    <2>5. ReadAt(pattern, s) \in {s, s + 1} /\ (IsSeparator(pattern, s) => ReadAt(pattern, s) = s + 1)
        BY <2>2 DEF ReadAt
    <2>6. TokenEnd(pattern, s) \in Nat \ {0}
        BY <1>1, <2>2, <2>3
    <2> QED
        BY <2>2, <2>4, <2>5, <2>6
<1>6. ASSUME NEW at, TokensBefore(at) = {}, way \in {"parsed", "cursors"}
      PROVE  TokenIndex(at) = 1
    <2>1. TokenIndex(at) = 1 + Cardinality({})
        BY <1>6 DEF TokenIndex
    <2> QED
        BY <1>2, <2>1
<1>7. ASSUME way = "cursors" PROVE TokensBefore(0) = {}
    <2>1. \A s : s \notin TokensBefore(0)
        BY <1>5, <1>7, BeforeIs
    <2> QED
        BY <2>1
<1>8. ASSUME way = "parsed" PROVE TokensBefore(0) = {}
    <2>1. \A s : s \notin TokensBefore(0)
        BY <1>5, <1>8, BeforeIs
    <2> QED
        BY <2>1
<1>9. ASSUME way = "parsed", patternAt = 1 PROVE TokensBefore(1) = {}
    <2>1. pattern = <<>> \/ HasLeadingSlash(pattern)
        BY <1>9 DEF Starts
    <2>2. \A s : s \notin TokensBefore(1)
        BY <1>5, <1>9, <2>1, BeforeIs DEF HasLeadingSlash
    <2> QED
        BY <2>2
<1>10. TokenIndex(patternAt) = 1 /\ TokenIndex(retryPattern) = 1
    <2>1. CASE way \in {"preparing", "prepared"}
        BY <2>1 DEF Starts, TokenIndex
    <2>2. CASE way = "cursors"
        BY <1>6, <1>7, <2>2 DEF Starts
    <2>3. CASE way = "parsed"
        BY <1>6, <1>8, <1>9, <2>3 DEF Starts
    <2> QED
        BY <2>1, <2>2, <2>3 DEF Starts
<1> QED
    BY <1>4, <1>10 DEF Starts, Loop!Begins

\* prepareParts stores the token its cursor reads, which is the next.
LEMMA PrepareNextKeeps ==
    ASSUME pattern \in PatternTexts, Preparing, PrepareNext
    PROVE  Preparing'
<1> DEFINE S == TokenStarts(pattern)
           t == PartStart(patternAt)
           Stored == {PreparedToken(pattern, s) : s \in S}
<1>1. /\ Len(pattern) \in Nat
      /\ CursorPlace(pattern, patternAt) /\ patternAt < Len(pattern)
      /\ patternAt' = NextToken(patternAt)
      /\ prepared' = Append(prepared, PreparedPart(patternAt))
      /\ pattern' = pattern /\ address' = address
      /\ addressAt' = addressAt /\ retryPattern' = retryPattern
      /\ retryAddress' = retryAddress /\ seenOperator' = seenOperator
      /\ result' = result /\ compared' = compared
      /\ prepared \in Seq(Stored)
    BY TextsTyped DEF Preparing, PrepareNext, texts
<1>2. /\ t \in S
      /\ ReadsOperator(patternAt) <=> IsSeparator(pattern, t)
      /\ NextToken(patternAt) = TokenEnd(pattern, t)
    BY <1>1, CursorReads
<1>3. CursorPlace(pattern, patternAt')
    BY <1>1, CursorMoves
<1>4. PreparedPart(patternAt) = PreparedToken(pattern, t)
    <2>1. CASE IsSeparator(pattern, t)
        BY <1>2, <2>1 DEF PreparedPart, PreparedToken
    <2>2. CASE ~IsSeparator(pattern, t)
        <3>1. PartRead(patternAt) = PartText(pattern, t)
            BY <1>2, <2>2 DEF PartRead, PartText, TokenEnd
        <3> QED
            BY <1>2, <2>2, <3>1 DEF PreparedPart, PreparedToken
    <2> QED
        BY <2>1, <2>2
<1>5. PreparedToken(pattern, t) \in Stored
    BY <1>2
<1>6. S \in SUBSET Nat /\ IsFiniteSet(S)
    BY <1>1, StartsFinite
<1>7. /\ \A s : s \in TokensRead(patternAt) <=> s \in S /\ s < t
      /\ \A s : s \in TokensRead(patternAt') <=> s \in S /\ (s < t \/ s = t)
    BY <1>1, CursorOrder DEF TokensRead
<1>8. /\ Cardinality(TokensRead(patternAt)) = Cardinality(Below(S, t))
      /\ Cardinality(TokensRead(patternAt')) = Cardinality(Below(S, t)) + 1
    BY <1>1, <1>2, <1>7, TokensCounted
<1>9. Len(prepared) = Cardinality(Below(S, t))
    BY <1>8 DEF Preparing
<1> HIDE DEF Stored, t
<1>10. /\ prepared' \in Seq(Stored) /\ Len(prepared') = Len(prepared) + 1
       /\ Len(prepared) \in Nat
       /\ \A k \in 1..Len(prepared) : prepared'[k] = prepared[k]
       /\ prepared'[Len(prepared) + 1] = PreparedToken(pattern, t)
    BY <1>1, <1>4, <1>5, AppendProperties, LenProperties
<1>11. InOrder(S)[Len(prepared) + 1] = t
    <2> HIDE DEF S
    <2> QED
        BY <1>2, <1>6, <1>9, InOrderIs DEF S
<1>12. \A k \in 1..Len(prepared') : prepared'[k] = PreparedToken(pattern, InOrder(S)[k])
    <2> SUFFICES ASSUME NEW k \in 1..Len(prepared')
                 PROVE  prepared'[k] = PreparedToken(pattern, InOrder(S)[k])
        OBVIOUS
    <2>1. CASE k = Len(prepared) + 1
        BY <1>10, <1>11, <2>1
    <2>2. CASE k # Len(prepared) + 1
        <3>1. k \in 1..Len(prepared)
            BY <1>10, <2>2
        <3> QED
            BY <1>10, <3>1 DEF Preparing, PreparedInOrder, StartOf
    <2> QED
        BY <2>1, <2>2
<1>13. PreparedInOrder'
    BY <1>1, <1>12 DEF PreparedInOrder, StartOf
<1>14. Len(prepared') = Cardinality(TokensRead(patternAt)')
    <2>1. TokensRead(patternAt)' = TokensRead(patternAt')
        BY <1>1 DEF TokensRead
    <2> QED
        BY <1>8, <1>9, <1>10, <2>1
<1>15. prepared' \in Seq({PreparedToken(pattern, s) : s \in TokenStarts(pattern)})'
    BY <1>1, <1>10 DEF Stored
<1> QED
    BY <1>1, <1>3, <1>13, <1>14, <1>15 DEF Preparing

(***************************************************************************)
(* The inductive invariant: the tokens stored are those of the pattern,    *)
(* the loop stands where a token and a part start, and what holds of the   *)
(* loop of PartMatching holds of the tokens and parts it stands at.        *)
(***************************************************************************)
IInv ==
    /\ TypeOK
    /\ way = "preparing" => Preparing
    /\ way # "preparing" /\ HasLeadingSlash(address) => Standing
    /\ HasLeadingSlash(address) => Loop!IInv
    /\ ~HasLeadingSlash(address) => result # "match"

\* It holds at the start.
THEOREM InitIInv == Init => IInv
<1> SUFFICES ASSUME Init PROVE IInv
    OBVIOUS
<1>1. /\ way \in {"preparing", "parsed", "cursors"}
      /\ pattern \in PatternTexts /\ address \in AddressTexts
      /\ way = "preparing" => HasLeadingSlash(pattern) /\ IsValidAddress(address)
      /\ prepared = <<>> /\ patternAt = FirstPatternAt /\ addressAt = FirstAddressAt
      /\ retryPattern = 0 /\ retryAddress = FirstRetryAddress
      /\ seenOperator = FALSE /\ result = "running" /\ compared = {}
    BY DEF Init
<1>2. Len(pattern) \in Nat /\ Len(address) \in Nat
    BY <1>1, TextsTyped
<1>3. /\ way = "parsed" =>
            /\ addressAt = 1 /\ retryAddress = 0
            /\ \/ patternAt = 0 /\ pattern # <<>> /\ ~HasLeadingSlash(pattern)
               \/ patternAt = 1 /\ (pattern = <<>> \/ HasLeadingSlash(pattern))
      /\ way = "cursors" => patternAt = 0 /\ addressAt = 1 /\ retryAddress = 1
      /\ way = "preparing" => patternAt = 0 /\ addressAt = 0 /\ retryAddress = 0
    BY <1>1 DEF FirstPatternAt, FirstAddressAt, FirstRetryAddress
<1>4. HasLeadingSlash(pattern) => Len(pattern) > 0
    BY <1>2, SeparatorWithin DEF HasLeadingSlash
<1>5. HasLeadingSlash(address) => Len(address) > 0
    BY <1>2, SeparatorWithin DEF HasLeadingSlash
<1>6. TypeOK
    <2>1. Len(prepared) <= maxPreparedParts
        <3>1. Len(prepared) = 0 /\ maxPreparedParts \in Nat
            BY <1>1, BytesAssumption
        <3> QED
            BY <3>1
    <2>2. {patternAt, retryPattern} \subseteq 0..(Len(pattern) + 1)
        BY <1>1, <1>2, <1>3
    <2>3. {addressAt, retryAddress} \subseteq 0..(Len(address) + 1)
        BY <1>1, <1>2, <1>3
    <2> QED
        BY <1>1, <2>1, <2>2, <2>3 DEF TypeOK
<1>7. ASSUME way = "preparing" PROVE Preparing
    <2>1. CursorPlace(pattern, patternAt)
        BY <1>2, <1>3, <1>7 DEF CursorPlace
    <2>2. /\ prepared \in Seq({PreparedToken(pattern, s) : s \in TokenStarts(pattern)})
          /\ Len(prepared) = 0
        BY <1>1
    <2>3. PreparedInOrder
        BY <2>2 DEF PreparedInOrder
    <2>4. ASSUME NEW s \in TokensRead(0) PROVE FALSE
        <3>1. s \in TokenStarts(pattern) /\ TokenEnd(pattern, s) <= 0
            BY DEF TokensRead
        <3>2. IsToken(pattern, s, TokenEnd(pattern, s))
            BY <1>2, <3>1, TokenIs
        <3>3. Len(pattern) > 0
            BY <1>1, <1>4, <1>7
        <3> QED
            BY <1>2, <3>1, <3>2, <3>3 DEF IsToken
    <2>5. TokensRead(0) = {}
        BY <2>4
    <2>6. Cardinality(TokensRead(patternAt)) = 0
        BY <1>3, <1>7, <2>5, FS_EmptySet
    <2> QED
        BY <1>1, <1>3, <1>7, <2>1, <2>2, <2>3, <2>6 DEF Preparing
<1>8. ASSUME way # "preparing", HasLeadingSlash(address) PROVE Standing
    <2>1. LoopMayRun
        BY <1>1, <1>8 DEF LoopMayRun
    <2>2. AddressPlace(addressAt)
        <3>1. addressAt = 1 /\ IsSeparator(address, 1 - 1)
            BY <1>1, <1>3, <1>8 DEF HasLeadingSlash
        <3> QED
            BY <1>1, <1>2, <3>1 DEF AddressPlace
    <2>3. PatternPlace(patternAt)
        <3>1. CASE way = "parsed"
            <4>1. pattern # <<>> => Len(pattern) # 0
                BY <1>1, TextsTyped, EmptySeq
            <4>2. pattern = <<>> => Len(pattern) = 0
                OBVIOUS
            <4>3. ParsedPlace(pattern, patternAt)
                <5>1. CASE patternAt = 0
                    BY <1>2, <1>3, <3>1, <4>1, <5>1 DEF ParsedPlace, HasLeadingSlash
                <5>2. CASE patternAt = 1 /\ pattern = <<>>
                    BY <4>2, <5>2 DEF ParsedPlace
                <5>3. CASE patternAt = 1 /\ HasLeadingSlash(pattern)
                    <6>1. 1 \in 1..Len(pattern) /\ IsSeparator(pattern, 1 - 1)
                        BY <1>2, <1>4, <5>3 DEF HasLeadingSlash
                    <6> QED
                        BY <5>3, <6>1 DEF ParsedPlace
                <5> QED
                    BY <1>3, <3>1, <5>1, <5>2, <5>3
            <4> QED
                BY <3>1, <4>3 DEF PatternPlace
        <3>2. CASE way = "cursors"
            BY <1>2, <1>3, <3>2 DEF PatternPlace, CursorPlace
        <3> QED
            BY <1>1, <1>8, <3>1, <3>2
    <2> QED
        BY <1>1, <2>1, <2>2, <2>3 DEF Standing
<1>9. Starts
    BY <1>1, <1>3 DEF Starts
<1>10. Loop!IInv
    <2>1. /\ Tokens[pattern] \in Seq(Seq(WildBytes) \cup {Operator})
          /\ AddressParts[address] \in Seq(Seq(PlainBytes))
        BY <1>1, TokensIs, PartsIs
    <2>2. Loop!Tokens = Seq(WildBytes) \cup {Operator}
        BY DEF Loop!Tokens, WildBytes
    <2> QED
        BY <1>9, <2>1, <2>2, StartsBegins, Loop!BeginsIInv
<1> QED
    BY <1>1, <1>6, <1>7, <1>8, <1>10 DEF IInv

\* Before the loop begins, PartMatching stands where it begins, and stays there.
LEMMA StillBegins ==
    ASSUME Loop!Begins, Loop!Begins', UNCHANGED texts
    PROVE  UNCHANGED Loop!vars
BY DEF Loop!Begins, Loop!vars, Loop!texts, Loop!cursors, texts

\* Before the loop, the state is one where each way begins.
LEMMA PreparingStarts ==
    ASSUME IInv, way = "preparing"
    PROVE  Preparing /\ Starts /\ HasLeadingSlash(address)
BY DEF IInv, TypeOK, Preparing, Starts, IsValidAddress

\* The invariant is kept where the loop has not begun, or has just begun.
LEMMA BeforeLoopIInv ==
    ASSUME IInv, way = "preparing", UNCHANGED texts, TypeOK', Starts',
           way' = "preparing" => Preparing',
           way' # "preparing" => Standing'
    PROVE  IInv' /\ UNCHANGED Loop!vars
<1>1. Starts /\ HasLeadingSlash(address) /\ Loop!IInv
    BY PreparingStarts DEF IInv
<1>2. Loop!Begins
    BY <1>1, StartsBegins
<1>3. Loop!Begins'
    BY StartsBegins, PTL
<1>4. UNCHANGED Loop!vars
    BY <1>2, <1>3, StillBegins
<1>5. Loop!IInv'
    BY <1>1, <1>4, Loop!NextIInv
<1>6. HasLeadingSlash(address)'
    BY <1>1 DEF texts
<1> QED
    BY <1>4, <1>5, <1>6 DEF IInv

\* prepareParts keeps the invariant as it stores a token.
LEMMA PrepareNextIInv ==
    ASSUME IInv, PrepareNext
    PROVE  IInv' /\ UNCHANGED Loop!vars
<1>1. /\ way = "preparing" /\ way' = way /\ patternAt < Len(pattern)
      /\ Len(prepared) < maxPreparedParts
      /\ prepared' = Append(prepared, PreparedPart(patternAt))
      /\ UNCHANGED texts /\ pattern' = pattern /\ address' = address
      /\ addressAt' = addressAt /\ retryPattern' = retryPattern
      /\ retryAddress' = retryAddress /\ seenOperator' = seenOperator
      /\ result' = result /\ compared' = compared
    BY DEF PrepareNext, texts
<1>2. Preparing /\ Starts /\ TypeOK
    BY <1>1, PreparingStarts DEF IInv
<1>3. pattern \in PatternTexts /\ Len(pattern) \in Nat
    BY <1>2, TextsTyped DEF TypeOK
<1>4. Preparing'
    BY <1>2, <1>3, PrepareNextKeeps
<1>5. Starts'
    BY <1>1, <1>2 DEF Starts
<1>6. TypeOK'
    <2>1. patternAt' \in 0..(Len(pattern) + 1)
        <3>1. CursorPlace(pattern, patternAt')
            BY <1>1, <1>4 DEF Preparing
        <3> QED
            BY <1>3, <3>1 DEF CursorPlace
    <2>2. Len(prepared') <= maxPreparedParts
        <3>1. /\ prepared \in Seq({PreparedToken(pattern, s) : s \in TokenStarts(pattern)})
              /\ prepared' \in Seq({PreparedToken(pattern, s) : s \in TokenStarts(pattern)})
            BY <1>1, <1>2, <1>4 DEF Preparing
        <3>2. Len(prepared) \in Nat /\ maxPreparedParts \in Nat
            BY <3>1, LenProperties, BytesAssumption
        <3>3. Len(prepared') = Len(prepared) + 1
            <4>1. prepared \in Seq({PreparedToken(pattern, s) : s \in TokenStarts(pattern)}
                                       \cup {PreparedPart(patternAt)})
                <5>1. \A k \in 1..Len(prepared) : prepared[k] \in
                          {PreparedToken(pattern, s) : s \in TokenStarts(pattern)}
                    BY <3>1, ElementOfSeq
                <5>2. prepared \in [1..Len(prepared) ->
                          {PreparedToken(pattern, s) : s \in TokenStarts(pattern)}
                              \cup {PreparedPart(patternAt)}]
                    BY <3>1, <5>1, LenProperties
                <5> QED
                    BY <3>2, <5>2, SeqDef
            <4> QED
                BY <1>1, <4>1, AppendProperties
        <3> QED
            BY <1>1, <3>2, <3>3
    <2>3. {patternAt', retryPattern'} \subseteq 0..(Len(pattern) + 1)
        BY <1>1, <1>2, <2>1 DEF TypeOK
    <2> QED
        BY <1>1, <1>2, <2>2, <2>3 DEF TypeOK
<1> QED
    BY <1>1, <1>4, <1>5, <1>6, BeforeLoopIInv

\* matchParsed keeps it as it is called in place of the loop over tokens stored.
LEMMA FallBackIInv ==
    ASSUME IInv, FallBack
    PROVE  IInv' /\ UNCHANGED Loop!vars
<1>1. /\ way = "preparing" /\ way' = "parsed"
      /\ patternAt' = 1 /\ addressAt' = 1
      /\ UNCHANGED texts /\ pattern' = pattern /\ address' = address
      /\ prepared' = prepared /\ retryPattern' = retryPattern
      /\ retryAddress' = retryAddress /\ seenOperator' = seenOperator
      /\ result' = result /\ compared' = compared
    BY DEF FallBack, texts
<1>2. Preparing /\ Starts /\ TypeOK
    BY <1>1, PreparingStarts DEF IInv
<1>3. /\ pattern \in PatternTexts /\ Len(pattern) \in Nat
      /\ address \in AddressTexts /\ Len(address) \in Nat
    BY <1>2, TextsTyped DEF TypeOK
<1>4. /\ IsSeparator(pattern, 1 - 1) /\ Len(pattern) > 0
      /\ IsSeparator(address, 1 - 1) /\ Len(address) > 0
      /\ HasLeadingSlash(pattern)
    <2>1. IsSeparator(pattern, 0) /\ IsSeparator(address, 0) /\ HasLeadingSlash(pattern)
        BY <1>2 DEF Preparing, IsValidAddress, HasLeadingSlash
    <2> QED
        BY <1>3, <2>1, SeparatorWithin
<1>5. Starts'
    BY <1>1, <1>2, <1>4 DEF Starts
<1>6. TypeOK'
    <2>1. /\ retryPattern = 0 /\ retryAddress = 0
          /\ {0, 1} \subseteq 0..(Len(pattern) + 1)
          /\ {0, 1} \subseteq 0..(Len(address) + 1)
        BY <1>2, <1>3 DEF Preparing
    <2>2. /\ {patternAt', retryPattern'} \subseteq 0..(Len(pattern) + 1)
          /\ {addressAt', retryAddress'} \subseteq 0..(Len(address) + 1)
        BY <1>1, <2>1
    <2> QED
        BY <1>1, <1>2, <2>2 DEF TypeOK
<1>7. Standing'
    <2>1. ParsedPlace(pattern, 1)
        <3>1. 1 \in 1..Len(pattern)
            BY <1>3, <1>4
        <3> QED
            BY <1>4, <3>1 DEF ParsedPlace
    <2>2. PatternPlace(patternAt)'
        BY <1>1, <2>1 DEF PatternPlace
    <2>3. AddressPlace(addressAt)'
        BY <1>1, <1>3, <1>4 DEF AddressPlace
    <2>4. LoopMayRun'
        BY <1>1, <1>3 DEF LoopMayRun
    <2>5. ~seenOperator'
        BY <1>1, <1>2 DEF Preparing
    <2> QED
        BY <2>2, <2>3, <2>4, <2>5 DEF Standing
<1> QED
    BY <1>1, <1>5, <1>6, <1>7, BeforeLoopIInv

\* matchParts keeps it as it is called with all tokens stored.
LEMMA UsePreparedIInv ==
    ASSUME IInv, UsePrepared
    PROVE  IInv' /\ UNCHANGED Loop!vars
<1> DEFINE S == TokenStarts(pattern)
<1>1. /\ way = "preparing" /\ way' = "prepared" /\ patternAt >= Len(pattern)
      /\ patternAt' = 0 /\ addressAt' = addressAt
      /\ UNCHANGED texts /\ pattern' = pattern /\ address' = address
      /\ prepared' = prepared /\ retryPattern' = retryPattern
      /\ retryAddress' = retryAddress /\ seenOperator' = seenOperator
      /\ result' = result /\ compared' = compared
    BY DEF UsePrepared, texts
<1>2. Preparing /\ Starts /\ TypeOK
    BY <1>1, PreparingStarts DEF IInv
<1>3. /\ pattern \in PatternTexts /\ Len(pattern) \in Nat
      /\ address \in AddressTexts /\ Len(address) \in Nat
    BY <1>2, TextsTyped DEF TypeOK
<1>4. Starts'
    BY <1>1, <1>2 DEF Starts, Preparing
<1>5. TypeOK'
    <2>1. retryPattern = 0 /\ 0 \in 0..(Len(pattern) + 1)
        BY <1>2, <1>3 DEF Preparing
    <2>2. {patternAt', retryPattern'} \subseteq 0..(Len(pattern) + 1)
        BY <1>1, <2>1
    <2> QED
        BY <1>1, <1>2, <2>2 DEF TypeOK
<1>6. Len(prepared) = Cardinality(S)
    <2>1. patternAt = Len(pattern)
        BY <1>1, <1>2, <1>3 DEF Preparing, CursorPlace
    <2>2. ASSUME NEW s \in S PROVE TokenEnd(pattern, s) <= patternAt
        <3>1. IsToken(pattern, s, TokenEnd(pattern, s))
            BY <1>3, TokenIs
        <3> QED
            BY <1>3, <2>1, <3>1 DEF IsToken
    <2>3. TokensRead(patternAt) = S
        BY <2>2 DEF TokensRead
    <2> QED
        BY <1>2, <2>3 DEF Preparing
<1>7. Standing'
    <2>1. LoopMayRun'
        <3>1. PreparedInOrder' /\ IsValidAddress(address)'
            BY <1>1, <1>2 DEF Preparing, PreparedInOrder, StartOf
        <3> QED
            BY <1>1, <1>3, <1>6, <3>1 DEF LoopMayRun
    <2>2. PatternPlace(patternAt)'
        BY <1>1, <1>3, <1>6, StartsFinite DEF PatternPlace
    <2>3. AddressPlace(addressAt)'
        <3>1. Len(PartEnds) \in Nat
            <4>1. HasLeadingSlash(address)
                BY <1>2 DEF Preparing, IsValidAddress
            <4> QED
                BY <1>3, <4>1, EndsFollow, StartsFinite
        <3>2. PartEnds' = PartEnds
            BY <1>1 DEF PartEnds
        <3> QED
            BY <1>1, <1>2, <3>1, <3>2 DEF AddressPlace, Preparing
    <2>4. ~seenOperator'
        BY <1>1, <1>2 DEF Preparing
    <2> QED
        BY <2>1, <2>2, <2>3, <2>4 DEF Standing
<1> QED
    BY <1>1, <1>4, <1>5, <1>7, BeforeLoopIInv

\* An address that does not begin with a slash is rejected.
LEMMA RejectIInv ==
    ASSUME IInv, Reject
    PROVE  IInv' /\ ~HasLeadingSlash(address)
<1>1. /\ way # "preparing" /\ ~HasLeadingSlash(address) /\ result' = "no match"
      /\ UNCHANGED <<way, texts, prepared, positions>>
    BY DEF Reject
<1>2. /\ way' = way /\ pattern' = pattern /\ address' = address /\ prepared' = prepared
      /\ patternAt' = patternAt /\ addressAt' = addressAt
      /\ retryPattern' = retryPattern /\ retryAddress' = retryAddress
      /\ seenOperator' = seenOperator
    BY <1>1 DEF texts, positions
<1>3. ~HasLeadingSlash(address)'
    BY <1>1, <1>2
<1>4. TypeOK'
    BY <1>1, <1>2 DEF IInv, TypeOK
<1> QED
    BY <1>1, <1>2, <1>3, <1>4 DEF IInv

\* A step of the loop keeps the invariant if it is a step of PartMatching.
LEMMA LoopStepIInv ==
    ASSUME IInv, Running, UNCHANGED <<way, texts, prepared>>,
           Loop!Next, Standing',
           result' \in {"running", "match", "no match"},
           seenOperator' \in BOOLEAN,
           seenOperator' \/ (retryPattern' = retryPattern /\ retryAddress' = retryAddress)
    PROVE  IInv'
<1>1. /\ way # "preparing" /\ HasLeadingSlash(address) /\ Standing /\ TypeOK /\ Loop!IInv
    BY DEF Running, IInv
<1>2. way' = way /\ pattern' = pattern /\ address' = address /\ prepared' = prepared
    BY DEF texts
<1>3. Loop!IInv'
    BY <1>1, Loop!NextIInv
<1>4. LoopMayRun /\ PatternPlace(patternAt') /\ AddressPlace(addressAt')
    BY <1>1, PlacesKept DEF Standing
<1>5. seenOperator' => PatternPlace(retryPattern') /\ AddressPlace(retryAddress')
    BY PlacesKept DEF Standing
<1>6. patternAt' \in 0..(Len(pattern) + 1) /\ addressAt' \in 0..(Len(address) + 1)
    BY <1>4, PlacesWithin
<1>7. retryPattern' \in 0..(Len(pattern) + 1) /\ retryAddress' \in 0..(Len(address) + 1)
    <2>1. CASE seenOperator'
        BY <1>4, <1>5, <2>1, PlacesWithin
    <2>2. CASE ~seenOperator'
        BY <1>1, <2>2 DEF TypeOK
    <2> QED
        BY <2>1, <2>2
<1>8. TypeOK'
    BY <1>1, <1>2, <1>6, <1>7 DEF TypeOK
<1>9. HasLeadingSlash(address)'
    BY <1>1, <1>2
<1> QED
    BY <1>1, <1>2, <1>3, <1>8, <1>9 DEF IInv

\* Every step keeps the invariant, and is a step of PartMatching or none,
\* unless the address is one that is rejected at once.
LEMMA NextIInv ==
    ASSUME IInv, [Next]_vars
    PROVE  IInv' /\ ([Loop!Next]_(Loop!vars) \/ ~HasLeadingSlash(address))
<1>1. CASE PrepareNext
    BY <1>1, PrepareNextIInv
<1>2. CASE FallBack
    BY <1>2, FallBackIInv
<1>3. CASE UsePrepared
    BY <1>3, UsePreparedIInv
<1>4. CASE Reject
    BY <1>4, RejectIInv
<1>5. ASSUME PassOperator \/ AdvanceBoth \/ Retry \/ Fail \/ Succeed
      PROVE  IInv' /\ Loop!Next
    <2>1. Running /\ UNCHANGED <<way, texts, prepared>>
        BY <1>5 DEF PassOperator, AdvanceBoth, Retry, Fail, Succeed, Stuck
    <2>2. Standing /\ TypeOK
        BY <2>1 DEF IInv, Running
    <2>3. Loop!Next /\ Standing'
        BY <1>5, <2>2, PassOperatorMaps, AdvanceBothMaps, RetryMaps, FailMaps,
           SucceedMaps DEF Loop!Next
    <2>4. result' \in {"running", "match", "no match"}
        BY <1>5, <2>2
           DEF PassOperator, AdvanceBoth, Retry, Fail, Succeed, TypeOK
    <2>5. /\ seenOperator' \in BOOLEAN
          /\ seenOperator' \/ (retryPattern' = retryPattern /\ retryAddress' = retryAddress)
        <3>1. CASE PassOperator
            BY <3>1 DEF PassOperator
        <3>2. CASE AdvanceBoth
            BY <2>2, <3>2 DEF AdvanceBoth, TypeOK
        <3>3. CASE Retry
            BY <2>2, <3>3 DEF Retry, NoRetry, TypeOK
        <3>4. CASE Fail
            BY <2>2, <3>4 DEF Fail, positions, TypeOK
        <3>5. CASE Succeed
            BY <2>2, <3>5 DEF Succeed, positions, TypeOK
        <3> QED
            BY <1>5, <3>1, <3>2, <3>3, <3>4, <3>5
    <2> QED
        BY <2>1, <2>3, <2>4, <2>5, LoopStepIInv
<1>6. CASE UNCHANGED vars
    <2>1. /\ UNCHANGED <<way, texts, prepared, positions>>
          /\ way' = way /\ pattern' = pattern /\ address' = address
          /\ prepared' = prepared /\ patternAt' = patternAt /\ addressAt' = addressAt
          /\ retryPattern' = retryPattern /\ retryAddress' = retryAddress
          /\ seenOperator' = seenOperator /\ result' = result /\ compared' = compared
        BY <1>6 DEF vars, texts, positions
    <2>2. UNCHANGED Loop!vars
        BY <2>1, StandingKept DEF Loop!vars, Loop!texts, Loop!cursors
    <2>3. HasLeadingSlash(address) => Loop!IInv'
        BY <2>2, Loop!NextIInv DEF IInv
    <2>4. TypeOK'
        BY <2>1 DEF IInv, TypeOK
    <2>5. Preparing => Preparing'
        BY <2>1 DEF Preparing, PreparedInOrder, StartOf, TokensRead
    <2>6. Standing => Standing'
        BY <2>1, StandingKept
    <2>7. HasLeadingSlash(address)' <=> HasLeadingSlash(address)
        BY <2>1
    <2> QED
        BY <2>1, <2>2, <2>3, <2>4, <2>5, <2>6, <2>7 DEF IInv
<1> QED
    BY <1>1, <1>2, <1>3, <1>4, <1>5, <1>6 DEF Next

\* Every state of every match satisfies the inductive invariant.
THEOREM Invariance == Spec => []IInv
<1>1. Init => IInv
    BY InitIInv
<1>2. IInv /\ [Next]_vars => IInv'
    BY NextIInv
<1> QED
    BY <1>1, <1>2, PTL DEF Spec

\* The positions stay within the texts and the array of tokens within its
\* bound, in every way of matching.
THEOREM TypeCorrect == Spec => []TypeOK
<1>1. IInv => TypeOK
    BY DEF IInv
<1> QED
    BY <1>1, Invariance, PTL

\* Each way of matching, on every pair of texts and wherever prepareParts gives
\* up, takes the steps of the loop over tokens and parts, and no others.
THEOREM Refines == Spec => ImplementsPartLoop
<1>1. Init => (HasLeadingSlash(address) => Parts!Begins)
    <2> SUFFICES ASSUME Init PROVE Parts!Begins
        OBVIOUS
    <2>1. Starts
        BY DEF Init, Starts, FirstPatternAt, FirstAddressAt, FirstRetryAddress
    <2>2. Loop!Begins
        BY <2>1, StartsBegins
    <2> QED
        BY <2>2 DEF Loop!Begins, Parts!Begins
<1>2. IInv /\ [Next]_vars => [Parts!Next \/ ~HasLeadingSlash(address)]_(Parts!vars)
    <2> SUFFICES ASSUME IInv, [Next]_vars
                 PROVE  [Parts!Next \/ ~HasLeadingSlash(address)]_(Parts!vars)
        OBVIOUS
    <2>1. Loop!Next \/ UNCHANGED Loop!vars \/ ~HasLeadingSlash(address)
        BY NextIInv
    <2>2. UNCHANGED Loop!vars => UNCHANGED Parts!vars
        BY DEF Loop!vars, Loop!texts, Loop!cursors, Parts!vars, Parts!texts, Parts!cursors
    <2>3. /\ Parts!PatternExhausted <=> Loop!PatternExhausted
          /\ Parts!AddressExhausted <=> Loop!AddressExhausted
          /\ Parts!AtOperator <=> Loop!AtOperator
          /\ Parts!Comparing <=> Loop!Comparing
          /\ Parts!PartsMatch <=> Loop!PartsMatch
          /\ Parts!Looping <=> Loop!Looping
        BY DEF Parts!PatternExhausted, Loop!PatternExhausted,
               Parts!AddressExhausted, Loop!AddressExhausted,
               Parts!AtOperator, Loop!AtOperator, Parts!Comparing, Loop!Comparing,
               Parts!PartsMatch, Loop!PartsMatch, Parts!Looping, Loop!Looping
    <2>4. /\ Parts!Compare <=> Loop!Compare
          /\ Parts!Stuck <=> Loop!Stuck
          /\ Parts!NoRetry <=> Loop!NoRetry
        BY <2>3 DEF Parts!Compare, Loop!Compare, Parts!Stuck, Loop!Stuck,
                    Parts!NoRetry, Loop!NoRetry
    <2>5. Loop!Next => Parts!Next
        BY <2>3, <2>4
           DEF Parts!Next, Loop!Next, Parts!PassOperator, Loop!PassOperator,
               Parts!AdvanceBoth, Loop!AdvanceBoth, Parts!Retry, Loop!Retry,
               Parts!Fail, Loop!Fail, Parts!Succeed, Loop!Succeed,
               Parts!texts, Loop!texts, Parts!cursors, Loop!cursors
    <2> QED
        BY <2>1, <2>2, <2>5
<1> QED
    BY <1>1, <1>2, Invariance, PTL DEF Spec, ImplementsPartLoop

\* What is answered once the invariant holds.
LEMMA AnswersIfIInv == IInv => AnswersAsDefined
<1> SUFFICES ASSUME IInv, result # "running"
             PROVE  result = "match" <=>
                        HasLeadingSlash(address)
                        /\ Parts!MatchesFrom(Tokens[pattern], AddressParts[address], 1, 1)
    BY DEF AnswersAsDefined
<1>1. Parts!MatchesFrom(Tokens[pattern], AddressParts[address], 1, 1)
          <=> Loop!MatchesFrom(Tokens[pattern], AddressParts[address], 1, 1)
    BY DEF Parts!MatchesFrom, Loop!MatchesFrom, Parts!IsLayout, Loop!IsLayout,
           Parts!Lays, Loop!Lays
<1>2. CASE HasLeadingSlash(address)
    BY <1>1, <1>2 DEF IInv, Loop!IInv, Loop!MatchesAsDefined
<1>3. CASE ~HasLeadingSlash(address)
    BY <1>3 DEF IInv
<1> QED
    BY <1>2, <1>3

\* Whatever the texts and whichever the way, what is returned is whether the
\* tokens of the pattern can be laid along the parts of the address.
THEOREM AnswersCorrectly == Spec => []AnswersAsDefined
BY AnswersIfIInv, Invariance, PTL

(***************************************************************************)
(* Literal patterns.                                                       *)
(***************************************************************************)

\* The tokens of a literal pattern are parts, cut as those of an address are,
\* and each matches itself and nothing else.
LEMMA LiteralTokens ==
    ASSUME NEW text \in PatternTexts, HasLeadingSlash(text), IsLiteral(text)
    PROVE  /\ TokenStarts(text) = PartStarts(text)
           /\ \A s \in TokenStarts(text) :
                 /\ ~IsSeparator(text, s)
                 /\ \A other \in Seq(PlainBytes) :
                       Denotes(PartText(text, s), other) <=> PartText(text, s) = other
<1>1. /\ Len(text) \in Nat /\ text \in Seq(WildBytes \cup {partSeparator})
      /\ IsSeparator(text, 0)
    BY TextsTyped DEF HasLeadingSlash
<1>2. ASSUME NEW at \in 0..Len(text), IsSeparator(text, at), IsSeparator(text, at + 1)
      PROVE  FALSE
    <2> DEFINE e == RunEnd(text, at)
    <2>1. e \in at..Len(text) /\ ~IsSeparator(text, e)
        BY <1>1, RunEndIs
    <2>2. e - at < 2
        BY DEF IsLiteral, operatorRunLength
    <2> HIDE DEF e
    <2>3. e = at \/ e = at + 1
        BY <1>1, <2>1, <2>2
    <2> QED
        BY <1>2, <2>1, <2>3
<1>3. \A i \in 1..Len(text) : text[i] # anyBytes
    <2>1. DOMAIN text = 1..Len(text)
        BY <1>1, LenProperties
    <2> QED
        BY <2>1 DEF IsLiteral, HasOpener, IsOpener
<1>4. ASSUME NEW s \in TokenStarts(text)
      PROVE  s \in PartStarts(text) /\ ~IsSeparator(text, s)
    <2>1. s \in 0..Len(text) /\ (IsOperatorStart(text, s) \/ IsPartStart(text, s))
        BY DEF TokenStarts
    <2>2. IsPartStart(text, s)
        BY <1>2, <2>1 DEF IsOperatorStart
    <2>3. s # 0 /\ IsSeparator(text, s - 1) /\ ~IsSeparator(text, s)
        BY <1>1, <2>2 DEF IsPartStart
    <2>4. s \in 1..Len(text)
        BY <1>1, <2>1, <2>3
    <2> QED
        BY <2>3, <2>4 DEF PartStarts
<1>5. ASSUME NEW s \in PartStarts(text) PROVE s \in TokenStarts(text)
    <2>1. s \in 1..Len(text) /\ IsSeparator(text, s - 1)
        BY DEF PartStarts
    <2>2. s - 1 \in 0..Len(text) /\ (s - 1) + 1 = s /\ s \in 0..Len(text)
        BY <1>1, <2>1
    <2>3. ~IsSeparator(text, s)
        BY <1>2, <2>1, <2>2
    <2>4. s # 1 => ~IsSeparator(text, s - 2)
        <3> SUFFICES ASSUME s # 1, IsSeparator(text, s - 2) PROVE FALSE
            OBVIOUS
        <3>1. s - 2 \in 0..Len(text) /\ (s - 2) + 1 = s - 1
            BY <1>1, <2>1
        <3> QED
            BY <1>2, <2>1, <3>1
    <2>5. IsPartStart(text, s)
        BY <2>1, <2>3, <2>4 DEF IsPartStart
    <2> QED
        BY <2>2, <2>5 DEF TokenStarts
<1>6. ASSUME NEW s \in TokenStarts(text), NEW other \in Seq(PlainBytes)
      PROVE  Denotes(PartText(text, s), other) <=> PartText(text, s) = other
    <2> DEFINE P == PartText(text, s)
    <2>1. s \in 0..Len(text) /\ s \in Nat
        BY <1>1 DEF TokenStarts
    <2>2. /\ P \in Seq(WildBytes) /\ Len(P) = PartEnd(text, s) - s
          /\ \A k \in 1..Len(P) : P[k] = text[s + k]
          /\ PartEnd(text, s) \in s..Len(text)
        BY <1>1, <2>1, PartTextIs, PartEndIs
    <2>3. Len(P) \in Nat /\ Len(other) \in Nat /\ Len(P) \in 0..Len(P)
        BY <1>1, <2>1, <2>2, LenProperties
    <2> HIDE DEF P
    <2>4. \A k \in 1..Len(P) : P[k] # anyBytes
        <3> SUFFICES ASSUME NEW k \in 1..Len(P) PROVE P[k] # anyBytes
            OBVIOUS
        <3>1. s + k \in 1..Len(text)
            BY <1>1, <2>1, <2>2
        <3> QED
            BY <1>3, <2>2, <3>1
    <2>5. Denotes(P, other)
              <=> Len(other) = Len(P) /\ \A k \in 1..Len(P) : P[k] = other[k]
        BY <2>3, <2>4, LiteralPrefix
    <2>6. other \in Seq(WildBytes)
        <3>1. \A k \in 1..Len(other) : other[k] \in WildBytes
            BY ElementOfSeq DEF WildBytes
        <3>2. other \in [1..Len(other) -> WildBytes]
            BY <3>1, LenProperties
        <3> QED
            BY <2>3, <3>2, SeqDef
    <2>7. Len(other) = Len(P) /\ (\A k \in 1..Len(P) : P[k] = other[k]) => P = other
        BY <2>2, <2>6, SeqEqual
    <2> QED
        BY <2>5, <2>7 DEF P
<1> QED
    BY <1>4, <1>5, <1>6

\* Two texts that begin with a slash and have the same parts are the same.
LEMMA SameParts ==
    ASSUME NEW text \in PatternTexts, NEW other \in AddressTexts,
           HasLeadingSlash(text), HasLeadingSlash(other),
           NEW n, n = Cardinality(PartStarts(text)), n = Cardinality(PartStarts(other)),
           \A k \in 1..n : PartText(text, InOrder(PartStarts(text))[k])
                               = PartText(other, InOrder(PartStarts(other))[k])
    PROVE  text = other
<1> DEFINE s == InOrder(PartStarts(text))
           t == InOrder(PartStarts(other))
           Done == {k \in 1..n : s[k] = t[k] /\ \A i \in 1..s[k] : text[i] = other[i]}
<1>1. /\ Len(text) \in Nat /\ text \in Seq(WildBytes \cup {partSeparator})
      /\ Len(other) \in Nat /\ other \in Seq(PlainBytes \cup {partSeparator})
    BY TextsTyped
<1>2. /\ n \in Nat \ {0} /\ s[1] = 1 /\ t[1] = 1
      /\ \A k \in 1..(n - 1) :
            /\ s[k + 1] = PartEnd(text, s[k]) + 1
            /\ t[k + 1] = PartEnd(other, t[k]) + 1
            /\ IsSeparator(text, PartEnd(text, s[k]))
            /\ IsSeparator(other, PartEnd(other, t[k]))
      /\ PartEnd(text, s[n]) = Len(text) /\ PartEnd(other, t[n]) = Len(other)
    BY <1>1, PartsFollow
<1>3. \A k \in 1..n : s[k] \in 1..Len(text) /\ t[k] \in 1..Len(other)
    <2>1. s \in [1..n -> PartStarts(text)] /\ t \in [1..n -> PartStarts(other)]
        BY <1>1, StartsFinite, InOrderIs
    <2> HIDE DEF s, t
    <2>2. \A k \in 1..n : s[k] \in PartStarts(text) /\ t[k] \in PartStarts(other)
        BY <2>1
    <2> QED
        BY <2>2 DEF PartStarts
<1>4. ASSUME NEW k \in 1..n, s[k] = t[k], \A i \in 1..s[k] : text[i] = other[i]
      PROVE  /\ PartEnd(text, s[k]) = PartEnd(other, t[k])
             /\ PartEnd(text, s[k]) \in s[k]..Len(text)
             /\ \A i \in 1..PartEnd(text, s[k]) : text[i] = other[i]
    <2> DEFINE at == s[k]
               e == PartEnd(text, at)
               f == PartEnd(other, at)
               P == PartText(text, at)
    <2>1. at \in 0..Len(text) /\ at \in 0..Len(other) /\ at \in Nat
        BY <1>1, <1>3, <1>4
    <2>2. PartText(other, at) = P
        BY <1>4
    <2> HIDE DEF at
    <2>3. /\ Len(P) = e - at /\ \A j \in 1..Len(P) : P[j] = text[at + j]
          /\ e \in at..Len(text)
        BY <1>1, <2>1, PartTextIs, PartEndIs
    <2> DEFINE Q == PartText(other, at)
    <2>4. /\ Len(Q) = f - at /\ \A j \in 1..Len(Q) : Q[j] = other[at + j]
          /\ f \in at..Len(other) /\ Q = P
        <3>1. Q = P
            BY <2>2
        <3>2. f \in at..Len(other)
            BY <1>1, <2>1, PartEndIs
        <3>3. Len(Q) = f - at /\ \A j \in 1..Len(Q) : Q[j] = other[at + j]
            BY <1>1, <2>1, PartTextIs
        <3> QED
            BY <3>1, <3>2, <3>3
    <2> HIDE DEF e, f, P, Q
    <2>5. e = f
        BY <1>1, <2>1, <2>3, <2>4
    <2>6. ASSUME NEW i \in 1..e PROVE text[i] = other[i]
        <3>1. CASE i <= at
            <4>1. i \in 1..at
                BY <2>1, <3>1
            <4> QED
                BY <1>4, <4>1 DEF at
        <3>2. CASE i > at
            <4>1. i - at \in 1..Len(P) /\ at + (i - at) = i
                BY <1>1, <2>1, <2>3, <3>2
            <4> QED
                BY <2>3, <2>4, <4>1
        <3> QED
            BY <1>1, <2>1, <2>3, <3>1, <3>2
    <2> QED
        BY <1>4, <2>3, <2>5, <2>6 DEF at, e, f
<1> HIDE DEF s, t
<1>5. 1..n \subseteq Done
    <2>1. 1 \in Done
        <3>1. text[1] = partSeparator /\ other[1] = partSeparator
            BY DEF HasLeadingSlash, IsSeparator
        <3>2. \A i \in 1..1 : text[i] = other[i]
            BY <3>1
        <3> QED
            BY <1>2, <3>2
    <2>2. ASSUME NEW k \in 1..(n - 1), k \in Done PROVE k + 1 \in Done
        <3>1. k \in 1..n /\ k + 1 \in 1..n
            BY <1>2
        <3>2. s[k] = t[k] /\ \A i \in 1..s[k] : text[i] = other[i]
            BY <2>2
        <3> DEFINE e == PartEnd(text, s[k])
        <3>3. /\ e = PartEnd(other, t[k]) /\ e \in s[k]..Len(text)
              /\ \A i \in 1..e : text[i] = other[i]
            BY <1>4, <3>1, <3>2
        <3>4. /\ s[k + 1] = e + 1 /\ t[k + 1] = e + 1
              /\ IsSeparator(text, e) /\ IsSeparator(other, e)
            BY <1>2, <3>3
        <3>5. e \in Nat
            BY <1>1, <1>3, <3>1, <3>3
        <3> HIDE DEF e, Done
        <3>6. text[e + 1] = other[e + 1]
            BY <3>4 DEF IsSeparator
        <3>7. \A i \in 1..(e + 1) : text[i] = other[i]
            <4>1. \A i \in 1..(e + 1) : i \in 1..e \/ i = e + 1
                BY <3>5
            <4> QED
                BY <3>3, <3>6, <4>1
        <3> QED
            BY <3>1, <3>4, <3>7 DEF Done
    <2> HIDE DEF Done
    <2>3. 1 \in Nat /\ n \in Nat
        BY <1>2
    <2> QED
        BY <2>1, <2>2, <2>3, Induction
<1>6. /\ Len(text) = Len(other)
      /\ \A i \in 1..Len(text) : text[i] = other[i]
    <2>1. n \in 1..n
        BY <1>2
    <2>2. s[n] = t[n] /\ \A i \in 1..s[n] : text[i] = other[i]
        BY <1>5, <2>1
    <2> QED
        BY <1>2, <1>4, <2>1, <2>2
<1>7. other \in Seq(WildBytes \cup {partSeparator})
    <2>1. \A k \in 1..Len(other) : other[k] \in WildBytes \cup {partSeparator}
        BY <1>1, ElementOfSeq DEF WildBytes
    <2>2. other \in [1..Len(other) -> WildBytes \cup {partSeparator}]
        BY <1>1, <2>1, LenProperties
    <2> QED
        BY <1>1, <2>2, SeqDef
<1> QED
    BY <1>1, <1>6, <1>7, SeqEqual

\* The parts of an address that has been validated are no longer than matchPart
\* can match.
LEMMA ValidPartFits ==
    ASSUME NEW text \in AddressTexts, IsValidAddress(text), NEW t \in PartStarts(text)
    PROVE  Len(PartText(text, t)) <= kMaxAddressPartLength
<1>1. Len(text) \in Nat /\ text \in Seq(PlainBytes \cup {partSeparator})
    BY TextsTyped
<1>2. t \in 1..Len(text) /\ IsSeparator(text, t - 1)
    BY DEF PartStarts
<1>3. t \in 0..Len(text) /\ t - 1 \in 0..(Len(text) - 1) /\ (t - 1) + 1 = t
    BY <1>1, <1>2
<1>4. PartEnd(text, t) - t \in 1..kMaxAddressPartLength
    BY <1>2, <1>3 DEF IsValidAddress
<1>5. Len(PartText(text, t)) = PartEnd(text, t) - t
    BY <1>1, <1>3, PartTextIs
<1> QED
    BY <1>4, <1>5

\* The tokens of a literal pattern can be laid along the parts of an address
\* exactly when the texts are equal: without operators the i-th token lies on
\* the i-th part.
LEMMA LiteralLayout ==
    ASSUME NEW text \in PatternTexts, HasLeadingSlash(text), IsLiteral(text),
           NEW other \in AddressTexts, IsValidAddress(other)
    PROVE  Parts!MatchesFrom(Tokens[text], AddressParts[other], 1, 1) <=> text = other
<1> DEFINE tokens == Tokens[text]
           parts == AddressParts[other]
           m == Len(tokens)
           n == Len(parts)
           s == InOrder(PartStarts(text))
           t == InOrder(PartStarts(other))
<1>1. HasLeadingSlash(other)
    BY DEF IsValidAddress
<1>2. /\ TokenStarts(text) = PartStarts(text)
      /\ m = Cardinality(PartStarts(text)) /\ n = Cardinality(PartStarts(other))
    BY LiteralTokens, TokensIs, PartsIs
<1>3. m \in Nat \ {0} /\ n \in Nat \ {0}
    <2>1. Len(text) \in Nat /\ Len(other) \in Nat
        BY TextsTyped
    <2> QED
        BY <1>1, <1>2, <2>1, PartsFollow
<1>4. ASSUME NEW k \in 1..m
      PROVE  /\ tokens[k] = PartText(text, s[k])
             /\ tokens[k] # Operator
             /\ tokens[k] \in Seq(PlainBytes \cup {anyBytes})
             /\ \A q \in Seq(PlainBytes) : Denotes(tokens[k], q) <=> tokens[k] = q
    <2>1. /\ s[k] \in TokenStarts(text)
          /\ tokens[k] = TokenText(text, s[k])
        BY <1>2, TokensIs
    <2> HIDE DEF s, tokens, m
    <2>2. ~IsSeparator(text, s[k])
        BY <2>1, LiteralTokens
    <2>3. tokens[k] # Operator /\ tokens[k] \in Seq(WildBytes)
        BY <2>1, <2>2, TokenTyped
    <2>4. tokens[k] = PartText(text, s[k])
        BY <2>1, <2>2 DEF TokenText, PartText
    <2>5. \A q \in Seq(PlainBytes) :
              Denotes(PartText(text, s[k]), q) <=> PartText(text, s[k]) = q
        BY <2>1, LiteralTokens
    <2>6. tokens[k] \in Seq(PlainBytes \cup {anyBytes})
        BY <2>3 DEF WildBytes
    <2> QED
        BY <2>3, <2>4, <2>5, <2>6
<1>5. ASSUME NEW k \in 1..n
      PROVE  /\ parts[k] = PartText(other, t[k])
             /\ parts[k] \in Seq(PlainBytes)
             /\ Len(parts[k]) <= kMaxAddressPartLength
    <2>1. /\ t[k] \in PartStarts(other) /\ parts[k] = PartText(other, t[k])
          /\ parts \in Seq(Seq(PlainBytes))
        BY PartsIs
    <2>2. parts[k] \in Seq(PlainBytes)
        BY <2>1, ElementOfSeq
    <2> HIDE DEF t, parts, n
    <2> QED
        BY <2>1, <2>2, ValidPartFits
<1>6. ASSUME NEW k \in 1..m, NEW a \in 1..n
      PROVE  <<tokens[k], parts[a]>> \in Fits <=> tokens[k] = parts[a]
    <2>1. MatchPart(tokens[k], parts[a]) <=> tokens[k] = parts[a]
        BY <1>4, <1>5 DEF MatchPart
    <2> HIDE DEF tokens, parts
    <2>2. <<tokens[k], parts[a]>> \in Seq(PlainBytes \cup {anyBytes}) \X Seq(PlainBytes)
        BY <1>4, <1>5
    <2>3. <<tokens[k], parts[a]>> \in Fits <=> MatchPart(tokens[k], parts[a])
        BY <2>2 DEF Fits
    <2> QED
        BY <2>1, <2>3
<1> HIDE DEF tokens, parts, m, n, s, t
<1>7. ASSUME NEW place, Parts!IsLayout(tokens, parts, place, 1, 1)
      PROVE  text = other
    <2> DEFINE Straight == {i \in 1..(m + 1) : place[i] = i}
    <2>1. /\ place \in [1..(m + 1) -> 1..(n + 1)]
          /\ place[1] = 1 /\ place[m + 1] = n + 1
        BY <1>7 DEF Parts!IsLayout, m, n
    <2>2. ASSUME NEW i \in 1..m
          PROVE  /\ place[i + 1] = place[i] + 1 /\ place[i] <= n
                 /\ <<tokens[i], parts[place[i]]>> \in Fits
        <3>1. Parts!Lays(tokens, parts, place, i)
            BY <1>7 DEF Parts!IsLayout, m
        <3> QED
            BY <1>4, <3>1 DEF Parts!Lays, n
    <2>3. 1..(m + 1) \subseteq Straight
        <3>1. 1 \in Straight
            BY <1>3, <2>1
        <3>2. ASSUME NEW i \in 1..((m + 1) - 1), i \in Straight PROVE i + 1 \in Straight
            <4>1. i \in 1..m /\ i + 1 \in 1..(m + 1)
                BY <1>3
            <4>2. place[i] = i
                BY <3>2
            <4> QED
                BY <2>2, <4>1, <4>2
        <3>3. 1 \in Nat /\ m + 1 \in Nat
            BY <1>3
        <3> HIDE DEF Straight
        <3> QED
            BY <3>1, <3>2, <3>3, Induction
    <2>4. m = n
        <3>1. m + 1 \in 1..(m + 1)
            BY <1>3
        <3>2. place[m + 1] = m + 1
            BY <2>3, <3>1
        <3> QED
            BY <1>3, <2>1, <3>2
    <2>5. ASSUME NEW k \in 1..m PROVE PartText(text, s[k]) = PartText(other, t[k])
        <3>1. k \in 1..(m + 1) /\ k \in 1..n
            BY <1>3, <2>4
        <3>2. place[k] = k
            BY <2>3, <3>1
        <3>3. <<tokens[k], parts[k]>> \in Fits
            BY <2>2, <3>2
        <3> QED
            BY <1>4, <1>5, <1>6, <3>1, <3>3
    <2> QED
        BY <1>1, <1>2, <2>4, <2>5, SameParts DEF s, t
<1>8. ASSUME text = other
      PROVE  Parts!MatchesFrom(tokens, parts, 1, 1)
    <2> DEFINE place == [i \in 1..(m + 1) |-> i]
    <2>1. m = n /\ s = t
        BY <1>2, <1>8 DEF s, t
    <2>2. /\ place \in [1..(m + 1) -> 1..(n + 1)]
          /\ place[1] = 1 /\ place[m + 1] = n + 1
        BY <1>3, <2>1
    <2>3. ASSUME NEW i \in 1..m PROVE Parts!Lays(tokens, parts, place, i)
        <3>1. i \in 1..(m + 1) /\ i + 1 \in 1..(m + 1) /\ i \in 1..n /\ i <= n
            BY <1>3, <2>1
        <3>2. place[i] = i /\ place[i + 1] = i + 1
            BY <3>1
        <3>3. tokens[i] = parts[i]
            BY <1>4, <1>5, <1>8, <2>1, <3>1
        <3>4. <<tokens[i], parts[i]>> \in Fits
            BY <1>6, <3>1, <3>3
        <3>5. tokens[i] # Operator
            BY <1>4
        <3> HIDE DEF place
        <3> QED
            BY <3>1, <3>2, <3>4, <3>5 DEF Parts!Lays, n
    <2> HIDE DEF place
    <2>4. Parts!IsLayout(tokens, parts, place, 1, 1)
        BY <2>2, <2>3 DEF Parts!IsLayout, m, n
    <2> QED
        BY <2>2, <2>4 DEF Parts!MatchesFrom, m, n
<1> QED
    BY <1>7, <1>8 DEF Parts!MatchesFrom, tokens, parts

\* A literal pattern matches the address equal to it, and no other: comparing
\* the texts, as Pattern::matches does, answers as the general matcher would.
THEOREM LiteralsCorrect == Spec => []LiteralMatchesOnlyItself
<1>1. IInv => LiteralMatchesOnlyItself
    <2> SUFFICES ASSUME IInv, result # "running", HasLeadingSlash(pattern),
                        IsLiteral(pattern), IsValidAddress(address)
                 PROVE  result = "match" <=> pattern = address
        BY DEF LiteralMatchesOnlyItself
    <2>1. pattern \in PatternTexts /\ address \in AddressTexts
        BY DEF IInv, TypeOK
    <2>2. HasLeadingSlash(address)
        BY DEF IsValidAddress
    <2>3. result = "match" <=>
              Parts!MatchesFrom(Tokens[pattern], AddressParts[address], 1, 1)
        BY <2>2, AnswersIfIInv DEF AnswersAsDefined
    <2> QED
        BY <2>1, <2>3, LiteralLayout
<1> QED
    BY <1>1, Invariance, PTL
=============================================================================
