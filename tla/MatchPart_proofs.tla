-------------------------- MODULE MatchPart_proofs --------------------------
(***************************************************************************)
(* Proofs about MatchPart, for every pattern part, address part, width of  *)
(* a word and longest part: every path of matchPart answers as Denotes     *)
(* does, and the walk never leaves the words of its Reach.                 *)
(***************************************************************************)
EXTENDS MatchPart, DataLemmas

(***************************************************************************)
(* Cuts of the first n tokens along the first p bytes.                     *)
(***************************************************************************)
IsCut(tokens, text, cut, n, p) ==
    /\ cut \in [0..n -> 0..p]
    /\ cut[0] = 0 /\ cut[n] = p
    /\ \A k \in 1..n :
          /\ cut[k - 1] <= cut[k]
          /\ Matches(tokens[k], SubSeq(text, cut[k - 1] + 1, cut[k]))

\* Some cut of theirs exists.
Reaches(tokens, text, n, p) ==
    \E cut \in [0..n -> 0..p] : IsCut(tokens, text, cut, n, p)

\* A piece of a prefix is a piece of the text.
LEMMA PieceOfPrefix ==
    ASSUME NEW text \in Seq(Nat), NEW p \in 0..Len(text),
           NEW from \in 0..p, NEW to \in 0..p
    PROVE  SubSeq(SubSeq(text, 1, p), from + 1, to)
               = SubSeq(text, from + 1, to)
<1>1. Len(text) \in Nat
    BY LenProperties
<1>2. CASE from + 1 > to
    BY <1>1, <1>2, SubSeqEmpty, SubSeqProperties
<1>3. CASE from + 1 <= to
    BY <1>1, <1>3, SubSeqOfSubSeq, SubSeqProperties
<1> QED
    BY <1>2, <1>3

\* What the first n tokens denote, said without cutting the texts.
LEMMA PrefixDenotes ==
    ASSUME NEW tokens \in Seq(Tokens), NEW text \in Seq(Nat),
           NEW n \in 0..Len(tokens), NEW p \in 0..Len(text)
    PROVE  Denotes(SubSeq(tokens, 1, n), SubSeq(text, 1, p))
               <=> Reaches(tokens, text, n, p)
<1> DEFINE ts == SubSeq(tokens, 1, n)
           tx == SubSeq(text, 1, p)
<1>1. Len(tokens) \in Nat /\ Len(text) \in Nat
    BY LenProperties
<1>2. /\ Len(ts) = n /\ Len(tx) = p
      /\ \A k \in 1..n : ts[k] = tokens[k]
    BY <1>1, SubSeqProperties
<1>3. ASSUME NEW cut \in [0..n -> 0..p], NEW k \in 1..n
      PROVE  SubSeq(tx, cut[k - 1] + 1, cut[k])
                 = SubSeq(text, cut[k - 1] + 1, cut[k])
    <2>1. cut[k - 1] \in 0..p /\ cut[k] \in 0..p
        BY <1>1
    <2> QED
        BY <2>1, PieceOfPrefix
<1> HIDE DEF ts, tx
<1>4. \A cut \in [0..n -> 0..p] :
          (/\ cut[0] = 0 /\ cut[n] = p
           /\ \A k \in 1..n :
                 /\ cut[k - 1] <= cut[k]
                 /\ Matches(ts[k], SubSeq(tx, cut[k - 1] + 1, cut[k])))
              <=> IsCut(tokens, text, cut, n, p)
    <2> SUFFICES ASSUME NEW cut \in [0..n -> 0..p], cut[0] = 0 /\ cut[n] = p
                 PROVE  (\A k \in 1..n :
                            /\ cut[k - 1] <= cut[k]
                            /\ Matches(ts[k], SubSeq(tx, cut[k - 1] + 1, cut[k])))
                           <=> IsCut(tokens, text, cut, n, p)
        BY DEF IsCut
    <2>1. \A k \in 1..n :
              Matches(ts[k], SubSeq(tx, cut[k - 1] + 1, cut[k]))
                  <=> Matches(tokens[k], SubSeq(text, cut[k - 1] + 1, cut[k]))
        BY <1>2, <1>3
    <2> QED
        BY <2>1 DEF IsCut
<1>5. Denotes(ts, tx) <=> Reaches(tokens, text, n, p)
    BY <1>2, <1>4 DEF Denotes, Reaches
<1> QED
    BY <1>5 DEF ts, tx

\* What all of the tokens denote.
LEMMA WholeDenotes ==
    ASSUME NEW tokens \in Seq(Tokens), NEW text \in Seq(Nat)
    PROVE  Denotes(tokens, text)
               <=> Reaches(tokens, text, Len(tokens), Len(text))
<1>1. /\ Len(tokens) \in Nat /\ Len(text) \in Nat
      /\ SubSeq(tokens, 1, Len(tokens)) = tokens
      /\ SubSeq(text, 1, Len(text)) = text
    BY LenProperties, SubSeqFull
<1>2. Len(tokens) \in 0..Len(tokens) /\ Len(text) \in 0..Len(text)
    BY <1>1
<1>3. Denotes(SubSeq(tokens, 1, Len(tokens)), SubSeq(text, 1, Len(text)))
          <=> Reaches(tokens, text, Len(tokens), Len(text))
    BY <1>2, PrefixDenotes
<1> QED
    BY <1>1, <1>3

\* No tokens match no bytes.
LEMMA ReachesNone ==
    ASSUME NEW tokens, NEW text, NEW p \in Nat
    PROVE  Reaches(tokens, text, 0, p) <=> p = 0
<1>1. ASSUME p = 0 PROVE IsCut(tokens, text, [k \in 0..0 |-> 0], 0, p)
    BY <1>1 DEF IsCut
<1>2. ASSUME p = 0 PROVE Reaches(tokens, text, 0, p)
    <2>1. [k \in 0..0 |-> 0] \in [0..0 -> 0..p]
        BY <1>2
    <2> QED
        BY <1>1, <1>2, <2>1 DEF Reaches
<1> QED
    BY <1>2 DEF Reaches, IsCut

\* The cuts of a rising sequence rise.
LEMMA CutsRise ==
    ASSUME NEW n \in Nat, NEW p \in Nat, NEW cut \in [0..n -> 0..p],
           \A k \in 1..n : cut[k - 1] <= cut[k],
           NEW j \in 0..n
    PROVE  cut[j] <= cut[n]
<1> DEFINE S == {k \in j..n : cut[j] <= cut[k]}
<1>1. j \in S
    OBVIOUS
<1>2. ASSUME NEW k \in j..(n - 1), k \in S PROVE k + 1 \in S
    <2>1. k + 1 \in 1..n /\ (k + 1) - 1 = k
        OBVIOUS
    <2>2. cut[k] <= cut[k + 1]
        BY <2>1
    <2>3. cut[j] \in Int /\ cut[k] \in Int /\ cut[k + 1] \in Int
        BY <2>1
    <2> QED
        BY <1>2, <2>1, <2>2, <2>3
<1>3. j \in Nat
    OBVIOUS
<1> HIDE DEF S
<1>4. j..n \subseteq S
    BY <1>1, <1>2, <1>3, Induction
<1> QED
    BY <1>4 DEF S

\* The first n tokens reach p when the last of them matches what is left
\* behind a place the others reach.
LEMMA ReachesOneMore ==
    ASSUME NEW tokens, NEW text, NEW n \in Nat \ {0}, NEW p \in Nat
    PROVE  Reaches(tokens, text, n, p)
               <=> \E q \in 0..p :
                      /\ Reaches(tokens, text, n - 1, q)
                      /\ Matches(tokens[n], SubSeq(text, q + 1, p))
<1>1. ASSUME Reaches(tokens, text, n, p)
      PROVE  \E q \in 0..p : /\ Reaches(tokens, text, n - 1, q)
                             /\ Matches(tokens[n], SubSeq(text, q + 1, p))
    <2>1. PICK cut \in [0..n -> 0..p] : IsCut(tokens, text, cut, n, p)
        BY <1>1 DEF Reaches
    <2> DEFINE q == cut[n - 1]
               rest == [k \in 0..(n - 1) |-> cut[k]]
    <2>2. q \in 0..p
        OBVIOUS
    <2>3. \A j \in 0..(n - 1) : cut[j] <= q
        <3> SUFFICES ASSUME NEW j \in 0..(n - 1) PROVE cut[j] <= q
            OBVIOUS
        <3>1. n - 1 \in Nat /\ rest \in [0..(n - 1) -> 0..p]
            OBVIOUS
        <3>2. \A k \in 1..(n - 1) : rest[k - 1] <= rest[k]
            BY <2>1 DEF IsCut
        <3>3. p \in Nat /\ j \in 0..(n - 1)
            OBVIOUS
        <3> HIDE DEF rest
        <3>4. rest[j] <= rest[n - 1]
            BY <3>1, <3>2, <3>3, CutsRise
        <3> QED
            BY <3>4 DEF rest
    <2>4. rest \in [0..(n - 1) -> 0..q]
        BY <2>2, <2>3
    <2>5. IsCut(tokens, text, rest, n - 1, q)
        BY <2>1, <2>4 DEF IsCut
    <2>6. Matches(tokens[n], SubSeq(text, q + 1, p))
        BY <2>1 DEF IsCut
    <2> QED
        BY <2>2, <2>4, <2>5, <2>6 DEF Reaches
<1>2. ASSUME NEW q \in 0..p, Reaches(tokens, text, n - 1, q),
             Matches(tokens[n], SubSeq(text, q + 1, p))
      PROVE  Reaches(tokens, text, n, p)
    <2>1. PICK rest \in [0..(n - 1) -> 0..q] :
              IsCut(tokens, text, rest, n - 1, q)
        BY <1>2 DEF Reaches
    <2> DEFINE cut == [k \in 0..n |-> IF k = n THEN p ELSE rest[k]]
    <2>2. cut \in [0..n -> 0..p]
        OBVIOUS
    <2>3. cut[0] = 0 /\ cut[n] = p /\ cut[n - 1] = q
        BY <2>1 DEF IsCut
    <2>4. ASSUME NEW k \in 1..n
          PROVE  /\ cut[k - 1] <= cut[k]
                 /\ Matches(tokens[k], SubSeq(text, cut[k - 1] + 1, cut[k]))
        <3>1. CASE k = n
            BY <1>2, <2>3, <3>1
        <3>2. CASE k # n
            <4>1. cut[k - 1] = rest[k - 1] /\ cut[k] = rest[k]
                  /\ k \in 1..(n - 1)
                BY <3>2
            <4>2. /\ rest[k - 1] <= rest[k]
                  /\ Matches(tokens[k],
                             SubSeq(text, rest[k - 1] + 1, rest[k]))
                BY <2>1, <4>1 DEF IsCut
            <4> QED
                BY <4>1, <4>2
        <3> QED
            BY <3>1, <3>2
    <2>5. IsCut(tokens, text, cut, n, p)
        BY <2>2, <2>3, <2>4 DEF IsCut
    <2> QED
        BY <2>2, <2>5 DEF Reaches
<1> QED
    BY <1>1, <1>2

(***************************************************************************)
(* The walk.                                                               *)
(***************************************************************************)

\* A position lies in the words its quotient counts.
LEMMA InItsWord ==
    ASSUME NEW b \in Nat \ {0}, NEW p \in Nat
    PROVE  /\ p \div b \in Nat
           /\ p < (p \div b + 1) * b
OBVIOUS

\* The words counted for a shorter part are no more.
LEMMA WordsGrow ==
    ASSUME NEW b \in Nat \ {0}, NEW p \in Nat, NEW q \in Nat, p <= q
    PROVE  p \div b <= q \div b
OBVIOUS

\* The widths are as wide as the part needs.
LEMMA WidthFits ==
    ASSUME part \in Seq(Nat), ~TooLong
    PROVE  /\ WordsFor \in {smallReachWords, reachWords}
           /\ WordsFor \in Nat \ {0}
           /\ WordsUsed \in Nat
           /\ WordsUsed <= WordsFor
           /\ \A p \in Positions : p < WordsFor * bitsPerWord
           /\ \A p \in Positions : p < WordsUsed * bitsPerWord
<1>1. /\ Len(part) \in Nat /\ Len(part) <= kMaxAddressPartLength
      /\ bitsPerWord \in Nat \ {0} /\ kMaxAddressPartLength \in Nat
    BY LenProperties, ReachAssumption DEF TooLong
<1>2. /\ Len(part) < WordsUsed * bitsPerWord
      /\ WordsUsed \in Nat
    BY <1>1, InItsWord DEF WordsUsed
<1>3. CASE Len(part) < bitsPerWord
    <2>2. Len(part) \div bitsPerWord = 0
        BY <1>1, <1>3
    <2> QED
        BY <1>1, <1>2, <1>3, <2>2
           DEF WordsFor, smallReachWords, WordsUsed, Positions
<1>4. CASE ~(Len(part) < bitsPerWord)
    <2>1. /\ kMaxAddressPartLength \div bitsPerWord \in Nat
          /\ kMaxAddressPartLength < reachWords * bitsPerWord
        BY <1>1, InItsWord DEF reachWords
    <2>2. Len(part) \div bitsPerWord <= kMaxAddressPartLength \div bitsPerWord
        BY <1>1, WordsGrow
    <2>3. WordsFor = reachWords
        BY <1>4 DEF WordsFor
    <2>4. WordsUsed <= reachWords /\ reachWords \in Nat \ {0}
        BY <1>1, <2>1, <2>2, InItsWord DEF WordsUsed, reachWords
    <2>5. reachWords * bitsPerWord \in Nat /\ WordsUsed * bitsPerWord \in Nat
        BY <1>1, <1>2, <2>4
    <2> QED
        BY <1>1, <1>2, <2>1, <2>3, <2>4, <2>5 DEF Positions
<1> QED
    BY <1>3, <1>4

\* What a token matches, by its kind.
LEMMA StarMatches ==
    ASSUME NEW token, token = AnyBytes, NEW piece
    PROVE  Matches(token, piece)
BY DEF Matches

\* A token for one byte matches a piece of one byte, if it takes it.
LEMMA OneByteMatches ==
    ASSUME NEW token, token.kind # "list", token # AnyBytes,
           NEW text \in Seq(Nat), NEW p \in 0..Len(text), NEW q \in 0..p
    PROVE  Matches(token, SubSeq(text, q + 1, p))
               <=> p = q + 1 /\ Takes(token, text[q + 1])
<1> DEFINE piece == SubSeq(text, q + 1, p)
<1>1. Len(text) \in Nat
    BY LenProperties
<1>2. Len(piece) = p - q
    BY <1>1, SubSeqProperties
<1>3. q < p => piece[1] = text[q + 1]
    BY <1>1, SubSeqProperties
<1>4. Matches(token, piece) <=> Len(piece) = 1 /\ Takes(token, piece[1])
    BY DEF Matches
<1> HIDE DEF piece
<1>5. Matches(token, piece) <=> p = q + 1 /\ Takes(token, text[q + 1])
    BY <1>2, <1>3, <1>4
<1> QED
    BY <1>5 DEF piece

\* A list matches a piece that is one of its alternatives.
LEMMA ListMatches ==
    ASSUME NEW token \in Tokens, token.kind = "list", NEW piece
    PROVE  /\ token.alternatives \in Seq(Seq(Nat))
           /\ Matches(token, piece)
                  <=> \E k \in DOMAIN token.alternatives :
                         token.alternatives[k] = piece
<1>1. token.alternatives \in Seq(Seq(Nat))
    BY DEF Tokens, AnyByte, anyByte, AnyBytes, anyBytes
<1>2. token # AnyBytes
    BY DEF AnyBytes, anyBytes
<1>3. \A byte : ~Takes(token, byte)
    BY DEF Takes, anyByte
<1> QED
    BY <1>1, <1>2, <1>3 DEF Matches

\* The arguments of matchPart are sequences.
LEMMA ArgumentsTyped ==
    ASSUME TypeOK
    PROVE  /\ pattern \in Seq(Tokens) /\ part \in Seq(Nat)
           /\ Len(pattern) \in Nat /\ Len(part) \in Nat
           /\ i \in Nat \ {0}
<1>1. pattern \in Seq(Tokens) /\ part \in Seq(Nat)
    BY PartAssumption DEF TypeOK
<1>2. Len(pattern) \in Nat /\ Len(part) \in Nat
    BY <1>1, LenProperties
<1>3. i \in 1..(Len(pattern) + 1)
    BY DEF TypeOK
<1> QED
    BY <1>1, <1>2, <1>3

\* The positions the first n tokens reach.
Reached(n) == {p \in Positions : Reaches(pattern, part, n, p)}

\* A star reaches every position from the lowest on.
LEMMA StarStep ==
    ASSUME TypeOK, i <= Len(pattern), pattern[i] = AnyBytes,
           reach = Reached(i - 1), Seen = reach, Seen # {}
    PROVE  reach \cup SetFrom(Lowest) = Reached(i)
<1>1. /\ pattern \in Seq(Tokens) /\ part \in Seq(Nat)
      /\ Len(pattern) \in Nat /\ Len(part) \in Nat
      /\ i \in Nat \ {0}
    BY ArgumentsTyped
<1>2. Seen \subseteq Nat
    BY <1>1 DEF Reached, Positions
<1>3. \E m \in Seen : \A n \in Seen : m <= n
    BY <1>2, LeastNumber
<1>4. Lowest \in Seen /\ \A n \in Seen : Lowest <= n
    BY <1>3 DEF Lowest
<1>5. Lowest \in Positions /\ Reaches(pattern, part, i - 1, Lowest)
    BY <1>4 DEF Reached
<1>6. ASSUME NEW p \in Positions
      PROVE  Reaches(pattern, part, i, p) <=> Lowest <= p
    <2>1. p \in Nat /\ p <= Len(part)
        BY <1>1 DEF Positions
    <2>2. Reaches(pattern, part, i, p)
              <=> \E q \in 0..p : Reaches(pattern, part, i - 1, q)
        BY <1>1, <2>1, ReachesOneMore, StarMatches
    <2>3. \A q \in 0..p : Reaches(pattern, part, i - 1, q) => q \in Seen
        BY <1>1, <2>1 DEF Reached, Positions
    <2>4. Lowest <= p => Lowest \in 0..p
        BY <1>1, <1>5, <2>1 DEF Positions
    <2>5. \A q \in 0..p : q \in Seen => Lowest <= p
        BY <1>1, <1>4, <1>5, <2>1 DEF Positions
    <2> QED
        BY <1>5, <2>2, <2>3, <2>4, <2>5
<1>7. reach \cup SetFrom(Lowest) = {p \in Positions : Lowest <= p}
    <2>1. \A p \in reach : p \in Positions /\ Lowest <= p
        BY <1>4 DEF Reached
    <2>2. SetFrom(Lowest) = {p \in Positions : Lowest <= p}
        BY <1>1, <1>5 DEF SetFrom, Positions
    <2> QED
        BY <2>1, <2>2
<1> QED
    BY <1>6, <1>7 DEF Reached

\* A token for one byte moves each position by one, where it takes the byte.
LEMMA ByteStep ==
    ASSUME TypeOK, i <= Len(pattern),
           pattern[i].kind # "list", pattern[i] # AnyBytes,
           reach = Reached(i - 1)
    PROVE  AdvanceWhere(pattern[i]) = Reached(i)
<1>1. /\ pattern \in Seq(Tokens) /\ part \in Seq(Nat)
      /\ Len(pattern) \in Nat /\ Len(part) \in Nat
      /\ i \in Nat \ {0}
    BY ArgumentsTyped
<1>2. ASSUME NEW p \in Positions
      PROVE  Reaches(pattern, part, i, p)
                 <=> \E q \in reach : /\ p = q + 1 /\ q < Len(part)
                                      /\ Takes(pattern[i], part[q + 1])
    <2>1. p \in Nat /\ p <= Len(part) /\ p \in 0..Len(part)
        BY <1>1 DEF Positions
    <2>2. \A q \in 0..p : Matches(pattern[i], SubSeq(part, q + 1, p))
              <=> p = q + 1 /\ Takes(pattern[i], part[q + 1])
        BY <1>1, <2>1, OneByteMatches
    <2>3. Reaches(pattern, part, i, p)
              <=> \E q \in 0..p :
                     /\ Reaches(pattern, part, i - 1, q)
                     /\ Matches(pattern[i], SubSeq(part, q + 1, p))
        BY <1>1, <2>1, ReachesOneMore
    <2>4. \A q \in 0..p : q \in reach <=> Reaches(pattern, part, i - 1, q)
        BY <1>1, <2>1 DEF Reached, Positions
    <2>5. \A q \in reach : q \in Nat
        BY <1>1 DEF Reached, Positions
    <2>6. \A q \in reach : p = q + 1 => q \in 0..p /\ q < Len(part)
        BY <2>1, <2>5
    <2>7. Reaches(pattern, part, i, p)
              <=> \E q \in reach : p = q + 1 /\ Takes(pattern[i], part[q + 1])
        BY <2>2, <2>3, <2>4, <2>6
    <2> QED
        BY <2>6, <2>7
<1>3. \A q \in reach : q < Len(part) => q + 1 \in Positions
    BY <1>1 DEF Reached, Positions
<1> QED
    BY <1>2, <1>3 DEF AdvanceWhere, Reached

\* A list moves each position by each alternative that stands there.
LEMMA ListStep ==
    ASSUME TypeOK, i <= Len(pattern), pattern[i].kind = "list",
           reach = Reached(i - 1)
    PROVE  AdvanceByAlternatives(pattern[i].alternatives) = Reached(i)
<1> DEFINE alts == pattern[i].alternatives
<1>1. /\ pattern \in Seq(Tokens) /\ part \in Seq(Nat)
      /\ Len(pattern) \in Nat /\ Len(part) \in Nat
      /\ i \in Nat \ {0} /\ i \in 1..Len(pattern)
    BY ArgumentsTyped
<1>2. pattern[i] \in Tokens
    BY <1>1, ElementOfSeq
<1>3. /\ alts \in Seq(Seq(Nat))
      /\ \A piece : Matches(pattern[i], piece)
                         <=> \E k \in DOMAIN alts : alts[k] = piece
    BY <1>2, ListMatches
<1> HIDE DEF alts
<1>4. \A k \in DOMAIN alts : Len(alts[k]) \in Nat
    <2> SUFFICES ASSUME NEW k \in DOMAIN alts PROVE Len(alts[k]) \in Nat
        OBVIOUS
    <2>1. alts[k] \in Seq(Nat)
        BY <1>3, LenProperties, ElementOfSeq
    <2> QED
        BY <2>1, LenProperties
<1>5. ASSUME NEW p \in Positions
      PROVE  Reaches(pattern, part, i, p)
                 <=> \E q \in reach, k \in DOMAIN alts :
                        /\ p = q + Len(alts[k])
                        /\ q + Len(alts[k]) <= Len(part)
                        /\ SubSeq(part, q + 1, q + Len(alts[k])) = alts[k]
    <2>1. p \in Nat /\ p <= Len(part)
        BY <1>1 DEF Positions
    <2>0. Reaches(pattern, part, i, p)
              <=> \E q \in 0..p :
                     /\ Reaches(pattern, part, i - 1, q)
                     /\ Matches(pattern[i], SubSeq(part, q + 1, p))
        BY <1>1, <2>1, ReachesOneMore
    <2>2. Reaches(pattern, part, i, p)
              <=> \E q \in 0..p, k \in DOMAIN alts :
                     /\ Reaches(pattern, part, i - 1, q)
                     /\ alts[k] = SubSeq(part, q + 1, p)
        BY <1>3, <2>0
    <2>3. \A q \in 0..p : q \in reach <=> Reaches(pattern, part, i - 1, q)
        BY <1>1, <2>1 DEF Reached, Positions
    <2>4. \A q \in 0..p : Len(SubSeq(part, q + 1, p)) = p - q
        BY <1>1, <2>1, SubSeqProperties
    <2>5. \A q \in reach : q \in Nat
        BY <1>1 DEF Reached, Positions
    <2>6. ASSUME NEW q \in 0..p, NEW k \in DOMAIN alts,
                 Reaches(pattern, part, i - 1, q),
                 alts[k] = SubSeq(part, q + 1, p)
          PROVE  /\ q \in reach /\ p = q + Len(alts[k])
                 /\ q + Len(alts[k]) <= Len(part)
                 /\ SubSeq(part, q + 1, q + Len(alts[k])) = alts[k]
        <3>1. q \in reach
            BY <2>3, <2>6
        <3>2. Len(alts[k]) = p - q
            BY <2>4, <2>6
        <3>3. q + Len(alts[k]) = p
            BY <2>1, <3>2
        <3> QED
            BY <2>1, <2>6, <3>1, <3>3
    <2>7. ASSUME NEW q \in reach, NEW k \in DOMAIN alts,
                 p = q + Len(alts[k]),
                 SubSeq(part, q + 1, q + Len(alts[k])) = alts[k]
          PROVE  /\ q \in 0..p /\ Reaches(pattern, part, i - 1, q)
                 /\ alts[k] = SubSeq(part, q + 1, p)
        <3>1. q \in 0..p
            BY <1>4, <2>1, <2>5, <2>7
        <3> QED
            BY <2>3, <2>7, <3>1
    <2> QED
        BY <2>2, <2>6, <2>7
<1>6. \A q \in reach, k \in DOMAIN alts :
          q + Len(alts[k]) <= Len(part) => q + Len(alts[k]) \in Positions
    BY <1>1, <1>4 DEF Reached, Positions
<1>7. AdvanceByAlternatives(alts) = Reached(i)
    BY <1>5, <1>6 DEF AdvanceByAlternatives, Reached
<1> QED
    BY <1>7 DEF alts

(***************************************************************************)
(* The paths that do not walk.                                             *)
(***************************************************************************)

\* A token for one byte takes the last byte.
LEMMA OneByteReaches ==
    ASSUME TypeOK, NEW n \in 1..Len(pattern),
           pattern[n].kind # "list", pattern[n] # AnyBytes,
           NEW p \in Positions
    PROVE  Reaches(pattern, part, n, p)
               <=> /\ p >= 1
                   /\ Reaches(pattern, part, n - 1, p - 1)
                   /\ Takes(pattern[n], part[p])
<1>1. /\ part \in Seq(Nat) /\ Len(part) \in Nat
      /\ n \in Nat \ {0} /\ p \in Nat /\ p \in 0..Len(part)
    BY ArgumentsTyped DEF Positions
<1>2. Reaches(pattern, part, n, p)
          <=> \E q \in 0..p :
                 /\ Reaches(pattern, part, n - 1, q)
                 /\ Matches(pattern[n], SubSeq(part, q + 1, p))
    BY <1>1, ReachesOneMore
<1>3. \A q \in 0..p : Matches(pattern[n], SubSeq(part, q + 1, p))
          <=> p = q + 1 /\ Takes(pattern[n], part[q + 1])
    BY <1>1, OneByteMatches
<1>4. ASSUME NEW q \in 0..p, p = q + 1,
             Reaches(pattern, part, n - 1, q), Takes(pattern[n], part[q + 1])
      PROVE  /\ p >= 1
             /\ Reaches(pattern, part, n - 1, p - 1)
             /\ Takes(pattern[n], part[p])
    <2>1. p >= 1 /\ q = p - 1
        BY <1>1, <1>4
    <2> QED
        BY <1>4, <2>1
<1>5. ASSUME p >= 1, Reaches(pattern, part, n - 1, p - 1),
             Takes(pattern[n], part[p])
      PROVE  Reaches(pattern, part, n, p)
    <2>1. p - 1 \in 0..p /\ p = (p - 1) + 1
        BY <1>1, <1>5
    <2>2. Matches(pattern[n], SubSeq(part, (p - 1) + 1, p))
        BY <1>3, <1>5, <2>1
    <2> QED
        BY <1>2, <1>5, <2>1, <2>2
<1> QED
    BY <1>2, <1>3, <1>4, <1>5

\* Tokens for one byte each take the first bytes, one by one.
LEMMA OneByteRun ==
    ASSUME TypeOK, NEW n \in 0..Len(pattern),
           \A k \in 1..n : pattern[k].kind # "list" /\ pattern[k] # AnyBytes,
           NEW p \in Positions
    PROVE  Reaches(pattern, part, n, p)
               <=> p = n /\ \A k \in 1..n : Takes(pattern[k], part[k])
<1> DEFINE Run(m, q) == q = m /\ \A k \in 1..m : Takes(pattern[k], part[k])
           S == {m \in 0..n : \A q \in Positions :
                    Reaches(pattern, part, m, q) <=> Run(m, q)}
<1>1. /\ Len(part) \in Nat /\ Len(pattern) \in Nat
      /\ n \in Nat /\ \A q \in Positions : q \in Nat
    BY ArgumentsTyped DEF Positions
<1>2. 0 \in S
    BY <1>1, ReachesNone
<1>3. ASSUME NEW m \in 0..(n - 1), m \in S PROVE m + 1 \in S
    <2> SUFFICES ASSUME NEW q \in Positions
                 PROVE  Reaches(pattern, part, m + 1, q) <=> Run(m + 1, q)
        BY <1>1
    <2>1. m + 1 \in 1..Len(pattern) /\ m + 1 \in 1..n /\ (m + 1) - 1 = m
        BY <1>1
    <2>2. Reaches(pattern, part, m + 1, q)
              <=> /\ q >= 1 /\ Reaches(pattern, part, m, q - 1)
                  /\ Takes(pattern[m + 1], part[q])
        BY <2>1, OneByteReaches
    <2>3. q >= 1 => q - 1 \in Positions
        BY <1>1 DEF Positions
    <2>4. q >= 1 => (Reaches(pattern, part, m, q - 1) <=> Run(m, q - 1))
        BY <1>3, <2>3
    <2>5. Run(m + 1, q)
              <=> q >= 1 /\ Run(m, q - 1) /\ Takes(pattern[m + 1], part[q])
        <3>1. q = m + 1 <=> q >= 1 /\ q - 1 = m
            BY <1>1
        <3>2. \A k \in 1..(m + 1) : k \in 1..m \/ k = m + 1
            BY <1>1
        <3>3. \A k \in 1..m : k \in 1..(m + 1)
            BY <1>1
        <3> QED
            BY <2>1, <3>1, <3>2, <3>3
    <2> HIDE DEF Run
    <2> QED
        BY <2>2, <2>4, <2>5
<1> HIDE DEF S
<1>4. 0..n \subseteq S
    BY <1>1, <1>2, <1>3, Induction
<1>5. n \in S
    BY <1>1, <1>4
<1> QED
    BY <1>5 DEF S

\* What the first tokens do not reach, all of them do not.
LEMMA PrefixReaches ==
    ASSUME NEW tokens, NEW text, NEW n \in Nat, NEW p \in Nat,
           Reaches(tokens, text, n, p), NEW m \in 0..n
    PROVE  \E q \in 0..p : Reaches(tokens, text, m, q)
<1> DEFINE S == {d \in 0..n : \E q \in 0..p : Reaches(tokens, text, n - d, q)}
<1>1. 0 \in S
    OBVIOUS
<1>2. ASSUME NEW d \in 0..(n - 1), d \in S PROVE d + 1 \in S
    <2>1. PICK q \in 0..p : Reaches(tokens, text, n - d, q)
        BY <1>2
    <2>2. n - d \in Nat \ {0} /\ q \in Nat /\ (n - d) - 1 = n - (d + 1)
        OBVIOUS
    <2>3. PICK r \in 0..q : Reaches(tokens, text, n - (d + 1), r)
        BY <2>1, <2>2, ReachesOneMore
    <2>4. r \in 0..p /\ d + 1 \in 0..n
        OBVIOUS
    <2> QED
        BY <2>3, <2>4
<1>3. 0 \in Nat /\ n \in Nat
    OBVIOUS
<1> HIDE DEF S
<1>4. 0..n \subseteq S
    BY <1>1, <1>2, <1>3, Induction
<1>5. n - m \in S /\ n - (n - m) = m
    BY <1>4
<1> QED
    BY <1>5 DEF S

\* Each token counts a star or needs a byte.
LEMMA StarsGrow ==
    ASSUME NEW k \in Nat
    PROVE  /\ IsFiniteSet(Stars(k)) /\ Cardinality(Stars(k)) \in Nat
           /\ Stars(0) = {} /\ Cardinality(Stars(0)) = 0
           /\ Cardinality(Stars(k + 1)) =
                  IF pattern[k + 1] = AnyBytes THEN Cardinality(Stars(k)) + 1
                                               ELSE Cardinality(Stars(k))
<1>1. IsFiniteSet(1..k) /\ Stars(k) \subseteq 1..k
    BY FS_Interval DEF Stars
<1>2. IsFiniteSet(Stars(k)) /\ Cardinality(Stars(k)) \in Nat
    BY <1>1, FS_Subset, FS_CardinalityType
<1>3. Stars(0) = {} /\ Cardinality(Stars(0)) = 0
    BY FS_EmptySet DEF Stars
<1>4. CASE pattern[k + 1] = AnyBytes
    <2>1. Stars(k + 1) = Stars(k) \cup {k + 1} /\ k + 1 \notin Stars(k)
        BY <1>4 DEF Stars
    <2> QED
        BY <1>2, <1>3, <1>4, <2>1, FS_AddElement
<1>5. CASE pattern[k + 1] # AnyBytes
    <2>1. Stars(k + 1) = Stars(k)
        BY <1>5 DEF Stars
    <2> QED
        BY <1>2, <1>3, <1>5, <2>1
<1> QED
    BY <1>4, <1>5

\* Tokens that are not lists reach no place before their number, not counting
\* the stars.
LEMMA TokensNeedBytes ==
    ASSUME TypeOK, NEW n \in 0..Len(pattern),
           \A k \in 1..n : pattern[k].kind # "list",
           NEW p \in Positions, Reaches(pattern, part, n, p)
    PROVE  NumTokens(n) <= p
<1> DEFINE S == {m \in 0..n : \A q \in Positions :
                    Reaches(pattern, part, m, q) => NumTokens(m) <= q}
<1>1. /\ Len(part) \in Nat /\ Len(pattern) \in Nat
      /\ n \in Nat /\ \A q \in Positions : q \in Nat
    BY ArgumentsTyped DEF Positions
<1>2. 0 \in S
    <2>1. NumTokens(0) = 0
        BY StarsGrow DEF NumTokens
    <2> QED
        BY <1>1, <2>1
<1>3. ASSUME NEW m \in 0..(n - 1), m \in S PROVE m + 1 \in S
    <2> SUFFICES ASSUME NEW q \in Positions,
                        Reaches(pattern, part, m + 1, q)
                 PROVE  NumTokens(m + 1) <= q
        BY <1>1
    <2>1. /\ m + 1 \in 1..Len(pattern) /\ m + 1 \in 1..n /\ (m + 1) - 1 = m
          /\ m \in Nat /\ m + 1 \in Nat \ {0} /\ q \in Nat
        BY <1>1
    <2>2. /\ Cardinality(Stars(m)) \in Nat
          /\ Cardinality(Stars(m + 1)) =
                  IF pattern[m + 1] = AnyBytes THEN Cardinality(Stars(m)) + 1
                                               ELSE Cardinality(Stars(m))
        BY <2>1, StarsGrow
    <2>3. CASE pattern[m + 1] = AnyBytes
        <3>1. PICK r \in 0..q : Reaches(pattern, part, m, r)
            <4>1. \E r \in 0..q : Reaches(pattern, part, (m + 1) - 1, r)
                BY <2>1, ReachesOneMore
            <4> QED
                BY <2>1, <4>1
        <3>2. r \in Positions /\ r <= q /\ r \in Nat
            BY <1>1, <2>1 DEF Positions
        <3>3. NumTokens(m) <= r
            BY <1>3, <3>1, <3>2
        <3> QED
            BY <2>1, <2>2, <2>3, <3>2, <3>3 DEF NumTokens
    <2>4. CASE pattern[m + 1] # AnyBytes
        <3>1. q >= 1 /\ Reaches(pattern, part, m, q - 1)
            BY <2>1, <2>4, OneByteReaches
        <3>2. q - 1 \in Positions
            BY <1>1, <2>1, <3>1 DEF Positions
        <3>3. NumTokens(m) <= q - 1
            BY <1>3, <3>1, <3>2
        <3> QED
            BY <2>1, <2>2, <2>4, <3>3 DEF NumTokens
    <2> QED
        BY <2>3, <2>4
<1> HIDE DEF S
<1>4. 0..n \subseteq S
    BY <1>1, <1>2, <1>3, Induction
<1>5. n \in S
    BY <1>1, <1>4
<1> QED
    BY <1>5 DEF S

\* The scan of shapeOf ends at the first token that ends it.
LEMMA StopIsFirst ==
    ASSUME TypeOK
    PROVE  /\ Stop \in 1..(Len(pattern) + 1)
           /\ \A k \in 1..(Stop - 1) : ~EndsScan(k)
<1> DEFINE Ends == {k \in 1..Len(pattern) : EndsScan(k)}
<1>1. Len(pattern) \in Nat
    BY ArgumentsTyped
<1>2. CASE Ends = {}
    <2>1. Stop = Len(pattern) + 1
        BY <1>2 DEF Stop
    <2> QED
        BY <1>1, <1>2, <2>1
<1>3. CASE Ends # {}
    <2>1. PICK m \in Ends : \A k \in Ends : m <= k
        <3>1. Ends \subseteq Nat
            OBVIOUS
        <3> HIDE DEF Ends
        <3> QED
            BY <1>3, <3>1, LeastNumber
    <2>2. \A j \in 1..(m - 1) : ~EndsScan(j)
        <3> SUFFICES ASSUME NEW j \in 1..(m - 1), EndsScan(j) PROVE FALSE
            OBVIOUS
        <3>1. j \in Ends /\ ~(m <= j)
            BY <1>1
        <3> QED
            BY <2>1, <3>1
    <2>3. \E k \in 1..Len(pattern) : EndsScan(k)
        BY <1>3
    <2>4. \E k \in 1..Len(pattern) :
              EndsScan(k) /\ \A j \in 1..(k - 1) : ~EndsScan(j)
        BY <2>2
    <2>5. /\ Stop \in 1..Len(pattern)
          /\ \A j \in 1..(Stop - 1) : ~EndsScan(j)
        BY <2>3, <2>4 DEF Stop
    <2> QED
        BY <1>1, <2>5
<1> QED
    BY <1>2, <1>3

\* A pattern part with an opener has a first one.
LEMMA FirstOpenerIsFirst ==
    ASSUME TypeOK, HasOpener
    PROVE  FirstOpener \in 1..Len(pattern)
<1> DEFINE Openers == {k \in 1..Len(pattern) : IsOpener(pattern[k])}
<1>1. Len(pattern) \in Nat
    BY ArgumentsTyped
<1>2. PICK m \in Openers : \A k \in Openers : m <= k
    <2>1. Openers \subseteq Nat /\ Openers # {}
        BY DEF HasOpener
    <2> HIDE DEF Openers
    <2> QED
        BY <2>1, LeastNumber
<1>3. \A j \in 1..(m - 1) : ~IsOpener(pattern[j])
    <2> SUFFICES ASSUME NEW j \in 1..(m - 1), IsOpener(pattern[j]) PROVE FALSE
        OBVIOUS
    <2>1. j \in Openers /\ ~(m <= j)
        BY <1>1
    <2> QED
        BY <1>2, <2>1
<1> QED
    BY <1>2, <1>3 DEF FirstOpener

\* A part the scan takes to be too short cannot be matched.
LEMMA TooShortNeverMatches ==
    ASSUME TypeOK, HasOpener, ExceedsPart
    PROVE  ~Denotes(pattern, part)
<1>1. /\ pattern \in Seq(Tokens) /\ part \in Seq(Nat)
      /\ Len(pattern) \in Nat /\ Len(part) \in Nat
    BY ArgumentsTyped
<1>2. PICK k \in FirstOpener..(Stop - 1) : NumTokens(k) > Len(part)
    BY DEF ExceedsPart
<1>3. /\ FirstOpener \in 1..Len(pattern)
      /\ Stop \in 1..(Len(pattern) + 1)
      /\ \A j \in 1..(Stop - 1) : pattern[j].kind # "list"
    BY FirstOpenerIsFirst, StopIsFirst DEF EndsScan
<1>4. /\ k \in 0..Len(pattern) /\ k \in Nat
      /\ \A j \in 1..k : pattern[j].kind # "list"
    BY <1>1, <1>3
<1>5. ASSUME Denotes(pattern, part) PROVE FALSE
    <2>1. Reaches(pattern, part, Len(pattern), Len(part))
        BY <1>1, <1>5, WholeDenotes
    <2>2. PICK q \in 0..Len(part) : Reaches(pattern, part, k, q)
        BY <1>1, <1>4, <2>1, PrefixReaches
    <2>3. q \in Positions
        BY DEF Positions
    <2>4. NumTokens(k) <= q
        BY <1>4, <2>2, <2>3, TokensNeedBytes
    <2>5. Cardinality(Stars(k)) \in Nat
        BY <1>4, StarsGrow
    <2> QED
        BY <1>1, <1>2, <1>4, <2>4, <2>5 DEF NumTokens
<1> QED
    BY <1>5

\* A pattern part scanned to its end has no list and at most one star.
LEMMA DirectShape ==
    ASSUME TypeOK, IsDirect
    PROVE  /\ \A k \in 1..Len(pattern) : pattern[k].kind # "list"
           /\ \A j, k \in Stars(Len(pattern)) : j = k
<1> DEFINE L == Len(pattern)
           Behind(j) == {k \in Stars(L) : j < k}
<1>1. L \in Nat /\ Stars(L) \subseteq Nat /\ \A j : Behind(j) \subseteq Nat
    BY ArgumentsTyped DEF Stars
<1>2. \A k \in 1..L : ~EndsScan(k)
    BY <1>1, StopIsFirst DEF IsDirect
<1>3. ASSUME NEW j \in Stars(L), NEW k \in Stars(L), j < k PROVE FALSE
    <2>1. PICK s \in Stars(L) : \A n \in Stars(L) : s <= n
        BY <1>1, LeastNumber
    <2>2. s < k
        BY <1>1, <1>3, <2>1
    <2>3. PICK m \in Behind(s) : \A n \in Behind(s) : m <= n
        <3>1. Behind(s) # {} /\ Behind(s) \subseteq Nat
            BY <1>1, <2>2
        <3> HIDE DEF Behind
        <3> QED
            BY <3>1, LeastNumber
    <2>4. m \in Stars(L) /\ s < m /\ s \in Nat /\ m \in Nat
        BY <1>1, <2>3
    <2>5. Stars(m) = {s, m}
        <3>1. ASSUME NEW n \in Stars(m), n # s, n # m PROVE FALSE
            <4>1. n \in Stars(L) /\ n < m /\ n \in Nat
                BY <1>1, <2>4, <3>1 DEF Stars
            <4>2. n \in Behind(s)
                BY <2>1, <2>4, <3>1, <4>1
            <4> QED
                BY <2>3, <2>4, <4>1, <4>2
        <3>2. s \in Stars(m) /\ m \in Stars(m)
            BY <1>1, <2>4 DEF Stars
        <3> QED
            BY <3>1, <3>2
    <2>6. Cardinality({s, m}) = 2
        <3>1. IsFiniteSet({s}) /\ Cardinality({s}) = 1
            BY FS_Singleton
        <3>2. Cardinality({s} \cup {m}) = Cardinality({s}) + 1
            <4>1. m \notin {s}
                BY <2>4
            <4> QED
                BY <3>1, <4>1, FS_AddElement
        <3>3. {s, m} = {s} \cup {m}
            OBVIOUS
        <3>4. Cardinality({s, m}) = 1 + 1
            BY <3>1, <3>2, <3>3, Zenon
        <3> QED
            BY <3>4
    <2>7. EndsScan(m) /\ m \in 1..L
        BY <2>4, <2>5, <2>6 DEF EndsScan, Stars
    <2> QED
        BY <1>2, <2>7
<1>4. \A j, k \in Stars(L) : j = k
    <2> SUFFICES ASSUME NEW j \in Stars(L), NEW k \in Stars(L), j # k
                 PROVE  FALSE
        OBVIOUS
    <2>1. j < k \/ k < j
        BY <1>1
    <2> QED
        BY <1>3, <2>1
<1> QED
    BY <1>2, <1>4 DEF EndsScan

\* Tokens for one byte each behind a star take the last bytes, one by one.
LEMMA OneByteTail ==
    ASSUME TypeOK, NEW s \in 1..Len(pattern), pattern[s] = AnyBytes,
           \A k \in 1..Len(pattern) : k # s =>
               pattern[k].kind # "list" /\ pattern[k] # AnyBytes,
           NEW n \in s..Len(pattern), NEW p \in Positions
    PROVE  Reaches(pattern, part, n, p)
               <=> /\ p >= n - 1
                   /\ \A k \in 1..(s - 1) : Takes(pattern[k], part[k])
                   /\ \A k \in (s + 1)..n : Takes(pattern[k], part[p - (n - k)])
<1> DEFINE First == \A k \in 1..(s - 1) : Takes(pattern[k], part[k])
           EndOfPart(m, q) ==
               /\ q >= m - 1 /\ First
               /\ \A k \in (s + 1)..m : Takes(pattern[k], part[q - (m - k)])
           S == {m \in s..n : \A q \in Positions :
                    Reaches(pattern, part, m, q) <=> EndOfPart(m, q)}
<1>1. /\ Len(part) \in Nat /\ Len(pattern) \in Nat
      /\ n \in Nat /\ s \in Nat \ {0} /\ \A q \in Positions : q \in Nat
    BY ArgumentsTyped DEF Positions
<1>2. s \in S
    <2> SUFFICES ASSUME NEW q \in Positions
                 PROVE  Reaches(pattern, part, s, q) <=> EndOfPart(s, q)
        BY <1>1
    <2>1. q \in Nat /\ q <= Len(part)
        BY <1>1 DEF Positions
    <2>2. Reaches(pattern, part, s, q)
              <=> \E r \in 0..q : Reaches(pattern, part, s - 1, r)
        BY <1>1, <2>1, ReachesOneMore, StarMatches
    <2>3. ASSUME NEW r \in 0..q
          PROVE  Reaches(pattern, part, s - 1, r) <=> r = s - 1 /\ First
        <3>1. r \in Positions
            BY <1>1, <2>1 DEF Positions
        <3>2. s - 1 \in 0..Len(pattern)
            BY <1>1
        <3>3. \A k \in 1..(s - 1) :
                  pattern[k].kind # "list" /\ pattern[k] # AnyBytes
            BY <1>1
        <3> QED
            BY <3>1, <3>2, <3>3, OneByteRun
    <2>4. EndOfPart(s, q) <=> q >= s - 1 /\ First
        BY <1>1
    <2>5. q >= s - 1 <=> s - 1 \in 0..q
        BY <1>1, <2>1
    <2> HIDE DEF First, EndOfPart
    <2> QED
        BY <2>2, <2>3, <2>4, <2>5
<1>3. ASSUME NEW m \in s..(n - 1), m \in S PROVE m + 1 \in S
    <2> SUFFICES ASSUME NEW q \in Positions
                 PROVE  Reaches(pattern, part, m + 1, q) <=> EndOfPart(m + 1, q)
        BY <1>1
    <2>1. /\ m + 1 \in 1..Len(pattern) /\ m + 1 # s /\ (m + 1) - 1 = m
          /\ q \in Nat /\ m \in Nat
        BY <1>1
    <2>2. Reaches(pattern, part, m + 1, q)
              <=> /\ q >= 1 /\ Reaches(pattern, part, m, q - 1)
                  /\ Takes(pattern[m + 1], part[q])
        BY <2>1, OneByteReaches
    <2>3. q >= 1 => q - 1 \in Positions
        BY <1>1 DEF Positions
    <2>4. q >= 1 => (Reaches(pattern, part, m, q - 1) <=> EndOfPart(m, q - 1))
        BY <1>3, <2>3
    <2>5. EndOfPart(m + 1, q)
              <=> q >= 1 /\ EndOfPart(m, q - 1) /\ Takes(pattern[m + 1], part[q])
        <3>1. q >= (m + 1) - 1 <=> q >= 1 /\ q - 1 >= m - 1
            BY <1>1, <2>1
        <3>2. \A k \in (s + 1)..m : (q - 1) - (m - k) = q - ((m + 1) - k)
            BY <1>1, <2>1
        <3>3. q - ((m + 1) - (m + 1)) = q
            BY <2>1
        <3>4. \A k : k \in (s + 1)..(m + 1) <=> k \in (s + 1)..m \/ k = m + 1
            BY <1>1, <2>1
        <3> HIDE DEF First
        <3> QED
            BY <3>1, <3>2, <3>3, <3>4
    <2> HIDE DEF EndOfPart
    <2> QED
        BY <2>2, <2>4, <2>5
<1> HIDE DEF S
<1>4. s..n \subseteq S
    BY <1>1, <1>2, <1>3, Induction
<1>5. n \in S
    BY <1>1, <1>4
<1> QED
    BY <1>5 DEF S

\* matchPartDirect answers as the definition does.
LEMMA DirectIsDenotes ==
    ASSUME TypeOK, IsDirect
    PROVE  MatchPartDirect <=> Denotes(pattern, part)
<1> DEFINE L == Len(pattern)
           A == Len(part)
<1>1. /\ pattern \in Seq(Tokens) /\ part \in Seq(Nat)
      /\ L \in Nat /\ A \in Nat /\ A \in Positions
    BY ArgumentsTyped DEF Positions
<1>2. /\ \A k \in 1..L : pattern[k].kind # "list"
      /\ \A j, k \in Stars(L) : j = k
    BY DirectShape
<1>3. Denotes(pattern, part) <=> Reaches(pattern, part, L, A)
    BY <1>1, WholeDenotes
<1>4. CASE Stars(L) = {}
    <2>1. \A k \in 1..L : pattern[k] # AnyBytes
        BY <1>4 DEF Stars
    <2>2. L \in 0..L
        BY <1>1
    <2>3. Reaches(pattern, part, L, A)
              <=> A = L /\ \A k \in 1..L : Takes(pattern[k], part[k])
        BY <1>1, <1>2, <2>1, <2>2, OneByteRun
    <2> QED
        BY <1>3, <1>4, <2>3 DEF MatchPartDirect, MatchTokens
<1>5. CASE Stars(L) # {}
    <2> DEFINE s == CHOOSE k \in Stars(L) : TRUE
               first == SubSeq(part, 1, s - 1)
               after == L - s
               rest == SubSeq(pattern, s + 1, L)
               tail == SubSeq(part, A - after + 1, A)
    <2>1. s \in Stars(L)
        BY <1>5
    <2> HIDE DEF s
    <2>2. /\ s \in 1..L /\ pattern[s] = AnyBytes
          /\ \A k \in 1..L : k # s =>
                 pattern[k].kind # "list" /\ pattern[k] # AnyBytes
        BY <1>2, <2>1 DEF Stars
    <2>3. L \in s..L
        BY <1>1, <2>2
    <2>4. Reaches(pattern, part, L, A)
              <=> /\ A >= L - 1
                  /\ \A k \in 1..(s - 1) : Takes(pattern[k], part[k])
                  /\ \A k \in (s + 1)..L : Takes(pattern[k], part[A - (L - k)])
        BY <1>1, <2>2, <2>3, OneByteTail
    <2>5. ASSUME A >= L - 1
          PROVE  MatchTokens(pattern, first)
                     <=> \A k \in 1..(s - 1) : Takes(pattern[k], part[k])
        <3>1. /\ Len(first) = s - 1
              /\ \A k \in 1..(s - 1) : first[k] = part[k]
            BY <1>1, <2>2, <2>5, SubSeqProperties
        <3> HIDE DEF first
        <3> QED
            BY <3>1 DEF MatchTokens
    <2>6. ASSUME A >= L - 1
          PROVE  MatchTokens(rest, tail)
                     <=> \A k \in (s + 1)..L :
                            Takes(pattern[k], part[A - (L - k)])
        <3>1. /\ after \in Nat /\ after <= A
              /\ A - (A - after + 1) + 1 = after
            BY <1>1, <2>2, <2>6
        <3>2. /\ Len(tail) = after
              /\ \A k \in 1..after : tail[k] = part[A - after + k]
            BY <1>1, <3>1, SubSeqProperties, SMTT(20)
        <3>3. \A k \in 1..after : rest[k] = pattern[s + k]
            BY <1>1, <2>2, <3>1, SubSeqProperties
        <3>4. MatchTokens(rest, tail)
                  <=> \A k \in 1..after :
                         Takes(pattern[s + k], part[A - after + k])
            <4> HIDE DEF rest, tail, after
            <4> QED
                BY <3>2, <3>3 DEF MatchTokens
        <3>5. ASSUME NEW k \in 1..after
              PROVE  s + k \in (s + 1)..L /\ A - (L - (s + k)) = A - after + k
            BY <1>1, <2>2, <3>1
        <3>6. ASSUME NEW k \in (s + 1)..L
              PROVE  /\ k - s \in 1..after /\ s + (k - s) = k
                     /\ A - after + (k - s) = A - (L - k)
            BY <1>1, <2>2, <3>1
        <3> HIDE DEF after
        <3> QED
            BY <3>4, <3>5, <3>6
    <2>7. MatchPartDirect
              <=> /\ A >= L - 1
                  /\ MatchTokens(pattern, first)
                  /\ MatchTokens(rest, tail)
        BY <1>5 DEF MatchPartDirect, s
    <2> HIDE DEF first, rest, tail, after
    <2> QED
        BY <1>3, <2>4, <2>5, <2>6, <2>7
<1> QED
    BY <1>4, <1>5

\* A pattern part without an opener is compared as it is.
LEMMA LiteralIsDenotes ==
    ASSUME TypeOK, ~HasOpener
    PROVE  Len(pattern) = Len(part) /\ MatchTokens(pattern, part)
               <=> Denotes(pattern, part)
<1> DEFINE L == Len(pattern)
           A == Len(part)
<1>1. /\ pattern \in Seq(Tokens) /\ part \in Seq(Nat)
      /\ L \in Nat /\ A \in Nat /\ A \in Positions /\ L \in 0..L
    BY ArgumentsTyped DEF Positions
<1>2. \A k \in 1..L : pattern[k].kind # "list" /\ pattern[k] # AnyBytes
    BY DEF HasOpener, IsOpener, AnyBytes, anyBytes
<1>3. Reaches(pattern, part, L, A)
          <=> A = L /\ \A k \in 1..L : Takes(pattern[k], part[k])
    BY <1>1, <1>2, OneByteRun
<1>4. Denotes(pattern, part) <=> Reaches(pattern, part, L, A)
    BY <1>1, WholeDenotes
<1> QED
    BY <1>3, <1>4 DEF MatchTokens

(***************************************************************************)
(* The invariant.                                                          *)
(***************************************************************************)

\* The walk begins at the first token, for a part that is not too long.
WalkBegins ==
    /\ numWords = 0 => i = 1
    /\ numWords # 0 => ~TooLong

\* The invariant: that, and the invariants themselves.
IInv == TypeOK /\ WalkBegins /\ ReachFits /\ ReachIsPrefixMatch
            /\ ResultAsDefined

\* What ReachIsPrefixMatch says, without cutting the texts.
LEMMA ReachIsReached ==
    ASSUME TypeOK, numWords # 0
    PROVE  ReachIsPrefixMatch <=> reach = Reached(i - 1)
<1>1. /\ pattern \in Seq(Tokens) /\ part \in Seq(Nat)
      /\ Len(pattern) \in Nat /\ Len(part) \in Nat
      /\ i - 1 \in 0..Len(pattern)
    <2>1. i \in 1..(Len(pattern) + 1)
        BY DEF TypeOK
    <2> QED
        BY <2>1, ArgumentsTyped
<1>2. \A p \in Positions :
          Denotes(SubSeq(pattern, 1, i - 1), SubSeq(part, 1, p))
              <=> Reaches(pattern, part, i - 1, p)
    BY <1>1, PrefixDenotes DEF Positions
<1> QED
    BY <1>2 DEF ReachIsPrefixMatch, Reached

\* A pass of the loop that leaves reach as the next tokens say keeps the
\* invariant.
LEMMA AdvanceKeeps ==
    ASSUME IInv, Looping, NEW next, next = Reached(i), Advance(next)
    PROVE  IInv'
<1>1. /\ Len(pattern) \in Nat /\ Len(part) \in Nat /\ i \in Nat \ {0}
      /\ i <= Len(pattern)
    BY ArgumentsTyped DEF IInv, Looping
<1>2. /\ reach' = Reached(i) /\ i' = i + 1
      /\ UNCHANGED <<pattern, part, numWords, result>>
      /\ result = "running" /\ numWords # 0
    BY DEF Advance, Looping
<1>3. TypeOK'
    BY <1>1, <1>2 DEF IInv, TypeOK, Positions, Reached
<1>4. /\ WalkBegins' /\ ResultAsDefined' /\ WordsUsed' = WordsUsed
      /\ Positions' = Positions
    BY <1>2 DEF IInv, WalkBegins, ResultAsDefined, TooLong, WordsUsed, Positions
<1>5. \A p \in Positions :
          Denotes(SubSeq(pattern, 1, i), SubSeq(part, 1, p))
              <=> Reaches(pattern, part, i, p)
    <2>1. pattern \in Seq(Tokens) /\ part \in Seq(Nat) /\ i \in 0..Len(pattern)
        BY <1>1, ArgumentsTyped DEF IInv
    <2> QED
        BY <2>1, PrefixDenotes DEF Positions
<1>6. i' - 1 = i
    BY <1>1, <1>2
<1>7. ReachIsPrefixMatch'
    BY <1>2, <1>4, <1>5, <1>6 DEF ReachIsPrefixMatch, Reached
<1>8. ReachFits'
    <2>1. /\ \A p \in Positions : p < numWords * bitsPerWord
          /\ WordsUsed <= numWords /\ ~TooLong
        BY <1>2 DEF IInv, ReachFits, WalkBegins
    <2>2. \A p \in Positions : p < WordsUsed * bitsPerWord
        <3>1. part \in Seq(Nat)
            BY ArgumentsTyped DEF IInv
        <3> QED
            BY <2>1, <3>1, WidthFits
    <2>3. Seen' = reach'
        BY <1>2, <1>4, <2>2 DEF Seen, Reached, Positions
    <2> QED
        BY <1>2, <1>4, <2>1, <2>3 DEF ReachFits
<1> QED
    BY <1>3, <1>4, <1>7, <1>8 DEF IInv

\* An answer before the walk keeps the invariant when it is the right one.
LEMMA AnswerKeeps ==
    ASSUME IInv, Starting, NEW matches \in BOOLEAN, Answer(matches),
           UNCHANGED <<pattern, part, i, numWords, reach>>,
           matches <=> ~TooLong /\ Denotes(pattern, part)
    PROVE  IInv'
<1>1. TypeOK'
    BY DEF IInv, TypeOK, Answer, Positions
<1>2. numWords' = 0 /\ i' = i /\ numWords = 0
    BY DEF Starting
<1>3. WalkBegins' /\ ReachFits' /\ ReachIsPrefixMatch'
    BY <1>2 DEF IInv, WalkBegins, ReachFits, ReachIsPrefixMatch
<1>4. ResultAsDefined'
    <2>1. /\ result' = "match" <=> matches
          /\ TooLong' <=> TooLong
          /\ Denotes(pattern, part)' <=> Denotes(pattern, part)
        BY DEF Answer, TooLong
    <2> QED
        BY <2>1 DEF ResultAsDefined
<1> QED
    BY <1>1, <1>3, <1>4 DEF IInv

\* The invariant holds when matchPart is called.
LEMMA InitKeeps ==
    Init => IInv
<1> SUFFICES ASSUME Init PROVE IInv
    OBVIOUS
<1>1. pattern \in Seq(Tokens) /\ part \in Seq(Nat)
    BY PartAssumption DEF Init
<1>2. Len(pattern) \in Nat /\ Len(part) \in Nat
    BY <1>1, LenProperties
<1>3. TypeOK
    BY <1>2 DEF Init, TypeOK
<1> QED
    BY <1>3 DEF Init, IInv, WalkBegins, ReachFits, ReachIsPrefixMatch,
                ResultAsDefined

\* A part that is too long matches nothing.
LEMMA RejectLongPartKeeps ==
    IInv /\ RejectLongPart => IInv'
BY AnswerKeeps DEF RejectLongPart

\* The comparison byte for byte keeps the invariant.
LEMMA CompareLiteralKeeps ==
    IInv /\ CompareLiteral => IInv'
<1> SUFFICES ASSUME IInv, CompareLiteral PROVE IInv'
    OBVIOUS
<1> DEFINE same == Len(pattern) = Len(part) /\ MatchTokens(pattern, part)
<1>1. same \in BOOLEAN /\ (same <=> Denotes(pattern, part))
    BY LiteralIsDenotes DEF CompareLiteral, IInv
<1>2. /\ Starting /\ ~TooLong /\ Answer(same)
      /\ UNCHANGED <<pattern, part, i, numWords, reach>>
    BY DEF CompareLiteral
<1> HIDE DEF same
<1> QED
    BY <1>1, <1>2, AnswerKeeps

\* The rejection of a part that is too short keeps the invariant.
LEMMA RejectShortPartKeeps ==
    IInv /\ RejectShortPart => IInv'
<1> SUFFICES ASSUME IInv, RejectShortPart PROVE IInv'
    OBVIOUS
<1>1. ~Denotes(pattern, part)
    BY TooShortNeverMatches DEF RejectShortPart, IInv
<1> QED
    BY <1>1, AnswerKeeps DEF RejectShortPart

\* The direct match keeps the invariant.
LEMMA MatchDirectKeeps ==
    IInv /\ MatchDirect => IInv'
<1> SUFFICES ASSUME IInv, MatchDirect PROVE IInv'
    OBVIOUS
<1>1. MatchPartDirect <=> Denotes(pattern, part)
    BY DirectIsDenotes DEF MatchDirect, IInv
<1>2. MatchPartDirect \in BOOLEAN
    BY DEF MatchPartDirect
<1>3. /\ Starting /\ ~TooLong /\ Answer(MatchPartDirect)
      /\ UNCHANGED <<pattern, part, i, numWords, reach>>
    BY DEF MatchDirect
<1> QED
    BY <1>1, <1>2, <1>3, AnswerKeeps

\* The walk begins at the one position that no token reaches.
LEMMA StartWithinKeeps ==
    IInv /\ StartWithin => IInv'
<1> SUFFICES ASSUME IInv, StartWithin PROVE IInv'
    OBVIOUS
<1>1. /\ pattern \in Seq(Tokens) /\ part \in Seq(Nat)
      /\ Len(pattern) \in Nat /\ Len(part) \in Nat
      /\ TypeOK /\ i = 1 /\ ~TooLong /\ result = "running"
    BY ArgumentsTyped DEF IInv, WalkBegins, StartWithin, Starting
<1>2. /\ numWords' = WordsFor /\ reach' = {0}
      /\ UNCHANGED <<pattern, part, i, result>>
    BY DEF StartWithin
<1>3. /\ WordsFor \in {smallReachWords, reachWords} /\ WordsFor \in Nat \ {0}
      /\ WordsUsed <= WordsFor
      /\ \A p \in Positions : p < WordsFor * bitsPerWord
      /\ \A p \in Positions : p < WordsUsed * bitsPerWord
    BY <1>1, WidthFits
<1>4. 0 \in Positions
    BY <1>1 DEF Positions
<1>5. TypeOK'
    BY <1>1, <1>2, <1>3, <1>4 DEF TypeOK, Positions
<1>6. WalkBegins' /\ ResultAsDefined'
    BY <1>1, <1>2, <1>3 DEF WalkBegins, TooLong, ResultAsDefined
<1>7. ReachFits'
    <2>1. WordsUsed' = WordsUsed /\ Positions' = Positions
        BY <1>2 DEF WordsUsed, Positions
    <2>2. Seen' = reach'
        BY <1>2, <1>3, <1>4, <2>1 DEF Seen
    <2> QED
        BY <1>2, <1>3, <2>1, <2>2 DEF ReachFits
<1>8. ReachIsPrefixMatch'
    <2>1. \A p \in Positions :
              Denotes(SubSeq(pattern, 1, 0), SubSeq(part, 1, p)) <=> p = 0
        <3> SUFFICES ASSUME NEW p \in Positions
                     PROVE  Denotes(SubSeq(pattern, 1, 0), SubSeq(part, 1, p))
                                <=> p = 0
            OBVIOUS
        <3>1. p \in 0..Len(part) /\ p \in Nat /\ 0 \in 0..Len(pattern)
            BY <1>1 DEF Positions
        <3> QED
            BY <1>1, <3>1, PrefixDenotes, ReachesNone
    <2>2. i' - 1 = 0 /\ Positions' = Positions
        BY <1>1, <1>2 DEF Positions
    <2> QED
        BY <1>2, <1>4, <2>1, <2>2 DEF ReachIsPrefixMatch
<1> QED
    BY <1>5, <1>6, <1>7, <1>8 DEF IInv

\* A star keeps the invariant.
LEMMA TakeAnyBytesKeeps ==
    IInv /\ TakeAnyBytes => IInv'
<1> SUFFICES ASSUME IInv, TakeAnyBytes PROVE IInv'
    OBVIOUS
<1>1. reach = Reached(i - 1) /\ Seen = reach
    BY ReachIsReached DEF IInv, TakeAnyBytes, Looping, ReachFits
<1>2. reach \cup SetFrom(Lowest) = Reached(i)
    BY <1>1, StarStep DEF IInv, TakeAnyBytes, Looping
<1> QED
    BY <1>2, AdvanceKeeps DEF TakeAnyBytes

\* A token for one byte keeps the invariant.
LEMMA TakeOneByteKeeps ==
    IInv /\ TakeOneByte => IInv'
<1> SUFFICES ASSUME IInv, TakeOneByte PROVE IInv'
    OBVIOUS
<1>1. reach = Reached(i - 1)
    BY ReachIsReached DEF IInv, TakeOneByte, Looping
<1>2. pattern[i].kind # "list" /\ pattern[i] # AnyBytes
    BY DEF TakeOneByte, anyByte, AnyBytes, anyBytes
<1>3. AdvanceWhere(pattern[i]) = Reached(i)
    BY <1>1, <1>2, ByteStep DEF IInv, TakeOneByte, Looping
<1> QED
    BY <1>3, AdvanceKeeps DEF TakeOneByte

\* A list keeps the invariant.
LEMMA TakeAlternativeKeeps ==
    IInv /\ TakeAlternative => IInv'
<1> SUFFICES ASSUME IInv, TakeAlternative PROVE IInv'
    OBVIOUS
<1>1. reach = Reached(i - 1)
    BY ReachIsReached DEF IInv, TakeAlternative, Looping
<1>2. AdvanceByAlternatives(pattern[i].alternatives) = Reached(i)
    BY <1>1, ListStep DEF IInv, TakeAlternative, Looping
<1> QED
    BY <1>2, AdvanceKeeps DEF TakeAlternative

\* A walk that has run out of positions has run out of matches.
LEMMA EndWithinKeeps ==
    IInv /\ EndWithin => IInv'
<1> SUFFICES ASSUME IInv, EndWithin PROVE IInv'
    OBVIOUS
<1>1. /\ pattern \in Seq(Tokens) /\ part \in Seq(Nat)
      /\ Len(pattern) \in Nat /\ Len(part) \in Nat
      /\ TypeOK /\ ~TooLong /\ i \in 1..(Len(pattern) + 1)
    BY ArgumentsTyped DEF IInv, WalkBegins, EndWithin, TypeOK
<1>2. reach = Reached(i - 1) /\ Seen = reach
    BY ReachIsReached DEF IInv, EndWithin, ReachFits
<1>3. Len(part) \in reach <=> Denotes(pattern, part)
    <2>1. CASE i > Len(pattern)
        <3>1. i - 1 = Len(pattern) /\ Len(part) \in Positions
            BY <1>1, <2>1 DEF Positions
        <3> QED
            BY <1>1, <1>2, <3>1, WholeDenotes DEF Reached
    <2>2. CASE Seen = {}
        <3>1. ASSUME Reaches(pattern, part, Len(pattern), Len(part))
              PROVE  FALSE
            <4>1. i - 1 \in 0..Len(pattern)
                BY <1>1
            <4>2. PICK q \in 0..Len(part) : Reaches(pattern, part, i - 1, q)
                BY <1>1, <3>1, <4>1, PrefixReaches
            <4> QED
                BY <1>2, <2>2, <4>2 DEF Reached, Positions
        <3> QED
            BY <1>1, <1>2, <2>2, <3>1, WholeDenotes
    <2> QED
        BY <2>1, <2>2 DEF EndWithin
<1>4. /\ result' = IF Len(part) \in reach THEN "match" ELSE "no match"
      /\ UNCHANGED <<pattern, part, i, numWords, reach>>
    BY DEF EndWithin, Answer
<1>5. TypeOK'
    BY <1>4 DEF IInv, TypeOK, Positions
<1>6. WalkBegins' /\ ReachFits' /\ ReachIsPrefixMatch'
    BY <1>4 DEF IInv, WalkBegins, ReachFits, ReachIsPrefixMatch, TooLong,
                Positions, WordsUsed, Seen
<1>7. ResultAsDefined'
    <2>1. TooLong' <=> TooLong
        BY <1>4 DEF TooLong
    <2> QED
        BY <1>1, <1>3, <1>4, <2>1 DEF ResultAsDefined
<1> QED
    BY <1>5, <1>6, <1>7 DEF IInv

\* Every step keeps the invariant.
LEMMA StepKeeps ==
    IInv /\ [Next]_vars => IInv'
<1> SUFFICES ASSUME IInv, [Next]_vars PROVE IInv'
    OBVIOUS
<1>1. CASE RejectLongPart
    BY <1>1, RejectLongPartKeeps
<1>2. CASE CompareLiteral
    BY <1>2, CompareLiteralKeeps
<1>3. CASE RejectShortPart
    BY <1>3, RejectShortPartKeeps
<1>4. CASE MatchDirect
    BY <1>4, MatchDirectKeeps
<1>5. CASE StartWithin
    BY <1>5, StartWithinKeeps
<1>6. CASE TakeAnyBytes
    BY <1>6, TakeAnyBytesKeeps
<1>7. CASE TakeOneByte
    BY <1>7, TakeOneByteKeeps
<1>8. CASE TakeAlternative
    BY <1>8, TakeAlternativeKeeps
<1>9. CASE EndWithin
    BY <1>9, EndWithinKeeps
<1>10. CASE UNCHANGED vars
    BY <1>10 DEF vars, IInv, TypeOK, WalkBegins, ReachFits, ReachIsPrefixMatch,
                 ResultAsDefined, TooLong, Positions, WordsUsed, Seen
<1> QED
    BY <1>1, <1>2, <1>3, <1>4, <1>5, <1>6, <1>7, <1>8, <1>9, <1>10 DEF Next

\* So it always holds.
LEMMA Invariant == Spec => []IInv
BY InitKeeps, StepKeeps, PTL DEF Spec

-----------------------------------------------------------------------------
\* The token stands within the pattern, or behind it, and the positions lie
\* within the part, whatever tokens the pattern part has.
THEOREM TypeCorrect == Spec => []TypeOK
<1>1. IInv => TypeOK
    BY DEF IInv
<1> QED
    BY <1>1, Invariant, PTL

\* matchPart never sets, tests or overlooks a bit outside the words of a Reach,
\* for every width of a word and every longest part.
THEOREM ReachAlwaysFits == Spec => []ReachFits
<1>1. IInv => ReachFits
    BY DEF IInv
<1> QED
    BY <1>1, Invariant, PTL

\* The bits of a Reach are exactly the positions the tokens before this one
\* can lead to: reading on from them loses no match and invents none.
THEOREM WalkIsExact == Spec => []ReachIsPrefixMatch
<1>1. IInv => ReachIsPrefixMatch
    BY DEF IInv
<1> QED
    BY <1>1, Invariant, PTL

\* matchPart returns true exactly when the part can be cut into pieces the
\* tokens match, whichever of its paths a pattern part takes.
THEOREM AnswersCorrectly == Spec => []ResultAsDefined
<1>1. IInv => ResultAsDefined
    BY DEF IInv
<1> QED
    BY <1>1, Invariant, PTL
=============================================================================
