------------------------ MODULE PartMatching_proofs ------------------------
(***************************************************************************)
(* Proofs about PartMatching, for every pattern, address and relation Fits *)
(* of parts: the greedy loop decides the reference definition, and never   *)
(* compares a pair of parts twice.                                         *)
(***************************************************************************)
EXTENDS PartMatching, SequenceTheorems, TLAPS

\* The bounded sequences of the initial states are sequences.
LEMMA SequencesAreSeqs ==
    ASSUME NEW S, NEW max
    PROVE  Sequences(S, max) \subseteq Seq(S)
BY SeqDef DEF Sequences

(***************************************************************************)
(* The layouts of a suffix, token by token.                                *)
(***************************************************************************)

\* With no token left, only the end of the address is matched.
LEMMA EndLayout ==
    ASSUME NEW tokens \in Seq(Tokens), NEW parts \in Seq(AddressParts),
           NEW a \in 1..(Len(parts) + 1)
    PROVE  MatchesFrom(tokens, parts, Len(tokens) + 1, a)
               <=> a = Len(parts) + 1
<1> DEFINE L == Len(tokens)
           A == Len(parts)
<1>0. L \in Nat /\ A \in Nat
    BY LenProperties
<1>1. ASSUME MatchesFrom(tokens, parts, L + 1, a) PROVE a = A + 1
    BY <1>1 DEF MatchesFrom, IsLayout
<1>2. ASSUME a = A + 1 PROVE MatchesFrom(tokens, parts, L + 1, a)
    <2> DEFINE place == [i \in (L + 1)..(L + 1) |-> A + 1]
    <2>1. place \in [(L + 1)..(L + 1) -> 1..(A + 1)]
        BY <1>0
    <2>2. IsLayout(tokens, parts, place, L + 1, a)
        BY <1>0, <1>2, <2>1 DEF IsLayout
    <2> QED
        BY <2>1, <2>2 DEF MatchesFrom
<1> QED
    BY <1>1, <1>2

\* The rest of a layout is a layout of the rest.
LEMMA RestOfLayout ==
    ASSUME NEW tokens \in Seq(Tokens), NEW parts \in Seq(AddressParts),
           NEW p \in 1..(Len(tokens) + 1), NEW a \in 1..(Len(parts) + 1),
           NEW q \in p..(Len(tokens) + 1), NEW place,
           IsLayout(tokens, parts, place, p, a)
    PROVE  /\ place[q] \in 1..(Len(parts) + 1)
           /\ MatchesFrom(tokens, parts, q, place[q])
<1> DEFINE L == Len(tokens)
           A == Len(parts)
           rest == [i \in q..(L + 1) |-> place[i]]
<1>0. L \in Nat /\ A \in Nat
    BY LenProperties
<1>1. /\ place[q] \in 1..(A + 1)
      /\ rest \in [q..(L + 1) -> 1..(A + 1)]
    BY <1>0 DEF IsLayout
<1>2. \A i \in q..L : Lays(tokens, parts, rest, i)
    <2> SUFFICES ASSUME NEW i \in q..L PROVE Lays(tokens, parts, rest, i)
        OBVIOUS
    <2>1. rest[i] = place[i] /\ rest[i + 1] = place[i + 1]
        BY <1>0
    <2>2. Lays(tokens, parts, place, i)
        BY <1>0 DEF IsLayout
    <2> QED
        BY <2>1, <2>2 DEF Lays
<1>3. rest[q] = place[q] /\ rest[L + 1] = A + 1
    BY <1>0 DEF IsLayout
<1>4. IsLayout(tokens, parts, rest, q, place[q])
    BY <1>1, <1>2, <1>3 DEF IsLayout
<1> QED
    BY <1>1, <1>4 DEF MatchesFrom

\* A token laid in front of a layout.
LEMMA TokenBeforeLayout ==
    ASSUME NEW tokens \in Seq(Tokens), NEW parts \in Seq(AddressParts),
           NEW p \in 1..Len(tokens), NEW a \in 1..(Len(parts) + 1),
           NEW b \in 1..(Len(parts) + 1),
           MatchesFrom(tokens, parts, p + 1, b),
           IF tokens[p] = Operator
           THEN b >= a
           ELSE /\ b = a + 1
                /\ a <= Len(parts)
                /\ <<tokens[p], parts[a]>> \in Fits
    PROVE  MatchesFrom(tokens, parts, p, a)
<1> DEFINE L == Len(tokens)
           A == Len(parts)
<1>0. L \in Nat /\ A \in Nat
    BY LenProperties
<1>1. PICK rest \in [(p + 1)..(L + 1) -> 1..(A + 1)] :
          IsLayout(tokens, parts, rest, p + 1, b)
    BY DEF MatchesFrom
<1> DEFINE place == [i \in p..(L + 1) |-> IF i = p THEN a ELSE rest[i]]
<1>2. place \in [p..(L + 1) -> 1..(A + 1)]
    BY <1>0, <1>1
<1>3. place[p] = a /\ place[L + 1] = A + 1
    BY <1>0, <1>1 DEF IsLayout
<1>4. \A i \in p..L : Lays(tokens, parts, place, i)
    <2> SUFFICES ASSUME NEW i \in p..L PROVE Lays(tokens, parts, place, i)
        OBVIOUS
    <2>1. CASE i = p
        <3>1. place[i] = a /\ place[i + 1] = b
            BY <1>0, <1>1, <2>1 DEF IsLayout
        <3> QED
            BY <2>1, <3>1 DEF Lays
    <2>2. CASE i # p
        <3>1. place[i] = rest[i] /\ place[i + 1] = rest[i + 1]
            BY <1>0, <2>2
        <3>2. Lays(tokens, parts, rest, i)
            BY <1>0, <1>1, <2>2 DEF IsLayout
        <3> QED
            BY <3>1, <3>2 DEF Lays
    <2> QED
        BY <2>1, <2>2
<1>5. IsLayout(tokens, parts, place, p, a)
    BY <1>2, <1>3, <1>4 DEF IsLayout
<1> QED
    BY <1>2, <1>5 DEF MatchesFrom

\* The first token of a layout, read off the definition.
LEMMA FirstToken ==
    ASSUME NEW tokens \in Seq(Tokens), NEW parts \in Seq(AddressParts),
           NEW p \in 1..Len(tokens), NEW a \in 1..(Len(parts) + 1),
           NEW place, IsLayout(tokens, parts, place, p, a)
    PROVE  IF tokens[p] = Operator
           THEN place[p + 1] >= a
           ELSE /\ place[p + 1] = a + 1
                /\ a <= Len(parts)
                /\ <<tokens[p], parts[a]>> \in Fits
<1>1. p \in p..Len(tokens) /\ place[p] = a
    BY LenProperties DEF IsLayout
<1>2. Lays(tokens, parts, place, p)
    BY <1>1 DEF IsLayout
<1> QED
    BY <1>1, <1>2 DEF Lays

\* A part is laid over the address part it fits, and over no other.
LEMMA PartLayout ==
    ASSUME NEW tokens \in Seq(Tokens), NEW parts \in Seq(AddressParts),
           NEW p \in 1..Len(tokens), NEW a \in 1..(Len(parts) + 1),
           tokens[p] # Operator
    PROVE  MatchesFrom(tokens, parts, p, a) <=>
               /\ a <= Len(parts)
               /\ <<tokens[p], parts[a]>> \in Fits
               /\ MatchesFrom(tokens, parts, p + 1, a + 1)
<1>0. Len(tokens) \in Nat /\ Len(parts) \in Nat
    BY LenProperties
<1>1. ASSUME MatchesFrom(tokens, parts, p, a)
      PROVE  /\ a <= Len(parts)
             /\ <<tokens[p], parts[a]>> \in Fits
             /\ MatchesFrom(tokens, parts, p + 1, a + 1)
    <2>1. PICK place : IsLayout(tokens, parts, place, p, a)
        BY <1>1 DEF MatchesFrom
    <2>2. /\ place[p + 1] = a + 1
          /\ a <= Len(parts)
          /\ <<tokens[p], parts[a]>> \in Fits
        BY <2>1, FirstToken
    <2>3. MatchesFrom(tokens, parts, p + 1, place[p + 1])
        BY <1>0, <2>1, RestOfLayout, SMTT(30)
    <2> QED
        BY <2>2, <2>3
<1>2. ASSUME a <= Len(parts),
             <<tokens[p], parts[a]>> \in Fits,
             MatchesFrom(tokens, parts, p + 1, a + 1)
      PROVE  MatchesFrom(tokens, parts, p, a)
    <2>1. a + 1 \in 1..(Len(parts) + 1)
        BY <1>0, <1>2
    <2> QED
        BY <1>2, <2>1, TokenBeforeLayout
<1> QED
    BY <1>1, <1>2

\* An operator takes nothing, or one address part and then the same again.
LEMMA OperatorLayout ==
    ASSUME NEW tokens \in Seq(Tokens), NEW parts \in Seq(AddressParts),
           NEW p \in 1..Len(tokens), NEW a \in 1..(Len(parts) + 1),
           tokens[p] = Operator
    PROVE  MatchesFrom(tokens, parts, p, a) <=>
               \E b \in a..(Len(parts) + 1) : MatchesFrom(tokens, parts, p + 1, b)
<1>0. Len(tokens) \in Nat /\ Len(parts) \in Nat
    BY LenProperties
<1>1. ASSUME MatchesFrom(tokens, parts, p, a)
      PROVE  \E b \in a..(Len(parts) + 1) : MatchesFrom(tokens, parts, p + 1, b)
    <2>1. PICK place : IsLayout(tokens, parts, place, p, a)
        BY <1>1 DEF MatchesFrom
    <2>2. place[p + 1] >= a
        BY <2>1, FirstToken
    <2>3. /\ place[p + 1] \in 1..(Len(parts) + 1)
          /\ MatchesFrom(tokens, parts, p + 1, place[p + 1])
        BY <1>0, <2>1, RestOfLayout, SMTT(20)
    <2> QED
        BY <1>0, <2>2, <2>3
<1>2. ASSUME NEW b \in a..(Len(parts) + 1), MatchesFrom(tokens, parts, p + 1, b)
      PROVE  MatchesFrom(tokens, parts, p, a)
    <2>1. b \in 1..(Len(parts) + 1) /\ b >= a
        BY <1>0
    <2> QED
        BY <1>2, <2>1, TokenBeforeLayout
<1> QED
    BY <1>1, <1>2

(***************************************************************************)
(* The inductive invariant.                                                *)
(***************************************************************************)

\* The cursors have moved in step since the last operator, or since the start.
InStep ==
    /\ patternAfterOperator <= patternPart
    /\ patternPart - patternAfterOperator = addressPart - addressAtOperator
    /\ \A i \in patternAfterOperator..(patternPart - 1) : pattern[i] # Operator

\* So a layout of what follows the operator stays in step as well.
LayoutsInStep ==
    \A a \in 1..(Len(address) + 1) :
        \A place \in [patternAfterOperator..(Len(pattern) + 1)
                          -> 1..(Len(address) + 1)] :
            IsLayout(pattern, address, place, patternAfterOperator, a) =>
                place[patternPart] = a + (patternPart - patternAfterOperator)

MayRetry ==
    /\ seenOperator
    /\ \E a \in (addressAtOperator + 1)..(Len(address) + 1) :
          MatchesFrom(pattern, address, patternAfterOperator, a)

\* What is left to try decides the match.
NothingLost ==
    result = "running" =>
        (MatchesFrom(pattern, address, 1, 1) <=>
            \/ MatchesFrom(pattern, address, patternPart, addressPart)
            \/ MayRetry)

\* The pairs compared so far lie before the last operator, or were compared
\* with the parts behind it at an earlier place or an earlier token.
ComparedBefore ==
    result = "running" => \A pair \in compared :
        \/ pair[1] < patternAfterOperator
        \/ /\ \A i \in patternAfterOperator..pair[1] : pattern[i] # Operator
           /\ \/ pair[2] - pair[1] < addressPart - patternPart
              \/ /\ pair[2] - pair[1] = addressPart - patternPart
                 /\ pair[1] < patternPart

IInv ==
    /\ TypeOK
    /\ InStep
    /\ LayoutsInStep
    /\ NothingLost
    /\ MatchesAsDefined
    /\ ComparedBefore

\* Wherever the loop begins, nothing is compared and no operator seen.
LEMMA BeginsIInv ==
    ASSUME pattern \in Seq(Tokens), address \in Seq(AddressParts), Begins
    PROVE  IInv
<1>1. Len(pattern) \in Nat /\ Len(address) \in Nat
    BY LenProperties
<1>2. TypeOK
    <2>1. 1 \in 1..(Len(pattern) + 1) /\ 1 \in 1..(Len(address) + 1)
        BY <1>1
    <2>2. compared \subseteq (1..Len(pattern)) \X (1..Len(address))
        BY DEF Begins
    <2> QED
        BY <2>1, <2>2 DEF Begins, TypeOK
<1>3. InStep
    BY DEF Begins, InStep
<1>4. LayoutsInStep
    BY DEF Begins, LayoutsInStep, IsLayout
<1>5. NothingLost /\ MatchesAsDefined /\ ComparedBefore
    BY DEF Begins, NothingLost, MayRetry, MatchesAsDefined, ComparedBefore
<1> QED
    BY <1>2, <1>3, <1>4, <1>5 DEF IInv

\* So it does in every initial state.
THEOREM InitIInv == Init => IInv
<1> SUFFICES ASSUME Init PROVE IInv
    OBVIOUS
<1>1. pattern \in Seq(Tokens) /\ address \in Seq(AddressParts)
    BY SequencesAreSeqs DEF Init, Patterns, Addresses
<1> QED
    BY <1>1, BeginsIInv DEF Init

(***************************************************************************)
(* Every step preserves it.                                                *)
(***************************************************************************)

\* When the loop is stuck at these parts, no layout starts there.
LEMMA StuckMatchesNothing ==
    ASSUME TypeOK, Stuck
    PROVE  ~MatchesFrom(pattern, address, patternPart, addressPart)
<1>0. /\ Len(pattern) \in Nat /\ Len(address) \in Nat
      /\ pattern \in Seq(Tokens) /\ address \in Seq(AddressParts)
      /\ patternPart \in 1..(Len(pattern) + 1)
      /\ addressPart \in 1..(Len(address) + 1)
    BY LenProperties DEF TypeOK
<1>1. CASE PatternExhausted
    <2>1. patternPart = Len(pattern) + 1
        BY <1>0, <1>1 DEF PatternExhausted
    <2>2. addressPart # Len(address) + 1
        BY <1>0, <1>1 DEF Stuck, Looping, AddressExhausted
    <2> QED
        BY <1>0, <2>1, <2>2, EndLayout
<1>2. CASE ~PatternExhausted
    <2>1. patternPart \in 1..Len(pattern)
        BY <1>0, <1>2 DEF PatternExhausted
    <2>2. pattern[patternPart] # Operator
        BY <1>2 DEF Stuck, AtOperator
    <2>3. ~(/\ addressPart <= Len(address)
            /\ <<pattern[patternPart], address[addressPart]>> \in Fits)
        BY <1>0, <1>2 DEF Stuck, PartsMatch, Comparing, AddressExhausted
    <2> QED
        BY <1>0, <2>1, <2>2, <2>3, PartLayout
<1> QED
    BY <1>1, <1>2

\* Passing an operator gives up the one before it, and loses no layout.
LEMMA PassOperatorIInv ==
    ASSUME IInv, PassOperator
    PROVE  IInv'
<1> USE DEF PassOperator
<1>0. /\ Len(pattern) \in Nat /\ Len(address) \in Nat
      /\ pattern \in Seq(Tokens) /\ address \in Seq(AddressParts)
      /\ patternPart \in 1..Len(pattern)
      /\ addressPart \in 1..(Len(address) + 1)
      /\ patternAfterOperator \in 1..(Len(pattern) + 1)
      /\ addressAtOperator \in 1..(Len(address) + 1)
      /\ pattern[patternPart] = Operator
      /\ result = "running"
    BY LenProperties DEF IInv, TypeOK, AtOperator, PatternExhausted, Looping
<1>1. UNCHANGED <<pattern, address, addressPart, result, compared>>
    BY DEF texts
<1>2. TypeOK'
    BY <1>0, <1>1 DEF IInv, TypeOK
<1>3. InStep'
    BY <1>0, <1>1 DEF InStep
<1>4. LayoutsInStep'
    BY <1>0, <1>1 DEF LayoutsInStep, IsLayout
<1>5. NothingLost'
    <2>1. MatchesFrom(pattern, address, patternPart, addressPart) <=>
              \E b \in addressPart..(Len(address) + 1) :
                  MatchesFrom(pattern, address, patternPart + 1, b)
        BY <1>0, OperatorLayout
    \* The operator given up could only have led here, further on.
    <2>2. MayRetry => MatchesFrom(pattern, address, patternPart, addressPart)
        <3> SUFFICES ASSUME MayRetry
                     PROVE  MatchesFrom(pattern, address, patternPart, addressPart)
            OBVIOUS
        <3>1. PICK a \in (addressAtOperator + 1)..(Len(address) + 1) :
                  MatchesFrom(pattern, address, patternAfterOperator, a)
            BY DEF MayRetry
        <3>2. a \in 1..(Len(address) + 1) /\ a > addressAtOperator
            BY <1>0
        <3>3. PICK place \in [patternAfterOperator..(Len(pattern) + 1)
                                  -> 1..(Len(address) + 1)] :
                  IsLayout(pattern, address, place, patternAfterOperator, a)
            BY <3>1 DEF MatchesFrom
        <3>4. place[patternPart] = a + (patternPart - patternAfterOperator)
            BY <3>2, <3>3 DEF IInv, LayoutsInStep
        <3>5. place[patternPart] > addressPart
            BY <1>0, <3>2, <3>4 DEF IInv, InStep
        <3>6. patternPart \in patternAfterOperator..(Len(pattern) + 1)
            BY <1>0 DEF IInv, InStep
        <3>7. /\ place[patternPart] \in 1..(Len(address) + 1)
              /\ MatchesFrom(pattern, address, patternPart, place[patternPart])
            BY <1>0, <3>2, <3>3, <3>6, RestOfLayout
        <3>8. \E b \in place[patternPart]..(Len(address) + 1) :
                  MatchesFrom(pattern, address, patternPart + 1, b)
            BY <1>0, <3>7, OperatorLayout
        <3>9. \E b \in addressPart..(Len(address) + 1) :
                  MatchesFrom(pattern, address, patternPart + 1, b)
            BY <1>0, <3>5, <3>7, <3>8
        <3> QED
            BY <2>1, <3>9
    <2>3. MatchesFrom(pattern, address, 1, 1) <=>
              MatchesFrom(pattern, address, patternPart, addressPart)
        BY <1>0, <2>2 DEF IInv, NothingLost
    <2>4. (\E b \in addressPart..(Len(address) + 1) :
               MatchesFrom(pattern, address, patternPart + 1, b)) <=>
              \/ MatchesFrom(pattern, address, patternPart + 1, addressPart)
              \/ \E b \in (addressPart + 1)..(Len(address) + 1) :
                     MatchesFrom(pattern, address, patternPart + 1, b)
        BY <1>0
    <2> QED
        BY <1>1, <2>1, <2>3, <2>4 DEF NothingLost, MayRetry
<1>6. MatchesAsDefined'
    BY <1>0, <1>1 DEF MatchesAsDefined
<1>7. ComparedBefore'
    <2> SUFFICES ASSUME NEW pair \in compared PROVE pair[1] < patternPart + 1
        BY <1>1 DEF ComparedBefore
    <2>1. pair[1] \in 1..Len(pattern)
        BY DEF IInv, TypeOK
    <2>2. \/ pair[1] < patternAfterOperator
          \/ \A i \in patternAfterOperator..pair[1] : pattern[i] # Operator
        BY <1>0 DEF IInv, ComparedBefore
    <2>3. patternAfterOperator <= patternPart
        BY DEF IInv, InStep
    <2> QED
        BY <1>0, <2>1, <2>2, <2>3
<1> QED
    BY <1>2, <1>3, <1>4, <1>5, <1>6, <1>7 DEF IInv

\* Two parts that match are laid over each other.
LEMMA AdvanceBothIInv ==
    ASSUME IInv, AdvanceBoth
    PROVE  IInv'
<1> USE DEF AdvanceBoth
<1>0. /\ Len(pattern) \in Nat /\ Len(address) \in Nat
      /\ pattern \in Seq(Tokens) /\ address \in Seq(AddressParts)
      /\ patternPart \in 1..Len(pattern)
      /\ addressPart \in 1..Len(address)
      /\ patternAfterOperator \in 1..(Len(pattern) + 1)
      /\ addressAtOperator \in 1..(Len(address) + 1)
      /\ pattern[patternPart] # Operator
      /\ <<pattern[patternPart], address[addressPart]>> \in Fits
      /\ result = "running"
    BY LenProperties DEF IInv, TypeOK, PartsMatch, Comparing, AtOperator,
        PatternExhausted, AddressExhausted, Looping
<1>1. /\ UNCHANGED <<pattern, address, patternAfterOperator,
                     addressAtOperator, seenOperator, result>>
      /\ patternPart' = patternPart + 1
      /\ addressPart' = addressPart + 1
      /\ compared' = compared \cup {<<patternPart, addressPart>>}
    BY DEF texts, Compare, PartsMatch
<1>2. TypeOK'
    BY <1>0, <1>1 DEF IInv, TypeOK
<1>3. InStep'
    BY <1>0, <1>1 DEF IInv, InStep
<1>4. LayoutsInStep'
    <2>0. SUFFICES ASSUME NEW a \in 1..(Len(address) + 1),
                        NEW place \in [patternAfterOperator..(Len(pattern) + 1)
                                           -> 1..(Len(address) + 1)],
                        IsLayout(pattern, address, place, patternAfterOperator, a)
                 PROVE  place[patternPart + 1]
                            = a + ((patternPart + 1) - patternAfterOperator)
        <3>1. /\ pattern' = pattern /\ address' = address
              /\ patternAfterOperator' = patternAfterOperator
              /\ patternPart' = patternPart + 1
            BY <1>1
        <3> QED
            BY ONLY <2>0, <3>1 DEF LayoutsInStep
    <2>1. place[patternPart] = a + (patternPart - patternAfterOperator)
        BY <2>0 DEF IInv, LayoutsInStep
    <2>2. patternPart \in patternAfterOperator..Len(pattern)
        BY <1>0 DEF IInv, InStep
    <2>3. place[patternPart + 1] = place[patternPart] + 1
        BY <1>0, <2>0, <2>2 DEF IsLayout, Lays
    <2> QED
        BY <1>0, <2>1, <2>3
<1>5. NothingLost'
    <2>1. MatchesFrom(pattern, address, patternPart, addressPart) <=>
              MatchesFrom(pattern, address, patternPart + 1, addressPart + 1)
        BY <1>0, PartLayout
    <2> QED
        BY <1>0, <1>1, <2>1 DEF IInv, NothingLost, MayRetry
<1>6. MatchesAsDefined'
    BY <1>0, <1>1 DEF MatchesAsDefined
<1>7. ComparedBefore'
    <2>1. compared \subseteq (1..Len(pattern)) \X (1..Len(address))
        BY DEF IInv, TypeOK
    <2>2. \A i \in patternAfterOperator..patternPart : pattern[i] # Operator
        BY <1>0 DEF IInv, InStep
    <2>3. ComparedBefore
        BY DEF IInv
    <2> DEFINE Before(pair) ==
        \/ pair[1] < patternAfterOperator
        \/ /\ \A i \in patternAfterOperator..pair[1] : pattern[i] # Operator
           /\ \/ pair[2] - pair[1] < (addressPart + 1) - (patternPart + 1)
              \/ /\ pair[2] - pair[1] = (addressPart + 1) - (patternPart + 1)
                 /\ pair[1] < patternPart + 1
    <2>4. Before(<<patternPart, addressPart>>)
        BY <1>0, <2>2
    <2>5. ASSUME NEW pair \in compared PROVE Before(pair)
        <3>1. pair[1] \in Int /\ pair[2] \in Int
            BY <1>0, <2>1
        <3> QED
            BY <1>0, <2>3, <3>1, SMTT(20) DEF ComparedBefore
    <2>6. \A pair \in compared' : Before(pair)
        BY <1>1, <2>4, <2>5
    <2> QED
        BY <1>1, <2>6 DEF ComparedBefore
<1> QED
    BY <1>2, <1>3, <1>4, <1>5, <1>6, <1>7 DEF IInv

\* What a step that finds the loop stuck adds to the pairs compared.
LEMMA StuckCompares ==
    ASSUME IInv, Stuck, Compare
    PROVE  /\ compared' \subseteq (1..Len(pattern)) \X (1..Len(address))
           /\ \A pair \in compared' :
                 \/ pair[1] < patternAfterOperator
                 \/ /\ \A i \in patternAfterOperator..pair[1] :
                          pattern[i] # Operator
                    /\ pair[2] - pair[1] <= addressPart - patternPart
<1>0. /\ Len(pattern) \in Nat /\ Len(address) \in Nat
      /\ patternPart \in 1..(Len(pattern) + 1)
      /\ addressPart \in 1..(Len(address) + 1)
      /\ patternAfterOperator \in 1..(Len(pattern) + 1)
      /\ compared \subseteq (1..Len(pattern)) \X (1..Len(address))
      /\ result = "running"
    BY LenProperties DEF IInv, TypeOK, Stuck, Looping
<1>1. \A pair \in compared :
          \/ pair[1] < patternAfterOperator
          \/ /\ \A i \in patternAfterOperator..pair[1] : pattern[i] # Operator
             /\ pair[2] - pair[1] <= addressPart - patternPart
    BY <1>0 DEF IInv, ComparedBefore
<1>2. CASE ~Comparing
    BY <1>0, <1>1, <1>2 DEF Compare
<1>3. CASE Comparing
    <2>1. /\ patternPart \in 1..Len(pattern)
          /\ addressPart \in 1..Len(address)
          /\ pattern[patternPart] # Operator
        BY <1>0, <1>3 DEF Comparing, AtOperator, PatternExhausted, AddressExhausted
    <2>2. \A i \in patternAfterOperator..patternPart : pattern[i] # Operator
        BY <1>0, <2>1 DEF IInv, InStep
    <2>3. compared' = compared \cup {<<patternPart, addressPart>>}
        BY <1>3 DEF Compare
    <2> QED
        BY <1>0, <1>1, <2>1, <2>2, <2>3
<1> QED
    BY <1>2, <1>3

\* The last operator takes one more part: no layout had it take fewer.
LEMMA RetryIInv ==
    ASSUME IInv, Retry
    PROVE  IInv'
<1> USE DEF Retry
<1>0. /\ Len(pattern) \in Nat /\ Len(address) \in Nat
      /\ pattern \in Seq(Tokens) /\ address \in Seq(AddressParts)
      /\ patternPart \in 1..(Len(pattern) + 1)
      /\ addressPart \in 1..(Len(address) + 1)
      /\ patternAfterOperator \in 1..(Len(pattern) + 1)
      /\ addressAtOperator \in 1..Len(address)
      /\ seenOperator
      /\ result = "running"
    BY LenProperties DEF IInv, TypeOK, NoRetry, Stuck, Looping
<1>1. /\ pattern' = pattern /\ address' = address
      /\ patternAfterOperator' = patternAfterOperator
      /\ seenOperator' = seenOperator
      /\ result' = result
      /\ addressAtOperator' = addressAtOperator + 1
      /\ patternPart' = patternAfterOperator
      /\ addressPart' = addressAtOperator + 1
    BY DEF texts
<1>2. TypeOK'
    BY <1>0, <1>1, StuckCompares DEF IInv, TypeOK
<1>3. InStep'
    BY <1>0, <1>1 DEF InStep
<1>4. LayoutsInStep'
    BY <1>0, <1>1 DEF LayoutsInStep, IsLayout
<1>5. NothingLost'
    <2>1. ~MatchesFrom(pattern, address, patternPart, addressPart)
        BY StuckMatchesNothing DEF IInv
    <2>2. MatchesFrom(pattern, address, 1, 1) <=>
              \E a \in (addressAtOperator + 1)..(Len(address) + 1) :
                  MatchesFrom(pattern, address, patternAfterOperator, a)
        BY <1>0, <2>1 DEF IInv, NothingLost, MayRetry
    <2>3. (\E a \in (addressAtOperator + 1)..(Len(address) + 1) :
               MatchesFrom(pattern, address, patternAfterOperator, a)) <=>
              \/ MatchesFrom(pattern, address, patternAfterOperator,
                             addressAtOperator + 1)
              \/ \E a \in (addressAtOperator + 2)..(Len(address) + 1) :
                     MatchesFrom(pattern, address, patternAfterOperator, a)
        BY <1>0
    <2>4. (addressAtOperator + 1) + 1 = addressAtOperator + 2
        BY <1>0
    <2> QED
        BY <1>0, <1>1, <2>2, <2>3, <2>4 DEF NothingLost, MayRetry
<1>6. MatchesAsDefined'
    BY <1>0, <1>1 DEF MatchesAsDefined
<1>7. ComparedBefore'
    <2>1. ASSUME NEW pair \in compared'
          PROVE  \/ pair[1] < patternAfterOperator
                 \/ /\ \A i \in patternAfterOperator..pair[1] :
                          pattern[i] # Operator
                    /\ pair[2] - pair[1]
                          < (addressAtOperator + 1) - patternAfterOperator
        <3>1. pair[1] \in Int /\ pair[2] \in Int
            BY <1>0, StuckCompares
        <3>2. \/ pair[1] < patternAfterOperator
              \/ /\ \A i \in patternAfterOperator..pair[1] :
                       pattern[i] # Operator
                 /\ pair[2] - pair[1] <= addressPart - patternPart
            BY StuckCompares
        <3>3. addressPart - patternPart
                  = addressAtOperator - patternAfterOperator
            BY <1>0 DEF IInv, InStep
        <3> QED
            BY <1>0, <3>1, <3>2, <3>3
    <2> QED
        BY <1>1, <2>1 DEF ComparedBefore
<1> QED
    BY <1>2, <1>3, <1>4, <1>5, <1>6, <1>7 DEF IInv

\* With no operator to retry, or none of the address left, no layout exists.
LEMMA FailIInv ==
    ASSUME IInv, Fail
    PROVE  IInv'
<1>0. Stuck /\ NoRetry /\ Compare
    BY DEF Fail
<1>1. /\ pattern' = pattern /\ address' = address
      /\ UNCHANGED cursors
      /\ result' = "no match"
    BY DEF Fail, texts
<1>2. TypeOK'
    BY <1>0, <1>1, StuckCompares DEF IInv, TypeOK, cursors
<1>3. InStep' /\ LayoutsInStep'
    BY <1>1 DEF IInv, InStep, LayoutsInStep, cursors
<1>4. NothingLost' /\ ComparedBefore'
    BY <1>1 DEF NothingLost, ComparedBefore
<1>5. MatchesAsDefined'
    <2>1. ~MatchesFrom(pattern, address, patternPart, addressPart)
        BY <1>0, StuckMatchesNothing DEF IInv
    <2>2. result = "running"
        BY <1>0 DEF Stuck, Looping
    <2>3. addressAtOperator \in Int /\ Len(address) \in Int
        <3>1. /\ address \in Seq(AddressParts)
              /\ addressAtOperator \in 1..(Len(address) + 1)
            BY DEF IInv, TypeOK
        <3>2. Len(address) \in Nat
            BY <3>1, LenProperties
        <3> QED
            BY <3>1, <3>2
    <2>4. ~MayRetry
        BY <1>0, <2>3 DEF MayRetry, NoRetry
    <2>5. ~MatchesFrom(pattern, address, 1, 1)
        BY <2>1, <2>2, <2>4 DEF IInv, NothingLost
    <2> QED
        BY <1>1, <2>5 DEF MatchesAsDefined
<1> QED
    BY <1>2, <1>3, <1>4, <1>5 DEF IInv

\* Both texts exhausted: the layout is complete.
LEMMA SucceedIInv ==
    ASSUME IInv, Succeed
    PROVE  IInv'
<1> USE DEF Succeed
<1>0. /\ Len(pattern) \in Nat /\ Len(address) \in Nat
      /\ pattern \in Seq(Tokens) /\ address \in Seq(AddressParts)
      /\ patternPart = Len(pattern) + 1
      /\ addressPart = Len(address) + 1
    BY LenProperties DEF IInv, TypeOK, PatternExhausted, AddressExhausted
<1>1. /\ pattern' = pattern /\ address' = address
      /\ UNCHANGED cursors
      /\ compared' = compared
      /\ result' = "match"
    BY DEF texts
<1>2. TypeOK'
    BY <1>1 DEF IInv, TypeOK, cursors
<1>3. InStep' /\ LayoutsInStep'
    BY <1>1 DEF IInv, InStep, LayoutsInStep, cursors
<1>4. NothingLost' /\ ComparedBefore'
    BY <1>1 DEF NothingLost, ComparedBefore
<1>5. MatchesAsDefined'
    <2>1. MatchesFrom(pattern, address, patternPart, addressPart)
        BY <1>0, EndLayout
    <2>2. MatchesFrom(pattern, address, 1, 1)
        BY <2>1 DEF IInv, NothingLost
    <2> QED
        BY <1>1, <2>2 DEF MatchesAsDefined
<1> QED
    BY <1>2, <1>3, <1>4, <1>5 DEF IInv

\* Every step of the loop preserves the invariant.
LEMMA NextIInv ==
    ASSUME IInv, [Next]_vars
    PROVE  IInv'
<1>1. CASE UNCHANGED vars
    BY <1>1 DEF vars, texts, cursors, IInv, TypeOK, InStep, LayoutsInStep,
        NothingLost, MayRetry, MatchesAsDefined, ComparedBefore
<1> QED
    BY <1>1, PassOperatorIInv, AdvanceBothIInv, RetryIInv, FailIInv,
        SucceedIInv DEF Next

\* The pairs compared all lie before the pair compared next.
LEMMA IInvNeverComparesAgain == IInv => NeverComparesAgain
<1> SUFFICES ASSUME IInv, Looping, Comparing
             PROVE  <<patternPart, addressPart>> \notin compared
    BY DEF NeverComparesAgain
<1>1. ComparedBefore /\ InStep /\ result = "running"
    BY DEF IInv, Looping
<1>2. /\ patternPart \in Int /\ addressPart \in Int
      /\ patternAfterOperator \in Int
    <2>1. TypeOK
        BY DEF IInv
    <2>2. pattern \in Seq(Tokens) /\ address \in Seq(AddressParts)
        BY <2>1 DEF TypeOK
    <2>3. Len(pattern) \in Nat /\ Len(address) \in Nat
        BY <2>2, LenProperties
    <2>4. patternPart \in 1..(Len(pattern) + 1)
        BY <2>1 DEF TypeOK
    <2>5. addressPart \in 1..(Len(address) + 1)
        BY <2>1 DEF TypeOK
    <2>6. patternAfterOperator \in 1..(Len(pattern) + 1)
        BY <2>1 DEF TypeOK
    <2> QED
        BY <2>3, <2>4, <2>5, <2>6
<1> QED
    BY <1>1, <1>2 DEF ComparedBefore, InStep

\* Every state of every match satisfies the inductive invariant.
THEOREM Invariance == Spec => []IInv
<1>1. Init => IInv
    BY InitIInv
<1>2. IInv /\ [Next]_vars => IInv'
    BY NextIInv
<1> QED
    BY <1>1, <1>2, PTL DEF Spec

\* The cursors stay within the texts, in every behaviour of the matcher.
THEOREM TypeCorrect == Spec => []TypeOK
<1>1. IInv => TypeOK
    BY DEF IInv
<1> QED
    BY <1>1, Invariance, PTL

\* matchParts returns true exactly when the tokens of the pattern can be laid
\* along the parts of the address, whatever the pattern, the address and Fits.
THEOREM MatchesCorrectly == Spec => []MatchesAsDefined
<1>1. IInv => MatchesAsDefined
    BY DEF IInv
<1> QED
    BY <1>1, Invariance, PTL

\* matchParts never compares the same two parts a second time.
THEOREM WorkBounded == Spec => []NeverComparesAgain
<1>1. IInv => NeverComparesAgain
    BY IInvNeverComparesAgain
<1> QED
    BY <1>1, Invariance, PTL
=============================================================================
