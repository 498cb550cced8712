----------------------------- MODULE DataLemmas -----------------------------
(***************************************************************************)
(* Lemmas about numbers, functions and lists that the proofs of several    *)
(* components need.                                                        *)
(*                                                                         *)
(* The theorems of the library that take a predicate or an operator cannot *)
(* be used with the provers, so a set of numbers stands for a predicate    *)
(* here and a function for an operator.  Induction comes from the          *)
(* intervals from zero: they are well ordered by inclusion.                *)
(***************************************************************************)
EXTENDS Integers, SequencesExt, FiniteSetsExt, FiniteSetTheorems, SequenceTheorems,
        WellFoundedInduction, TLAPS

\* A set of natural numbers that is not empty has a least element.
LEMMA LeastNumber ==
    ASSUME NEW S, S \subseteq Nat, S # {}
    PROVE  \E m \in S : \A n \in S : m <= n
<1> DEFINE R == StrictSubsetOrdering(Nat)
           Segments == {0..n : n \in S}
<1>1. Segments \subseteq FiniteSubsetsOf(Nat)
    <2> SUFFICES ASSUME NEW n \in S PROVE 0..n \in FiniteSubsetsOf(Nat)
        OBVIOUS
    <2>1. IsFiniteSet(0..n) /\ 0..n \subseteq Nat
        BY FS_Interval
    <2> QED
        BY <2>1 DEF FiniteSubsetsOf
<1>2. IsWellFoundedOn(R, FiniteSubsetsOf(Nat))
    BY FS_StrictSubsetOrderingWellFounded
<1>3. PICK least \in Segments : \A s \in Segments : <<s, least>> \notin R
    <2>1. Segments # {}
        OBVIOUS
    <2> HIDE DEF R, Segments
    <2> QED
        BY <1>1, <1>2, <2>1, WFMin
<1>4. PICK m \in S : least = 0..m
    OBVIOUS
<1>5. ASSUME NEW n \in S, n < m PROVE FALSE
    <2>1. m \in 0..m /\ m \notin 0..n
        BY <1>5
    <2>2. 0..n \subseteq 0..m /\ 0..n # 0..m
        BY <1>5, <2>1
    <2>3. <<0..n, 0..m>> \in R
        BY <2>2 DEF StrictSubsetOrdering
    <2> QED
        BY <1>3, <1>4, <2>3
<1> QED
    BY <1>5

\* A set that holds the first number of an interval, and with each number the
\* next, holds them all.
LEMMA Induction ==
    ASSUME NEW S, NEW first \in Nat, NEW last \in Nat,
           first \in S,
           \A n \in first..(last - 1) : n \in S => n + 1 \in S
    PROVE  first..last \subseteq S
<1> DEFINE Missing == {n \in first..last : n \notin S}
<1> SUFFICES ASSUME Missing # {} PROVE FALSE
    OBVIOUS
<1>1. PICK m \in Missing : \A n \in Missing : m <= n
    <2>1. Missing \subseteq Nat
        OBVIOUS
    <2> HIDE DEF Missing
    <2> QED
        BY <2>1, LeastNumber
<1>2. m \in Nat /\ m \in first..last /\ m \notin S /\ m # first
    BY <1>1
<1>3. m - 1 \in first..(last - 1)
    BY <1>2
<1>4. m - 1 \notin Missing
    BY <1>1, <1>2
<1>5. m - 1 \in S
    BY <1>3, <1>4
<1> QED
    BY <1>2, <1>3, <1>5

\* Functions that make a value of S of a value of S, one for each number.
StepsWithin(next, S, n) == next \in [1..n -> [S -> S]]

\* A function whose values come each from the one before by these steps.
FollowsSteps(f, start, next, S, n) ==
    /\ f \in [0..n -> S]
    /\ f[0] = start
    /\ \A k \in 1..n : f[k] = next[k][f[k - 1]]

\* A function on an interval may be defined by its first value and by how each
\* value comes from the one before.
LEMMA Recursion ==
    ASSUME NEW S, NEW start \in S, NEW n \in Nat,
           NEW next, StepsWithin(next, S, n)
    PROVE  \E f : FollowsSteps(f, start, next, S, n)
<1> USE DEF StepsWithin
<1> DEFINE Solves(f, m) ==
               \A k \in 0..m : f[k] = IF k = 0 THEN start
                                              ELSE next[k][f[k - 1]]
           Solved == {m \in 0..n : \E f \in [0..m -> S] : Solves(f, m)}
<1>1. 0 \in Solved
    <2>1. [k \in 0..0 |-> start] \in [0..0 -> S]
        OBVIOUS
    <2>2. Solves([k \in 0..0 |-> start], 0)
        OBVIOUS
    <2>3. \E f \in [0..0 -> S] : Solves(f, 0)
        BY <2>1, <2>2
    <2>4. 0 \in 0..n
        OBVIOUS
    <2> HIDE DEF Solves
    <2> QED
        BY <2>3, <2>4
<1>2. ASSUME NEW m \in 0..(n - 1), m \in Solved PROVE m + 1 \in Solved
    <2>1. PICK f \in [0..m -> S] : Solves(f, m)
        BY <1>2
    <2> DEFINE g == [k \in 0..(m + 1) |->
                        IF k = m + 1 THEN next[m + 1][f[m]] ELSE f[k]]
    <2>2. next[m + 1][f[m]] \in S
        <3>1. m + 1 \in 1..n /\ f[m] \in S
            OBVIOUS
        <3>2. next[m + 1] \in [S -> S]
            BY <3>1
        <3> QED
            BY <3>1, <3>2
    <2>3. g \in [0..(m + 1) -> S]
        BY <2>2
    <2>4. ASSUME NEW k \in 0..(m + 1)
          PROVE  g[k] = IF k = 0 THEN start ELSE next[k][g[k - 1]]
        <3>1. CASE k = m + 1
            <4>1. k # 0 /\ k - 1 = m /\ g[k] = next[k][f[m]] /\ g[m] = f[m]
                BY <3>1
            <4> QED
                BY <4>1
        <3>2. CASE k # m + 1
            <4>1. k \in 0..m /\ g[k] = f[k] /\ (k # 0 => g[k - 1] = f[k - 1])
                BY <3>2
            <4>2. f[k] = IF k = 0 THEN start ELSE next[k][f[k - 1]]
                BY <2>1, <4>1
            <4> QED
                BY <4>1, <4>2
        <3> QED
            BY <3>1, <3>2
    <2>5. m + 1 \in 0..n
        OBVIOUS
    <2> HIDE DEF g
    <2> QED
        BY <2>3, <2>4, <2>5
<1>3. n \in Solved
    <2>1. 0..n \subseteq Solved
        <3> HIDE DEF Solved
        <3> QED
            BY <1>1, <1>2, Induction
    <2> QED
        BY <2>1
<1>4. PICK f \in [0..n -> S] : Solves(f, n)
    BY <1>3
<1>5. f[0] = start /\ \A k \in 1..n : f[k] = next[k][f[k - 1]]
    BY <1>4
<1> QED
    BY <1>5 DEF FollowsSteps

\* A function whose value at a number is its value at a later one, which `next'
\* gives, or is given by `value' where `next' leads nowhere.
FollowsJumps(f, n, next, value, S) ==
    /\ f \in [1..n -> S]
    /\ \A at \in 1..n : f[at] = IF next[at] = at THEN value[at] ELSE f[next[at]]

\* A jump stays where it is or leads ahead.
JumpsAhead(next, value, n, S) ==
    /\ next \in [1..n -> 1..n] /\ value \in [1..n -> S]
    /\ \A at \in 1..n : at <= next[at]

\* A function on an interval may be defined by jumps ahead.
LEMMA JumpRecursion ==
    ASSUME NEW S, NEW n \in Nat, NEW next, NEW value, JumpsAhead(next, value, n, S)
    PROVE  \E f : FollowsJumps(f, n, next, value, S)
<1> USE DEF JumpsAhead
<1> DEFINE Body(f, at) == IF next[at] = at THEN value[at] ELSE f[next[at]]
           Ending(m) == (n - m + 1)..n
           Solves(f, m) == \A at \in Ending(m) : f[at] = Body(f, at)
           Solved == {m \in 0..n : \E f \in [Ending(m) -> S] : Solves(f, m)}
<1>1. 0 \in Solved
    <2>1. Ending(0) = {}
        OBVIOUS
    <2>2. [at \in Ending(0) |-> 0] \in [Ending(0) -> S]
        BY <2>1
    <2>3. \E f \in [Ending(0) -> S] : Solves(f, 0)
        BY <2>1, <2>2
    <2>4. 0 \in 0..n
        OBVIOUS
    <2> HIDE DEF Solves, Ending
    <2> QED
        BY <2>3, <2>4
<1>2. ASSUME NEW m \in 0..(n - 1), m \in Solved PROVE m + 1 \in Solved
    <2>1. PICK f \in [Ending(m) -> S] : Solves(f, m)
        BY <1>2
    <2> DEFINE new == n - m
               g == [at \in Ending(m + 1) |-> IF at = new THEN Body(f, new) ELSE f[at]]
    <2>2. /\ new \in 1..n /\ new \notin Ending(m)
          /\ Ending(m + 1) = Ending(m) \cup {new}
          /\ \A at \in 1..n : at >= new /\ at # new => at \in Ending(m)
          /\ \A at \in Ending(m) : at \in 1..n /\ at >= new /\ at # new
        OBVIOUS
    <2> HIDE DEF new, Ending
    <2>3. ASSUME NEW at \in Ending(m + 1), next[at] # at
          PROVE  next[at] \in Ending(m) /\ next[at] # new
        <3>1. at \in 1..n /\ at >= new
            BY <2>2
        <3>2. next[at] \in 1..n /\ next[at] >= at
            BY <3>1
        <3>3. next[at] >= new /\ next[at] # new
            BY <2>2, <2>3, <3>1, <3>2
        <3> QED
            BY <2>2, <3>2, <3>3
    <2>4. Body(f, new) \in S
        <3>1. new \in Ending(m + 1) /\ new \in 1..n
            BY <2>2
        <3> QED
            BY <2>3, <3>1
    <2>5. g \in [Ending(m + 1) -> S]
        BY <2>2, <2>4
    <2>6. ASSUME NEW at \in Ending(m + 1) PROVE g[at] = Body(g, at)
        <3>1. Body(g, at) = Body(f, at)
            BY <2>2, <2>3
        <3>2. at # new => f[at] = Body(f, at)
            BY <2>1, <2>2
        <3> HIDE DEF Body
        <3> QED
            BY <3>1, <3>2
    <2>7. m + 1 \in 0..n
        OBVIOUS
    <2> HIDE DEF g, Body
    <2> QED
        BY <2>5, <2>6, <2>7
<1>3. n \in Solved
    <2> HIDE DEF Solved
    <2>1. 0..n \subseteq Solved
        BY <1>1, <1>2, Induction
    <2>2. n \in 0..n
        OBVIOUS
    <2> QED
        BY <2>1, <2>2
<1>4. Ending(n) = 1..n
    OBVIOUS
<1>5. PICK f \in [1..n -> S] : \A at \in 1..n : f[at] = Body(f, at)
    <2> HIDE DEF Body, Ending
    <2> QED
        BY <1>3, <1>4
<1> QED
    BY <1>5 DEF FollowsJumps

(***************************************************************************)
(* Lists.                                                                  *)
(***************************************************************************)

\* The items of a list with one inserted, and with one removed.
IsInsertion(new, list, p, item) ==
    \A i \in 1..(Len(list) + 1) :
        new[i] = IF i < p THEN list[i]
                          ELSE IF i = p THEN item ELSE list[i - 1]

IsRemoval(new, list, p) ==
    \A i \in 1..(Len(list) - 1) :
        new[i] = IF i < p THEN list[i] ELSE list[i + 1]

\* An item inserted in a list.
LEMMA Inserted ==
    ASSUME NEW S, NEW list \in Seq(S), NEW item \in S,
           NEW p \in 1..(Len(list) + 1)
    PROVE  /\ InsertAt(list, p, item) \in Seq(S)
           /\ Len(InsertAt(list, p, item)) = Len(list) + 1
           /\ IsInsertion(InsertAt(list, p, item), list, p, item)
<1> USE DEF IsInsertion
<1> DEFINE n == Len(list)
           before == SubSeq(list, 1, p - 1)
           behind == SubSeq(list, p, n)
<1>1. n \in Nat
    BY LenProperties
<1>2. /\ before \in Seq(S) /\ Len(before) = p - 1
      /\ \A i \in 1..(p - 1) : before[i] = list[i]
    <2>1. \A i \in 1..(p - 1) : list[i] \in S
        BY <1>1, ElementOfSeq
    <2> QED
        BY <1>1, <2>1, SubSeqProperties
<1>3. /\ behind \in Seq(S) /\ Len(behind) = n - p + 1
      /\ \A i \in 1..(n - p + 1) : behind[i] = list[p + i - 1]
    <2>1. \A i \in p..n : list[i] \in S
        BY <1>1, ElementOfSeq
    <2> QED
        BY <1>1, <2>1, SubSeqProperties
<1> HIDE DEF before, behind
<1>4. <<item>> \in Seq(S) /\ Len(<<item>>) = 1 /\ <<item>>[1] = item
    OBVIOUS
<1>5. /\ before \o <<item>> \in Seq(S)
      /\ Len(before \o <<item>>) = p
      /\ \A i \in 1..p : (before \o <<item>>)[i] =
                            IF i < p THEN list[i] ELSE item
    <2>1. /\ before \o <<item>> \in Seq(S)
          /\ Len(before \o <<item>>) = Len(before) + Len(<<item>>)
          /\ \A i \in 1..(Len(before) + Len(<<item>>)) :
                 (before \o <<item>>)[i] = IF i <= Len(before) THEN before[i]
                                           ELSE <<item>>[i - Len(before)]
        BY <1>2, <1>4, ConcatProperties
    <2> QED
        BY <1>1, <1>2, <1>4, <2>1
<1> DEFINE front == before \o <<item>>
<1>f. /\ front \in Seq(S) /\ Len(front) = p
      /\ \A i \in 1..p : front[i] = IF i < p THEN list[i] ELSE item
    BY <1>5
<1> HIDE DEF front
<1>6. /\ front \o behind \in Seq(S)
      /\ Len(front \o behind) = Len(front) + Len(behind)
      /\ \A i \in 1..(Len(front) + Len(behind)) :
             (front \o behind)[i] = IF i <= Len(front) THEN front[i]
                                    ELSE behind[i - Len(front)]
    BY <1>3, <1>f, ConcatProperties
<1>7. InsertAt(list, p, item) = front \o behind
    BY DEF InsertAt, front, before, behind
<1>8. \A i \in 1..(n + 1) : i > p => i - p \in 1..(n - p + 1)
                                      /\ p + (i - p) - 1 = i - 1
    BY <1>1
<1>9. Len(front \o behind) = n + 1
    BY <1>1, <1>3, <1>f, <1>6
<1>10. ASSUME NEW i \in 1..(n + 1)
       PROVE  (front \o behind)[i] = IF i < p THEN list[i]
                                      ELSE IF i = p THEN item ELSE list[i - 1]
    <2>1. (front \o behind)[i] = IF i <= p THEN front[i] ELSE behind[i - p]
        BY <1>1, <1>3, <1>f, <1>6
    <2>0. i \in Nat /\ p \in Nat
        BY <1>1
    <2>2. CASE i <= p
        BY <2>1, <2>2, <1>f
    <2>3. CASE i > p
        <3>1. i - p \in 1..(n - p + 1) /\ p + (i - p) - 1 = i - 1
            BY <1>8, <2>3
        <3>2. behind[i - p] = list[i - 1]
            BY <1>3, <3>1
        <3> QED
            BY <2>1, <2>3, <3>2
    <2>4. i <= p \/ i > p
        BY <2>0
    <2> QED
        BY <2>2, <2>3, <2>4
<1> HIDE DEF n
<1> QED
    BY <1>6, <1>7, <1>9, <1>10 DEF n

\* A list without one of its items.
LEMMA Removed ==
    ASSUME NEW S, NEW list \in Seq(S), NEW p \in 1..Len(list)
    PROVE  /\ RemoveAt(list, p) \in Seq(S)
           /\ Len(RemoveAt(list, p)) = Len(list) - 1
           /\ IsRemoval(RemoveAt(list, p), list, p)
<1> USE DEF IsRemoval
<1> DEFINE n == Len(list)
           before == SubSeq(list, 1, p - 1)
           behind == SubSeq(list, p + 1, n)
<1>1. n \in Nat
    BY LenProperties
<1>2. /\ before \in Seq(S) /\ Len(before) = p - 1
      /\ \A i \in 1..(p - 1) : before[i] = list[i]
    <2>1. \A i \in 1..(p - 1) : list[i] \in S
        BY <1>1, ElementOfSeq
    <2> QED
        BY <1>1, <2>1, SubSeqProperties
<1>3. /\ behind \in Seq(S) /\ Len(behind) = n - p
      /\ \A i \in 1..(n - p) : behind[i] = list[p + i]
    <2>1. \A i \in (p + 1)..n : list[i] \in S
        BY <1>1, ElementOfSeq
    <2> QED
        BY <1>1, <2>1, SubSeqProperties
<1> HIDE DEF before, behind
<1>4. /\ before \o behind \in Seq(S)
      /\ Len(before \o behind) = Len(before) + Len(behind)
      /\ \A i \in 1..(Len(before) + Len(behind)) :
             (before \o behind)[i] = IF i <= Len(before) THEN before[i]
                                     ELSE behind[i - Len(before)]
    BY <1>2, <1>3, ConcatProperties
<1>5. RemoveAt(list, p) = before \o behind
    BY DEF RemoveAt, before, behind
<1>6. \A i \in 1..(n - 1) : i >= p => i - (p - 1) \in 1..(n - p)
                                      /\ p + (i - (p - 1)) = i + 1
    BY <1>1
<1>7. Len(before \o behind) = n - 1
    BY <1>1, <1>2, <1>3, <1>4
<1>8. ASSUME NEW i \in 1..(n - 1)
      PROVE  (before \o behind)[i] = IF i < p THEN list[i] ELSE list[i + 1]
    <2>1. (before \o behind)[i] = IF i <= p - 1 THEN before[i]
                                   ELSE behind[i - (p - 1)]
        BY <1>1, <1>2, <1>3, <1>4
    <2>0. i \in Nat /\ p \in Nat
        BY <1>1
    <2>2. CASE i < p
        BY <2>1, <2>2, <1>2
    <2>3. CASE i >= p
        <3>1. i - (p - 1) \in 1..(n - p) /\ p + (i - (p - 1)) = i + 1
            BY <1>6, <2>3
        <3>2. behind[i - (p - 1)] = list[i + 1]
            BY <1>3, <3>1
        <3> QED
            BY <2>1, <2>3, <3>2
    <2>4. i < p \/ i >= p
        BY <2>0
    <2> QED
        BY <2>2, <2>3, <2>4
<1> HIDE DEF n
<1> QED
    BY <1>4, <1>5, <1>7, <1>8 DEF n

\* A list in order.
Sorted(list) == \A i, j \in 1..Len(list) : i < j => list[i] < list[j]

\* A number inserted between those below and those above it keeps a list in
\* order.
LEMMA SortedInsertion ==
    ASSUME NEW S \in SUBSET Int, NEW list \in Seq(S), Sorted(list),
           NEW a \in S, NEW p \in 1..(Len(list) + 1),
           \A i \in 1..(p - 1) : list[i] < a,
           \A i \in p..Len(list) : list[i] > a
    PROVE  /\ InsertAt(list, p, a) \in Seq(S)
           /\ Len(InsertAt(list, p, a)) = Len(list) + 1
           /\ Sorted(InsertAt(list, p, a))
           /\ Range(InsertAt(list, p, a)) = Range(list) \cup {a}
<1> DEFINE n == Len(list)
           new == InsertAt(list, p, a)
<1>1. n \in Nat /\ p \in 1..(n + 1) /\ p \in Nat /\ DOMAIN list = 1..n
    BY LenProperties
<1>2. /\ new \in Seq(S) /\ Len(new) = n + 1 /\ DOMAIN new = 1..(n + 1)
      /\ \A i \in 1..(n + 1) : new[i] = IF i < p THEN list[i]
                                        ELSE IF i = p THEN a ELSE list[i - 1]
    <2>1. /\ new \in Seq(S) /\ Len(new) = n + 1
          /\ \A i \in 1..(n + 1) : new[i] = IF i < p THEN list[i]
                                        ELSE IF i = p THEN a ELSE list[i - 1]
        BY <1>1, Inserted DEF IsInsertion
    <2> QED
        BY <2>1, LenProperties
<1> HIDE DEF new
<1>3. \A i \in 1..n : list[i] \in Int
    BY <1>1, ElementOfSeq
<1>4. (\A i \in 1..(p - 1) : list[i] < a) /\ (\A i \in p..n : list[i] > a)
    OBVIOUS
<1>5. Sorted(new)
    <2> SUFFICES ASSUME NEW i \in 1..(n + 1), NEW j \in 1..(n + 1), i < j
                 PROVE  new[i] < new[j]
        BY <1>2 DEF Sorted
    <2>1. CASE j < p
        BY <1>1, <1>2, <2>1 DEF Sorted
    <2>2. CASE j = p
        BY <1>1, <1>2, <1>4, <2>2
    <2>3. CASE j > p /\ i < p
        BY <1>1, <1>2, <1>3, <1>4, <2>3 DEF Sorted
    <2>4. CASE j > p /\ i = p
        BY <1>1, <1>2, <1>4, <2>4
    <2>5. CASE i > p
        <3>1. i - 1 \in 1..n /\ j - 1 \in 1..n /\ i - 1 < j - 1 /\ j > p
            BY <1>1, <2>5
        <3>2. new[i] = list[i - 1] /\ new[j] = list[j - 1]
            BY <1>1, <1>2, <2>5, <3>1
        <3> QED
            BY <3>1, <3>2 DEF Sorted
    <2> QED
        BY <1>1, <2>1, <2>2, <2>3, <2>4, <2>5
<1>6. Range(new) = Range(list) \cup {a}
    <2>1. ASSUME NEW i \in 1..(n + 1)
          PROVE  new[i] \in Range(list) \cup {a}
        <3>1. CASE i = p
            BY <1>2, <3>1
        <3>2. CASE i < p
            <4>1. i \in 1..n /\ new[i] = list[i]
                BY <1>1, <1>2, <3>2
            <4> QED
                BY <1>1, <4>1 DEF Range
        <3>3. CASE i > p
            <4>1. i - 1 \in 1..n /\ new[i] = list[i - 1]
                BY <1>1, <1>2, <3>3
            <4> QED
                BY <1>1, <4>1 DEF Range
        <3> QED
            BY <1>1, <3>1, <3>2, <3>3
    <2>2. new[p] = a
        BY <1>1, <1>2
    <2>3. ASSUME NEW i \in 1..n PROVE list[i] \in Range(new)
        <3>1. CASE i < p
            <4>1. i \in 1..(n + 1) /\ new[i] = list[i]
                BY <1>1, <1>2, <3>1
            <4> QED
                BY <1>2, <4>1 DEF Range
        <3>2. CASE i >= p
            <4>1. i + 1 \in 1..(n + 1) /\ new[i + 1] = list[i]
                BY <1>1, <1>2, <3>2
            <4> QED
                BY <1>2, <4>1 DEF Range
        <3> QED
            BY <1>1, <3>1, <3>2
    <2> QED
        BY <1>1, <1>2, <2>1, <2>2, <2>3 DEF Range
<1> QED
    BY <1>2, <1>5, <1>6 DEF new

\* Without one of its items a list stays in order.
LEMMA SortedRemoval ==
    ASSUME NEW S \in SUBSET Int, NEW list \in Seq(S), Sorted(list),
           NEW p \in 1..Len(list)
    PROVE  /\ RemoveAt(list, p) \in Seq(S)
           /\ Len(RemoveAt(list, p)) = Len(list) - 1
           /\ Sorted(RemoveAt(list, p))
           /\ Range(RemoveAt(list, p)) = Range(list) \ {list[p]}
<1> DEFINE n == Len(list)
           new == RemoveAt(list, p)
<1>1. n \in Nat /\ p \in 1..(n + 1) /\ p \in Nat /\ DOMAIN list = 1..n
    BY LenProperties
<1>2. \A i \in 1..n : list[i] \in Int
    BY <1>1, ElementOfSeq
<1>5. /\ new \in Seq(S) /\ Len(new) = n - 1 /\ DOMAIN new = 1..(n - 1)
      /\ \A i \in 1..(n - 1) : new[i] = IF i < p THEN list[i] ELSE list[i + 1]
    <2>1. /\ new \in Seq(S) /\ Len(new) = n - 1
          /\ \A i \in 1..(n - 1) : new[i] = IF i < p THEN list[i]
                                            ELSE list[i + 1]
        BY <1>1, Removed DEF IsRemoval
    <2> QED
        BY <2>1, LenProperties
<1> HIDE DEF new
<1>6. Sorted(new)
    <2> SUFFICES ASSUME NEW i \in 1..(n - 1), NEW j \in 1..(n - 1), i < j
                 PROVE  new[i] < new[j]
        BY <1>5 DEF Sorted
    <2>1. CASE j < p
        BY <1>1, <1>5, <2>1 DEF Sorted
    <2>2. CASE j >= p /\ i < p
        BY <1>1, <1>5, <2>2 DEF Sorted
    <2>3. CASE i >= p
        BY <1>1, <1>5, <2>3 DEF Sorted
    <2> QED
        BY <1>1, <2>1, <2>2, <2>3
<1>7. Range(new) = Range(list) \ {list[p]}
    <2>1. ASSUME NEW i \in 1..(n - 1)
          PROVE  new[i] \in Range(list) \ {list[p]}
        <3>1. CASE i < p
            <4>1. i \in 1..n /\ new[i] = list[i] /\ list[i] < list[p]
                BY <1>1, <1>5, <3>1 DEF Sorted
            <4> QED
                BY <1>1, <1>2, <4>1 DEF Range
        <3>2. CASE i >= p
            <4>1. i + 1 \in 1..n /\ new[i] = list[i + 1] /\ list[p] < list[i + 1]
                BY <1>1, <1>5, <3>2 DEF Sorted
            <4> QED
                BY <1>1, <1>2, <4>1 DEF Range
        <3> QED
            BY <1>1, <3>1, <3>2
    <2>2. ASSUME NEW i \in 1..n, list[i] # list[p] PROVE list[i] \in Range(new)
        <3>1. CASE i < p
            BY <1>1, <1>5, <3>1 DEF Range
        <3>2. CASE i > p
            <4>1. i - 1 \in 1..(n - 1) /\ new[i - 1] = list[i]
                BY <1>1, <1>5, <3>2
            <4> QED
                BY <1>5, <4>1 DEF Range
        <3> QED
            BY <1>1, <2>2, <3>1, <3>2
    <2> QED
        BY <1>1, <1>5, <2>1, <2>2 DEF Range
<1> QED
    BY <1>5, <1>6, <1>7 DEF new

(***************************************************************************)
(* Numbers.                                                                *)
(***************************************************************************)

\* A remainder, and what makes a number one.
LEMMA Remainder ==
    ASSUME NEW n \in Nat \ {0}, NEW a \in Int
    PROVE  /\ a % n \in 0..(n - 1)
           /\ \E q \in Int : a = n * q + (a % n)
<1>1. a % n \in 0..(n - 1)
    OBVIOUS
<1>2. a = n * (a \div n) + (a % n) /\ (a \div n) \in Int
    OBVIOUS
<1> QED
    BY <1>1, <1>2

\* What is left of a multiple of n and a number less than n is that number.
LEMMA RemainderIs ==
    ASSUME NEW n \in Nat \ {0}, NEW q \in Int, NEW r \in 0..(n - 1)
    PROVE  (n * q + r) % n = r
OBVIOUS

\* Some steps on from a remainder, at most once round.
LEMMA StepsOn ==
    ASSUME NEW n \in Nat \ {0}, NEW a \in Int, NEW k \in 0..n
    PROVE  (a + k) % n = IF (a % n) + k < n THEN (a % n) + k ELSE (a % n) + k - n
<1>1. PICK q \in Int : a = n * q + (a % n)
    BY Remainder
<1>2. a % n \in 0..(n - 1)
    BY Remainder
<1> DEFINE r == a % n
<1> HIDE DEF r
<1>3. r \in 0..(n - 1) /\ a = n * q + r
    BY <1>1, <1>2 DEF r
<1>4. CASE r + k < n
    <2>1. a + k = n * q + (r + k) /\ r + k \in 0..(n - 1)
        BY <1>3, <1>4
    <2>2. (a + k) % n = r + k
        BY <2>1, RemainderIs
    <2> QED
        BY <1>4, <2>2 DEF r
<1>5. CASE r + k >= n
    <2>1. a + k = n * (q + 1) + (r + k - n)
        BY <1>3
    <2>2. r + k - n \in 0..(n - 1) /\ q + 1 \in Int
        BY <1>3, <1>5
    <2>3. (a + k) % n = r + k - n
        BY <2>1, <2>2, RemainderIs
    <2> QED
        BY <1>3, <1>5, <2>3 DEF r
<1> QED
    BY <1>3, <1>4, <1>5

\* The steps from a remainder to a number below n.
LEMMA StepsBetween ==
    ASSUME NEW n \in Nat \ {0}, NEW a \in Int, NEW s \in 0..(n - 1)
    PROVE  (s - a) % n = IF a % n <= s THEN s - (a % n) ELSE s - (a % n) + n
<1>1. PICK q \in Int : a = n * q + (a % n)
    BY Remainder
<1>2. a % n \in 0..(n - 1)
    BY Remainder
<1> DEFINE r == a % n
<1> HIDE DEF r
<1>3. r \in 0..(n - 1) /\ a = n * q + r
    BY <1>1, <1>2 DEF r
<1>4. CASE r <= s
    <2>1. s - a = n * (-q) + (s - r) /\ s - r \in 0..(n - 1) /\ -q \in Int
        BY <1>3, <1>4
    <2>2. (s - a) % n = s - r
        BY <2>1, RemainderIs
    <2> QED
        BY <1>4, <2>2 DEF r
<1>5. CASE r > s
    <2>1. s - a = n * (-q - 1) + (s - r + n)
        BY <1>3
    <2>2. s - r + n \in 0..(n - 1) /\ -q - 1 \in Int
        BY <1>3, <1>5
    <2>3. (s - a) % n = s - r + n
        BY <2>1, <2>2, RemainderIs
    <2> QED
        BY <1>3, <1>5, <2>3 DEF r
<1> QED
    BY <1>3, <1>4, <1>5

\* What doubling makes of a number until it is at least e.
LEMMA Doubling ==
    ASSUME NEW e \in Nat, NEW start \in Nat \ {0}
    PROVE  LET doubled == CHOOSE g : g = [n \in Nat |-> IF n >= e THEN n
                                                     ELSE g[2 * n]]
           IN  /\ doubled[start] \in Nat \ {0}
               /\ doubled[start] >= e
               /\ doubled[start] = start \/ doubled[start] < 2 * e
<1> DEFINE doubled == CHOOSE g : g = [n \in Nat |-> IF n >= e THEN n
                                                  ELSE g[2 * n]]
           Fits(g, n) == g[n] = IF n >= e THEN n ELSE g[2 * n]
           Solved == {m \in 0..e : \E g \in [Nat -> Nat] :
                        \A n \in Nat \ {0} : n >= e - m => Fits(g, n)}
\* From the numbers above e down to one, the equation has a solution.
<1>1. 0 \in Solved
    <2> DEFINE id == [n \in Nat |-> n]
    <2>1. id \in [Nat -> Nat] /\ \A n \in Nat \ {0} : n >= e - 0 => Fits(id, n)
        OBVIOUS
    <2>2. 0 \in 0..e
        OBVIOUS
    <2> HIDE DEF id
    <2> QED
        BY <2>1, <2>2
<1>2. ASSUME NEW m \in 0..(e - 1), m \in Solved PROVE m + 1 \in Solved
    <2>1. PICK g \in [Nat -> Nat] :
                \A n \in Nat \ {0} : n >= e - m => Fits(g, n)
        BY <1>2
    <2> DEFINE k == e - (m + 1)
               h == [g EXCEPT ![k] = g[2 * k]]
    <2>2. k \in Nat /\ 2 * k \in Nat /\ g[2 * k] \in Nat
        OBVIOUS
    <2>3. h \in [Nat -> Nat]
        BY <2>2
    <2>4. ASSUME NEW n \in Nat \ {0}, n >= e - (m + 1) PROVE Fits(h, n)
        <3>1. CASE n = k
            <4>1. 2 * n # n /\ ~(n >= e)
                BY <3>1
            <4> QED
                BY <2>2, <3>1, <4>1
        <3>2. CASE n # k
            <4>1. n >= e - m /\ 2 * n \in Nat /\ 2 * n # k
                BY <2>2, <2>4, <3>2
            <4>2. h[n] = g[n] /\ h[2 * n] = g[2 * n]
                BY <3>2, <4>1
            <4> QED
                BY <2>1, <4>1, <4>2
        <3> QED
            BY <3>1, <3>2
    <2>5. m + 1 \in 0..e
        OBVIOUS
    <2> HIDE DEF h, k, Fits
    <2> QED
        BY <2>3, <2>4, <2>5
<1>3. PICK g \in [Nat -> Nat] : \A n \in Nat \ {0} : Fits(g, n)
    <2>1. e \in Nat /\ 0..e \subseteq Solved
        <3>1. e \in Nat
            OBVIOUS
        <3> HIDE DEF Solved
        <3> QED
            BY <1>1, <1>2, <3>1, Induction
    <2>2. PICK g \in [Nat -> Nat] :
                \A n \in Nat \ {0} : n >= e - e => Fits(g, n)
        BY <2>1
    <2> QED
        BY <2>1, <2>2
<1> DEFINE s == [n \in Nat |-> IF n = 0 THEN 0 ELSE g[n]]
<1>4. s = [n \in Nat |-> IF n >= e THEN n ELSE s[2 * n]]
    <2> SUFFICES ASSUME NEW n \in Nat
                 PROVE  s[n] = IF n >= e THEN n ELSE s[2 * n]
        OBVIOUS
    <2>1. CASE n = 0
        BY <2>1
    <2>2. CASE n # 0
        <3>1. 2 * n \in Nat /\ 2 * n # 0
            BY <2>2
        <3>2. s[n] = g[n] /\ s[2 * n] = g[2 * n]
            BY <2>2, <3>1
        <3> QED
            BY <1>3, <2>2, <3>2
    <2> QED
        BY <2>1, <2>2
<1>5. doubled = [n \in Nat |-> IF n >= e THEN n ELSE doubled[2 * n]]
    <2> HIDE DEF s
    <2> QED
        BY <1>4
\* Whatever the solution, its values are at least e.
<1> HIDE DEF doubled
<1> DEFINE AtLeast(n) ==
               /\ doubled[n] \in Nat \ {0} /\ doubled[n] >= e
               /\ doubled[n] = n \/ doubled[n] < 2 * e
           Big == {m \in 0..e : \A n \in Nat \ {0} :
                        n >= e - m => AtLeast(n)}
<1>6. 0 \in Big
    BY <1>5
<1>7. ASSUME NEW m \in 0..(e - 1), m \in Big PROVE m + 1 \in Big
    <2> SUFFICES ASSUME NEW n \in Nat \ {0}, n >= e - (m + 1)
                 PROVE  AtLeast(n)
        OBVIOUS
    <2>1. CASE n >= e
        BY <1>5, <2>1
    <2>2. CASE n < e
        <3>1. 2 * n \in Nat \ {0} /\ 2 * n >= e - m
            BY <2>2
        <3>2. doubled[n] = doubled[2 * n]
            BY <1>5, <2>2
        <3> QED
            BY <1>7, <3>1, <3>2
    <2> QED
        BY <2>1, <2>2
<1>8. e \in Nat /\ 0..e \subseteq Big
    <2>1. e \in Nat
        OBVIOUS
    <2> HIDE DEF Big
    <2> QED
        BY <1>6, <1>7, <2>1, Induction
<1>9. start \in Nat \ {0} /\ start >= e - e /\ e \in Big
    <2>1. e \in 0..e
        OBVIOUS
    <2> HIDE DEF Big
    <2> QED
        BY <1>8, <2>1
<1> QED
    BY <1>9 DEF doubled

\* The greater of two numbers.
LEMMA Greater ==
    ASSUME NEW a \in Nat, NEW b \in Nat
    PROVE  Max({a, b}) \in Nat /\ Max({a, b}) >= a /\ Max({a, b}) >= b
<1>1. \E x \in {a, b} : \A y \in {a, b} : x >= y
    <2>1. CASE a >= b
        BY <2>1
    <2>2. CASE b >= a
        BY <2>2
    <2> QED
        BY <2>1, <2>2
<1>2. Max({a, b}) \in {a, b} /\ \A y \in {a, b} : Max({a, b}) >= y
    BY <1>1 DEF Max
<1> QED
    BY <1>2

\* The smaller of two numbers.
LEMMA Smaller ==
    ASSUME NEW a \in Nat, NEW b \in Nat
    PROVE  Min({a, b}) \in Nat /\ Min({a, b}) <= a /\ Min({a, b}) <= b
<1>1. \E x \in {a, b} : \A y \in {a, b} : x <= y
    <2>1. CASE a <= b
        BY <2>1
    <2>2. CASE b <= a
        BY <2>2
    <2> QED
        BY <2>1, <2>2
<1>2. Min({a, b}) \in {a, b} /\ \A y \in {a, b} : Min({a, b}) <= y
    BY <1>1 DEF Min
<1> QED
    BY <1>2

\* The least of a set of numbers.
LEMMA LeastOf ==
    ASSUME NEW S, S \subseteq Nat, S # {}
    PROVE  Min(S) \in S /\ \A n \in S : Min(S) <= n
<1>1. \E m \in S : \A n \in S : m <= n
    BY LeastNumber
<1> QED
    BY <1>1 DEF Min

\* The greatest of a set of numbers up to a limit.
LEMMA GreatestOf ==
    ASSUME NEW limit \in Nat, NEW S, S \subseteq 0..limit, S # {}
    PROVE  Max(S) \in S /\ \A n \in S : n <= Max(S)
<1> DEFINE Below == {m \in 0..limit : limit - m \in S}
<1>1. Below \subseteq Nat /\ Below # {}
    <2>1. PICK n \in S : TRUE
        OBVIOUS
    <2>2. n \in 0..limit
        BY <2>1
    <2>3. limit - n \in 0..limit /\ limit - (limit - n) = n
        BY <2>2
    <2>4. limit - n \in Below
        BY <2>3
    <2>5. Below \subseteq Nat
        OBVIOUS
    <2> HIDE DEF Below
    <2> QED
        BY <2>4, <2>5
<1>2. PICK m \in Below : \A k \in Below : m <= k
    <2> HIDE DEF Below
    <2> QED
        BY <1>1, LeastNumber
<1>3. ASSUME NEW n \in S PROVE n <= limit - m
    <2>1. n \in 0..limit
        BY <1>3
    <2>2. limit - n \in 0..limit /\ limit - (limit - n) = n
        BY <2>1
    <2>3. limit - n \in Below
        BY <1>3, <2>2
    <2>4. m <= limit - n /\ m \in 0..limit
        BY <1>2, <2>3
    <2> QED
        BY <2>1, <2>4
<1>4. \E g \in S : \A n \in S : g >= n
    <2>1. limit - m \in S /\ limit - m \in 0..limit
        BY <1>2
    <2>2. \A n \in S : limit - m >= n
        BY <1>3, <2>1
    <2> QED
        BY <2>1, <2>2
<1>5. Max(S) \in S /\ \A n \in S : Max(S) >= n
    BY <1>4 DEF Max
<1> QED
    BY <1>5
=============================================================================
