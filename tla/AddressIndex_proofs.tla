------------------------ MODULE AddressIndex_proofs ------------------------
(***************************************************************************)
(* The index finds exactly the addresses it holds, for every number of     *)
(* addresses, every function from addresses to hashes and every smallest   *)
(* table, as long as the numbers of the entries fit a slot.                *)
(*                                                                         *)
(* Slots form a circle.  A probe goes on round it until it meets an empty  *)
(* slot, so an entry is found as long as no slot between its home and its  *)
(* own is empty: that is what an insertion, a rebuild and the backward     *)
(* shift of an erasure have to keep.                                       *)
(***************************************************************************)
EXTENDS AddressIndex, DataLemmas

\* How many steps it takes from a slot to another.
Ahead(n, from, to) == IF from <= to THEN to - from ELSE to - from + n

\* The slot some steps on.
On(n, from, steps) == IF from + steps < n THEN from + steps ELSE from + steps - n

\* Each entry of E has one slot, and none between its home and that is empty.
IsIndex(table, n, E, home) ==
    /\ table \in [0..(n - 1) -> E \cup {kEmptySlot}]
    /\ \A v \in E : \E s \in 0..(n - 1) : table[s] = v
    /\ \A s, t \in 0..(n - 1) :
          table[s] = table[t] /\ table[s] # kEmptySlot => s = t
    /\ \A s, u \in 0..(n - 1) :
          table[s] # kEmptySlot =>
            (Ahead(n, home[table[s]], u) < Ahead(n, home[table[s]], s)
                => table[u] # kEmptySlot)

Homes(n, list) == [v \in 1..Len(list) |-> list[v] % n]

Typed ==
    /\ hashOf \in [Address -> Hashes]
    /\ addresses \in Seq(Address)
    /\ hashes \in Seq(Hashes)
    /\ Len(hashes) = Len(addresses)

\* The hashes are those of the addresses, which are in order.
Parallel ==
    /\ Sorted(addresses)
    /\ Len(addresses) <= MaxHeld
    /\ \A i \in 1..Len(addresses) : hashes[i] = hashOf[addresses[i]]

\* An index of all entries of a list, in which half of the slots are empty.
IsTable(table, list) ==
    \E n \in 1..Max({kMinSlots, 4 * MaxHeld}) :
        /\ n >= 2 * Len(list)
        /\ IsIndex(table, n, 1..Len(list), Homes(n, list))

Indexed == slots # NoSlots => IsTable(slots, hashes)

IInv == Typed /\ Parallel /\ Indexed

-----------------------------------------------------------------------------
\* The circle of slots.

\* From a slot to another and some steps on from a slot are each other's
\* inverse.
LEMMA Circle ==
    ASSUME NEW n \in Nat \ {0}, NEW from \in 0..(n - 1)
    PROVE  /\ \A to \in 0..(n - 1) :
                 /\ Ahead(n, from, to) \in 0..(n - 1)
                 /\ On(n, from, Ahead(n, from, to)) = to
           /\ \A k \in 0..(n - 1) :
                 On(n, from, k) \in 0..(n - 1) /\ Ahead(n, from, On(n, from, k)) = k
BY DEF Ahead, On

\* Steps are counted in natural numbers.
LEMMA StepsAhead ==
    ASSUME NEW n \in Nat \ {0}
    PROVE  \A a, b \in 0..(n - 1) : Ahead(n, a, b) \in Nat
BY DEF Ahead

\* Remainders by the number of slots are steps round the circle.
LEMMA Modular ==
    ASSUME NEW n \in Nat \ {0}
    PROVE  /\ \A s \in 0..(n - 1) : s % n = s
           /\ \A s, k \in 0..(n - 1) : (s + k) % n = On(n, s, k)
           /\ \A a \in Int, s \in 0..(n - 1) :
                 a % n \in 0..(n - 1) /\ (s - a) % n = Ahead(n, a % n, s)
<1>1. ASSUME NEW s \in 0..(n - 1) PROVE s % n = s
    <2>1. (n * 0 + s) % n = s
        BY RemainderIs
    <2>2. n * 0 + s = s
        OBVIOUS
    <2> QED
        BY <2>1, <2>2
<1>2. ASSUME NEW s \in 0..(n - 1), NEW k \in 0..(n - 1)
      PROVE  (s + k) % n = On(n, s, k)
    <2>1. k \in 0..n /\ s \in Int
        OBVIOUS
    <2>2. (s + k) % n = IF (s % n) + k < n THEN (s % n) + k ELSE (s % n) + k - n
        BY <2>1, StepsOn
    <2> QED
        BY <1>1, <2>2 DEF On
<1>3. ASSUME NEW a \in Int, NEW s \in 0..(n - 1)
      PROVE  a % n \in 0..(n - 1) /\ (s - a) % n = Ahead(n, a % n, s)
    <2>1. (s - a) % n = IF a % n <= s THEN s - (a % n) ELSE s - (a % n) + n
        BY StepsBetween
    <2> QED
        BY <2>1, Remainder DEF Ahead
<1> QED
    BY <1>1, <1>2, <1>3

\* The number of slots, and the home of a hash.
LEMMA Home ==
    ASSUME NEW n \in Nat \ {0}, NEW table, DOMAIN table = 0..(n - 1),
           NEW hash \in Int
    PROVE  /\ NumSlots(table) = n
           /\ hash % n \in 0..(n - 1)
           /\ \A k \in 0..(n - 1) : Probe(table, hash, k) = On(n, hash % n, k)
<1>1. NumSlots(table) = n
    <2>1. Cardinality(0..(n - 1)) = n
        BY FS_Interval
    <2> QED
        BY <2>1 DEF NumSlots
<1>2. hash % n \in 0..(n - 1)
    BY Remainder
<1>3. ASSUME NEW k \in 0..(n - 1) PROVE Probe(table, hash, k) = On(n, hash % n, k)
    <2>1. k \in 0..n
        OBVIOUS
    <2>2. (hash + k) % n = IF (hash % n) + k < n THEN (hash % n) + k
                                               ELSE (hash % n) + k - n
        BY <2>1, StepsOn
    <2> QED
        BY <1>1, <2>2 DEF Probe, On
<1> QED
    BY <1>1, <1>2, <1>3

\* If some slot holds one of these values, a probe ends at the first it meets.
LEMMA ProbeEnds ==
    ASSUME NEW n \in Nat \ {0}, NEW table, DOMAIN table = 0..(n - 1),
           NEW hash \in Int, NEW values,
           \E s \in 0..(n - 1) : table[s] \in values
    PROVE  LET step == FirstStep(table, hash, values)
               s == Probe(table, hash, step)
           IN  /\ step \in 0..(n - 1) /\ s \in 0..(n - 1)
               /\ IsFirstStep(table, hash, step, values)
               /\ s = On(n, hash % n, step) /\ Ahead(n, hash % n, s) = step
               /\ table[s] \in values
               /\ \A u \in 0..(n - 1) :
                     Ahead(n, hash % n, u) < step => table[u] \notin values
<1> DEFINE home == hash % n
           Ends == {k \in 0..(n - 1) : table[Probe(table, hash, k)] \in values}
<1>1. /\ NumSlots(table) = n /\ home \in 0..(n - 1)
      /\ \A k \in 0..(n - 1) : Probe(table, hash, k) = On(n, home, k)
    BY Home
<1> HIDE DEF home
<1>2. /\ \A to \in 0..(n - 1) :
            Ahead(n, home, to) \in 0..(n - 1) /\ On(n, home, Ahead(n, home, to)) = to
      /\ \A k \in 0..(n - 1) :
            On(n, home, k) \in 0..(n - 1) /\ Ahead(n, home, On(n, home, k)) = k
    BY <1>1, Circle
<1>3. Ends # {}
    <2>1. PICK s \in 0..(n - 1) : table[s] \in values
        OBVIOUS
    <2>2. Ahead(n, home, s) \in 0..(n - 1) /\ On(n, home, Ahead(n, home, s)) = s
        BY <1>2
    <2>3. Ahead(n, home, s) \in Ends
        BY <1>1, <2>1, <2>2
    <2> QED
        BY <2>3
<1>4. PICK m \in Ends : \A k \in Ends : m <= k
    <2>1. Ends \subseteq Nat
        OBVIOUS
    <2> HIDE DEF Ends
    <2> QED
        BY <1>3, <2>1, LeastNumber
<1>5. m \in 0..(n - 1) /\ IsFirstStep(table, hash, m, values)
    BY <1>4 DEF IsFirstStep
<1> DEFINE step == FirstStep(table, hash, values)
           s == Probe(table, hash, step)
<1>6. step \in 0..(n - 1) /\ IsFirstStep(table, hash, step, values)
    BY <1>1, <1>5 DEF FirstStep
<1> HIDE DEF step
<1>7. s = On(n, home, step) /\ s \in 0..(n - 1) /\ Ahead(n, home, s) = step
    BY <1>1, <1>2, <1>6
<1>8. table[s] \in values
    BY <1>6 DEF IsFirstStep
<1>9. ASSUME NEW u \in 0..(n - 1), Ahead(n, home, u) < step
      PROVE  table[u] \notin values
    <2>1. Ahead(n, home, u) \in 0..(step - 1)
        BY <1>2, <1>6, <1>9, SMTT(20)
    <2>2. Probe(table, hash, Ahead(n, home, u)) = u
        BY <1>1, <1>2
    <2> QED
        BY <1>6, <2>1, <2>2 DEF IsFirstStep
<1> QED
    BY <1>6, <1>7, <1>8, <1>9 DEF step, home

\* A probe that ends at the first of these values has ended where any other
\* would have.
LEMMA FirstStepIsOne ==
    ASSUME NEW n \in Nat \ {0}, NEW table, DOMAIN table = 0..(n - 1),
           NEW hash \in Int, NEW values,
           NEW s \in 0..(n - 1), table[s] \in values,
           \A u \in 0..(n - 1) :
               Ahead(n, hash % n, u) < Ahead(n, hash % n, s) => table[u] \notin values
    PROVE  /\ Probe(table, hash, FirstStep(table, hash, values)) = s
           /\ IsFirstStep(table, hash, FirstStep(table, hash, values), values)
           /\ FirstStep(table, hash, values) \in 0..(n - 1)
<1> DEFINE home == hash % n
           step == FirstStep(table, hash, values)
           t == Probe(table, hash, step)
<1>1. /\ step \in 0..(n - 1) /\ t \in 0..(n - 1)
      /\ IsFirstStep(table, hash, step, values)
      /\ t = On(n, home, step) /\ Ahead(n, home, t) = step
      /\ table[t] \in values
      /\ \A u \in 0..(n - 1) : Ahead(n, home, u) < step => table[u] \notin values
    BY ProbeEnds
<1>2. home \in 0..(n - 1)
    BY Remainder
<1> HIDE DEF home, step, t
<1>3. \A u \in 0..(n - 1) :
           Ahead(n, home, u) < Ahead(n, home, s) => table[u] \notin values
    BY DEF home
<1>4. Ahead(n, home, s) = step
    <2>1. Ahead(n, home, s) \in 0..(n - 1)
        BY <1>2, Circle
    <2>2. ~(Ahead(n, home, s) < step)
        BY <1>1
    <2>3. ~(step < Ahead(n, home, s))
        BY <1>1, <1>3
    <2> QED
        BY <1>1, <2>1, <2>2, <2>3
<1>5. On(n, home, Ahead(n, home, s)) = s
    BY <1>2, Circle
<1> QED
    BY <1>1, <1>4, <1>5 DEF step, t

\* With more slots than entries some slot is empty.
LEMMA SomeEmpty ==
    ASSUME NEW n \in Nat \ {0}, NEW N \in Nat, N < n, NEW home, NEW table,
           IsIndex(table, n, 1..N, home)
    PROVE  \E s \in 0..(n - 1) : table[s] = kEmptySlot
<1> SUFFICES ASSUME \A s \in 0..(n - 1) : table[s] # kEmptySlot
             PROVE  FALSE
    OBVIOUS
<1>1. table \in [0..(n - 1) -> 1..N]
    BY DEF IsIndex
<1>2. IsFiniteSet(0..(n - 1)) /\ Cardinality(0..(n - 1)) = n
    <2>1. IsFiniteSet(0..(n - 1))
        BY FS_Interval
    <2>2. Cardinality(0..(n - 1)) = n
        BY FS_Interval
    <2> QED
        BY <2>1, <2>2
<1>4. IsFiniteSet(1..N) /\ Cardinality(1..N) = N
    BY FS_Interval
<1>3. PICK s, t \in 0..(n - 1) : s # t /\ table[s] = table[t]
    BY <1>1, <1>2, <1>4, FS_PigeonHole
<1> QED
    BY <1>3 DEF IsIndex

\* As many slots are taken as there are entries.
LEMMA TakenSlots ==
    ASSUME NEW n \in Nat \ {0}, NEW N \in Nat, NEW home, NEW table,
           IsIndex(table, n, 1..N, home)
    PROVE  Cardinality({s \in DOMAIN table : table[s] # kEmptySlot}) = N
<1> DEFINE Taken == {s \in DOMAIN table : table[s] # kEmptySlot}
           f == [s \in Taken |-> table[s]]
<1>1. Taken = {s \in 0..(n - 1) : table[s] # kEmptySlot}
    BY DEF IsIndex
<1>2. f \in [Taken -> 1..N]
    BY <1>1 DEF IsIndex
<1>3. f \in Injection(Taken, 1..N)
    BY <1>1, <1>2 DEF IsIndex, Injection, IsInjective
<1>4. f \in Surjection(Taken, 1..N)
    <2>1. \A v \in 1..N : \E s \in Taken : f[s] = v
        BY <1>1, SMTT(20) DEF IsIndex, kEmptySlot
    <2> QED
        BY <1>2, <2>1 DEF Surjection
<1>5. IsFiniteSet(1..N) /\ Cardinality(1..N) = N
    BY FS_Interval
<1> HIDE DEF Taken, f
<1>6. Cardinality(Taken) = N
    BY <1>3, <1>4, <1>5, FS_Injection
<1> QED
    BY <1>6 DEF Taken

-----------------------------------------------------------------------------
\* One more entry, other numbers for the entries, a table from nothing.

\* A number that fits a slot is kept as it is.
LEMMA Kept ==
    ASSUME NEW v \in 0..kMaxEntries
    PROVE  Uint(v) = v
<1>1. kMaxEntries + 1 \in Nat \ {0} /\ v \in 0..((kMaxEntries + 1) - 1)
    BY IndexAssumption
<1>2. ((kMaxEntries + 1) * 0 + v) % (kMaxEntries + 1) = v
    BY <1>1, RemainderIs
<1>3. (kMaxEntries + 1) * 0 + v = v
    BY <1>1
<1> QED
    BY <1>2, <1>3 DEF Uint

\* An entry placed in the first empty slot of its probe is found again, and no
\* other is lost.
LEMMA Placing ==
    ASSUME NEW n \in Nat \ {0}, NEW E, NEW home, NEW table,
           IsIndex(table, n, E, home), kEmptySlot \notin E,
           \E s \in 0..(n - 1) : table[s] = kEmptySlot,
           NEW hash \in Int, NEW v, v \notin E, v # kEmptySlot, Uint(v) = v,
           home[v] = hash % n
    PROVE  IsIndex(Place(table, hash, v), n, E \cup {v}, home)
<1> DEFINE step == FirstStep(table, hash, {kEmptySlot})
           t == Probe(table, hash, step)
           new == Place(table, hash, v)
<1>1. table \in [0..(n - 1) -> E \cup {kEmptySlot}] /\ DOMAIN table = 0..(n - 1)
    BY DEF IsIndex
<1>2. /\ t \in 0..(n - 1) /\ Ahead(n, home[v], t) = step
      /\ table[t] = kEmptySlot
      /\ \A u \in 0..(n - 1) : Ahead(n, home[v], u) < step => table[u] # kEmptySlot
    <2>1. \E s \in 0..(n - 1) : table[s] \in {kEmptySlot}
        OBVIOUS
    <2>2. /\ t \in 0..(n - 1) /\ Ahead(n, hash % n, t) = step
          /\ table[t] \in {kEmptySlot}
          /\ \A u \in 0..(n - 1) :
                Ahead(n, hash % n, u) < step => table[u] \notin {kEmptySlot}
        BY <1>1, <2>1, ProbeEnds
    <2> QED
        BY <2>2
<1>3. new = [table EXCEPT ![t] = v]
    BY DEF Place
<1> HIDE DEF step, t, new
<1>4. /\ new \in [0..(n - 1) -> (E \cup {v}) \cup {kEmptySlot}]
      /\ new[t] = v /\ \A s \in 0..(n - 1) : s # t => new[s] = table[s]
    BY <1>1, <1>2, <1>3
<1>5. \A e \in E \cup {v} : \E s \in 0..(n - 1) : new[s] = e
    <2> SUFFICES ASSUME NEW e \in E PROVE \E s \in 0..(n - 1) : new[s] = e
        BY <1>2, <1>4
    <2>1. PICK s \in 0..(n - 1) : table[s] = e
        BY DEF IsIndex
    <2> QED
        BY <1>2, <1>4, <2>1
<1>6. ASSUME NEW s \in 0..(n - 1), NEW u \in 0..(n - 1),
             new[s] = new[u], new[s] # kEmptySlot
      PROVE  s = u
    BY <1>1, <1>2, <1>4, <1>6 DEF IsIndex
<1>7. ASSUME NEW s \in 0..(n - 1), NEW u \in 0..(n - 1), new[s] # kEmptySlot,
             Ahead(n, home[new[s]], u) < Ahead(n, home[new[s]], s)
      PROVE  new[u] # kEmptySlot
    <2>1. CASE u = t
        BY <1>4, <2>1
    <2>2. CASE u # t /\ s = t
        BY <1>2, <1>4, <1>7, <2>2
    <2>3. CASE u # t /\ s # t
        <3>1. new[s] = table[s] /\ new[u] = table[u]
            BY <1>4, <2>3
        <3> QED
            BY <1>7, <3>1 DEF IsIndex
    <2> QED
        BY <2>1, <2>2, <2>3
<1> QED
    BY <1>4, <1>5, <1>6, <1>7 DEF IsIndex, new

\* Each entry of E gets a number of its own, and each of F is used.
IsNumbering(number, E, F) ==
    /\ number \in [E -> F]
    /\ \A v, w \in E : number[v] = number[w] => v = w
    /\ \A f \in F : \E v \in E : number[v] = f

WithNumbers(table, n, number) ==
    [s \in 0..(n - 1) |-> IF table[s] = kEmptySlot THEN kEmptySlot
                                                  ELSE number[table[s]]]

\* Entries that get other numbers keep their homes and slots.
LEMMA Renumbering ==
    ASSUME NEW n \in Nat \ {0}, NEW E, NEW home, NEW table,
           IsIndex(table, n, E, home), kEmptySlot \notin E,
           NEW F, kEmptySlot \notin F, NEW number, IsNumbering(number, E, F),
           NEW other, \A v \in E : other[number[v]] = home[v]
    PROVE  IsIndex(WithNumbers(table, n, number), n, F, other)
<1> DEFINE new == WithNumbers(table, n, number)
<1> USE DEF IsNumbering
<1>0. /\ DOMAIN new = 0..(n - 1) /\ new = [s \in 0..(n - 1) |-> new[s]]
      /\ \A s \in 0..(n - 1) :
            new[s] = IF table[s] = kEmptySlot THEN kEmptySlot
                                              ELSE number[table[s]]
    BY DEF WithNumbers
<1> HIDE DEF new
<1>1. \A s \in 0..(n - 1) : table[s] \in E \/ table[s] = kEmptySlot
    BY DEF IsIndex
<1>2. /\ \A s \in 0..(n - 1) : new[s] \in F \cup {kEmptySlot}
      /\ \A s \in 0..(n - 1) : new[s] # kEmptySlot <=> table[s] # kEmptySlot
      /\ \A s \in 0..(n - 1) : new[s] # kEmptySlot => /\ table[s] \in E
                                                      /\ new[s] = number[table[s]]
    BY <1>0, <1>1
<1>3. new \in [0..(n - 1) -> F \cup {kEmptySlot}]
    BY <1>0, <1>2
<1>4. ASSUME NEW f \in F PROVE \E s \in 0..(n - 1) : new[s] = f
    <2>1. PICK v \in E : number[v] = f
        OBVIOUS
    <2>2. PICK s \in 0..(n - 1) : table[s] = v
        BY DEF IsIndex
    <2>3. new[s] = f
        BY <1>0, <2>1, <2>2
    <2> QED
        BY <2>3
<1>5. ASSUME NEW s \in 0..(n - 1), NEW t \in 0..(n - 1),
             new[s] = new[t], new[s] # kEmptySlot
      PROVE  s = t
    <2>1. table[s] = table[t] /\ table[s] # kEmptySlot
        BY <1>2, <1>5
    <2> QED
        BY <2>1 DEF IsIndex
<1>6. ASSUME NEW s \in 0..(n - 1), NEW u \in 0..(n - 1), new[s] # kEmptySlot,
             Ahead(n, other[new[s]], u) < Ahead(n, other[new[s]], s)
      PROVE  new[u] # kEmptySlot
    <2>1. table[s] # kEmptySlot /\ other[new[s]] = home[table[s]]
        BY <1>2, <1>6
    <2>2. table[u] # kEmptySlot
        BY <1>6, <2>1 DEF IsIndex
    <2> QED
        BY <1>2, <2>2
<1> QED
    BY <1>3, <1>4, <1>5, <1>6 DEF IsIndex, new

\* A table built from a list of hashes is an index of its entries.
LEMMA Filling ==
    ASSUME NEW list \in Seq(Nat), Len(list) <= kMaxEntries,
           NEW n \in Nat \ {0}, n >= 2 * Len(list)
    PROVE  IsIndex(Filled(list, n), n, 1..Len(list), Homes(n, list))
<1> DEFINE N == Len(list)
           home == Homes(n, list)
           S == [0..(n - 1) -> 0..kMaxEntries]
           start == [slot \in 0..(n - 1) |-> kEmptySlot]
           next == [i \in 1..N |-> [table \in S |-> Place(table, list[i], i)]]
           filled == CHOOSE g : g = [i \in 0..N |->
                        IF i = 0 THEN start ELSE Place(g[i - 1], list[i], i)]
           Done == {i \in 0..N : IsIndex(filled[i], n, 1..i, home)}
<1>1. N \in Nat /\ N <= kMaxEntries /\ kMaxEntries \in Nat /\ n >= 2 * N
    BY LenProperties, IndexAssumption
<1>2. \A i \in 1..N : list[i] \in Nat
    BY ElementOfSeq, LenProperties
<1> HIDE DEF N
<1>3. filled = [i \in 0..N |-> IF i = 0 THEN start
                               ELSE Place(filled[i - 1], list[i], i)]
    <2>1. start \in S
        BY <1>1 DEF kEmptySlot
    <2>2. next \in [1..N -> [S -> S]]
        <3> SUFFICES ASSUME NEW i \in 1..N, NEW table \in S
                     PROVE  Place(table, list[i], i) \in S
            OBVIOUS
        <3>1. Uint(i) \in 0..kMaxEntries
            <4>1. kMaxEntries + 1 \in Nat \ {0} /\ i \in Int
                BY <1>1
            <4>2. i % (kMaxEntries + 1) \in 0..((kMaxEntries + 1) - 1)
                BY <4>1, Remainder
            <4> QED
                BY <1>1, <4>2 DEF Uint
        <3> QED
            BY <3>1 DEF Place
    <2> HIDE DEF start, next, S, filled, home, Done
    <2>3. PICK f : FollowsSteps(f, start, next, S, N)
        <3>1. N \in Nat /\ StepsWithin(next, S, N)
            BY <1>1, <2>2 DEF StepsWithin
        <3> QED
            BY <2>1, <3>1, Recursion
    <2>4. /\ f \in [0..N -> S] /\ f[0] = start
          /\ \A k \in 1..N : f[k] = next[k][f[k - 1]]
        BY <2>3 DEF FollowsSteps
    <2>5. \A k \in 1..N : next[k][f[k - 1]] = Place(f[k - 1], list[k], k)
        <3> SUFFICES ASSUME NEW k \in 1..N
                     PROVE  next[k][f[k - 1]] = Place(f[k - 1], list[k], k)
            OBVIOUS
        <3>1. f[k - 1] \in S
            BY <1>1, <2>4
        <3> QED
            BY <3>1 DEF next
    <2>6. f = [k \in 0..N |-> IF k = 0 THEN start
                              ELSE Place(f[k - 1], list[k], k)]
        BY <1>1, <2>5, <2>4
    <2> QED
        BY <2>6 DEF filled
<1>4. Filled(list, n) = filled[N]
    BY DEF Filled, N
<1> HIDE DEF filled
<1>5. 0 \in Done
    <2>1. filled[0] = start /\ 1..0 = {} /\ 0 \in 0..N
        BY <1>1, <1>3
    <2>2. IsIndex(start, n, {}, home)
        BY DEF IsIndex
    <2> QED
        BY <2>1, <2>2
<1>6. ASSUME NEW i \in 0..(N - 1), i \in Done PROVE i + 1 \in Done
    <2>1. /\ i \in Nat /\ i + 1 \in 1..N /\ i + 1 \in 0..N /\ i + 1 # 0
          /\ (i + 1) - 1 = i /\ i < n
        BY <1>1
    <2>2. filled[i + 1] = Place(filled[i], list[i + 1], i + 1)
        BY <1>3, <2>1
    <2>3. IsIndex(filled[i], n, 1..i, home)
        BY <1>6
    <2>4. \E s \in 0..(n - 1) : filled[i][s] = kEmptySlot
        BY <2>1, <2>3, SomeEmpty
    <2>5. Uint(i + 1) = i + 1
        BY <1>1, <2>1, Kept
    <2>6. home[i + 1] = list[i + 1] % n /\ list[i + 1] \in Int
        BY <1>2, <2>1 DEF Homes, N
    <2>7. /\ kEmptySlot \notin 1..i /\ i + 1 \notin 1..i
          /\ i + 1 # kEmptySlot /\ (1..i) \cup {i + 1} = 1..(i + 1)
        BY <2>1 DEF kEmptySlot
    <2> HIDE DEF home, Done
    <2>8. IsIndex(filled[i + 1], n, (1..i) \cup {i + 1}, home)
        <3> DEFINE E == 1..i
                   v == i + 1
                   table == filled[i]
                   hash == list[i + 1]
        <3>1. /\ IsIndex(table, n, E, home) /\ kEmptySlot \notin E
              /\ \E s \in 0..(n - 1) : table[s] = kEmptySlot
              /\ hash \in Int /\ v \notin E /\ v # kEmptySlot /\ Uint(v) = v
              /\ home[v] = hash % n
            BY <2>3, <2>4, <2>5, <2>6, <2>7
        <3> HIDE DEF E, v, table, hash
        <3>2. IsIndex(Place(table, hash, v), n, E \cup {v}, home)
            BY <3>1, Placing
        <3> QED
            BY <2>2, <3>2 DEF E, v, table, hash
    <2> QED
        BY <2>1, <2>7, <2>8 DEF Done
<1>7. 0..N \subseteq Done
    <2> HIDE DEF Done
    <2> QED
        BY <1>1, <1>5, <1>6, Induction
<1> QED
    BY <1>1, <1>4, <1>7 DEF N

-----------------------------------------------------------------------------
\* The backward shift.

\* The slots that follow `start` as far as the first empty one.
IsRun(table, n, start, run) ==
    /\ run \in Nat /\ run + 1 <= n - 1
    /\ \A k \in 1..run : table[On(n, start, k)] # kEmptySlot
    /\ table[On(n, start, run + 1)] = kEmptySlot

(***************************************************************************)
(* The backward shift from `start` after k slots.  The slots further on    *)
(* are as they were and the others taken; the hole, whose value is no      *)
(* longer needed, is one of those; every other entry is where a probe      *)
(* finds it, even with the hole emptied as far as the shift has come.      *)
(***************************************************************************)
Shifted(table, n, E, home, start, k, new, hole) ==
    /\ new \in [0..(n - 1) -> E \cup {kEmptySlot}]
    /\ hole \in 0..(n - 1) /\ Ahead(n, start, hole) <= k
    /\ \A u \in 0..(n - 1) : Ahead(n, start, u) > k => new[u] = table[u]
    /\ \A u \in 0..(n - 1) : Ahead(n, start, u) <= k => new[u] # kEmptySlot
    /\ \A v \in E \ {table[start]} :
          \E s \in 0..(n - 1) : s # hole /\ new[s] = v
    /\ \A s, t \in (0..(n - 1)) \ {hole} :
          new[s] = new[t] /\ new[s] # kEmptySlot => s = t
    /\ \A s \in (0..(n - 1)) \ {hole} : new[s] # table[start]
    /\ \A s \in (0..(n - 1)) \ {hole}, u \in 0..(n - 1) :
          new[s] # kEmptySlot =>
            (Ahead(n, home[new[s]], u) < Ahead(n, home[new[s]], s)
                => new[u] # kEmptySlot)
    /\ \A s \in (0..(n - 1)) \ {hole} :
          Ahead(n, start, s) <= k =>
            Ahead(n, home[new[s]], hole) >= Ahead(n, home[new[s]], s)

\* Of two slots from which a third is reached, the nearer comes on the way from
\* the other.
LEMMA OnTheWay ==
    ASSUME NEW n \in Nat \ {0}, NEW a \in 0..(n - 1), NEW b \in 0..(n - 1),
           NEW c \in 0..(n - 1)
    PROVE  /\ Ahead(n, a, c) >= Ahead(n, b, c) =>
                 Ahead(n, a, b) = Ahead(n, a, c) - Ahead(n, b, c)
           /\ Ahead(n, a, c) < Ahead(n, b, c) => Ahead(n, a, b) > Ahead(n, a, c)
BY DEF Ahead

\* A probe that meets `next` before s, and s before the hole, meets the empty
\* slot too.
LEMMA PastTheNext ==
    ASSUME NEW n \in Nat \ {0}, NEW start \in 0..(n - 1), NEW hole \in 0..(n - 1),
           NEW s \in 0..(n - 1), NEW next \in 0..(n - 1), NEW empty \in 0..(n - 1),
           NEW home \in 0..(n - 1),
           Ahead(n, start, s) < Ahead(n, start, next),
           Ahead(n, start, hole) < Ahead(n, start, next),
           Ahead(n, start, next) < Ahead(n, start, empty),
           Ahead(n, home, s) <= Ahead(n, home, hole),
           Ahead(n, home, next) < Ahead(n, home, s)
    PROVE  Ahead(n, home, empty) < Ahead(n, home, s)
BY DEF Ahead

\* A probe that meets the hole before s, which is behind the empty slot, meets
\* the empty slot too.
LEMMA PastTheHole ==
    ASSUME NEW n \in Nat \ {0}, NEW start \in 0..(n - 1), NEW hole \in 0..(n - 1),
           NEW s \in 0..(n - 1), NEW empty \in 0..(n - 1), NEW home \in 0..(n - 1),
           Ahead(n, start, hole) < Ahead(n, start, empty),
           Ahead(n, start, empty) < Ahead(n, start, s),
           Ahead(n, home, hole) < Ahead(n, home, s)
    PROVE  Ahead(n, home, empty) < Ahead(n, home, s)
BY DEF Ahead

\* What the shift meets next: an entry that is still in its slot.
LEMMA NextOfRun ==
    ASSUME NEW n \in Nat \ {0}, NEW E, NEW home, NEW table,
           IsIndex(table, n, E, home), kEmptySlot \notin E,
           NEW start \in 0..(n - 1), table[start] \in E,
           NEW run, IsRun(table, n, start, run), NEW k \in 0..(run - 1),
           NEW new, NEW hole, Shifted(table, n, E, home, start, k, new, hole)
    PROVE  LET next == On(n, start, k + 1) IN
           /\ next \in 0..(n - 1) /\ Ahead(n, start, next) = k + 1
           /\ next # hole /\ new[next] = table[next]
           /\ table[next] \in E /\ table[next] # table[start]
           /\ \A u \in 0..(n - 1) :
                 Ahead(n, start, u) <= k + 1 <=> Ahead(n, start, u) <= k \/ u = next
<1> DEFINE next == On(n, start, k + 1)
<1>1. k + 1 \in 1..run /\ k + 1 \in 0..(n - 1) /\ k \in Nat
    BY DEF IsRun
<1>2. next \in 0..(n - 1) /\ Ahead(n, start, next) = k + 1
    BY <1>1, Circle
<1>3. table[next] # kEmptySlot
    BY <1>1 DEF IsRun
<1> HIDE DEF next
<1>4. table[next] \in E
    BY <1>2, <1>3 DEF IsIndex
<1>5. next # hole /\ new[next] = table[next]
    BY <1>1, <1>2 DEF Shifted
<1>6. new[next] # table[start]
    BY <1>2, <1>5 DEF Shifted
<1>7. ASSUME NEW u \in 0..(n - 1)
      PROVE  Ahead(n, start, u) <= k + 1 <=> Ahead(n, start, u) <= k \/ u = next
    <2>1. Ahead(n, start, u) \in Nat /\ On(n, start, Ahead(n, start, u)) = u
        BY Circle, StepsAhead
    <2>2. Ahead(n, start, u) = k + 1 => u = next
        BY <2>1 DEF next
    <2> QED
        BY <1>1, <1>2, <2>1, <2>2
<1> QED
    BY <1>2, <1>4, <1>5, <1>6, <1>7 DEF next

\* The next entry moves into the hole and leaves its own slot as the new one.
LEMMA ShiftMoves ==
    ASSUME NEW n \in Nat \ {0}, NEW E, NEW home, NEW table,
           \A v \in E : home[v] \in 0..(n - 1),
           IsIndex(table, n, E, home), kEmptySlot \notin E,
           NEW start \in 0..(n - 1), table[start] \in E,
           NEW run, IsRun(table, n, start, run), NEW k \in 0..(run - 1),
           NEW new, NEW hole, Shifted(table, n, E, home, start, k, new, hole),
           NEW next, next = On(n, start, k + 1),
           Ahead(n, home[table[next]], next) >= Ahead(n, hole, next)
    PROVE  Shifted(table, n, E, home, start, k + 1,
                   [new EXCEPT ![hole] = table[next]], next)
<1> DEFINE v == table[next]
           moved == [new EXCEPT ![hole] = v]
           empty == On(n, start, run + 1)
<1>1. /\ next \in 0..(n - 1) /\ Ahead(n, start, next) = k + 1
      /\ next # hole /\ new[next] = v
      /\ v \in E /\ v # table[start]
      /\ \A u \in 0..(n - 1) :
            Ahead(n, start, u) <= k + 1 <=> Ahead(n, start, u) <= k \/ u = next
    BY NextOfRun
<1>2. /\ new \in [0..(n - 1) -> E \cup {kEmptySlot}]
      /\ hole \in 0..(n - 1) /\ Ahead(n, start, hole) <= k
    BY DEF Shifted
<1>3. home[v] \in 0..(n - 1) /\ v # kEmptySlot
    BY <1>1
<1>4. /\ empty \in 0..(n - 1) /\ Ahead(n, start, empty) = run + 1
      /\ table[empty] = kEmptySlot /\ k + 1 < run + 1 /\ k \in Nat
    <2>1. run + 1 \in 0..(n - 1)
        BY DEF IsRun
    <2>2. empty \in 0..(n - 1) /\ Ahead(n, start, empty) = run + 1
        BY <2>1, Circle
    <2> QED
        BY <2>2 DEF IsRun
<1>5. \A a, b \in 0..(n - 1) : Ahead(n, a, b) \in Nat
    BY StepsAhead
<1>6. new[empty] = kEmptySlot
    BY <1>4, <1>5 DEF Shifted
\* The hole is on the way from the home of the entry to its slot.
<1>7. /\ Ahead(n, home[v], hole) = Ahead(n, home[v], next) - Ahead(n, hole, next)
      /\ Ahead(n, hole, next) > 0
    <2>1. Ahead(n, home[v], hole) = Ahead(n, home[v], next) - Ahead(n, hole, next)
        BY <1>1, <1>2, <1>3, OnTheWay
    <2>2. Ahead(n, hole, next) > 0
        BY <1>1, <1>2 DEF Ahead
    <2> QED
        BY <2>1, <2>2
<1>8. Ahead(n, home[v], hole) < Ahead(n, home[v], next)
    <2>1. Ahead(n, home[v], next) \in Nat /\ Ahead(n, hole, next) \in Nat
        BY <1>1, <1>2, <1>3, <1>5
    <2> QED
        BY <1>7, <2>1
<1> HIDE DEF v, moved, empty
<1>9. /\ moved \in [0..(n - 1) -> E \cup {kEmptySlot}]
      /\ moved[hole] = v
      /\ \A s \in 0..(n - 1) : s # hole => moved[s] = new[s]
    BY <1>1, <1>2 DEF moved
<1>10. \A u \in 0..(n - 1) : new[u] # kEmptySlot => moved[u] # kEmptySlot
    BY <1>3, <1>9
<1>11. \A u \in 0..(n - 1) : Ahead(n, start, u) > k + 1 => moved[u] = table[u]
    <2> SUFFICES ASSUME NEW u \in 0..(n - 1), Ahead(n, start, u) > k + 1
                 PROVE  moved[u] = table[u]
        OBVIOUS
    <2>1. Ahead(n, start, u) \in Nat /\ Ahead(n, start, hole) \in Nat
        BY <1>2, <1>5
    <2>2. u # hole /\ Ahead(n, start, u) > k
        BY <1>2, <1>4, <2>1
    <2> QED
        BY <1>9, <2>2 DEF Shifted
<1>12. \A u \in 0..(n - 1) : Ahead(n, start, u) <= k + 1 => moved[u] # kEmptySlot
    BY <1>1, <1>3, <1>10 DEF Shifted
<1>13. ASSUME NEW w \in E \ {table[start]}
       PROVE  \E s \in 0..(n - 1) : s # next /\ moved[s] = w
    <2>1. PICK s \in 0..(n - 1) : s # hole /\ new[s] = w
        BY DEF Shifted
    <2>2. CASE s = next
        <3>1. hole \in 0..(n - 1) /\ hole # next /\ moved[hole] = w
            BY <1>1, <1>2, <1>9, <2>1, <2>2
        <3> QED
            BY <3>1
    <2>3. CASE s # next
        BY <1>9, <2>1, <2>3
    <2> QED
        BY <2>2, <2>3
<1>14. \A s \in (0..(n - 1)) \ {hole} : new[s] = v => s = next
    BY <1>1, <1>3 DEF Shifted
<1>15. ASSUME NEW s \in (0..(n - 1)) \ {next}, NEW t \in (0..(n - 1)) \ {next},
              moved[s] = moved[t], moved[s] # kEmptySlot
       PROVE  s = t
    <2>1. CASE s = hole \/ t = hole
        BY <1>9, <1>14, <1>15, <2>1
    <2>2. CASE s # hole /\ t # hole
        BY <1>9, <1>15, <2>2 DEF Shifted
    <2> QED
        BY <2>1, <2>2
<1>16. \A s \in (0..(n - 1)) \ {next} : moved[s] # table[start]
    BY <1>1, <1>9 DEF Shifted
<1>17. ASSUME NEW s \in (0..(n - 1)) \ {next}, NEW u \in 0..(n - 1),
              moved[s] # kEmptySlot,
              Ahead(n, home[moved[s]], u) < Ahead(n, home[moved[s]], s)
       PROVE  moved[u] # kEmptySlot
    <2>1. CASE s = hole
        <3>1. Ahead(n, home[v], u) < Ahead(n, home[v], next)
            <4>1. Ahead(n, home[v], u) < Ahead(n, home[v], hole)
                BY <1>9, <1>17, <2>1
            <4>2. /\ Ahead(n, home[v], u) \in Nat
                  /\ Ahead(n, home[v], hole) \in Nat
                  /\ Ahead(n, home[v], next) \in Nat
                BY <1>1, <1>2, <1>3, <1>5
            <4> QED
                BY <1>8, <4>1, <4>2
        <3>2. new[u] # kEmptySlot
            BY <1>1, <1>3, <3>1 DEF Shifted
        <3> QED
            BY <1>10, <3>2
    <2>2. CASE s # hole
        <3>1. moved[s] = new[s]
            BY <1>9, <2>2
        <3>2. new[u] # kEmptySlot
            BY <1>17, <2>2, <3>1 DEF Shifted
        <3> QED
            BY <1>10, <3>2
    <2> QED
        BY <2>1, <2>2
<1>18. ASSUME NEW s \in (0..(n - 1)) \ {next}, Ahead(n, start, s) <= k + 1
       PROVE  Ahead(n, home[moved[s]], next) >= Ahead(n, home[moved[s]], s)
    <2>1. CASE s = hole
        <3>1. moved[s] = v
            BY <1>9, <2>1
        <3>2. Ahead(n, home[v], hole) \in Nat /\ Ahead(n, home[v], next) \in Nat
            BY <1>1, <1>2, <1>3, <1>5
        <3> QED
            BY <1>8, <2>1, <3>1, <3>2
    <2>2. CASE s # hole
        <3>1. moved[s] = new[s] /\ Ahead(n, start, s) <= k
            BY <1>1, <1>9, <1>18, <2>2
        <3>2. new[s] # kEmptySlot /\ new[s] \in E
            BY <1>2, <3>1 DEF Shifted
        <3>3. home[new[s]] \in 0..(n - 1)
            BY <3>2
        <3>4. Ahead(n, home[new[s]], hole) >= Ahead(n, home[new[s]], s)
            BY <2>2, <3>1 DEF Shifted
        <3>5. ~(Ahead(n, home[new[s]], empty) < Ahead(n, home[new[s]], s))
            BY <1>4, <1>6, <2>2, <3>2 DEF Shifted
        <3>6. ~(Ahead(n, home[new[s]], next) < Ahead(n, home[new[s]], s))
            <4>1. /\ Ahead(n, start, s) < Ahead(n, start, next)
                  /\ Ahead(n, start, hole) < Ahead(n, start, next)
                  /\ Ahead(n, start, next) < Ahead(n, start, empty)
                  /\ Ahead(n, home[new[s]], s) <= Ahead(n, home[new[s]], hole)
                <5>1. /\ Ahead(n, start, s) \in Nat
                      /\ Ahead(n, start, hole) \in Nat
                      /\ Ahead(n, home[new[s]], s) \in Nat
                      /\ Ahead(n, home[new[s]], hole) \in Nat
                    BY <1>2, <1>5, <3>3
                <5>2. run \in Nat
                    BY DEF IsRun
                <5> QED
                    BY <1>1, <1>2, <1>4, <3>1, <3>4, <5>1, <5>2, SMTT(20)
            <4> QED
                BY <1>1, <1>2, <1>4, <3>3, <3>5, <4>1, PastTheNext, SMTT(20)
        <3> QED
            BY <1>1, <1>5, <3>1, <3>3, <3>6
    <2> QED
        BY <2>1, <2>2
<1>19. Ahead(n, start, next) <= k + 1
    BY <1>1, <1>4
<1> QED
    BY <1>1, <1>9, <1>11, <1>12, <1>13, <1>15, <1>16, <1>17, <1>18, <1>19
       DEF Shifted, moved, v

\* The next entry stays in its slot.
LEMMA ShiftPasses ==
    ASSUME NEW n \in Nat \ {0}, NEW E, NEW home, NEW table,
           \A v \in E : home[v] \in 0..(n - 1),
           IsIndex(table, n, E, home), kEmptySlot \notin E,
           NEW start \in 0..(n - 1), table[start] \in E,
           NEW run, IsRun(table, n, start, run), NEW k \in 0..(run - 1),
           NEW new, NEW hole, Shifted(table, n, E, home, start, k, new, hole),
           NEW next, next = On(n, start, k + 1),
           Ahead(n, home[table[next]], next) < Ahead(n, hole, next)
    PROVE  Shifted(table, n, E, home, start, k + 1, new, hole)
<1> DEFINE v == table[next]
<1>1. /\ next \in 0..(n - 1) /\ Ahead(n, start, next) = k + 1
      /\ next # hole /\ new[next] = v
      /\ v \in E /\ v # table[start]
      /\ \A u \in 0..(n - 1) :
            Ahead(n, start, u) <= k + 1 <=> Ahead(n, start, u) <= k \/ u = next
    BY NextOfRun
<1>2. /\ new \in [0..(n - 1) -> E \cup {kEmptySlot}]
      /\ hole \in 0..(n - 1) /\ Ahead(n, start, hole) <= k /\ k \in Nat
    BY DEF Shifted, IsRun
<1>3. home[v] \in 0..(n - 1) /\ v # kEmptySlot
    BY <1>1
<1>4. Ahead(n, home[v], hole) > Ahead(n, home[v], next)
    BY <1>1, <1>2, <1>3, OnTheWay
<1>5. \A a, b \in 0..(n - 1) : Ahead(n, a, b) \in Nat
    BY StepsAhead
<1> HIDE DEF v
<1>6. Ahead(n, start, hole) <= k + 1
    <2>1. Ahead(n, start, hole) \in Nat
        BY <1>2, <1>5
    <2> QED
        BY <1>2, <2>1
<1>7. \A u \in 0..(n - 1) : Ahead(n, start, u) > k + 1 => new[u] = table[u]
    BY <1>2, <1>5, SMTT(20) DEF Shifted
<1>8. \A u \in 0..(n - 1) : Ahead(n, start, u) <= k + 1 => new[u] # kEmptySlot
    BY <1>1, <1>3 DEF Shifted
<1>9. ASSUME NEW s \in (0..(n - 1)) \ {hole}, Ahead(n, start, s) <= k + 1
      PROVE  Ahead(n, home[new[s]], hole) >= Ahead(n, home[new[s]], s)
    <2>1. CASE s = next
        <3>1. /\ Ahead(n, home[v], hole) \in Nat
              /\ Ahead(n, home[v], next) \in Nat
            BY <1>1, <1>2, <1>3, <1>5
        <3> QED
            BY <1>1, <1>4, <2>1, <3>1
    <2>2. CASE s # next
        BY <1>1, <1>9, <2>2 DEF Shifted
    <2> QED
        BY <2>1, <2>2
<1> QED
    BY <1>2, <1>6, <1>7, <1>8, <1>9 DEF Shifted

\* Before the first step the hole is the slot of the erased entry.
LEMMA ShiftBegins ==
    ASSUME NEW n \in Nat \ {0}, NEW E, NEW home, NEW table,
           IsIndex(table, n, E, home), kEmptySlot \notin E,
           NEW start \in 0..(n - 1), table[start] \in E
    PROVE  Shifted(table, n, E, home, start, 0, table, start)
<1>1. \A u \in 0..(n - 1) : Ahead(n, start, u) <= 0 <=> u = start
    BY DEF Ahead
<1>2. table[start] # kEmptySlot
    OBVIOUS
<1>3. Ahead(n, start, start) <= 0
    BY <1>1
<1> QED
    BY <1>1, <1>2, <1>3 DEF Shifted, IsIndex

\* After the last step the hole can be emptied.
LEMMA ShiftEnds ==
    ASSUME NEW n \in Nat \ {0}, NEW E, NEW home, NEW table,
           \A v \in E : home[v] \in 0..(n - 1),
           NEW start \in 0..(n - 1), NEW run, IsRun(table, n, start, run),
           NEW new, NEW hole, Shifted(table, n, E, home, start, run, new, hole)
    PROVE  IsIndex([new EXCEPT ![hole] = kEmptySlot], n, E \ {table[start]}, home)
<1> DEFINE last == [new EXCEPT ![hole] = kEmptySlot]
           empty == On(n, start, run + 1)
<1>1. /\ new \in [0..(n - 1) -> E \cup {kEmptySlot}]
      /\ hole \in 0..(n - 1) /\ Ahead(n, start, hole) <= run /\ run \in Nat
    BY DEF Shifted, IsRun
<1>2. \A a, b \in 0..(n - 1) : Ahead(n, a, b) \in Nat
    BY StepsAhead
<1>3. /\ empty \in 0..(n - 1) /\ Ahead(n, start, empty) = run + 1
      /\ table[empty] = kEmptySlot
    <2>1. run + 1 \in 0..(n - 1)
        BY DEF IsRun
    <2>2. empty \in 0..(n - 1) /\ Ahead(n, start, empty) = run + 1
        BY <2>1, Circle
    <2> QED
        BY <2>2 DEF IsRun
<1>4. \A s \in 0..(n - 1) : Ahead(n, start, s) = run + 1 => s = empty
    BY Circle
<1> HIDE DEF empty, last
<1>5. new[empty] = kEmptySlot
    <2>1. Ahead(n, start, empty) > run
        BY <1>1, <1>3
    <2> QED
        BY <1>3, <2>1 DEF Shifted
<1>6. /\ DOMAIN last = 0..(n - 1) /\ last[hole] = kEmptySlot
      /\ \A s \in 0..(n - 1) : s # hole => last[s] = new[s]
      /\ last = [s \in 0..(n - 1) |-> last[s]]
    BY <1>1 DEF last
<1>7. \A s \in 0..(n - 1) : last[s] \in (E \ {table[start]}) \cup {kEmptySlot}
    BY <1>1, <1>6 DEF Shifted
<1>8. last \in [0..(n - 1) -> (E \ {table[start]}) \cup {kEmptySlot}]
    BY <1>6, <1>7
<1>9. \A v \in E \ {table[start]} : \E s \in 0..(n - 1) : last[s] = v
    BY <1>6 DEF Shifted
<1>10. ASSUME NEW s \in 0..(n - 1), NEW t \in 0..(n - 1),
              last[s] = last[t], last[s] # kEmptySlot
       PROVE  s = t
    <2>1. s # hole /\ t # hole /\ last[s] = new[s] /\ last[t] = new[t]
        BY <1>6, <1>10
    <2> QED
        BY <1>10, <2>1 DEF Shifted
<1>11. ASSUME NEW s \in 0..(n - 1), NEW u \in 0..(n - 1), last[s] # kEmptySlot,
              Ahead(n, home[last[s]], u) < Ahead(n, home[last[s]], s)
       PROVE  last[u] # kEmptySlot
    <2>1. s # hole /\ last[s] = new[s]
        BY <1>6, <1>11
    <2>2. new[s] \in E /\ home[new[s]] \in 0..(n - 1)
        BY <1>1, <1>11, <2>1
    <2>3. new[u] # kEmptySlot
        BY <1>11, <2>1 DEF Shifted
    <2>4. ~(Ahead(n, home[new[s]], hole) < Ahead(n, home[new[s]], s))
        <3>1. CASE Ahead(n, start, s) <= run
            <4>1. Ahead(n, home[new[s]], hole) >= Ahead(n, home[new[s]], s)
                BY <2>1, <3>1 DEF Shifted
            <4>2. /\ Ahead(n, home[new[s]], hole) \in Nat
                  /\ Ahead(n, home[new[s]], s) \in Nat
                BY <1>1, <1>2, <2>2
            <4> QED
                BY <4>1, <4>2
        <3>2. CASE Ahead(n, start, s) > run
            <4>1. s # empty
                BY <1>5, <1>11, <2>1
            <4>2. Ahead(n, start, s) \in Nat /\ Ahead(n, start, hole) \in Nat
                BY <1>1, <1>2
            <4>3. /\ Ahead(n, start, hole) < Ahead(n, start, empty)
                  /\ Ahead(n, start, empty) < Ahead(n, start, s)
                BY <1>1, <1>3, <1>4, <3>2, <4>1, <4>2
            <4>4. ~(Ahead(n, home[new[s]], empty) < Ahead(n, home[new[s]], s))
                BY <1>3, <1>5, <1>11, <2>1 DEF Shifted
            <4> QED
                BY <1>1, <1>3, <2>2, <4>3, <4>4, PastTheHole
        <3>3. Ahead(n, start, s) \in Nat
            BY <1>2
        <3> QED
            BY <1>1, <3>1, <3>2, <3>3
    <2>5. u # hole
        BY <1>11, <2>1, <2>4
    <2> QED
        BY <1>6, <2>3, <2>5
<1> QED
    BY <1>8, <1>9, <1>10, <1>11 DEF IsIndex, last

\* The loop of eraseSlot runs as far as the first empty slot.
LEMMA RunOf ==
    ASSUME NEW n \in Nat \ {0}, NEW table, DOMAIN table = 0..(n - 1),
           NEW start \in 0..(n - 1), table[start] # kEmptySlot,
           \E s \in 0..(n - 1) : table[s] = kEmptySlot
    PROVE  IsRun(table, n, start, FirstStep(table, start + 1, {kEmptySlot}))
<1> DEFINE run == FirstStep(table, start + 1, {kEmptySlot})
           first == (start + 1) % n
           empty == Probe(table, start + 1, run)
<1>1. /\ run \in 0..(n - 1) /\ empty \in 0..(n - 1)
      /\ empty = On(n, first, run) /\ Ahead(n, first, empty) = run
      /\ table[empty] \in {kEmptySlot}
      /\ \A u \in 0..(n - 1) :
            Ahead(n, first, u) < run => table[u] \notin {kEmptySlot}
    <2>1. start + 1 \in Int /\ \E s \in 0..(n - 1) : table[s] \in {kEmptySlot}
        OBVIOUS
    <2> QED
        BY <2>1, ProbeEnds
<1>2. first = IF start + 1 < n THEN start + 1 ELSE 0
    <2>1. CASE n = 1
        <3>1. start + 1 \in Int
            OBVIOUS
        <3>2. first \in 0..(n - 1)
            BY <3>1, Remainder
        <3> QED
            BY <2>1, <3>2
    <2>2. CASE n # 1
        <3>1. 1 \in 0..(n - 1)
            BY <2>2
        <3>2. first = On(n, start, 1)
            BY <3>1, Modular
        <3> QED
            BY <2>2, <3>2 DEF On
    <2> QED
        BY <2>1, <2>2
<1> HIDE DEF run, first, empty
<1>3. empty # start
    BY <1>1
<1>4. /\ run + 1 <= n - 1 /\ On(n, start, run + 1) = empty
    BY <1>1, <1>2, <1>3 DEF On, Ahead
<1>5. ASSUME NEW k \in 1..run PROVE table[On(n, start, k)] # kEmptySlot
    <2>1. On(n, start, k) \in 0..(n - 1) /\ Ahead(n, first, On(n, start, k)) = k - 1
        BY <1>1, <1>2, <1>4 DEF On, Ahead
    <2>2. k - 1 < run
        BY <1>1
    <2> QED
        BY <1>1, <2>1, <2>2
<1>6. run \in Nat /\ table[On(n, start, run + 1)] = kEmptySlot
    BY <1>1, <1>4
<1>7. IsRun(table, n, start, run)
    BY <1>4, <1>5, <1>6 DEF IsRun
<1> QED
    BY <1>7 DEF run

\* An erasure's backward shift leaves an index of the other entries.
LEMMA Shifting ==
    ASSUME hashes \in Seq(Nat), NEW n \in Nat \ {0},
           IsIndex(slots, n, 1..Len(hashes), Homes(n, hashes)),
           \E s \in 0..(n - 1) : slots[s] = kEmptySlot,
           NEW start \in 0..(n - 1), slots[start] # kEmptySlot
    PROVE  IsIndex(WithoutSlot(start), n, (1..Len(hashes)) \ {slots[start]},
                   Homes(n, hashes))
<1> DEFINE E == 1..Len(hashes)
           home == Homes(n, hashes)
           run == FirstStep(slots, start + 1, {kEmptySlot})
           Slot(k) == (start + k) % n
           Advanced(k, w) ==
               IF CanFill(slots, hashes[slots[Slot(k)]], Slot(k), w.hole)
               THEN [table |-> [w.table EXCEPT ![w.hole] = slots[Slot(k)]],
                     hole  |-> Slot(k)]
               ELSE w
           S == [table : [0..(n - 1) -> E \cup {kEmptySlot}], hole : 0..(n - 1)]
           first == [table |-> slots, hole |-> start]
           next == [k \in 1..run |-> [w \in S |-> Advanced(k, w)]]
           walk == CHOOSE g : g = [k \in 0..run |->
                      IF k = 0 THEN first ELSE Advanced(k, g[k - 1])]
           Done == {k \in 0..run : walk[k] \in S /\
                      Shifted(slots, n, E, home, start, k,
                              walk[k].table, walk[k].hole)}
<1>1. /\ slots \in [0..(n - 1) -> E \cup {kEmptySlot}] /\ DOMAIN slots = 0..(n - 1)
      /\ kEmptySlot \notin E /\ slots[start] \in E /\ NumSlots(slots) = n
    <2>1. slots \in [0..(n - 1) -> E \cup {kEmptySlot}]
        BY DEF IsIndex
    <2>2. DOMAIN slots = 0..(n - 1) /\ 0 \in Int
        BY <2>1
    <2>3. NumSlots(slots) = n
        BY <2>2, Home
    <2> QED
        BY <2>1, <2>2, <2>3 DEF kEmptySlot
<1>2. \A v \in E : home[v] = hashes[v] % n /\ hashes[v] \in Nat
                   /\ home[v] \in 0..(n - 1)
    <2> SUFFICES ASSUME NEW v \in E
                 PROVE  home[v] = hashes[v] % n /\ hashes[v] \in Nat
                        /\ home[v] \in 0..(n - 1)
        OBVIOUS
    <2>1. hashes[v] \in Nat
        BY ElementOfSeq, LenProperties
    <2>2. home[v] = hashes[v] % n
        BY DEF Homes
    <2>3. hashes[v] % n \in 0..(n - 1)
        <3>1. hashes[v] \in Int
            BY <2>1
        <3> QED
            BY <3>1, Remainder
    <2> QED
        BY <2>1, <2>2, <2>3
<1>0. IsIndex(slots, n, E, home)
    OBVIOUS
<1>3. IsRun(slots, n, start, run)
    BY <1>1, RunOf
<1>4. run \in Nat /\ run <= n - 1
    BY <1>3 DEF IsRun
<1>5. \A k \in 1..run : /\ Slot(k) = On(n, start, k) /\ Slot(k) \in 0..(n - 1)
                        /\ slots[Slot(k)] \in E
    <2> SUFFICES ASSUME NEW k \in 1..run
                 PROVE  /\ Slot(k) = On(n, start, k) /\ Slot(k) \in 0..(n - 1)
                        /\ slots[Slot(k)] \in E
        OBVIOUS
    <2>1. k \in 0..(n - 1)
        BY <1>4
    <2>3. Slot(k) = On(n, start, k)
        BY <2>1, Modular
    <2>4. On(n, start, k) \in 0..(n - 1)
        BY <2>1, Circle
    <2>5. slots[On(n, start, k)] # kEmptySlot
        BY <1>3 DEF IsRun
    <2> QED
        BY <1>1, <2>3, <2>4, <2>5
\* The loop's condition, on the circle.
<1>6. \A k \in 1..run, hole \in 0..(n - 1) :
         CanFill(slots, hashes[slots[Slot(k)]], Slot(k), hole) <=>
            Ahead(n, home[slots[Slot(k)]], Slot(k)) >= Ahead(n, hole, Slot(k))
    <2> SUFFICES ASSUME NEW k \in 1..run, NEW hole \in 0..(n - 1)
                 PROVE  CanFill(slots, hashes[slots[Slot(k)]], Slot(k), hole) <=>
                          Ahead(n, home[slots[Slot(k)]], Slot(k))
                             >= Ahead(n, hole, Slot(k))
        OBVIOUS
    <2> DEFINE s == Slot(k)
               hash == hashes[slots[s]]
    <2>1. /\ s \in 0..(n - 1) /\ hash \in Nat
          /\ home[slots[s]] = hash % n /\ hash % n \in 0..(n - 1)
        BY <1>2, <1>5
    <2> HIDE DEF s, hash
    <2>2. (s - hash) % n = Ahead(n, hash % n, s)
        <3>1. hash \in Int
            BY <2>1
        <3> QED
            BY <2>1, <3>1, Modular
    <2>3. (s - hole) % n = Ahead(n, hole, s)
        <3>1. hole \in Int /\ hole % n = hole
            <4>1. hole \in Int
                OBVIOUS
            <4>2. hole % n = hole
                BY Modular
            <4> QED
                BY <4>1, <4>2
        <3>2. (s - hole) % n = Ahead(n, hole % n, s)
            BY <2>1, <3>1, Modular
        <3> QED
            BY <3>1, <3>2
    <2>4. CanFill(slots, hash, s, hole) <=>
             Ahead(n, hash % n, s) >= Ahead(n, hole, s)
        BY <1>1, <2>2, <2>3 DEF CanFill
    <2> QED
        BY <2>1, <2>4 DEF s, hash
<1>7. WithoutSlot(start) = [walk[run].table EXCEPT ![walk[run].hole] = kEmptySlot]
    BY <1>1 DEF WithoutSlot
<1>8. first \in S
    BY <1>1
<1>9. \A k \in 1..run, w \in S : Advanced(k, w) \in S
    BY <1>5
<1>10. walk = [k \in 0..run |-> IF k = 0 THEN first ELSE Advanced(k, walk[k - 1])]
    <2>1. StepsWithin(next, S, run)
        BY <1>9 DEF StepsWithin
    <2> HIDE DEF S, first, next, walk, Done, E, home, run, Advanced
    <2>2. PICK f : FollowsSteps(f, first, next, S, run)
        BY <1>4, <1>8, <2>1, Recursion
    <2>3. /\ f \in [0..run -> S] /\ f[0] = first
          /\ \A k \in 1..run : f[k] = next[k][f[k - 1]]
        BY <2>2 DEF FollowsSteps
    <2>4. \A k \in 1..run : next[k][f[k - 1]] = Advanced(k, f[k - 1])
        <3> SUFFICES ASSUME NEW k \in 1..run
                     PROVE  next[k][f[k - 1]] = Advanced(k, f[k - 1])
            OBVIOUS
        <3>1. f[k - 1] \in S
            BY <1>4, <2>3
        <3> QED
            BY <3>1 DEF next
    <2>5. f = [k \in 0..run |-> IF k = 0 THEN first ELSE Advanced(k, f[k - 1])]
        BY <1>4, <2>3, <2>4
    <2> QED
        BY <2>5 DEF walk
<1> HIDE DEF walk
<1>11. 0 \in Done
    <2>1. walk[0] = first /\ 0 \in 0..run
        BY <1>4, <1>10
    <2>2. Shifted(slots, n, E, home, start, 0, slots, start)
        BY <1>1, ShiftBegins
    <2>3. first.table = slots /\ first.hole = start
        OBVIOUS
    <2> QED
        BY <1>8, <2>1, <2>2, <2>3
<1>12. ASSUME NEW k \in 0..(run - 1), k \in Done PROVE k + 1 \in Done
    <2> DEFINE w == walk[k]
               s == Slot(k + 1)
               new == w.table
               hole == w.hole
    <2>1. /\ k + 1 \in 1..run /\ k + 1 \in 0..run /\ (k + 1) - 1 = k /\ k + 1 # 0
        BY <1>4
    <2>2. walk[k + 1] = Advanced(k + 1, w)
        BY <1>10, <2>1
    <2>3. w \in S /\ Shifted(slots, n, E, home, start, k, new, hole)
        BY <1>12
    <2>4. hole \in 0..(n - 1)
        BY <2>3
    <2>5. Advanced(k + 1, w) \in S
        BY <1>9, <2>1, <2>3
    <2>6. /\ s = On(n, start, k + 1) /\ s \in 0..(n - 1) /\ slots[s] \in E
          /\ CanFill(slots, hashes[slots[s]], s, hole) <=>
                Ahead(n, home[slots[s]], s) >= Ahead(n, hole, s)
        BY <1>5, <1>6, <2>1, <2>4
    <2>7. CanFill(slots, hashes[slots[s]], s, hole) =>
              /\ Advanced(k + 1, w).table = [new EXCEPT ![hole] = slots[s]]
              /\ Advanced(k + 1, w).hole = s
        OBVIOUS
    <2>8. ~CanFill(slots, hashes[slots[s]], s, hole) =>
              /\ Advanced(k + 1, w).table = new
              /\ Advanced(k + 1, w).hole = hole
        OBVIOUS
    <2> HIDE DEF w, s, new, hole, home, E, run, S, Advanced
    <2>9. Shifted(slots, n, E, home, start, k + 1,
                  Advanced(k + 1, w).table, Advanced(k + 1, w).hole)
        <3>1. CASE CanFill(slots, hashes[slots[s]], s, hole)
            <4>1. Ahead(n, home[slots[s]], s) >= Ahead(n, hole, s)
                BY <2>6, <3>1
            <4>2. Shifted(slots, n, E, home, start, k + 1,
                          [new EXCEPT ![hole] = slots[s]], s)
                BY <1>1, <1>2, <1>3, <1>0, <2>3, <2>6, <4>1, ShiftMoves
            <4> QED
                BY <2>7, <3>1, <4>2
        <3>2. CASE ~CanFill(slots, hashes[slots[s]], s, hole)
            <4>1. Ahead(n, home[slots[s]], s) < Ahead(n, hole, s)
                <5>1. /\ Ahead(n, home[slots[s]], s) \in Nat
                      /\ Ahead(n, hole, s) \in Nat
                    BY <1>2, <2>4, <2>6, StepsAhead
                <5> QED
                    BY <2>6, <3>2, <5>1
            <4>2. Shifted(slots, n, E, home, start, k + 1, new, hole)
                BY <1>1, <1>2, <1>3, <1>0, <2>3, <2>6, <4>1, ShiftPasses
            <4> QED
                BY <2>8, <3>2, <4>2
        <3> QED
            BY <3>1, <3>2
    <2> QED
        BY <2>1, <2>2, <2>5, <2>9
<1>13. run \in Done
    <2>1. 0..run \subseteq Done
        <3> HIDE DEF Done
        <3> QED
            BY <1>4, <1>11, <1>12, Induction
    <2>2. run \in 0..run
        BY <1>4
    <2> HIDE DEF Done
    <2> QED
        BY <2>1, <2>2
<1>14. Shifted(slots, n, E, home, start, run, walk[run].table, walk[run].hole)
    BY <1>13
<1> HIDE DEF E, home, run
<1>15. IsIndex([walk[run].table EXCEPT ![walk[run].hole] = kEmptySlot], n,
               E \ {slots[start]}, home)
    BY <1>2, <1>3, <1>14, ShiftEnds
<1> QED
    BY <1>7, <1>15 DEF E, home, run

-----------------------------------------------------------------------------
\* Rebuilding, inserting and erasing leave an index of all entries.

\* The size of a rebuilt table.
LEMMA SizeOfTable ==
    ASSUME NEW N \in 0..MaxHeld
    PROVE  /\ SlotsFor(N) \in 1..Max({kMinSlots, 4 * MaxHeld})
           /\ SlotsFor(N) >= 2 * N
<1>1. /\ 2 * N \in Nat /\ kMinSlots \in Nat \ {0} /\ MaxHeld \in Nat
      /\ 4 * MaxHeld \in Nat
    BY IndexAssumption
<1>2. /\ SlotsFor(N) \in Nat \ {0} /\ SlotsFor(N) >= 2 * N
      /\ SlotsFor(N) = kMinSlots \/ SlotsFor(N) < 2 * (2 * N)
    BY <1>1, Doubling DEF SlotsFor
<1>3. /\ Max({kMinSlots, 4 * MaxHeld}) \in Nat
      /\ Max({kMinSlots, 4 * MaxHeld}) >= kMinSlots
      /\ Max({kMinSlots, 4 * MaxHeld}) >= 4 * MaxHeld
    BY <1>1, Greater
<1> QED
    BY <1>1, <1>2, <1>3

\* rebuild, when it succeeds.
LEMMA Rebuilding ==
    ASSUME MaxHeld <= kMaxEntries,
           NEW list \in Seq(Nat), Len(list) <= MaxHeld
    PROVE  IsTable(Rebuilt(list), list)
<1> DEFINE N == Len(list)
           n == SlotsFor(N)
<1>1. N \in 0..MaxHeld /\ N <= kMaxEntries
    BY LenProperties, IndexAssumption
<1>2. n \in 1..Max({kMinSlots, 4 * MaxHeld}) /\ n >= 2 * N
    BY <1>1, SizeOfTable
<1>3. Rebuilt(list) = Filled(list, n)
    <2>1. ~(Len(list) > kMaxEntries)
        BY <1>1, LenProperties, IndexAssumption
    <2> QED
        BY <2>1 DEF Rebuilt
<1>4. n \in Nat \ {0}
    BY <1>2
<1> HIDE DEF n
<1>5. IsIndex(Filled(list, n), n, 1..N, Homes(n, list))
    BY <1>1, <1>2, <1>4, Filling
<1> QED
    BY <1>2, <1>3, <1>5 DEF IsTable

\* A table that is not given up has the slots its index says.
LEMMA SlotsOfTable ==
    ASSUME NEW n \in Nat \ {0}, NEW E, NEW home, NEW table,
           IsIndex(table, n, E, home)
    PROVE  DOMAIN table = 0..(n - 1) /\ NumSlots(table) = n /\ table # NoSlots
<1>1. DOMAIN table = 0..(n - 1)
    BY DEF IsIndex
<1>2. NumSlots(table) = n
    <2>1. 0 \in Int
        OBVIOUS
    <2> QED
        BY <1>1, <2>1, Home
<1>3. 0 \in DOMAIN table
    BY <1>1
<1> QED
    BY <1>1, <1>2, <1>3 DEF NoSlots

\* insert, with slots enough: the later entries move up and the new one takes
\* its place.
LEMMA Inserting ==
    ASSUME MaxHeld <= kMaxEntries,
           NEW list \in Seq(Nat), Len(list) < MaxHeld,
           NEW n \in Nat \ {0}, n >= 2 * (Len(list) + 1),
           NEW table, IsIndex(table, n, 1..Len(list), Homes(n, list)),
           NEW hash \in Nat, NEW p \in 1..(Len(list) + 1)
    PROVE  IsIndex(Place(Renumbered(table, Uint(p - 1), 1), hash, p), n,
                   1..(Len(list) + 1), Homes(n, InsertAt(list, p, hash)))
<1> DEFINE N == Len(list)
           E == 1..N
           F == (1..(N + 1)) \ {p}
           grown == InsertAt(list, p, hash)
           home == Homes(n, list)
           other == Homes(n, grown)
           number == [v \in E |-> IF v >= p THEN v + 1 ELSE v]
           new == Renumbered(table, Uint(p - 1), 1)
<1>1. /\ N \in Nat /\ N < MaxHeld /\ MaxHeld \in Nat /\ kMaxEntries \in Nat
      /\ N + 1 <= kMaxEntries /\ n >= 2 * (N + 1) /\ p \in 1..(N + 1)
    BY LenProperties, IndexAssumption
<1>2. /\ grown \in Seq(Nat) /\ Len(grown) = N + 1
      /\ \A i \in 1..(N + 1) : grown[i] = IF i < p THEN list[i]
                                          ELSE IF i = p THEN hash ELSE list[i - 1]
    <2>1. /\ InsertAt(list, p, hash) \in Seq(Nat)
          /\ Len(InsertAt(list, p, hash)) = Len(list) + 1
          /\ \A i \in 1..(Len(list) + 1) :
                InsertAt(list, p, hash)[i] = IF i < p THEN list[i]
                                             ELSE IF i = p THEN hash
                                             ELSE list[i - 1]
        <3>1. /\ InsertAt(list, p, hash) \in Seq(Nat)
              /\ Len(InsertAt(list, p, hash)) = Len(list) + 1
              /\ IsInsertion(InsertAt(list, p, hash), list, p, hash)
            BY Inserted
        <3> QED
            BY <3>1 DEF IsInsertion
    <2> QED
        BY <2>1
<1> HIDE DEF N, grown
<1>3. kEmptySlot \notin E /\ kEmptySlot \notin F
    BY <1>1 DEF kEmptySlot
<1>4. IsIndex(table, n, E, home)
    BY DEF N
<1>5. /\ number \in [E -> F]
      /\ \A v, w \in E : number[v] = number[w] => v = w
    BY <1>1
<1>6. ASSUME NEW f \in F PROVE \E v \in E : number[v] = f
    <2>1. CASE f < p
        <3>1. f \in E /\ number[f] = f
            BY <1>1, <2>1
        <3> QED
            BY <3>1
    <2>2. CASE f > p
        <3>1. f - 1 \in E /\ number[f - 1] = f
            BY <1>1, <2>2
        <3> QED
            BY <3>1
    <2> QED
        BY <1>1, <2>1, <2>2
<1>7. ASSUME NEW v \in E PROVE other[number[v]] = home[v]
    <2>1. number[v] \in 1..(N + 1) /\ grown[number[v]] = list[v]
        BY <1>1, <1>2, SMTT(20)
    <2>2. other[number[v]] = grown[number[v]] % n
        BY <1>2, <2>1 DEF Homes
    <2>3. home[v] = list[v] % n
        BY DEF Homes, N
    <2> QED
        BY <2>1, <2>2, <2>3
<1>8. /\ DOMAIN table = 0..(n - 1)
      /\ \A s \in 0..(n - 1) : table[s] \in E \cup {kEmptySlot}
    BY <1>4 DEF IsIndex
<1>9. Uint(p - 1) = p - 1 /\ \A v \in E : Uint(v + 1) = v + 1
    <2>1. p - 1 \in 0..kMaxEntries /\ \A v \in E : v + 1 \in 0..kMaxEntries
        BY <1>1
    <2> QED
        BY <2>1, Kept
<1>10. /\ new = [s \in 0..(n - 1) |-> new[s]]
       /\ \A s \in 0..(n - 1) :
             new[s] = IF table[s] > p - 1 THEN Uint(table[s] + 1) ELSE table[s]
    BY <1>8, <1>9 DEF Renumbered
<1>11. ASSUME NEW s \in 0..(n - 1)
       PROVE  new[s] = IF table[s] = kEmptySlot THEN kEmptySlot
                                                ELSE number[table[s]]
    <2> DEFINE v == table[s]
    <2>3. new[s] = IF v > p - 1 THEN Uint(v + 1) ELSE v
        BY <1>10
    <2> HIDE DEF v
    <2>1. CASE v = kEmptySlot
        <3>1. ~(v > p - 1)
            BY <1>1, <2>1 DEF kEmptySlot
        <3> QED
            BY <2>1, <2>3, <3>1 DEF v
    <2>2. CASE v \in E
        <3>1. v # kEmptySlot /\ v \in Nat /\ p \in Nat
            BY <1>1, <1>3, <2>2
        <3>2. v > p - 1 <=> v >= p
            BY <3>1
        <3>3. new[s] = number[v]
            BY <1>9, <2>2, <2>3, <3>2
        <3> QED
            BY <3>1, <3>3 DEF v
    <2> QED
        BY <1>8, <2>1, <2>2 DEF v
<1>12. \E s \in 0..(n - 1) : table[s] = kEmptySlot
    BY <1>1, <1>4, SomeEmpty
<1>13. \E s \in 0..(n - 1) : new[s] = kEmptySlot
    BY <1>11, <1>12
<1> HIDE DEF new, number, home, other, F, E
<1>14. IsIndex(new, n, F, other)
    <2>1. IsNumbering(number, E, F)
        BY <1>5, <1>6 DEF IsNumbering
    <2>2. new = WithNumbers(table, n, number)
        BY <1>10, <1>11 DEF WithNumbers
    <2> QED
        BY <1>3, <1>4, <1>7, <2>1, <2>2, Renumbering
<1>15. p \notin F /\ p # kEmptySlot /\ F \cup {p} = 1..(N + 1)
    BY <1>1 DEF F, kEmptySlot
<1>16. Uint(p) = p
    BY <1>1, Kept
<1>17. other[p] = hash % n
    BY <1>1, <1>2, SMTT(20) DEF other, Homes
<1>18. IsIndex(Place(new, hash, p), n, F \cup {p}, other)
    BY <1>3, <1>13, <1>14, <1>15, <1>16, <1>17, Placing
<1> QED
    BY <1>15, <1>18 DEF new, other, grown, N

\* erase: the entries behind the hole move back, the later entries down.
LEMMA Erasing ==
    ASSUME MaxHeld <= kMaxEntries,
           hashes \in Seq(Nat), Len(hashes) <= MaxHeld,
           NEW n \in Nat \ {0}, n >= 2 * Len(hashes),
           IsIndex(slots, n, 1..Len(hashes), Homes(n, hashes)),
           NEW p \in 1..Len(hashes), NEW hole \in 0..(n - 1), slots[hole] = p
    PROVE  IsIndex(Renumbered(WithoutSlot(hole), Uint(p), -1), n,
                   1..(Len(hashes) - 1), Homes(n, RemoveAt(hashes, p)))
<1> DEFINE N == Len(hashes)
           E == (1..N) \ {p}
           F == 1..(N - 1)
           less == RemoveAt(hashes, p)
           home == Homes(n, hashes)
           other == Homes(n, less)
           number == [v \in E |-> IF v > p THEN v - 1 ELSE v]
           table == WithoutSlot(hole)
           new == Renumbered(table, Uint(p), -1)
<1>1. /\ N \in Nat /\ N <= MaxHeld /\ MaxHeld \in Nat /\ kMaxEntries \in Nat
      /\ N <= kMaxEntries /\ n >= 2 * N /\ p \in 1..N /\ N < n
    BY LenProperties, IndexAssumption
<1>2. /\ less \in Seq(Nat) /\ Len(less) = N - 1
      /\ \A i \in 1..(N - 1) : less[i] = IF i < p THEN hashes[i] ELSE hashes[i + 1]
    <2>1. /\ RemoveAt(hashes, p) \in Seq(Nat)
          /\ Len(RemoveAt(hashes, p)) = Len(hashes) - 1
          /\ IsRemoval(RemoveAt(hashes, p), hashes, p)
        BY Removed
    <2> QED
        BY <2>1 DEF IsRemoval
<1>3. IsIndex(table, n, E, home)
    <2>1. \E s \in 0..(n - 1) : slots[s] = kEmptySlot
        BY <1>1, SomeEmpty
    <2>2. slots[hole] # kEmptySlot
        BY <1>1 DEF kEmptySlot
    <2> QED
        BY <2>1, <2>2, Shifting
<1> HIDE DEF N, less, table
<1>4. kEmptySlot \notin E /\ kEmptySlot \notin F
    BY <1>1 DEF kEmptySlot
<1>5. /\ number \in [E -> F]
      /\ \A v, w \in E : number[v] = number[w] => v = w
    BY <1>1
<1>6. ASSUME NEW f \in F PROVE \E v \in E : number[v] = f
    <2>1. CASE f < p
        <3>1. f \in E /\ number[f] = f
            BY <1>1, <2>1
        <3> QED
            BY <3>1
    <2>2. CASE f >= p
        <3>1. f + 1 \in E /\ number[f + 1] = f
            BY <1>1, <2>2
        <3> QED
            BY <3>1
    <2> QED
        BY <1>1, <2>1, <2>2
<1>7. ASSUME NEW v \in E PROVE other[number[v]] = home[v]
    <2>1. number[v] \in 1..(N - 1) /\ less[number[v]] = hashes[v]
        <3>1. CASE v < p
            <4>1. number[v] = v /\ v \in 1..(N - 1)
                BY <1>1, <3>1
            <4> QED
                BY <1>2, <3>1, <4>1
        <3>2. CASE v > p
            <4>1. /\ number[v] = v - 1 /\ v - 1 \in 1..(N - 1)
                  /\ ~(v - 1 < p) /\ (v - 1) + 1 = v
                BY <1>1, <3>2
            <4> QED
                BY <1>2, <4>1
        <3> QED
            BY <1>1, <3>1, <3>2
    <2>2. other[number[v]] = less[number[v]] % n
        BY <1>2, <2>1 DEF Homes
    <2>3. home[v] = hashes[v] % n
        BY DEF Homes, N
    <2> QED
        BY <2>1, <2>2, <2>3
<1>8. /\ DOMAIN table = 0..(n - 1)
      /\ \A s \in 0..(n - 1) : table[s] \in E \cup {kEmptySlot}
    BY <1>3 DEF IsIndex
<1>9. Uint(p) = p /\ \A v \in E : v > p => Uint(v + -1) = v - 1
    <2>1. p \in 0..kMaxEntries
        BY <1>1
    <2>2. \A v \in E : v > p => v + -1 \in 0..kMaxEntries /\ v + -1 = v - 1
        BY <1>1
    <2> QED
        BY <2>1, <2>2, Kept
<1>10. /\ new = [s \in 0..(n - 1) |-> new[s]]
       /\ \A s \in 0..(n - 1) :
             new[s] = IF table[s] > p THEN Uint(table[s] + -1) ELSE table[s]
    BY <1>8, <1>9 DEF Renumbered
<1>11. ASSUME NEW s \in 0..(n - 1)
       PROVE  new[s] = IF table[s] = kEmptySlot THEN kEmptySlot
                                                ELSE number[table[s]]
    <2> DEFINE v == table[s]
    <2>1. new[s] = IF v > p THEN Uint(v + -1) ELSE v
        BY <1>10
    <2> HIDE DEF v
    <2>2. CASE v = kEmptySlot
        <3>1. ~(v > p)
            BY <1>1, <2>2 DEF kEmptySlot
        <3> QED
            BY <2>1, <2>2, <3>1 DEF v
    <2>3. CASE v \in E
        <3>1. v # kEmptySlot
            BY <1>4, <2>3
        <3>2. new[s] = number[v]
            BY <1>9, <2>1, <2>3
        <3> QED
            BY <3>1, <3>2 DEF v
    <2> QED
        BY <1>8, <2>2, <2>3 DEF v
<1> HIDE DEF new, number, home, other, F, E
<1>12. IsIndex(new, n, F, other)
    <2>1. IsNumbering(number, E, F)
        BY <1>5, <1>6 DEF IsNumbering
    <2>2. new = WithNumbers(table, n, number)
        BY <1>10, <1>11 DEF WithNumbers
    <2> QED
        BY <1>3, <1>4, <1>7, <2>1, <2>2, Renumbering
<1> QED
    BY <1>12 DEF new, table, F, other, less, N

\* eraseSlot finds the slot of the entry.
LEMMA HolesOf ==
    ASSUME NEW n \in Nat \ {0}, hashes \in Seq(Nat),
           IsIndex(slots, n, 1..Len(hashes), Homes(n, hashes)),
           NEW p \in 1..Len(hashes)
    PROVE  /\ HoleOf(p) # {}
           /\ \A hole \in HoleOf(p) : hole \in 0..(n - 1) /\ slots[hole] = p
<1> DEFINE home == hashes[p] % n
<1>1. hashes[p] \in Int
    <2>1. hashes[p] \in Nat
        BY ElementOfSeq, LenProperties
    <2> QED
        BY <2>1
<1>2. DOMAIN slots = 0..(n - 1) /\ NumSlots(slots) = n
    BY SlotsOfTable
<1>3. PICK s \in 0..(n - 1) : slots[s] = p
    BY DEF IsIndex
<1>4. \A u \in 0..(n - 1) :
           Ahead(n, home, u) < Ahead(n, home, s) => slots[u] \notin {p}
    <2> SUFFICES ASSUME NEW u \in 0..(n - 1), slots[u] = p PROVE u = s
        <3>1. ~(Ahead(n, home, s) < Ahead(n, home, s))
            <4>1. home \in 0..(n - 1)
                BY <1>1, Remainder
            <4>2. Ahead(n, home, s) \in Nat
                BY <4>1, StepsAhead
            <4> QED
                BY <4>2
        <3> QED
            BY <3>1
    <2>1. slots[s] # kEmptySlot
        BY <1>3 DEF kEmptySlot
    <2> QED
        BY <1>3, <2>1 DEF IsIndex
<1> DEFINE step == FirstStep(slots, hashes[p], {p})
<1>5. /\ Probe(slots, hashes[p], step) = s /\ step \in 0..(n - 1)
      /\ IsFirstStep(slots, hashes[p], step, {p})
    BY <1>1, <1>2, <1>3, <1>4, FirstStepIsOne
<1> HIDE DEF step
<1>6. s \in HoleOf(p)
    BY <1>2, <1>3, <1>5 DEF HoleOf
<1>7. ASSUME NEW hole \in HoleOf(p) PROVE hole \in 0..(n - 1) /\ slots[hole] = p
    BY <1>2 DEF HoleOf, IsFirstStep
<1> QED
    BY <1>6, <1>7

-----------------------------------------------------------------------------
\* The theorems.  A program holds no more addresses than kMaxEntries.

\* The types of the constants, as the lemmas want them.
LEMMA Types ==
    /\ Address \subseteq Int /\ Hashes \subseteq Nat
    /\ MaxHeld \in Nat /\ kMaxEntries \in Nat
    /\ Seq(Hashes) \subseteq Seq(Nat)
<1>1. Hashes \subseteq Nat
    BY IndexAssumption
<1>2. Seq(Hashes) \subseteq Seq(Nat)
    BY <1>1, SeqMonotonic
<1> QED
    BY <1>1, <1>2, IndexAssumption DEF Address

\* insert keeps the addresses in order and each hash next to its address.
LEMMA InsertKeepsParallel ==
    ASSUME Typed, Parallel,
           NEW a \in Address, NEW p \in 1..(Len(addresses) + 1), Insert(p, a)
    PROVE  Typed' /\ Parallel'
<1> DEFINE N == Len(addresses)
           hash == hashOf[a]
<1>1. /\ N \in Nat /\ N < MaxHeld /\ p \in 1..(N + 1) /\ Len(hashes) = N
      /\ hashOf \in [Address -> Hashes] /\ hash \in Hashes
      /\ \A i \in 1..N : addresses[i] \in Address
      /\ MaxHeld \in Nat
    BY Types, LenProperties, ElementOfSeq DEF Typed, Insert
<1>2. /\ addresses' \in Seq(Address) /\ Len(addresses') = N + 1
      /\ Sorted(addresses')
    <2>1. /\ addresses \in Seq(Address) /\ Sorted(addresses)
          /\ \A i \in 1..(p - 1) : addresses[i] < a
          /\ \A i \in p..Len(addresses) : addresses[i] > a
          /\ addresses' = InsertAt(addresses, p, a)
        BY DEF Typed, Parallel, Insert
    <2> QED
        BY <2>1, Types, SortedInsertion
<1>3. \A i \in 1..(N + 1) : addresses'[i] = IF i < p THEN addresses[i]
                                            ELSE IF i = p THEN a
                                            ELSE addresses[i - 1]
    <2>1. addresses \in Seq(Address) /\ addresses' = InsertAt(addresses, p, a)
        BY DEF Typed, Insert
    <2>2. IsInsertion(InsertAt(addresses, p, a), addresses, p, a)
        BY <2>1, Inserted
    <2> QED
        BY <2>1, <2>2 DEF IsInsertion
<1>4. /\ hashes' \in Seq(Hashes) /\ Len(hashes') = N + 1
      /\ \A i \in 1..(N + 1) : hashes'[i] = IF i < p THEN hashes[i]
                                            ELSE IF i = p THEN hash
                                            ELSE hashes[i - 1]
    <2>1. /\ hashes \in Seq(Hashes) /\ hashes' = InsertAt(hashes, p, hash)
          /\ p \in 1..(Len(hashes) + 1)
        BY <1>1 DEF Typed, Insert
    <2> HIDE DEF hash
    <2>2. /\ InsertAt(hashes, p, hash) \in Seq(Hashes)
          /\ Len(InsertAt(hashes, p, hash)) = Len(hashes) + 1
          /\ IsInsertion(InsertAt(hashes, p, hash), hashes, p, hash)
        BY <1>1, <2>1, Inserted
    <2> QED
        BY <1>1, <2>1, <2>2 DEF IsInsertion
<1>5. hashOf' = hashOf
    BY DEF Insert
<1>6. ASSUME NEW i \in 1..(N + 1) PROVE hashes'[i] = hashOf[addresses'[i]]
    <2>1. CASE i < p
        BY <1>1, <1>3, <1>4, <2>1 DEF Parallel
    <2>2. CASE i = p
        BY <1>1, <1>3, <1>4, <2>2
    <2>3. CASE i > p
        <3>1. i - 1 \in 1..N /\ ~(i < p) /\ i # p
            BY <1>1, <2>3
        <3> QED
            BY <1>3, <1>4, <3>1 DEF Parallel
    <2> QED
        BY <1>1, <2>1, <2>2, <2>3
<1>7. Len(addresses') <= MaxHeld
    BY <1>1, <1>2
<1> QED
    BY <1>1, <1>2, <1>4, <1>5, <1>6, <1>7 DEF Typed, Parallel

\* erase does as well.
LEMMA EraseKeepsParallel ==
    ASSUME Typed, Parallel, NEW p \in 1..Len(addresses), Erase(p)
    PROVE  Typed' /\ Parallel' /\ Len(hashes') = Len(hashes) - 1
<1> DEFINE N == Len(addresses)
<1>1. /\ N \in Nat /\ N <= MaxHeld /\ p \in 1..N /\ Len(hashes) = N
      /\ hashOf \in [Address -> Hashes] /\ MaxHeld \in Nat
    BY Types, LenProperties DEF Typed, Parallel
<1>2. /\ addresses' \in Seq(Address) /\ Len(addresses') = N - 1
      /\ Sorted(addresses')
    <2>1. /\ addresses \in Seq(Address) /\ Sorted(addresses)
          /\ addresses' = RemoveAt(addresses, p)
        BY DEF Typed, Parallel, Erase
    <2> QED
        BY <2>1, Types, SortedRemoval
<1>3. \A i \in 1..(N - 1) : addresses'[i] = IF i < p THEN addresses[i]
                                            ELSE addresses[i + 1]
    <2>1. addresses \in Seq(Address) /\ addresses' = RemoveAt(addresses, p)
        BY DEF Typed, Erase
    <2>2. IsRemoval(RemoveAt(addresses, p), addresses, p)
        BY <2>1, Removed
    <2> QED
        BY <2>1, <2>2 DEF IsRemoval
<1>4. /\ hashes' \in Seq(Hashes) /\ Len(hashes') = N - 1
      /\ \A i \in 1..(N - 1) : hashes'[i] = IF i < p THEN hashes[i]
                                            ELSE hashes[i + 1]
    <2>1. /\ hashes \in Seq(Hashes) /\ hashes' = RemoveAt(hashes, p)
          /\ p \in 1..Len(hashes)
        BY <1>1 DEF Typed, Erase
    <2>2. /\ RemoveAt(hashes, p) \in Seq(Hashes)
          /\ Len(RemoveAt(hashes, p)) = Len(hashes) - 1
          /\ IsRemoval(RemoveAt(hashes, p), hashes, p)
        BY <2>1, Removed
    <2> QED
        BY <1>1, <2>1, <2>2 DEF IsRemoval
<1>5. hashOf' = hashOf
    BY DEF Erase
<1>6. ASSUME NEW i \in 1..(N - 1) PROVE hashes'[i] = hashOf[addresses'[i]]
    <2>1. i \in 1..N /\ i + 1 \in 1..N
        BY <1>1
    <2> QED
        BY <1>3, <1>4, <2>1 DEF Parallel
<1>7. Len(addresses') <= MaxHeld
    BY <1>1, <1>2
<1> QED
    BY <1>1, <1>2, <1>4, <1>5, <1>6, <1>7 DEF Typed, Parallel

\* insert keeps the index, renews it or gives it up.
LEMMA InsertKeepsIndex ==
    ASSUME MaxHeld <= kMaxEntries, IInv,
           NEW a \in Address, NEW p \in 1..(Len(addresses) + 1), Insert(p, a)
    PROVE  Indexed'
<1> DEFINE hash == hashOf[a]
           grown == InsertAt(hashes, p, hash)
<1>1. /\ hashes \in Seq(Nat) /\ hash \in Nat /\ Len(hashes) \in Nat
      /\ p \in 1..(Len(hashes) + 1) /\ Len(hashes) < MaxHeld /\ MaxHeld \in Nat
      /\ hashes' = grown
    BY Types, LenProperties DEF IInv, Typed, Insert
<1>2. grown \in Seq(Nat) /\ Len(grown) = Len(hashes) + 1
    <2>1. hashes' \in Seq(Hashes) /\ Len(hashes') = Len(hashes) + 1
        <3>1. Typed' /\ Len(addresses') = Len(addresses) + 1
            <4>1. Typed'
                BY InsertKeepsParallel DEF IInv
            <4>2. addresses \in Seq(Address) /\ addresses' = InsertAt(addresses, p, a)
                BY DEF IInv, Typed, Insert
            <4> QED
                BY <4>1, <4>2, Inserted
        <3> QED
            BY <3>1 DEF IInv, Typed
    <2> QED
        BY <1>1, <2>1, Types
<1> HIDE DEF grown
<1>3. CASE NumSlots(slots) < 2 * Len(grown)
    <2>1. slots' \in {Rebuilt(grown), NoSlots}
        BY <1>3 DEF Insert, Rebuild, grown
    <2>2. IsTable(Rebuilt(grown), grown)
        BY <1>1, <1>2, Rebuilding
    <2> QED
        BY <1>1, <2>1, <2>2 DEF Indexed, IsTable
<1>4. CASE ~(NumSlots(slots) < 2 * Len(grown))
    <2>1. slots # NoSlots
        <3>1. NumSlots(NoSlots) = 0
            BY FS_EmptySet DEF NumSlots, NoSlots
        <3> QED
            BY <1>1, <1>2, <1>4, <3>1
    <2>2. PICK n \in 1..Max({kMinSlots, 4 * MaxHeld}) :
                 IsIndex(slots, n, 1..Len(hashes), Homes(n, hashes))
        BY <2>1 DEF IInv, Indexed, IsTable
    <2>3. NumSlots(slots) = n /\ n \in Nat \ {0}
        BY <2>2, SlotsOfTable
    <2>4. n >= 2 * (Len(hashes) + 1)
        BY <1>1, <1>2, <1>4, <2>3
    <2>5. slots' = Place(Renumbered(slots, Uint(p - 1), 1), hash, p)
        BY <1>4 DEF Insert, grown
    <2>6. IsIndex(slots', n, 1..(Len(hashes) + 1), Homes(n, InsertAt(hashes, p, hash)))
        <3> HIDE DEF hash
        <3> QED
            BY <1>1, <2>2, <2>3, <2>4, <2>5, Inserting
    <2>7. IsIndex(slots', n, 1..Len(hashes'), Homes(n, hashes'))
          /\ n >= 2 * Len(hashes')
        BY <1>1, <1>2, <2>4, <2>6 DEF grown
    <2> QED
        BY <2>7 DEF Indexed, IsTable
<1> QED
    BY <1>3, <1>4

\* erase keeps the index, and the table with it; without one it may make one.
LEMMA EraseKeepsIndex ==
    ASSUME MaxHeld <= kMaxEntries, IInv, NEW p \in 1..Len(addresses), Erase(p)
    PROVE  Indexed' /\ (slots # NoSlots => DOMAIN slots' = DOMAIN slots)
<1> DEFINE less == RemoveAt(hashes, p)
<1>1. /\ hashes \in Seq(Nat) /\ Len(hashes) \in Nat
      /\ p \in 1..Len(hashes) /\ Len(hashes) <= MaxHeld /\ MaxHeld \in Nat
      /\ hashes' = less
    BY Types, LenProperties DEF IInv, Typed, Parallel, Erase
<1>2. less \in Seq(Nat) /\ Len(less) = Len(hashes) - 1
    <2>1. Typed' /\ Len(hashes') = Len(hashes) - 1
        BY EraseKeepsParallel DEF IInv
    <2> QED
        BY <1>1, <2>1, Types DEF Typed
<1> HIDE DEF less
<1>3. CASE slots = NoSlots
    <2>1. slots' \in {Rebuilt(less), NoSlots}
        BY <1>3 DEF Erase, Rebuild, less
    <2>2. IsTable(Rebuilt(less), less)
        <3>1. Len(less) <= MaxHeld
            BY <1>1, <1>2
        <3> QED
            BY <1>2, <3>1, Rebuilding
    <2> QED
        BY <1>1, <1>3, <2>1, <2>2 DEF Indexed, IsTable
<1>4. CASE slots # NoSlots
    <2>1. PICK n \in 1..Max({kMinSlots, 4 * MaxHeld}) :
                 /\ n >= 2 * Len(hashes)
                 /\ IsIndex(slots, n, 1..Len(hashes), Homes(n, hashes))
        BY <1>4 DEF IInv, Indexed, IsTable
    <2>2. n \in Nat \ {0} /\ DOMAIN slots = 0..(n - 1)
        BY <2>1, SlotsOfTable
    <2>3. PICK hole \in HoleOf(p) :
                 slots' = Renumbered(WithoutSlot(hole), Uint(p), -1)
        BY <1>4 DEF Erase
    <2>4. hole \in 0..(n - 1) /\ slots[hole] = p
        BY <1>1, <2>1, <2>2, HolesOf
    <2>5. IsIndex(slots', n, 1..(Len(hashes) - 1), Homes(n, RemoveAt(hashes, p)))
        BY <1>1, <2>1, <2>2, <2>3, <2>4, Erasing
    <2>6. /\ IsIndex(slots', n, 1..Len(hashes'), Homes(n, hashes'))
          /\ n >= 2 * Len(hashes')
        BY <1>1, <1>2, <2>1, <2>2, <2>5 DEF less
    <2>7. DOMAIN slots' = 0..(n - 1)
        BY <2>6 DEF IsIndex
    <2> QED
        BY <2>2, <2>6, <2>7 DEF Indexed, IsTable
<1> QED
    BY <1>3, <1>4

\* The index that the invariant describes holds in every state.
THEOREM Invariant ==
    ASSUME MaxHeld <= kMaxEntries
    PROVE  Spec => []IInv
<1>1. Init => IInv
    <2> SUFFICES ASSUME Init PROVE IInv
        OBVIOUS
    <2>1. Typed /\ Len(addresses) = 0
        BY EmptySeq DEF Init, Typed
    <2>2. Parallel
        BY <2>1, Types DEF Parallel, Sorted
    <2> QED
        BY <2>1, <2>2 DEF IInv, Init, Indexed
<1>2. IInv /\ [Next]_vars => IInv'
    <2> SUFFICES ASSUME IInv, [Next]_vars PROVE IInv'
        OBVIOUS
    <2>1. ASSUME NEW a \in Address, NEW p \in 1..(Len(addresses) + 1), Insert(p, a)
          PROVE  IInv'
        BY <2>1, InsertKeepsParallel, InsertKeepsIndex DEF IInv
    <2>2. ASSUME NEW p \in 1..Len(addresses), Erase(p) PROVE IInv'
        BY <2>2, EraseKeepsParallel, EraseKeepsIndex DEF IInv
    <2>3. CASE UNCHANGED vars
        BY <2>3 DEF vars, IInv, Typed, Parallel, Indexed, IsTable
    <2> QED
        BY <2>1, <2>2, <2>3 DEF Next
<1> QED
    BY <1>1, <1>2, PTL DEF Spec

\* The hashes, the addresses and the slots have the types that the code's
\* vectors have, and no table grows beyond four slots for each address.
THEOREM AlwaysTyped ==
    ASSUME MaxHeld <= kMaxEntries
    PROVE  Spec => []TypeOK
<1>1. IInv => TypeOK
    <2> SUFFICES ASSUME IInv PROVE TypeOK
        OBVIOUS
    <2>1. Typed /\ Len(addresses) \in Nat
        BY LenProperties DEF IInv, Typed
    <2> DEFINE most == Max({kMinSlots, 4 * MaxHeld})
    <2>2. most \in Nat
        <3>1. kMinSlots \in Nat /\ 4 * MaxHeld \in Nat
            BY IndexAssumption
        <3> QED
            BY <3>1, Greater
    <2>3. CASE slots = NoSlots
        <3>1. slots \in [0..(0 - 1) -> 0..Len(addresses)] /\ 0 \in 0..most
            BY <2>2, <2>3 DEF NoSlots
        <3> HIDE DEF most
        <3>2. \E n \in 0..most : slots \in [0..(n - 1) -> 0..Len(addresses)]
            BY <3>1
        <3> QED
            BY <2>1, <3>2 DEF TypeOK, Typed, most
    <2>4. CASE slots # NoSlots
        <3>1. PICK n \in 1..most :
                     IsIndex(slots, n, 1..Len(hashes), Homes(n, hashes))
            BY <2>4 DEF IInv, Indexed, IsTable
        <3>2. slots \in [0..(n - 1) -> (1..Len(hashes)) \cup {kEmptySlot}]
            BY <3>1 DEF IsIndex
        <3>3. (1..Len(hashes)) \cup {kEmptySlot} = 0..Len(addresses)
            BY <2>1 DEF Typed, kEmptySlot
        <3>4. n \in 0..most /\ slots \in [0..(n - 1) -> 0..Len(addresses)]
            BY <2>2, <3>2, <3>3
        <3> HIDE DEF most
        <3>5. \E m \in 0..most : slots \in [0..(m - 1) -> 0..Len(addresses)]
            BY <3>4
        <3> QED
            BY <2>1, <3>5 DEF TypeOK, Typed, most
    <2> QED
        BY <2>3, <2>4
<1> QED
    BY <1>1, Invariant, PTL

\* What the invariant says of a table that has slots.
LEMMA TableOf ==
    ASSUME IInv, slots # NoSlots
    PROVE  \E n \in Nat \ {0} :
              /\ n >= 2 * Len(hashes) /\ DOMAIN slots = 0..(n - 1)
              /\ NumSlots(slots) = n
              /\ IsIndex(slots, n, 1..Len(hashes), Homes(n, hashes))
<1>1. PICK n \in 1..Max({kMinSlots, 4 * MaxHeld}) :
             /\ n >= 2 * Len(hashes)
             /\ IsIndex(slots, n, 1..Len(hashes), Homes(n, hashes))
    BY DEF IInv, Indexed, IsTable
<1>2. n \in Nat \ {0}
    OBVIOUS
<1>3. DOMAIN slots = 0..(n - 1) /\ NumSlots(slots) = n
    BY <1>1, <1>2, SlotsOfTable
<1> QED
    BY <1>1, <1>2, <1>3

\* At least half of the slots of a table are empty and the others hold one
\* entry each: an erasure leaves nothing behind.
THEOREM AlwaysHalfEmpty ==
    ASSUME MaxHeld <= kMaxEntries
    PROVE  Spec => []HalfEmpty
<1>1. IInv => HalfEmpty
    <2> SUFFICES ASSUME IInv, slots # NoSlots
                 PROVE  /\ Len(addresses) = Cardinality({i \in DOMAIN slots :
                                                slots[i] # kEmptySlot})
                        /\ NumSlots(slots) >= 2 * Len(addresses)
        BY DEF HalfEmpty
    <2>1. PICK n \in Nat \ {0} :
              /\ n >= 2 * Len(hashes) /\ NumSlots(slots) = n
              /\ IsIndex(slots, n, 1..Len(hashes), Homes(n, hashes))
        BY TableOf
    <2>2. Len(hashes) = Len(addresses) /\ Len(hashes) \in Nat
        BY LenProperties DEF IInv, Typed
    <2>3. Cardinality({i \in DOMAIN slots : slots[i] # kEmptySlot}) = Len(hashes)
        BY <2>1, <2>2, TakenSlots
    <2> QED
        BY <2>1, <2>2, <2>3
<1> QED
    BY <1>1, Invariant, PTL

\* The search of eraseSlot for the slot of a registered address always ends.
THEOREM EraseAlwaysEnds ==
    ASSUME MaxHeld <= kMaxEntries
    PROVE  Spec => []EraseEnds
<1>1. IInv => EraseEnds
    <2> SUFFICES ASSUME IInv, slots # NoSlots, NEW p \in 1..Len(addresses)
                 PROVE  HoleOf(p) # {}
        BY DEF EraseEnds
    <2>1. PICK n \in Nat \ {0} :
              IsIndex(slots, n, 1..Len(hashes), Homes(n, hashes))
        BY TableOf
    <2>2. p \in 1..Len(hashes) /\ hashes \in Seq(Nat)
        BY Types DEF IInv, Typed
    <2> QED
        BY <2>1, <2>2, HolesOf
<1> QED
    BY <1>1, Invariant, PTL

\* find returns the number of the entry of every address that is held, and zero
\* for the others.
THEOREM AlwaysFindsExactlyHeld ==
    ASSUME MaxHeld <= kMaxEntries
    PROVE  Spec => []FindsExactlyHeld
<1>1. IInv => FindsExactlyHeld
    <2> SUFFICES ASSUME IInv, NEW a \in Address
                 PROVE  Find(a) = IF slots # NoSlots /\ Contains(addresses, a)
                                  THEN CHOOSE i \in 1..Len(addresses) :
                                           addresses[i] = a
                                  ELSE 0
        BY DEF FindsExactlyHeld
    <2> DEFINE hash == hashOf[a]
               entries == {v \in Entries : /\ hashes[v] = hash
                                           /\ addresses[v] = a}
               values == {kEmptySlot} \cup entries
               step == FirstStep(slots, hash, values)
    <2>1. /\ Len(addresses) \in Nat /\ Len(hashes) = Len(addresses)
          /\ hash \in Nat /\ hash \in Int
          /\ \A i \in 1..Len(addresses) : addresses[i] \in Int
        <3>1. /\ addresses \in Seq(Address) /\ Len(hashes) = Len(addresses)
              /\ hashOf[a] \in Hashes
            BY DEF IInv, Typed
        <3>2. /\ Len(addresses) \in Nat
              /\ \A i \in 1..Len(addresses) : addresses[i] \in Address
            BY <3>1, LenProperties, ElementOfSeq
        <3>3. hash \in Nat
            BY <3>1, Types
        <3>4. hash \in Int
            <4> HIDE DEF hash
            <4> QED
                BY <3>3
        <3> QED
            BY <3>1, <3>2, <3>3, <3>4, Types
    <2>2. \A i, j \in 1..Len(addresses) : addresses[i] = addresses[j] => i = j
        BY <2>1 DEF IInv, Parallel, Sorted
    <2>3. CASE slots = NoSlots
        BY <2>3 DEF Find, Lookup, kEmptySlot
    <2>4. CASE slots # NoSlots
        <3>1. PICK n \in Nat \ {0} :
                  /\ n >= 2 * Len(hashes) /\ DOMAIN slots = 0..(n - 1)
                  /\ IsIndex(slots, n, 1..Len(hashes), Homes(n, hashes))
            BY <2>4, TableOf
        <3>2. Find(a) = slots[Probe(slots, hash, step)]
            BY <2>4 DEF Find, Lookup
        <3>3. CASE ~Contains(addresses, a)
            <4>1. entries = {}
                BY <3>3 DEF Contains, Entries
            <4>2. \E s \in 0..(n - 1) : slots[s] \in values
                <5>1. Len(hashes) < n
                    BY <2>1, <3>1
                <5>2. \E s \in 0..(n - 1) : slots[s] = kEmptySlot
                    BY <2>1, <3>1, <5>1, SomeEmpty
                <5> QED
                    BY <5>2
            <4> HIDE DEF values, hash
            <4>3. slots[Probe(slots, hash, step)] \in values
                BY <2>1, <3>1, <4>2, ProbeEnds
            <4>4. slots[Probe(slots, hash, step)] = kEmptySlot
                BY <4>1, <4>3 DEF values
            <4> QED
                BY <3>2, <3>3, <4>4 DEF kEmptySlot
        <3>4. CASE Contains(addresses, a)
            <4>1. PICK i \in 1..Len(addresses) : addresses[i] = a
                BY <3>4 DEF Contains
            <4>2. (CHOOSE j \in 1..Len(addresses) : addresses[j] = a) = i
                BY <2>2, <4>1
            <4>3. hashes[i] = hash
                BY <4>1 DEF IInv, Parallel
            <4>4. entries = {i}
                BY <2>1, <2>2, <4>1, <4>3 DEF Entries
            <4>5. PICK s \in 0..(n - 1) : slots[s] = i
                BY <2>1, <3>1 DEF IsIndex
            <4>6. i # kEmptySlot /\ hash % n = Homes(n, hashes)[i]
                BY <2>1, <4>3 DEF Homes, kEmptySlot
            <4> HIDE DEF hash, entries
            <4>7. Ahead(n, hash % n, s) \in Nat
                <5>1. hash % n \in 0..(n - 1)
                    BY <2>1, Remainder
                <5> QED
                    BY <5>1, StepsAhead
            <4>8. \A u \in 0..(n - 1) :
                      Ahead(n, hash % n, u) < Ahead(n, hash % n, s) =>
                          slots[u] \notin values
                <5> SUFFICES ASSUME NEW u \in 0..(n - 1),
                                    Ahead(n, hash % n, u) < Ahead(n, hash % n, s)
                             PROVE  slots[u] # kEmptySlot /\ slots[u] # i
                    BY <4>4
                <5>1. slots[u] # kEmptySlot
                    BY <3>1, <4>5, <4>6 DEF IsIndex
                <5>2. slots[u] # i
                    <6> SUFFICES ASSUME slots[u] = i PROVE FALSE
                        OBVIOUS
                    <6>1. u = s
                        BY <3>1, <4>5, <4>6 DEF IsIndex
                    <6> QED
                        BY <4>7, <6>1
                <5> QED
                    BY <5>1, <5>2
            <4>9. slots[s] \in values
                BY <4>4, <4>5
            <4> HIDE DEF values
            <4>10. Probe(slots, hash, step) = s
                BY <2>1, <3>1, <4>8, <4>9, FirstStepIsOne
            <4> QED
                BY <2>4, <3>2, <3>4, <4>2, <4>5, <4>10
        <3> QED
            BY <3>3, <3>4
    <2> QED
        BY <2>3, <2>4
<1> QED
    BY <1>1, Invariant, PTL

=============================================================================
