------------------------- MODULE MethodTable_proofs -------------------------
(***************************************************************************)
(* What the updates of a table promise, for every number of tables,        *)
(* addresses and patterns, and without a bound on updates or exceptions:   *)
(* in a table that no exception has left half done, the members agree, the *)
(* kept matches are those of its methods, and a call does all or nothing.  *)
(* What is left half done, and by which calls, is part of the result.      *)
(***************************************************************************)
EXTENDS MethodTable, DataLemmas

Item == 0..NumAddresses

Vectors == [items : Seq(Item), capacity : Nat]

Memos ==
    [hasBuckets : BOOLEAN, generation : Nat,
     buckets : [Patterns -> [generation : Nat, results : SUBSET Nat]]]

States ==
    [methods : Vectors, partEnds : Vectors, hashes : Vectors,
     numSlots : Nat, slotsFit : BOOLEAN, memo : Memos]

Outcomes == [outcome : {"none", "true", "false", "threw", "undefined"}]

Calls ==
    [op : {"insert", "erase", "assign"}, table : Tables, source : Tables,
     address : Item, at : Nat, before : SUBSET Item, step : Nat]

\* Each table and call has the members it should.
TypeOK ==
    /\ movesCannotThrow \in BOOLEAN
    /\ table \in [Tables -> States]
    /\ call \in Outcomes \cup Calls
    /\ halfDone \in SUBSET Tables

-----------------------------------------------------------------------------
\* The parts of the invariant, about the state x of a table and the call c.

Enough(numSlots, numEntries) == numSlots = 0 \/ numSlots >= 2 * numEntries

Ordered(x) == InOrder(x.methods.items) /\ movedFrom \notin Range(x.methods.items)

Agrees(x) ==
    /\ Ordered(x)
    /\ x.partEnds.items = IF movesCannotThrow THEN x.methods.items ELSE <<>>
    /\ x.hashes.items = x.partEnds.items
    /\ x.slotsFit
    /\ Enough(x.numSlots, Len(x.hashes.items))

Selected(x, p) ==
    {i \in 1..Len(x.methods.items) : x.methods.items[i] \in Selects[p]}

Remembers(x) ==
    \A p \in Patterns :
        x.memo.hasBuckets /\ x.memo.buckets[p].generation = x.memo.generation
            => x.memo.buckets[p].results = Selected(x, p)

Sound(x) == Agrees(x) /\ Remembers(x)

\* No bucket is of a generation to come, or even of this one.
NothingNewer(x) ==
    \A p \in Patterns : x.memo.buckets[p].generation <= x.memo.generation

NothingKept(x) ==
    \A p \in Patterns : x.memo.buckets[p].generation < x.memo.generation

\* The statement of a call at its step.
Now(c) == Steps(c.op)[c.step]

IsUpdate(c) == c.op \in {"insert", "erase"}

\* The list that has the items of another, and those that c adds or removes.
Places(c, list) == IF c.op = "insert" THEN 1..(Len(list) + 1) ELSE 1..Len(list)

Changed(c, list) ==
    IF c.op = "insert" THEN InsertAt(list, c.at, c.address)
                       ELSE RemoveAt(list, c.at)

IsChanged(c, list, from) ==
    c.at \in Places(c, from) /\ list = Changed(c, from)

Update(c) ==
    IF c.op = "insert" THEN c.before \cup {c.address} ELSE c.before \ {c.address}

\* Until the methods change, the table is as it was when it was called; the
\* search has found the address or the place for it.
Ahead == {"readEnds", "reserveEnds", "reserveHashes"}

BeforeChange == {"search", "readEnds", "reserveEnds", "reserveHashes",
                 "insertMethod", "eraseMethod"}

Unchanged(c, now, x) ==
    /\ Agrees(x) /\ Remembers(x) /\ Range(x.methods.items) = c.before
    /\ now # "search" =>
          /\ IsLowerBound(x.methods.items, c.address, c.at)
          /\ (c.address \in c.before) = (c.op = "erase")

\* An insertion has made the room it needs behind the change ahead of it.
HasRoom(c, now, x) ==
    c.op = "insert" /\ movesCannotThrow =>
        /\ now \in {"reserveHashes", "insertMethod", "forget", "insertEnds"}
              => ~Full(x.partEnds)
        /\ now \in {"insertMethod", "forget", "insertEnds", "insertHash"}
              => ~Full(x.hashes)

\* After that the parts and the hashes follow one by one.
HasChanged(c, now, x) ==
    /\ Ordered(x)
    /\ Range(x.methods.items) = Update(c) /\ Update(c) # c.before
    /\ now # "forget" => NothingKept(x)
    /\ movesCannotThrow =>
          /\ IF now \in {"forget", "insertEnds", "eraseEnds"}
             THEN IsChanged(c, x.methods.items, x.partEnds.items)
             ELSE x.partEnds.items = x.methods.items
          /\ IF now # "rebuild"
             THEN IsChanged(c, x.methods.items, x.hashes.items)
             ELSE x.hashes.items = x.methods.items
    /\ ~movesCannotThrow => x.partEnds.items = <<>> /\ x.hashes.items = <<>>
    /\ x.slotsFit
    /\ ~(now = "rebuild" /\ c.op = "insert")
          => Enough(x.numSlots, Len(x.hashes.items))

\* The call c of a whole table has come to the statement `now' of an update.
Updates(c, now, x) ==
    /\ HasRoom(c, now, x)
    /\ IF now \in BeforeChange THEN Unchanged(c, now, x)
                              ELSE HasChanged(c, now, x)

\* In any table the search stops inside the list, or behind it to insert.
Placed(c, now, x) ==
    /\ now # "search" => c.at # 0
    /\ now \in BeforeChange \ {"search"} => c.at \in Places(c, x.methods.items)

\* An assignment copies the members of s to x in order.
Assigns(c, step, x, s) ==
    /\ c.source # c.table
    /\ step = 1 => Range(x.methods.items) = c.before
    /\ step = 1 /\ c.table \notin halfDone => Sound(x)
    /\ step > 1 => x.methods.items = s.methods.items
    /\ step > 2 => x.partEnds.items = s.partEnds.items
    /\ step > 3 => x.hashes.items = s.hashes.items
    /\ step > 4 => x.numSlots = s.numSlots /\ (x.slotsFit <=> s.slotsFit)

Settled ==
    \A t \in Tables :
        /\ NothingNewer(table[t])
        /\ t \notin halfDone /\ (AtRest \/ t # call.table) => Sound(table[t])

Underway ==
    ~AtRest =>
        /\ call.step \in 1..Len(Steps(call.op))
        /\ IsUpdate(call) =>
              /\ call.address \in Address /\ Placed(call, Now(call), T)
              /\ call.table \notin halfDone => Updates(call, Now(call), T)
        /\ call.op = "assign" => Assigns(call, call.step, T, Source)

IInv == TypeOK /\ Settled /\ Underway

-----------------------------------------------------------------------------
\* The statements of a call that runs, by their places.

\* Which statements insert, erase and an assignment have, and where.
LEMMA StatementPlaces ==
    ASSUME movesCannotThrow \in BOOLEAN, NEW c,
           c.op \in {"insert", "erase", "assign"},
           c.step \in 1..Len(Steps(c.op))
    PROVE  /\ Now(c) = "search" => IsUpdate(c) /\ c.step = 1
           /\ Now(c) \in {"readEnds", "reserveEnds", "reserveHashes",
                           "insertEnds", "insertHash"}
                 => c.op = "insert" /\ movesCannotThrow
           /\ Now(c) = "readEnds" => c.step = 2
           /\ Now(c) = "reserveEnds" => c.step = 3
           /\ Now(c) = "reserveHashes" => c.step = 4
           /\ Now(c) = "insertMethod" =>
                 c.op = "insert" /\ c.step = IF movesCannotThrow THEN 5 ELSE 2
           /\ Now(c) = "insertEnds" => c.step = 7
           /\ Now(c) = "insertHash" => c.step = 8
           /\ Now(c) \in {"eraseEnds", "eraseHash"}
                 => c.op = "erase" /\ movesCannotThrow
           /\ Now(c) = "eraseMethod" => c.op = "erase" /\ c.step = 2
           /\ Now(c) = "eraseEnds" => c.step = 4
           /\ Now(c) = "eraseHash" => c.step = 5
           /\ Now(c) = "forget" =>
                 IsUpdate(c)
                 /\ c.step = IF c.op = "insert" /\ movesCannotThrow THEN 6 ELSE 3
           /\ Now(c) = "rebuild" =>
                 IsUpdate(c) /\ movesCannotThrow
                 /\ c.step = IF c.op = "insert" THEN 9 ELSE 6
           /\ Now(c) \in {"methods", "partEnds", "hashes", "slots", "memo"}
                 => c.op = "assign"
           /\ Now(c) = "methods" => c.step = 1
           /\ Now(c) = "partEnds" => c.step = 2
           /\ Now(c) = "hashes" => c.step = 3
           /\ Now(c) = "slots" => c.step = 4
           /\ Now(c) = "memo" => c.step = 5
           /\ /\ c.step # Len(Steps(c.op)) /\ IsUpdate(c)
              /\ Steps(c.op)[c.step + 1] \in BeforeChange
              => Now(c) \in Ahead \cup {"search"}
<1>1. CASE c.op = "insert" /\ movesCannotThrow
    BY <1>1 DEF Now, Steps, InsertSteps, IsUpdate, BeforeChange, Ahead
<1>2. CASE c.op = "insert" /\ ~movesCannotThrow
    BY <1>2 DEF Now, Steps, InsertSteps, IsUpdate, BeforeChange, Ahead
<1>3. CASE c.op = "erase" /\ movesCannotThrow
    BY <1>3 DEF Now, Steps, EraseSteps, IsUpdate, BeforeChange, Ahead
<1>4. CASE c.op = "erase" /\ ~movesCannotThrow
    BY <1>4 DEF Now, Steps, EraseSteps, IsUpdate, BeforeChange, Ahead
<1>5. CASE c.op = "assign"
    BY <1>5 DEF Now, Steps, AssignSteps, IsUpdate
<1> QED
    BY <1>1, <1>2, <1>3, <1>4, <1>5

\* A call at rest is not a call that runs.
LEMMA AtRestOrRunning ==
    ASSUME TypeOK
    PROVE  /\ AtRest => call \in Outcomes
           /\ ~AtRest => call \in Calls
BY DEF TypeOK, AtRest, Outcomes, Calls

\* A call that ends leaves the other tables as they are and its own in the
\* state x.
LEMMA Ended ==
    ASSUME IInv, ~AtRest, NEW x \in States, NothingNewer(x),
           NEW answer \in {"true", "false", "threw", "undefined"},
           halfDone' \in SUBSET Tables,
           \A u \in Tables : u # call.table /\ u \in halfDone => u \in halfDone',
           call.table \notin halfDone' => Sound(x),
           Returns(answer), Becomes(x), UNCHANGED movesCannotThrow
    PROVE  IInv' /\ AtRest' /\ table'[call.table] = x /\ call'.outcome = answer
<1>1. call \in Calls
    BY AtRestOrRunning DEF IInv
<1>2. TypeOK' /\ AtRest'
    BY <1>1 DEF IInv, TypeOK, Returns, Becomes, Outcomes, AtRest, Calls
<1>3. table'[call.table] = x /\ call'.outcome = answer
    BY <1>1 DEF IInv, TypeOK, Returns, Becomes, Calls
<1>4. \A u \in Tables : u # call.table => table'[u] = table[u]
    BY DEF Becomes, IInv, TypeOK
<1>5. \A u \in Tables :
         NothingNewer(table'[u]) /\ (u \notin halfDone' => Sound(table'[u]))
    BY <1>3, <1>4 DEF IInv, Settled
<1>6. Settled'
    BY <1>5 DEF Settled, Sound, Agrees, Remembers, Ordered, NothingNewer
<1> QED
    BY <1>2, <1>3, <1>6 DEF IInv, Underway

\* A call that goes on to its next statement leaves its table in the state x.
LEMMA WentOn ==
    ASSUME IInv, ~AtRest, NEW x \in States, NothingNewer(x),
           call.step # Len(Steps(call.op)),
           GoOn, Becomes(x), UNCHANGED <<movesCannotThrow, halfDone>>
    PROVE  /\ TypeOK' /\ Settled' /\ ~AtRest' /\ T' = x
           /\ call.source # call.table => Source' = Source
           /\ call'.op = call.op /\ call'.at = call.at
           /\ call'.address = call.address /\ call'.before = call.before
           /\ call'.table = call.table /\ call'.source = call.source
           /\ call'.step = call.step + 1
           /\ call'.step \in 1..Len(Steps(call.op)')
           /\ Now(call)' = Steps(call.op)[call.step + 1]
<1>1. call \in Calls
    BY AtRestOrRunning DEF IInv
<1>2. call' = [call EXCEPT !.step = @ + 1]
    BY DEF GoOn
<1>3. TypeOK' /\ ~AtRest'
    BY <1>1, <1>2 DEF IInv, TypeOK, Becomes, AtRest, Calls
<1>4. T' = x /\ (call.source # call.table => Source' = Source)
    BY <1>1, <1>2 DEF IInv, TypeOK, T, Source, Becomes, Calls
<1>5. /\ call'.op = call.op /\ call'.at = call.at
      /\ call'.address = call.address /\ call'.before = call.before
      /\ call'.table = call.table /\ call'.source = call.source
      /\ call'.step = call.step + 1
    BY <1>1, <1>2 DEF Calls
<1>6. Settled'
    <2>1. \A u \in Tables : u # call.table => table'[u] = table[u]
        BY DEF Becomes, IInv, TypeOK
    <2>2. table'[call.table] = x
        BY <1>1 DEF IInv, TypeOK, Becomes, Calls
    <2>3. \A u \in Tables :
             /\ NothingNewer(table'[u])
             /\ u \notin halfDone' /\ u # call'.table => Sound(table'[u])
        BY <1>5, <2>1, <2>2 DEF IInv, Settled
    <2> QED
        BY <1>3, <2>3 DEF Settled, Sound, Agrees, Remembers, Ordered, NothingNewer
<1>8. Steps(call.op)' = Steps(call.op)
    BY <1>5 DEF Steps, InsertSteps, EraseSteps, AssignSteps
<1>9. Now(call)' = Steps(call.op)[call.step + 1]
    BY <1>5, <1>8 DEF Now
<1>7. call'.step \in 1..Len(Steps(call.op)')
    <2>1. call.step \in 1..Len(Steps(call.op)) /\ Len(Steps(call.op)) \in Nat
        BY DEF IInv, Underway, Steps, InsertSteps, EraseSteps, AssignSteps
    <2> QED
        BY <1>5, <1>8, <2>1
<1> QED
    BY <1>3, <1>4, <1>5, <1>6, <1>7, <1>9

-----------------------------------------------------------------------------
\* The lists of a table.

\* In a list that is in order the search stops at the first place not below a,
\* and so where a is, if it is held.
LEMMA LowerBoundInOrder ==
    ASSUME NEW list \in Seq(Item), InOrder(list),
           NEW a \in Item, NEW p, IsLowerBound(list, a, p)
    PROVE  /\ p \in 1..(Len(list) + 1)
           /\ \A i \in 1..(p - 1) : list[i] < a
           /\ \A i \in p..Len(list) : list[i] >= a
           /\ a \in Range(list) <=> p <= Len(list) /\ list[p] = a
<1> DEFINE n == Len(list)
<1>1. n \in Nat /\ DOMAIN list = 1..n /\ a \in Int
    BY LenProperties DEF Item
<1>2. \A i \in 1..n : list[i] \in Int
    <2>1. \A i \in 1..n : list[i] \in Item
        BY <1>1, ElementOfSeq
    <2> QED
        BY <2>1 DEF Item
<1>3. /\ p \in 1..(n + 1)
      /\ p > 1 => list[p - 1] < a
      /\ p <= n => list[p] >= a
    BY DEF IsLowerBound
<1>4. ASSUME NEW i \in 1..(p - 1) PROVE list[i] < a
    <2>1. i \in 1..n /\ p - 1 \in 1..n /\ p > 1 /\ (i = p - 1 \/ i < p - 1)
        BY <1>1, <1>3
    <2>2. i < p - 1 => list[i] < list[p - 1]
        BY <2>1 DEF InOrder
    <2>3. list[i] \in Int /\ list[p - 1] \in Int
        BY <1>2, <2>1
    <2> HIDE DEF n
    <2> QED
        BY <1>1, <1>3, <2>1, <2>2, <2>3
<1>5. ASSUME NEW i \in p..n PROVE list[i] >= a
    <2>1. i \in 1..n /\ p \in 1..n /\ (i = p \/ p < i)
        BY <1>1, <1>3
    <2>2. p < i => list[p] < list[i]
        BY <2>1 DEF InOrder
    <2>3. list[i] \in Int /\ list[p] \in Int
        BY <1>2, <2>1
    <2> HIDE DEF n
    <2> QED
        BY <1>1, <1>3, <2>1, <2>2, <2>3
<1>6. ASSUME NEW q \in 1..n, list[q] = a PROVE p <= n /\ list[p] = a
    <2>1. ~(q < p)
        BY <1>1, <1>2, <1>3, <1>4, <1>6
    <2>2. p \in 1..n /\ list[p] >= a /\ list[p] \in Int
        BY <1>1, <1>2, <1>3, <2>1
    <2>3. p < q => list[p] < a
        BY <1>6, <2>2 DEF InOrder
    <2> QED
        BY <1>1, <1>3, <1>6, <2>1, <2>2, <2>3
<1>7. a \in Range(list) <=> \E q \in 1..n : list[q] = a
    BY <1>1 DEF Range
<1>8. p <= n => p \in 1..n
    BY <1>1, <1>3
<1> QED
    BY <1>3, <1>4, <1>5, <1>6, <1>7, <1>8

\* An address inserted where lowerBound says keeps a list of addresses in order.
LEMMA OrderedInsertion ==
    ASSUME NEW list \in Seq(Item), InOrder(list),
           NEW a \in Item, a \notin Range(list),
           NEW p, IsLowerBound(list, a, p)
    PROVE  /\ InsertAt(list, p, a) \in Seq(Item)
           /\ Len(InsertAt(list, p, a)) = Len(list) + 1
           /\ InOrder(InsertAt(list, p, a))
           /\ Range(InsertAt(list, p, a)) = Range(list) \cup {a}
<1>1. \A i \in 1..Len(list) : list[i] \in Item /\ list[i] # a
    BY LenProperties, ElementOfSeq DEF Range
<1>2. /\ p \in 1..(Len(list) + 1) /\ Item \in SUBSET Int
      /\ \A i \in 1..(p - 1) : list[i] < a
      /\ \A i \in p..Len(list) : list[i] >= a
    BY LowerBoundInOrder DEF Item
<1>3. ASSUME NEW i \in p..Len(list) PROVE list[i] > a
    <2>1. i \in 1..Len(list) /\ a \in Int
        BY <1>2, LenProperties
    <2>2. list[i] \in Int /\ list[i] # a /\ list[i] >= a
        BY <1>1, <1>2, <2>1
    <2> QED
        BY <2>1, <2>2
<1>4. Sorted(list)
    BY DEF InOrder, Sorted
<1> QED
    BY <1>2, <1>3, <1>4, SortedInsertion DEF InOrder, Sorted

\* Without an address that is held, and that the search has found, the list keeps
\* its order.
LEMMA OrderedRemoval ==
    ASSUME NEW list \in Seq(Item), InOrder(list),
           NEW a \in Range(list), NEW p, IsLowerBound(list, a, p)
    PROVE  /\ p \in 1..Len(list)
           /\ RemoveAt(list, p) \in Seq(Item)
           /\ Len(RemoveAt(list, p)) = Len(list) - 1
           /\ InOrder(RemoveAt(list, p))
           /\ Range(RemoveAt(list, p)) = Range(list) \ {a}
<1>1. a \in Item
    BY LenProperties, ElementOfSeq DEF Range
<1>2. p \in 1..Len(list) /\ list[p] = a
    BY <1>1, LowerBoundInOrder, LenProperties
<1>3. Sorted(list) /\ Item \in SUBSET Int
    BY DEF InOrder, Sorted, Item
<1> QED
    BY <1>2, <1>3, SortedRemoval DEF InOrder, Sorted

\* A rebuild makes at least two slots for each entry.
LEMMA TwoSlotsForEach ==
    ASSUME NEW numEntries \in Nat
    PROVE  SlotsFor(numEntries) \in Nat /\ SlotsFor(numEntries) >= 2 * numEntries
<1>1. 2 * numEntries \in Nat /\ kMinSlots \in Nat \ {0}
    BY TableAssumption
<1> QED
    BY <1>1, Doubling DEF SlotsFor

\* A list with an item inserted has all that it had.
LEMMA InsertedKeepsAll ==
    ASSUME NEW list \in Seq(Item), NEW item \in Item,
           NEW p \in 1..(Len(list) + 1)
    PROVE  /\ InsertAt(list, p, item) \in Seq(Item)
           /\ Range(list) \subseteq Range(InsertAt(list, p, item))
<1> DEFINE new == InsertAt(list, p, item)
           n == Len(list)
<1>1. /\ new \in Seq(Item) /\ Len(new) = n + 1 /\ n \in Nat
      /\ DOMAIN new = 1..(n + 1) /\ DOMAIN list = 1..n
      /\ \A i \in 1..(n + 1) :
            new[i] = IF i < p THEN list[i]
                              ELSE IF i = p THEN item ELSE list[i - 1]
    BY Inserted, LenProperties DEF IsInsertion
<1> HIDE DEF new, n
<1>2. ASSUME NEW i \in 1..n PROVE list[i] \in Range(new)
    <2>1. i \in 1..(n + 1) /\ i + 1 \in 1..(n + 1) /\ p \in Int
        BY <1>1
    <2>2. CASE i < p
        BY <1>1, <2>1, <2>2 DEF Range
    <2>3. CASE ~(i < p)
        <3>1. new[i + 1] = list[i]
            <4>1. ~(i + 1 < p) /\ i + 1 # p /\ (i + 1) - 1 = i
                BY <2>1, <2>3
            <4> QED
                BY <1>1, <2>1, <4>1
        <3> QED
            BY <1>1, <2>1, <3>1 DEF Range
    <2> QED
        BY <2>2, <2>3
<1> QED
    BY <1>1, <1>2 DEF new, n, Range

\* What a throwing move leaves of an insertion: all but one item at most.
LEMMA HalfInsertedLists ==
    ASSUME NEW list \in Seq(Item), NEW at \in 1..Len(list), NEW a \in Item,
           NEW half \in HalfInserted(list, at, a)
    PROVE  /\ half \in Seq(Item)
           /\ \E b \in Range(list) : Range(list) \subseteq Range(half) \cup {b}
<1>1. /\ Len(list) \in Nat /\ DOMAIN list = 1..Len(list)
      /\ Len(list) \in 1..Len(list) /\ movedFrom \in Item
    BY LenProperties, TableAssumption DEF Item, movedFrom
<1>2. list[Len(list)] \in Range(list)
    BY <1>1 DEF Range
<1>3. CASE half = [list EXCEPT ![Len(list)] = movedFrom]
    <2>1. half \in Seq(Item)
        BY <1>1, <1>3, ExceptSeq
    <2>2. DOMAIN half = 1..Len(list)
          /\ \A i \in 1..Len(list) : i # Len(list) => half[i] = list[i]
        BY <1>1, <1>3
    <2>3. Range(list) \subseteq Range(half) \cup {list[Len(list)]}
        BY <1>1, <2>2 DEF Range
    <2> QED
        BY <1>2, <2>1, <2>3
<1>4. CASE half = InsertAt(list, at, a)
    <2>1. half \in Seq(Item) /\ Range(list) \subseteq Range(half)
        BY <1>1, <1>4, InsertedKeepsAll
    <2> QED
        BY <1>2, <2>1
<1>5. CASE \E i \in at..(Len(list) - 1) : half = InsertAt(list, i, movedFrom)
    <2>1. PICK i \in 1..(Len(list) + 1) : half = InsertAt(list, i, movedFrom)
        BY <1>1, <1>5
    <2>2. half \in Seq(Item) /\ Range(list) \subseteq Range(half)
        BY <1>1, <2>1, InsertedKeepsAll
    <2> QED
        BY <1>2, <2>2
<1> QED
    BY <1>3, <1>4, <1>5 DEF HalfInserted

\* What a throwing move leaves of a removal: all items but that which was removed.
LEMMA HalfErasedLists ==
    ASSUME NEW list \in Seq(Item), NEW at \in 1..Len(list),
           NEW half \in HalfErased(list, at)
    PROVE  /\ half \in Seq(Item)
           /\ Range(RemoveAt(list, at)) \subseteq Range(half)
<1>1. Len(list) \in Nat /\ movedFrom \in Item
    BY LenProperties, TableAssumption DEF Item, movedFrom
<1>2. RemoveAt(list, at) \in Seq(Item) /\ Len(RemoveAt(list, at)) = Len(list) - 1
    BY Removed
<1>3. PICK i \in (at + 1)..Len(list) :
            half = InsertAt(RemoveAt(list, at), i, movedFrom)
    BY DEF HalfErased
<1>4. i \in 1..(Len(RemoveAt(list, at)) + 1)
    BY <1>1, <1>2
<1> QED
    BY <1>1, <1>2, <1>3, <1>4, InsertedKeepsAll

\* A vector that is copied into another, and what it holds when that throws.
LEMMA CopiesAreVectors ==
    ASSUME NEW vector \in Vectors, NEW from \in Vectors
    PROVE  /\ Copied(vector, from) \in Vectors
           /\ Copied(vector, from).items = from.items
           /\ HalfCopied(vector, from) \subseteq Seq(Item)
<1>1. /\ vector.items \in Seq(Item) /\ from.items \in Seq(Item)
      /\ vector.capacity \in Nat
      /\ Len(vector.items) \in Nat /\ Len(from.items) \in Nat
    BY LenProperties DEF Vectors
<1>2. Max({vector.capacity, Len(from.items)}) \in Nat
    BY <1>1, Greater
<1>3. \A k \in 0..Min({Len(from.items), Len(vector.items)}) :
           SubSeq(from.items, 1, k)
             \o SubSeq(vector.items, k + 1, Len(vector.items)) \in Seq(Item)
    <2> SUFFICES ASSUME NEW k \in 0..Min({Len(from.items), Len(vector.items)})
                 PROVE  SubSeq(from.items, 1, k)
                          \o SubSeq(vector.items, k + 1, Len(vector.items))
                            \in Seq(Item)
        OBVIOUS
    <2>0. /\ Min({Len(from.items), Len(vector.items)}) \in Nat
          /\ Min({Len(from.items), Len(vector.items)}) <= Len(from.items)
          /\ Min({Len(from.items), Len(vector.items)}) <= Len(vector.items)
        BY <1>1, Smaller
    <2>1. k \in Nat /\ k <= Len(from.items) /\ k <= Len(vector.items)
        BY <1>1, <2>0
    <2>2. SubSeq(from.items, 1, k) \in Seq(Item)
        <3>1. \A i \in 1..k : from.items[i] \in Item
            BY <1>1, <2>1, ElementOfSeq
        <3> QED
            BY <1>1, <2>1, <3>1, SubSeqProperties
    <2>3. SubSeq(vector.items, k + 1, Len(vector.items)) \in Seq(Item)
        <3>1. \A i \in (k + 1)..Len(vector.items) : vector.items[i] \in Item
            BY <1>1, <2>1, ElementOfSeq
        <3> QED
            BY <1>1, <2>1, <3>1, SubSeqProperties
    <2> QED
        BY <2>2, <2>3, ConcatProperties
<1> QED
    BY <1>1, <1>2, <1>3 DEF Copied, HalfCopied, Vectors

\* A vector with room for one more item.
LEMMA ReservedHasRoom ==
    ASSUME NEW vector \in Vectors
    PROVE  /\ Reserved(vector) \in Vectors
           /\ Reserved(vector).items = vector.items
           /\ ~Full(Reserved(vector))
<1>1. vector.items \in Seq(Item) /\ vector.capacity \in Nat
    BY DEF Vectors
<1> QED
    BY <1>1 DEF Reserved, Full, Vectors

-----------------------------------------------------------------------------
\* The statements of insert and erase.

\* What is known of a call at a statement.
LEMMA Runs ==
    ASSUME IInv, NEW statement, Running(statement)
    PROVE  /\ ~AtRest /\ call \in Calls /\ Now(call) = statement
           /\ T \in States /\ NothingNewer(T)
           /\ Source \in States /\ NothingNewer(Source)
           /\ call.step \in 1..Len(Steps(call.op))
           /\ IsUpdate(call) =>
                 /\ call.address \in Address /\ Placed(call, statement, T)
                 /\ call.table \notin halfDone => Updates(call, statement, T)
<1>1. ~AtRest /\ call \in Calls
    BY AtRestOrRunning DEF IInv, Running
<1> QED
    BY <1>1 DEF IInv, Running, Now, Calls, TypeOK, T, Source, Settled, Underway

\* A search that has found where the address of an update goes, or is, in a whole
\* table stopped inside the list, or behind it to insert.
LEMMA FoundPlace ==
    ASSUME NEW c, NEW now, NEW x \in States, IsUpdate(c), c.address \in Address,
           now # "search", Unchanged(c, now, x)
    PROVE  c.at \in Places(c, x.methods.items)
<1>1. x.methods.items \in Seq(Item) /\ c.address \in Item
    BY TableAssumption DEF States, Vectors, Address, Item
<1>2. /\ InOrder(x.methods.items) /\ Range(x.methods.items) = c.before
      /\ IsLowerBound(x.methods.items, c.address, c.at)
      /\ (c.address \in c.before) = (c.op = "erase")
    BY DEF Unchanged, Agrees, Ordered
<1>3. CASE c.op = "insert"
    BY <1>2, <1>3 DEF Places, IsLowerBound
<1>4. CASE c.op = "erase"
    <2>1. c.at \in 1..Len(x.methods.items)
        BY <1>1, <1>2, <1>4, OrderedRemoval
    <2> QED
        BY <1>4, <2>1 DEF Places
<1> QED
    BY <1>3, <1>4 DEF IsUpdate

\* An update that goes on keeps the invariant if its table is as it should be
\* at the next statement.
LEMMA UpdateWentOn ==
    ASSUME IInv, ~AtRest, IsUpdate(call), call.table \notin halfDone,
           NEW x \in States, NothingNewer(x),
           call.step # Len(Steps(call.op)),
           Updates(call, Steps(call.op)[call.step + 1], x),
           Now(call) # "search", Steps(call.op)[call.step + 1] # "search",
           GoOn, Becomes(x), UNCHANGED <<movesCannotThrow, halfDone>>
    PROVE  IInv' /\ EndsWhole
<1>1. /\ TypeOK' /\ Settled' /\ ~AtRest' /\ T' = x
      /\ call'.op = call.op /\ call'.at = call.at
      /\ call'.address = call.address /\ call'.before = call.before
      /\ call'.table = call.table
      /\ call'.step \in 1..Len(Steps(call.op)')
      /\ Now(call)' = Steps(call.op)[call.step + 1]
    BY WentOn
<1> DEFINE next == Steps(call.op)[call.step + 1]
<1>2. Updates(call, next, x) /\ next # "search"
    OBVIOUS
<1>3. Now(call)' = next
    BY <1>1
<1> HIDE DEF next
<1>4. HasRoom(call, Now(call), T)'
    BY <1>1, <1>2, <1>3 DEF Updates, HasRoom, Full
<1>5. next \in BeforeChange => Unchanged(call, Now(call), T)'
    BY <1>1, <1>2, <1>3 DEF Updates, Unchanged, Agrees, Remembers, Ordered
<1>6. next \notin BeforeChange => HasChanged(call, Now(call), T)'
    BY <1>1, <1>2, <1>3 DEF Updates, HasChanged, Ordered, IsChanged, Changed,
        Places, Update, NothingKept
<1>7. Updates(call, Now(call), T)'
    BY <1>1, <1>2, <1>3, <1>4, <1>5, <1>6 DEF Updates
<1>8. call.address \in Address /\ call.at # 0
    BY DEF IInv, Underway, Placed
<1>9. Placed(call, Now(call), T)'
    <2>1. next \in BeforeChange => call.at \in Places(call, x.methods.items)
        BY <1>2, <1>8, FoundPlace DEF Updates
    <2> QED
        BY <1>1, <1>3, <1>8, <2>1 DEF Placed, Places
<1>10. Underway'
    BY <1>1, <1>7, <1>8, <1>9 DEF Underway, IsUpdate
<1> QED
    BY <1>1, <1>10 DEF IInv, EndsWhole

\* In a table that is half done a call may end in any way.
LEMMA HalfEnds ==
    ASSUME IInv, ~AtRest, call.table \in halfDone,
           NEW x \in States, NothingNewer(x),
           NEW answer \in {"true", "false", "threw", "undefined"},
           halfDone' \in SUBSET Tables, halfDone \subseteq halfDone',
           Returns(answer), Becomes(x), UNCHANGED movesCannotThrow
    PROVE  IInv' /\ EndsWhole
<1>1. IInv' /\ AtRest' /\ table'[call.table] = x /\ call'.outcome = answer
    BY Ended
<1> QED
    BY <1>1 DEF EndsWhole

\* There a statement behind the search leads to the next in any way.
LEMMA HalfGoesOn ==
    ASSUME IInv, ~AtRest, IsUpdate(call), call.table \in halfDone,
           NEW x \in States, NothingNewer(x), Now(call) # "search",
           Now(call) \in Ahead => x.methods.items = T.methods.items,
           GoOn, Becomes(x), UNCHANGED <<movesCannotThrow, halfDone>>
    PROVE  IInv' /\ EndsWhole
<1>1. call \in Calls /\ call.step \in 1..Len(Steps(call.op))
    BY AtRestOrRunning DEF IInv, Underway
<1>2. CASE call.step = Len(Steps(call.op))
    <2>1. Returns("true") /\ halfDone' \in SUBSET Tables
        BY <1>2 DEF GoOn, IInv, TypeOK
    <2> QED
        BY <2>1, HalfEnds
<1>3. CASE call.step # Len(Steps(call.op))
    <2> DEFINE next == Steps(call.op)[call.step + 1]
    <2>1. /\ TypeOK' /\ Settled' /\ ~AtRest' /\ T' = x
          /\ call'.op = call.op /\ call'.at = call.at
          /\ call'.address = call.address /\ call'.table = call.table
          /\ call'.step \in 1..Len(Steps(call.op)')
          /\ Now(call)' = next
        BY <1>3, WentOn
    <2>2. next \in BeforeChange => Now(call) \in Ahead
        BY <1>1, <1>3, StatementPlaces DEF Calls, IInv, TypeOK
    <2> HIDE DEF next
    <2>3. call.address \in Address /\ Placed(call, Now(call), T) /\ call.at # 0
        BY DEF IInv, Underway, Placed
    <2>4. next \in BeforeChange => call.at \in Places(call, x.methods.items)
        BY <2>2, <2>3 DEF Placed, Ahead, BeforeChange, Places
    <2>5. Placed(call, Now(call), T)'
        BY <2>1, <2>3, <2>4 DEF Placed, Places
    <2>6. Underway'
        BY <2>1, <2>3, <2>5 DEF Underway, IsUpdate
    <2> QED
        BY <2>1, <2>6 DEF IInv, EndsWhole
<1> QED
    BY <1>2, <1>3

\* The same of a statement as a whole.
LEMMA HalfDoes ==
    ASSUME IInv, NEW statement, NEW done \in States, NEW intact \in SUBSET States,
           NEW halves \in SUBSET States, Do(statement, done, intact, halves),
           IsUpdate(call), call.table \in halfDone, statement # "search",
           \A x \in {done} \cup intact \cup halves : NothingNewer(x),
           statement \in Ahead => done.methods.items = T.methods.items,
           UNCHANGED movesCannotThrow
    PROVE  IInv' /\ EndsWhole
<1>1. ~AtRest /\ call \in Calls /\ Now(call) = statement
    BY Runs DEF Do
<1>2. halfDone \in SUBSET Tables /\ halfDone \cup {call.table} = halfDone
    BY DEF IInv, TypeOK
<1>3. CASE GoOn /\ Becomes(done) /\ UNCHANGED <<halfDone, numThrown>>
    BY <1>1, <1>3, HalfGoesOn
<1>4. ASSUME NEW x \in intact \cup halves, Throws, Becomes(x),
             halfDone' \in {halfDone, halfDone \cup {call.table}}
      PROVE  IInv' /\ EndsWhole
    <2>1. x \in States /\ NothingNewer(x) /\ Returns("threw")
        BY <1>4 DEF Throws
    <2> QED
        BY <1>1, <1>2, <1>4, <2>1, HalfEnds
<1> QED
    BY <1>3, <1>4 DEF Do

\* A search that ends the update of a whole table has found that there is nothing
\* to do.
LEMMA SearchEnds ==
    ASSUME IInv, ~AtRest, call \in Calls, T \in States, NothingNewer(T),
           IsUpdate(call), call.table \notin halfDone =>
                /\ Sound(T) /\ Range(T.methods.items) = call.before
                /\ (call.address \in call.before) = (call.op = "insert"),
           Returns("false"), UNCHANGED <<movesCannotThrow, table, halfDone>>
    PROVE  IInv' /\ EndsWhole
<1>1. Becomes(T) /\ halfDone' \in SUBSET Tables
    BY DEF Becomes, T, IInv, TypeOK, Calls
<1>2. IInv' /\ AtRest' /\ table'[call.table] = T /\ call'.outcome = "false"
    BY <1>1, Ended
<1>3. CASE call.table \in halfDone
    BY <1>2, <1>3 DEF EndsWhole
<1>4. CASE call.table \notin halfDone
    <2>1. After = call.before
        BY <1>4 DEF After, IsUpdate
    <2>2. call.address \in Address
        BY DEF IInv, Underway
    <2> QED
        BY <1>2, <1>4, <2>1, <2>2 DEF EndsWhole
<1> QED
    BY <1>3, <1>4

\* The search finds the place of the address, or refuses the update.
LEMMA SearchKeeps ==
    ASSUME IInv, Search, UNCHANGED movesCannotThrow
    PROVE  IInv' /\ EndsWhole
<1>1. /\ ~AtRest /\ call \in Calls /\ Now(call) = "search"
      /\ T \in States /\ NothingNewer(T)
      /\ call.step \in 1..Len(Steps(call.op))
      /\ IsUpdate(call) =>
            /\ call.address \in Address
            /\ call.table \notin halfDone => Updates(call, "search", T)
    BY Runs DEF Search
<1>2. IsUpdate(call) /\ call.step = 1
    <2>1. call.op \in {"insert", "erase", "assign"} /\ movesCannotThrow \in BOOLEAN
        BY <1>1 DEF Calls, IInv, TypeOK
    <2> QED
        BY <1>1, <2>1, StatementPlaces
<1>3. /\ call.address \in Address /\ call.address \in Item
      /\ call.table \notin halfDone =>
            /\ Agrees(T) /\ Remembers(T)
            /\ Range(T.methods.items) = call.before
    BY <1>1, <1>2, TableAssumption DEF Updates, Unchanged, BeforeChange, Address, Item
<1> DEFINE Held(p) == p <= Len(T.methods.items)
                      /\ T.methods.items[p] = call.address
<1>4. PICK p \in 1..(Len(T.methods.items) + 1) :
          /\ IsLowerBound(T.methods.items, call.address, p)
          /\ IF Held(p) = (call.op = "insert")
             THEN Returns("false")
             ELSE call' = [call EXCEPT !.at = p, !.step = 2]
    BY DEF Search
<1>5. UNCHANGED <<table, halfDone>>
    BY DEF Search
<1>6. T.methods.items \in Seq(Item) /\ Len(T.methods.items) \in Nat
    BY <1>1, LenProperties DEF States, Vectors
<1>7. call.table \notin halfDone =>
            (Held(p) <=> call.address \in call.before)
    <2> SUFFICES ASSUME call.table \notin halfDone
                 PROVE  Held(p) <=> call.address \in call.before
        OBVIOUS
    <2>1. InOrder(T.methods.items)
        BY <1>3 DEF Agrees, Ordered
    <2>2. call.address \in Range(T.methods.items) <=> Held(p)
        BY <1>3, <1>4, <1>6, <2>1, LowerBoundInOrder
    <2> QED
        BY <1>3, <2>2
<1> DEFINE held == Held(p)
<1>8. CASE held = (call.op = "insert")
    <2>1. Returns("false")
        BY <1>4, <1>8
    <2>2. call.table \notin halfDone =>
                (call.address \in call.before) = (call.op = "insert")
        BY <1>7, <1>8
    <2> QED
        BY <1>1, <1>2, <1>3, <1>5, <2>1, <2>2, SearchEnds DEF Sound
<1>9. CASE held # (call.op = "insert")
    <2>1. call' = [call EXCEPT !.at = p, !.step = 2]
        BY <1>4, <1>9
    <2>2. /\ call' \in Calls /\ call'.op = call.op /\ call'.at = p
          /\ call'.address = call.address /\ call'.before = call.before
          /\ call'.table = call.table /\ call'.step = 2
        <3>1. p \in Nat
            BY <1>6
        <3>2. call' = [op |-> call.op, table |-> call.table,
                       source |-> call.source, address |-> call.address,
                       at |-> p, before |-> call.before, step |-> 2]
            BY <1>1, <1>2, <2>1 DEF Calls
        <3> QED
            BY <1>1, <3>1, <3>2 DEF Calls
    <2>3. TypeOK' /\ ~AtRest' /\ T' = T
        BY <1>1, <1>5, <2>1, <2>2 DEF IInv, TypeOK, AtRest, T, Calls
    <2>4. Settled'
        BY <1>1, <1>5, <2>2, <2>3 DEF IInv, Settled, Sound, Agrees, Ordered,
            Remembers, NothingNewer
    <2>5. /\ Now(call)' \in BeforeChange \ {"search", "reserveHashes"}
          /\ (call.op = "insert" /\ movesCannotThrow => Now(call)' = "readEnds")
          /\ call'.step \in 1..Len(Steps(call.op)')
        BY <1>2, <2>2 DEF Now, Steps, InsertSteps, EraseSteps, BeforeChange,
            IsUpdate
    <2>6. HasRoom(call, Now(call), T)'
        BY <2>2, <2>5 DEF HasRoom
    <2>7. ASSUME call.table \notin halfDone
          PROVE  Updates(call, Now(call), T)'
        <3>1. (call.address \in call.before) = (call.op = "erase")
            BY <1>2, <1>7, <1>9, <2>7 DEF IsUpdate
        <3>2. Unchanged(call, Now(call), T)'
            BY <1>3, <1>4, <2>2, <2>3, <2>7, <3>1 DEF Unchanged, Agrees,
                Remembers, Ordered
        <3> QED
            BY <2>2, <2>3, <2>5, <2>6, <3>2 DEF Updates
    <2>8. Placed(call, Now(call), T)'
        <3>1. call'.at # 0
            BY <1>4, <1>6, <2>2
        <3>2. CASE call.op = "insert"
            BY <2>2, <2>3, <3>1, <3>2 DEF Placed, Places
        <3>3. CASE call.op = "erase"
            <4>1. held
                BY <1>9, <3>3
            <4>2. p \in 1..Len(T.methods.items)
                BY <1>6, <4>1
            <4> QED
                BY <2>2, <2>3, <3>1, <3>3, <4>2 DEF Placed, Places
        <3> QED
            BY <1>2, <3>2, <3>3 DEF IsUpdate
    <2>9. Underway'
        BY <1>2, <1>3, <1>5, <2>2, <2>3, <2>5, <2>7, <2>8 DEF Underway, IsUpdate
    <2> QED
        BY <2>3, <2>4, <2>9 DEF IInv, EndsWhole
<1> QED
    BY <1>8, <1>9

\* A statement of a whole table ahead of the change that throws leaves it as it
\* was.
LEMMA ThrewAhead ==
    ASSUME IInv, ~AtRest, IsUpdate(call), call.table \notin halfDone,
           Updates(call, Now(call), T),
           Now(call) \in BeforeChange, Returns("threw"), Becomes(T),
           UNCHANGED <<movesCannotThrow, halfDone>>
    PROVE  IInv' /\ EndsWhole
<1>1. /\ call \in Calls /\ T \in States /\ NothingNewer(T)
      /\ call.address \in Address /\ halfDone' \in SUBSET Tables
    BY AtRestOrRunning DEF IInv, Calls, TypeOK, T, Settled, Underway
<1>2. Sound(T) /\ Range(T.methods.items) = call.before
    BY DEF Updates, Unchanged, Sound
<1>3. IInv' /\ AtRest' /\ table'[call.table] = T /\ call'.outcome = "threw"
    BY <1>1, <1>2, Ended
<1> QED
    BY <1>1, <1>2, <1>3 DEF EndsWhole

\* partEndsOf, and then the room for the parts and for the hash.
LEMMA ReadEndsKeeps ==
    ASSUME IInv, ReadEnds, UNCHANGED movesCannotThrow
    PROVE  IInv' /\ EndsWhole
<1>1. /\ ~AtRest /\ call \in Calls /\ Now(call) = "readEnds"
      /\ T \in States /\ NothingNewer(T)
      /\ call.step \in 1..Len(Steps(call.op))
      /\ IsUpdate(call) /\ call.table \notin halfDone
            => Updates(call, "readEnds", T)
    BY Runs DEF ReadEnds, Do
<1>2. call.op = "insert" /\ movesCannotThrow /\ call.step = 2
    <2>1. call.op \in {"insert", "erase", "assign"} /\ movesCannotThrow \in BOOLEAN
        BY <1>1 DEF Calls, IInv, TypeOK
    <2> QED
        BY <1>1, <2>1, StatementPlaces
<1>3. IsUpdate(call) /\ Now(call) \in BeforeChange
    BY <1>1, <1>2 DEF IsUpdate, BeforeChange
<1>4. CASE call.table \in halfDone
    <2>1. /\ Do("readEnds", T, {T}, {})
          /\ {T} \in SUBSET States /\ {} \in SUBSET States
          /\ \A y \in {T} \cup {T} \cup {} : NothingNewer(y)
        BY <1>1 DEF ReadEnds
    <2> QED
        BY <1>1, <1>3, <1>4, <2>1, HalfDoes
<1>5. CASE call.table \notin halfDone
    <2>1. Updates(call, Now(call), T)
        BY <1>1, <1>3, <1>5
    <2>2. ASSUME GoOn, Becomes(T), UNCHANGED halfDone PROVE IInv' /\ EndsWhole
        <3>1. Steps(call.op)[call.step + 1] = "reserveEnds"
              /\ call.step # Len(Steps(call.op))
            BY <1>2 DEF Steps, InsertSteps
        <3>2. Updates(call, "reserveEnds", T)
            BY <1>1, <2>1 DEF Updates, HasRoom, Unchanged, BeforeChange
        <3> QED
            BY <1>1, <1>3, <1>5, <2>2, <3>1, <3>2, UpdateWentOn
    <2>3. \/ GoOn /\ Becomes(T) /\ UNCHANGED halfDone
          \/ Returns("threw") /\ Becomes(T) /\ UNCHANGED halfDone
        BY DEF ReadEnds, Do, Throws
    <2> QED
        BY <1>1, <1>3, <1>5, <2>1, <2>2, <2>3, ThrewAhead
<1> QED
    BY <1>4, <1>5

\* An insertion makes room for the parts.
LEMMA ReserveEndsKeeps ==
    ASSUME IInv, ReserveEnds, UNCHANGED movesCannotThrow
    PROVE  IInv' /\ EndsWhole
<1>1. /\ ~AtRest /\ call \in Calls /\ Now(call) = "reserveEnds"
      /\ T \in States /\ NothingNewer(T)
      /\ call.step \in 1..Len(Steps(call.op))
      /\ IsUpdate(call) /\ call.table \notin halfDone
            => Updates(call, "reserveEnds", T)
    BY Runs DEF ReserveEnds, Do
<1>2. call.op = "insert" /\ movesCannotThrow /\ call.step = 3
    <2>1. call.op \in {"insert", "erase", "assign"} /\ movesCannotThrow \in BOOLEAN
        BY <1>1 DEF Calls, IInv, TypeOK
    <2> QED
        BY <1>1, <2>1, StatementPlaces
<1>3. IsUpdate(call) /\ Now(call) \in BeforeChange
    BY <1>1, <1>2 DEF IsUpdate, BeforeChange
<1> DEFINE x == [T EXCEPT !.partEnds = Reserved(@)]
           intact == If(Full(T.partEnds), T)
<1>4. /\ x \in States /\ x.methods = T.methods /\ x.hashes = T.hashes
      /\ x.numSlots = T.numSlots /\ (x.slotsFit <=> T.slotsFit) /\ x.memo = T.memo
      /\ x.partEnds.items = T.partEnds.items /\ ~Full(x.partEnds)
    BY <1>1, ReservedHasRoom DEF States
<1>5. Do("reserveEnds", x, intact, {})
    BY DEF ReserveEnds
<1>6. intact \in SUBSET {T}
    BY DEF If
<1>7. NothingNewer(x)
    BY <1>1, <1>4 DEF NothingNewer
<1> HIDE DEF x, intact
<1>8. CASE call.table \in halfDone
    <2>1. /\ intact \in SUBSET States /\ {} \in SUBSET States
          /\ \A y \in {x} \cup intact \cup {} : NothingNewer(y)
        BY <1>1, <1>6, <1>7
    <2> QED
        BY <1>3, <1>4, <1>5, <1>8, <2>1, HalfDoes
<1>9. CASE call.table \notin halfDone
    <2>1. Updates(call, Now(call), T)
        BY <1>1, <1>3, <1>9
    <2>2. ASSUME GoOn, Becomes(x), UNCHANGED halfDone PROVE IInv' /\ EndsWhole
        <3>1. Steps(call.op)[call.step + 1] = "reserveHashes"
              /\ call.step # Len(Steps(call.op))
            BY <1>2 DEF Steps, InsertSteps
        <3>2. Updates(call, "reserveHashes", x)
            BY <1>1, <1>2, <1>4, <2>1 DEF Updates, HasRoom, Unchanged,
                BeforeChange, Agrees, Ordered, Remembers, Selected
        <3> QED
            BY <1>1, <1>3, <1>4, <1>7, <1>9, <2>2, <3>1, <3>2, UpdateWentOn
    <2>3. \/ GoOn /\ Becomes(x) /\ UNCHANGED halfDone
          \/ Returns("threw") /\ Becomes(T) /\ UNCHANGED halfDone
        BY <1>5, <1>6 DEF Do, Throws
    <2> QED
        BY <1>1, <1>3, <1>9, <2>1, <2>2, <2>3, ThrewAhead
<1> QED
    BY <1>8, <1>9

\* An insertion makes room for the hash.
LEMMA ReserveHashesKeeps ==
    ASSUME IInv, ReserveHashes, UNCHANGED movesCannotThrow
    PROVE  IInv' /\ EndsWhole
<1>1. /\ ~AtRest /\ call \in Calls /\ Now(call) = "reserveHashes"
      /\ T \in States /\ NothingNewer(T)
      /\ call.step \in 1..Len(Steps(call.op))
      /\ IsUpdate(call) /\ call.table \notin halfDone
            => Updates(call, "reserveHashes", T)
    BY Runs DEF ReserveHashes, Do
<1>2. call.op = "insert" /\ movesCannotThrow /\ call.step = 4
    <2>1. call.op \in {"insert", "erase", "assign"} /\ movesCannotThrow \in BOOLEAN
        BY <1>1 DEF Calls, IInv, TypeOK
    <2> QED
        BY <1>1, <2>1, StatementPlaces
<1>3. IsUpdate(call) /\ Now(call) \in BeforeChange
    BY <1>1, <1>2 DEF IsUpdate, BeforeChange
<1> DEFINE x == [T EXCEPT !.hashes = Reserved(@)]
           intact == If(Full(T.hashes), T)
<1>4. /\ x \in States /\ x.methods = T.methods /\ x.partEnds = T.partEnds
      /\ x.numSlots = T.numSlots /\ (x.slotsFit <=> T.slotsFit) /\ x.memo = T.memo
      /\ x.hashes.items = T.hashes.items /\ ~Full(x.hashes)
    BY <1>1, ReservedHasRoom DEF States
<1>5. Do("reserveHashes", x, intact, {})
    BY DEF ReserveHashes
<1>6. intact \in SUBSET {T}
    BY DEF If
<1>7. NothingNewer(x)
    BY <1>1, <1>4 DEF NothingNewer
<1> HIDE DEF x, intact
<1>8. CASE call.table \in halfDone
    <2>1. /\ intact \in SUBSET States /\ {} \in SUBSET States
          /\ \A y \in {x} \cup intact \cup {} : NothingNewer(y)
        BY <1>1, <1>6, <1>7
    <2> QED
        BY <1>3, <1>4, <1>5, <1>8, <2>1, HalfDoes
<1>9. CASE call.table \notin halfDone
    <2>1. Updates(call, Now(call), T)
        BY <1>1, <1>3, <1>9
    <2>2. ASSUME GoOn, Becomes(x), UNCHANGED halfDone PROVE IInv' /\ EndsWhole
        <3>1. Steps(call.op)[call.step + 1] = "insertMethod"
              /\ call.step # Len(Steps(call.op))
            BY <1>2 DEF Steps, InsertSteps
        <3>2. Updates(call, "insertMethod", x)
            BY <1>1, <1>2, <1>4, <2>1 DEF Updates, HasRoom, Unchanged,
                BeforeChange, Agrees, Ordered, Remembers, Selected
        <3> QED
            BY <1>1, <1>3, <1>4, <1>7, <1>9, <2>2, <3>1, <3>2, UpdateWentOn
    <2>3. \/ GoOn /\ Becomes(x) /\ UNCHANGED halfDone
          \/ Returns("threw") /\ Becomes(T) /\ UNCHANGED halfDone
        BY <1>5, <1>6 DEF Do, Throws
    <2> QED
        BY <1>1, <1>3, <1>9, <2>1, <2>2, <2>3, ThrewAhead
<1> QED
    BY <1>8, <1>9

\* A throwing move leaves the update of a whole table half done.
LEMMA MoveThrew ==
    ASSUME IInv, ~AtRest, IsUpdate(call), ~movesCannotThrow,
           NEW list \in Seq(Item), Throws,
           Becomes([T EXCEPT !.methods.items = list]),
           halfDone' = halfDone \cup {call.table},
           T \in States, NothingNewer(T), call.address \in Address,
           \E a \in Address :
                call.before \subseteq Range(list) \cup {call.address, a},
           UNCHANGED movesCannotThrow
    PROVE  IInv' /\ EndsWhole
<1> DEFINE y == [T EXCEPT !.methods.items = list]
<1>1. y \in States /\ y.methods.items = list /\ y.memo = T.memo
    BY DEF States, Vectors
<1>2. Becomes(y) /\ Returns("threw")
    BY DEF Throws
<1> HIDE DEF y
<1>3. NothingNewer(y)
    BY <1>1 DEF NothingNewer
<1>4. call \in Calls /\ halfDone' \in SUBSET Tables /\ call.table \in halfDone'
    BY AtRestOrRunning DEF IInv, TypeOK, Calls
<1>5. IInv' /\ AtRest' /\ table'[call.table] = y
    BY <1>1, <1>2, <1>3, <1>4, Ended
<1> QED
    BY <1>1, <1>4, <1>5 DEF EndsWhole

\* The methods get the address, or what std::vector leaves when a move throws.
LEMMA InsertMethodKeeps ==
    ASSUME IInv, InsertMethod, UNCHANGED movesCannotThrow
    PROVE  IInv' /\ EndsWhole
<1>1. /\ ~AtRest /\ call \in Calls /\ Now(call) = "insertMethod"
      /\ T \in States /\ NothingNewer(T)
      /\ call.step \in 1..Len(Steps(call.op))
      /\ IsUpdate(call) =>
            /\ call.address \in Address /\ Placed(call, "insertMethod", T)
            /\ call.table \notin halfDone => Updates(call, "insertMethod", T)
    BY Runs DEF InsertMethod, Do
<1>2. call.op = "insert" /\ call.step = IF movesCannotThrow THEN 5 ELSE 2
    <2>1. call.op \in {"insert", "erase", "assign"} /\ movesCannotThrow \in BOOLEAN
        BY <1>1 DEF Calls, IInv, TypeOK
    <2> QED
        BY <1>1, <2>1, StatementPlaces
<1>3. IsUpdate(call) /\ Now(call) \in BeforeChange
    BY <1>1, <1>2 DEF IsUpdate, BeforeChange
<1>4. /\ T.methods.items \in Seq(Item) /\ T.methods.capacity \in Nat
      /\ Len(T.methods.items) \in Nat
      /\ call.address \in Item /\ movedFrom \notin Address
      /\ call.at \in 1..(Len(T.methods.items) + 1) /\ call.at \in Nat
    BY <1>1, <1>2, <1>3, LenProperties, TableAssumption
       DEF States, Vectors, Address, Item, movedFrom, Calls, Placed, Places,
           BeforeChange
<1> DEFINE list == InsertAt(T.methods.items, call.at, call.address)
           x == [T EXCEPT !.methods = WithItem(@, call.at, call.address)]
           lists == HalfInserted(T.methods.items, call.at, call.address)
           isHalf == ~(movesCannotThrow \/ Full(T.methods)
                          \/ call.at > Len(T.methods.items))
           halves == IF movesCannotThrow \/ Full(T.methods)
                          \/ call.at > Len(T.methods.items)
                     THEN {} ELSE {[T EXCEPT !.methods.items = l] : l \in lists}
<1>5. Do("insertMethod", x, {T}, halves)
    BY DEF InsertMethod
<1>6. isHalf => call.at \in 1..Len(T.methods.items) /\ ~movesCannotThrow
    BY <1>4
<1>7. \A l \in lists : isHalf =>
          /\ l \in Seq(Item)
          /\ \E b \in Range(T.methods.items) :
                Range(T.methods.items) \subseteq Range(l) \cup {b}
    BY <1>4, <1>6, HalfInsertedLists
<1>8. \A y \in halves : isHalf /\ \E l \in lists : y = [T EXCEPT !.methods.items = l]
    OBVIOUS
<1>9. /\ x \in States /\ x.partEnds = T.partEnds /\ x.hashes = T.hashes
      /\ x.numSlots = T.numSlots /\ (x.slotsFit <=> T.slotsFit) /\ x.memo = T.memo
      /\ x.methods.items = list
    <2>1. Max({2 * T.methods.capacity, 1}) \in Nat
        BY <1>4, Greater
    <2>2. list \in Seq(Item)
        BY <1>4, Inserted
    <2>3. WithItem(T.methods, call.at, call.address) \in Vectors
          /\ WithItem(T.methods, call.at, call.address).items = list
        BY <1>4, <2>1, <2>2 DEF WithItem, Vectors
    <2> QED
        BY <1>1, <2>3 DEF States
<1>10. NothingNewer(x)
    BY <1>1, <1>9 DEF NothingNewer
<1> HIDE DEF x, list, lists, isHalf, halves
<1>11. \A y \in halves : y \in States /\ NothingNewer(y)
    <2> SUFFICES ASSUME NEW y \in halves PROVE y \in States /\ NothingNewer(y)
        OBVIOUS
    <2>1. PICK l \in lists : isHalf /\ y = [T EXCEPT !.methods.items = l]
        BY <1>8
    <2>2. y \in States /\ y.memo = T.memo
        BY <1>1, <1>7, <2>1 DEF States, Vectors
    <2> QED
        BY <1>1, <2>2 DEF NothingNewer
<1>12. CASE call.table \in halfDone
    <2>1. /\ {T} \in SUBSET States /\ halves \in SUBSET States
          /\ \A y \in {x} \cup {T} \cup halves : NothingNewer(y)
          /\ "insertMethod" \notin Ahead
        BY <1>1, <1>10, <1>11 DEF Ahead
    <2> QED
        BY <1>3, <1>5, <1>9, <1>12, <2>1, HalfDoes
<1>13. CASE call.table \notin halfDone
    <2>1. /\ Updates(call, Now(call), T) /\ Agrees(T)
          /\ Range(T.methods.items) = call.before
          /\ IsLowerBound(T.methods.items, call.address, call.at)
          /\ call.address \notin call.before /\ call.address \in Address
        BY <1>1, <1>2, <1>3, <1>13 DEF Updates, Unchanged
    <2>2. /\ InOrder(list)
          /\ Range(list) = Range(T.methods.items) \cup {call.address}
        BY <1>4, <2>1, OrderedInsertion DEF Agrees, Ordered, list
    <2>3. ASSUME GoOn, Becomes(x), UNCHANGED halfDone PROVE IInv' /\ EndsWhole
        <3>1. Steps(call.op)[call.step + 1] = "forget"
              /\ call.step # Len(Steps(call.op))
            BY <1>2 DEF Steps, InsertSteps
        <3>2. Ordered(x) /\ Range(x.methods.items) = Update(call)
              /\ Update(call) # call.before
            BY <1>2, <1>4, <1>9, <2>1, <2>2 DEF Ordered, Agrees, Update
        <3>3. movesCannotThrow =>
                    /\ IsChanged(call, x.methods.items, x.partEnds.items)
                    /\ IsChanged(call, x.methods.items, x.hashes.items)
            BY <1>2, <1>4, <1>9, <2>1 DEF IsChanged, Changed, Places, Agrees, list
        <3>4. HasChanged(call, "forget", x)
            BY <1>9, <2>1, <3>2, <3>3 DEF HasChanged, Agrees
        <3>5. HasRoom(call, "forget", x)
            BY <1>1, <1>9, <2>1 DEF Updates, HasRoom, Full
        <3>6. Updates(call, "forget", x)
            BY <3>4, <3>5 DEF Updates, BeforeChange
        <3> QED
            BY <1>1, <1>3, <1>9, <1>10, <1>13, <2>3, <3>1, <3>6, UpdateWentOn
    <2>4. ASSUME NEW y \in halves, Throws, Becomes(y),
                 halfDone' = halfDone \cup {call.table}
          PROVE  IInv' /\ EndsWhole
        <3>1. PICK l \in lists : isHalf /\ y = [T EXCEPT !.methods.items = l]
            BY <1>8
        <3>2. /\ l \in Seq(Item) /\ ~movesCannotThrow
              /\ \E b \in call.before : call.before \subseteq Range(l) \cup {b}
            BY <1>6, <1>7, <2>1, <3>1
        <3>3. call.before \subseteq Address
            <4>1. call.before \subseteq Item
                BY <1>1 DEF Calls
            <4>2. movedFrom \notin call.before
                BY <2>1 DEF Agrees, Ordered
            <4> QED
                BY <4>1, <4>2, TableAssumption DEF Item, Address, movedFrom
        <3> QED
            BY <1>1, <1>3, <2>1, <2>4, <3>1, <3>2, <3>3, MoveThrew
    <2>5. \/ GoOn /\ Becomes(x) /\ UNCHANGED halfDone
          \/ Returns("threw") /\ Becomes(T) /\ UNCHANGED halfDone
          \/ \E y \in halves : /\ Throws /\ Becomes(y)
                               /\ halfDone' = halfDone \cup {call.table}
        BY <1>5 DEF Do, Throws
    <2> QED
        BY <1>1, <1>3, <1>13, <2>1, <2>3, <2>4, <2>5, ThrewAhead
<1> QED
    BY <1>12, <1>13

\* The methods lose the address, or are what is left when a move throws.
LEMMA EraseMethodKeeps ==
    ASSUME IInv, EraseMethod, UNCHANGED movesCannotThrow
    PROVE  IInv' /\ EndsWhole
<1>1. /\ ~AtRest /\ call \in Calls /\ Now(call) = "eraseMethod"
      /\ T \in States /\ NothingNewer(T)
      /\ call.step \in 1..Len(Steps(call.op))
      /\ IsUpdate(call) =>
            /\ call.address \in Address /\ Placed(call, "eraseMethod", T)
            /\ call.table \notin halfDone => Updates(call, "eraseMethod", T)
    BY Runs DEF EraseMethod, Do
<1>2. call.op = "erase" /\ call.step = 2
    <2>1. call.op \in {"insert", "erase", "assign"} /\ movesCannotThrow \in BOOLEAN
        BY <1>1 DEF Calls, IInv, TypeOK
    <2> QED
        BY <1>1, <2>1, StatementPlaces
<1>3. IsUpdate(call) /\ Now(call) \in BeforeChange
    BY <1>1, <1>2 DEF IsUpdate, BeforeChange
<1>4. /\ T.methods.items \in Seq(Item) /\ Len(T.methods.items) \in Nat
      /\ call.address \in Item
      /\ call.at \in 1..Len(T.methods.items)
    BY <1>1, <1>2, <1>3, LenProperties, TableAssumption
       DEF States, Vectors, Address, Item, Placed, Places, BeforeChange
<1> DEFINE list == RemoveAt(T.methods.items, call.at)
           x == [T EXCEPT !.methods = WithoutItem(@, call.at)]
           lists == HalfErased(T.methods.items, call.at)
           halves == IF movesCannotThrow THEN {}
                     ELSE {[T EXCEPT !.methods.items = l] : l \in lists}
<1>5. Do("eraseMethod", x, {}, halves)
    BY DEF EraseMethod
<1>6. \A l \in lists : l \in Seq(Item) /\ Range(list) \subseteq Range(l)
    BY <1>4, HalfErasedLists
<1>7. \A y \in halves :
          ~movesCannotThrow /\ \E l \in lists : y = [T EXCEPT !.methods.items = l]
    OBVIOUS
<1>8. /\ x \in States /\ x.partEnds = T.partEnds /\ x.hashes = T.hashes
      /\ x.numSlots = T.numSlots /\ (x.slotsFit <=> T.slotsFit) /\ x.memo = T.memo
      /\ x.methods.items = list
    <2>1. list \in Seq(Item)
        BY <1>4, Removed
    <2>2. WithoutItem(T.methods, call.at) \in Vectors
          /\ WithoutItem(T.methods, call.at).items = list
        BY <1>1, <2>1 DEF WithoutItem, Vectors, States
    <2> QED
        BY <1>1, <2>2 DEF States
<1>9. NothingNewer(x)
    BY <1>1, <1>8 DEF NothingNewer
<1> HIDE DEF x, list, lists, halves
<1>10. \A y \in halves : y \in States /\ NothingNewer(y)
    <2> SUFFICES ASSUME NEW y \in halves PROVE y \in States /\ NothingNewer(y)
        OBVIOUS
    <2>1. PICK l \in lists : y = [T EXCEPT !.methods.items = l]
        BY <1>7
    <2>2. y \in States /\ y.memo = T.memo
        BY <1>1, <1>6, <2>1 DEF States, Vectors
    <2> QED
        BY <1>1, <2>2 DEF NothingNewer
<1>11. CASE call.table \in halfDone
    <2>1. /\ {} \in SUBSET States /\ halves \in SUBSET States
          /\ \A y \in {x} \cup {} \cup halves : NothingNewer(y)
          /\ "eraseMethod" \notin Ahead
        BY <1>9, <1>10 DEF Ahead
    <2> QED
        BY <1>3, <1>5, <1>8, <1>11, <2>1, HalfDoes
<1>12. CASE call.table \notin halfDone
    <2>1. /\ Updates(call, Now(call), T) /\ Agrees(T)
          /\ Range(T.methods.items) = call.before
          /\ IsLowerBound(T.methods.items, call.address, call.at)
          /\ call.address \in call.before /\ call.address \in Address
        BY <1>1, <1>2, <1>3, <1>12 DEF Updates, Unchanged
    <2>2. /\ InOrder(list) /\ Len(list) = Len(T.methods.items) - 1
          /\ Range(list) = Range(T.methods.items) \ {call.address}
        BY <1>4, <2>1, OrderedRemoval DEF Agrees, Ordered, list
    <2>3. ASSUME GoOn, Becomes(x), UNCHANGED halfDone PROVE IInv' /\ EndsWhole
        <3>1. Steps(call.op)[call.step + 1] = "forget"
              /\ call.step # Len(Steps(call.op))
            BY <1>2 DEF Steps, EraseSteps
        <3>2. Ordered(x) /\ Range(x.methods.items) = Update(call)
              /\ Update(call) # call.before
            BY <1>2, <1>4, <1>8, <2>1, <2>2 DEF Ordered, Agrees, Update
        <3>3. movesCannotThrow =>
                    /\ IsChanged(call, x.methods.items, x.partEnds.items)
                    /\ IsChanged(call, x.methods.items, x.hashes.items)
            BY <1>2, <1>4, <1>8, <2>1 DEF IsChanged, Changed, Places, Agrees, list
        <3>4. HasChanged(call, "forget", x)
            BY <1>8, <2>1, <3>2, <3>3 DEF HasChanged, Agrees
        <3>5. Updates(call, "forget", x)
            BY <1>2, <3>4 DEF Updates, BeforeChange, HasRoom
        <3> QED
            BY <1>1, <1>3, <1>8, <1>9, <1>12, <2>3, <3>1, <3>5, UpdateWentOn
    <2>4. ASSUME NEW y \in halves, Throws, Becomes(y),
                 halfDone' = halfDone \cup {call.table}
          PROVE  IInv' /\ EndsWhole
        <3>1. PICK l \in lists : ~movesCannotThrow /\ y = [T EXCEPT !.methods.items = l]
            BY <1>7
        <3>2. l \in Seq(Item) /\ call.before \subseteq Range(l) \cup {call.address}
            BY <1>6, <2>1, <2>2
        <3> QED
            BY <1>1, <1>3, <2>1, <2>4, <3>1, <3>2, MoveThrew
    <2>5. \/ GoOn /\ Becomes(x) /\ UNCHANGED halfDone
          \/ \E y \in halves : /\ Throws /\ Becomes(y)
                               /\ halfDone' = halfDone \cup {call.table}
        BY <1>5 DEF Do
    <2> QED
        BY <2>3, <2>4, <2>5
<1> QED
    BY <1>11, <1>12

\* An update of a whole table that has done its last statement returns true.
LEMMA UpdateReturned ==
    ASSUME IInv, ~AtRest, IsUpdate(call), NEW x \in States, NothingNewer(x),
           Agrees(x), Remembers(x), Range(x.methods.items) = Update(call),
           Update(call) # call.before, call.step = Len(Steps(call.op)),
           call.table \notin halfDone,
           GoOn, Becomes(x), UNCHANGED <<movesCannotThrow, halfDone>>
    PROVE  IInv' /\ EndsWhole
<1>1. /\ Returns("true") /\ Sound(x) /\ halfDone' \in SUBSET Tables
      /\ call.address \in Address
    BY DEF GoOn, Sound, IInv, TypeOK, Underway
<1>2. IInv' /\ AtRest' /\ table'[call.table] = x /\ call'.outcome = "true"
    BY <1>1, Ended
<1>3. After = Update(call)
    BY DEF After, Update, IsUpdate
<1>4. call.before \subseteq Range(x.methods.items) \cup {call.address}
    BY DEF Update
<1> QED
    BY <1>1, <1>2, <1>3, <1>4 DEF EndsWhole

\* With the generation after this one nothing is kept.
LEMMA ForgetKeeps ==
    ASSUME IInv, Forget, UNCHANGED movesCannotThrow
    PROVE  IInv' /\ EndsWhole
<1>1. /\ ~AtRest /\ call \in Calls /\ Now(call) = "forget"
      /\ T \in States /\ NothingNewer(T)
      /\ call.step \in 1..Len(Steps(call.op))
      /\ IsUpdate(call) /\ call.table \notin halfDone => Updates(call, "forget", T)
    BY Runs DEF Forget, Do
<1>2. IsUpdate(call)
      /\ call.step = IF call.op = "insert" /\ movesCannotThrow THEN 6 ELSE 3
    <2>1. call.op \in {"insert", "erase", "assign"} /\ movesCannotThrow \in BOOLEAN
        BY <1>1 DEF Calls, IInv, TypeOK
    <2> QED
        BY <1>1, <2>1, StatementPlaces
<1> DEFINE x == [T EXCEPT !.memo.generation = @ + 1]
<1>3. /\ x \in States /\ x.methods = T.methods /\ x.partEnds = T.partEnds
      /\ x.hashes = T.hashes /\ x.numSlots = T.numSlots
      /\ (x.slotsFit <=> T.slotsFit)
      /\ x.memo.buckets = T.memo.buckets
      /\ x.memo.generation = T.memo.generation + 1
      /\ T.memo.generation \in Nat
      /\ \A p \in Patterns : T.memo.buckets[p].generation \in Nat
    BY <1>1 DEF States, Memos
<1>4. GoOn /\ Becomes(x) /\ UNCHANGED halfDone /\ Do("forget", x, {}, {})
    BY DEF Forget, Do
<1> HIDE DEF x
<1>5. NothingKept(x) /\ NothingNewer(x)
    BY <1>1, <1>3 DEF NothingKept, NothingNewer
<1>6. CASE call.table \in halfDone
    BY <1>1, <1>2, <1>3, <1>4, <1>5, <1>6, HalfGoesOn DEF Ahead
<1>7. CASE call.table \notin halfDone
    <2>1. HasRoom(call, "forget", T) /\ HasChanged(call, "forget", T)
        BY <1>1, <1>2, <1>7 DEF Updates, BeforeChange
    <2>2. CASE movesCannotThrow
        <3>1. /\ call.step # Len(Steps(call.op))
              /\ Steps(call.op)[call.step + 1] =
                    IF call.op = "insert" THEN "insertEnds" ELSE "eraseEnds"
            BY <1>2, <2>2 DEF IsUpdate, Steps, InsertSteps, EraseSteps
        <3> DEFINE next == Steps(call.op)[call.step + 1]
        <3>2. next \in {"insertEnds", "eraseEnds"}
              /\ (call.op = "insert" => next = "insertEnds")
            BY <3>1
        <3> HIDE DEF next
        <3>3. HasRoom(call, next, x)
            BY <1>3, <2>1, <3>2 DEF HasRoom, Full
        <3>4. HasChanged(call, next, x)
            BY <1>3, <1>5, <2>1, <2>2, <3>2 DEF HasChanged, Ordered
        <3>5. Updates(call, next, x)
            BY <3>2, <3>3, <3>4 DEF Updates, BeforeChange
        <3> QED
            BY <1>1, <1>2, <1>3, <1>4, <1>5, <1>7, <3>1, <3>5, UpdateWentOn
               DEF next
    <2>3. CASE ~movesCannotThrow
        <3>1. call.step = Len(Steps(call.op))
            BY <1>2, <2>3 DEF IsUpdate, Steps, InsertSteps, EraseSteps
        <3>2. Agrees(x) /\ Range(x.methods.items) = Update(call)
              /\ Update(call) # call.before
            BY <1>3, <2>1, <2>3 DEF HasChanged, Agrees, Ordered
        <3>3. Remembers(x)
            BY <1>3, <1>5 DEF Remembers, NothingKept
        <3> QED
            BY <1>1, <1>2, <1>3, <1>4, <1>5, <1>7, <3>1, <3>2, <3>3, UpdateReturned
    <2> QED
        BY <2>2, <2>3
<1> QED
    BY <1>6, <1>7

\* The parts get those of the address.  In a whole table there is room, so this
\* cannot throw.
LEMMA InsertEndsKeeps ==
    ASSUME IInv, InsertEnds, UNCHANGED movesCannotThrow
    PROVE  IInv' /\ EndsWhole
<1>1. /\ ~AtRest /\ call \in Calls /\ Now(call) = "insertEnds"
      /\ T \in States /\ NothingNewer(T)
      /\ call.step \in 1..Len(Steps(call.op))
      /\ IsUpdate(call) =>
            /\ call.address \in Address /\ Placed(call, "insertEnds", T)
            /\ call.table \notin halfDone => Updates(call, "insertEnds", T)
    BY Runs DEF InsertEnds, DoInRange
<1>2. call.op = "insert" /\ movesCannotThrow /\ call.step = 7 /\ IsUpdate(call)
    <2>1. call.op \in {"insert", "erase", "assign"} /\ movesCannotThrow \in BOOLEAN
        BY <1>1 DEF Calls, IInv, TypeOK
    <2> QED
        BY <1>1, <2>1, StatementPlaces DEF IsUpdate
<1>3. /\ T.partEnds.items \in Seq(Item) /\ Len(T.partEnds.items) \in Nat
      /\ T.partEnds.capacity \in Nat /\ call.address \in Item
      /\ call.address \in Address /\ call.at \in Nat /\ call.at # 0
    BY <1>1, <1>2, TableAssumption, LenProperties
       DEF States, Vectors, Address, Item, Calls, Placed
<1> DEFINE x == [T EXCEPT !.partEnds = WithItem(@, call.at, call.address)]
           intact == If(Full(T.partEnds), T)
           InRange == call.at \in 1..(Len(T.partEnds.items) + 1)
\* The table with the statement done, of whatever members.
<1>4. InRange =>
          /\ x \in States /\ x.methods = T.methods /\ x.hashes = T.hashes
          /\ x.numSlots = T.numSlots /\ (x.slotsFit <=> T.slotsFit)
          /\ x.memo = T.memo /\ NothingNewer(x)
          /\ x.partEnds.items = InsertAt(T.partEnds.items, call.at, call.address)
          /\ Len(x.partEnds.items) = Len(T.partEnds.items) + 1
    <2> SUFFICES ASSUME InRange
                 PROVE  /\ x \in States /\ x.methods = T.methods /\ x.hashes = T.hashes
                        /\ x.numSlots = T.numSlots
                        /\ (x.slotsFit <=> T.slotsFit)
                        /\ x.memo = T.memo /\ NothingNewer(x)
                        /\ x.partEnds.items = InsertAt(T.partEnds.items, call.at, call.address)
                        /\ Len(x.partEnds.items) = Len(T.partEnds.items) + 1
        OBVIOUS
    <2>1. InsertAt(T.partEnds.items, call.at, call.address) \in Seq(Item)
          /\ Len(InsertAt(T.partEnds.items, call.at, call.address)) = Len(T.partEnds.items) + 1
        BY <1>3, Inserted
    <2>2. /\ WithItem(T.partEnds, call.at, call.address) \in Vectors
          /\ WithItem(T.partEnds, call.at, call.address).items = InsertAt(T.partEnds.items, call.at, call.address)
        <3>1. Max({2 * T.partEnds.capacity, 1}) \in Nat
            BY <1>3, Greater
        <3> QED
            BY <1>1, <1>3, <2>1, <3>1 DEF WithItem, Vectors, States
    <2>3. /\ x \in States /\ x.methods = T.methods /\ x.hashes = T.hashes
          /\ x.numSlots = T.numSlots /\ (x.slotsFit <=> T.slotsFit)
          /\ x.memo = T.memo /\ x.partEnds = WithItem(T.partEnds, call.at, call.address)
        BY <1>1, <2>2 DEF States
    <2> QED
        BY <1>1, <2>1, <2>2, <2>3 DEF NothingNewer
<1>5. \/ ~InRange /\ IsUndefined
      \/ InRange /\ Do("insertEnds", x, intact, {})
    BY <1>3 DEF InsertEnds, DoInRange
<1>6. intact \in SUBSET {T} /\ (~Full(T.partEnds) => intact = {})
    BY DEF If
<1> HIDE DEF x, intact, InRange
<1>7. CASE ~InRange
    <2>1. IsUndefined
        BY <1>5, <1>7
    <2>2. call.table \in halfDone
        <3> SUFFICES ASSUME call.table \notin halfDone PROVE FALSE
            BY <1>1 DEF Calls
        <3>1. HasChanged(call, "insertEnds", T)
            BY <1>1, <1>2 DEF Updates, BeforeChange
        <3>2. call.at \in Places(call, T.partEnds.items)
            BY <1>2, <3>1 DEF HasChanged, IsChanged
        <3> QED
            BY <1>2, <1>7, <3>2 DEF Places, InRange
    <2>3. /\ Becomes(T) /\ Returns("undefined")
          /\ halfDone' \in SUBSET Tables /\ halfDone \subseteq halfDone'
        BY <1>1, <2>1 DEF IsUndefined, Becomes, T, IInv, TypeOK, Calls
    <2> QED
        BY <1>1, <2>2, <2>3, HalfEnds
<1>8. CASE InRange /\ call.table \in halfDone
    <2>1. /\ intact \in SUBSET States /\ {} \in SUBSET States
          /\ \A y \in {x} \cup intact \cup {} : NothingNewer(y)
          /\ "insertEnds" \notin Ahead
        BY <1>1, <1>4, <1>6, <1>8 DEF Ahead
    <2> QED
        BY <1>1, <1>2, <1>4, <1>5, <1>8, <2>1, HalfDoes
<1>9. CASE InRange /\ call.table \notin halfDone
    <2>1. HasRoom(call, "insertEnds", T) /\ HasChanged(call, "insertEnds", T)
        BY <1>1, <1>2, <1>9 DEF Updates, BeforeChange
    <2>2. x.partEnds.items = T.methods.items
        BY <1>2, <1>4, <1>9, <2>1 DEF HasChanged, IsChanged, Changed
    <2>3. GoOn /\ Becomes(x) /\ UNCHANGED halfDone
        BY <1>2, <1>5, <1>6, <1>9, <2>1 DEF Do, HasRoom
    <2>4. HasRoom(call, "insertHash", x)
        BY <1>2, <1>4, <1>9, <2>1 DEF HasRoom, Full
    <2>5. HasChanged(call, "insertHash", x)
        <3>1. /\ Ordered(x) /\ NothingKept(x)
              /\ Range(x.methods.items) = Update(call)
              /\ Update(call) # call.before
            BY <1>4, <1>9, <2>1 DEF HasChanged, Ordered, NothingKept
        <3>2. IsChanged(call, x.methods.items, x.hashes.items)
              /\ x.slotsFit /\ Enough(x.numSlots, Len(x.hashes.items))
            BY <1>2, <1>4, <1>9, <2>1 DEF HasChanged
        <3> QED
            BY <1>2, <1>4, <1>9, <2>2, <3>1, <3>2 DEF HasChanged
    <2>6. Updates(call, "insertHash", x)
        BY <2>4, <2>5 DEF Updates, BeforeChange
    <2>7. /\ call.step # Len(Steps(call.op))
          /\ Steps(call.op)[call.step + 1] = "insertHash"
        BY <1>2 DEF Steps, InsertSteps
    <2> QED
        BY <1>1, <1>2, <1>4, <1>9, <2>3, <2>6, <2>7, UpdateWentOn
<1> QED
    BY <1>7, <1>8, <1>9

\* The hashes get that of the address.  In a whole table there is room, so this
\* cannot throw.
LEMMA InsertHashKeeps ==
    ASSUME IInv, InsertHash, UNCHANGED movesCannotThrow
    PROVE  IInv' /\ EndsWhole
<1>1. /\ ~AtRest /\ call \in Calls /\ Now(call) = "insertHash"
      /\ T \in States /\ NothingNewer(T)
      /\ call.step \in 1..Len(Steps(call.op))
      /\ IsUpdate(call) =>
            /\ call.address \in Address /\ Placed(call, "insertHash", T)
            /\ call.table \notin halfDone => Updates(call, "insertHash", T)
    BY Runs DEF InsertHash, DoInRange
<1>2. call.op = "insert" /\ movesCannotThrow /\ call.step = 8 /\ IsUpdate(call)
    <2>1. call.op \in {"insert", "erase", "assign"} /\ movesCannotThrow \in BOOLEAN
        BY <1>1 DEF Calls, IInv, TypeOK
    <2> QED
        BY <1>1, <2>1, StatementPlaces DEF IsUpdate
<1>3. /\ T.hashes.items \in Seq(Item) /\ Len(T.hashes.items) \in Nat
      /\ T.hashes.capacity \in Nat /\ call.address \in Item
      /\ call.address \in Address /\ call.at \in Nat /\ call.at # 0
    BY <1>1, <1>2, TableAssumption, LenProperties
       DEF States, Vectors, Address, Item, Calls, Placed
<1> DEFINE x == [T EXCEPT !.hashes = WithItem(@, call.at, call.address)]
           intact == If(Full(T.hashes), T)
           InRange == call.at \in 1..(Len(T.hashes.items) + 1)
\* The table with the statement done, of whatever members.
<1>4. InRange =>
          /\ x \in States /\ x.methods = T.methods /\ x.partEnds = T.partEnds
          /\ x.numSlots = T.numSlots /\ (x.slotsFit <=> T.slotsFit)
          /\ x.memo = T.memo /\ NothingNewer(x)
          /\ x.hashes.items = InsertAt(T.hashes.items, call.at, call.address)
          /\ Len(x.hashes.items) = Len(T.hashes.items) + 1
    <2> SUFFICES ASSUME InRange
                 PROVE  /\ x \in States /\ x.methods = T.methods /\ x.partEnds = T.partEnds
                        /\ x.numSlots = T.numSlots
                        /\ (x.slotsFit <=> T.slotsFit)
                        /\ x.memo = T.memo /\ NothingNewer(x)
                        /\ x.hashes.items = InsertAt(T.hashes.items, call.at, call.address)
                        /\ Len(x.hashes.items) = Len(T.hashes.items) + 1
        OBVIOUS
    <2>1. InsertAt(T.hashes.items, call.at, call.address) \in Seq(Item)
          /\ Len(InsertAt(T.hashes.items, call.at, call.address)) = Len(T.hashes.items) + 1
        BY <1>3, Inserted
    <2>2. /\ WithItem(T.hashes, call.at, call.address) \in Vectors
          /\ WithItem(T.hashes, call.at, call.address).items = InsertAt(T.hashes.items, call.at, call.address)
        <3>1. Max({2 * T.hashes.capacity, 1}) \in Nat
            BY <1>3, Greater
        <3> QED
            BY <1>1, <1>3, <2>1, <3>1 DEF WithItem, Vectors, States
    <2>3. /\ x \in States /\ x.methods = T.methods /\ x.partEnds = T.partEnds
          /\ x.numSlots = T.numSlots /\ (x.slotsFit <=> T.slotsFit)
          /\ x.memo = T.memo /\ x.hashes = WithItem(T.hashes, call.at, call.address)
        BY <1>1, <2>2 DEF States
    <2> QED
        BY <1>1, <2>1, <2>2, <2>3 DEF NothingNewer
<1>5. \/ ~InRange /\ IsUndefined
      \/ InRange /\ Do("insertHash", x, intact, {})
    BY <1>3 DEF InsertHash, DoInRange
<1>6. intact \in SUBSET {T} /\ (~Full(T.hashes) => intact = {})
    BY DEF If
<1> HIDE DEF x, intact, InRange
<1>7. CASE ~InRange
    <2>1. IsUndefined
        BY <1>5, <1>7
    <2>2. call.table \in halfDone
        <3> SUFFICES ASSUME call.table \notin halfDone PROVE FALSE
            BY <1>1 DEF Calls
        <3>1. HasChanged(call, "insertHash", T)
            BY <1>1, <1>2 DEF Updates, BeforeChange
        <3>2. call.at \in Places(call, T.hashes.items)
            BY <1>2, <3>1 DEF HasChanged, IsChanged
        <3> QED
            BY <1>2, <1>7, <3>2 DEF Places, InRange
    <2>3. /\ Becomes(T) /\ Returns("undefined")
          /\ halfDone' \in SUBSET Tables /\ halfDone \subseteq halfDone'
        BY <1>1, <2>1 DEF IsUndefined, Becomes, T, IInv, TypeOK, Calls
    <2> QED
        BY <1>1, <2>2, <2>3, HalfEnds
<1>8. CASE InRange /\ call.table \in halfDone
    <2>1. /\ intact \in SUBSET States /\ {} \in SUBSET States
          /\ \A y \in {x} \cup intact \cup {} : NothingNewer(y)
          /\ "insertHash" \notin Ahead
        BY <1>1, <1>4, <1>6, <1>8 DEF Ahead
    <2> QED
        BY <1>1, <1>2, <1>4, <1>5, <1>8, <2>1, HalfDoes
<1>9. CASE InRange /\ call.table \notin halfDone
    <2>1. HasRoom(call, "insertHash", T) /\ HasChanged(call, "insertHash", T)
        BY <1>1, <1>2, <1>9 DEF Updates, BeforeChange
    <2>2. x.hashes.items = T.methods.items
        BY <1>2, <1>4, <1>9, <2>1 DEF HasChanged, IsChanged, Changed
    <2>3. GoOn /\ Becomes(x) /\ UNCHANGED halfDone
        BY <1>2, <1>5, <1>6, <1>9, <2>1 DEF Do, HasRoom
    <2>4. HasRoom(call, "rebuild", x)
        BY <1>2, <1>4, <1>9, <2>1 DEF HasRoom, Full
    <2>5. HasChanged(call, "rebuild", x)
        <3>1. /\ Ordered(x) /\ NothingKept(x)
              /\ Range(x.methods.items) = Update(call)
              /\ Update(call) # call.before
            BY <1>4, <1>9, <2>1 DEF HasChanged, Ordered, NothingKept
        <3>2. x.partEnds.items = x.methods.items /\ x.slotsFit
            BY <1>2, <1>4, <1>9, <2>1 DEF HasChanged
        <3> QED
            BY <1>2, <1>4, <1>9, <2>2, <3>1, <3>2 DEF HasChanged
    <2>6. Updates(call, "rebuild", x)
        BY <2>4, <2>5 DEF Updates, BeforeChange
    <2>7. /\ call.step # Len(Steps(call.op))
          /\ Steps(call.op)[call.step + 1] = "rebuild"
        BY <1>2 DEF Steps, InsertSteps
    <2> QED
        BY <1>1, <1>2, <1>4, <1>9, <2>3, <2>6, <2>7, UpdateWentOn
<1> QED
    BY <1>7, <1>8, <1>9

\* The parts lose those of the address.
LEMMA EraseEndsKeeps ==
    ASSUME IInv, EraseEnds, UNCHANGED movesCannotThrow
    PROVE  IInv' /\ EndsWhole
<1>1. /\ ~AtRest /\ call \in Calls /\ Now(call) = "eraseEnds"
      /\ T \in States /\ NothingNewer(T)
      /\ call.step \in 1..Len(Steps(call.op))
      /\ IsUpdate(call) =>
            /\ call.address \in Address /\ Placed(call, "eraseEnds", T)
            /\ call.table \notin halfDone => Updates(call, "eraseEnds", T)
    BY Runs DEF EraseEnds, DoInRange
<1>2. call.op = "erase" /\ movesCannotThrow /\ call.step = 4 /\ IsUpdate(call)
    <2>1. call.op \in {"insert", "erase", "assign"} /\ movesCannotThrow \in BOOLEAN
        BY <1>1 DEF Calls, IInv, TypeOK
    <2> QED
        BY <1>1, <2>1, StatementPlaces DEF IsUpdate
<1>3. /\ T.partEnds.items \in Seq(Item) /\ Len(T.partEnds.items) \in Nat
      /\ T.partEnds.capacity \in Nat /\ call.address \in Item
      /\ call.address \in Address /\ call.at \in Nat /\ call.at # 0
    BY <1>1, <1>2, TableAssumption, LenProperties
       DEF States, Vectors, Address, Item, Calls, Placed
<1> DEFINE x == [T EXCEPT !.partEnds = WithoutItem(@, call.at)]
           intact == {}
           InRange == call.at \in 1..Len(T.partEnds.items)
\* The table with the statement done, of whatever members.
<1>4. InRange =>
          /\ x \in States /\ x.methods = T.methods /\ x.hashes = T.hashes
          /\ x.numSlots = T.numSlots /\ (x.slotsFit <=> T.slotsFit)
          /\ x.memo = T.memo /\ NothingNewer(x)
          /\ x.partEnds.items = RemoveAt(T.partEnds.items, call.at)
          /\ Len(x.partEnds.items) = Len(T.partEnds.items) - 1
    <2> SUFFICES ASSUME InRange
                 PROVE  /\ x \in States /\ x.methods = T.methods /\ x.hashes = T.hashes
                        /\ x.numSlots = T.numSlots
                        /\ (x.slotsFit <=> T.slotsFit)
                        /\ x.memo = T.memo /\ NothingNewer(x)
                        /\ x.partEnds.items = RemoveAt(T.partEnds.items, call.at)
                        /\ Len(x.partEnds.items) = Len(T.partEnds.items) - 1
        OBVIOUS
    <2>1. RemoveAt(T.partEnds.items, call.at) \in Seq(Item)
          /\ Len(RemoveAt(T.partEnds.items, call.at)) = Len(T.partEnds.items) - 1
        BY <1>3, Removed
    <2>2. /\ WithoutItem(T.partEnds, call.at) \in Vectors
          /\ WithoutItem(T.partEnds, call.at).items = RemoveAt(T.partEnds.items, call.at)
        BY <1>1, <2>1 DEF WithoutItem, Vectors, States
    <2>3. /\ x \in States /\ x.methods = T.methods /\ x.hashes = T.hashes
          /\ x.numSlots = T.numSlots /\ (x.slotsFit <=> T.slotsFit)
          /\ x.memo = T.memo /\ x.partEnds = WithoutItem(T.partEnds, call.at)
        BY <1>1, <2>2 DEF States
    <2> QED
        BY <1>1, <2>1, <2>2, <2>3 DEF NothingNewer
<1>5. \/ ~InRange /\ IsUndefined
      \/ InRange /\ Do("eraseEnds", x, intact, {})
    BY <1>3 DEF EraseEnds, DoInRange
<1>6. intact \in SUBSET {T} /\ intact = {}
    BY DEF If
<1> HIDE DEF x, intact, InRange
<1>7. CASE ~InRange
    <2>1. IsUndefined
        BY <1>5, <1>7
    <2>2. call.table \in halfDone
        <3> SUFFICES ASSUME call.table \notin halfDone PROVE FALSE
            BY <1>1 DEF Calls
        <3>1. HasChanged(call, "eraseEnds", T)
            BY <1>1, <1>2 DEF Updates, BeforeChange
        <3>2. call.at \in Places(call, T.partEnds.items)
            BY <1>2, <3>1 DEF HasChanged, IsChanged
        <3> QED
            BY <1>2, <1>7, <3>2 DEF Places, InRange
    <2>3. /\ Becomes(T) /\ Returns("undefined")
          /\ halfDone' \in SUBSET Tables /\ halfDone \subseteq halfDone'
        BY <1>1, <2>1 DEF IsUndefined, Becomes, T, IInv, TypeOK, Calls
    <2> QED
        BY <1>1, <2>2, <2>3, HalfEnds
<1>8. CASE InRange /\ call.table \in halfDone
    <2>1. /\ intact \in SUBSET States /\ {} \in SUBSET States
          /\ \A y \in {x} \cup intact \cup {} : NothingNewer(y)
          /\ "eraseEnds" \notin Ahead
        BY <1>1, <1>4, <1>6, <1>8 DEF Ahead
    <2> QED
        BY <1>1, <1>2, <1>4, <1>5, <1>8, <2>1, HalfDoes
<1>9. CASE InRange /\ call.table \notin halfDone
    <2>1. HasRoom(call, "eraseEnds", T) /\ HasChanged(call, "eraseEnds", T)
        BY <1>1, <1>2, <1>9 DEF Updates, BeforeChange
    <2>2. x.partEnds.items = T.methods.items
        BY <1>2, <1>4, <1>9, <2>1 DEF HasChanged, IsChanged, Changed
    <2>3. GoOn /\ Becomes(x) /\ UNCHANGED halfDone
        BY <1>2, <1>5, <1>6, <1>9, <2>1 DEF Do, HasRoom
    <2>4. HasRoom(call, "eraseHash", x)
        BY <1>2, <1>4, <1>9, <2>1 DEF HasRoom, Full
    <2>5. HasChanged(call, "eraseHash", x)
        <3>1. /\ Ordered(x) /\ NothingKept(x)
              /\ Range(x.methods.items) = Update(call)
              /\ Update(call) # call.before
            BY <1>4, <1>9, <2>1 DEF HasChanged, Ordered, NothingKept
        <3>2. IsChanged(call, x.methods.items, x.hashes.items)
              /\ x.slotsFit /\ Enough(x.numSlots, Len(x.hashes.items))
            BY <1>2, <1>4, <1>9, <2>1 DEF HasChanged
        <3> QED
            BY <1>2, <1>4, <1>9, <2>2, <3>1, <3>2 DEF HasChanged
    <2>6. Updates(call, "eraseHash", x)
        BY <2>4, <2>5 DEF Updates, BeforeChange
    <2>7. /\ call.step # Len(Steps(call.op))
          /\ Steps(call.op)[call.step + 1] = "eraseHash"
        BY <1>2 DEF Steps, EraseSteps
    <2> QED
        BY <1>1, <1>2, <1>4, <1>9, <2>3, <2>6, <2>7, UpdateWentOn
<1> QED
    BY <1>7, <1>8, <1>9

\* The hashes lose that of the address.
LEMMA EraseHashKeeps ==
    ASSUME IInv, EraseHash, UNCHANGED movesCannotThrow
    PROVE  IInv' /\ EndsWhole
<1>1. /\ ~AtRest /\ call \in Calls /\ Now(call) = "eraseHash"
      /\ T \in States /\ NothingNewer(T)
      /\ call.step \in 1..Len(Steps(call.op))
      /\ IsUpdate(call) =>
            /\ call.address \in Address /\ Placed(call, "eraseHash", T)
            /\ call.table \notin halfDone => Updates(call, "eraseHash", T)
    BY Runs DEF EraseHash, DoInRange
<1>2. call.op = "erase" /\ movesCannotThrow /\ call.step = 5 /\ IsUpdate(call)
    <2>1. call.op \in {"insert", "erase", "assign"} /\ movesCannotThrow \in BOOLEAN
        BY <1>1 DEF Calls, IInv, TypeOK
    <2> QED
        BY <1>1, <2>1, StatementPlaces DEF IsUpdate
<1>3. /\ T.hashes.items \in Seq(Item) /\ Len(T.hashes.items) \in Nat
      /\ T.hashes.capacity \in Nat /\ call.address \in Item
      /\ call.address \in Address /\ call.at \in Nat /\ call.at # 0
    BY <1>1, <1>2, TableAssumption, LenProperties
       DEF States, Vectors, Address, Item, Calls, Placed
<1> DEFINE x == [T EXCEPT !.hashes = WithoutItem(@, call.at)]
           intact == {}
           InRange == call.at \in 1..Len(T.hashes.items)
\* The table with the statement done, of whatever members.
<1>4. InRange =>
          /\ x \in States /\ x.methods = T.methods /\ x.partEnds = T.partEnds
          /\ x.numSlots = T.numSlots /\ (x.slotsFit <=> T.slotsFit)
          /\ x.memo = T.memo /\ NothingNewer(x)
          /\ x.hashes.items = RemoveAt(T.hashes.items, call.at)
          /\ Len(x.hashes.items) = Len(T.hashes.items) - 1
    <2> SUFFICES ASSUME InRange
                 PROVE  /\ x \in States /\ x.methods = T.methods /\ x.partEnds = T.partEnds
                        /\ x.numSlots = T.numSlots
                        /\ (x.slotsFit <=> T.slotsFit)
                        /\ x.memo = T.memo /\ NothingNewer(x)
                        /\ x.hashes.items = RemoveAt(T.hashes.items, call.at)
                        /\ Len(x.hashes.items) = Len(T.hashes.items) - 1
        OBVIOUS
    <2>1. RemoveAt(T.hashes.items, call.at) \in Seq(Item)
          /\ Len(RemoveAt(T.hashes.items, call.at)) = Len(T.hashes.items) - 1
        BY <1>3, Removed
    <2>2. /\ WithoutItem(T.hashes, call.at) \in Vectors
          /\ WithoutItem(T.hashes, call.at).items = RemoveAt(T.hashes.items, call.at)
        BY <1>1, <2>1 DEF WithoutItem, Vectors, States
    <2>3. /\ x \in States /\ x.methods = T.methods /\ x.partEnds = T.partEnds
          /\ x.numSlots = T.numSlots /\ (x.slotsFit <=> T.slotsFit)
          /\ x.memo = T.memo /\ x.hashes = WithoutItem(T.hashes, call.at)
        BY <1>1, <2>2 DEF States
    <2> QED
        BY <1>1, <2>1, <2>2, <2>3 DEF NothingNewer
<1>5. \/ ~InRange /\ IsUndefined
      \/ InRange /\ Do("eraseHash", x, intact, {})
    BY <1>3 DEF EraseHash, DoInRange
<1>6. intact \in SUBSET {T} /\ intact = {}
    BY DEF If
<1> HIDE DEF x, intact, InRange
<1>7. CASE ~InRange
    <2>1. IsUndefined
        BY <1>5, <1>7
    <2>2. call.table \in halfDone
        <3> SUFFICES ASSUME call.table \notin halfDone PROVE FALSE
            BY <1>1 DEF Calls
        <3>1. HasChanged(call, "eraseHash", T)
            BY <1>1, <1>2 DEF Updates, BeforeChange
        <3>2. call.at \in Places(call, T.hashes.items)
            BY <1>2, <3>1 DEF HasChanged, IsChanged
        <3> QED
            BY <1>2, <1>7, <3>2 DEF Places, InRange
    <2>3. /\ Becomes(T) /\ Returns("undefined")
          /\ halfDone' \in SUBSET Tables /\ halfDone \subseteq halfDone'
        BY <1>1, <2>1 DEF IsUndefined, Becomes, T, IInv, TypeOK, Calls
    <2> QED
        BY <1>1, <2>2, <2>3, HalfEnds
<1>8. CASE InRange /\ call.table \in halfDone
    <2>1. /\ intact \in SUBSET States /\ {} \in SUBSET States
          /\ \A y \in {x} \cup intact \cup {} : NothingNewer(y)
          /\ "eraseHash" \notin Ahead
        BY <1>1, <1>4, <1>6, <1>8 DEF Ahead
    <2> QED
        BY <1>1, <1>2, <1>4, <1>5, <1>8, <2>1, HalfDoes
<1>9. CASE InRange /\ call.table \notin halfDone
    <2>1. HasRoom(call, "eraseHash", T) /\ HasChanged(call, "eraseHash", T)
        BY <1>1, <1>2, <1>9 DEF Updates, BeforeChange
    <2>2. x.hashes.items = T.methods.items
        BY <1>2, <1>4, <1>9, <2>1 DEF HasChanged, IsChanged, Changed
    <2>3. GoOn /\ Becomes(x) /\ UNCHANGED halfDone
        BY <1>2, <1>5, <1>6, <1>9, <2>1 DEF Do, HasRoom
    <2>4. HasRoom(call, "rebuild", x)
        BY <1>2, <1>4, <1>9, <2>1 DEF HasRoom, Full
    <2>5. HasChanged(call, "rebuild", x)
        <3>1. /\ Ordered(x) /\ NothingKept(x)
              /\ Range(x.methods.items) = Update(call)
              /\ Update(call) # call.before
            BY <1>4, <1>9, <2>1 DEF HasChanged, Ordered, NothingKept
        <3>2. x.partEnds.items = x.methods.items /\ x.slotsFit
              /\ Enough(x.numSlots, Len(x.hashes.items))
            BY <1>1, <1>2, <1>3, <1>4, <1>9, <2>1 DEF HasChanged, Enough, States
        <3> QED
            BY <1>2, <1>4, <1>9, <2>2, <3>1, <3>2 DEF HasChanged
    <2>6. Updates(call, "rebuild", x)
        BY <2>4, <2>5 DEF Updates, BeforeChange
    <2>7. /\ call.step # Len(Steps(call.op))
          /\ Steps(call.op)[call.step + 1] = "rebuild"
        BY <1>2 DEF Steps, EraseSteps
    <2> QED
        BY <1>1, <1>2, <1>4, <1>9, <2>3, <2>6, <2>7, UpdateWentOn
<1> QED
    BY <1>7, <1>8, <1>9

\* The last statement brings the slots up to the entries, or leaves none.
LEMMA RebuildKeeps ==
    ASSUME IInv, Rebuild, UNCHANGED movesCannotThrow
    PROVE  IInv' /\ EndsWhole
<1>1. /\ ~AtRest /\ call \in Calls /\ Now(call) = "rebuild"
      /\ T \in States /\ NothingNewer(T)
      /\ call.step \in 1..Len(Steps(call.op))
      /\ IsUpdate(call) =>
            /\ call.address \in Address
            /\ call.table \notin halfDone => Updates(call, "rebuild", T)
    BY Runs DEF Rebuild, Do
<1>2. IsUpdate(call) /\ movesCannotThrow
      /\ call.step = IF call.op = "insert" THEN 9 ELSE 6
    <2>1. call.op \in {"insert", "erase", "assign"} /\ movesCannotThrow \in BOOLEAN
        BY <1>1 DEF Calls, IInv, TypeOK
    <2> QED
        BY <1>1, <2>1, StatementPlaces
<1>3. call.step = Len(Steps(call.op))
    BY <1>2 DEF IsUpdate, Steps, InsertSteps, EraseSteps
<1>4. T.hashes.items \in Seq(Item) /\ Len(T.hashes.items) \in Nat /\ T.numSlots \in Nat
    BY <1>1, LenProperties DEF States, Vectors
<1> DEFINE numSlots == SlotsFor(Len(T.hashes.items))
           done == IF NeedsRebuild THEN WithSlots(T, numSlots) ELSE T
           half == WithSlots(T, 0)
           intact == If(NeedsRebuild, half)
<1>5. numSlots \in Nat /\ numSlots >= 2 * Len(T.hashes.items)
    BY <1>4, TwoSlotsForEach
<1>6. \/ Do("rebuild", done, intact, {})
      \/ Running("rebuild") /\ ~NeedsRebuild /\ ~T.slotsFit /\ IsUndefined
    BY DEF Rebuild
<1>7. intact \in SUBSET {half}
    BY DEF If
<1> HIDE DEF numSlots
\* What a rebuild leaves alone, and what it makes.
<1>8. \A n \in Nat :
         LET x == WithSlots(T, n)
         IN  /\ x \in States /\ x.methods = T.methods
             /\ x.partEnds = T.partEnds /\ x.hashes = T.hashes
             /\ x.memo = T.memo /\ x.numSlots = n /\ x.slotsFit
    BY <1>1 DEF States, WithSlots
<1>9. /\ done \in States /\ done.methods = T.methods
      /\ done.partEnds = T.partEnds /\ done.hashes = T.hashes
      /\ done.memo = T.memo
      /\ NeedsRebuild => done.numSlots = numSlots /\ done.slotsFit
      /\ ~NeedsRebuild => done = T
    BY <1>1, <1>5, <1>8
<1>10. /\ half \in States /\ half.methods = T.methods
       /\ half.partEnds = T.partEnds /\ half.hashes = T.hashes
       /\ half.memo = T.memo /\ half.numSlots = 0 /\ half.slotsFit
    BY <1>8
<1>11. NothingNewer(done) /\ NothingNewer(half)
    BY <1>1, <1>9, <1>10 DEF NothingNewer
<1> HIDE DEF done, half, intact
<1>12. CASE call.table \in halfDone
    <2>1. CASE Do("rebuild", done, intact, {})
        <3>1. /\ intact \in SUBSET States /\ {} \in SUBSET States
              /\ \A y \in {done} \cup intact \cup {} : NothingNewer(y)
              /\ "rebuild" \notin Ahead
            BY <1>7, <1>10, <1>11 DEF Ahead
        <3> QED
            BY <1>2, <1>9, <1>12, <2>1, <3>1, HalfDoes
    <2>2. CASE IsUndefined
        <3>1. /\ Becomes(T) /\ Returns("undefined")
              /\ halfDone' \in SUBSET Tables /\ halfDone \subseteq halfDone'
            BY <1>1, <2>2 DEF IsUndefined, Becomes, T, IInv, TypeOK, Calls
        <3> QED
            BY <1>1, <1>12, <3>1, HalfEnds
    <2> QED
        BY <1>6, <2>1, <2>2
<1>13. CASE call.table \notin halfDone
    <2>1. HasChanged(call, "rebuild", T)
        BY <1>1, <1>2, <1>13 DEF Updates, BeforeChange
\* With enough slots the members of the table agree again.
    <2>2. ASSUME NEW x \in States, x.methods = T.methods, x.partEnds = T.partEnds,
                 x.hashes = T.hashes, x.memo = T.memo, x.slotsFit,
                 Enough(x.numSlots, Len(T.hashes.items))
          PROVE  /\ Agrees(x) /\ Remembers(x) /\ NothingNewer(x)
                 /\ Range(x.methods.items) = Update(call)
                 /\ Update(call) # call.before
        <3>1. /\ Ordered(x) /\ NothingKept(x)
              /\ x.hashes.items = x.methods.items
              /\ x.partEnds.items = x.methods.items
              /\ Range(x.methods.items) = Update(call)
              /\ Update(call) # call.before
            BY <1>2, <2>1, <2>2 DEF HasChanged, Ordered, NothingKept
        <3>2. x.memo.generation \in Nat
              /\ \A p \in Patterns : x.memo.buckets[p].generation \in Nat
            BY DEF States, Memos
        <3>3. Remembers(x) /\ NothingNewer(x)
            BY <3>1, <3>2 DEF Remembers, NothingKept, NothingNewer
        <3> QED
            BY <1>2, <2>2, <3>1, <3>3 DEF Agrees
    <2>3. done.slotsFit /\ Enough(done.numSlots, Len(T.hashes.items))
        <3>1. CASE NeedsRebuild
            BY <1>5, <1>9, <3>1 DEF Enough
        <3>2. CASE ~NeedsRebuild
            BY <1>2, <1>4, <1>9, <2>1, <3>2
               DEF NeedsRebuild, HasChanged, Enough, IsUpdate
        <3> QED
            BY <3>1, <3>2
    <2>4. ASSUME GoOn, Becomes(done), UNCHANGED halfDone PROVE IInv' /\ EndsWhole
        <3>1. /\ Agrees(done) /\ Remembers(done) /\ NothingNewer(done)
              /\ Range(done.methods.items) = Update(call)
              /\ Update(call) # call.before
            BY <1>9, <2>2, <2>3
        <3> QED
            BY <1>1, <1>2, <1>3, <1>9, <1>13, <2>4, <3>1, UpdateReturned
    <2>5. ASSUME Returns("threw"), Becomes(half), UNCHANGED halfDone
          PROVE  IInv' /\ EndsWhole
        <3>1. Enough(half.numSlots, Len(T.hashes.items))
            BY <1>10 DEF Enough
        <3>2. /\ Sound(half) /\ NothingNewer(half)
              /\ Range(half.methods.items) = Update(call)
            BY <1>10, <2>2, <3>1 DEF Sound
        <3>3. halfDone' \in SUBSET Tables
            BY <2>5 DEF IInv, TypeOK
        <3>4. IInv' /\ AtRest' /\ table'[call.table] = half /\ call'.outcome = "threw"
            BY <1>1, <1>10, <2>5, <3>2, <3>3, Ended
        <3>5. After = Update(call)
            BY <1>2 DEF After, Update, IsUpdate
        <3>6. call.before \subseteq Range(half.methods.items) \cup {call.address}
            BY <3>2 DEF Update
        <3> QED
            BY <1>1, <1>2, <1>13, <2>5, <3>2, <3>4, <3>5, <3>6 DEF EndsWhole
    <2>6. \/ GoOn /\ Becomes(done) /\ UNCHANGED halfDone
          \/ Returns("threw") /\ Becomes(half) /\ UNCHANGED halfDone
        BY <1>6, <1>7, <2>1 DEF Do, Throws, HasChanged
    <2> QED
        BY <2>4, <2>5, <2>6
<1> QED
    BY <1>12, <1>13

-----------------------------------------------------------------------------
\* The statements of an assignment.

\* What is known of an assignment at a statement.
LEMMA AssignRuns ==
    ASSUME IInv, NEW k \in 1..5, Running(AssignSteps[k])
    PROVE  /\ ~AtRest /\ call \in Calls /\ T \in States /\ NothingNewer(T)
           /\ Source \in States /\ NothingNewer(Source)
           /\ call.op = "assign" /\ call.step = k
           /\ Assigns(call, k, T, Source)
<1>1. AssignSteps[k] \in {"methods", "partEnds", "hashes", "slots", "memo"}
      /\ \A j \in 1..5 : AssignSteps[j] = AssignSteps[k] => j = k
    BY DEF AssignSteps
<1>2. /\ ~AtRest /\ call \in Calls /\ Now(call) = AssignSteps[k]
      /\ T \in States /\ NothingNewer(T)
      /\ Source \in States /\ NothingNewer(Source)
      /\ call.step \in 1..Len(Steps(call.op))
    <2> HIDE DEF AssignSteps
    <2> QED
        BY Runs
<1>3. call.op = "assign"
    <2>1. call.op \in {"insert", "erase", "assign"} /\ movesCannotThrow \in BOOLEAN
        BY <1>2 DEF Calls, IInv, TypeOK
    <2> QED
        BY <1>1, <1>2, <2>1, StatementPlaces
<1>4. call.step = k
    <2>1. call.step \in 1..5 /\ AssignSteps[call.step] = AssignSteps[k]
        BY <1>2, <1>3 DEF Now, Steps, AssignSteps
    <2> QED
        BY <1>1, <2>1
<1>5. Assigns(call, k, T, Source)
    BY <1>2, <1>3, <1>4 DEF IInv, Underway
<1> QED
    BY <1>2, <1>3, <1>4, <1>5

\* An assignment that goes on keeps the invariant if what is copied so far is.
LEMMA AssignWentOn ==
    ASSUME IInv, ~AtRest, call.op = "assign", NEW x \in States, NothingNewer(x),
           call.step \in 1..4, Assigns(call, call.step + 1, x, Source),
           GoOn, Becomes(x), UNCHANGED <<movesCannotThrow, halfDone>>
    PROVE  IInv' /\ EndsWhole
<1>1. call.step # Len(Steps(call.op))
    BY DEF Steps, AssignSteps
<1>2. /\ TypeOK' /\ Settled' /\ ~AtRest' /\ T' = x
      /\ call.source # call.table => Source' = Source
      /\ call'.op = call.op /\ call'.table = call.table
      /\ call'.source = call.source /\ call'.step = call.step + 1
      /\ call'.step \in 1..Len(Steps(call.op)')
    BY <1>1, WentOn
<1>3. Assigns(call, call.step, T, Source)'
    BY <1>2 DEF Assigns
<1>4. Underway'
    BY <1>2, <1>3 DEF Underway, IsUpdate
<1> QED
    BY <1>2, <1>4 DEF IInv, EndsWhole

\* An assignment that throws may leave its table half done.
LEMMA AssignThrew ==
    ASSUME IInv, ~AtRest, call.op = "assign", NEW x \in States, NothingNewer(x),
           Throws, Becomes(x), halfDone' = halfDone \cup {call.table},
           UNCHANGED movesCannotThrow
    PROVE  IInv' /\ EndsWhole
<1>1. /\ Returns("threw") /\ halfDone' \in SUBSET Tables
      /\ call.table \in halfDone'
    BY AtRestOrRunning DEF Throws, IInv, TypeOK, Calls
<1>2. IInv' /\ AtRest' /\ table'[call.table] = x
    BY <1>1, Ended
<1> QED
    BY <1>1, <1>2 DEF EndsWhole

\* The methods are copied, or some of them, or none.
LEMMA AssignMethodsKeeps ==
    ASSUME IInv, AssignMethods, UNCHANGED movesCannotThrow
    PROVE  IInv' /\ EndsWhole
<1>1. /\ ~AtRest /\ call \in Calls /\ T \in States /\ NothingNewer(T)
      /\ Source \in States /\ NothingNewer(Source)
      /\ call.op = "assign" /\ call.step = 1
      /\ Assigns(call, 1, T, Source)
    <2>1. AssignSteps[1] = "methods"
        BY DEF AssignSteps
    <2>2. Running(AssignSteps[1])
        BY <2>1 DEF AssignMethods, Do
    <2> QED
        BY <2>2, AssignRuns
<1> DEFINE x == [T EXCEPT !.methods = Copied(@, Source.methods)]
           lists == HalfCopied(T.methods, Source.methods)
           halves == {[T EXCEPT !.methods.items = list] :
                         list \in lists \ {T.methods.items}}
<1>2. /\ Copied(T.methods, Source.methods) \in Vectors
      /\ Copied(T.methods, Source.methods).items = Source.methods.items
      /\ HalfCopied(T.methods, Source.methods) \subseteq Seq(Item)
    BY <1>1, CopiesAreVectors DEF States
<1>3. /\ x \in States /\ x.methods.items = Source.methods.items
      /\ x.memo = T.memo
    BY <1>1, <1>2 DEF States
<1>4. \/ GoOn /\ Becomes(x) /\ UNCHANGED halfDone
      \/ Throws /\ Becomes(T) /\ UNCHANGED halfDone
      \/ \E y \in halves : /\ Throws /\ Becomes(y)
                           /\ halfDone' = halfDone \cup {call.table}
    BY DEF AssignMethods, Do, If
<1>5. \A y \in halves : y \in States /\ y.memo = T.memo
    <2> SUFFICES ASSUME NEW list \in lists, NEW y,
                        y = [T EXCEPT !.methods.items = list]
                 PROVE  y \in States /\ y.memo = T.memo
        OBVIOUS
    <2>1. list \in Seq(Item)
        BY <1>2
    <2> HIDE DEF lists
    <2> QED
        BY <1>1, <2>1 DEF States, Vectors
<1> HIDE DEF x, lists, halves
<1>6. ASSUME GoOn, Becomes(x), UNCHANGED halfDone PROVE IInv' /\ EndsWhole
    <2>1. Assigns(call, 2, x, Source) /\ NothingNewer(x)
        BY <1>1, <1>3 DEF Assigns, NothingNewer
    <2> QED
        BY <1>1, <1>3, <1>6, <2>1, AssignWentOn
<1>7. ASSUME Throws, Becomes(T), UNCHANGED halfDone PROVE IInv' /\ EndsWhole
    <2>1. Returns("threw") /\ halfDone' \in SUBSET Tables
        BY <1>7 DEF Throws, IInv, TypeOK
    <2>2. call.table \notin halfDone => Sound(T)
        BY <1>1 DEF Assigns
    <2>3. Range(T.methods.items) = call.before
        BY <1>1 DEF Assigns
    <2>4. IInv' /\ AtRest' /\ table'[call.table] = T /\ call'.outcome = "threw"
        BY <1>1, <1>7, <2>1, <2>2, Ended
    <2> QED
        BY <1>1, <2>3, <2>4 DEF EndsWhole
<1>8. ASSUME NEW y \in halves, Throws, Becomes(y),
             halfDone' = halfDone \cup {call.table}
      PROVE  IInv' /\ EndsWhole
    <2>1. NothingNewer(y) /\ y \in States
        BY <1>1, <1>5 DEF NothingNewer
    <2> QED
        BY <1>1, <1>8, <2>1, AssignThrew
<1> QED
    BY <1>4, <1>6, <1>7, <1>8

\* The parts are copied, or some of them.
LEMMA AssignEndsKeeps ==
    ASSUME IInv, AssignEnds, UNCHANGED movesCannotThrow
    PROVE  IInv' /\ EndsWhole
<1>1. /\ ~AtRest /\ call \in Calls /\ T \in States /\ NothingNewer(T)
      /\ Source \in States /\ NothingNewer(Source)
      /\ call.op = "assign" /\ call.step = 2
      /\ Assigns(call, 2, T, Source)
    <2>1. AssignSteps[2] = "partEnds"
        BY DEF AssignSteps
    <2>2. Running(AssignSteps[2])
        BY <2>1 DEF AssignEnds, Do
    <2> QED
        BY <2>2, AssignRuns
<1> DEFINE x == [T EXCEPT !.partEnds = Copied(@, Source.partEnds)]
<1>2. /\ Copied(T.partEnds, Source.partEnds) \in Vectors
      /\ Copied(T.partEnds, Source.partEnds).items = Source.partEnds.items
      /\ HalfCopied(T.partEnds, Source.partEnds) \subseteq Seq(Item)
    BY <1>1, CopiesAreVectors DEF States
<1>3. /\ x \in States /\ x.partEnds.items = Source.partEnds.items
      /\ x.methods = T.methods /\ x.memo = T.memo
    BY <1>1, <1>2 DEF States
<1>4. \/ GoOn /\ Becomes(x) /\ UNCHANGED halfDone
      \/ \E list \in HalfCopied(T.partEnds, Source.partEnds) :
            /\ Throws /\ Becomes([T EXCEPT !.partEnds.items = list])
            /\ halfDone' = halfDone \cup {call.table}
    BY DEF AssignEnds, Do
<1> HIDE DEF x
<1>5. ASSUME GoOn, Becomes(x), UNCHANGED halfDone PROVE IInv' /\ EndsWhole
    <2>1. Assigns(call, 3, x, Source) /\ NothingNewer(x)
        BY <1>1, <1>3 DEF Assigns, NothingNewer
    <2> QED
        BY <1>1, <1>3, <1>5, <2>1, AssignWentOn
<1>6. ASSUME NEW list \in HalfCopied(T.partEnds, Source.partEnds), Throws,
             Becomes([T EXCEPT !.partEnds.items = list]),
             halfDone' = halfDone \cup {call.table}
      PROVE  IInv' /\ EndsWhole
    <2> DEFINE y == [T EXCEPT !.partEnds.items = list]
    <2>1. list \in Seq(Item)
        BY <1>2
    <2>2. y \in States /\ y.memo = T.memo
        BY <1>1, <2>1 DEF States, Vectors
    <2>3. Becomes(y)
        BY <1>6
    <2> HIDE DEF y
    <2>4. NothingNewer(y)
        BY <1>1, <2>2 DEF NothingNewer
    <2> QED
        BY <1>1, <1>6, <2>2, <2>3, <2>4, AssignThrew
<1> QED
    BY <1>4, <1>5, <1>6

\* The hashes are copied, or none.
LEMMA AssignHashesKeeps ==
    ASSUME IInv, AssignHashes, UNCHANGED movesCannotThrow
    PROVE  IInv' /\ EndsWhole
<1>1. /\ ~AtRest /\ call \in Calls /\ T \in States /\ NothingNewer(T)
      /\ Source \in States /\ NothingNewer(Source)
      /\ call.op = "assign" /\ call.step = 3
      /\ Assigns(call, 3, T, Source)
    <2>1. AssignSteps[3] = "hashes"
        BY DEF AssignSteps
    <2>2. Running(AssignSteps[3])
        BY <2>1 DEF AssignHashes, Do
    <2> QED
        BY <2>2, AssignRuns
<1> DEFINE sameHashes == T.slotsFit /\ T.hashes.items = Source.hashes.items
           fit == sameHashes \/ T.numSlots = 0
           x == [T EXCEPT !.hashes = Copied(@, Source.hashes), !.slotsFit = fit]
<1>2. /\ Copied(T.hashes, Source.hashes) \in Vectors
      /\ Copied(T.hashes, Source.hashes).items = Source.hashes.items
    BY <1>1, CopiesAreVectors DEF States
<1>3. fit \in BOOLEAN
    OBVIOUS
<1>4. \/ GoOn /\ Becomes(x) /\ UNCHANGED halfDone
      \/ /\ Throws /\ Becomes(T)
         /\ halfDone' = halfDone \cup {call.table}
    BY DEF AssignHashes, Do, If
<1> HIDE DEF sameHashes, fit
<1>5. /\ x \in States /\ x.hashes.items = Source.hashes.items
      /\ x.methods = T.methods /\ x.partEnds = T.partEnds /\ x.memo = T.memo
    BY <1>1, <1>2, <1>3 DEF States
<1> HIDE DEF x
<1>6. ASSUME GoOn, Becomes(x), UNCHANGED halfDone PROVE IInv' /\ EndsWhole
    <2>1. Assigns(call, 4, x, Source) /\ NothingNewer(x)
        BY <1>1, <1>5 DEF Assigns, NothingNewer
    <2> QED
        BY <1>1, <1>5, <1>6, <2>1, AssignWentOn
<1> QED
    BY <1>1, <1>4, <1>6, AssignThrew

\* The slots are copied, or none.
LEMMA AssignSlotsKeeps ==
    ASSUME IInv, AssignSlots, UNCHANGED movesCannotThrow
    PROVE  IInv' /\ EndsWhole
<1>1. /\ ~AtRest /\ call \in Calls /\ T \in States /\ NothingNewer(T)
      /\ Source \in States /\ NothingNewer(Source)
      /\ call.op = "assign" /\ call.step = 4
      /\ Assigns(call, 4, T, Source)
    <2>1. AssignSteps[4] = "slots"
        BY DEF AssignSteps
    <2>2. Running(AssignSteps[4])
        BY <2>1 DEF AssignSlots, Do
    <2> QED
        BY <2>2, AssignRuns
<1> DEFINE x == [T EXCEPT !.numSlots = Source.numSlots,
                          !.slotsFit = Source.slotsFit]
<1>2. /\ x \in States /\ x.numSlots = Source.numSlots /\ x.hashes = T.hashes
      /\ (x.slotsFit <=> Source.slotsFit)
      /\ x.methods = T.methods /\ x.partEnds = T.partEnds /\ x.memo = T.memo
    BY <1>1 DEF States
<1>3. \/ GoOn /\ Becomes(x) /\ UNCHANGED halfDone
      \/ /\ Throws /\ Becomes(T)
         /\ halfDone' = halfDone \cup {call.table}
    BY DEF AssignSlots, Do, If
<1> HIDE DEF x
<1>4. ASSUME GoOn, Becomes(x), UNCHANGED halfDone PROVE IInv' /\ EndsWhole
    <2>1. Assigns(call, 5, x, Source) /\ NothingNewer(x)
        BY <1>1, <1>2 DEF Assigns, NothingNewer
    <2> QED
        BY <1>1, <1>2, <1>4, <2>1, AssignWentOn
<1> QED
    BY <1>1, <1>3, <1>4, AssignThrew

\* With the memo the table is a copy of its source, and half done only if that is.
LEMMA AssignMemoKeeps ==
    ASSUME IInv, AssignMemo, UNCHANGED movesCannotThrow
    PROVE  IInv' /\ EndsWhole
<1>1. /\ ~AtRest /\ call \in Calls /\ T \in States /\ NothingNewer(T)
      /\ Source \in States /\ NothingNewer(Source)
      /\ call.op = "assign" /\ call.step = 5
      /\ Assigns(call, 5, T, Source)
    <2>1. AssignSteps[5] = "memo"
        BY DEF AssignSteps
    <2>2. Running(AssignSteps[5])
        BY <2>1 DEF AssignMemo
    <2> QED
        BY <2>2, AssignRuns
<1> DEFINE x == [T EXCEPT !.memo = Source.memo]
<1>2. \/ /\ GoOn /\ Becomes(x)
         /\ halfDone' = HalfDoneAs(call.table, call.source)
      \/ /\ Throws /\ Becomes(T)
         /\ halfDone' = halfDone \cup {call.table}
    BY <1>1 DEF AssignMemo, Becomes, T, IInv, TypeOK, Calls
<1>3. /\ x \in States /\ x.memo = Source.memo
      /\ x.methods.items = Source.methods.items
      /\ x.partEnds.items = Source.partEnds.items
      /\ x.hashes.items = Source.hashes.items /\ x.numSlots = Source.numSlots
      /\ (x.slotsFit <=> Source.slotsFit)
    <2>1. /\ x.memo = Source.memo /\ x.methods = T.methods
          /\ x.partEnds = T.partEnds /\ x.hashes = T.hashes
          /\ x.numSlots = T.numSlots /\ x.slotsFit = T.slotsFit
        BY <1>1 DEF States
    <2>2. x \in States
        BY <1>1 DEF States
    <2> QED
        BY <1>1, <2>1, <2>2 DEF Assigns
<1> HIDE DEF x
<1>4. call.source \notin halfDone => Sound(Source)
    BY <1>1 DEF IInv, Settled, Source, Assigns, Calls
<1>5. ASSUME GoOn, Becomes(x), halfDone' = HalfDoneAs(call.table, call.source)
      PROVE  IInv' /\ EndsWhole
    <2>1. /\ Returns("true") /\ halfDone' \in SUBSET Tables
          /\ \A u \in Tables : u # call.table /\ u \in halfDone => u \in halfDone'
          /\ call.table \notin halfDone' => call.source \notin halfDone
        BY <1>1, <1>5 DEF GoOn, Steps, AssignSteps, HalfDoneAs, IInv, TypeOK, Calls
    <2>2. NothingNewer(x)
        BY <1>1, <1>3 DEF NothingNewer
    <2>3. Sound(Source) => Sound(x)
        BY <1>3 DEF Sound, Agrees, Ordered, Remembers, Selected
    <2>4. IInv' /\ AtRest' /\ table'[call.table] = x /\ call'.outcome = "true"
        BY <1>1, <1>3, <1>4, <1>5, <2>1, <2>2, <2>3, Ended
    <2>5. After = Range(x.methods.items)
        BY <1>1, <1>3 DEF After, Addresses, Source
    <2> QED
        BY <1>1, <2>4, <2>5 DEF EndsWhole
<1> QED
    BY <1>1, <1>2, <1>5, AssignThrew

-----------------------------------------------------------------------------
\* What the program does between the calls.

\* A table holds addresses, and what was moved from.
LEMMA HeldAddresses ==
    ASSUME TypeOK, NEW t \in Tables
    PROVE  Addresses(t) \in SUBSET Item
<1>1. table[t].methods.items \in Seq(Item)
    BY DEF TypeOK, States, Vectors
<1> QED
    BY <1>1, LenProperties, ElementOfSeq DEF Addresses, Range

\* A call that begins.
LEMMA Began ==
    ASSUME IInv, NEW op \in {"insert", "erase", "assign"}, NEW t \in Tables,
           NEW source \in Tables, NEW a \in Item, Begin(op, t, source, a),
           UNCHANGED movesCannotThrow
    PROVE  /\ TypeOK' /\ Settled' /\ ~AtRest' /\ T' = table[t]
           /\ Source' = table[source] /\ UNCHANGED halfDone
           /\ t \notin halfDone => Sound(table[t])
           /\ call' = [op |-> op, table |-> t, source |-> source, address |-> a,
                       at |-> 0, before |-> Addresses(t), step |-> 1]
<1>1. call' = [op |-> op, table |-> t, source |-> source, address |-> a,
               at |-> 0, before |-> Addresses(t), step |-> 1]
      /\ UNCHANGED <<table, halfDone>> /\ AtRest
    BY DEF Begin, Ready
<1>2. call' \in Calls
    BY <1>1, HeldAddresses DEF Calls, IInv
<1>3. TypeOK' /\ ~AtRest'
    BY <1>1, <1>2 DEF IInv, TypeOK, AtRest
<1>4. T' = table[t] /\ Source' = table[source]
    BY <1>1 DEF T, Source
<1>5. Settled' /\ (t \notin halfDone => Sound(table[t]))
    BY <1>1 DEF IInv, Settled, Sound, Agrees, Ordered, Remembers, NothingNewer
<1> QED
    BY <1>1, <1>3, <1>4, <1>5

\* An update that begins.
LEMMA UpdateBegan ==
    ASSUME IInv, NEW op \in {"insert", "erase"}, NEW t \in Tables,
           NEW a \in Address, Begin(op, t, t, a), UNCHANGED movesCannotThrow
    PROVE  IInv' /\ EndsWhole
<1>1. a \in Item
    BY TableAssumption DEF Address, Item
<1>2. /\ TypeOK' /\ Settled' /\ ~AtRest' /\ T' = table[t] /\ UNCHANGED halfDone
      /\ t \notin halfDone => Sound(table[t])
      /\ call' = [op |-> op, table |-> t, source |-> t, address |-> a,
                  at |-> 0, before |-> Addresses(t), step |-> 1]
    BY <1>1, Began
<1>3. /\ call'.op = op /\ call'.address = a /\ call'.before = Addresses(t)
      /\ call'.step = 1 /\ call'.table = t
    BY <1>2
<1>4. Now(call)' = "search" /\ call'.step \in 1..Len(Steps(call.op)')
    BY <1>3 DEF Now, Steps, InsertSteps, EraseSteps
<1>5. ASSUME t \notin halfDone PROVE Updates(call, Now(call), T)'
    <2>1. Agrees(table[t]) /\ Remembers(table[t])
        BY <1>2, <1>5 DEF Sound
    <2>2. Unchanged(call, Now(call), T)'
        BY <1>2, <1>3, <1>4, <2>1 DEF Unchanged, Agrees, Ordered, Remembers,
            Addresses
    <2> QED
        BY <1>2, <1>3, <1>4, <2>2 DEF Updates, HasRoom, BeforeChange
<1>6. Placed(call, Now(call), T)'
    BY <1>4 DEF Placed
<1>7. Underway'
    BY <1>2, <1>3, <1>4, <1>5, <1>6 DEF Underway, IsUpdate
<1> QED
    BY <1>2, <1>7 DEF IInv, EndsWhole

\* An assignment that begins.
LEMMA AssignBegan ==
    ASSUME IInv, NEW t \in Tables, NEW source \in Tables, Assign(t, source),
           UNCHANGED movesCannotThrow
    PROVE  IInv' /\ EndsWhole
<1>1. movedFrom \in Item /\ Begin("assign", t, source, movedFrom) /\ source # t
    BY TableAssumption DEF movedFrom, Item, Assign
<1>2. /\ TypeOK' /\ Settled' /\ ~AtRest' /\ T' = table[t] /\ UNCHANGED halfDone
      /\ Source' = table[source] /\ (t \notin halfDone => Sound(table[t]))
      /\ call' = [op |-> "assign", table |-> t, source |-> source,
                  address |-> movedFrom, at |-> 0,
                  before |-> Addresses(t), step |-> 1]
    BY <1>1, Began
<1>3. /\ call'.op = "assign" /\ call'.before = Addresses(t)
      /\ call'.step = 1 /\ call'.table = t /\ call'.source = source
    BY <1>2
<1>4. call'.step \in 1..Len(Steps(call.op)')
    BY <1>3 DEF Steps, AssignSteps
<1>5. Assigns(call, call.step, T, Source)'
    BY <1>1, <1>2, <1>3 DEF Assigns, Sound, Agrees, Ordered, Remembers, Addresses
<1>6. Underway'
    BY <1>2, <1>3, <1>4, <1>5 DEF Underway, IsUpdate
<1> QED
    BY <1>2, <1>6 DEF IInv, EndsWhole

\* A new table is empty, and so is one that was moved from.
LEMMA EmptyIsSound ==
    ASSUME NEW x \in States, NothingNewer(x), x.methods = EmptyVector,
           x.partEnds = EmptyVector, x.hashes = EmptyVector, x.numSlots = 0,
           x.slotsFit, x.memo.hasBuckets => NothingKept(x)
    PROVE  Sound(x)
<1>1. x.memo.generation \in Nat
      /\ \A p \in Patterns : x.memo.buckets[p].generation \in Nat
    BY DEF States, Memos
<1>2. Agrees(x)
    BY DEF EmptyVector, Agrees, Ordered, InOrder, Range, Enough
<1>3. Remembers(x)
    BY <1>1 DEF Remembers, NothingKept
<1> QED
    BY <1>2, <1>3 DEF Sound

\* A new table is a table, and has kept nothing.
LEMMA NewTableFits ==
    /\ NewTable \in States
    /\ NothingNewer(NewTable) /\ NothingKept(NewTable)
<1>1. NewMemo \in Memos
      /\ (\A p \in Patterns : NewMemo.buckets[p].generation < NewMemo.generation)
    BY DEF NewMemo, Memos
<1>2. EmptyVector \in Vectors
    BY DEF EmptyVector, Vectors
<1> QED
    BY <1>1, <1>2 DEF NewTable, States, NothingNewer, NothingKept, NewMemo

\* A move takes the table, half done or not, and leaves an empty one.
LEMMA MoveKeeps ==
    ASSUME IInv, NEW t \in Tables, NEW source \in Tables, Move(t, source),
           UNCHANGED movesCannotThrow
    PROVE  IInv' /\ EndsWhole
<1> DEFINE memo == [table[source].memo EXCEPT !.hasBuckets = FALSE]
           x == [NewTable EXCEPT !.memo = memo]
<1>1. /\ AtRest /\ source # t /\ UNCHANGED call
      /\ table' = [table EXCEPT ![t] = table[source], ![source] = x]
      /\ halfDone' = HalfDoneAs(t, source) \ {source}
    BY DEF Move, Ready
<1>2. /\ table[source] \in States /\ NothingNewer(table[source])
      /\ source \notin halfDone => Sound(table[source])
    BY <1>1 DEF IInv, TypeOK, Settled
<1>3. /\ memo \in Memos /\ ~memo.hasBuckets
      /\ memo.generation = table[source].memo.generation
      /\ memo.buckets = table[source].memo.buckets
    <2>1. table[source].memo \in Memos
        BY <1>2 DEF States
    <2> QED
        BY <2>1 DEF Memos
<1> HIDE DEF memo
<1>4. /\ x.methods = EmptyVector /\ x.partEnds = EmptyVector
      /\ x.hashes = EmptyVector /\ x.numSlots = 0 /\ x.slotsFit /\ x.memo = memo
    BY DEF NewTable
<1>5. NewTable \in States
    BY NewTableFits
<1>6. x \in States /\ NothingNewer(x) /\ Sound(x)
    <2>1. x \in States
        BY <1>3, <1>5 DEF States
    <2>2. NothingNewer(x)
        BY <1>2, <1>3, <1>4 DEF NothingNewer
    <2> QED
        BY <1>3, <1>4, <2>1, <2>2, EmptyIsSound
<1> HIDE DEF x
<1>7. /\ halfDone' \in SUBSET Tables
      /\ t \notin halfDone' => source \notin halfDone
      /\ \A u \in Tables \ {t, source} : u \in halfDone' <=> u \in halfDone
    BY <1>1 DEF HalfDoneAs, IInv, TypeOK
<1>8. TypeOK' /\ AtRest'
    BY <1>1, <1>2, <1>6, <1>7 DEF IInv, TypeOK, AtRest
<1>9. /\ table'[t] = table[source] /\ table'[source] = x
      /\ \A u \in Tables \ {t, source} : table'[u] = table[u]
    BY <1>1 DEF IInv, TypeOK
<1>10. \A u \in Tables :
          NothingNewer(table'[u]) /\ (u \notin halfDone' => Sound(table'[u]))
    BY <1>1, <1>2, <1>6, <1>7, <1>9 DEF IInv, Settled
<1>11. Settled'
    BY <1>10 DEF Settled, Sound, Agrees, Ordered, Remembers, NothingNewer
<1> QED
    BY <1>1, <1>8, <1>11 DEF IInv, Underway, EndsWhole

\* A visit keeps what it found; where the parts and the index are those of the
\* methods that is what matches.  Elsewhere the program may end.
LEMMA VisitKeeps ==
    ASSUME IInv, NEW t \in Tables, NEW p \in Patterns, Visit(t, p),
           UNCHANGED movesCannotThrow
    PROVE  IInv' /\ EndsWhole
<1>1. /\ AtRest /\ table[t] \in States /\ NothingNewer(table[t])
      /\ t \notin halfDone => Sound(table[t])
      /\ UNCHANGED halfDone
    BY DEF Visit, Ready, IsUndefined, IInv, TypeOK, Settled
<1>2. ASSUME NEW found \in SUBSET DOMAIN table[t].methods.items,
             Fit(table[t]) => found = Matching(t, p),
             table' = [table EXCEPT ![t].memo.buckets[p] =
                         [generation |-> table[t].memo.generation,
                          results |-> found]],
             UNCHANGED call
      PROVE  IInv' /\ EndsWhole
    <2> DEFINE bucket == [generation |-> table[t].memo.generation,
                          results |-> found]
               x == [table[t] EXCEPT !.memo.buckets[p] = bucket]
    <2>1. bucket \in [generation : Nat, results : SUBSET Nat]
        <3>1. table[t].memo.generation \in Nat
            BY <1>1 DEF States, Memos
        <3>2. DOMAIN table[t].methods.items \subseteq Nat
            BY <1>1 DEF States, Vectors
        <3> QED
            BY <3>1, <3>2
    <2>2. bucket.generation = table[t].memo.generation /\ bucket.results = found
        OBVIOUS
    <2>3. table' = [table EXCEPT ![t] = x]
        BY <1>2
    <2> HIDE DEF bucket
    <2>4. /\ x \in States /\ x.methods = table[t].methods
          /\ x.partEnds = table[t].partEnds /\ x.hashes = table[t].hashes
          /\ x.numSlots = table[t].numSlots
          /\ (x.slotsFit <=> table[t].slotsFit)
          /\ x.memo.generation = table[t].memo.generation
          /\ x.memo.hasBuckets = table[t].memo.hasBuckets
          /\ x.memo.buckets = [table[t].memo.buckets EXCEPT ![p] = bucket]
        BY <1>1, <2>1 DEF States, Memos
    <2> HIDE DEF x
    <2>5. table[t].memo.buckets \in [Patterns -> [generation : Nat,
                                                 results : SUBSET Nat]]
          /\ table[t].memo.generation \in Nat
        BY <1>1 DEF States, Memos
    <2>6. x.memo.buckets[p] = bucket
          /\ \A q \in Patterns \ {p} :
                x.memo.buckets[q] = table[t].memo.buckets[q]
        BY <2>4, <2>5
    <2>7. NothingNewer(x)
        BY <1>1, <2>2, <2>4, <2>5, <2>6 DEF NothingNewer
    <2>8. ASSUME t \notin halfDone PROVE Sound(x)
        <3>1. Agrees(table[t]) /\ Remembers(table[t])
            BY <1>1, <2>8 DEF Sound
        <3>2. Fit(table[t])
            BY <3>1 DEF Agrees, Fit
        <3>3. found = Selected(x, p)
            <4>1. table[t].methods.items \in Seq(Item)
                BY <1>1 DEF States, Vectors
            <4> QED
                BY <1>2, <2>4, <3>2, <4>1 DEF Matching, Selected
        <3>4. Remembers(x)
            BY <2>2, <2>4, <2>6, <3>1, <3>3 DEF Remembers, Selected
        <3>5. Agrees(x)
            BY <2>4, <3>1 DEF Agrees, Ordered
        <3> QED
            BY <3>4, <3>5 DEF Sound
    <2>9. TypeOK' /\ AtRest'
        BY <1>1, <1>2, <2>3, <2>4 DEF IInv, TypeOK, AtRest
    <2>10. \A u \in Tables :
              NothingNewer(table'[u]) /\ (u \notin halfDone' => Sound(table'[u]))
        BY <1>1, <2>3, <2>7, <2>8 DEF IInv, TypeOK, Settled
    <2>11. Settled'
        BY <2>10 DEF Settled, Sound, Agrees, Ordered, Remembers, NothingNewer
    <2> QED
        BY <1>1, <2>9, <2>11 DEF IInv, Underway, EndsWhole
<1>3. ASSUME IsUndefined PROVE IInv' /\ EndsWhole
    <2>1. /\ UNCHANGED <<table, halfDone>> /\ AtRest'
          /\ call' = [outcome |-> "undefined"]
        BY <1>3 DEF IsUndefined, Returns, AtRest
    <2>2. TypeOK'
        BY <2>1 DEF IInv, TypeOK, Outcomes
    <2>3. \A u \in Tables :
              NothingNewer(table'[u]) /\ (u \notin halfDone' => Sound(table'[u]))
        BY <1>1, <2>1 DEF IInv, Settled
    <2>4. Settled'
        BY <2>3 DEF Settled, Sound, Agrees, Ordered, Remembers, NothingNewer
    <2> QED
        BY <1>1, <2>1, <2>2, <2>4 DEF IInv, Underway, EndsWhole
<1> QED
    BY <1>2, <1>3 DEF Visit

-----------------------------------------------------------------------------
\* The program starts with empty tables.
LEMMA InitSound == Init => IInv
<1> SUFFICES ASSUME Init PROVE IInv
    OBVIOUS
<1>1. AtRest /\ call \in Outcomes
    BY DEF Init, AtRest, Outcomes
<1>2. NewTable \in States /\ NothingNewer(NewTable) /\ NothingKept(NewTable)
    BY NewTableFits
<1>3. Sound(NewTable)
    <2>1. /\ NewTable.methods = EmptyVector /\ NewTable.partEnds = EmptyVector
          /\ NewTable.hashes = EmptyVector /\ NewTable.numSlots = 0
          /\ NewTable.slotsFit
        BY DEF NewTable
    <2> QED
        BY <1>2, <2>1, EmptyIsSound
<1>4. TypeOK
    BY <1>1, <1>2 DEF Init, TypeOK
<1>5. Settled
    BY <1>2, <1>3 DEF Init, Settled
<1> QED
    BY <1>1, <1>4, <1>5 DEF IInv, Underway

\* Every step keeps the invariant, and a call that ends has done all or nothing,
\* if its table is not half done.
LEMMA NextKeeps == IInv /\ [Next]_vars => IInv' /\ [EndsWhole]_vars
<1> SUFFICES ASSUME IInv, [Next]_vars PROVE IInv' /\ (EndsWhole \/ UNCHANGED vars)
    OBVIOUS
<1>1. CASE UNCHANGED vars
    <2>1. UNCHANGED <<movesCannotThrow, table, call, halfDone>>
        BY <1>1 DEF vars
    <2>2. TypeOK' /\ Settled'
        BY <2>1 DEF IInv, TypeOK, Settled, AtRest, NothingNewer, Sound, Agrees,
            Ordered, Remembers
    <2>3. T' = T /\ Source' = Source /\ Now(call)' = Now(call)
          /\ Len(Steps(call.op))' = Len(Steps(call.op))
        BY <2>1 DEF T, Source, Now, Steps, InsertSteps, EraseSteps, AssignSteps
    <2>4. Underway'
        BY <2>1, <2>3 DEF IInv, Underway, AtRest, IsUpdate, Updates, Unchanged,
            HasRoom, HasChanged, Full, Agrees, Ordered, Remembers, Assigns, Sound,
            IsChanged, Changed, Places, Placed, Update, NothingKept
    <2> QED
        BY <1>1, <2>2, <2>4 DEF IInv
<1>2. CASE Client /\ UNCHANGED movesCannotThrow
    <2>1. ASSUME NEW t \in Tables, NEW a \in Address, Insert(t, a) \/ Erase(t, a)
          PROVE  IInv' /\ EndsWhole
        BY <1>2, <2>1, UpdateBegan DEF Insert, Erase
    <2>2. ASSUME NEW t \in Tables, NEW source \in Tables,
                 Assign(t, source) \/ Move(t, source)
          PROVE  IInv' /\ EndsWhole
        BY <1>2, <2>2, AssignBegan, MoveKeeps
    <2>3. ASSUME NEW t \in Tables, NEW p \in Patterns, Visit(t, p)
          PROVE  IInv' /\ EndsWhole
        BY <1>2, <2>3, VisitKeeps
    <2> QED
        BY <1>2, <2>1, <2>2, <2>3 DEF Client
<1>3. CASE Statement /\ UNCHANGED movesCannotThrow
    BY <1>3, SearchKeeps, ReadEndsKeeps, ReserveEndsKeeps, ReserveHashesKeeps,
       InsertMethodKeeps, InsertEndsKeeps, InsertHashKeeps, EraseMethodKeeps,
       EraseEndsKeeps, EraseHashKeeps, ForgetKeeps, RebuildKeeps,
       AssignMethodsKeeps, AssignEndsKeeps, AssignHashesKeeps,
       AssignSlotsKeeps, AssignMemoKeeps DEF Statement
<1> QED
    BY <1>1, <1>2, <1>3 DEF Next

\* The invariant holds in every state of every program, whatever it does with
\* tables that are half done.
THEOREM Invariant == Spec => []IInv
<1>1. Init => IInv
    BY InitSound
<1>2. IInv /\ [Next]_vars => IInv'
    BY NextKeeps
<1> QED
    BY <1>1, <1>2, PTL DEF Spec

\* Between calls the methods, their parts, their hashes and the slots agree in
\* every table that is not half done.  Which tables are half done is no choice of
\* the property: only a throwing move of a value, a throwing assignment and a copy
\* or move of such a table make them so.
THEOREM StaysWhole == Spec => []WholeAtRest
<1>1. IInv => WholeAtRest
    <2> SUFFICES ASSUME IInv, AtRest, NEW t \in Tables \ halfDone
                 PROVE  Whole(t)
        BY DEF WholeAtRest
    <2>1. table[t] \in States /\ Agrees(table[t])
        BY DEF IInv, TypeOK, Settled, Sound
    <2>2. table[t].numSlots \in Nat
        BY <2>1 DEF States
    <2>3. table[t].numSlots \in {0} \cup {n \in Nat :
                                     n >= 2 * Len(table[t].hashes.items)}
        BY <2>1, <2>2 DEF Agrees, Enough
    <2> QED
        BY <2>1, <2>3 DEF Whole, Fit, Agrees, Ordered, Addresses
<1> QED
    BY <1>1, Invariant, PTL

\* No call leaves matches behind in a table that is not half done that a visit
\* would deliver although the table has changed.
THEOREM MatchesStayCurrent == Spec => []KeptMatchesHold
<1>1. IInv => KeptMatchesHold
    <2> SUFFICES ASSUME IInv, AtRest, NEW t \in Tables \ halfDone,
                        NEW p \in Patterns, Holds(t, p)
                 PROVE  table[t].memo.buckets[p].results = Matching(t, p)
        BY DEF KeptMatchesHold, MatchesHold
    <2>1. table[t].methods.items \in Seq(Item) /\ Remembers(table[t])
        BY DEF IInv, TypeOK, Settled, Sound, States, Vectors
    <2> QED
        BY <2>1 DEF Remembers, Selected, Holds, Matching
<1> QED
    BY <1>1, Invariant, PTL

\* On a table that is not half done, insert and erase of values whose moves cannot
\* throw change exactly their address or nothing, and do not leave it half done;
\* with other values they may, and lose at most one other address.  An assignment
\* that returns has copied everything, unless it copied a table that is half done.
THEOREM CallsDoAllOrNothing == Spec => AllOrNothing
<1>1. IInv /\ [Next]_vars => [EndsWhole]_vars
    BY NextKeeps
<1> QED
    BY <1>1, Invariant, PTL DEF Spec, AllOrNothing

=============================================================================
