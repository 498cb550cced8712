---------------------------- MODULE MethodTable ----------------------------
(***************************************************************************)
(* The updates of MethodTable (include/oscpm/detail/method_table.h), one   *)
(* statement at a time: insert, erase and the implicit assignments, where  *)
(* each allocation may throw and so may the moves of a value.              *)
(* AddressSpace has the visits, AddressIndex the slots of the index.       *)
(*                                                                         *)
(* A std::vector is its items and its capacity.  An address, the ends of   *)
(* its parts and its hash are all named by its rank in bytewise order, and *)
(* of the slots of the index only their number is kept, and whether they   *)
(* are those of its hashes.  A string that was moved from is empty, and    *)
(* below every address.  A value can be copied.                            *)
(*                                                                         *)
(* An exception may leave a table half done, and a program may go on with  *)
(* it: the calls do what they do with such a table, up to a statement that *)
(* is undefined for it, after which nothing is said.  halfDone is a        *)
(* history variable: it guards nothing, and only says what happened.       *)
(***************************************************************************)
EXTENDS Integers, SequencesExt, FiniteSetsExt

CONSTANTS
    Tables,             \* the tables of the program
    NumAddresses,       \* addresses are 1..NumAddresses in bytewise order
    Patterns,           \* the patterns that are visited
    Selects,            \* the addresses each matches
    kMinSlots,          \* AddressIndex::kMinSlots
    MaxUpdates,         \* bound: updates of all tables together
    MaxThrown,          \* bound: exceptions of the program
    MaxMethods          \* bound: methods of a table that gets one more

Address == 1..NumAddresses
movedFrom == 0

ASSUME TableAssumption ==
    /\ NumAddresses \in Nat
    /\ Selects \in [Patterns -> SUBSET Address]
    /\ kMinSlots \in Nat \ {0}

VARIABLES
    movesCannotThrow,   \* kMethodMovesCannotThrow, which never changes
    table,              \* each table
    call,               \* the update that runs, or how the last one ended
    halfDone,           \* history: the tables an exception left half done
    numThrown           \* the exceptions so far, for their bound

vars == <<movesCannotThrow, table, call, halfDone, numThrown>>

\* A std::vector is [items, capacity].
EmptyVector == [items |-> <<>>, capacity |-> 0]

NewMemo ==
    [hasBuckets |-> TRUE, generation |-> 1,
     buckets |-> [t \in Patterns |-> [generation |-> 0, results |-> {}]]]

\* A table is m_methods, m_partEnds, the two vectors of m_index and m_memo.
NewTable ==
    [methods |-> EmptyVector, partEnds |-> EmptyVector, hashes |-> EmptyVector,
     numSlots |-> 0, slotsFit |-> TRUE, memo |-> NewMemo]

\* A call is an update of a table that runs: its operation, the table and what
\* is assigned to it, the address and its position, the addresses of the table
\* when it was called, and the next statement.  Between calls it is the outcome
\* of the last one: "none", "true", "false", "threw" or "undefined".
-----------------------------------------------------------------------------
\* Mutant: the memo is told last.
InsertStepsForgetLast ==
    <<"search", "readEnds", "reserveEnds", "reserveHashes",
      "insertMethod", "insertEnds", "insertHash", "rebuild", "forget">>

\* The statements of each member function, in order.
InsertSteps ==
    IF movesCannotThrow
    THEN <<"search", "readEnds", "reserveEnds", "reserveHashes",
           "insertMethod", "forget", "insertEnds", "insertHash", "rebuild">>
    ELSE <<"search", "insertMethod", "forget">>

EraseSteps ==
    IF movesCannotThrow
    THEN <<"search", "eraseMethod", "forget", "eraseEnds", "eraseHash",
           "rebuild">>
    ELSE <<"search", "eraseMethod", "forget">>

AssignSteps == <<"methods", "partEnds", "hashes", "slots", "memo">>

Steps(op) ==
    IF op = "insert" THEN InsertSteps
    ELSE IF op = "erase" THEN EraseSteps ELSE AssignSteps

AtRest == "outcome" \in DOMAIN call

\* The program can go on.
Ready == AtRest /\ call.outcome # "undefined"

Running(statement) == ~AtRest /\ Steps(call.op)[call.step] = statement

Returns(answer) == call' = [outcome |-> answer]

Throws ==
    /\ numThrown < MaxThrown
    /\ numThrown' = numThrown + 1
    /\ Returns("threw")

\* On to the next statement, or back to the program.
GoOn ==
    IF call.step = Len(Steps(call.op)) THEN Returns("true")
    ELSE call' = [call EXCEPT !.step = @ + 1]

T == table[call.table]

Becomes(state) == table' = [table EXCEPT ![call.table] = state]

\* A statement leaves the table in the state `done', or throws.  It then leaves
\* it in one of the states `intact', or part of its work done, in one of `halves'.
Do(statement, done, intact, halves) ==
    /\ Running(statement)
    /\ \/ GoOn /\ Becomes(done) /\ UNCHANGED <<halfDone, numThrown>>
       \/ \E x \in intact : Throws /\ Becomes(x) /\ UNCHANGED halfDone
       \/ \E x \in halves :
             /\ Throws /\ Becomes(x)
             /\ halfDone' = halfDone \cup {call.table}

\* The behaviour of a statement is undefined, as in a table whose members do not
\* agree: it reads or writes past the end of a vector, or never ends.
IsUndefined == Returns("undefined") /\ UNCHANGED <<table, halfDone, numThrown>>

\* Only an allocation may throw.
If(allocates, half) == IF allocates THEN {half} ELSE {}

-----------------------------------------------------------------------------
Addresses(t) == Range(table[t].methods.items)

Full(vector) == Len(vector.items) = vector.capacity

WithItem(vector, at, item) ==
    [items |-> InsertAt(vector.items, at, item),
     capacity |-> IF Full(vector) THEN Max({2 * vector.capacity, 1})
                                  ELSE vector.capacity]

WithoutItem(vector, at) == [vector EXCEPT !.items = RemoveAt(@, at)]

\* Mutant: no room is made ahead of the insertion.
ReservedNothing(vector) == vector

\* Room for one more item.
Reserved(vector) ==
    IF Full(vector) THEN [vector EXCEPT !.capacity = 2 * @ + 1] ELSE vector

\* Mutant: the search may stop at any place.
IsAnyPlace(list, a, p) == p \in 1..(Len(list) + 1)

\* lowerBound: the binary search ends between an item below a and one that is
\* not.  In a list that is in order that is the first place not below a.
IsLowerBound(list, a, p) ==
    /\ p \in 1..(Len(list) + 1)
    /\ p > 1 => list[p - 1] < a
    /\ p <= Len(list) => list[p] >= a

\* AddressIndex::rebuild: kMinSlots, doubled until there are two for each entry.
SlotsFor(numEntries) ==
    LET doubled[n \in Nat] == IF n >= 2 * numEntries THEN n ELSE doubled[2 * n]
    IN  doubled[kMinSlots]

\* What std::vector leaves of a table when a move throws: it moves the last
\* method up into new room, then the others from the last to the first, then
\* the new one to its place, and a method moves its address before its value.
\* A vector that has to grow copies, and leaves what there was.
HalfInserted(list, at, a) ==
    {[list EXCEPT ![Len(list)] = movedFrom], InsertAt(list, at, a)}
        \cup {InsertAt(list, i, movedFrom) : i \in at..(Len(list) - 1)}

\* It closes the gap from the first method behind it to the last.
HalfErased(list, at) ==
    {InsertAt(RemoveAt(list, at), i, movedFrom) : i \in (at + 1)..Len(list)}

Copied(vector, from) ==
    [items |-> from.items,
     capacity |-> Max({vector.capacity, Len(from.items)})]

\* What a vector holds when copying an item of another into it throws.  It
\* copies to new room when it has to grow, and item by item where it does not.
HalfCopied(vector, from) ==
    IF from.items = <<>> THEN {}
    ELSE IF Len(from.items) > vector.capacity THEN {vector.items}
    ELSE {SubSeq(from.items, 1, k)
            \o SubSeq(vector.items, k + 1, Len(vector.items)) :
              k \in 0..Min({Len(from.items), Len(vector.items)})}

-----------------------------------------------------------------------------
Init ==
    /\ movesCannotThrow \in BOOLEAN
    /\ table = [t \in Tables |-> NewTable]
    /\ call = [outcome |-> "none"]
    /\ halfDone = {}
    /\ numThrown = 0

Begin(op, t, source, a) ==
    /\ Ready
    /\ call' = [op |-> op, table |-> t, source |-> source, address |-> a,
                at |-> 0, before |-> Addresses(t), step |-> 1]
    /\ UNCHANGED <<table, halfDone, numThrown>>

\* For the bound: the updates the tables have seen.
NumUpdates == MapThenSumSet(LAMBDA t : table[t].memo.generation - 1, Tables)

Insert(t, a) ==
    /\ NumUpdates < MaxUpdates
    /\ Len(table[t].methods.items) < MaxMethods
    /\ Begin("insert", t, t, a)

Erase(t, a) == NumUpdates < MaxUpdates /\ Begin("erase", t, t, a)

\* What is copied or moved from a table that is half done is half done too.
HalfDoneAs(t, source) ==
    IF source \in halfDone THEN halfDone \cup {t} ELSE halfDone \ {t}

\* operator=(const MethodTable&).  A table assigned to itself stays as it is.
Assign(t, source) == source # t /\ Begin("assign", t, source, movedFrom)

\* operator=(MethodTable&&): what is moved from is left empty.
Move(t, source) ==
    /\ Ready /\ source # t
    /\ table' = [table EXCEPT
            ![t] = table[source],
            ![source] = [NewTable EXCEPT
                !.memo = [table[source].memo EXCEPT !.hasBuckets = FALSE]]]
    /\ halfDone' = HalfDoneAs(t, source) \ {source}
    /\ UNCHANGED <<call, numThrown>>

\* The positions a pattern matches.
Matching(t, pattern) ==
    {i \in DOMAIN table[t].methods.items :
        table[t].methods.items[i] \in Selects[pattern]}

Holds(t, pattern) ==
    /\ table[t].memo.hasBuckets
    /\ table[t].memo.buckets[pattern].generation = table[t].memo.generation

\* The parts and the index are those of the methods, or not used.
Fit(x) ==
    movesCannotThrow =>
        /\ x.partEnds.items = x.methods.items
        /\ x.hashes.items = x.methods.items
        /\ x.slotsFit

\* dispatchIn on a pattern whose matches are not kept: scan and store.  With the
\* parts of other addresses it finds anything, or reads past their end.
Visit(t, pattern) ==
    /\ Ready /\ table[t].memo.hasBuckets /\ ~Holds(t, pattern)
    /\ \/ \E found \in SUBSET DOMAIN table[t].methods.items :
             /\ Fit(table[t]) => found = Matching(t, pattern)
             /\ table' = [table EXCEPT ![t].memo.buckets[pattern] =
                             [generation |-> table[t].memo.generation,
                              results |-> found]]
             /\ UNCHANGED <<call, halfDone, numThrown>>
       \/ ~Fit(table[t]) /\ IsUndefined

-----------------------------------------------------------------------------
\* insert of an address that is held returns false, as does erase of one that
\* is not.
Search ==
    /\ Running("search")
    /\ \E p \in 1..(Len(T.methods.items) + 1) :
          /\ IsLowerBound(T.methods.items, call.address, p)
          /\ LET held == p <= Len(T.methods.items)
                         /\ T.methods.items[p] = call.address
             IN  IF held = (call.op = "insert") THEN Returns("false")
                 ELSE call' = [call EXCEPT !.at = p, !.step = 2]
    /\ UNCHANGED <<table, halfDone, numThrown>>

\* partEndsOf allocates.
ReadEnds == Do("readEnds", T, {T}, {})

ReserveEnds ==
    Do("reserveEnds", [T EXCEPT !.partEnds = Reserved(@)],
       If(Full(T.partEnds), T), {})

\* AddressIndex::reserveForInsert.
ReserveHashes ==
    Do("reserveHashes", [T EXCEPT !.hashes = Reserved(@)],
       If(Full(T.hashes), T), {})

\* The copy of the address throws before m_methods changes.
InsertMethod ==
    Do("insertMethod",
       [T EXCEPT !.methods = WithItem(@, call.at, call.address)],
       {T},
       IF movesCannotThrow \/ Full(T.methods) \/ call.at > Len(T.methods.items)
       THEN {}
       ELSE {[T EXCEPT !.methods.items = list] : list \in
                HalfInserted(T.methods.items, call.at, call.address)})

EraseMethod ==
    Do("eraseMethod", [T EXCEPT !.methods = WithoutItem(@, call.at)], {},
       IF movesCannotThrow THEN {}
       ELSE {[T EXCEPT !.methods.items = list] :
                list \in HalfErased(T.methods.items, call.at)})

Forget == Do("forget", [T EXCEPT !.memo.generation = @ + 1], {}, {})

\* An insertion or removal at call.at, which may be behind the end of a vector.
DoInRange(statement, end, done, intact) ==
    \/ Running(statement) /\ call.at > end /\ IsUndefined
    \/ Running(statement) /\ call.at <= end /\ Do(statement, done, intact, {})

InsertEnds ==
    DoInRange("insertEnds", Len(T.partEnds.items) + 1,
              [T EXCEPT !.partEnds = WithItem(@, call.at, call.address)],
              If(Full(T.partEnds), T))

InsertHash ==
    DoInRange("insertHash", Len(T.hashes.items) + 1,
              [T EXCEPT !.hashes = WithItem(@, call.at, call.address)],
              If(Full(T.hashes), T))

EraseEnds ==
    DoInRange("eraseEnds", Len(T.partEnds.items),
              [T EXCEPT !.partEnds = WithoutItem(@, call.at)], {})

EraseHash ==
    DoInRange("eraseHash", Len(T.hashes.items),
              [T EXCEPT !.hashes = WithoutItem(@, call.at)], {})

\* insert rebuilds when the slots are too few, erase when there are none.
NeedsRebuild ==
    IF call.op = "insert" THEN T.numSlots < 2 * Len(T.hashes.items)
                          ELSE T.numSlots = 0

WithSlots(x, numSlots) == [x EXCEPT !.numSlots = numSlots, !.slotsFit = TRUE]

\* A rebuild that throws leaves an index without slots.  Without a rebuild the
\* probes find the slot they look for in the slots of these hashes only.
Rebuild ==
    \/ Do("rebuild",
          IF NeedsRebuild THEN WithSlots(T, SlotsFor(Len(T.hashes.items))) ELSE T,
          If(NeedsRebuild, WithSlots(T, 0)), {})
    \/ Running("rebuild") /\ ~NeedsRebuild /\ ~T.slotsFit /\ IsUndefined

Source == table[call.source]

AssignMethods ==
    LET lists == HalfCopied(T.methods, Source.methods) IN
    Do("methods", [T EXCEPT !.methods = Copied(@, Source.methods)],
       If(T.methods.items \in lists, T),
       {[T EXCEPT !.methods.items = list] : list \in lists \ {T.methods.items}})

AssignEnds ==
    Do("partEnds", [T EXCEPT !.partEnds = Copied(@, Source.partEnds)], {},
       {[T EXCEPT !.partEnds.items = list] :
            list \in HalfCopied(T.partEnds, Source.partEnds)})

\* Numbers are copied whole, so only the room for them may be missing.
AssignHashes ==
    LET sameHashes == T.slotsFit /\ T.hashes.items = Source.hashes.items IN
    Do("hashes",
       [T EXCEPT !.hashes = Copied(@, Source.hashes),
                 !.slotsFit = sameHashes \/ T.numSlots = 0],
       {}, If(Len(Source.hashes.items) > T.hashes.capacity, T))

AssignSlots ==
    Do("slots", [T EXCEPT !.numSlots = Source.numSlots,
                          !.slotsFit = Source.slotsFit],
       {}, If(Source.numSlots > T.numSlots, T))

\* DispatchMemo's operator=: the buckets, then the generation.
AssignMemo ==
    /\ Running("memo")
    /\ \/ /\ GoOn /\ Becomes([T EXCEPT !.memo = Source.memo])
          /\ halfDone' = HalfDoneAs(call.table, call.source)
          /\ UNCHANGED numThrown
       \/ /\ Source.memo.hasBuckets /\ ~T.memo.hasBuckets
          /\ Throws /\ UNCHANGED table
          /\ halfDone' = halfDone \cup {call.table}

Client ==
    \/ \E t \in Tables, a \in Address : Insert(t, a) \/ Erase(t, a)
    \/ \E t, source \in Tables : Assign(t, source) \/ Move(t, source)
    \/ \E t \in Tables, pattern \in Patterns : Visit(t, pattern)

Statement ==
    \/ Search \/ ReadEnds \/ ReserveEnds \/ ReserveHashes
    \/ InsertMethod \/ InsertEnds \/ InsertHash
    \/ EraseMethod \/ EraseEnds \/ EraseHash
    \/ Forget \/ Rebuild
    \/ AssignMethods \/ AssignEnds \/ AssignHashes \/ AssignSlots \/ AssignMemo

Next == (Client \/ Statement) /\ UNCHANGED movesCannotThrow

Spec == Init /\ [][Next]_vars

-----------------------------------------------------------------------------
InOrder(list) == \A i, j \in 1..Len(list) : i < j => list[i] < list[j]

\* The methods are in order and without duplicates, the parts and the hashes
\* are those of the methods at the same positions, and the index has no slots
\* or at least twice as many as entries.
Whole(t) ==
    /\ InOrder(table[t].methods.items)
    /\ movedFrom \notin Addresses(t)
    /\ Fit(table[t])
    /\ ~movesCannotThrow =>
            table[t].partEnds.items = <<>> /\ table[t].hashes.items = <<>>
    /\ table[t].numSlots \in {0} \cup {n \in Nat :
                                n >= 2 * Len(table[t].hashes.items)}

\* Wherever an allocation throws in insert or erase, the members of the table
\* agree with each other.  So do those of a table assigned to, when the assignment
\* has returned, whatever the table was before.  Nothing is said of a table that a
\* throwing move of a value or a throwing assignment left half done, until a
\* whole table is assigned to it.
WholeAtRest == AtRest => \A t \in Tables \ halfDone : Whole(t)

MatchesHold(t) ==
    \A pattern \in Patterns : Holds(t, pattern) =>
        table[t].memo.buckets[pattern].results = Matching(t, pattern)

\* The same calls, on the same tables, leave no matches behind that a visit would
\* deliver although the table has changed.
KeptMatchesHold == AtRest => \A t \in Tables \ halfDone : MatchesHold(t)

\* What the table of a call holds if the call does what it is there for.
After ==
    IF call.op = "insert" THEN call.before \cup {call.address}
    ELSE IF call.op = "erase" THEN call.before \ {call.address}
    ELSE Addresses(call.source)

EndsWhole ==
    ~AtRest /\ AtRest' =>
        LET t == call.table
            held == Range(table'[t].methods.items)
            updatesWhole == call.op # "assign" /\ t \notin halfDone
        IN  /\ t \notin halfDone' =>
                /\ call'.outcome = "true" =>
                        held = After /\ (held = call.before => call.op = "assign")
                /\ call'.outcome = "false" => held = After /\ held = call.before
                /\ call'.outcome = "threw" => held \in {After, call.before}
                /\ call'.outcome # "undefined"
            /\ updatesWhole /\ movesCannotThrow => t \notin halfDone'
            /\ updatesWhole => \E a \in Address :
                    call.before \subseteq held \cup {call.address, a}

\* On a table that is not half done, insert and erase of values whose moves cannot
\* throw change exactly their address and say so, or throw and have done all or
\* nothing; they never leave it half done.  With values whose moves throw they
\* may, and then lose at most one other address.  An assignment that returns has
\* copied everything; one that throws may leave its table half done.
AllOrNothing == [][EndsWhole]_vars

\* address_space.h: a visit calls the visitor for every registered address the
\* pattern matches.  The rule names no exception, so it is taken to hold of the
\* matches of a table, too, whose add or remove a value's move ended.
KeptMatchesSurviveThrows == AtRest => \A t \in Tables : MatchesHold(t)
=============================================================================
