---------------------------- MODULE AddressIndex ----------------------------
(***************************************************************************)
(* The open-addressing index over the sorted methods                       *)
(* (include/oscpm/detail/address_index.h).  Entry i of the index is the    *)
(* i-th method, counting from one, and a slot holds an entry's number or   *)
(* zero, so an insertion or an erasure renumbers every later entry.        *)
(*                                                                         *)
(* `addresses` is the caller's table, kept in order by MethodTable; an     *)
(* address is its rank in bytewise order and hashOf its hash, any function *)
(* of the address that stays the same while the program runs.  The number  *)
(* of slots is a power of two: `hash & mask` is the remainder by it.       *)
(***************************************************************************)
EXTENDS Integers, FiniteSetsExt, SequencesExt

CONSTANTS
    NumAddresses,   \* the addresses a program may register
    Hashes,         \* the values a hash may have
    kMaxEntries,    \* the greatest value of a slot: 2^32 - 1 in the code
    kMinSlots,      \* the size of the smallest table, a power of two
    MaxHeld         \* bound: addresses held at once

Address == 1..NumAddresses

ASSUME IndexAssumption ==
    /\ NumAddresses \in Nat
    /\ Hashes \subseteq Nat
    /\ kMaxEntries \in Nat \ {0}
    /\ kMinSlots \in Nat \ {0}
    /\ MaxHeld \in Nat

kEmptySlot == 0

\* A slot is an unsigned integer.
Uint(value) == value % (kMaxEntries + 1)

VARIABLES
    hashOf,         \* std::hash of each address
    addresses,      \* the caller's sorted addresses
    hashes,         \* m_hashes
    slots           \* m_slots, a function on 0..n-1; no slots at all after a
                    \* rebuild that failed or was refused

vars == <<hashOf, addresses, hashes, slots>>

NoSlots == [i \in {} |-> kEmptySlot]

\* There is one hash for each address, every slot is empty or holds the number of
\* an entry, and there are never more than four slots for each of MaxHeld
\* entries, or kMinSlots.
TypeOK ==
    /\ hashOf \in [Address -> Hashes]
    /\ addresses \in Seq(Address)
    /\ hashes \in Seq(Hashes)
    /\ Len(hashes) = Len(addresses)
    /\ \E n \in 0..Max({kMinSlots, 4 * MaxHeld}) :
          slots \in [0..(n - 1) -> 0..Len(addresses)]

-----------------------------------------------------------------------------
NumSlots(table) == Cardinality(DOMAIN table)

\* The slot `step` places on from the home of a hash.
Probe(table, hash, step) == (hash + step) % NumSlots(table)

\* The first step of a probe from `hash` that meets one of these values.
IsFirstStep(table, hash, step, values) ==
    /\ table[Probe(table, hash, step)] \in values
    /\ \A earlier \in 0..(step - 1) :
          table[Probe(table, hash, earlier)] \notin values

FirstStep(table, hash, values) ==
    CHOOSE step \in 0..(NumSlots(table) - 1) :
        IsFirstStep(table, hash, step, values)

\* Entry `number` goes to the first empty slot of its probe.
Place(table, hash, number) ==
    LET step == FirstStep(table, hash, {kEmptySlot})
    IN  [table EXCEPT ![Probe(table, hash, step)] = Uint(number)]

\* The value of the first slot that is empty or holds one of these entries.
Lookup(hash, entries) ==
    IF slots = NoSlots THEN kEmptySlot
    ELSE slots[Probe(slots, hash, FirstStep(slots, hash,
                                            {kEmptySlot} \cup entries))]

Entries == 1..Len(addresses)

\* find: the number of the entry, or zero.
Find(address) ==
    Lookup(hashOf[address],
           {v \in Entries : /\ hashes[v] = hashOf[address]
                            /\ addresses[v] = address})

-----------------------------------------------------------------------------
\* kMinSlots, doubled until there are two slots for each entry.
SlotsFor(numEntries) ==
    LET doubled[n \in Nat] == IF n >= 2 * numEntries THEN n ELSE doubled[2 * n]
    IN  doubled[kMinSlots]

\* A table of `size' slots with the entries of these hashes, one by one.
Filled(list, size) ==
    LET filled[i \in 0..Len(list)] ==
            IF i = 0 THEN [slot \in 0..(size - 1) |-> kEmptySlot]
                     ELSE Place(filled[i - 1], list[i], i)
    IN  filled[Len(list)]

Rebuilt(list) ==
    IF Len(list) > kMaxEntries THEN NoSlots
                               ELSE Filled(list, SlotsFor(Len(list)))

\* rebuild drops the slots first: an allocation that fails leaves none.
Rebuild(list) == slots' \in {Rebuilt(list), NoSlots}

\* Mutant: the later entries keep the numbers they had.
NotRenumbered(table, number, change) == table

\* Entries numbered above `number` become one more, or one less.
Renumbered(table, number, change) ==
    [slot \in DOMAIN table |->
        IF table[slot] > number THEN Uint(table[slot] + change)
                                ELSE table[slot]]

\* Mutant: the table is allowed to fill up.
InsertFilling(p, a) ==
    LET grown == InsertAt(hashes, p, hashOf[a]) IN
    /\ Len(addresses) < MaxHeld
    /\ \A i \in 1..(p - 1) : addresses[i] < a
    /\ \A i \in p..Len(addresses) : addresses[i] > a
    /\ addresses' = InsertAt(addresses, p, a)
    /\ hashes' = grown
    /\ UNCHANGED hashOf
    /\ IF NumSlots(slots) < Len(grown)
       THEN Rebuild(grown)
       ELSE slots' = Place(Renumbered(slots, Uint(p - 1), 1), hashOf[a], p)

(***************************************************************************)
(* insert.  MethodTable has inserted the address at place p (counting from *)
(* one) and has called reserveForInsert, so m_hashes does not allocate.    *)
(***************************************************************************)
Insert(p, a) ==
    LET grown == InsertAt(hashes, p, hashOf[a]) IN
    /\ Len(addresses) < MaxHeld
    /\ \A i \in 1..(p - 1) : addresses[i] < a
    /\ \A i \in p..Len(addresses) : addresses[i] > a
    /\ addresses' = InsertAt(addresses, p, a)
    /\ hashes' = grown
    /\ UNCHANGED hashOf
    /\ IF NumSlots(slots) < 2 * Len(grown)
       THEN Rebuild(grown)
       ELSE slots' = Place(Renumbered(slots, Uint(p - 1), 1), hashOf[a], p)

(***************************************************************************)
(* eraseSlot: the entries behind the hole move back over it, each no       *)
(* further than its home.  `walk` is the state of that loop.               *)
(***************************************************************************)
\* Mutant: no entry moves back.
NeverFill(table, home, next, hole) == FALSE

CanFill(table, home, next, hole) ==
    (next - home) % NumSlots(table) >= (next - hole) % NumSlots(table)

\* Mutant: the slot of the erased entry is not emptied.
SlotKept(hole) == slots

WithoutSlot(hole) ==
    LET n == NumSlots(slots)
        run == FirstStep(slots, hole + 1, {kEmptySlot})
        walk[k \in 0..run] ==
            IF k = 0 THEN [table |-> slots, hole |-> hole]
            ELSE LET before == walk[k - 1]
                     next == (hole + k) % n
                 IN  IF CanFill(slots, hashes[slots[next]], next, before.hole)
                     THEN [table |-> [before.table EXCEPT
                                        ![before.hole] = slots[next]],
                           hole  |-> next]
                     ELSE before
    IN  [walk[run].table EXCEPT ![walk[run].hole] = kEmptySlot]

HoleOf(p) ==
    {slot \in DOMAIN slots :
        \E step \in 0..(NumSlots(slots) - 1) :
            /\ slot = Probe(slots, hashes[p], step)
            /\ IsFirstStep(slots, hashes[p], step, {p})}

(***************************************************************************)
(* erase.  With slots, the search for the hole ends only if some slot      *)
(* holds the entry; the thread stays in that loop otherwise, so there is   *)
(* no step.  Without slots the index tries to rebuild itself.              *)
(***************************************************************************)
Erase(p) ==
    /\ addresses' = RemoveAt(addresses, p)
    /\ hashes' = RemoveAt(hashes, p)
    /\ UNCHANGED hashOf
    /\ IF slots = NoSlots
       THEN Rebuild(RemoveAt(hashes, p))
       ELSE \E hole \in HoleOf(p) :
               slots' = Renumbered(WithoutSlot(hole), Uint(p), -1)

Init ==
    /\ hashOf \in [Address -> Hashes]
    /\ addresses = <<>>
    /\ hashes = <<>>
    /\ slots = NoSlots

Next ==
    \/ \E a \in Address, p \in 1..(Len(addresses) + 1) : Insert(p, a)
    \/ \E p \in 1..Len(addresses) : Erase(p)

Spec == Init /\ [][Next]_vars

-----------------------------------------------------------------------------
(***************************************************************************)
(* Properties.                                                             *)
(***************************************************************************)

\* The index finds every address it holds and none it does not hold: no
\* renumbering, backward shift or rebuild loses an entry or leaves one behind.
FindsExactlyHeld ==
    \A a \in Address :
        Find(a) = IF slots # NoSlots /\ Contains(addresses, a)
                  THEN CHOOSE i \in 1..Len(addresses) : addresses[i] = a
                  ELSE 0

\* Every entry has a slot that the search of eraseSlot reaches, so removing a
\* registered address always ends.
EraseEnds ==
    slots # NoSlots => \A p \in 1..Len(addresses) : HoleOf(p) # {}

\* At most half of the slots are taken, so every probe meets an empty slot,
\* and an erasure leaves no slot behind.
HalfEmpty ==
    slots # NoSlots =>
        /\ Len(addresses) =
              Cardinality({i \in DOMAIN slots : slots[i] # kEmptySlot})
        /\ NumSlots(slots) >= 2 * Len(addresses)
=============================================================================
