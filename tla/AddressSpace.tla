---------------------------- MODULE AddressSpace ----------------------------
(***************************************************************************)
(* AddressSpace (include/oscpm/address_space.h) with the MethodTable that  *)
(* holds its methods (detail/method_table.h) and the DispatchMemo that     *)
(* keeps the matches of recent patterns (detail/dispatch_memo.h).          *)
(*                                                                         *)
(* The program is sequential, but a visitor may call back into the space   *)
(* that called it, and its exceptions unwind open visits.  `stack` holds   *)
(* the C++ activation records of the open visits, innermost last; a step   *)
(* is the code between two visitor calls.                                  *)
(*                                                                         *)
(* Bytes are abstracted: an address is its rank in bytewise order, a       *)
(* pattern is a text with the set of addresses it matches (PartMatching    *)
(* models how that is decided), and a hash is the bucket it selects.  The  *)
(* AddressIndex module models the index; here a literal that is registered *)
(* is found, whether by the index or by the binary search behind it.       *)
(***************************************************************************)
EXTENDS Integers, Sequences, FiniteSets, Functions

CONSTANTS
    Spaces,         \* the AddressSpace objects of the program
    NumAddresses,   \* addresses are numbered 1..NumAddresses in bytewise order
    OtherLiterals,  \* literal patterns that are not addresses ("/a/", "/a b")
    Wildcards,      \* well-formed patterns that are not literal
    Malformed,      \* texts that do not parse as a pattern
    Selects,        \* the addresses each wildcard pattern matches
    NoText,         \* the text of a bucket nothing was stored in
    Buckets,        \* the memo's buckets, 1 << CacheBits of them
    BucketOf,       \* the bucket a text's hash selects
    Short,          \* the texts of at most kMaxMemoPatternLength bytes
    Memo,           \* template parameter: whether matches are kept
    InlineResults,  \* template parameter: the most matches a bucket lists
    MaxMethods,     \* DispatchMemo::kMaxMethods, the largest 32-bit value
    MaxDepth,       \* bound: open visits
    MaxGeneration   \* bound: adds and removes of one space

Address  == 1..NumAddresses
Literals == Address \cup OtherLiterals
Texts    == Literals \cup Wildcards \cup Malformed

ASSUME ConstantsAssumption ==
    /\ NumAddresses \in Nat
    /\ Address \cap (OtherLiterals \cup Wildcards \cup Malformed) = {}
    /\ OtherLiterals \cap (Wildcards \cup Malformed) = {}
    /\ Wildcards \cap Malformed = {}
    /\ Selects \in [Wildcards -> SUBSET Address]
    /\ NoText \notin Texts
    /\ BucketOf \in [Texts -> Buckets]
    /\ Short \subseteq Texts
    /\ Memo \in BOOLEAN
    /\ InlineResults \in Nat
    /\ MaxMethods \in Nat
    /\ MaxDepth \in Nat
    /\ MaxGeneration \in Nat

VARIABLES
    methods,        \* m_methods: the addresses in order
    memoised,       \* whether m_memo.m_buckets is not empty
    generation,     \* m_memo.m_generation
    buckets,        \* m_memo.m_buckets
    openVisits,     \* m_openVisits.m_count
    stack           \* the open visits of the program, innermost last

memoVars  == <<memoised, generation, buckets>>
vars      == <<methods, memoVars, openVisits, stack>>

kNeverStored == 0

Bucket == [generation : Nat, text : Texts \cup {NoText},
           results : Seq(Nat), numReaders : Nat]

EmptyBuckets ==
    [b \in Buckets |-> [generation |-> kNeverStored, text |-> NoText,
                        results |-> <<>>, numReaders |-> 0]]

(***************************************************************************)
(* A visit in progress.  "kept": DispatchMemo::visit over a bucket;        *)
(* "one": a single method, found by the index or by lowerBound; "none": a  *)
(* literal neither found; "scan": the loop of dispatchParsed; "all": the   *)
(* visit without a pattern.  `pos` is the position of the last delivery in *)
(* the list the visit walks, and `busy` holds while the visitor runs.      *)
(***************************************************************************)
Frame == [space : Spaces, mode : {"kept", "one", "none", "scan", "all"},
          text : Texts \cup {NoText}, pos : Nat,
          found : Seq(Nat), numFound : Nat,
          memoisable : BOOLEAN, busy : BOOLEAN]

\* No count of open visits or of readers goes below zero, through nested visits
\* and exceptions, and every member keeps its type.
TypeOK ==
    /\ methods    \in [Spaces -> Seq(Address)]
    /\ memoised   \in [Spaces -> BOOLEAN]
    /\ generation \in [Spaces -> Nat]
    /\ buckets    \in [Spaces -> [Buckets -> Bucket]]
    /\ openVisits \in [Spaces -> Nat]
    /\ stack      \in Seq(Frame)

-----------------------------------------------------------------------------
Registered(s) == Range(methods[s])

Matching(t) == IF t \in Wildcards THEN Selects[t] ELSE {t} \cap Address

\* Mutant: a search that may stop before the place it looks for.
EarlyLowerBound(list, a, p) ==
    /\ p \in 1..(Len(list) + 1)
    /\ \A i \in 1..(p - 1) : list[i] < a

\* lowerBound: p is the first place whose address is not below a.
IsLowerBound(list, a, p) ==
    /\ p \in 1..(Len(list) + 1)
    /\ \A i \in 1..(p - 1) : list[i] < a
    /\ \A i \in p..Len(list) : list[i] >= a

InsertMethod(list, p, a) ==
    [i \in 1..(Len(list) + 1) |->
        IF i < p THEN list[i] ELSE IF i = p THEN a ELSE list[i - 1]]

EraseMethod(list, p) ==
    [i \in 1..(Len(list) - 1) |-> IF i < p THEN list[i] ELSE list[i + 1]]

\* static_cast<std::uint32_t>(index), counting methods from 1.
Narrow(i) == ((i - 1) % (MaxMethods + 1)) + 1

BucketFor(s, t) == buckets[s][BucketOf[t]]

Accepts(s, t) == memoised[s] /\ t \in Short

\* Mutant: a bucket answers for any pattern that falls into it.
HoldsAnyText(s, t) == BucketFor(s, t).generation = generation[s]

Holds(s, t) ==
    /\ BucketFor(s, t).generation = generation[s]
    /\ BucketFor(s, t).text = t

\* Mutant: results are kept although their indexes may not fit 32 bits.
MemoisableAtAnySize(s, t) == Accepts(s, t)

Memoisable(s, t) == Accepts(s, t) /\ Len(methods[s]) <= MaxMethods

\* Mutant: a bucket is overwritten while a visit reads it.
RememberUnderReaders(s, t, results) ==
    [buckets EXCEPT ![s][BucketOf[t]] =
        [@ EXCEPT !.generation = generation[s],
                  !.text = t, !.results = results]]

\* store and rememberNoMatch: a bucket that is being read is left alone.
Remember(s, t, results) ==
    IF BucketFor(s, t).numReaders # 0
    THEN buckets
    ELSE [buckets EXCEPT ![s][BucketOf[t]] =
            [@ EXCEPT !.generation = generation[s],
                      !.text = t, !.results = results]]

\* Mutant: the end of a reading is counted twice.
ReadingEndsTwice(s, t, change) ==
    [buckets EXCEPT ![s][BucketOf[t]].numReaders =
        @ + (IF change < 0 THEN 2 * change ELSE change)]

\* BucketReader's constructor and destructor.
Reading(s, t, change) ==
    [buckets EXCEPT ![s][BucketOf[t]].numReaders = @ + change]

\* forget: every bucket's generation falls behind.
Forget(s) == generation' = [generation EXCEPT ![s] = @ + 1]

\* Mutant: a copy inherits the readers of its source.
KeepReaders(table) == table

ForgetReaders(table) ==
    [b \in Buckets |-> [table[b] EXCEPT !.numReaders = 0]]

-----------------------------------------------------------------------------
Inner == stack[Len(stack)]

\* The program is running code of its own, so it may call a member function.
ClientRuns == stack # <<>> => Inner.busy

\* The visit that is about to look for its next method.
Walking(mode) == stack # <<>> /\ ~Inner.busy /\ Inner.mode = mode

Unvisited(s) == openVisits[s] = 0

\* OpenVisits::Scope opens with the visit; openVisits follows the stack.
Push(frame) ==
    /\ Len(stack) < MaxDepth
    /\ stack' = Append(stack, frame)
    /\ openVisits' = [openVisits EXCEPT ![frame.space] = @ + 1]

Pop ==
    /\ stack' = SubSeq(stack, 1, Len(stack) - 1)
    /\ openVisits' = [openVisits EXCEPT ![Inner.space] = @ - 1]

Begin(s, mode, t, found, memoisable) ==
    Push([space |-> s, mode |-> mode, text |-> t, pos |-> 0, found |-> found,
          numFound |-> 0, memoisable |-> memoisable, busy |-> FALSE])

\* The visitor is called with the method the frame now stands at.
Call(frame) ==
    /\ stack' = [stack EXCEPT ![Len(stack)] = [frame EXCEPT !.busy = TRUE]]
    /\ UNCHANGED <<methods, memoVars, openVisits>>

-----------------------------------------------------------------------------
Init ==
    /\ methods    = [s \in Spaces |-> <<>>]
    /\ memoised   = [s \in Spaces |-> Memo]
    /\ generation = [s \in Spaces |-> kNeverStored + 1]
    /\ buckets    = [s \in Spaces |-> EmptyBuckets]
    /\ openVisits = [s \in Spaces |-> 0]
    /\ stack      = <<>>

(***************************************************************************)
(* add.  A duplicate, or an allocation that fails before m_methods grows,  *)
(* changes nothing.  When the index's own allocation fails, the last step  *)
(* of insert, add throws and the address is registered all the same.       *)
(***************************************************************************)
Add(s, a) ==
    /\ ClientRuns /\ Unvisited(s)
    /\ generation[s] < MaxGeneration
    /\ a \notin Registered(s)
    /\ \E p \in 1..(Len(methods[s]) + 1) :
          /\ IsLowerBound(methods[s], a, p)
          /\ methods' = [methods EXCEPT ![s] = InsertMethod(@, p, a)]
    /\ Forget(s)
    /\ UNCHANGED <<memoised, buckets, openVisits, stack>>

\* remove.  An address that is not registered changes nothing.
Remove(s, a) ==
    /\ ClientRuns /\ Unvisited(s)
    /\ generation[s] < MaxGeneration
    /\ \E p \in 1..Len(methods[s]) :
          /\ methods[s][p] = a
          /\ methods' = [methods EXCEPT ![s] = EraseMethod(@, p)]
    /\ Forget(s)
    /\ UNCHANGED <<memoised, buckets, openVisits, stack>>

(***************************************************************************)
(* visit and dispatch: dispatchIn asks the memo, then the index, and only  *)
(* then parses the text.  A malformed text opens no frame: it returns its  *)
(* fault with the space as it was.                                         *)
(***************************************************************************)
Kept(s, t) == Accepts(s, t) /\ Holds(s, t)

\* DispatchMemo::visit: the bucket is under read while the visit is open.
VisitKept(s, t) ==
    /\ ClientRuns /\ Kept(s, t)
    /\ Begin(s, "kept", t, <<>>, FALSE)
    /\ buckets' = Reading(s, t, 1)
    /\ UNCHANGED <<methods, memoised, generation>>

\* visitMethod on the index's hit, or dispatchParsed on lowerBound's.
VisitOne(s, t) ==
    /\ ClientRuns /\ ~Kept(s, t)
    /\ t \in Literals
    /\ \E p \in 1..Len(methods[s]) :
          /\ methods[s][p] = t
          /\ Begin(s, "one", t, <<p>>, FALSE)
    /\ UNCHANGED <<methods, memoVars>>

\* dispatchParsed on a literal nothing is registered under.
VisitNone(s, t) ==
    /\ ClientRuns /\ ~Kept(s, t)
    /\ t \in Literals /\ t \notin Registered(s)
    /\ Begin(s, "none", t, <<>>, FALSE)
    /\ UNCHANGED <<methods, memoVars>>

\* dispatchParsed on a pattern that is not literal.
VisitScan(s, t) ==
    /\ ClientRuns /\ ~Kept(s, t)
    /\ t \in Wildcards
    /\ Begin(s, "scan", t, <<>>, Memoisable(s, t))
    /\ UNCHANGED <<methods, memoVars>>

VisitAll(s) ==
    /\ ClientRuns
    /\ Begin(s, "all", NoText, <<>>, FALSE)
    /\ UNCHANGED <<methods, memoVars>>

-----------------------------------------------------------------------------
\* One iteration of the loop in DispatchMemo::visit.
DeliverKept ==
    /\ Walking("kept")
    /\ Inner.pos < Len(BucketFor(Inner.space, Inner.text).results)
    /\ Call([Inner EXCEPT !.pos = @ + 1])

DeliverOne ==
    /\ Walking("one") /\ Inner.pos = 0
    /\ Call([Inner EXCEPT !.pos = 1])

Matches(frame, i) == methods[frame.space][i] \in Selects[frame.text]

\* Mutant: matches beyond InlineResults are delivered but not counted.
DeliverScanCountingKept ==
    /\ Walking("scan")
    /\ \E i \in (Inner.pos + 1)..Len(methods[Inner.space]) :
          /\ Matches(Inner, i)
          /\ \A j \in (Inner.pos + 1)..(i - 1) : ~Matches(Inner, j)
          /\ Call(IF Inner.numFound < InlineResults
                  THEN [Inner EXCEPT !.pos = i, !.numFound = @ + 1,
                                     !.found = Append(@, Narrow(i))]
                  ELSE [Inner EXCEPT !.pos = i])

\* Mutant: the loop may pass over a match.
DeliverScanSkipping ==
    /\ Walking("scan")
    /\ \E i \in (Inner.pos + 1)..Len(methods[Inner.space]) :
          /\ Matches(Inner, i)
          /\ Call([Inner EXCEPT
                !.pos = i,
                !.found = IF Inner.numFound < InlineResults
                          THEN Append(@, Narrow(i)) ELSE @,
                !.numFound = @ + 1])

\* The loop of dispatchParsed up to its next match, and what it notes of it.
DeliverScan ==
    /\ Walking("scan")
    /\ \E i \in (Inner.pos + 1)..Len(methods[Inner.space]) :
          /\ Matches(Inner, i)
          /\ \A j \in (Inner.pos + 1)..(i - 1) : ~Matches(Inner, j)
          /\ Call([Inner EXCEPT
                !.pos = i,
                !.found = IF Inner.numFound < InlineResults
                          THEN Append(@, Narrow(i)) ELSE @,
                !.numFound = @ + 1])

\* Mutant: the walk calls the visitor without moving on.
DeliverAllInPlace ==
    /\ Walking("all")
    /\ Inner.pos < Len(methods[Inner.space])
    /\ Call(Inner)

DeliverAll ==
    /\ Walking("all")
    /\ Inner.pos < Len(methods[Inner.space])
    /\ Call([Inner EXCEPT !.pos = @ + 1])

Deliver == DeliverKept \/ DeliverOne \/ DeliverScan \/ DeliverAll

VisitorReturns ==
    /\ stack # <<>> /\ Inner.busy
    /\ stack' = [stack EXCEPT ![Len(stack)].busy = FALSE]
    /\ UNCHANGED <<methods, memoVars, openVisits>>

\* The walk is over: no method of the list is left.
ReturnKept ==
    /\ Walking("kept")
    /\ Inner.pos = Len(BucketFor(Inner.space, Inner.text).results)
    /\ buckets' = Reading(Inner.space, Inner.text, -1)
    /\ Pop
    /\ UNCHANGED <<methods, memoised, generation>>

ReturnOne ==
    /\ Walking("one") /\ Inner.pos = 1
    /\ Pop
    /\ UNCHANGED <<methods, memoVars>>

\* rememberNoMatch, and a count of nothing.
ReturnNone ==
    /\ Walking("none")
    /\ buckets' = IF Memoisable(Inner.space, Inner.text)
                  THEN Remember(Inner.space, Inner.text, <<>>)
                  ELSE buckets
    /\ Pop
    /\ UNCHANGED <<methods, memoised, generation>>

ReturnScan ==
    /\ Walking("scan")
    /\ \A i \in (Inner.pos + 1)..Len(methods[Inner.space]) : ~Matches(Inner, i)
    /\ buckets' = IF Inner.memoisable /\ Inner.numFound <= InlineResults
                  THEN Remember(Inner.space, Inner.text, Inner.found)
                  ELSE buckets
    /\ Pop
    /\ UNCHANGED <<methods, memoised, generation>>

ReturnAll ==
    /\ Walking("all")
    /\ Inner.pos = Len(methods[Inner.space])
    /\ Pop
    /\ UNCHANGED <<methods, memoVars>>

Return == ReturnKept \/ ReturnOne \/ ReturnNone \/ ReturnScan \/ ReturnAll

\* An exception leaves the visitor: the visit's destructors run, and the
\* exception reaches the visitor, if any, that made the visit.
Throw ==
    /\ stack # <<>> /\ Inner.busy
    /\ buckets' = IF Inner.mode = "kept"
                  THEN Reading(Inner.space, Inner.text, -1)
                  ELSE buckets
    /\ Pop
    /\ UNCHANGED <<methods, memoised, generation>>

-----------------------------------------------------------------------------
\* Copy assignment, or copy construction of dst.  The source may be open.
Copy(dst, src) ==
    /\ ClientRuns /\ Unvisited(dst) /\ dst # src
    /\ methods'    = [methods EXCEPT ![dst] = methods[src]]
    /\ memoised'   = [memoised EXCEPT ![dst] = memoised[src]]
    /\ generation' = [generation EXCEPT ![dst] = generation[src]]
    /\ buckets'    = [buckets EXCEPT ![dst] = ForgetReaders(buckets[src])]
    /\ UNCHANGED <<openVisits, stack>>

\* Mutant: the source of a move keeps its buckets.
MoveLeavingBuckets(dst, src) ==
    /\ ClientRuns /\ Unvisited(dst) /\ Unvisited(src) /\ dst # src
    /\ methods'    = [methods EXCEPT ![dst] = methods[src], ![src] = <<>>]
    /\ memoised'   = [memoised EXCEPT ![dst] = memoised[src]]
    /\ generation' = [generation EXCEPT ![dst] = generation[src]]
    /\ buckets'    = [buckets EXCEPT ![dst] = buckets[src]]
    /\ UNCHANGED <<openVisits, stack>>

\* Move assignment, or move construction of dst: the source keeps its
\* generation and is left with no methods and no buckets.
Move(dst, src) ==
    /\ ClientRuns /\ Unvisited(dst) /\ Unvisited(src) /\ dst # src
    /\ methods'    = [methods EXCEPT ![dst] = methods[src], ![src] = <<>>]
    /\ memoised'   = [memoised EXCEPT ![dst] = memoised[src], ![src] = FALSE]
    /\ generation' = [generation EXCEPT ![dst] = generation[src]]
    /\ buckets'    = [buckets EXCEPT ![dst] = buckets[src],
                                     ![src] = EmptyBuckets]
    /\ UNCHANGED <<openVisits, stack>>

\* A space is destroyed and another constructed in its place.
Construct(s) ==
    /\ ClientRuns /\ Unvisited(s)
    /\ methods'    = [methods EXCEPT ![s] = <<>>]
    /\ memoised'   = [memoised EXCEPT ![s] = Memo]
    /\ generation' = [generation EXCEPT ![s] = kNeverStored + 1]
    /\ buckets'    = [buckets EXCEPT ![s] = EmptyBuckets]
    /\ UNCHANGED <<openVisits, stack>>

-----------------------------------------------------------------------------
Next ==
    \/ \E s \in Spaces, a \in Address : Add(s, a) \/ Remove(s, a)
    \/ \E s \in Spaces, t \in Texts :
          \/ VisitKept(s, t) \/ VisitOne(s, t)
          \/ VisitNone(s, t) \/ VisitScan(s, t)
    \/ \E s \in Spaces : VisitAll(s) \/ Construct(s)
    \/ \E dst, src \in Spaces : Copy(dst, src) \/ Move(dst, src)
    \/ Deliver \/ VisitorReturns \/ Return \/ Throw

Spec == Init /\ [][Next]_vars

(***************************************************************************)
(* A visitor is the program's own code: it is assumed to come back, however *)
(* many visits it makes first.  Everything else the thread simply runs.    *)
(***************************************************************************)
Fairness ==
    /\ WF_vars(Deliver) /\ WF_vars(Return)
    /\ \A d \in 1..MaxDepth : SF_vars(Len(stack) = d /\ VisitorReturns)

LiveSpec == Spec /\ Fairness

-----------------------------------------------------------------------------
(***************************************************************************)
(* Properties.                                                             *)
(***************************************************************************)

\* The positions in 1..n whose method the pattern matches, in order.
IsMatchList(list, t, positions, n) ==
    /\ \A i, j \in 1..Len(positions) : i < j => positions[i] < positions[j]
    /\ \A k \in 1..Len(positions) : positions[k] \in 1..n
    /\ \A i \in 1..n : list[i] \in Matching(t) <=>
           \E k \in 1..Len(positions) : positions[k] = i

Live(s, b) == buckets[s][b].generation = generation[s]

\* Addresses are distinct and in bytewise order, whatever was added, removed,
\* copied or moved: lowerBound and the order of every visit rest on it.
MethodsInOrder ==
    \A s \in Spaces : \A i, j \in 1..Len(methods[s]) :
        i < j => methods[s][i] < methods[s][j]

\* A bucket that would be delivered from lists exactly the methods its pattern
\* matches now: no result outlives an add, a remove, a copy, a move or a
\* visitor's exception, and none is cut short by InlineResults or by 32 bits.
MemoCoherent ==
    \A s \in Spaces, b \in Buckets : Live(s, b) =>
        LET kept == buckets[s][b] IN
        /\ kept.text \in Texts \ Malformed
        /\ IsMatchList(methods[s], kept.text, kept.results, Len(methods[s]))

Opened(frames, s) == {i \in 1..Len(frames) : frames[i].space = s}

ReadBy(frames, s, b) ==
    {i \in Opened(frames, s) :
        frames[i].mode = "kept" /\ BucketOf[frames[i].text] = b}

\* Every count of open visits and of readers is the number of visits on the
\* stack, through nesting, exceptions and copies of a space that is being
\* visited: so an idle space accepts add and remove, and every bucket can be
\* stored in again.
ReadersBalanced ==
    \A s \in Spaces :
        /\ openVisits[s] = Cardinality(Opened(stack, s))
        /\ \A b \in Buckets :
              buckets[s][b].numReaders = Cardinality(ReadBy(stack, s, b))

\* A bucket is never overwritten under the visit that is reading it, whatever
\* patterns the visitor visits in the meantime.
ReadBucketsStay ==
    [][\A s \in Spaces, b \in Buckets :
          buckets[s][b].numReaders # 0 /\ buckets'[s][b].numReaders # 0 =>
              buckets'[s][b] = [buckets[s][b] EXCEPT
                  !.numReaders = buckets'[s][b].numReaders]]_vars

\* MatchResult::matched, as the innermost visit of a pattern returns it.
NumReturned ==
    CASE Inner.mode = "kept" -> Len(BucketFor(Inner.space, Inner.text).results)
      [] Inner.mode = "one"  -> 1
      [] Inner.mode = "none" -> 0
      [] Inner.mode = "scan" -> Inner.numFound

NumMatched(s, t) == Cardinality(Matching(t) \cap Registered(s))

\* Every visit of a pattern that returns, by whichever of the four ways it was
\* answered, says in MatchResult::matched how many registered addresses the
\* pattern matches, however many of them a bucket could list and whatever its
\* visitors visited in the meantime.
ReturnsMatchCount ==
    [][Return /\ Inner.mode # "all" =>
          NumReturned = NumMatched(Inner.space, Inner.text)]_vars

\* What an open visit has still to deliver.
Pending(f) ==
    LET Rest(positions) == {methods[f.space][i] : i \in positions} IN
    CASE f.mode = "kept" ->
            LET results == BucketFor(f.space, f.text).results
            IN  Rest({results[k] : k \in (f.pos + 1)..Len(results)})
      [] f.mode = "one"  -> Rest({f.found[k] : k \in (f.pos + 1)..1})
      [] f.mode = "none" -> {}
      [] f.mode = "scan" ->
            Selects[f.text] \cap Rest((f.pos + 1)..Len(methods[f.space]))
      [] f.mode = "all"  -> Rest((f.pos + 1)..Len(methods[f.space]))

\* A space as the set of addresses it is to its callers, and its open visits as
\* what they have still to deliver.
registered == [s \in Spaces |-> Registered(s)]

calls ==
    [i \in 1..Len(stack) |-> [space   |-> stack[i].space,
                              text    |-> stack[i].text,
                              pending |-> Pending(stack[i]),
                              busy    |-> stack[i].busy]]

Promise == INSTANCE AddressSpaceSpec

\* The table with its memo is indistinguishable from the plain set of
\* addresses: every visit, kept or not, nested or not, hands exactly the
\* addresses its pattern matches to the visitor, once each, in bytewise order.
DeliversAsPromised == Promise!Spec

\* Every visit comes to an end, when visitors do.
EveryVisitReturns ==
    \A d \in 1..MaxDepth : Len(stack) >= d ~> Len(stack) < d
=============================================================================
