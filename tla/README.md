# A formal model of oscpm

oscpm is a header-only C++17 library that matches OpenSoundControl address
patterns against addresses and keeps values registered under addresses. This
directory holds TLA+ models of its code, the TLC configurations that check them
on small instances, and proofs, checked by TLAPS, that hold for every value of
the constants.

Contents: [the system](#the-system) · [modules and code](#modules-and-code) ·
[runs](#runs) · [bounds](#bounds) · [fairness](#fairness) ·
[proofs](#proofs) · [findings](#findings) ·
[limits of the models](#what-is-not-modelled) · [plan](#plan) ·
[how to run](#how-to-run)

## The system

Paths are relative to `src/include/oscpm/`.

| component | state | operations | must hold | modules |
|---|---|---|---|---|
| `AddressSpace` (`address_space.h`) | a `MethodTable`; in builds with assertions a count of open visits | `add`, `remove`, `find`, `visit` with and without a pattern, `dispatch`, copy, move | a visit hands each matching address to the visitor exactly once, in bytewise order, whatever the visitor does within its rule; an idle space accepts `add` and `remove` | `AddressSpaceSpec`, `AddressSpace` |
| `MethodTable` (`detail/method_table.h`) | the methods sorted by address, the ends of their parts, an `AddressIndex`, a `DispatchMemo` | `insert`, `erase`, `find`, `dispatchIn` and its two halves, assignment | the table stays sorted and without duplicates; its four members agree, also when a statement of an update throws | `AddressSpace`, `MethodTable` |
| `DispatchMemo` (`detail/dispatch_memo.h`) | buckets (pattern, results, generation, readers), the current generation | `visit`, `store`, `rememberNoMatch`, `forget`, copy, move | a live bucket lists exactly the methods its pattern matches now; a bucket is not overwritten while it is read | `AddressSpace` |
| `AddressIndex` (`detail/address_index.h`) | the hash of each method, open-addressing slots | `insert`, `erase`, `rebuild`, `find` | finds exactly the entries it holds; every probe ends | `AddressIndex` |
| `matchParts`, cursors (`detail/match.h`, `detail/prepared.h`) | two cursors and the place to retry from | the loop over tokens and parts | decides the declarative relation; ends within pattern length × address length | `PartMatching`, `PatternText` |
| `matchParsed`, `matchPartAt` (`detail/match.h`) | two positions in the texts and the place to retry from | the same loop over bytes, used by `Pattern::matches` and for patterns of more than 64 tokens | agrees with `matchParts` on every pair of texts | `PatternText` |
| `matchPart`, `Reach` (`detail/match.h`, `detail/reach.h`) | a bit set of positions in a part | four paths: too long, literal, direct, reach | all paths decide the same relation; no bit outside the words | `MatchPart` |
| validation (`detail/validate.h`, `detail/syntax.h`, `pattern.h`, `address.h`) | the position of a scan and its run of bytes | `scanPattern`, `validateAddress`, `validateAddressBytes` | the word-at-a-time path reports what a byte-at-a-time scan would | `Validation` |
| word arithmetic (`detail/word.h`) | none | the byte tests of a word | no wrong answer, whatever carries between the bytes | `Words` |
| `Expected`, errors, `StringView` | immutable values | constructors, accessors | – | – |

How they interact. `AddressSpace` opens a `Scope` of its visit count and calls
its `MethodTable`. `dispatchIn` asks the memo first, then the index, and only
then parses the text; `dispatchParsed` looks a literal up by binary search, or
scans every method with `matchParts` over prepared parts (which calls
`matchPart`), and afterwards stores what it found in the memo. `insert` and
`erase` change the sorted methods, tell the memo to forget, and renumber the
index.

What is hard. There are no threads: the library is "not safe for concurrent
use". What interleaves is the *visitor*. It is called in the middle of a loop
over the table or over a memo bucket, and may visit, dispatch to and copy the
same space, and throw through any number of nested visits. The other hard
parts are failures in the middle of an update (an allocation, or a move of a
value, that throws after an address is registered), 32-bit numbers for
positions, a deletion that moves entries back over a hole, a matcher that gives
up earlier choices without backtracking and exists in three versions, and scans
that read eight bytes at a time but must report what a scan by bytes would.
`PROJECT.json` lists each hazard at its line with the properties that guard
against it.

## Modules and code

### `AddressSpaceSpec`: what a space promises

The abstract specification, from the doc comments and signatures of
`address_space.h`: a space is a *set* of addresses (`registered`), a visit is a
record of what it has still to deliver (`calls`, the stack of open visits).
`Deliver` hands out the least pending address; `Return` requires that none is
left. There is no table, memo or index.

### `AddressSpace`: the table and its memo

| variable | code |
|---|---|
| `methods[s]` | `MethodTable::m_methods`, as the sequence of its addresses |
| `buckets[s]`, `generation[s]` | `DispatchMemo::m_buckets`, `m_generation` |
| `memoised[s]` | whether `m_buckets` is not empty (a moved-from memo has none) |
| `openVisits[s]` | `OpenVisits::m_count` |
| `stack` | the C++ activation records of the visits in progress |

An address is its rank in bytewise order. A pattern is a text together with the
set of addresses it matches (`Selects`), which `PatternText`, `PartMatching` and
`MatchPart` are about. A hash is the bucket it selects (`BucketOf`), so any
number of collisions can be instantiated. Positions count from 1.

| action | code |
|---|---|
| `Add`, `Remove` | `insert`, `erase` with `forget`; guarded by the assertion that no visit is open |
| `VisitKept` | `dispatchKnown` when `DispatchMemo::visit` finds its bucket live |
| `VisitOne` | an index hit, or the literal branch of `dispatchParsed` |
| `VisitNone`, `ReturnNone` | the literal branch that finds nothing and ends in `rememberNoMatch` |
| `VisitScan`, `VisitAll` | the loops of `dispatchParsed` and of the visit without a pattern |
| `DeliverKept`, `DeliverOne`, `DeliverScan`, `DeliverAll` | the loop of each up to its next call of the visitor |
| `VisitorReturns`, `Throw` | the visitor returns, or throws: `~BucketReader`, `~Scope` |
| `ReturnKept`, `ReturnOne`, `ReturnScan`, `ReturnAll` | the code behind each loop, with `store` |
| `Copy`, `Move`, `Construct` | the special members of the space, its table and its memo |

A step is the code between two visitor calls. The program calls a member
function only when no visit is open or the innermost visitor is running
(`ClientRuns`), and a visitor obeys the documented rule: it does not add to,
remove from, move from or assign to the space that called it. `Pending` maps a
frame of `stack` to what `AddressSpaceSpec` says it has still to deliver;
`DeliversAsPromised` is that refinement.

### `MethodTable`: updates, one statement at a time

`AddressSpace` takes an update in one step. Here `insert`, `erase` and copy
assignment are lists of statements (`InsertSteps`, `EraseSteps`,
`AssignSteps`); each statement is an action that completes, or throws and leaves
the table in one of the states the statement can leave behind. `table[t]` is
`m_methods`, `m_partEnds`, the hashes of `m_index`, each with its capacity, the
number of its slots, and `m_memo`; `call` is the update that runs, or how the
last one ended. `movesCannotThrow` is `kMethodMovesCannotThrow`, a property of
the type of the values: it is chosen once and keeps its value, and with it
false there are neither part ends nor index.

A vector allocates only when it is full, so `Reserved` is what makes the later
insertions of an update safe, and dropping it is a mutant. When the move of a
value throws, `std::vector::insert` and `erase` leave the methods half shifted,
with one address moved from; `HalfInserted` and `HalfErased` list those states
in the order in which libstdc++ moves. `HalfCopied` does the same for
assignment. Copies of numbers do not throw; `AssignSlots` and `AssignHashes`
fail only where room is missing. `rebuild` clears the slots without giving up
their room, so a table without slots may have room the model does not know of:
there the model lets an allocation fail that the code would not make.

Nothing in the library keeps a program from using a table that an exception has
left half done, and nothing in the model does: it may be visited, updated,
copied and moved like any other. What the code then does is what its statements
do with members that do not agree. A search in methods out of order ends at
some place that `IsLowerBound` allows; a scan with the parts of other addresses
finds anything; a statement that would write past the end of a vector, read past
the ends of the parts, or probe slots that are those of other hashes
(`slotsFit` is false) is undefined, and the outcome of its call is `undefined`,
after which the model says nothing and stops. `halfDone` is a history variable:
the tables which a throwing move or a throwing assignment left half done, until
a whole table is assigned to or moved into them. No guard reads it; the
properties do, to say which tables they promise nothing of.

### `AddressIndex`: open addressing with renumbering

`slots` is `m_slots` as a function from slot numbers (empty after a rebuild
that failed or was refused), `hashes` is `m_hashes`, and `addresses` is the
sorted table of the caller. `Insert` is `reserveForInsert` and `insert`,
`Erase` is `erase` with `eraseSlot`; both choose freely whether the allocation
in `rebuild` succeeds. A probe loop is the first step that meets its condition
(`FirstStep`). The greatest value of a slot is `kMaxEntries`, and the
renumbering is done modulo one more, as unsigned arithmetic does.

### `PartMatching`: the loop over tokens and parts

One action per branch of `matchParts`: `PassOperator`, `AdvanceBoth`, `Retry`,
`Fail`, and `Succeed` behind the loop. A cursor is a position in a sequence of
tokens or of parts. Runs of slashes are single tokens, so operators are never
neighbours. `matchPart` is the relation `Fits`. `compared` is a history
variable for the pairs of parts that were compared. The reference is
`MatchesFrom`: a layout of the tokens along the parts.

### `PatternText`: three ways through the same two texts

The code has the loop three times: `matchParsed` over positions in the texts,
`matchParts` over `PatternCursor` and `AddressCursor`, and `matchParts` over the
tokens `prepareParts` stores and the ends `partEndsOf` stores, which gives up
for `matchParsed` when a pattern has more than `maxPreparedParts` tokens. The
three have the same branches, so an action is written once, over operators that
say what each way takes a position to be (`AfterOperator`, `PartsMatch`,
`PatternAfterPart`, ...); `way` says which one runs. `PrepareNext`, `FallBack`
and `UsePrepared` are `prepareParts` and the choice behind it. `MatchPartAt`
compares bytes up to the first opener and calls `MatchPart` only there.

A text is a sequence of slashes, plain bytes and one wildcard, `*`, which stands
for all openers: what a part matches is the business of `MatchPart` and only its
length limit and the shortcut of `matchPartAt` matter here. Texts need not have
parsed, except where dispatch only ever passes texts that have.

`Tokens` and `AddressParts` cut the two texts up declaratively, by the positions
at which a token or a part starts, and `TokenIndex` and `PartIndex` map a
position of any way to a place in them. `ImplementsPartLoop` is the refinement:
in every way, each step is a step of `PartMatching` on those tokens and parts or
leaves them alone. With `MatchesCorrectly`, proved for `PartMatching`, the three
ways decide the same relation. The bounds of `PartMatching` belong to its own
initial states, which `Begins` leaves out; so they are zero in the instance.

### `MatchPart`: one part against one part

One action per path of `matchPart` (`RejectLongPart`, `CompareLiteral`,
`RejectShortPart`, `MatchDirect`, `StartWithin`) and per branch of the loop of
`matchPartWithin`. A pattern part is a sequence of tokens; the members of a set
stay bytes, because `setContains` decides there what is a range. `reach` is the
set of bits of a `Reach`, and `Seen` the part of it that `empty` and `lowest`
look at. The reference is `Denotes`: a way to cut the text into one piece for
each token.

### `Words` and `Validation`: scans by words

`Words` has every function of `word.h` and the two tests `validate.h` builds
from them. A word is the sequence of its bytes; `Plus` carries from
one byte into the next, which is the difficulty: `bytesDifferingFrom` does not
mask its sum. Shifts and the multiplication are done on bytes too, so that words
have eight bytes as in the code. `MCWords` reads a word byte by byte
(`MCSpec`) and compares every test with the byte-wide functions of `syntax.h`.

`Validation` has `scanPattern` and `validateAddress` with their positions as
variables: `ReadWord` and `StartRun` are the two branches at the top of the loop
of `scanPattern`, where `stop` is the end of a run of bytes and `byteRun` the
length of the next; each byte of a run is an action named for what it finds;
`EndPattern` is the code behind the loop. `AcceptWord`, `RejectWord` and
`LeaveWords` are the loop of `validateAddress`, and the actions after them the
bytes it hands over. Words are short and use the operators of `Words`, whose
answers `WordTests` tabulates once for every word the texts can hold. The
reference (`PatternFault`, `AddressFault`, `HasWildcard`) reads single bytes
from the left and knows no words, runs or part starts.

### Instances and proofs

Each module but `AddressSpaceSpec` has an `MC` module that gives the constants
of its runs (`MCWords` is also the state machine over `Words`). The theorems
about a module `M` are in `M_proofs`, above the lemmas about numbers, functions
and lists in `DataLemmas`; those about `Words` are in `Validation_proofs`, which
rests on them. Definitions marked
*Mutant* in the modules are plausible bugs of the code (a dropped guard, a
missing reset, an off-by-one); each is named in `PROJECT.json` with the property
that catches it.

## Runs

| run | instance | what it shows |
|---|---|---|
| `space_reentrant` | 1 space, 4 addresses, patterns matching the first and last and the last alone, literals nothing is registered under, one too long to keep, a malformed text, **one** bucket, `InlineResults` 1, `MaxMethods` 2, nesting to depth 3, 4 changes | visits of the same space from a visitor, exceptions included, with results that outgrow a bucket or 32 bits: `MemoCoherent`, `ReadBucketsStay`, the count of every visit (`ReturnsMatchCount`), and the refinement `DeliversAsPromised` |
| `space_copies` | 2 spaces, 2 addresses, depth 2, 2 changes per space | copying, moving and reconstructing, also while the source is visited: `ReadersBalanced`, `MemoCoherent`, `MethodsInOrder`, the refinement for both spaces, and that every visit ends (`EveryVisitReturns`) |
| `index` | 5 addresses, every assignment of the hashes 6, 7 and 15, 4 slots at first, `kMaxEntries` 7, failing rebuilds | `FindsExactlyHeld`, `EraseEnds`, `HalfEmpty` |
| `index_width` | `kMaxEntries` 3 (slots of 2 bits), 2 slots at first | a violation, the first of the [findings](#findings) |
| `method_table` | 2 tables, 2 addresses, 3 updates, 1 exception at any statement, values whose moves throw and values whose moves do not; tables left half done are used on | of the tables that are not half done: `WholeAtRest`: the members agree wherever an update ended; `KeptMatchesHold`: no match is kept that no longer holds; `AllOrNothing`: what an update that threw has done |
| `table_torn` | 1 table, 3 addresses, 6 updates, 1 exception | a violation, the second of the findings |
| `part_matching` | patterns of up to 5 tokens, addresses of up to 4 parts | `MatchesAsDefined`, `NeverComparesAgain`, `Returns` |
| `pattern_text` | patterns of up to 3 bytes over two plain bytes, `/` and `*`, of 4 that begin with a slash or use one plain byte, of 5 that do both; addresses of up to 3 bytes, and of 4 that begin with a slash; parts longer than 2 bytes too long, room for 2 tokens | `ImplementsPartLoop`, `AnswersAsDefined`, `LiteralMatchesOnlyItself`, `Returns` |
| `match_part` | 10 tokens, patterns of up to 3, parts of up to 4 bytes, words of 2 bits, longest part 3 | `ReachFits`, `ReachIsPrefixMatch`, `ResultAsDefined` |
| `words` | words of eight bytes: any made of `/`, `[` and 255, and any of those with two of 30 bytes side by side | `PatternTestExact`, `AddressTestExact`, `SeparatorsExact` |
| `validation` | texts of a slash and up to 6 bytes: patterns over one kind of construct, `*` and a byte above ASCII, shorter ones over both kinds and NUL, addresses over 4 bytes; words of 2, first run of 2, limits of 5 | `PatternFaultAsDefined`, `AddressFaultAsDefined`, `LiteralAsDefined`, `Returns` |
| `first_fault` | the same texts and limits | a violation, the third of the findings |

Deadlock is checked in the runs of `AddressSpace` and `AddressIndex`. It is not
where the system stops by itself: the matchers, scans and the reading of a word
end when they return, and in `method_table` the bounds may be reached, or a call
be undefined.

## Bounds

`MaxDepth` and `MaxGeneration` (changes of a table) of `AddressSpace`,
`MaxUpdates`, `MaxThrown` and `MaxMethods` (updates, exceptions, size of a table
that grows) of `MethodTable`, `MaxHeld`, and the lengths of texts are the only
bounds that cut behaviours. `kMaxMethods`, which `AddressSpace` calls
`MaxMethods`, `InlineResults`, `kMaxEntries`, `kMinSlots`,
`kMaxAddressPartLength`, `kMaxPatternLength`, `maxPreparedParts`, `bitsPerWord`,
`firstByteRun` and the `wordSize` of `Validation` are limits of the code made
small so that they are crossed. Why they are large enough to be interesting:

* One bucket for all texts makes every store meet every reader. Depth 3 is a
  visit that reads a bucket, one that scans inside it, and one that stores
  inside that. Four changes of the table make it outgrow `kMaxMethods`, or
  outdate a bucket that is filled, have it refilled and outdate it again. With
  `InlineResults` 1 a pattern of two matches outgrows a bucket, and the pattern
  of the last address alone is a scan that goes on, or ends, without a match.
* The hashes 7 and 15 have the last slot of a table of 4 or 8 as their home,
  so probes wrap; 6 is the neighbour whose entries get in their way; and 7 and
  15 part in a table of 16, as a rebuild at five entries makes it. Five
  addresses cross two rebuilds.
* Two addresses are enough for a shift that is half done: the erasure of the
  first of two, and an insertion ahead of one with room to spare, which a table
  has after a smaller one was assigned to it. A method more, moved from, is what
  such a shift leaves. Two tables are a source and a target of an assignment with
  more, as much and less room than it needs, and three updates with one exception
  leave some for a table that is half done. `table_torn` has three addresses,
  whose shifts have a middle.
* Five tokens are enough for two operators with a part between, before and
  after them, which is where giving up the first operator could matter. Five
  bytes of text hold three tokens, one more than there is room for, so that
  `prepareParts` both fits and gives up, and have runs of slashes at the start,
  the end and in the middle, also in texts that would not parse.
* With words of two bits, a part of 0 to 3 bytes goes through both widths of
  `Reach`, the first and last bit of a word, the longest part and one too long.
* The tests of a word work on each byte and on a carry from the byte below, so
  two free bytes at every place of a word, over fills that carry and fills that
  do not, meet every case; the 30 bytes lie on both sides of each boundary in
  the tests. The last step of `numBytesAfterLast`, which spreads marks over four
  bytes, needs the full word.
* Texts of seven bytes hold three words and a byte, or a run of two, one of
  four and what follows it, with the limit at the fifth byte inside a word, a
  run or a construct.

## Fairness

`AddressSpace` needs fairness only for `EveryVisitReturns`. The loops and the
code behind them are straight code of one thread: `WF_vars(Deliver)` and
`WF_vars(Return)`. The visitor is the program's own code; that it comes back is
an assumption about the program, not about the library. Since it may make
visits of its own first, at each depth it is enabled again and again without
being enabled continuously, hence `SF_vars(Len(stack) = d /\ VisitorReturns)`
for each depth `d`. Nothing is assumed about the calls a program makes.
`PartMatching`, `PatternText` and `Validation` are functions of one thread that
run until they return: `WF_vars(Next)`.

## Proofs

All theorems are for *every* value of the constants under the named assumptions
of the modules, which TLC evaluates on every run. The assumptions state types,
disjointness of the kinds of text and that bounds are numbers, and four things
the code fixes: the static assertion `kMaxPatternLength <=
kMaxAddressPartLength`, that the bits of the widest `Reach` are those of whole
words, that a slot can hold at least one entry, and that a word has at most
eight bytes, since `numBytesAfterLast` spreads its marks in three steps and no
more. So the proofs hold for any number of spaces, addresses, texts and buckets,
any `BucketOf`, any hashes, any texts over any bytes, any nesting depth and any
limits. One hypothesis is not in an `ASSUME`, for a run and a finding are about
its failing: `MaxHeld <= kMaxEntries`, in the theorems of `AddressIndex_proofs`.

`AddressSpace_proofs`:

* `TypeCorrect`: no count of readers or visits goes below zero.
* `StaysInOrder`: `Spec => []MethodsInOrder`.
* `MemoStaysCoherent`: `Spec => []MemoCoherent`, the heart of the memo.
* `ReadersStayBalanced`: `Spec => []ReadersBalanced`.
* `ReadBucketsAreKept`: `Spec => ReadBucketsStay`, an action property.

The inductive invariant `IInv` adds two facts to the four invariants. A kept
result becomes wrong in two ways: the table changes under it, or it was wrong
when it was stored. `NothingNewer` says no bucket has a generation above the
current one, so `forget`, which only increments the generation, outdates all of
them at once. `FramesSound` says that every scan on the stack that may still be
kept has noted exactly the matches up to where it stands, in a table of at most
`kMaxMethods` methods; since the table of a visited space cannot change, that
survives anything a visitor does, and when the scan ends it is what `store`
needs. `ReadersBalanced` is needed for both: a space without an open visit has
no frames and no readers, so it may be changed, replaced or emptied. The proof
has one lemma per action, above lemmas about sequences of frames
(`PushedFrames`, `PoppedFrames`), insertion and erasure, and lists of matches
(`ExtendedMatchList`, `CompletedMatchList`).

In its second half, the refinement:

* `ImplementsPromise`: `Spec => DeliversAsPromised`, the table with its memo
  implements `AddressSpaceSpec`.
* `CountsMatches`: `Spec => ReturnsMatchCount`, an action property: whichever way
  a visit of a pattern was answered, the count it returns is the number of
  registered addresses the pattern matches.

`registered` and `calls` are the refinement mapping. A call has still to deliver
what its frame has ahead of it: the rest of a bucket's list, the one method, the
matches left in the table, or the rest of the table. So every step must leave
the calls below the innermost one as they are, although it may have changed
tables, generations and buckets: no step changes the table of a visited space
(`VisitedSpacesStay`) or a bucket under read (`ReadBucketsAreKept`'s lemma),
hence `StepKeepsFrames`. `FramesStand` adds to `IInv` what a frame relies on
between its own steps: a kept visit reads a bucket that still answers for its
pattern, a single method is within the table, a scan has counted the matches it
has passed. A kept visit then delivers what `MemoCoherent` says its bucket
holds, and `NextIsLeast` shows that the next entry of a list in order is the
least address left, which is the one the abstract `Deliver` takes. There is one
lemma per action. `CountsMatches` follows from the same invariant, by the
bijection of a list of matches with the set it lists; a scan returns from
wherever its last match was, with no match left behind it.

`PartMatching_proofs`:

* `MatchesCorrectly`: `matchParts` answers true exactly when a layout exists.
* `WorkBounded`: no pair of parts is compared twice.
* `TypeCorrect`.

The invariant says, while the loop runs, that a layout of the whole exists if
and only if one exists from the two cursors or from a later retry of the last
operator (`NothingLost`). Behind the last operator there are only parts, so a
layout from there is fixed by where it starts (`LayoutsInStep`), and the retries
try every start. Giving up an earlier operator loses nothing, because the last
operator can take whatever the earlier one would have taken. `ComparedBefore`
orders the comparisons by diagonal and token for `WorkBounded`.

`MatchPart_proofs`:

* `AnswersCorrectly`: `Spec => []ResultAsDefined`, each path of `matchPart`
  answers true exactly when the part can be cut into pieces the tokens match.
* `WalkIsExact`: `Spec => []ReachIsPrefixMatch`.
* `ReachAlwaysFits`: `Spec => []ReachFits`, no bit is outside the words.
* `TypeCorrect`.

`Reached(n)` is the set of positions the first `n` tokens can lead to, and
`ReachesOneMore` says how one more token moves it: that step is what the
branches of the loop do with bits. A reach of one word is chosen from the length
of the part alone, so `WidthFits` must show that no later shift leaves it, for
any width of a word. The other paths need arguments of their own: too few bytes
for the tokens never match (`TokensNeedBytes`), and tokens without a list and
with at most one `*` cut a part in only one way (`DirectIsDenotes`). `Denotes`
asks for a cut of the whole, which is built token by token, hence by induction.

`AddressIndex_proofs`, as long as no more entries are held than a slot can
number:

* `AlwaysFindsExactlyHeld`: `Spec => []FindsExactlyHeld`.
* `EraseAlwaysEnds`, `AlwaysHalfEmpty`, `AlwaysTyped`.

The invariant (`Indexed`) is that each entry has one slot and that no slot
between its home and that slot is empty; with half of the slots empty every
probe then ends, at the entry or at the proof that it is missing. Insertion and
rebuild only fill slots. The backward shift of an erasure opens a hole and moves
entries into it, which opens the next: its loop invariant `Shifted` is that the
index is whole but for the hole, and that no entry between the start and where
the loop stands is reached from its home across the hole. The entries further
on, behind the empty slot that ends the loop, cannot be either: their probes
would cross that slot (`PastTheHole`). The hypothesis is needed: `index_width`
is an instance without it.

`MethodTable_proofs`:

* `StaysWhole`: `Spec => []WholeAtRest`, the members of every table that is not
  half done agree wherever a call has ended.
* `MatchesStayCurrent`: `Spec => []KeptMatchesHold`, no such table keeps a match
  that no longer holds.
* `CallsDoAllOrNothing`: `Spec => AllOrNothing`, an action property. Of a table
  that is not half done: `insert` and `erase` do what they are called for or
  nothing, and never leave it half done when moves cannot throw; when they can, at
  most one other address is lost.

All three are about the tables that are not half done, and say so: `table_torn`
refutes the second of a table whose methods a throwing move left half shifted,
and an assignment that throws (`detail/method_table.h:255-258`) may leave members
of two tables. What is promised of a half-done table is that it is whole again
once a whole table has been assigned to it or moved into it, however it was used
in between.

Between two statements the members do not agree, so the invariant says at which
statement which of them is ahead (`Updates`, `Assigns`): up to the change of the
methods nothing has changed and, for an insertion, the room for what follows has
been made one vector after another; behind it the parts, the hashes and the
slots follow, each the list before it but for the one item inserted or removed.
The generation is one step behind for the single statement between. Of an
insertion or erasure all of it is conditional on the table not being half done
when the call began; of an assignment it is not, for it rebuilds every member.

`PatternText_proofs`, for all texts and any limits on parts and on tokens:

* `Refines`: `Spec => ImplementsPartLoop`. Every way of matching two texts takes
  the steps of `PartMatching` over their tokens and parts, and no others.
* `AnswersCorrectly`: `Spec => []AnswersAsDefined`.
* `LiteralsCorrect`: `Spec => []LiteralMatchesOnlyItself`.
* `TypeCorrect`: no position leaves a text, no token the array.

The difficulty is that a position says little: whether the loop stands at a token
depends on the slashes around it, and differently in each way. `ParsedPlace` and
`CursorPlace` say at which positions a way may stand, `PatternPlace` and
`AddressPlace` at which the way that runs may. At such a place there is a token
exactly when the way is not exhausted, and it is the one whose number is
`TokenIndex` (`TokenThere`, `TokenPast`); behind it comes the next
(`TokenAfter`). `ParsedOrder` and `CursorOrder` are what this rests on: of the
tokens of a pattern, those the way has passed are those that start before this
one. Counting them is what `TokensCounted` does, and `InOrderIs` shows that the
list of a set of numbers is in order and complete. The parts of an address are
simpler (`PartThere`, `PartPast`, `PartAfter`), except that the ends `partEndsOf`
stores must be shown to be those of the parts (`EndsFollow`).

That a comparison answers the same in each way (`PartsMatchIs`) is another
matter: `matchPartAt` stops comparing at the first byte that differs, so
`MatchPartAtIs` must show that no way of matching the rest could have made up
for it. `Denotes` is a recursive function over the tokens; `LiteralPrefix` shows
by induction that the bytes a part begins with are those its text begins with.
A part stored as a literal is not held to `kMaxAddressPartLength`, and needs not
be, since the addresses of a table are valid (`PreparedMatchesIs`).

The invariant `IInv` then says that the loop stands at such places, that the
tokens stored are the first of the pattern (`Preparing`), and that the invariant
of `PartMatching_proofs`, instantiated as `Loop`, holds of the tokens and parts
there. Each action has a lemma that it is an action of `Loop` (`AdvanceBothMaps`,
`RetryMaps`, ...), so `Loop!NextIInv` carries the last part, and
`MatchesCorrectly` is not proved a second time. A literal pattern has no
operators, so a layout of its tokens takes one part for each (`LiteralLayout`),
and two texts with the same parts are the same (`SameParts`).

`Validation_proofs`, first of `Words`, for every word of up to eight bytes:

* `PatternTest`, `AddressTest`: the two tests of `validate.h` are exact.
* `EqualMarked`, `MarksRead`, `AfterLast`: `bytesEqualTo` marks the equal bytes
  and no others; `hasAdjacentPair`, `hasFirstByte` and `numBytesAfterLast` read
  off the marks what they should.
* `PatternTestOfText`, `AddressTestOfText`, `SeparatorsOfText`: the same as
  invariants of `MCSpec`.

The sums of the tests are not masked, and a test may be wrong about a byte when
the byte below it carries. Only a byte above ASCII carries, and such a byte
settles the verdict by itself, since `bytesAboveAscii` adds nothing and finds
it; without one, no sum carries and each test is exact (`Verdict`).
`bytesEqualTo` masks first and never carries (`Sums`). `Spread` follows the
three shifts of `numBytesAfterLast`, and `Multiplied` the multiplication that
counts.

Then of `Validation`, for all texts, word lengths, run lengths and limits:

* `PatternFaultCorrect`: `Spec => []PatternFaultAsDefined`: the fault reported is
  the first from the left, but for the one case in which it is not: a construct
  that opens ahead of the length limit and has its illegal byte behind it is
  reported for the byte.
* `LiteralCorrect`: `Spec => []LiteralAsDefined`.
* `AddressFaultCorrect`: `Spec => []AddressFaultAsDefined`.
* `TypeCorrect`: the scans stay within the text.

`PatternRead` says what is known where a scan stands: the reference, reading
from there, finds the fault it finds from the start (`FaultsFrom`), `isLiteral`
says whether the bytes so far have no wildcard and no run of slashes, and a scan
that stands past what is checked has gone there through a construct, so the
pattern has a wildcard. A word of plain bytes keeps all three (`ReadOnTo`, by
`WordTested`, which rests on `PatternTest` and `MarksRead`). At the end the
fault that remains opens at or after the limit (`FaultAhead`), so the length
goes first if there is a wildcard, and an illegal byte is all there can be if
there is none (`FaultOfLiteral`). A fault the scan reports on the way opens ahead
of the limit; it lies there too, or is the exception (`JudgedWhereItOpens`). `AddressRead` says that the bytes read so far
have no fault and that the current part begins behind a slash at `partStart`;
`WordInAddress` shows that a word keeps it, where the first fault of an accepted
word could only be two slashes side by side.

`DataLemmas` has what these need of data. The library's induction theorems take
a predicate, which the provers cannot instantiate, so a *set* of numbers stands
for it (`Induction`, from `LeastNumber`, from the well-foundedness of the strict
subset ordering), and a *function* that a recursive definition follows for the
definition (`Recursion`; `JumpRecursion` where a step may jump ahead, as the
reading of a pattern does over a construct).

Only model-checked: `EveryVisitReturns` and the `Returns` of each loop, since
liveness under fairness is beyond the prover. Every other property of a run that
is expected to pass is a theorem.

## Findings

Three runs violate what the repository says.

`AddressIndex::insert` (`detail/address_index.h:40`) decides by the number of
slots alone whether to grow in place or to call `rebuild`, and only `rebuild`
refuses more than `kMaxEntries` entries. With `2^32` entries the `2^33` slots of
the table are still enough, so the table is grown in place and the last number
wraps to `kEmptySlot`. The index then misses entries it holds, against
`tests/address_space_tests.cpp:558`, "the address index finds every address it
holds and none it has erased". `index_width` shows it with slots of two bits;
`index` shows that nothing else loses entries, and `AlwaysFindsExactlyHeld`
proves it of every table of at most `kMaxEntries`. It takes 2^32 registered
addresses; `MethodTable` would still answer correctly through its binary search,
but the erasure of the wrapped entry would look for a slot value that a 32-bit
slot cannot have.

`MethodTable::insert` and `erase` tell the memo to forget
(`detail/method_table.h:58` and `:76`) after the methods have changed. If the
values' move throws while the methods shift, the call ends between the two, and
the memo goes on answering with positions in the table as it was: against
`address_space.h:44`, where matches are kept "until the next `add` or `remove`",
and `:95`. `table_torn` shows it. It concerns value types whose moves throw,
after an exception that has left the table's order broken in any case;
`method_table` shows that nothing else in `insert` and `erase` leaves outdated
matches behind. It says nothing of an assignment that throws with part of its
work done, which leaves members of two tables.

`scanPattern` reads a construct to its end before it looks at the length again
(`detail/validate.h:151`). A pattern in which a construct opens ahead of
`kMaxPatternLength` and has its illegal byte behind it is therefore reported as
`IllegalByte`, although from the left the length comes first, against
`corpus/matching.txt:40`, "The first fault in a left-to-right scan wins."
`first_fault` shows it. `validation` shows, and `PatternFaultCorrect` proves,
that this is the only case in which another fault is reported. Both verdicts
refuse the pattern, so no match depends on it.

Two comments disagree with the code in ways that no caller can see as a wrong
match; they have no run:

* `detail/word.h:56-58` says that a byte above 0x7F "may also clear the bit of
  the byte above it". The carry may also *set* it (the bytes 0x80 and 0x2A,
  against `*`). `validate.h:72` and `:84` combine the result with
  `bytesAboveAscii`, so the tests stay exact, as `words` shows.
* `pattern.h:55-57` says what makes a pattern literal; a part longer than
  `kMaxAddressPartLength` also makes it not literal (`validate.h:170`), as it
  must, since no address can be equal to it. `LiteralAsDefined` states the rule
  of the code.

## What is not modelled

* In `AddressSpace` an update, a copy and a move are single steps that
  succeed, and values are left out, since no property there looks at them; what
  fails inside them is the business of `MethodTable`. There a literal that is
  registered is found by the index or by binary search alike.
* `MethodTable` has values that can be copied. A value that can only be moved,
  and whose move throws, may leave a vector that is growing in an unspecified
  state, and a table of such values cannot be assigned. An exception of the
  copy constructor of a table leaves no table behind.
* Brackets that are not closed, in `MatchPart` and `PatternText`: no pattern
  that has parsed has them.
* Builds with `NDEBUG`, where the visitor's rule is not asserted: a visitor
  that breaks the rule has no promised behaviour.
* The wrap of the 64-bit generation.
* `StringView`, the stand-in for `std::string_view` with the same operations,
  `Expected`, the error names: values without steps. Tests, corpus, fuzzer,
  benchmarks, examples and build files: not part of the library.

## Plan

The modules above were written in the order in which a visit meets the code;
every component with steps of its own has one, and every safety property and
refinement the runs check is proved. What could be added:

1. The brackets of a pattern in `PatternText`, so that `Denotes` there is the
   one of `MatchPart` rather than a relation with one wildcard.
2. The relation `Selects` of `AddressSpace` as the answer of `PatternText`, which
   would join the matcher and the table in one refinement.

## How to run

    tlc -workers 2 -config AddressSpace_reentrant.cfg MCAddressSpace
    tlapm AddressSpace_proofs.tla

The runs of `AddressSpace` take a minute or two, the others less than one, the
larger proofs some minutes.
