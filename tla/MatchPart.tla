----------------------------- MODULE MatchPart -----------------------------
(***************************************************************************)
(* How one part of a pattern is matched against one part of an address:    *)
(* matchPart and what it calls (include/oscpm/detail/match.h), with the    *)
(* bit set of positions it walks (include/oscpm/detail/reach.h).           *)
(*                                                                         *)
(* A pattern part is a sequence of tokens and an address part a sequence   *)
(* of bytes.  The tokens stand for the text between brackets and braces,   *)
(* which parsing has found closed; what lies between brackets stays a      *)
(* sequence of bytes, as setContains reads it.  Positions are counted      *)
(* from zero, so a part has one more position than it has bytes.           *)
(***************************************************************************)
EXTENDS Integers, Sequences, FiniteSets

CONSTANTS
    Patterns,               \* the pattern parts a run matches
    Parts,                  \* the address parts it matches them against
    rangeSeparator,         \* the byte '-'
    bitsPerWord,            \* bits of a word of Reach, 64 in the code
    kMaxAddressPartLength   \* one less than a multiple of bitsPerWord, 4095

anyBytes == "anyBytes"
anyByte  == "anyByte"

Byte(b)  == [kind |-> "byte", byte |-> b]
AnyByte  == [kind |-> anyByte]
AnyBytes == [kind |-> anyBytes]

Set(members, negate) ==
    [kind |-> "set", members |-> members, negate |-> negate]

List(alternatives) == [kind |-> "list", alternatives |-> alternatives]

\* What stands between two tokens is read by parsing, so a part is any sequence
\* of them.
Tokens ==
    [kind : {"byte"}, byte : Nat]
        \cup {AnyByte, AnyBytes}
        \cup [kind : {"set"}, members : Seq(Nat), negate : BOOLEAN]
        \cup [kind : {"list"}, alternatives : Seq(Seq(Nat))]

ASSUME PartAssumption ==
    /\ Patterns \subseteq Seq(Tokens)
    /\ Parts \subseteq Seq(Nat)

reachWords      == kMaxAddressPartLength \div bitsPerWord + 1
smallReachWords == 1

ASSUME ReachAssumption ==
    /\ bitsPerWord \in Nat \ {0}
    /\ kMaxAddressPartLength \in Nat
    /\ (kMaxAddressPartLength + 1) % bitsPerWord = 0

VARIABLES
    pattern, part,  \* the two arguments of matchPart
    i,              \* the token matchPartWithin stands at
    numWords,       \* the words of its Reach, zero before it is called
    reach,          \* the positions in the Reach
    result          \* "running", or what matchPart returns

vars == <<pattern, part, i, numWords, reach, result>>

Positions == 0..Len(part)

\* The walk stays within the pattern part, and the bits of its Reach within the
\* positions of a part.
TypeOK ==
    /\ pattern \in Patterns
    /\ part \in Parts
    /\ i \in 1..(Len(pattern) + 1)
    /\ numWords \in {0, smallReachWords, reachWords}
    /\ reach \subseteq Positions
    /\ result \in {"running", "match", "no match"}

-----------------------------------------------------------------------------
\* setContains: a range where one fits, else a single member, left to right.
RangeAt(members, m) ==
    m + 2 <= Len(members) /\ members[m + 1] = rangeSeparator

SetContains(members, byte) ==
    LET starts[m \in 1..Len(members)] ==
            \/ m = 1
            \/ m > 1 /\ starts[m - 1] /\ ~RangeAt(members, m - 1)
            \/ m > 3 /\ starts[m - 3] /\ RangeAt(members, m - 3)
    IN  \E m \in 1..Len(members) : starts[m] /\
            IF RangeAt(members, m)
            THEN members[m] <= byte /\ byte <= members[m + 2]
            ELSE members[m] = byte

\* Whether a token that takes one byte takes this one.
Takes(token, byte) ==
    \/ token.kind = "byte" /\ token.byte = byte
    \/ token.kind = anyByte
    \/ token.kind = "set" /\ SetContains(token.members, byte) # token.negate

IsOpener(token) == token.kind # "byte"

HasOpener == \E k \in 1..Len(pattern) : IsOpener(pattern[k])

FirstOpener ==
    CHOOSE k \in 1..Len(pattern) :
        IsOpener(pattern[k]) /\ \A j \in 1..(k - 1) : ~IsOpener(pattern[j])

-----------------------------------------------------------------------------
(***************************************************************************)
(* shapeOf: the scan from the first opener ends at a list, at a second     *)
(* star, or as soon as the tokens need more bytes than the part has.       *)
(***************************************************************************)
Stars(k) == {j \in 1..k : pattern[j] = AnyBytes}

EndsScan(k) ==
    \/ pattern[k].kind = "list"
    \/ pattern[k] = AnyBytes /\ Cardinality(Stars(k)) = 2

Stop ==
    IF \E k \in 1..Len(pattern) : EndsScan(k)
    THEN CHOOSE k \in 1..Len(pattern) :
            EndsScan(k) /\ \A j \in 1..(k - 1) : ~EndsScan(j)
    ELSE Len(pattern) + 1

NumTokens(k) == k - Cardinality(Stars(k))

\* Mutant: a part that is just long enough is taken to be too short.
ExceedsPartEarly ==
    \E k \in FirstOpener..(Stop - 1) :
        pattern[k] # AnyBytes /\ NumTokens(k) >= Len(part)

ExceedsPart ==
    \E k \in FirstOpener..(Stop - 1) :
        pattern[k] # AnyBytes /\ NumTokens(k) > Len(part)

IsDirect == Stop = Len(pattern) + 1

MatchTokens(tokens, text) ==
    \A k \in 1..Len(text) : Takes(tokens[k], text[k])

\* matchPartDirect: at most one star, and every other token takes one byte.
MatchPartDirect ==
    IF Stars(Len(pattern)) = {}
    THEN Len(part) = Len(pattern) /\ MatchTokens(pattern, part)
    ELSE LET star  == CHOOSE k \in Stars(Len(pattern)) : TRUE
             after == Len(pattern) - star
         IN  /\ Len(part) >= Len(pattern) - 1
             /\ MatchTokens(pattern, SubSeq(part, 1, star - 1))
             /\ MatchTokens(SubSeq(pattern, star + 1, Len(pattern)),
                            SubSeq(part, Len(part) - after + 1, Len(part)))

-----------------------------------------------------------------------------
Init ==
    /\ pattern \in Patterns
    /\ part \in Parts
    /\ i = 1
    /\ numWords = 0
    /\ reach = {}
    /\ result = "running"

Answer(matches) == result' = IF matches THEN "match" ELSE "no match"

Starting == result = "running" /\ numWords = 0

TooLong == Len(part) > kMaxAddressPartLength

RejectLongPart ==
    /\ Starting /\ TooLong
    /\ Answer(FALSE)
    /\ UNCHANGED <<pattern, part, i, numWords, reach>>

\* pattern == part, byte for byte.
CompareLiteral ==
    /\ Starting /\ ~TooLong /\ ~HasOpener
    /\ Answer(Len(pattern) = Len(part) /\ MatchTokens(pattern, part))
    /\ UNCHANGED <<pattern, part, i, numWords, reach>>

RejectShortPart ==
    /\ Starting /\ ~TooLong /\ HasOpener /\ ExceedsPart
    /\ Answer(FALSE)
    /\ UNCHANGED <<pattern, part, i, numWords, reach>>

MatchDirect ==
    /\ Starting /\ ~TooLong /\ HasOpener /\ ~ExceedsPart /\ IsDirect
    /\ Answer(MatchPartDirect)
    /\ UNCHANGED <<pattern, part, i, numWords, reach>>

\* Mutant: a part of exactly bitsPerWord bytes gets a single word.
WordsOneShort ==
    IF Len(part) <= bitsPerWord THEN smallReachWords ELSE reachWords

WordsFor == IF Len(part) < bitsPerWord THEN smallReachWords ELSE reachWords

StartWithin ==
    /\ Starting /\ ~TooLong /\ HasOpener /\ ~ExceedsPart /\ ~IsDirect
    /\ numWords' = WordsFor
    /\ reach' = {0}
    /\ UNCHANGED <<pattern, part, i, result>>

\* m_numWords: the words empty and lowest look at.
WordsUsed == Len(part) \div bitsPerWord + 1

Seen == {p \in reach : p < WordsUsed * bitsPerWord}

Lowest == CHOOSE p \in Seen : \A q \in Seen : p <= q

\* Mutant: a star does not take the last byte.
SetFromShort(lowest) == lowest..(Len(part) - 1)

SetFrom(lowest) == lowest..Len(part)

\* Mutant: the loop over the positions does not stop before the last.
AdvanceWherePastEnd(token) ==
    {p + 1 : p \in {q \in reach : q = Len(part) \/ Takes(token, part[q + 1])}}

AdvanceWhere(token) ==
    {p + 1 : p \in {q \in reach : q < Len(part) /\ Takes(token, part[q + 1])}}

AdvanceByAlternatives(alternatives) ==
    UNION {{p + Len(alternatives[k]) :
               p \in {q \in reach :
                   /\ q + Len(alternatives[k]) <= Len(part)
                   /\ SubSeq(part, q + 1, q + Len(alternatives[k]))
                          = alternatives[k]}} :
           k \in DOMAIN alternatives}

Looping == result = "running" /\ numWords # 0 /\ i <= Len(pattern) /\ Seen # {}

Advance(next) ==
    /\ reach' = next
    /\ i' = i + 1
    /\ UNCHANGED <<pattern, part, numWords, result>>

TakeAnyBytes ==
    /\ Looping /\ pattern[i] = AnyBytes
    /\ Advance(reach \cup SetFrom(Lowest))

TakeOneByte ==
    /\ Looping /\ pattern[i].kind \in {"byte", anyByte, "set"}
    /\ Advance(AdvanceWhere(pattern[i]))

TakeAlternative ==
    /\ Looping /\ pattern[i].kind = "list"
    /\ Advance(AdvanceByAlternatives(pattern[i].alternatives))

EndWithin ==
    /\ result = "running" /\ numWords # 0
    /\ i > Len(pattern) \/ Seen = {}
    /\ Answer(Len(part) \in reach)
    /\ UNCHANGED <<pattern, part, i, numWords, reach>>

Next ==
    \/ RejectLongPart \/ CompareLiteral \/ RejectShortPart \/ MatchDirect
    \/ StartWithin \/ TakeAnyBytes \/ TakeOneByte \/ TakeAlternative
    \/ EndWithin

Spec == Init /\ [][Next]_vars

-----------------------------------------------------------------------------
(***************************************************************************)
(* The reference: the tokens match a text when it can be cut into one      *)
(* piece for each of them that the token matches.                          *)
(***************************************************************************)
Matches(token, piece) ==
    \/ token = AnyBytes
    \/ /\ token.kind = "list"
       /\ \E k \in DOMAIN token.alternatives : token.alternatives[k] = piece
    \/ Len(piece) = 1 /\ Takes(token, piece[1])

Denotes(tokens, text) ==
    \E cut \in [0..Len(tokens) -> 0..Len(text)] :
        /\ cut[0] = 0 /\ cut[Len(tokens)] = Len(text)
        /\ \A k \in 1..Len(tokens) :
              /\ cut[k - 1] <= cut[k]
              /\ Matches(tokens[k], SubSeq(text, cut[k - 1] + 1, cut[k]))

\* All three ways of matching, literal, direct and by reach, answer as the
\* reference does, for every part that is not too long.
ResultAsDefined ==
    result # "running" =>
        (result = "match" <=> ~TooLong /\ Denotes(pattern, part))

\* The walk keeps exactly the positions the tokens so far can lead to, so it
\* needs no backtracking: a pattern of any shape is read once.
ReachIsPrefixMatch ==
    numWords # 0 =>
        reach = {p \in Positions :
                    Denotes(SubSeq(pattern, 1, i - 1), SubSeq(part, 1, p))}

\* No position is set or tested outside the words of the Reach, and none lies
\* in a word that empty and lowest do not look at, up to the longest part.
ReachFits ==
    numWords # 0 =>
        /\ \A p \in Positions : p < numWords * bitsPerWord
        /\ WordsUsed <= numWords
        /\ Seen = reach
=============================================================================
