---------------------------- MODULE PartMatching ----------------------------
(***************************************************************************)
(* How a pattern is matched against an address part by part: the loop of   *)
(* matchParts (include/oscpm/detail/match.h), over the cursors that yield  *)
(* the tokens of a pattern and the parts of an address.                    *)
(*                                                                         *)
(* A pattern is a sequence of tokens, each the operator "//" or a part, an *)
(* address a sequence of parts; a cursor is a position in one of them,     *)
(* exhausted when it is past the end.  Whether a pattern part matches an   *)
(* address part is the relation Fits, which matchPart decides.             *)
(***************************************************************************)
EXTENDS Integers, Sequences

CONSTANTS
    PatternParts,   \* the parts patterns are made of
    Operator,       \* a run of two slashes or more
    AddressParts,   \* the parts addresses are made of
    Fits,           \* the pairs of parts for which matchPart holds
    MaxTokens,      \* bound: the tokens of a pattern
    MaxParts        \* bound: the parts of an address

Tokens == PatternParts \cup {Operator}

Sequences(set, max) == UNION {[1..n -> set] : n \in 1..max}

\* A run of slashes is one token, so operators are never neighbours.
Patterns ==
    {p \in Sequences(Tokens, MaxTokens) :
        \A i \in 1..(Len(p) - 1) : p[i] = Operator => p[i + 1] # Operator}

Addresses == Sequences(AddressParts, MaxParts)

VARIABLES
    pattern, address,       \* the two texts
    patternPart,            \* the cursors of the loop
    addressPart,
    patternAfterOperator,   \* where to resume after the last operator
    addressAtOperator,
    seenOperator,
    result,                 \* "running", or what matchParts returns
    compared                \* history: the pairs of parts compared so far

texts == <<pattern, address>>
cursors == <<patternPart, addressPart, patternAfterOperator,
             addressAtOperator, seenOperator>>
vars == <<texts, cursors, result, compared>>

\* Neither a cursor nor the place to retry from leaves its text by more than one.
TypeOK ==
    /\ pattern \in Seq(Tokens)
    /\ address \in Seq(AddressParts)
    /\ patternPart \in 1..(Len(pattern) + 1)
    /\ addressPart \in 1..(Len(address) + 1)
    /\ patternAfterOperator \in 1..(Len(pattern) + 1)
    /\ addressAtOperator \in 1..(Len(address) + 1)
    /\ seenOperator \in BOOLEAN
    /\ result \in {"running", "match", "no match"}
    /\ compared \subseteq (1..Len(pattern)) \X (1..Len(address))

PatternExhausted == patternPart > Len(pattern)
AddressExhausted == addressPart > Len(address)

\* Where the loop begins, whatever the texts.
Begins ==
    /\ patternPart = 1
    /\ addressPart = 1
    /\ patternAfterOperator = 1
    /\ addressAtOperator = 1
    /\ seenOperator = FALSE
    /\ result = "running"
    /\ compared = {}

Init ==
    /\ pattern \in Patterns
    /\ address \in Addresses
    /\ Begins

AtOperator == ~PatternExhausted /\ pattern[patternPart] = Operator

\* Both cursors stand at a part, so the loop calls matchPart on them.
Comparing == ~PatternExhausted /\ ~AtOperator /\ ~AddressExhausted

PartsMatch ==
    Comparing /\ <<pattern[patternPart], address[addressPart]>> \in Fits

Looping == result = "running" /\ ~(PatternExhausted /\ AddressExhausted)

Compare ==
    compared' = IF Comparing THEN compared \cup {<<patternPart, addressPart>>}
                             ELSE compared

\* Mutant: the pattern cursor is not moved past the operator.
PassOperatorInPlace ==
    /\ Looping /\ AtOperator
    /\ patternAfterOperator' = patternPart + 1
    /\ addressAtOperator' = addressPart
    /\ seenOperator' = TRUE
    /\ UNCHANGED <<texts, patternPart, addressPart, result, compared>>

\* An operator: what follows it is tried at this part of the address first.
PassOperator ==
    /\ Looping /\ AtOperator
    /\ patternPart' = patternPart + 1
    /\ patternAfterOperator' = patternPart + 1
    /\ addressAtOperator' = addressPart
    /\ seenOperator' = TRUE
    /\ UNCHANGED <<texts, addressPart, result, compared>>

AdvanceBoth ==
    /\ Looping /\ PartsMatch
    /\ Compare
    /\ patternPart' = patternPart + 1
    /\ addressPart' = addressPart + 1
    /\ UNCHANGED <<texts, patternAfterOperator, addressAtOperator,
                   seenOperator, result>>

Stuck == Looping /\ ~AtOperator /\ ~PartsMatch

\* Mutants: retries that go on past the end, and that stop one part early.
RetriesPastEnd == ~seenOperator \/ addressAtOperator > Len(address) + 1
RetriesShort == ~seenOperator \/ addressAtOperator >= Len(address)

NoRetry == ~seenOperator \/ addressAtOperator > Len(address)

\* Mutant: the retry compares the same parts again.
RetryInPlace ==
    /\ Stuck /\ ~NoRetry
    /\ Compare
    /\ patternPart' = patternAfterOperator
    /\ addressPart' = addressAtOperator
    /\ UNCHANGED <<texts, patternAfterOperator, addressAtOperator,
                   seenOperator, result>>

\* The last operator takes one more part of the address.
Retry ==
    /\ Stuck /\ ~NoRetry
    /\ Compare
    /\ addressAtOperator' = addressAtOperator + 1
    /\ patternPart' = patternAfterOperator
    /\ addressPart' = addressAtOperator + 1
    /\ UNCHANGED <<texts, patternAfterOperator, seenOperator, result>>

Fail ==
    /\ Stuck /\ NoRetry
    /\ Compare
    /\ result' = "no match"
    /\ UNCHANGED <<texts, cursors>>

Succeed ==
    /\ result = "running" /\ PatternExhausted /\ AddressExhausted
    /\ result' = "match"
    /\ UNCHANGED <<texts, cursors, compared>>

Next == PassOperator \/ AdvanceBoth \/ Retry \/ Fail \/ Succeed

Spec == Init /\ [][Next]_vars /\ WF_vars(Next)

-----------------------------------------------------------------------------
(***************************************************************************)
(* The reference: a pattern matches an address when its tokens can be laid *)
(* along the address, a part over one part it fits and an operator over    *)
(* any number of them.  place[i] is the address part token i starts at.    *)
(***************************************************************************)
Lays(tokens, parts, place, i) ==
    IF tokens[i] = Operator
    THEN place[i + 1] >= place[i]
    ELSE /\ place[i + 1] = place[i] + 1
         /\ place[i] <= Len(parts)
         /\ <<tokens[i], parts[place[i]]>> \in Fits

\* A layout of the tokens from the p-th over the parts from the a-th.
IsLayout(tokens, parts, place, p, a) ==
    /\ place \in [p..(Len(tokens) + 1) -> 1..(Len(parts) + 1)]
    /\ place[p] = a
    /\ place[Len(tokens) + 1] = Len(parts) + 1
    /\ \A i \in p..Len(tokens) : Lays(tokens, parts, place, i)

MatchesFrom(tokens, parts, p, a) ==
    \E place \in [p..(Len(tokens) + 1) -> 1..(Len(parts) + 1)] :
        IsLayout(tokens, parts, place, p, a)

\* The greedy loop, which remembers only the last operator, finds a match
\* exactly when there is one: giving up earlier operators loses nothing.
MatchesAsDefined ==
    result # "running" =>
        (result = "match" <=> MatchesFrom(pattern, address, 1, 1))

\* No pair of parts is compared twice, so the work of a match is bounded by the
\* size of the pattern times the size of the address, however many operators
\* and retries there are.
NeverComparesAgain ==
    Looping /\ Comparing => <<patternPart, addressPart>> \notin compared

\* The loop ends.
Returns == <>(result # "running")
=============================================================================
