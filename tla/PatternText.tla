---------------------------- MODULE PatternText ----------------------------
(***************************************************************************)
(* The three ways the text of a pattern is matched against the text of an  *)
(* address (include/oscpm/detail/match.h and prepared.h):                  *)
(*                                                                         *)
(*   parsed    matchParsed, which keeps positions in both texts            *)
(*   cursors   matchWithCursors: matchParts over PatternCursor and         *)
(*             AddressCursor, which read a token and a part at a time      *)
(*   prepared  what dispatch does: matchParts over the tokens prepareParts *)
(*             has stored and the ends of the parts partEndsOf has stored, *)
(*             or matchParsed when the pattern has too many tokens         *)
(*                                                                         *)
(* The three have the control of one loop, so its steps are written once,  *)
(* over what each way takes a position to be: in a text, counted from      *)
(* zero, or in the array of tokens or of ends.                             *)
(***************************************************************************)
EXTENDS Integers, Sequences, FiniteSets, TLC, SequencesExt, FiniteSetsExt

CONSTANTS
    partSeparator,          \* the byte '/'
    anyBytes,               \* the byte '*', which stands for the openers
    PlainBytes,             \* bytes that match themselves
    kMaxAddressPartLength,
    maxPreparedParts,
    PatternTexts,           \* the texts of patterns and of addresses
    AddressTexts

operatorRunLength == 2

ASSUME BytesAssumption ==
    /\ partSeparator # anyBytes
    /\ {partSeparator, anyBytes} \cap PlainBytes = {}
    /\ {kMaxAddressPartLength, maxPreparedParts} \subseteq Nat \ {0}

ASSUME TextsAssumption ==
    /\ PatternTexts \subseteq Seq(PlainBytes \cup {partSeparator, anyBytes})
    /\ AddressTexts \subseteq Seq(PlainBytes \cup {partSeparator})

VARIABLES
    way,                \* "preparing", or one of the three above
    pattern, address,   \* the two texts
    prepared,           \* the tokens prepareParts has stored
    patternAt,          \* where the loop stands: patternStart, addressStart
    addressAt,
    retryPattern,       \* where it resumes after the last operator
    retryAddress,
    seenOperator,
    result,             \* "running", or what the function returns
    compared            \* history: the pairs of parts compared so far

texts == <<pattern, address>>
positions == <<patternAt, addressAt, retryPattern, retryAddress, seenOperator>>
vars == <<way, texts, prepared, positions, result, compared>>

-----------------------------------------------------------------------------
Bytes(text, start, end) == SubSeq(text, start + 1, end)

IsSeparator(text, at) == at < Len(text) /\ text[at + 1] = partSeparator

HasLeadingSlash(text) == IsSeparator(text, 0)

IsOpener(byte) == byte = anyBytes

HasOpener(text) == \E k \in DOMAIN text : IsOpener(text[k])

PartEnd(text, from) ==
    Min({q \in from..Len(text) : IsSeparator(text, q)} \cup {Len(text)})

RunEnd(text, from) == Min({q \in from..Len(text) : ~IsSeparator(text, q)})

\* Whether the tokens of a part match a text: reach[i] holds the lengths of the
\* prefixes of the text that the first i tokens match.
Denotes(part, text) ==
    LET reach[i \in 0..Len(part)] ==
            IF i = 0 THEN {0}
            ELSE IF part[i] = anyBytes
            THEN {j \in 0..Len(text) : \E k \in reach[i - 1] : k <= j}
            ELSE {j \in 1..Len(text) : text[j] = part[i] /\ j - 1 \in reach[i - 1]}
    IN  Len(text) \in reach[Len(part)]

\* What matchPart answers, which module MatchPart takes step by step.
MatchPart(part, text) == Len(text) <= kMaxAddressPartLength /\ Denotes(part, text)

-----------------------------------------------------------------------------
\* PatternCursor::readToken at a position before the end: whether it reads an
\* operator, where a part starts, and the position of the next token.
RunLength(at) == RunEnd(pattern, at) - at

ReadsOperator(at) == RunLength(at) >= operatorRunLength

PartStart(at) == IF RunLength(at) = 1 THEN at + 1 ELSE at

NextToken(at) ==
    IF ReadsOperator(at) THEN RunEnd(pattern, at) ELSE PartEnd(pattern, PartStart(at))

PartRead(at) == Bytes(pattern, PartStart(at), NextToken(at))

\* A token as prepareParts stores it.
PreparedPart(at) ==
    IF ReadsOperator(at) THEN [kind |-> "operator", text |-> <<>>]
    ELSE [kind |-> IF HasOpener(PartRead(at)) THEN "wildcard" ELSE "literal",
          text |-> PartRead(at)]

\* A set of numbers in increasing order.
InOrder(S) ==
    [k \in 1..Cardinality(S) |->
        CHOOSE n \in S : Cardinality({m \in S : m < n}) = k - 1]

\* partEndsOf: the separators after the first byte, and the end.
PartEnds ==
    InOrder({i \in 1..Len(address) : i = Len(address) \/ IsSeparator(address, i)})

PreparedMatches(part, text) ==
    IF part.kind = "literal" THEN part.text = text ELSE MatchPart(part.text, text)

\* StoredAddressCursor::part.
StoredPart(at) ==
    Bytes(address, IF at = 0 THEN 1 ELSE PartEnds[at] + 1, PartEnds[at + 1])

-----------------------------------------------------------------------------
(***************************************************************************)
(* matchPartAt compares bytes until the pattern has an opener, the pattern *)
(* part ends or two bytes differ; only an opener makes it call matchPart.  *)
(***************************************************************************)
ByteOrSeparator(text, at) ==
    IF at < Len(text) THEN text[at + 1] ELSE partSeparator

NumEqual ==
    Min({n \in 0..(Len(pattern) - patternAt) :
            LET byte == ByteOrSeparator(pattern, patternAt + n)
            IN  \/ IsOpener(byte)
                \/ byte = partSeparator
                \/ byte # ByteOrSeparator(address, addressAt + n)})

StopsAtOpener == IsOpener(ByteOrSeparator(pattern, patternAt + NumEqual))

\* Where it leaves patternEnd and addressEnd.
ParsedPatternEnd ==
    IF StopsAtOpener THEN PartEnd(pattern, patternAt + NumEqual)
                     ELSE patternAt + NumEqual

ParsedAddressEnd ==
    IF StopsAtOpener THEN PartEnd(address, addressAt + NumEqual)
                     ELSE addressAt + NumEqual

MatchPartAt ==
    \/ /\ StopsAtOpener
       /\ MatchPart(Bytes(pattern, patternAt, ParsedPatternEnd),
                    Bytes(address, addressAt, ParsedAddressEnd))
    \/ /\ ~StopsAtOpener
       /\ ByteOrSeparator(pattern, patternAt + NumEqual) = partSeparator
       /\ ByteOrSeparator(address, addressAt + NumEqual) = partSeparator
       /\ NumEqual <= kMaxAddressPartLength

-----------------------------------------------------------------------------
\* What the loop asks of the two positions, and where they go next.
PatternExhausted ==
    \/ way = "parsed" /\ patternAt > Len(pattern)
    \/ way = "cursors" /\ patternAt >= Len(pattern)
    \/ way = "prepared" /\ patternAt = Len(prepared)

AddressExhaustedAt(at) ==
    IF way = "prepared" THEN at = Len(PartEnds) ELSE at > Len(address)

AtOperator ==
    /\ ~PatternExhausted
    /\ \/ way = "parsed" /\ IsSeparator(pattern, patternAt)
       \/ way = "cursors" /\ ReadsOperator(patternAt)
       \/ way = "prepared" /\ prepared[patternAt + 1].kind = "operator"

\* Mutant: a final operator leaves an empty part behind it.
ParsedAfterOperatorAtEnd == RunEnd(pattern, patternAt)

ParsedAfterOperator ==
    LET end == RunEnd(pattern, patternAt)
    IN  IF end = Len(pattern) THEN end + 1 ELSE end

AfterOperator ==
    IF way = "parsed" THEN ParsedAfterOperator
    ELSE IF way = "cursors" THEN NextToken(patternAt)
    ELSE patternAt + 1

Comparing == ~PatternExhausted /\ ~AtOperator /\ ~AddressExhaustedAt(addressAt)

PartsMatch ==
    \/ way = "parsed" /\ MatchPartAt
    \/ /\ way = "cursors"
       /\ MatchPart(PartRead(patternAt),
                    Bytes(address, addressAt, PartEnd(address, addressAt)))
    \/ /\ way = "prepared"
       /\ PreparedMatches(prepared[patternAt + 1], StoredPart(addressAt))

PatternAfterPart ==
    IF way = "parsed" THEN ParsedPatternEnd + 1
    ELSE IF way = "cursors" THEN NextToken(patternAt)
    ELSE patternAt + 1

AddressAfterPart(at) ==
    IF way = "prepared" THEN at + 1 ELSE PartEnd(address, at) + 1

-----------------------------------------------------------------------------
FirstPatternAt ==
    IF way = "parsed" /\ (pattern = <<>> \/ HasLeadingSlash(pattern)) THEN 1 ELSE 0

FirstAddressAt == IF way \in {"parsed", "cursors"} THEN 1 ELSE 0

\* matchParts copies its cursor; matchParsed begins with zero.
FirstRetryAddress == IF way = "cursors" THEN 1 ELSE 0

IsValidAddress(text) ==
    /\ HasLeadingSlash(text)
    /\ \A at \in 0..(Len(text) - 1) : IsSeparator(text, at) =>
           PartEnd(text, at + 1) - (at + 1) \in 1..kMaxAddressPartLength

HasPartLongerThan(text, limit) ==
    \E at \in 0..Len(text) : PartEnd(text, at) - at > limit

\* Mutant: a run of slashes is not taken for a wildcard.
IsLiteralDespiteRuns(text) ==
    ~HasOpener(text) /\ ~HasPartLongerThan(text, kMaxAddressPartLength)

\* What isLiteral holds of a pattern that has parsed.
IsLiteral(text) ==
    /\ ~HasOpener(text)
    /\ \A at \in 0..Len(text) : RunEnd(text, at) - at < operatorRunLength
    /\ ~HasPartLongerThan(text, kMaxAddressPartLength)

\* Dispatch scans registered addresses for patterns that have parsed and are
\* not literal; the two matchers are also called with texts that have not.
Init ==
    /\ way \in {"preparing", "parsed", "cursors"}
    /\ pattern \in PatternTexts
    /\ address \in AddressTexts
    /\ way = "preparing" =>
           HasLeadingSlash(pattern) /\ ~IsLiteral(pattern) /\ IsValidAddress(address)
    /\ prepared = <<>>
    /\ patternAt = FirstPatternAt
    /\ addressAt = FirstAddressAt
    /\ retryPattern = 0
    /\ retryAddress = FirstRetryAddress
    /\ seenOperator = FALSE
    /\ result = "running"
    /\ compared = {}

\* Mutant: a pattern that fills the array is matched as it is stored.
PrepareNextPast ==
    /\ way = "preparing" /\ patternAt < Len(pattern)
    /\ patternAt' = NextToken(patternAt)
    /\ prepared' = IF Len(prepared) < maxPreparedParts
                   THEN Append(prepared, PreparedPart(patternAt))
                   ELSE prepared
    /\ UNCHANGED <<way, texts, addressAt, retryPattern, retryAddress,
                   seenOperator, result, compared>>

\* Mutant: a token is stored past the end of the array.
PrepareNextUnbounded ==
    /\ way = "preparing" /\ patternAt < Len(pattern)
    /\ patternAt' = NextToken(patternAt)
    /\ prepared' = Append(prepared, PreparedPart(patternAt))
    /\ UNCHANGED <<way, texts, addressAt, retryPattern, retryAddress,
                   seenOperator, result, compared>>

\* prepareParts stores the next token.
PrepareNext ==
    /\ way = "preparing" /\ patternAt < Len(pattern)
    /\ Len(prepared) < maxPreparedParts
    /\ patternAt' = NextToken(patternAt)
    /\ prepared' = Append(prepared, PreparedPart(patternAt))
    /\ UNCHANGED <<way, texts, addressAt, retryPattern, retryAddress,
                   seenOperator, result, compared>>

\* There is a token left and no room for it: matchParsed is called instead.
FallBack ==
    /\ way = "preparing" /\ patternAt < Len(pattern)
    /\ Len(prepared) = maxPreparedParts
    /\ way' = "parsed"
    /\ patternAt' = 1
    /\ addressAt' = 1
    /\ UNCHANGED <<texts, prepared, retryPattern, retryAddress, seenOperator,
                   result, compared>>

\* Every token is stored: matchParts is called with cursors at the first.
UsePrepared ==
    /\ way = "preparing" /\ patternAt >= Len(pattern)
    /\ way' = "prepared"
    /\ patternAt' = 0
    /\ UNCHANGED <<texts, prepared, addressAt, retryPattern, retryAddress,
                   seenOperator, result, compared>>

Reject ==
    /\ result = "running" /\ way \in {"parsed", "cursors"}
    /\ ~HasLeadingSlash(address)
    /\ result' = "no match"
    /\ UNCHANGED <<way, texts, prepared, positions, compared>>

Running == result = "running" /\ way # "preparing" /\ HasLeadingSlash(address)

Exhausted == PatternExhausted /\ AddressExhaustedAt(addressAt)

-----------------------------------------------------------------------------
(***************************************************************************)
(* The texts cut up in one piece, for comparison with what the loop sees.  *)
(* A pattern is runs of slashes and what lies between them: a run of two   *)
(* or more is a token, and so is a nonempty text between runs, or the      *)
(* empty text after a single slash at the end.  Every slash of an address  *)
(* begins a part, which may be empty.                                      *)
(***************************************************************************)
IsOperatorStart(text, at) ==
    /\ IsSeparator(text, at) /\ IsSeparator(text, at + 1)
    /\ at = 0 \/ ~IsSeparator(text, at - 1)

IsPartStart(text, at) ==
    /\ ~IsSeparator(text, at)
    /\ at = 0 \/ IsSeparator(text, at - 1)
    /\ at = Len(text) => at > 0 /\ (at = 1 \/ ~IsSeparator(text, at - 2))

TokenStarts(text) ==
    {at \in 0..Len(text) : IsOperatorStart(text, at) \/ IsPartStart(text, at)}

TokenEnd(text, start) ==
    IF IsSeparator(text, start) THEN RunEnd(text, start) ELSE PartEnd(text, start)

PartStarts(text) == {at \in 1..Len(text) : IsSeparator(text, at - 1)}

Operator == <<partSeparator, partSeparator>>

TokenText(text, start) ==
    IF IsSeparator(text, start) THEN Operator
                                ELSE Bytes(text, start, PartEnd(text, start))

PartText(text, start) == Bytes(text, start, PartEnd(text, start))

\* The function itself: comparing it has TLC tabulate it, once.
Tabulated(f) == CHOOSE table \in {f} : table = f

Tokens ==
    Tabulated([text \in PatternTexts |->
        LET starts == InOrder(TokenStarts(text))
        IN  [k \in 1..Cardinality(TokenStarts(text)) |-> TokenText(text, starts[k])]])

AddressParts ==
    Tabulated([text \in AddressTexts |->
        LET starts == InOrder(PartStarts(text))
        IN  [k \in 1..Cardinality(PartStarts(text)) |-> PartText(text, starts[k])]])

\* The token or part at a position is one more than those that lie before it.
\* matchParsed stands at the second slash of an operator and past the slash
\* that ends a part, a cursor at the end of the token before.
TokensBefore(at) ==
    {start \in TokenStarts(pattern) :
        IF way = "parsed"
        THEN start + (IF IsSeparator(pattern, start) THEN 1 ELSE 0) < at
        ELSE TokenEnd(pattern, start) <= at}

TokenIndex(at) ==
    IF way = "preparing" THEN 1
    ELSE IF way = "prepared" THEN at + 1
    ELSE 1 + Cardinality(TokensBefore(at))

PartIndex(at) ==
    IF way \in {"preparing", "prepared"} THEN at + 1
    ELSE 1 + Cardinality({start \in PartStarts(address) : start < at})

-----------------------------------------------------------------------------
Compare ==
    compared' = IF Comparing
                THEN compared \cup {<<TokenIndex(patternAt), PartIndex(addressAt)>>}
                ELSE compared

\* An operator: what follows it is tried at this part of the address first.
PassOperator ==
    /\ Running /\ AtOperator
    /\ patternAt' = AfterOperator
    /\ retryPattern' = AfterOperator
    /\ retryAddress' = addressAt
    /\ seenOperator' = TRUE
    /\ UNCHANGED <<way, texts, prepared, addressAt, result, compared>>

AdvanceBoth ==
    /\ Running /\ Comparing /\ PartsMatch
    /\ Compare
    /\ patternAt' = PatternAfterPart
    /\ addressAt' = IF way = "parsed" THEN ParsedAddressEnd + 1
                                      ELSE AddressAfterPart(addressAt)
    /\ UNCHANGED <<way, texts, prepared, retryPattern, retryAddress,
                   seenOperator, result>>

Stuck ==
    Running /\ ~Exhausted /\ ~AtOperator /\ ~(Comparing /\ PartsMatch)

NoRetry == ~seenOperator \/ AddressExhaustedAt(retryAddress)

\* Mutant: the retry does not move on in the address.
RetryInPlace ==
    /\ Stuck /\ ~NoRetry
    /\ Compare
    /\ patternAt' = retryPattern
    /\ addressAt' = retryAddress
    /\ UNCHANGED <<way, texts, prepared, retryPattern, retryAddress,
                   seenOperator, result>>

\* The last operator takes one more part of the address.
Retry ==
    /\ Stuck /\ ~NoRetry
    /\ Compare
    /\ retryAddress' = AddressAfterPart(retryAddress)
    /\ patternAt' = retryPattern
    /\ addressAt' = AddressAfterPart(retryAddress)
    /\ UNCHANGED <<way, texts, prepared, retryPattern, seenOperator, result>>

Fail ==
    /\ Stuck /\ NoRetry
    /\ Compare
    /\ result' = "no match"
    /\ UNCHANGED <<way, texts, prepared, positions>>

Succeed ==
    /\ Running /\ Exhausted
    /\ result' = "match"
    /\ UNCHANGED <<way, texts, prepared, positions, compared>>

Next ==
    \/ PrepareNext \/ FallBack \/ UsePrepared \/ Reject
    \/ PassOperator \/ AdvanceBoth \/ Retry \/ Fail \/ Succeed

Spec == Init /\ [][Next]_vars /\ WF_vars(Next)

-----------------------------------------------------------------------------
\* No position of any way leaves its text by more than one, and prepareParts
\* never stores more tokens than there is room for.
TypeOK ==
    /\ way \in {"preparing", "parsed", "cursors", "prepared"}
    /\ pattern \in PatternTexts
    /\ address \in AddressTexts
    /\ Len(prepared) <= maxPreparedParts
    /\ {patternAt, retryPattern} \subseteq 0..(Len(pattern) + 1)
    /\ {addressAt, retryAddress} \subseteq 0..(Len(address) + 1)
    /\ seenOperator \in BOOLEAN
    /\ result \in {"running", "match", "no match"}

Fits ==
    {pair \in Seq(PlainBytes \cup {anyBytes}) \X Seq(PlainBytes) :
        MatchPart(pair[1], pair[2])}

\* The bounds of PartMatching are those of its own initial states only.
Parts ==
    INSTANCE PartMatching WITH
        PatternParts        <- Seq(PlainBytes \cup {anyBytes}),
        AddressParts        <- Seq(PlainBytes),
        MaxTokens           <- 0,
        MaxParts            <- 0,
        pattern             <- Tokens[pattern],
        address             <- AddressParts[address],
        patternPart         <- TokenIndex(patternAt),
        addressPart         <- PartIndex(addressAt),
        patternAfterOperator <- TokenIndex(retryPattern),
        addressAtOperator   <- PartIndex(retryAddress)

\* Whichever way the texts are matched, and wherever prepareParts gives up, the
\* loop takes the steps PartMatching takes over the tokens of the pattern and
\* the parts of the address, and none besides: the ways agree on every pair of
\* texts, well formed or not, and on every pair of parts they compare.
ImplementsPartLoop ==
    /\ HasLeadingSlash(address) => Parts!Begins
    /\ [][Parts!Next \/ ~HasLeadingSlash(address)]_(Parts!vars)

\* What is answered is what the reference of PartMatching defines.
AnswersAsDefined ==
    result # "running" =>
        (result = "match" <=>
            HasLeadingSlash(address)
            /\ Parts!MatchesFrom(Tokens[pattern], AddressParts[address], 1, 1))

\* A literal pattern that has parsed matches the address it is equal to, and no
\* other: Pattern::matches, which compares the texts of a literal pattern in
\* place of matching them, answers as the general matcher would.
LiteralMatchesOnlyItself ==
    result # "running" /\ HasLeadingSlash(pattern) /\ IsLiteral(pattern)
        /\ IsValidAddress(address)
    => (result = "match" <=> pattern = address)

\* Every way of matching two texts ends.
Returns == <>(result # "running")
=============================================================================
