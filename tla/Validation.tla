----------------------------- MODULE Validation -----------------------------
(***************************************************************************)
(* The scans that parse a pattern and an address: scanPattern and          *)
(* validateAddress (include/oscpm/detail/validate.h).  Both take a word at *)
(* a time where a word-wide test lets them, and bytes where it does not; a *)
(* pattern goes back to words after a run of bytes, and each run is twice  *)
(* as long as the one before.  Positions are counted from zero.            *)
(***************************************************************************)
EXTENDS Words

CONSTANTS
    PatternTexts,           \* the texts parsed as patterns
    AddressTexts,           \* the texts parsed as addresses
    TextBytes,              \* the bytes they are made of
    kMaxPatternLength,
    kMaxAddressPartLength,
    firstByteRun            \* 4 * wordSize in the code

\* The static_assert of validate.h.
ASSUME LengthAssumption == kMaxPatternLength <= kMaxAddressPartLength

ASSUME ConstantsAssumption ==
    /\ TextBytes \subseteq Byte
    /\ PatternTexts \cup AddressTexts \subseteq Seq(TextBytes)
    /\ kMaxPatternLength \in Nat \ {0}
    /\ kMaxAddressPartLength \in Nat
    /\ firstByteRun \in Nat \ {0}

VARIABLES
    scanning,   \* "pattern", "address", or "bytes": validateAddressBytes
    text,
    i,          \* the position of the scan; `checked' in validateAddress
    stop,       \* the end of the run of bytes being read
    byteRun,    \* the length of the next
    partStart,  \* where the current part of an address begins
    isLiteral,
    result      \* "running", "ok", or the first fault

vars == <<scanning, text, i, stop, byteRun, partStart, isLiteral, result>>

PatternError == {"UnterminatedClass", "UnterminatedBraces", "PatternTooLong"}
AddressError == {"TrailingSlash", "EmptyPart", "PartTooLong"}
SharedError == {"MissingLeadingSlash", "IllegalByte"}

\* A scan never stands behind the end of its text, and returns an error that its
\* kind of text can have.
TypeOK ==
    /\ scanning \in {"pattern", "address", "bytes"}
    /\ text \in Seq(TextBytes)
    /\ {i, stop, partStart} \subseteq 1..Max({1, Len(text)})
    /\ byteRun \in Nat \ {0}
    /\ isLiteral \in BOOLEAN
    /\ result \in {"running", "ok"} \cup SharedError
                  \cup (IF scanning = "pattern" THEN PatternError
                                              ELSE AddressError)

-----------------------------------------------------------------------------
At(at) == text[at + 1]

HasLeadingSlash == text # <<>> /\ At(0) = partSeparator

IsSeparator(at) == At(at) = partSeparator

HasWildcard ==
    \/ \E at \in 0..(Len(text) - 1) : IsOpener(At(at))
    \/ \E at \in 1..(Len(text) - 1) : IsSeparator(at - 1) /\ IsSeparator(at)

HasIllegalByteFrom(from) ==
    \E at \in from..(Len(text) - 1) : ~IsLegalInPattern(At(at))

HasPartLongerThan(limit) ==
    \E from \in 0..(Len(text) - limit - 1) :
        \A at \in from..(from + limit) : ~IsSeparator(at)

IsConstruct(byte) == byte \in {setOpen, listOpen}

\* scanConstruct: the closing byte before the next slash, or npos.
Close(open) ==
    LET close == IF At(open) = setOpen THEN setClose ELSE listClose
        Stops == {at \in (open + 1)..(Len(text) - 1) :
                     At(at) = close \/ IsSeparator(at)}
    IN  IF Stops = {} \/ At(Min(Stops)) # close THEN -1 ELSE Min(Stops)

ConstructIsLegal(open) ==
    \A at \in (open + 1)..(Close(open) - 1) : IsLegalInPattern(At(at))

Unterminated(open) ==
    IF At(open) = setOpen THEN "UnterminatedClass" ELSE "UnterminatedBraces"

-----------------------------------------------------------------------------
\* How much of a pattern is scanned; the rest only matters to its length.
Checked == Min({Len(text), kMaxPatternLength})

Init ==
    /\ scanning \in {"pattern", "address"}
    /\ text \in IF scanning = "pattern" THEN PatternTexts ELSE AddressTexts
    /\ i = 1
    /\ stop = 1
    /\ byteRun = firstByteRun
    /\ partStart = 1
    /\ isLiteral = TRUE
    /\ result = "running"

Return(answer) ==
    /\ result' = answer
    /\ UNCHANGED <<scanning, text, i, stop, byteRun, partStart, isLiteral>>

RejectStart ==
    /\ result = "running" /\ i = 1 /\ ~HasLeadingSlash
    /\ Return("MissingLeadingSlash")

ScanningPattern ==
    result = "running" /\ scanning = "pattern" /\ HasLeadingSlash

InRun == i < stop

\* What the scans ask of a word, tabulated.
WordTests ==
    [word \in {WordOf(bytes) : bytes \in [Places -> TextBytes]} |->
        LET separators == BytesEqualTo(word, partSeparator)
        IN  [hasOpenerOrIllegal |-> HasPatternOpenerOrIllegalByte(word),
             hasIllegal         |-> HasIllegalAddressByte(word),
             hasSeparator       |-> separators # noBits,
             hasAdjacentPair    |-> HasAdjacentPair(separators),
             hasFirstByte       |-> HasFirstByte(separators),
             numBytesAfterLast  |-> NumBytesAfterLast(separators)]]

Word(at) == WordTests[LoadWord(text, at)]

PlainWordAt(at) ==
    at + wordSize <= Checked /\ ~Word(at).hasOpenerOrIllegal

\* Mutant: the byte before the word is not looked at.
WordIsLiteralWithin(at) == ~Word(at).hasAdjacentPair

\* No run of slashes within the word or into it.
WordIsLiteral(at) ==
    /\ ~Word(at).hasAdjacentPair
    /\ ~(IsSeparator(at - 1) /\ Word(at).hasFirstByte)

\* Mutant: the run after a word is empty.
ReadWordNoRun ==
    /\ ScanningPattern /\ ~InRun /\ i < Checked /\ PlainWordAt(i)
    /\ isLiteral' = (isLiteral /\ WordIsLiteral(i))
    /\ i' = i + wordSize
    /\ byteRun' = 0
    /\ UNCHANGED <<scanning, text, stop, partStart, result>>

ReadWord ==
    /\ ScanningPattern /\ ~InRun /\ i < Checked /\ PlainWordAt(i)
    /\ isLiteral' = (isLiteral /\ WordIsLiteral(i))
    /\ i' = i + wordSize
    /\ byteRun' = firstByteRun
    /\ UNCHANGED <<scanning, text, stop, partStart, result>>

\* Mutant: a run may reach past the end of the text.
StartRunUnbounded ==
    /\ ScanningPattern /\ ~InRun /\ i < Checked /\ ~PlainWordAt(i)
    /\ stop' = i + byteRun
    /\ byteRun' = 2 * byteRun
    /\ UNCHANGED <<scanning, text, i, partStart, isLiteral, result>>

\* Mutant: a run may reach past the bytes to be scanned.
StartRunUnchecked ==
    /\ ScanningPattern /\ ~InRun /\ i < Checked /\ ~PlainWordAt(i)
    /\ stop' = Min({i + byteRun, Len(text)})
    /\ byteRun' = 2 * byteRun
    /\ UNCHANGED <<scanning, text, i, partStart, isLiteral, result>>

StartRun ==
    /\ ScanningPattern /\ ~InRun /\ i < Checked /\ ~PlainWordAt(i)
    /\ stop' = Min({i + byteRun, Checked})
    /\ byteRun' = 2 * byteRun
    /\ UNCHANGED <<scanning, text, i, partStart, isLiteral, result>>

ReadingByte == ScanningPattern /\ InRun

ReadOn(next, literal) ==
    /\ i' = next
    /\ isLiteral' = (isLiteral /\ literal)
    /\ UNCHANGED <<scanning, text, stop, byteRun, partStart, result>>

ReadPlain ==
    /\ ReadingByte
    /\ IsLegalInPattern(At(i)) /\ ~IsOpener(At(i)) /\ ~IsSeparator(i)
    /\ ReadOn(i + 1, TRUE)

ReadSeparator ==
    /\ ReadingByte /\ IsSeparator(i)
    /\ ReadOn(i + 1, ~IsSeparator(i - 1))

ReadWildcard ==
    /\ ReadingByte /\ At(i) \in {anyByte, anyBytes}
    /\ ReadOn(i + 1, FALSE)

ReadIllegal ==
    /\ ReadingByte /\ ~IsLegalInPattern(At(i))
    /\ Return("IllegalByte")

ReadUnterminated ==
    /\ ReadingByte /\ IsConstruct(At(i)) /\ Close(i) = -1
    /\ Return(Unterminated(i))

ReadIllegalConstruct ==
    /\ ReadingByte
    /\ IsConstruct(At(i)) /\ Close(i) # -1 /\ ~ConstructIsLegal(i)
    /\ Return("IllegalByte")

\* A construct is read whole, past the end of the run or of what is scanned.
ReadConstruct ==
    /\ ReadingByte
    /\ IsConstruct(At(i)) /\ Close(i) # -1 /\ ConstructIsLegal(i)
    /\ ReadOn(Close(i) + 1, FALSE)

\* A wildcard anywhere makes the length count.
IsTooLong == Len(text) > kMaxPatternLength /\ HasWildcard

EndPattern ==
    /\ ScanningPattern /\ ~InRun /\ i >= Checked
    /\ result' = IF IsTooLong THEN "PatternTooLong"
                 ELSE IF HasIllegalByteFrom(Checked) THEN "IllegalByte"
                 ELSE "ok"
    /\ isLiteral' = IF Len(text) > kMaxPatternLength /\ result' = "ok"
                    THEN ~HasPartLongerThan(kMaxAddressPartLength)
                    ELSE isLiteral
    /\ UNCHANGED <<scanning, text, i, stop, byteRun, partStart>>

-----------------------------------------------------------------------------
ReadingWords ==
    result = "running" /\ scanning = "address" /\ HasLeadingSlash

WordIsLegal ==
    /\ i + wordSize <= Len(text)
    /\ ~Word(i).hasIllegal
    /\ i + wordSize - partStart <= kMaxAddressPartLength

WordHasEmptyPart ==
    Word(i).hasAdjacentPair \/ (partStart = i /\ Word(i).hasFirstByte)

\* Mutant: the part is taken to begin with the next word.
PartStartAfterWord == i + wordSize

PartStartInWord ==
    IF Word(i).hasSeparator THEN i + wordSize - Word(i).numBytesAfterLast
                            ELSE partStart

AcceptWord ==
    /\ ReadingWords /\ WordIsLegal /\ ~WordHasEmptyPart
    /\ i' = i + wordSize
    /\ partStart' = PartStartInWord
    /\ UNCHANGED <<scanning, text, stop, byteRun, isLiteral, result>>

RejectWord ==
    /\ ReadingWords /\ WordIsLegal /\ WordHasEmptyPart
    /\ Return("EmptyPart")

\* The rest of the address is read by validateAddressBytes.
LeaveWords ==
    /\ ReadingWords /\ ~WordIsLegal
    /\ scanning' = "bytes"
    /\ UNCHANGED <<text, i, stop, byteRun, partStart, isLiteral, result>>

ReadingAddressByte == result = "running" /\ scanning = "bytes" /\ i < Len(text)

EndPart ==
    /\ ReadingAddressByte /\ IsSeparator(i)
    /\ IF i = partStart
       THEN result' = "EmptyPart" /\ UNCHANGED <<i, partStart>>
       ELSE i' = i + 1 /\ partStart' = i + 1 /\ UNCHANGED result
    /\ UNCHANGED <<scanning, text, stop, byteRun, isLiteral>>

RejectAddressByte ==
    /\ ReadingAddressByte /\ ~IsSeparator(i) /\ ~IsLegalInAddressPart(At(i))
    /\ Return("IllegalByte")

RejectLongPart ==
    /\ ReadingAddressByte /\ ~IsSeparator(i) /\ IsLegalInAddressPart(At(i))
    /\ i + 1 - partStart > kMaxAddressPartLength
    /\ Return("PartTooLong")

ReadPartByte ==
    /\ ReadingAddressByte /\ ~IsSeparator(i) /\ IsLegalInAddressPart(At(i))
    /\ i + 1 - partStart <= kMaxAddressPartLength
    /\ ReadOn(i + 1, TRUE)

EndAddress ==
    /\ result = "running" /\ scanning = "bytes" /\ i >= Len(text)
    /\ Return(IF partStart = Len(text) THEN "TrailingSlash" ELSE "ok")

ScanPattern ==
    \/ ReadWord \/ StartRun \/ ReadPlain \/ ReadSeparator \/ ReadWildcard
    \/ ReadIllegal \/ ReadUnterminated \/ ReadIllegalConstruct
    \/ ReadConstruct \/ EndPattern

ScanAddress ==
    \/ AcceptWord \/ RejectWord \/ LeaveWords \/ EndPart
    \/ RejectAddressByte \/ RejectLongPart \/ ReadPartByte \/ EndAddress

Next == RejectStart \/ ScanPattern \/ ScanAddress

Spec == Init /\ [][Next]_vars /\ WF_vars(Next)

-----------------------------------------------------------------------------
(***************************************************************************)
(* The reference reads a text from left to right, one byte at a time, with *)
(* no words and no runs.  A fault lies at the byte `at' that is illegal,   *)
(* in the construct, if any, that opens at `open'.                         *)
(***************************************************************************)
NoFault == [kind |-> "ok", open |-> Len(text), at |-> Len(text)]

PatternFault ==
    LET from[at \in 1..Len(text)] ==
            IF at = Len(text) THEN NoFault
            ELSE IF ~IsLegalInPattern(At(at))
                 THEN [kind |-> "IllegalByte", open |-> at, at |-> at]
            ELSE IF ~IsConstruct(At(at)) THEN from[at + 1]
            ELSE IF Close(at) = -1
                 THEN [kind |-> Unterminated(at), open |-> at, at |-> at]
            ELSE IF ~ConstructIsLegal(at)
                 THEN [kind |-> "IllegalByte", open |-> at,
                       at |-> Min({b \in at..(Len(text) - 1) :
                                      ~IsLegalInPattern(At(b))})]
            ELSE from[Close(at) + 1]
    IN  from[1]

\* A pattern is too long at its first byte past the limit.
WithLength(fault, at) ==
    IF IsTooLong /\ at >= kMaxPatternLength THEN "PatternTooLong"
                                            ELSE fault.kind

PartLengthAt(at) ==
    at - Max({b \in 0..at : IsSeparator(b)})

AddressFaultAt(at) ==
    IF IsSeparator(at) THEN IF IsSeparator(at - 1) THEN "EmptyPart" ELSE "ok"
    ELSE IF ~IsLegalInAddressPart(At(at)) THEN "IllegalByte"
    ELSE IF PartLengthAt(at) > kMaxAddressPartLength THEN "PartTooLong"
    ELSE "ok"

AddressFault ==
    LET Faults == {at \in 1..(Len(text) - 1) : AddressFaultAt(at) # "ok"}
    IN  IF Faults # {} THEN AddressFaultAt(Min(Faults))
        ELSE IF IsSeparator(Len(text) - 1) THEN "TrailingSlash" ELSE "ok"

Parsed == result # "running" /\ HasLeadingSlash

\* The construct is open at the limit, and its illegal byte lies behind it.
StraddlesLimit(fault) ==
    fault.open < kMaxPatternLength /\ fault.at >= kMaxPatternLength

\* The pattern's fault is the first from the left, as reading byte by byte would
\* report it, whichever words and runs of bytes the scan goes by; the length is a
\* fault where the limit is.  There is one exception: the scan reads a construct
\* to its end before it looks at the length, so a construct that opens ahead of
\* the limit is reported for an illegal byte behind it.
PatternFaultAsDefined ==
    Parsed /\ scanning = "pattern" =>
        LET fault == PatternFault
        IN  result = IF StraddlesLimit(fault) THEN fault.kind
                                              ELSE WithLength(fault, fault.at)

\* corpus/matching.txt: "The first fault in a left-to-right scan wins."  The rule
\* knows no exception.
FirstFaultWins ==
    Parsed /\ scanning = "pattern" =>
        LET fault == PatternFault IN result = WithLength(fault, fault.at)

\* The same of an address.
AddressFaultAsDefined ==
    Parsed /\ scanning # "pattern" => result = AddressFault

\* A pattern that parses is literal exactly when it has no wildcard, no run of
\* slashes and no part an address could not have: then comparing its text with
\* an address is matching it.
LiteralAsDefined ==
    Parsed /\ scanning = "pattern" /\ result = "ok" =>
        (isLiteral <=>
            ~HasWildcard /\ ~HasPartLongerThan(kMaxAddressPartLength))

\* Every scan ends.
Returns == <>(result # "running")
=============================================================================
