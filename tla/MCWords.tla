------------------------------ MODULE MCWords ------------------------------
(***************************************************************************)
(* A word of text read a byte at a time: the word-wide tests of Words are  *)
(* checked on the word against the byte-wide ones on the text it was read  *)
(* from.                                                                   *)
(***************************************************************************)
EXTENDS Words, Functions

\* Bytes at both sides of every boundary the tests draw, and bytes above ASCII
\* that differ from one of them in the high bit alone.
BoundaryBytes ==
    {0, 1, 32, 33, 34, 35, 42, 43, 44, 46, 47, 48, 63, 64, 91, 92, 93, 97, 123,
     124, 125, 126, 127, 128, 129, 170, 175, 219, 251, 255}

\* A slash, an opener and a byte that carries.
FewBytes == {partSeparator, setOpen, 255}

VARIABLES chars

\* A word is made of a few bytes, or of one of them but for two side by side.
IsChosen(bytes) ==
    \/ Range(bytes) \subseteq FewBytes
    \/ \E fill \in FewBytes, at \in DOMAIN bytes :
          \A k \in DOMAIN bytes : k \in {at, at + 1} \/ bytes[k] = fill

MCInit == chars = <<>>

ReadByte ==
    /\ Len(chars) < wordSize
    /\ \E byte \in BoundaryBytes :
          /\ IsChosen(Append(chars, byte))
          /\ chars' = Append(chars, byte)

MCNext == ReadByte

MCSpec == MCInit /\ [][MCNext]_chars

Full == Len(chars) = wordSize
word == LoadWord(chars, 0)
Marks(P(_)) == WordOf([k \in Places |-> IF P(chars[k]) THEN 128 ELSE 0])

\* The word-wide test of a pattern finds a byte that is not plain exactly when
\* there is one, although a byte above ASCII makes the sums carry.
PatternTestExact ==
    Full => (HasPatternOpenerOrIllegalByte(word)
                <=> \E k \in 1..wordSize :
                        IsOpener(chars[k]) \/ ~IsLegalInPattern(chars[k]))

\* The same of the word-wide test of an address, to which a slash is legal.
AddressTestExact ==
    Full => (HasIllegalAddressByte(word)
                <=> \E k \in 1..wordSize :
                        chars[k] # partSeparator /\ ~IsLegalInAddressPart(chars[k]))

\* The marks of separators are exact whatever bytes lie beside them, so what is
\* read from the marks is what the text holds: a slash first in the word, two
\* slashes side by side, and the bytes after the last slash.
SeparatorsExact ==
    Full =>
        LET separators == BytesEqualTo(word, partSeparator)
            At == {k \in 1..wordSize : chars[k] = partSeparator}
        IN  /\ separators = Marks(LAMBDA byte : byte = partSeparator)
            /\ HasFirstByte(separators) <=> 1 \in At
            /\ HasAdjacentPair(separators) <=> \E k \in At : k + 1 \in At
            /\ At # {} => NumBytesAfterLast(separators) = wordSize - Max(At)
=============================================================================
