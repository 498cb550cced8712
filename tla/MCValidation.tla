---------------------------- MODULE MCValidation ----------------------------
(***************************************************************************)
(* Instances of Validation for TLC: the texts over a few bytes, of which   *)
(* 128 is above ASCII.                                                     *)
(***************************************************************************)
EXTENDS Validation, SequencesExt

CONSTANTS
    MaxRest     \* bound: the bytes after a leading slash

plain == 97

\* Every text with a leading slash, and a few without.
TextsOver(bytes, max) ==
    {<<partSeparator>> \o rest : rest \in BoundedSeq(bytes, max)}
        \cup BoundedSeq(bytes, 1)

\* Bytes for patterns with one kind of construct, and with two.
ClassBytes == {partSeparator, plain, anyBytes, setOpen, setClose, 128}
ConstructBytes ==
    {partSeparator, plain, setOpen, setClose, listOpen, listClose, nul}

\* Bytes for addresses.
AddressBytes == {partSeparator, plain, anyByte, 128}

MCTextBytes == ClassBytes \cup ConstructBytes \cup AddressBytes

MCPatternTexts ==
    TextsOver(ClassBytes, MaxRest) \cup TextsOver(ConstructBytes, MaxRest - 1)

MCAddressTexts == TextsOver(AddressBytes, MaxRest)
=============================================================================
