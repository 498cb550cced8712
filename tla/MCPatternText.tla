--------------------------- MODULE MCPatternText ---------------------------
(***************************************************************************)
(* Instances of PatternText for TLC: `a` and `b` are plain bytes.          *)
(***************************************************************************)
EXTENDS PatternText

CONSTANTS a, b

\* Every pattern of up to three bytes, those of four that begin with a slash or
\* leave out `b`, and those of five that begin with a slash and leave out `b`.
MCPatternTexts ==
    {text \in BoundedSeq({a, b, partSeparator, anyBytes}, 4) :
        Len(text) = 4 => HasLeadingSlash(text) \/ b \notin Range(text)}
    \cup {text \in BoundedSeq({a, partSeparator, anyBytes}, 5) :
        Len(text) = 5 => HasLeadingSlash(text)}

\* Every address of up to three bytes, and those of four that begin with a
\* slash: the others are rejected at their first byte.
MCAddressTexts ==
    {text \in BoundedSeq({a, b, partSeparator}, 4) :
        Len(text) = 4 => HasLeadingSlash(text)}
=============================================================================
