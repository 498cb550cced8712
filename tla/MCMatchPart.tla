---------------------------- MODULE MCMatchPart ----------------------------
(***************************************************************************)
(* Instances of MatchPart for TLC.  Bytes are small numbers: 1, 2 and 3    *)
(* stand for three letters in order, 0 for '-', which is below them.       *)
(***************************************************************************)
EXTENDS MatchPart

CONSTANTS MaxTokens, MaxBytes

a == 1
b == 2
c == 3

MCTokens ==
    {Byte(a), Byte(b), AnyByte, AnyBytes,
     Set(<<a, 0, b>>, FALSE),       \* [a-b]
     Set(<<b, 0, b, 0, c>>, TRUE),  \* [!b-b-c]: a range, then two members
     Set(<<0, a, 0>>, FALSE),       \* [-a-]: no range at either end
     Set(<<>>, FALSE),              \* []
     List(<<<<a>>, <<a, b>>>>),     \* {a,ab}
     List(<<<<>>, <<b, 0>>>>)}      \* {,b-}

MCPatterns == UNION {[1..n -> MCTokens] : n \in 0..MaxTokens}

MCParts == UNION {[1..n -> {0, a, b}] : n \in 0..MaxBytes}
=============================================================================
