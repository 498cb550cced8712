--------------------------- MODULE MCAddressSpace ---------------------------
(***************************************************************************)
(* Instances of AddressSpace for TLC.  The texts of a run are the          *)
(* addresses 1..NumAddresses and these: `star` matches every address,      *)
(* `ends` the first and the last, `last` the last alone, `absent` and      *)
(* `long` are literals no address equals, the latter too long to be kept,  *)
(* and `torn` does not parse.                                              *)
(***************************************************************************)
EXTENDS AddressSpace

CONSTANTS star, ends, last, long, absent, torn, oneBucket

MCSelects ==
    [w \in Wildcards |->
        CASE w = star -> Address
          [] w = ends -> {1, NumAddresses}
          [] w = last -> {NumAddresses}]

\* Every text falls into one bucket: each store meets each reader.
MCBucketOf == [t \in Texts |-> oneBucket]

MCShort == Texts \ {long}
=============================================================================
