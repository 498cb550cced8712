--------------------------- MODULE MCAddressIndex ---------------------------
(***************************************************************************)
(* Instances of AddressIndex for TLC, with every function from addresses   *)
(* to these hashes.  Two of them share the last home of a table of 4 slots *)
(* and of one of 8, where their probes wrap round the end of the table.    *)
(***************************************************************************)
EXTENDS AddressIndex

MCHashes == {6, 7, 15}
=============================================================================
