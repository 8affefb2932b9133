---------------------------- MODULE MCPolicyStore ----------------------------
(***************************************************************************)
(* Constants for the runs on PolicyStore.  The percentages include both    *)
(* bounds and what is refused beyond them, the buckets those on either     *)
(* side of each percentage.                                                *)
(***************************************************************************)
EXTENDS PolicyStoreProps

SomePercentages == {0, 30, 100, 101}
SomeBuckets == {0, 29, 30, 99}
=============================================================================
