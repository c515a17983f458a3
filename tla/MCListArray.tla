---------------------------- MODULE MCListArray ----------------------------
(* An instance of ListArray for TLC. *)
EXTENDS ListArray

CONSTANTS ann, bob, a1, a2, a3, a4, a5

=============================================================================
