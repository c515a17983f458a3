--------------------------- MODULE MCMovieServer ---------------------------
(* Instances of MovieServer for TLC. *)
EXTENDS MovieServer

CONSTANTS ann, bob

\* Two people whose names differ.
DistinctNames == (ann :> 40) @@ (bob :> 41)

=============================================================================
