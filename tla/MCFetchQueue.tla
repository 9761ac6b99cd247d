---------------------------- MODULE MCFetchQueue ----------------------------
(* Instances of FetchQueue for TLC. *)
EXTENDS FetchQueue, TLC

\* Tokens are interchangeable.
TokenSymmetry == Permutations(Tokens)
=============================================================================
