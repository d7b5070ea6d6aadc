-------------------------------- MODULE MCShare --------------------------------
(***************************************************************************)
(* Share for TLC: requests and comments are interchangeable.               *)
(***************************************************************************)
EXTENDS Share, TLC

Symmetry == Permutations(Reader) \union Permutations(Toggler) \union Permutations(Comment)
=============================================================================
