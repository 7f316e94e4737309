------------------------------- MODULE MCPlayer -------------------------------
(* Instances of Player for TLC: any set of two or three urls is as good as    *)
(* another, no operator tells them apart.                                     *)
EXTENDS Player, TLC

UrlSymmetry == Permutations(Urls)
=============================================================================
