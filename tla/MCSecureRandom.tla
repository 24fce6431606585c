---------------------------- MODULE MCSecureRandom ----------------------------
(***************************************************************************)
(* SecureRandom for TLC: the processes other than the first one are        *)
(* interchangeable, and every property checked is a safety property.       *)
(***************************************************************************)
EXTENDS SecureRandom, TLC

Symmetry == Permutations(Processes \ {First})
===============================================================================
