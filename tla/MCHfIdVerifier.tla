--------------------------- MODULE MCHfIdVerifier ---------------------------
(* Instances of HfIdVerifier: two request threads and two ids.  The threads  *)
(* and the ids are interchangeable in the runs that check safety only.       *)
EXTENDS HfIdVerifier, TLC

CONSTANTS t1, t2, k1, k2

MCThreads == {t1, t2}
MCKeys == {k1, k2}
MCSymmetry == Permutations(MCThreads) \cup Permutations(MCKeys)
=============================================================================
