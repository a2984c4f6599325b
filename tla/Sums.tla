-------------------------------- MODULE Sums ---------------------------------
(***************************************************************************)
(* Sums of finitely many numbers, as the loops and the reduce calls of the *)
(* code make them.                                                         *)
(***************************************************************************)
EXTENDS FiniteSetsExt

(* The sum of the values of a function.                                    *)
Total(f) == MapThenSumSet(LAMBDA x : f[x], DOMAIN f)
=============================================================================
