-------------------------------- MODULE Sums --------------------------------
(***************************************************************************)
(* Sums of numbered terms.                                                 *)
(***************************************************************************)
EXTENDS Integers

\* f[1] + ... + f[n]
SumTo(f, n) ==
    LET S[k \in 0..n] == IF k = 0 THEN 0 ELSE S[k - 1] + f[k]
    IN  S[n]
=============================================================================
