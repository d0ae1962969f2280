-------------------------------- MODULE Sums --------------------------------
(* Sums and powers, as recursive functions.                                  *)
EXTENDS Integers

\* SumOf(f, n) is f[0] + ... + f[n - 1].
SumOf(f, n) == LET S[i \in 0..n] == IF i = 0 THEN 0 ELSE S[i - 1] + f[i - 1] IN S[n]

\* Power(base)[n] is base to the n.
Power(base) == LET P[n \in Nat] == IF n = 0 THEN 1 ELSE P[n - 1] * base IN P
=============================================================================
