-------------------------------- MODULE Sums --------------------------------
(***************************************************************************)
(* Sums of a function over 1..n, written as a recursive function so that   *)
(* they can be proved about (see SumTheorems).                             *)
(***************************************************************************)
EXTENDS Integers

(* The function i |-> f[1] + ... + f[i], for i in 0..n. *)
PartialSums(f, n) ==
  LET s[i \in 0..n] == IF i = 0 THEN 0 ELSE s[i-1] + f[i] IN s

(* f[1] + ... + f[n] *)
Sum(f, n) == PartialSums(f, n)[n]
=============================================================================
