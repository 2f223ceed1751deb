------------------------------- MODULE Decimals -------------------------------
(***************************************************************************)
(* The rounding and the sums that the modules of app/analytics share.  A   *)
(* Decimal is an integer count of its quantum, so that rounding is visible *)
(* where the code rounds and nowhere else.                                 *)
(***************************************************************************)
EXTENDS Integers, Sequences

\* ROUND_HALF_EVEN of n / d, for d > 0.
RoundHalfEven(n, d) ==
  LET q == n \div d
      r == n % d
  IN  IF 2 * r > d \/ (2 * r = d /\ q % 2 = 1) THEN q + 1 ELSE q

\* The same for a divisor of either sign.
Quotient(n, d) == IF d > 0 THEN RoundHalfEven(n, d) ELSE RoundHalfEven(-n, -d)

Abs(n) == IF n < 0 THEN -n ELSE n

\* sum(...) over a sequence of integers.
Total(s) ==
  LET sum[n \in 0 .. Len(s)] == IF n = 0 THEN 0 ELSE sum[n - 1] + s[n]
  IN  sum[Len(s)]

=============================================================================
