--------------------------------- MODULE Digits ---------------------------------
(* What a string of digits stands for: the decimal strings of the policy       *)
(* engine, the hexadecimal words of calldata.                                  *)
EXTENDS Naturals, Sequences

\* The value of the first i digits is that of the first i - 1, shifted, and the
\* i-th digit.
ValueOf(s, base) ==
  LET upTo[i \in 1..Len(s)] == s[i] + (IF i = 1 THEN 0 ELSE upTo[i - 1] * base)
  IN  upTo[Len(s)]

=============================================================================
