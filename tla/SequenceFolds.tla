---------------------------- MODULE SequenceFolds ----------------------------
(***************************************************************************)
(* What the models take out of sequences, written as recursive functions,  *)
(* which the proofs can reason about (SequenceFacts).                      *)
(***************************************************************************)
EXTENDS Naturals, Sequences

\* The elements of s that belong to T, in order.
Selected(s, T) ==
  LET pick[n \in 0..Len(s)] ==
        IF n = 0 THEN <<>>
        ELSE IF s[n] \in T THEN Append(pick[n - 1], s[n])
        ELSE pick[n - 1]
  IN  pick[Len(s)]

\* The sum of a sequence of numbers.
Total(s) ==
  LET sum[n \in 0..Len(s)] == IF n = 0 THEN 0 ELSE sum[n - 1] + s[n]
  IN  sum[Len(s)]
=============================================================================
