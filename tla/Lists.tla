-------------------------------- MODULE Lists --------------------------------
(***************************************************************************)
(* Array.prototype.filter and a sum, as recursive functions: SelectSeq and *)
(* the folds of the community modules say the same, but nothing can be     *)
(* proved of a definition that is recursive or takes an operator.          *)
(***************************************************************************)
EXTENDS Integers, Sequences

\* The elements of s that are in S, in their order.
Only(s, S) ==
    LET kept[n \in 0 .. Len(s)] ==
          IF n = 0 THEN <<>> ELSE IF s[n] \in S THEN Append(kept[n - 1], s[n]) ELSE kept[n - 1]
    IN  kept[Len(s)]

\* The sum of the numbers in s.
Total(s) ==
    LET sum[n \in 0 .. Len(s)] == IF n = 0 THEN 0 ELSE sum[n - 1] + s[n]
    IN  sum[Len(s)]
=============================================================================
