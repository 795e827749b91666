------------------------------ MODULE ListOps ------------------------------
(***************************************************************************)
(* What the models do with lists: a comprehension that filters one, and a  *)
(* sum over one, as folds.                                                 *)
(***************************************************************************)
EXTENDS Naturals, Sequences, SequencesExt

\* [e for e in s if e in S]
Among(s, S) == FoldLeft(LAMBDA kept, e : IF e \in S THEN Append(kept, e) ELSE kept, <<>>, s)

\* sum(s)
Total(s) == FoldLeft(LAMBDA sum, n : sum + n, 0, s)

=============================================================================
