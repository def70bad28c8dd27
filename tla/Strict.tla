------------------------------- MODULE Strict -------------------------------
(***************************************************************************)
(* Evaluation helpers: loops which carry a program, a graph or the state of *)
(* an evaluator from one round to the next.                                *)
(***************************************************************************)
EXTENDS Integers, FiniteSets, Sequences, SequencesExt, TLC

\* F applied to x.
Then(x, F(_)) == CHOOSE r \in {F(y) : y \in {z \in {x} : z = z}} : TRUE

\* The state after one round for each element of a sequence.
Through(F(_, _), base, s) ==
  LET after[k \in 0 .. Len(s)] ==
        IF k = 0 THEN base ELSE Then(after[k - 1], LAMBDA y : F(y, s[k]))
  IN  after[Len(s)]

\* The members of a set, in some order.
InAnyOrder(S) == FoldSet(LAMBDA x, s : Append(s, x), <<>>, S)

\* The members of a set of numbers, in increasing order.
InOrder(S) == SortSeq(InAnyOrder(S), LAMBDA x, y : x < y)
=============================================================================
