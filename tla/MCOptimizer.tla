----------------------------- MODULE MCOptimizer -----------------------------
(***************************************************************************)
(* Families of functions for the optimiser.                                *)
(***************************************************************************)
EXTENDS Optimizer, PassManager

\* What entry blocks start with: two arguments, two constants and two addresses.
Common == <<Inst(1, "arg", <<>>, <<>>, 0), Inst(2, "arg", <<>>, <<>>, 1),
            Inst(3, "int", <<>>, <<>>, 1), Inst(4, "int", <<>>, <<>>, 0),
            Inst(5, "glob", <<>>, <<>>, 0), Inst(6, "glob", <<>>, <<>>, 1)>>

Function(order, body, next, caml) ==
  [order |-> order, body |-> body, next |-> next, ch |-> FALSE, ok |-> TRUE, caml |-> caml]

-----------------------------------------------------------------------------
(* Control-flow graphs.  sh gives the successors of each block.  Blocks 2 to 4 *)
(* start with a PHI when they have several predecessors, may store it, and end *)
(* in a return, a jump or a conditional jump.                                  *)

Shapes ==
  {<<<<2, 3>>, x, y, z>> :
     x \in {<<>>, <<3>>, <<4>>, <<2, 4>>, <<3, 4>>, <<4, 3>>, <<4, 4>>},
     y \in {<<2>>, <<4>>, <<2, 4>>, <<4, 3>>},
     z \in {<<>>, <<2>>, <<4, 3>>}}

\* Every block is reached.
Connected(sh) ==
  LET from(S) == S \cup UNION {Range(sh[b]) : b \in S}
  IN  from(from(from({1}))) = 1 .. 4

PredsOf(sh, b) == {p \in 1 .. 4 : b \in Range(sh[p])}

OnlyTo(sh, b) == IF Cardinality(Range(sh[b])) = 1 THEN sh[b][1] ELSE 0

\* Left out: blocks of PHIs that EliminatePhiBlocks must not bypass, because
\* they lead to themselves or a predecessor also leads to their successor.
PhiBlocksApart(sh) ==
  \A b \in 2 .. 4 : OnlyTo(sh, b) # 0 /\ Cardinality(PredsOf(sh, b)) > 1 =>
    /\ OnlyTo(sh, b) # b
    /\ \A p \in PredsOf(sh, b) : OnlyTo(sh, b) \notin Range(sh[p])

\* The value that PHIs take from p: the PHI of p if it has one.
FromPred(sh, p) ==
  IF Cardinality(PredsOf(sh, p)) > 1 THEN 40 + p
  ELSE CASE p = 1 -> 2 [] p = 2 -> 3 [] p = 3 -> 4 [] p = 4 -> 1

\* Left out: loops of blocks that only jump, which FindThread never leaves.
JumpsEnd(sh) ==
  LET to(b) == IF OnlyTo(sh, b) = 0 THEN b ELSE OnlyTo(sh, b)
  IN  \A b \in 2 .. 4 : OnlyTo(sh, to(to(to(b)))) = 0

CfgBlock(sh, stores, b) ==
  LET preds == InOrder(PredsOf(sh, b))
      phi == IF Len(preds) < 2 THEN <<>>
             ELSE <<Inst(40 + b, "phi", [k \in DOMAIN preds |-> FromPred(sh, preds[k])], preds, 0)>>
      x == IF Len(preds) < 2 THEN 2 ELSE 40 + b
      store == IF b \in stores THEN <<Inst(20 + b, "store", <<5, x>>, <<>>, 0)>> ELSE <<>>
      term == CASE Len(sh[b]) = 0 -> Inst(30 + b, "ret", <<x>>, <<>>, 0)
                [] Len(sh[b]) = 1 -> Inst(30 + b, "jmp", <<>>, sh[b], 0)
                [] Len(sh[b]) = 2 -> Inst(30 + b, "jc", <<1>>, sh[b], 0)
  IN  phi \o store \o <<term>>

CfgFunction(sh, stores, cond) ==
  Then(Function(<<1, 2, 3, 4>>,
    [b \in 1 .. 4 |->
       IF b > 1 THEN CfgBlock(sh, stores, b)
       ELSE Append(Common, Inst(31, "jc", <<cond>>, sh[1], 0))], 50, FALSE),
       LAMBDA f : f)

CfgFamily ==
  {CfgFunction(sh, stores, cond) :
     sh \in {s \in Shapes :
         Connected(s) /\ PhiBlocksApart(s) /\ JumpsEnd(s)},
     stores \in {{}, {2, 3}}, cond \in {1, 3}}

-----------------------------------------------------------------------------
(* Values.  The entry computes 7 and branches on 8; block 2 works on 7 and     *)
(* sees the condition again, block 3 may do so; they meet in block 4.           *)

Values ==
  {<<"add", <<4, 2>>, 0>>, <<"sub", <<1, 1>>, 0>>,
   <<"sub", <<2, 1>>, 0>>, <<"dbl", <<2>>, 0>>, <<"bitcast", <<1>>, 0>>,
   <<"mov", <<1>>, 0>>, <<"mov", <<5>>, 1>>,
   <<"sel", <<1, 5, 6>>, 0>>, <<"undef", <<>>, 0>>}

\* What block 2 does before the condition is repeated.
Uses ==
  {<<>>,
   <<Inst(11, "store", <<5, 7>>, <<>>, 0)>>,
   <<Inst(11, "load", <<7>>, <<>>, 0), Inst(12, "store", <<5, 11>>, <<>>, 0)>>,
   <<Inst(11, "int", <<>>, <<>>, 1), Inst(12, "add", <<2, 11>>, <<>>, 0),
     Inst(13, "add", <<2, 3>>, <<>>, 0), Inst(14, "store", <<12, 13>>, <<>>, 0)>>}

\* The condition again, or its inverse.
Again == {"eq", "ne"}

\* How block 2 is left: a jump, a call of 7, a tail call to the function itself
\* or to another one.
Exits == {Inst(20, "jmp", <<>>, <<4>>, 0), Inst(20, "call", <<7, 2>>, <<4>>, 0),
          Inst(20, "tcall", <<5, 4, 7>>, <<>>, 0), Inst(20, "tcall", <<6, 7>>, <<>>, 0)}

\* How the entry is left.
Branches == {Inst(9, "jc", <<8>>, <<2, 3>>, 0), Inst(9, "switch", <<8>>, <<3, 2>>, 0),
             Inst(9, "switch", <<7>>, <<2, 3>>, 0)}

ValueFunction(v, uses, cc, exit, branch, caml) ==
  LET value == Inst(7, v[1], v[2], <<>>, v[3])
      cond  == Inst(8, "eq", <<7, 4>>, <<>>, 0)
      again == Inst(17, cc, <<7, 4>>, <<>>, 0)
      to4   == exit.t = <<4>>
      from2 == IF exit.op = "call" THEN 20 ELSE 17
  IN  Then(Function(<<1, 2, 3, 4>>,
             <<Common \o <<value, cond, branch>>,
               uses \o <<again, Inst(18, "store", <<6, 17>>, <<>>, 0), exit>>,
               <<Inst(21, "int", <<>>, <<>>, 1), Inst(22, "eq", <<7, 4>>, <<>>, 0),
                 Inst(23, "jmp", <<>>, <<4>>, 0)>>,
               <<Inst(24, "phi", IF to4 THEN <<from2, 22>> ELSE <<22>>,
                      IF to4 THEN <<2, 3>> ELSE <<3>>, 0),
                 Inst(25, "sel", <<8, 24, 3>>, <<>>, 0),
                 Inst(26, "ret", <<25>>, <<>>, 0)>> >>, 50, caml),
           LAMBDA f : f)

ValueFamily ==
  {ValueFunction(v, ue[1], cc, ue[2], branch, branch.op = "switch") :
     v \in Values, ue \in (Uses \X {e \in Exits : e.op = "jmp"}) \cup ({<<>>} \X Exits),
     cc \in Again, branch \in Branches}

-----------------------------------------------------------------------------
(* Pipelines: the levels of optimisation and a -passes list with the analysis *)
(* and the passes that belong to no level.  Passes that are not modelled are   *)
(* disabled, the way LLIR_OPT_DISABLED does it.                               *)

NamedPasses == <<"pta", "undef-elim", "pta", "global-value-numbering", "phi-taut",
                 "pta", "simplify-cfg", "eliminate-select", "pta">>

Named == FlattenSeq([k \in DOMAIN NamedPasses |-> Add(NamedPasses[k])])

AllPipelines == {EmitCode(AddOpt1), AddOpt2, AddOpt4, AddOptS, Named}

Modelled == {"simplify-cfg", "dedup-block", "dead-code-elim", "tail-rec-elim", "undef-elim",
             "move-elim", "phi-taut", "dedup-const", "global-value-numbering", "peephole",
             "localize-select", "eliminate-select", "cond-simplify", "sccp", "pta"}

PassesOf(g) == UNION {Range(g[k].passes) : k \in DOMAIN g}
NotModelled == UNION {PassesOf(g) : g \in AllPipelines} \ Modelled

Programs == CfgFamily \cup ValueFamily
AnalysisPasses == {"pta"}

\* What Verifier and the assertions of the code ask of a program: blocks end in
\* their only terminator, PHIs have one value for each predecessor, definitions
\* dominate uses, and no assertion of a pass has failed (simplify_cfg.cpp,
\* dedup_block.cpp, dead_code_elim.cpp, PhiInst::Remove).
ValidIR == prog.ok /\ WellFormed(prog)
=============================================================================
