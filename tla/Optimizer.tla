------------------------------ MODULE Optimizer ------------------------------
(***************************************************************************)
(* The pass manager with the passes of CfgPasses and ValuePasses, and the   *)
(* pipelines of tools/llir-opt/opt.cpp as far as these passes go.           *)
(*                                                                         *)
(* What functions of the intermediate representation mean: a machine that  *)
(* runs them, the observations it makes, and when one function may stand   *)
(* for another.  Nothing here models code of the optimiser; the passes are  *)
(* judged by it.                                                           *)
(*                                                                         *)
(* Integers have two bits.  -1 is an undefined value.  Stores, calls,       *)
(* returns and traps are observed; what memory and calls return depends on  *)
(* what was observed before.  Branching on an undefined value, accesses to  *)
(* addresses of the first page (0 and 1) and a switch without a case for    *)
(* its index have no meaning.                                              *)
(***************************************************************************)
EXTENDS ValuePasses

CONSTANT Fuel    \* the number of blocks a run executes at most

ASSUME FuelAssumption == Fuel \in Nat

U == -1
Unmapped == {U, 0, 1}
Arith(x, y, z) == IF U \in {x, y} THEN U ELSE z % 4

\* The value of a computation.
Eval(i, env, args, n) ==
  LET v(k) == env[i.a[k]]
  IN  CASE i.op = "int"  -> i.v
        [] i.op = "arg"  -> args[i.v + 1]
        [] i.op = "glob" -> 2 + i.v
        [] i.op = "baddr" -> 3
        [] i.op = "undef" -> U
        [] i.op \in {"mov", "bitcast"} -> v(1)
        [] i.op = "add"  -> Arith(v(1), v(2), v(1) + v(2))
        [] i.op = "sub"  -> Arith(v(1), v(2), v(1) - v(2))
        [] i.op = "dbl"  -> Arith(v(1), 0, 2 * v(1))
        [] i.op \in Cmps -> Arith(v(1), v(2), IF Compare(i.op, v(1), v(2)) THEN 1 ELSE 0)
        [] i.op = "sel"  -> IF v(1) = U THEN U ELSE IF v(1) # 0 THEN v(2) ELSE v(3)
        [] i.op = "load" -> (v(1) + n) % 4

\* m: the block about to run and the one before, the values, the arguments,
\* the observations, and whether the run goes on (run), ended (end), has no
\* meaning (ub) or ran out of fuel (cut).
Observe(m, e) == [m EXCEPT !.ev = Append(@, e)]

StepInst(m, i) ==
  LET v(k) == m.env[i.a[k]]
  IN  CASE m.out = "ub" -> m
        [] m.out # "ub" /\ i.op \in {"load", "store"} /\ v(1) \in Unmapped -> [m EXCEPT !.out = "ub"]
        [] m.out # "ub" /\ i.op = "store" /\ v(1) \notin Unmapped -> Observe(m, <<0, v(1), v(2)>>)
        [] OTHER -> [m EXCEPT !.env = (i.id :> Eval(i, m.env, m.args, Len(m.ev))) @@ @]

Goto(m, b) == [m EXCEPT !.prev = m.at, !.at = b]
Stop(m, e) == [Observe(m, e) EXCEPT !.out = "end"]

StepTerm(f, m, i) ==
  LET v(k) == m.env[i.a[k]]
      second == IF Len(i.a) > 1 THEN v(2) ELSE 0
  IN  CASE m.out = "ub"   -> m
        [] m.out # "ub" /\ i.op = "jmp"  -> Goto(m, i.t[1])
        [] m.out # "ub" /\ i.op = "ret"  -> Stop(m, <<2, v(1), 0>>)
        [] m.out # "ub" /\ i.op = "trap" -> Stop(m, <<4, 0, 0>>)
        [] m.out # "ub" /\ i.op = "call" ->
             Goto([Observe(m, <<1, v(1), second>>) EXCEPT
                     !.env = (i.id :> Arith(v(1), second, v(1) + second + Len(m.ev))) @@ @],
                  i.t[1])
        [] m.out # "ub" /\ i.op = "tcall" ->
             IF v(1) = 2
             THEN [m EXCEPT !.args = [k \in 1 .. NumParams |-> v(k + 1)],
                            !.env = <<>>, !.prev = 0, !.at = Entry(f)]
             ELSE Stop(m, <<3, v(1), second>>)
        [] m.out # "ub" /\ i.op = "jc" ->
             IF v(1) = U THEN [m EXCEPT !.out = "ub"]
             ELSE Goto(m, IF v(1) # 0 THEN i.t[1] ELSE i.t[2])
        [] m.out # "ub" /\ i.op = "switch" ->
             IF v(1) = U \/ v(1) >= Len(i.t) THEN [m EXCEPT !.out = "ub"]
             ELSE Goto(m, i.t[v(1) + 1])

\* PHIs read their operands at once, then the other instructions follow.
StepBlock(f, m) ==
  LET body == f.body[m.at]
      phis == Phis(f, m.at)
      moves == [x \in {p.id : p \in Range(phis)} |->
                  LET p == CHOOSE q \in Range(phis) : q.id = x
                  IN  m.env[GetValue(p, m.prev)]]
      rest == SubSeq(body, Len(phis) + 1, Len(body) - 1)
  IN  Then(Through(StepInst, [m EXCEPT !.env = moves @@ @], rest),
           LAMBDA n : StepTerm(f, n, Last(body)))

RECURSIVE RunFrom(_, _, _)
RunFrom(f, m, n) ==
  IF m.out # "run" THEN [ev |-> m.ev, out |-> m.out]
  ELSE IF n = 0 THEN [ev |-> m.ev, out |-> "cut"]
  ELSE Then(StepBlock(f, m), LAMBDA k : RunFrom(f, k, n - 1))

Execute(f, args) ==
  RunFrom(f, [at |-> Entry(f), prev |-> 0, env |-> <<>>, args |-> args,
              ev |-> <<>>, out |-> "run"], Fuel)

\* What the function does for each choice of arguments.
Meaning(f) == [args \in [1 .. NumParams -> 0 .. 1] |-> Execute(f, args)]

\* The observations of the new run agree with the old ones as far as both go;
\* an undefined value stands for any.
Agree(new, old) ==
  /\ \A k \in 1 .. (IF Len(new) < Len(old) THEN Len(new) ELSE Len(old)) :
       \A j \in 1 .. 3 : old[k][j] \in {U, new[k][j]}

RefinesRun(new, old) ==
  \/ old.out = "ub"
  \/ /\ new.out # "ub"
     /\ Agree(new.ev, old.ev)
     /\ Len(new.ev) < Len(old.ev) => new.out = "cut"
     /\ Len(new.ev) > Len(old.ev) => old.out = "cut"

Refines(new, old) == \A args \in DOMAIN old : RefinesRun(new[args], old[args])

-----------------------------------------------------------------------------
(* Well-formed functions *)

\* The definition of x is available at the end of block b, or in it before
\* place k.
Available(f, x, b, k) ==
  /\ Defined(f, x)
  /\ LET d == Parent(f, x)
     IN  IF d = b THEN Place(f, b, x) < k ELSE Dominates(f, d, b)

\* Blocks end in their only terminator and start with their PHIs, branches
\* lead to blocks of the function, PHIs have exactly one value for each
\* predecessor, and uses are dominated by definitions.
WellFormed(f) ==
  /\ \A b \in Blocks(f) :
       LET body == f.body[b]
           n == Len(body)
       IN  /\ n > 0
           /\ \A k \in 1 .. n : (body[k].op \in Terminators) <=> (k = n)
           /\ \A k \in 2 .. n : body[k].op = "phi" => body[k - 1].op = "phi"
           /\ Range(Successors(f, b)) \subseteq Blocks(f)
  /\ \A b \in Reachable(f) : \A k \in DOMAIN f.body[b] :
       LET i == f.body[b][k]
       IN  IF i.op = "phi"
           THEN /\ Range(i.t) = Predecessors(f, b)
                /\ Len(i.t) = Cardinality(Range(i.t))
                /\ \A j \in DOMAIN i.t : i.t[j] \in Reachable(f) =>
                     Available(f, i.a[j], i.t[j], Len(f.body[i.t[j]]) + 1)
           ELSE \A x \in Range(i.a) : Available(f, x, b, k)

-----------------------------------------------------------------------------
\* The program after a pass.  An analysis leaves it alone.
Apply(p, f) ==
  CASE p = "simplify-cfg"     -> SimplifyCfg(f)
    [] p = "dedup-block"      -> DedupBlock(f)
    [] p = "dead-code-elim"   -> DeadCodeElim(f)
    [] p = "tail-rec-elim"    -> TailRecElim(f)
    [] p = "undef-elim"       -> UndefElim(f)
    [] p = "move-elim"        -> MoveElim(f)
    [] p = "phi-taut"         -> PhiTaut(f)
    [] p = "dedup-const"      -> DedupConst(f)
    [] p = "global-value-numbering" -> ValueNumbering(f)
    [] p = "peephole"         -> Peephole(f)
    [] p = "localize-select"  -> LocalizeSelect(f)
    [] p = "eliminate-select" -> EliminateSelect(f)
    [] p = "cond-simplify"    -> CondSimplify(f)
    [] p = "sccp"             -> SCCP(f)
    [] p = "pta"              -> f

\* Pass::Run: nothing happens any more once an assertion has failed.
DoRun(p, f) ==
  IF ~f.ok THEN [prog |-> f, changed |-> FALSE]
  ELSE Then(Apply(p, [f EXCEPT !.ch = FALSE]),
            LAMBDA g : [prog |-> [g EXCEPT !.ch = FALSE], changed |-> g.ch])

\* The passes that edit without a report: SimplifyCfg removes unreachable
\* blocks, SCCP clears blocks that are never executed, and three passes always
\* return false.
SilentPasses == {"simplify-cfg", "sccp", "phi-taut", "dedup-const", "localize-select"}

-----------------------------------------------------------------------------
(* Pipelines: PassManager::Add makes a group of one pass that runs once,      *)
(* PassManager::Group one that repeats.                                       *)

Add(p)    == <<[passes |-> <<p>>, repeat |-> FALSE]>>
Repeat(s) == <<[passes |-> s, repeat |-> TRUE]>>

DeadItems == Repeat(<<"dead-func-elim", "dead-data-elim">>)

Prelude == Add("link") \o DeadItems \o Add("dead-code-elim") \o Add("move-elim")

Finish == Add("merge-stores") \o Add("stack-object-elim") \o Add("localize-select")

AddOpt1 ==
  Prelude \o Add("simplify-cfg") \o Add("tail-rec-elim") \o Add("caml-assign")
    \o Repeat(<<"const-global", "sccp", "simplify-cfg", "dead-code-elim",
                "dead-func-elim", "dead-data-elim", "dedup-block", "unused-arg">>)
    \o Finish \o Add("caml-alloc-inliner")

\* AddOpt3 is the same.
AddOpt2 ==
  Prelude \o Add("simplify-cfg") \o Add("tail-rec-elim") \o Add("caml-assign")
    \o Repeat(<<"const-global", "sccp", "libc-simplify", "simplify-cfg", "dedup-const",
                "bypass-phi", "specialise", "dead-code-elim", "dead-func-elim",
                "dead-data-elim", "move-elim", "move-push", "phi-taut", "inliner",
                "cond-simplify", "dedup-block", "unused-arg">>)
    \o Finish \o Add("caml-alloc-inliner")

AddOpt4 ==
  Prelude \o Add("simplify-cfg") \o Add("tail-rec-elim") \o Add("caml-assign")
    \o Repeat(<<"peephole", "caml-global-simplify", "const-global", "libc-simplify",
                "sccp", "dedup-const", "simplify-cfg", "bypass-phi", "specialise",
                "eliminate-select", "dead-code-elim", "dead-func-elim",
                "dead-data-elim", "move-elim", "move-push", "phi-taut", "inliner",
                "cond-simplify", "dedup-block", "unused-arg">>)
    \o Finish \o Add("code-layout") \o Add("caml-alloc-inliner")

AddOptS ==
  Prelude \o Add("move-push") \o Add("simplify-cfg") \o Add("tail-rec-elim")
    \o Add("simplify-trampoline") \o DeadItems \o Add("dead-code-elim")
    \o Add("atom-simplify") \o Add("caml-assign")
    \o Repeat(<<"peephole", "caml-global-simplify", "const-global", "libc-simplify",
                "global-value-numbering", "sccp", "dedup-block", "simplify-cfg",
                "dedup-const", "bypass-phi", "dead-code-elim", "dead-func-elim",
                "dead-data-elim", "move-elim", "move-push", "phi-taut",
                "eliminate-select", "eliminate-tags", "specialise", "inliner",
                "cond-simplify", "object-split", "store-to-load", "dead-store",
                "mem-to-reg", "unused-arg", "global-forward">>)
    \o Add("merge-stores") \o Add("localize-select") \o Add("code-layout")
    \o Add("stack-object-elim")

\* Code is generated: two more passes.
EmitCode(pipeline) == pipeline \o Add("move-elim") \o Add("dead-code-elim")
=============================================================================
