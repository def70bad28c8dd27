------------------------------- MODULE PreEval -------------------------------
(***************************************************************************)
(* The partial pre-evaluation of a program                                 *)
(* (src/passes/pre_eval.cpp, PreEvalPass): the program is evaluated from   *)
(* its entry point, then its branches are folded and its values rewritten  *)
(* from the summary of the evaluation.  The original program then runs, to *)
(* see whether what the evaluator claimed and what Simplify did is true of *)
(* it.                                                                     *)
(*                                                                         *)
(* The partial evaluation of a program from its entry point                *)
(* (src/passes/pre_eval.cpp, PreEvaluator): one path is executed, the      *)
(* longest where a branch is not known, and the effects of the blocks      *)
(* passed by are merged in where the paths meet again.  Each operator      *)
(* takes the state E of the evaluator to the next one.                     *)
(***************************************************************************)
EXTENDS PreMachine

Body(P, E, f) == P.funcs[E.frs[f].fn].body[E.frs[f].cur]

-----------------------------------------------------------------------------
(* Instructions: eval/const.cpp, memory.cpp, x86.cpp, hardware.cpp *)

\* VisitMovInst of an integer.
MovInteger(i) ==
  IF i.ty = "F64" THEN Float(i.v) ELSE Integer(i.v, GetBitWidth(i.ty))

\* VisitMemoryLoadInst.
VisitLoad(E, addr, t) ==
  CASE IsPointerLike(addr) -> LoadFrom(E, addr.p, t)
    [] addr.k \in {"float", "fail"} -> Fail
    [] OTHER -> Undefined

\* VisitMemoryStoreInst: a store to a number is ignored.
VisitStore(E, addr, v, t) ==
  CASE v.k = "fail" \/ addr.k \in {"undef", "float", "fail"} -> Crash(E)
    [] IsPointerLike(addr) -> StoreTo(E, addr.p, v, t)
    [] OTHER -> E

\* SymbolicEval::Evaluate, of an instruction which is not a terminator.
Evaluate(P, E, f, i) ==
  LET F      == P.funcs[E.frs[f].fn]
      ref    == Result(i, 1)
      Arg(k) == Find(E, f, i.a[k])
      align  == [o \in DOMAIN E.objs |-> E.objs[o].align]
      missing == \E k \in DOMAIN i.a : Arg(k).k = "fail"
      Mine(v) == Pin(v, f, ref)
      Computed ==
        CASE i.op = "arg"    -> E.frs[f].args[i.v]
          [] i.op = "undef"  -> Mine(Undefined)
          [] i.op = "int"    -> Mine(MovInteger(i))
          [] i.op = "func"   -> Mine(Pointer(FuncAt(i.v)))
          [] i.op = "block"  -> Mine(Pointer(BlockAt(i.v)))
          [] i.op = "extern" -> Mine(Pointer(ExternAt(i.v[1], i.v[2])))
          [] i.op = "atom"   -> Mine(Pointer(ObjectAt(DataId(i.v[1]), i.v[2])))
          [] i.op = "copy"   ->
               IF Def(F, i.a[1][1]).ty = i.ty THEN Arg(1) ELSE Mine(Arg(1))
          [] i.op = "load"   -> VisitLoad(E, Arg(1), i.ty)
          [] i.op = "frame"  -> Mine(Value(ObjectAt(FrameId(ActiveIndex(E), i.v[1]), i.v[2])))
          [] i.op = "get"    -> Mine(Pointer(StackOf(ActiveIndex(E))))
          [] i.op = "rdtsc"  -> Mine(Scalar)
          [] i.op = "select" -> VisitSelect(Arg(1), Arg(2), Arg(3), <<f, ref>>)
          [] i.op \in UnaryOps  -> VisitUnary(i, Arg(1), <<f, ref>>, align)
          [] i.op \in BinaryOps -> VisitBinary(i, Arg(1), Arg(2), <<f, ref>>, align)
          [] OTHER -> Fail
  IN  CASE i.op \in {"phi", "landing"} -> E
        [] missing        -> Crash(E)
        [] i.op = "store" -> VisitStore(E, Arg(1), Arg(2), Def(F, i.a[2][1]).ty)
        [] i.op = "out"   -> E
        [] OTHER          -> Set(IF i.op = "atom" THEN Mention(P, E, {i.v[1]}) ELSE E,
                                 f, ref, Computed)

-----------------------------------------------------------------------------
(* Control *)

\* A PHI takes the value of the first predecessor only (mutant).
IncomingFirst(phi, preds) ==
  LET all == SelectSeq([k \in DOMAIN phi.a |-> k], LAMBDA k : phi.t[k] \in preds)
  IN  IF all = <<>> THEN all ELSE <<Head(all)>>

\* The incoming values of a PHI from some predecessors.
Incoming(phi, preds) ==
  SelectSeq([k \in DOMAIN phi.a |-> k], LAMBDA k : phi.t[k] \in preds)

\* PreEvaluator::Continue: evaluate the PHIs of the block for the given
\* predecessors and go there.
ContinueFrom(P, E, f, preds, b) ==
  LET phis == SelectSeq(P.funcs[E.frs[f].fn].body[b], LAMBDA i : i.op = "phi")
      Phi(G, i) ==
        LET ks == Incoming(i, preds)
            v  == Through(LAMBDA x, k : Merge(x, Find(G, f, i.a[k])),
                          Find(G, f, i.a[Head(ks)]), Tail(ks))
        IN  IF ks = <<>> THEN Crash(G) ELSE Set(G, f, Result(i, 1), v)
  IN  Then(Through(Phi, E, phis), LAMBDA G :
        [G EXCEPT !.frs[f].cur = b, !.frs[f].exec = @ \cup {b}])

Preds(P, E, f, b) ==
  LET F == P.funcs[E.frs[f].fn]
  IN  {c \in DOMAIN P.dag[E.frs[f].fn].of : b \in Range(Targets(F, c))}

\* How a block is left: to a block, past its successors, with a return or an
\* exception; or the round is over.
GoInto(E, b)     == [how |-> "into", e |-> E, to |-> b]
GoPast(E)        == [how |-> "past", e |-> E]
GoBack(E)        == [how |-> "return", e |-> E]
GoNowhere(E)     == [how |-> "stay", e |-> E]
GoUp(E, args)    == [how |-> "raise", e |-> E, args |-> args]

\* Continue to b from the block or the node 'from', one of its predecessors:
\* the effects of the other predecessors which were passed by are merged
\* first.  After a block, their edges count in the PHIs; after a loop which
\* was approximated, those of the nodes not passed by are taken instead.
Continue(P, E, f, from, isBlock, b) ==
  LET D == P.dag[E.frs[f].fn]
      others == Preds(P, E, f, b) \ from
      Found(c) == IF ~isBlock /\ D.of[c] = from THEN {} ELSE FindBypassed(D, E.frs[f], D.of[c])
      passed == {c \in others : Found(c) # {}}
      preds  == IF isBlock THEN from \cup passed
                ELSE UNION {D.of[c] : c \in Preds(P, E, f, b) \ passed}
  IN  Then(ApproximateBypassed(P, E, f, UNION {Found(c) : c \in passed}), LAMBDA G :
        ContinueFrom(P, G, f, preds, b))

\* PreEvaluator::Branch: a pointer compared with null and found different.
Branch(P, E, f, from, b) ==
  LET F    == P.funcs[E.frs[f].fn]
      term == Terminator(F, from)
      cmp  == Def(F, term.a[1][1])
      differs == \/ cmp.v = "EQ" /\ term.t[2] = b /\ term.t[1] # b
                 \/ cmp.v = "NE" /\ term.t[1] = b /\ term.t[2] # b
      l == Find(E, f, cmp.a[1])
      r == Find(E, f, cmp.a[2])
  IN  IF term.op = "jc" /\ cmp.op = "cmp" /\ differs /\ IsNull(r) /\ l.k = "nullable"
        THEN Set(E, f, cmp.a[1], Pointer(l.p)) ELSE E

\* The end of PreEvaluator::Run: a loop is approximated as a whole, the first
\* successor is next and all others are passed by.  If that is a loop, the
\* node before it is approximated once more, and the loop, where the next
\* round begins, only then.  A loop without a way out is dereferenced in vain.
RECURSIVE Transfer(_, _, _, _, _)
Transfer(P, E, f, block, n) ==
  LET D    == P.dag[E.frs[f].fn]
      succ == Head(D.succs[n])
      next == CHOOSE b \in succ : TRUE
      isBlock == ~D.loop[n] /\ block # NoBlock
  IN  Then(Then(Then(IF D.loop[n] THEN ApproximateBlocks(P, E, f, {n}, {}) ELSE E, LAMBDA G :
        Through(LAMBDA H, m : Bypass(H, f, m), G, Tail(D.succs[n]))), LAMBDA G :
        IF D.loop[succ] THEN ApproximateBlocks(P, G, f, {n}, {})
        ELSE Continue(P, G, f, IF isBlock THEN {block} ELSE n, isBlock, next)), LAMBDA G :
        CASE D.loop[succ] -> IF D.succs[succ] = <<>> THEN Crash(G)
                             ELSE Transfer(P, G, f, NoBlock, succ)
          [] OTHER -> IF isBlock THEN Branch(P, G, f, block, next) ELSE G)

-----------------------------------------------------------------------------
(* Returns and exceptions *)

\* The values returned by a terminator, joined with those before.
MergeReturns(E, f, vs, i) ==
  LET args == IF i.op = "tcall" THEN CallArgs(i) ELSE i.a
      n    == IF Len(vs) > Len(args) THEN Len(vs) ELSE Len(args)
  IN  [k \in 1 .. n |->
         CASE k > Len(vs)   -> Find(E, f, args[k])
           [] k > Len(args) -> vs[k]
           [] OTHER         -> Merge(vs[k], Find(E, f, args[k]))]

\* The exits of a frame other than the block it is in.
OtherExits(P, E, f) ==
  LET D == P.dag[E.frs[f].fn]
  IN  {n \in D.nodes : E.frs[f].cur \notin n /\ Exits(D, n)}

\* PreEvaluator::Return: the bypassed returns of the frame are merged in, the
\* paths to traps approximated in a copy of which only the summary remains;
\* the results are those of the call, and a tail call returns in turn.
RECURSIVE Return(_, _, _)
Return(P, E, vs) ==
  LET f     == ActiveIndex(E)
      D     == P.dag[E.frs[f].fn]
      F     == P.funcs[E.frs[f].fn]
      Found(n) == FindBypassed(D, E.frs[f], n)
      exits == OtherExits(P, E, f)
      rets  == {n \in exits : D.returns[n] /\ Found(n) # {}}
      traps == UNION {Found(n) : n \in {m \in exits : ~D.returns[m]}}
      terms == {i \in {Terminator(F, b) : b \in UNION rets} : i.op \in {"ret", "tcall"}}
      All(G) == Through(LAMBDA ws, i : MergeReturns(G, f, ws, i), vs, InAnyOrder(terms))
      Results(G, ws) ==
        LET c == ActiveIndex(G)
            i == Last(Body(P, G, c))
        IN  IF Len(ws) < NumRets(i) THEN GoNowhere(Crash(G))
            ELSE Then(Through(LAMBDA H, k : Set(H, c, Result(i, k),
                                                Pin(ws[k], c, Result(i, k))),
                              G, [k \in 1 .. NumRets(i) |-> k]), LAMBDA H :
                   IF i.op = "tcall" THEN Return(P, H, ws) ELSE GoInto(H, i.t[1]))
  IN  Then(Then(Then(ApproximateBypassed(P, E, f, traps), LAMBDA copy :
        [E EXCEPT !.sum = copy.sum, !.ok = copy.ok]), LAMBDA G :
        ApproximateBypassed(P, G, f, UNION {Found(n) : n \in rets})), LAMBDA G :
        Then(All(G), LAMBDA ws :
          CASE \E k \in DOMAIN ws : ws[k].k = "fail" -> GoNowhere(Crash(G))
            [] Active(LeaveFrame(G)).cur = NoBlock -> GoNowhere(LeaveFrame(LeaveFrame(G)))
            [] OTHER -> Results(LeaveFrame(G), ws)))

\* The landing of an exception at an invoke.
Land(P, E, f, vs) ==
  LET i    == Last(Body(P, E, f))
      D    == P.dag[E.frs[f].fn]
      pad  == i.t[2]
      land == D.of[pad]
      pads == SelectSeq(P.funcs[E.frs[f].fn].body[pad], LAMBDA j : j.op = "landing")
      Pad(G, j) == Through(LAMBDA H, k :
        LET r == Result(j, k)
        IN  CASE k <= Len(vs) -> IF r \in DOMAIN H.frs[f].vals THEN Crash(H)
                                 ELSE Set(H, f, r, vs[k])
              [] r \in DOMAIN H.frs[f].vals -> H
              [] OTHER -> Set(H, f, r, Undefined), G, [k \in 1 .. j.v |-> k])
  IN  IF D.loop[land] THEN Crash(E)
      ELSE Then(Then(Then(Bypass(E, f, D.of[i.t[1]]), LAMBDA G :
             IF land \in DOMAIN G.frs[f].byp THEN MergeContext(G, G.frs[f].byp[land])
             ELSE G), LAMBDA G :
             Through(Pad, G, pads)), LAMBDA G :
             [G EXCEPT !.frs[f].cur = pad, !.frs[f].exec = @ \cup {pad}])

\* The search for an invoke up the stack.  The frame of a call is left, if it
\* has no other way out.
RECURSIVE Unwind(_, _, _)
Unwind(P, E, vs) ==
  LET f == ActiveIndex(E)
      i == Last(Body(P, E, f))
      D == P.dag[E.frs[f].fn]
      others == D.nodes \ {D.of[i.t[1]]}
  IN  CASE E.frs[f].cur = NoBlock -> LeaveFrame(E)
        [] i.op = "invoke"        -> Land(P, E, f, vs)
        [] i.op = "call"          ->
             IF \E n \in others : D.returns[n] \/ D.raises[n] THEN Crash(E)
             ELSE Unwind(P, LeaveFrame(E), vs)
        [] OTHER -> Crash(E)

\* PreEvaluator::Raise, of a raise or, without one, of a block without a way
\* on: only the values of this raise are passed.
Raise(P, E, args) ==
  LET f     == ActiveIndex(E)
      D     == P.dag[E.frs[f].fn]
      nodes == UNION {FindBypassed(D, E.frs[f], n) : n \in OtherExits(P, E, f)}
      Values(G) == [k \in DOMAIN args |-> Find(G, f, args[k])]
  IN  Then(ApproximateBypassed(P, E, f, nodes), LAMBDA G :
        IF \E k \in DOMAIN args : Values(G)[k].k = "fail" THEN Crash(G)
        ELSE Unwind(P, LeaveFrame(G), Values(G)))

-----------------------------------------------------------------------------
(* PreEvaluator::Run: the terminators *)

Counted(E, f, l) == [E EXCEPT !.frs[f].cnt = l.cnt]

RunJump(E, f, i) ==
  LET l == Limited(E.frs[f].cnt, i.t[1])
      G == Counted(E, f, l)
  IN  IF l.hit THEN GoPast(G) ELSE GoInto(G, i.t[1])

\* The counter of the target taken when true grows in any case.
RunJumpCond(E, f, i) ==
  LET c == Find(E, f, i.a[1])
      t == Limited(E.frs[f].cnt, i.t[1])
      g == Limited(t.cnt, i.t[2])
  IN  CASE c.k = "fail"                -> GoNowhere(Crash(E))
        [] ~t.hit /\ IsTrue(c)         -> GoInto(Counted(E, f, t), i.t[1])
        [] ~(t.hit /\ g.hit) /\ NoTruth(c) -> GoNowhere(Crash(E))
        [] ~g.hit /\ IsFalse(c)        -> GoInto(Counted(E, f, g), i.t[2])
        [] OTHER                       -> GoPast(Counted(E, f, g))

\* A known target which has been visited too often is not entered, and the
\* block is evaluated once more.
RunSwitch(E, f, i) ==
  LET v == Find(E, f, i.a[1])
      t == i.t[v.i + 1]
      l == Limited(E.frs[f].cnt, t)
  IN  CASE v.k = "fail" -> GoNowhere(Crash(E))
        [] v.k = "int" /\ v.i < Len(i.t) ->
             IF l.hit THEN GoNowhere(Counted(E, f, l)) ELSE GoInto(Counted(E, f, l), t)
        [] OTHER -> GoPast(E)

\* ShouldApproximate and FindCallee: the only function a pointer holds.
ShouldApproximate(P, E, fn) ==
  \/ P.funcs[fn].va
  \/ IsAllocation(fn)
  \/ IsRecursive(P, fn)
  \/ HasFrame(E, fn)
FindCallee(P, E, v) ==
  {fn \in IF IsPointerLike(v) THEN v.p.fun ELSE {} :
     Cardinality(v.p.fun) = 1 /\ ~ShouldApproximate(P, E, fn)}

\* The call of a function that is entered, or not.
RunCall(P, E, f, i) ==
  LET callee == FindCallee(P, E, Find(E, f, i.a[1]))
      args   == [k \in DOMAIN CallArgs(i) |-> Find(E, f, CallArgs(i)[k])]
  IN  CASE \E k \in DOMAIN i.a : Find(E, f, i.a[k]).k = "fail" -> GoNowhere(Crash(E))
        [] callee # {} -> GoNowhere(EnterFrame(P, E, CHOOSE fn \in callee : TRUE, args))
        [] OTHER ->
             Then(Approximate(P, E, f, i), LAMBDA G :
               IF i.op = "tcall" THEN GoBack(G) ELSE GoPast(G))

RunTerminator(P, E, f, i) ==
  CASE i.op = "jmp"    -> RunJump(E, f, i)
    [] i.op = "jc"     -> RunJumpCond(E, f, i)
    [] i.op = "switch" -> RunSwitch(E, f, i)
    [] IsCall(i)       -> RunCall(P, E, f, i)
    [] i.op = "ret"    -> GoBack(E)
    [] i.op = "raise"  -> GoUp(E, i.a)
    [] OTHER           -> GoNowhere(Crash(E))

\* A block without a way on is left by an exception.
Proceed(P, x) ==
  LET f == ActiveIndex(x.e)
      b == x.e.frs[f].cur
      D == P.dag[x.e.frs[f].fn]
      up == x.how = "past" /\ D.succs[D.of[b]] = <<>>
  IN  CASE x.how = "into" -> Continue(P, x.e, f, {b}, TRUE, x.to)
        [] x.how = "raise" \/ up -> Raise(P, x.e, IF up THEN <<>> ELSE x.args)
        [] x.how = "past" -> Transfer(P, x.e, f, b, D.of[b])
        [] OTHER          -> x.e

\* One round of the loop of PreEvaluator::Run; a crash ends it.
RunBlock(P, E) ==
  LET f == ActiveIndex(E)
      s == Body(P, E, f)
  IN  Then(Then(Then(
        Through(LAMBDA G, i : IF G.ok THEN Evaluate(P, G, f, i) ELSE G, E, Front(s)), LAMBDA G :
        IF G.ok THEN RunTerminator(P, G, f, Last(s)) ELSE GoNowhere(G)), LAMBDA x :
        IF x.how = "return" THEN Return(P, x.e, MergeReturns(x.e, f, <<>>, Last(s))) ELSE x),
        LAMBDA x : Proceed(P, x))

\* PreEvaluator::Evaluate: the frame of the program loader, and of the start
\* function; its one argument is the record of the boot loader.
Boot(P) ==
  LET E0 == [objs |-> <<>>, frs |-> <<>>, act |-> <<>>, sum |-> <<>>, ok |-> TRUE]
      W(k) == (k - 1) * WordBytes
      At(k) == Pointer(ObjectAt(FrameId(1, k), 0))
      E1 == EnterRoot(E0, <<5 * WordBytes, NoSize, NoSize>>)
      arg == Store(Store(E1.objs[FrameId(1, 1)], W(4), At(2), "I64"), W(5), At(3), "I64")
  IN  CASE P.funcs[P.start].params = 0 ->
             EnterFrame(P, EnterRoot(E0, <<>>), P.start, <<>>)
        [] P.funcs[P.start].params = 1 ->
             EnterFrame(P, [E1 EXCEPT !.objs[FrameId(1, 1)] = arg], P.start, <<At(1)>>)

-----------------------------------------------------------------------------
CONSTANTS
  Programs,   \* the programs, a sequence of sets
  Inputs      \* what the world answers to rdtsc

VARIABLES
  prog,       \* the program, later with its components and references
  phase,      \* "new", "eval", "run"
  ev,         \* the state of the evaluator
  simple,     \* what Simplify does to the program
  cm          \* the state of the program when it runs

vars == <<prog, phase, ev, simple, cm>>

-----------------------------------------------------------------------------
(* PreEvaluator::Simplify *)

Nothing == [funcs |-> {}, folds |-> <<>>, rew |-> <<>>]

\* IsSingleUse: the operands which are a mov of the function.
IsSingleUse(P, fn) ==
  LET all  == UNION {FuncInsts(P.funcs[g]) : g \in DOMAIN P.funcs}
      movs == {Result(i, 1) : i \in {j \in all : j.op = "func" /\ j.v = fn}}
      uses == {<<i, k>> \in UNION {{<<j, x>> : x \in DOMAIN j.a} : j \in all} :
                 i.a[k] \in movs}
  IN  /\ ~P.funcs[fn].entry
      /\ \A d \in DOMAIN P.data : <<"func", fn>> \notin Range(P.data[d].items)
      /\ Cardinality(uses) = 1

ExecutedBlocks(P, E, fn, f) == E.frs[f].exec \cap DOMAIN P.dag[fn].of

\* The functions Simplify visits: those with one frame, from the start.
SimplifiedFuncs(P, E) ==
  LET One(fn)  == Cardinality(GetFrames(E, fn)) = 1
      Next(fn) ==
        LET f == CHOOSE k \in GetFrames(E, fn) : TRUE
            F == P.funcs[fn]
            calls == {Terminator(F, b) : b \in
                        {c \in ExecutedBlocks(P, E, fn, f) : ~P.dag[fn].loop[P.dag[fn].of[c]]}}
        IN  {g \in UNION {DirectCallee(F, i) : i \in {j \in calls : IsCall(j)}} :
               One(g) /\ IsSingleUse(P, g)}
  IN  Closure(Next, {fn \in {P.start} : One(fn)})

\* SimplifyCfg: the target of a branch that is known.
FoldOf(E, i) ==
  LET v == E.sum[i.a[1]]
  IN  CASE i.op = "jc" /\ IsTrue(v)  -> {i.t[1]}
        [] i.op = "jc" /\ ~IsTrue(v) /\ IsFalse(v) -> {i.t[2]}
        [] i.op = "switch" /\ v.k = "int" /\ v.i < Len(i.t) -> {i.t[v.i + 1]}
        [] OTHER -> {}

\* Rewrite: a constant, or the instruction the value came from.  The offset of
\* an extern is dropped.
Constant(c)  == [c |-> c, ref |-> <<0, 0>>]
Same(ref)    == [c |-> Junk, ref |-> ref]

Rewrite(v, f, i) ==
  LET p == v.p
      Forward == {Same(v.o[2]) : x \in {y \in {1} : v.o # NoOrigin /\ v.o[1] = f
                                                    /\ v.o[2] # Result(i, 1)}}
      first(S) == CHOOSE x \in S : TRUE
  IN  CASE v.k \in {"int", "float"} -> {Constant(Num(v.i, GetBitWidth(i.ty)))}
        [] v.k # "ptr" \/ ~Single(p) -> Forward
        [] p.fun # {} -> {Constant(Ptr(FunName(first(p.fun)), 0))}
        [] p.blk # {} -> {Constant(Ptr(BlkName(first(p.blk)), 0))}
        [] p.ext # {} -> {Constant(Ptr(ExtName(first(p.ext)[1]), 0))}
        [] p.obj # {} /\ first(p.obj)[1][1] = "d" ->
             {Constant(Ptr(first(p.obj)[1], first(p.obj)[2]))}
        [] OTHER -> Forward

\* The instructions that SimplifyValues rewrites: not the constants of a frame,
\* nor those with side effects.
Rewritable(i) ==
  i.op \in Movs \cup {"phi", "load", "rdtsc", "select"} \cup UnaryOps \cup BinaryOps

SimplifyFunc(P, E, fn) ==
  LET F == P.funcs[fn]
      f == CHOOSE k \in GetFrames(E, fn) : TRUE
      blocks == ExecutedBlocks(P, E, fn, f)
      ends  == {b \in blocks : /\ ~P.dag[fn].loop[P.dag[fn].of[b]]
                               /\ Terminator(F, b).op \in {"jc", "switch"}
                               /\ FoldOf(E, Terminator(F, b)) # {}}
      insts == {i \in UNION {Range(F.body[b]) : b \in blocks} : Rewritable(i)}
      new   == {i \in insts : Rewrite(E.sum[Result(i, 1)], f, i) # {}}
  IN  [folds |-> [b \in ends |-> CHOOSE t \in FoldOf(E, Terminator(F, b)) : TRUE],
       rew   |-> [r \in {Result(i, 1) : i \in new} |->
                    CHOOSE x \in Rewrite(E.sum[r], f, Def(F, r[1])) : TRUE],
       ok    |-> /\ \A i \in insts : E.sum[Result(i, 1)].k # "undef"
                 /\ \A b \in blocks : Terminator(F, b).op = "jc" =>
                      IsTrue(E.sum[Terminator(F, b).a[1]])
                        \/ ~NoTruth(E.sum[Terminator(F, b).a[1]])]

Simplify(P, E) ==
  LET fs == SimplifiedFuncs(P, E)
      Add(s, fn) == Then(SimplifyFunc(P, E, fn), LAMBDA x :
        [funcs |-> s.funcs, folds |-> x.folds @@ s.folds, rew |-> x.rew @@ s.rew,
         ok |-> s.ok /\ x.ok])
  IN  Through(Add, [funcs |-> fs, folds |-> <<>>, rew |-> <<>>, ok |-> TRUE], InAnyOrder(fs))

-----------------------------------------------------------------------------
(* Behaviour *)

\* The program with what CallGraph, ReferenceGraph and DAGFunc compute of it.
Prepared(P, junk) ==
  Then([fn \in DOMAIN P.funcs |-> BuildDAG(P.funcs[fn], junk)], LAMBDA dags :
    [funcs |-> P.funcs, data |-> P.data, start |-> P.start, dag |-> dags,
     refs |-> References(P)])

Init ==
  \E k \in DOMAIN Programs : \E P \in Programs[k] :
    /\ prog = P
    /\ phase = "new"
    /\ ev = [ok |-> TRUE]
    /\ simple = Nothing
    /\ cm = [on |-> FALSE]

\* The constructor of PreEvaluator, and the frame of the entry point.
Begin ==
  /\ phase = "new"
  /\ \E junk \in BOOLEAN : prog' = Prepared(prog, junk)
  /\ ev' = Boot(prog')
  /\ phase' = "eval"
  /\ UNCHANGED <<simple, cm>>

\* A block is evaluated, its terminator included.
EvalBlock ==
  /\ phase = "eval" /\ ev.ok /\ ev.act # <<>>
  /\ ev' = RunBlock(prog, ev)
  /\ UNCHANGED <<prog, phase, simple, cm>>

\* The evaluation is over, the program is simplified and its original runs.
SimplifyProgram ==
  /\ phase = "eval" /\ ev.ok /\ ev.act = <<>>
  /\ LET s == Simplify(prog, ev)
     IN  /\ simple' = [funcs |-> s.funcs, folds |-> s.folds, rew |-> s.rew]
         /\ ev' = [ev EXCEPT !.ok = s.ok]
         /\ cm' = IF s.ok THEN Start(prog, ev) ELSE cm
  /\ phase' = "run"
  /\ UNCHANGED prog

\* The program executes a block.
RunProgram ==
  /\ phase = "run" /\ ev.ok /\ cm.on
  /\ \E in \in Inputs, null \in BOOLEAN : cm' = ExecuteBlock(prog, ev, cm, in, null)
  /\ UNCHANGED <<prog, phase, ev, simple>>

\* The compiler or the program has stopped.
Stopped ==
  /\ ~ev.ok \/ (phase = "run" /\ ~cm.on)
  /\ UNCHANGED vars

Compile == Begin \/ EvalBlock \/ SimplifyProgram

Next == Compile \/ RunProgram \/ Stopped

\* The compiler is one thread, which runs: weak fairness of Compile, spelled
\* out.  Compile is enabled until the compiler stops, each of its steps changes
\* the evaluator (a jump counts a visit), and no other step does until then.
Compiling == phase # "run" /\ ev.ok
Fairness  == []<>~Compiling \/ []<><<Compiling>>_<<phase, ev>>

Spec == Init /\ [][Next]_vars /\ Fairness

-----------------------------------------------------------------------------
(* Properties *)

BlocksOf(F, ref) == {b \in Range(F.order) : \E i \in Range(F.body[b]) : i.id = ref[1]}

\* The activations of the functions which Simplify looked at.
Judged == {a \in Range(cm.acts) : a.fn \in simple.funcs}

\* Every value that an instruction takes when the program runs, in a block
\* which the evaluator executed or approximated, is one of those the summary
\* stands for: whatever was passed by on the way has been accounted for.
SummarySound ==
  phase = "run" /\ ev.ok =>
    \A a \in Judged : \A ref \in DOMAIN a.vals :
      LET f == CHOOSE k \in GetFrames(ev, a.fn) : TRUE
      IN  BlocksOf(prog.funcs[a.fn], ref) \subseteq ev.frs[f].exec =>
            ref \in DOMAIN ev.sum /\ Describes(ev.sum[ref], a.vals[ref])

\* The values just computed in an activation.
Fresh(a) ==
  LET F == prog.funcs[a.fn]
      was == IF a.from = NoBlock THEN {} ELSE {i \in Range(F.body[a.from]) : i.op # "phi"}
      phis == {i \in Range(F.body[a.cur]) : i.op = "phi"}
  IN  {Result(i, 1) : i \in was \cup phis} \cap DOMAIN a.vals

\* A branch that was folded goes where the program goes, and an instruction
\* that was replaced by a constant or by another instruction has the value of
\* its replacement, each time it is executed.
RewritesAgree ==
  phase = "run" /\ ev.ok =>
    \A a \in Judged :
      /\ a.from \in DOMAIN simple.folds /\ a.from # a.cur => simple.folds[a.from] = a.cur
      /\ \A ref \in Fresh(a) \cap DOMAIN simple.rew :
           LET r == simple.rew[ref]
           IN  a.vals[ref] \in {Junk, r.c, IF r.ref \in DOMAIN a.vals THEN a.vals[r.ref]
                                           ELSE Junk}

\* The evaluation of a program ends, or the compiler stops with an error.
Terminates == <>(phase = "run" \/ ~ev.ok)
=============================================================================
