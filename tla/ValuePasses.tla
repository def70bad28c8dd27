----------------------------- MODULE ValuePasses -----------------------------
(***************************************************************************)
(* The passes that rewrite values and leave most of the control-flow graph *)
(* alone: elimination of moves, tautological PHIs, equal constants and     *)
(* equal values, redundant conditions, selects and the peephole rules, and  *)
(* the rewriting of a function by the solution of SCCP.                    *)
(***************************************************************************)
EXTENDS CfgPasses

\* x is replaced by y everywhere and erased.
Forward(f, b, x, y) == Then(ReplaceUses(f, x, y), LAMBDA g : EraseInst(g, b, x))

\* visit(f, b, x) for each instruction x that the blocks hold at the start.
ForEachInst(visit(_, _, _), f, blocks) ==
  Through(LAMBDA g, b : Through(LAMBDA h, i : visit(h, b, i.id), g, g.body[b]),
          f, blocks)

Cmps == {"eq", "ne", "lt", "ge"}
Operators == {"add", "sub", "dbl", "bitcast", "sel", "int", "glob", "baddr", "undef",
              "arg", "mov"} \cup Cmps

-----------------------------------------------------------------------------
(* move_elim.cpp, phi_taut.cpp *)

\* v = 1 marks a mov that changes the type: it may only go when its operand is
\* itself a mov of a constant.
CanEliminate(f, mov) == mov.v = 0 \/ Def(f, mov.a[1]).op \in {"int", "glob", "baddr"}

MoveElim(f) ==
  LET visit(g, b, x) ==
        LET i == Def(g, x)
        IN  IF i.op = "mov" /\ CanEliminate(g, i)
            THEN Changed(Forward(g, b, x, i.a[1])) ELSE g
  IN  ForEachInst(visit, f, Reverse(PostOrder(f)))

\* The pass never reports a change.
PhiTaut(f) ==
  LET visit(g, b, x) ==
        LET i == Def(g, x)
            refs == Range(i.a) \ {x}
        IN  IF i.op = "phi" /\ Cardinality(refs) = 1
            THEN Forward(g, b, x, CHOOSE y \in refs : TRUE) ELSE g
  IN  ForEachInst(visit, f, f.order)

-----------------------------------------------------------------------------
(* dedup_const.cpp, value_numbering.cpp: walks over the dominator tree with a *)
(* table of the instructions that dominate the current one                   *)

\* Visit(st, b) handles a block; its children follow and then the table
\* forgets what the block entered.
RECURSIVE DomWalk(_, _, _)
DomWalk(Visit(_, _), st, b) ==
  Then(InOrder(DomChildren(st.f, b)), LAMBDA children :
    Then(Visit(st, b), LAMBDA now :
      Then(Through(LAMBDA s, c : DomWalk(Visit, s, c), now, children), LAMBDA done :
        [done EXCEPT !.table = st.table])))

\* Equal instructions: InstCompare, with operands equal when they are the same.
SameValue(i, j) == i.op = j.op /\ i.v = j.v /\ i.a = j.a /\ i.t = j.t

\* (mutant) Replacements are not counted.
DedupInQuiet(st, b, x, ops) ==
  LET i == Def(st.f, x)
      same == {j \in Insts(st.f) : j.id \in st.table /\ SameValue(i, j)}
  IN  IF i.op \in ops /\ same # {}
      THEN [st EXCEPT !.f = Forward(@, b, x, (CHOOSE j \in same : TRUE).id)]
      ELSE [st EXCEPT !.table = @ \cup {x}]

\* An instruction among ops that repeats one of the table is replaced by it.
DedupIn(st, b, x, ops) ==
  LET i == Def(st.f, x)
      same == {j \in Insts(st.f) : j.id \in st.table /\ SameValue(i, j)}
  IN  IF i.op \in ops /\ same # {}
      THEN [st EXCEPT !.f = Forward(@, b, x, (CHOOSE j \in same : TRUE).id),
                      !.hits = @ + 1]
      ELSE [st EXCEPT !.table = @ \cup {x}]

DedupBody(st, b, ops, insts) == Through(LAMBDA s, i : DedupIn(s, b, i.id, ops), st, insts)

\* DedupConst counts no changes and so never reports one.
DedupConst(f) ==
  DomWalk(LAMBDA st, b : DedupBody(st, b, {"int"}, st.f.body[b]),
          [f |-> f, table |-> {}, hits |-> 0], Entry(f)).f

\* Over the dominator tree, or block by block in functions of OCaml.
ValueNumbering(f) ==
  LET start == [f |-> f, table |-> {}, hits |-> 0]
      simplify(st, b) == DedupBody(st, b, Operators, Front(st.f.body[b]))
      done == IF f.caml
              THEN Through(LAMBDA st, b : [simplify(st, b) EXCEPT !.table = {}],
                           start, f.order)
              ELSE DomWalk(simplify, start, Entry(f))
  IN  Then(done, LAMBDA st : [st.f EXCEPT !.ch = @ \/ st.hits > 0])

-----------------------------------------------------------------------------
(* peephole.cpp *)

IsInt(f, x, n) == Def(f, x).op = "int" /\ Def(f, x).v = n

\* x + 0, 0 + x, x - x, a comparison of 2x with a constant, and a store of a
\* bit cast.  dbl is a shift by one of a zero-extended value.
Peephole(f) ==
  LET visit(g, b, x) ==
        LET i == Def(g, x)
        IN  CASE i.op = "add" /\ IsInt(g, i.a[2], 0) -> Changed(Forward(g, b, x, i.a[1]))
              [] i.op = "add" /\ ~IsInt(g, i.a[2], 0) /\ IsInt(g, i.a[1], 0) ->
                   Changed(Forward(g, b, x, i.a[2]))
              [] i.op = "sub" /\ i.a[1] = i.a[2] ->
                   Then(AddInst(g, b, x, "int", <<>>, <<>>, 0), LAMBDA h :
                     Changed(Forward(h, b, x, g.next)))
              [] i.op = "store" /\ Def(g, i.a[2]).op = "bitcast" ->
                   Then(AddInst(g, b, x, "store", <<i.a[1], Def(g, i.a[2]).a[1]>>, <<>>, 0),
                        LAMBDA h : Changed(EraseInst(h, b, x)))
              [] i.op \in Cmps /\ Def(g, i.a[1]).op = "dbl" /\ Def(g, i.a[2]).op = "int" ->
                   Then(AddInst(g, b, x, "int", <<>>, <<>>, Def(g, i.a[2]).v \div 2),
                        LAMBDA h :
                          Then(AddInst(h, b, x, i.op, <<Def(g, i.a[1]).a[1], g.next>>, <<>>, 0),
                               LAMBDA r : Changed(Forward(r, b, x, h.next))))
              [] OTHER -> g
  IN  ForEachInst(visit, f, f.order)

-----------------------------------------------------------------------------
(* localize_select.cpp, eliminate_select.cpp *)

\* A select whose condition is a comparison of another block gets a copy of it.
\* The pass reports no change.
LocalizeSelect(f) ==
  LET visit(g, b, x) ==
        LET s  == Def(g, x)
            cc == Def(g, s.a[1])
        IN  IF s.op = "sel" /\ cc.op \in Cmps /\ Parent(g, cc.id) # b
            THEN Then(AddInst(g, b, x, cc.op, cc.a, <<>>, 0), LAMBDA h :
                   Then(AddInst(h, b, x, "sel", <<g.next, s.a[2], s.a[3]>>, <<>>, 0),
                        LAMBDA r : Forward(r, b, x, h.next)))
            ELSE g
  IN  ForEachInst(visit, f, f.order)

\* The call of block b, which uses the select s, becomes a branch to two calls
\* whose results meet in a new block.
SplitCall(f, b, s) ==
  LET call == GetTerminator(f, b)
      top  == Max(DOMAIN f.body)
      cont == top + 1
      lhs  == top + 2
      rhs  == top + 3
      n    == f.next
      at   == CHOOSE k \in DOMAIN f.order : f.order[k] = b
      tail == SubSeq(f.order, at + 1, Len(f.order))
      arm(k, value) == <<Inst(n + k, "call", Subst(call.a, s.id, value), <<cont>>, 0)>>
      toCont(i) == IF i.op = "phi" THEN [i EXCEPT !.t = Subst(i.t, b, cont)] ELSE i
  IN  Then(EditInsts(f, toCont), LAMBDA g :
      Then([g EXCEPT
              !.order = SubSeq(@, 1, at) \o <<rhs, lhs, cont>> \o tail,
              !.body = (lhs :> arm(1, s.a[2])) @@ (rhs :> arm(2, s.a[3])) @@
                       (cont :> <<Inst(n, "phi", <<n + 1, n + 2>>, <<lhs, rhs>>, 0),
                                  Inst(n + 3, "jmp", <<>>, call.t, 0)>>) @@
                       [@ EXCEPT ![b] = Append(Front(@),
                          Inst(n + 4, "jc", <<s.a[1]>>, <<lhs, rhs>>, 0))],
              !.next = @ + 5],
           LAMBDA h : Changed(ReplaceUses(h, call.id, n))))

\* A call that names the select twice is erased while its second use is next.
SplitUsers(f, x) ==
  LET s == Def(f, x)
      users == Users(f, x)
      calls == {u \in users : u.op = "call"}
      twice == \E u \in calls : Cardinality({k \in DOMAIN u.a : u.a[k] = x}) > 1
  IN  CASE twice -> Fail(f)
        [] ~twice /\ calls # users ->
             Through(LAMBDA g, u : SplitCall(g, Parent(g, u.id), s), f, SetToSeq(calls))
        [] OTHER ->
             Then(Through(LAMBDA g, u : SplitCall(g, Parent(g, u.id), s), f, SetToSeq(calls)),
                  LAMBDA g : EraseInst(g, Parent(g, x), x))

EliminateSelect(f) ==
  LET func(x) == Def(f, x).op = "glob"
      selects == {i \in Insts(f) : i.op = "sel" /\ func(i.a[2]) /\ func(i.a[3])}
  IN  Through(LAMBDA g, i : SplitUsers(g, i.id), f, SetToSeq(selects))

-----------------------------------------------------------------------------
(* cond_simplify.cpp.  The state of CondSimplifier: f, the conditions known   *)
(* from dominating edges, the blocks on the path, the instructions assumed to *)
(* be pointers and whether something changed.                                 *)

\* The edge from start is the only way into end, but for loops back to it.
IsDominatorEdge(f, start, end) ==
  \/ PredSize(f, end) = 1
  \/ /\ Cardinality({k \in DOMAIN Successors(f, start) :
                       Successors(f, start)[k] = end}) = 1
     /\ \A p \in Predecessors(f, end) \ {start} : Dominates(f, end, p)

\* What the edge from p to b says: a conditional jump gives its condition, a
\* switch its index, true unless the first of its cases is taken.
EdgeConds(f, p, b) ==
  LET term == GetTerminator(f, p)
      first == CHOOSE k \in DOMAIN term.t : /\ term.t[k] = b
                                            /\ \A j \in 1 .. k - 1 : term.t[j] # b
  IN  IF term.op \in {"jc", "switch"} /\ IsDominatorEdge(f, p, b)
      THEN {[arg |-> term.a[1], flag |-> (first = 1) = (term.op = "jc")]}
      ELSE {}

\* An address is a pointer, and so is what it is computed from, by adding or
\* subtracting a constant, or by a select.
RECURSIVE AbductAddr(_, _, _, _)
AbductAddr(f, blocks, P, x) ==
  LET i == Def(f, x)
      const(y) == Def(f, y).op = "int"
  IN  IF Parent(f, x) \notin blocks \/ x \in P THEN P
      ELSE Then(P \cup {x}, LAMBDA Q :
             CASE i.op \in {"add", "sub"} /\ const(i.a[1]) -> AbductAddr(f, blocks, Q, i.a[2])
               [] i.op \in {"add", "sub"} /\ ~const(i.a[1]) /\ const(i.a[2]) ->
                    AbductAddr(f, blocks, Q, i.a[1])
               [] i.op = "sel" ->
                    Then(AbductAddr(f, blocks, Q, i.a[3]),
                         LAMBDA R : AbductAddr(f, blocks, R, i.a[2]))
               [] OTHER -> Q)

Abduct(st, i) ==
  IF i.op \in {"load", "store"}
  THEN [st EXCEPT !.ptrs = AbductAddr(st.f, st.blocks, @, i.a[1])]
  ELSE IF i.op = "add" /\ Range(i.a) \cap st.ptrs # {}
  THEN [st EXCEPT !.ptrs = @ \cup {i.id}]
  ELSE st

\* IsEqual: the same instruction, or equal constants.
SameOperand(f, x, y) ==
  x = y \/ (IsConstant(Def(f, x)) /\ SameValue(Def(f, x), Def(f, y)))

GetInverseCond(cc) ==
  CASE cc = "eq" -> "ne" [] cc = "ne" -> "eq" [] cc = "lt" -> "ge" [] cc = "ge" -> "lt"

\* The results that null checks and dominating conditions allow for cmp.
NullChecks(st, cmp) ==
  IF /\ cmp.op \in {"eq", "ne"}
     /\ \E k \in 1 .. 2 : IsInt(st.f, cmp.a[3 - k], 0) /\ cmp.a[k] \in st.ptrs
  THEN {cmp.op = "ne"} ELSE {}

\* (mutant) The inverse of a condition that holds is taken to hold.
RedundantMixed(st, cmp) ==
  LET prior(c) == Def(st.f, c.arg)
      about == {c \in st.conds : /\ prior(c).op \in Cmps
                                 /\ \A k \in 1 .. 2 : SameOperand(st.f, cmp.a[k], prior(c).a[k])}
  IN  {c.flag : c \in {d \in about : prior(d).op = cmp.op}} \cup
      {c.flag : c \in {d \in about : GetInverseCond(prior(d).op) = cmp.op}}

Redundant(st, cmp) ==
  LET prior(c) == Def(st.f, c.arg)
      about == {c \in st.conds : /\ prior(c).op \in Cmps
                                 /\ \A k \in 1 .. 2 : SameOperand(st.f, cmp.a[k], prior(c).a[k])}
  IN  {c.flag : c \in {d \in about : prior(d).op = cmp.op}} \cup
      {~c.flag : c \in {d \in about : GetInverseCond(prior(d).op) = cmp.op}}

\* The comparison stays; its uses move to a constant.
SimplifyCmp(st, b, cmp) ==
  LET flags == IF NullChecks(st, cmp) # {} THEN NullChecks(st, cmp) ELSE Redundant(st, cmp)
      flag  == IF TRUE \in flags THEN 1 ELSE 0
  IN  IF cmp.op \notin Cmps \/ flags = {} THEN st
      ELSE Then(AddInst(st.f, b, cmp.id, "int", <<>>, <<>>, flag), LAMBDA g :
             [st EXCEPT !.f = Changed(ReplaceUses(g, cmp.id, st.f.next))])

RECURSIVE Traverse(_, _)
Traverse(st, b) ==
  LET visit(s, i) == Then(Abduct(s, Def(s.f, i.id)),
                          LAMBDA t : SimplifyCmp(t, b, Def(t.f, i.id)))
      enter == [st EXCEPT !.blocks = @ \cup {b},
                  !.conds = @ \cup UNION {EdgeConds(st.f, p, b) : p \in Predecessors(st.f, b)}]
  IN  Then(Through(visit, enter, st.f.body[b]), LAMBDA now :
        Then(Through(Traverse, now, InOrder(DomChildren(st.f, b))), LAMBDA done :
          [st EXCEPT !.f = done.f]))

CondSimplify(f) ==
  Traverse([f |-> f, conds |-> {}, blocks |-> {}, ptrs |-> {}], Entry(f)).f

-----------------------------------------------------------------------------
(* sccp.cpp: the function rewritten by the solution of the solver            *)

L == INSTANCE Lattice WITH Bits <- {0, 1}, Floats <- {}, FloatZeros <- {},
                           Syms <- {0, 1}, Weak <- {}, Offsets <- {0}, Objects <- {}

ToBits(v)   == {k \in {0, 1} : (v \div 2 ^ k) % 2 = 1}
ToNumber(v) == (IF 0 \in v.bits THEN 1 ELSE 0) + (IF 1 \in v.bits THEN 2 ELSE 0)

Compare(op, x, y) ==
  CASE op = "eq" -> x = y [] op = "ne" -> x # y [] op = "lt" -> x < y [] op = "ge" -> x >= y

\* The value of an instruction given those of its operands (SCCPSolver's
\* visitors; what is not listed is overdefined).
Transfer(i, val, edges, b) ==
  LET arg(k) == val[i.a[k]]
      args == {val[x] : x \in Range(i.a)}
      ints == \A v \in args : L!Is(v, "int")
      num(k) == ToNumber(arg(k))
      in  == {k \in DOMAIN i.t : <<i.t[k], b>> \in edges}
  IN  CASE i.op = "int"   -> L!CreateInteger(ToBits(i.v))
        [] i.op = "glob"  -> L!CreateGlobal(i.v, 0)
        [] i.op = "undef" -> L!Undefined
        [] i.op = "phi"   -> FoldLeft(L!LUB, L!Unknown, [n \in 1 .. Cardinality(in) |->
                                val[i.a[InOrder(in)[n]]]])
        [] i.op \in {"mov", "add", "sub", "sel"} \cup Cmps /\ L!Unknown \in args -> L!Unknown
        [] i.op = "mov" /\ L!Unknown \notin args -> arg(1)
        [] i.op = "sel" /\ L!Unknown \notin args ->
             CASE L!IsTrue(arg(1)) -> arg(2) [] L!IsFalse(arg(1)) -> arg(3)
               [] arg(1) = L!Undefined -> L!Undefined
               [] OTHER -> L!LUB(arg(2), arg(3))
        [] i.op \in {"add", "sub"} \cup Cmps /\ L!Unknown \notin args
             /\ L!Undefined \in args -> L!Undefined
        [] i.op = "add" /\ ints -> L!CreateInteger(ToBits((num(1) + num(2)) % 4))
        [] i.op = "sub" /\ ints -> L!CreateInteger(ToBits((num(1) - num(2)) % 4))
        [] i.op \in Cmps /\ ints ->
             L!CreateInteger(IF Compare(i.op, num(1), num(2)) THEN {0} ELSE {})
        [] OTHER -> L!Overdefined

\* The successors that a terminator may take.
Feasible(i, val) ==
  LET v == val[i.a[1]]
  IN  CASE i.op = "jc" /\ v = L!Undefined -> {i.t[2]}
        [] i.op = "jc" /\ v # L!Undefined ->
             (IF v = L!Unknown \/ L!IsTrue(v) THEN {} ELSE {i.t[2]}) \cup
             (IF v = L!Unknown \/ L!IsFalse(v) THEN {} ELSE {i.t[1]})
        [] i.op = "switch" ->
             CASE v = L!Unknown -> {} [] v = L!Undefined -> {i.t[1]}
               [] L!Is(v, "int") -> {i.t[k] : k \in {ToNumber(v) + 1} \cap DOMAIN i.t}
               [] OTHER -> Range(i.t)
        [] OTHER -> Range(i.t)

\* The least fixpoint: values and executable edges, both only grow.
RECURSIVE Solution(_, _, _)
Solution(f, val, edges) ==
  LET live == {Entry(f)} \cup {e[2] : e \in edges}
  IN  Then([val |-> [x \in DOMAIN val |->
                       LET b == Parent(f, x)
                       IN  IF b \in live THEN Transfer(Def(f, x), val, edges, b) ELSE val[x]],
            edges |-> edges \cup UNION {{<<b, c>> : c \in Feasible(GetTerminator(f, b), val)} :
                                          b \in live}],
           LAMBDA n : IF n.val = val /\ n.edges = edges THEN [val |-> val, live |-> live]
                      ELSE Solution(f, n.val, n.edges))

SCCPSolution(f) ==
  Solution(f, [x \in {i.id : i \in Insts(f)} |-> L!Unknown], {})

\* A block that is never executed becomes a trap; its successors forget it.
ClearBlock(f, b) ==
  IF Len(f.body[b]) = 1 /\ GetTerminator(f, b).op = "trap" THEN f
  ELSE Then(Through(LAMBDA g, c : RemoveEdge(g, b, c), f, InOrder(Range(Successors(f, b)))),
            LAMBDA g : [g EXCEPT !.body[b] = <<Inst(Last(@).id, "trap", <<>>, <<>>, 0)>>])

\* An instruction that has uses and a constant value is replaced by a mov, put
\* before it (after the PHIs), and erased unless it has effects.
FoldInst(f, b, x, v) ==
  LET i == Def(f, x)
      op == CASE L!Is(v, "int") -> "int" [] L!Is(v, "global") -> "glob" [] OTHER -> "undef"
      lit == CASE L!Is(v, "int") -> ToNumber(v) [] L!Is(v, "global") -> v.sym [] OTHER -> 0
      at == IF i.op = "phi"
            THEN f.body[b][Len(Phis(f, b)) + 1].id ELSE x
  IN  IF \/ IsConstant(i) /\ i.op # "arg"
         \/ Users(f, x) = {}
         \/ ~(v.kind \in {"int", "global", "undefined"})
      THEN f
      ELSE Then(AddInst(f, b, at, op, <<>>, <<>>, lit), LAMBDA g :
             Then(ReplaceUses(g, x, f.next), LAMBDA h :
               Changed(IF HasSideEffects(i) THEN h ELSE EraseInst(h, b, x))))

SCCP(f) ==
  Then(SCCPSolution(f), LAMBDA sol :
    LET dead == {b \in Blocks(f) : b \notin sol.live /\
                   (Len(f.body[b]) > 1 \/ GetTerminator(f, b).op # "trap")}
        fold(g, b, x) == FoldInst(g, b, x, sol.val[x])
        visit(g, b) == IF b \in sol.live
                       THEN Through(LAMBDA h, i : fold(h, b, i.id), g, g.body[b])
                       ELSE ClearBlock(g, b)
    IN  Then(Through(visit, f, f.order), LAMBDA g :
          IF \E b \in dead : Successors(f, b) # <<>> THEN RemoveUnreachable(g) ELSE g))
=============================================================================
