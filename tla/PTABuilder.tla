----------------------------- MODULE PTABuilder -----------------------------
(***************************************************************************)
(* PTAContext and its Builder: how the points-to analysis turns a program  *)
(* into nodes and constraints, and how Expand connects indirect calls to   *)
(* the functions that the solver found for them.                           *)
(*                                                                         *)
(* A program is a record: funcs (params, vararg, root, body), atoms (the   *)
(* object each lies in, the globals its items name), alloc (what kind of   *)
(* allocator a global is) and aliases (functions that exported externs     *)
(* stand for).  A global is <<kind, number>>.  A body is the sequence of   *)
(* instructions in reverse post-order, a value is <<instruction, result>>. *)
(* A value is mapped to a node; Nil where the code has a null pointer.     *)
(***************************************************************************)
EXTENDS ConstraintSolver

Nil == SetNode(None)

\* Set and Root: one set more; a root is represented by its set.
NewSet(c) == [c EXCEPT !.g.vars = @ + 1, !.res = SetNode(c.g.vars + 1)]
NewSets(c, n) == [c EXCEPT !.g.vars = @ + n]
Hold(c, i, x) == [c EXCEPT !.g.items[i] = @ \cup {x}, !.st.items = @ \cup {<<i, x>>}]
PointAt(c, i, n) == [c EXCEPT !.g.nodes[i] = @ \cup {n}, !.st.nodes = @ \cup {<<i, n>>}]

\* Alloc: a set that points to a new one.
Alloc(c) ==
  Then(NewSet(NewSet(c)),
       LAMBDA d : [PointAt(d, c.g.vars + 1, c.g.vars + 2) EXCEPT !.res = SetNode(c.g.vars + 1)])

\* Anchor: a root for a node.
Anchor(c, n) == IF n = Nil THEN Nil ELSE SetNode(SetOf(c.g, n))

SubsetAll(c, ns, to) == Through(LAMBDA d, n : Subset(d, n, to), c, ns)

-----------------------------------------------------------------------------
(* PTAContext                                                              *)

\* Lookup: the set with a global, or with a pointer to the object of an atom.
NewGlobal(c, gl, obj) ==
  LET i == c.g.vars + 1
      d == [NewSet(c) EXCEPT !.globals[gl] = i]
      e == IF d.objects[obj] # None THEN d ELSE [NewSet(d) EXCEPT !.objects[obj] = i + 1]
  IN CASE gl[1] \in {"ext", "func"} -> Hold(d, i, gl)
       [] gl[1] = "block"           -> d
       [] gl[1] = "atom"            -> PointAt(e, i, e.objects[obj])

Lookup(c, gl) ==
  LET d == IF c.globals[gl] # None
             THEN c
             ELSE NewGlobal(c, gl, IF gl[1] = "atom" THEN c.p.atoms[gl[2]].obj ELSE 1)
  IN [d EXCEPT !.res = SetNode(d.globals[gl])]

\* The constructor: what is outside knows what it can load, and every atom holds
\* the globals that its items name.
ItemsOfAtoms(p) ==
  FlattenSeq([a \in DOMAIN p.atoms |->
    [k \in DOMAIN p.atoms[a].refs |-> <<<<"atom", a>>, p.atoms[a].refs[k]>>]])

StoreItem(c, item) ==
  Then(Lookup(c, item[1]), LAMBDA d :
    Then(Lookup(d, item[2]), LAMBDA e : Store(e, d.res, e.res)))

PTAContext(c) ==
  LET out == Load(NewSet(c), SetNode(1))
      all == Through(LAMBDA d, a : Lookup(d, <<"atom", a>>), Subset(out, DerefNode(1), SetNode(1)),
                     [a \in DOMAIN c.p.atoms |-> a])
  IN Through(StoreItem, all, ItemsOfAtoms(c.p))

Extern == SetNode(1)

\* BuildFunction: the sets of a function, once.
BuildFunction(c, f) ==
  IF c.funcs[f].built
    THEN c
    ELSE [NewSets(c, 2 + c.p.funcs[f].params) EXCEPT
            !.funcs[f] = [@ EXCEPT !.built = TRUE, !.va = c.g.vars + 1, !.alloca = c.g.vars + 2,
                                   !.args = [k \in 1 .. c.p.funcs[f].params |-> c.g.vars + 2 + k]]]

\* Space for the return value i of a function.
NeedReturn(c, f, i) ==
  IF Len(c.funcs[f].rets) >= i THEN c ELSE [NewSet(c) EXCEPT !.funcs[f].rets = Append(@, c.g.vars + 1)]
NeedReturns(c, f, n) == Through(LAMBDA d, i : NeedReturn(d, f, i), c, [i \in 1 .. n |-> i])

\* An argument goes to its parameter, or with the variable ones.
PassArg(c, f, i, n) ==
  LET fs == c.funcs[f]
  IN CASE n = Nil -> c
       [] n # Nil /\ i <= Len(fs.args) -> Subset(c, n, SetNode(fs.args[i]))
       [] OTHER -> IF c.p.funcs[f].vararg THEN Subset(c, n, SetNode(fs.va)) ELSE c

PassArgs(c, f, ns) == Through(LAMBDA d, i : PassArg(d, f, i, ns[i]), c, [i \in DOMAIN ns |-> i])

\* CallContext.  The constructor takes the sets of the returned values and does
\* not store them.
CallContext(callee, args, rets) ==
  [callee |-> callee, args |-> args, rets |-> <<>>, funcs |-> {}, exts |-> {}]

-----------------------------------------------------------------------------
(* Expand                                                                  *)

HeldBy(c, n, kind) ==
  InOrder({x[2] : x \in {y \in c.g.items[Find(c.g, n.id)] : y[1] = kind}})

\* A function that was found for the call site k.
ExpandFunc(c, k, f) ==
  LET call == c.calls[k]
      d == PassArgs(BuildFunction([c EXCEPT !.calls[k].funcs = @ \cup {f}, !.work = Append(@, f)], f),
                    f, call.args)
      Give(e, i) == Then(NeedReturn(e, f, i),
                         LAMBDA h : Subset(h, SetNode(h.funcs[f].rets[i]), call.rets[i]))
  IN IF f \in call.funcs THEN c ELSE Through(Give, d, [i \in DOMAIN call.rets |-> i])

\* An extern that was found for it: the arguments are known outside.
ExpandExtern(c, k, x) ==
  LET call == c.calls[k]
      d == [c EXCEPT !.calls[k].exts = @ \cup {x}]
      out == SubsetAll(d, SelectSeq(call.args, LAMBDA n : n # Nil), Extern)
  IN IF x \in call.exts THEN c ELSE Through(LAMBDA e, n : Subset(e, Extern, n), out, call.rets)

ExpandCall(c, k) ==
  LET callee == c.calls[k].callee
      d == Through(LAMBDA e, f : ExpandFunc(e, k, f), c, HeldBy(c, callee, "func"))
  IN Through(LAMBDA e, x : ExpandExtern(e, k, x), d, HeldBy(c, callee, "ext"))

\* A function that is known outside: it gets what is known there, and gives what
\* it has by now been seen to return.
ExpandOutside(c, f) ==
  LET d == BuildFunction([c EXCEPT !.outside = @ \cup {f}, !.work = Append(@, f)], f)
      fs == d.funcs[f]
      SetNodes(ids) == [k \in DOMAIN ids |-> SetNode(ids[k])]
      in == Through(LAMBDA e, n : Subset(e, Extern, n), d, SetNodes(fs.args))
  IN IF f \in c.outside THEN c ELSE SubsetAll(in, SetNodes(fs.rets), Extern)

Expand(c) ==
  LET d == Through(ExpandCall, c, [k \in DOMAIN c.calls |-> k])
  IN Through(ExpandOutside, d, HeldBy(d, Extern, "func"))

-----------------------------------------------------------------------------
(* Builder                                                                 *)

Inst(c, i) == c.p.funcs[c.func].body[i]
Value(c, o) == c.values[o]
Map(c, o, n) == IF n = Nil THEN c ELSE [c EXCEPT !.values[o] = n]

\* Union: a set with what is in both nodes, once for every pair.
Unite(c, x, y) ==
  LET old == {u \in c.unions : u[1] = x /\ u[2] = y}
      n   == SetNode(c.g.vars + 1)
  IN CASE x = Nil -> [c EXCEPT !.res = y]
       [] x # Nil /\ y = Nil -> [c EXCEPT !.res = x]
       [] x # Nil /\ y # Nil /\ old # {} -> [c EXCEPT !.res = (CHOOSE u \in old : TRUE)[3]]
       [] OTHER -> [Subset(Subset(NewSet(c), x, n), y, n) EXCEPT
                      !.unions = @ \cup {<<x, y, n>>}, !.res = n]

VisitBinary(c, i) ==
  Then(Unite(c, Value(c, Inst(c, i).args[1]), Value(c, Inst(c, i).args[2])),
       LAMBDA d : Map(d, <<i, 1>>, d.res))

\* The operands of a call after the callee.
ArgNodes(c, i) ==
  LET args == Inst(c, i).args IN [k \in 1 .. Len(args) - 1 |-> Value(c, args[k + 1])]

\* The global that an instruction moves.
ToGlobal(c, o) == IF Inst(c, o[1]).op = "mov" THEN Inst(c, o[1]).sym ELSE <<"none", 0>>

\* BuildAlloc
BuildAlloc(c, i, kind) ==
  Then(Alloc(c), LAMBDA d :
    [d EXCEPT !.ress = IF kind = "caml" THEN <<ArgNodes(c, i)[1], d.res>> ELSE <<d.res>>])

\* A direct call of a function.  (An allocator marks its caller as explored.)
CallFunc(c, i, f) ==
  LET d == BuildFunction(c, f)
      e == NeedReturns([PassArgs(d, f, ArgNodes(c, i)) EXCEPT !.work = Append(@, f)],
                       f, Inst(c, i).n)
  IN IF c.p.alloc[<<"func", f>>] # "none"
       THEN BuildAlloc([c EXCEPT !.explored = @ \cup {c.func}], i, c.p.alloc[<<"func", f>>])
       ELSE Then(e, LAMBDA h : [h EXCEPT !.ress = [k \in DOMAIN h.funcs[f].rets |->
                                                     SetNode(h.funcs[f].rets[k])]])

\* A direct call of an extern: what it is given is known outside, and it returns
\* what is known there.
CallExtern(c, i, x) ==
  IF c.p.alloc[<<"ext", x>>] # "none"
    THEN BuildAlloc(c, i, c.p.alloc[<<"ext", x>>])
    ELSE [SubsetAll(c, SelectSeq(ArgNodes(c, i), LAMBDA n : n # Nil), Extern) EXCEPT
            !.ress = [k \in 1 .. Inst(c, i).n |-> Extern]]

\* An indirect call is left to Expand.
CallIndirect(c, i) ==
  LET n    == Inst(c, i).n
      rets == [k \in 1 .. n |-> SetNode(c.g.vars + k)]
      args == ArgNodes(c, i)
      callee == Value(c, Inst(c, i).args[1])
  IN IF callee = Nil
       THEN [c EXCEPT !.ress = <<>>]
       ELSE [NewSets(c, n) EXCEPT
               !.calls = Append(@, CallContext(Anchor(c, callee),
                                               [k \in DOMAIN args |-> Anchor(c, args[k])], rets)),
               !.ress = rets]

BuildCall(c, i) ==
  LET gl == ToGlobal(c, Inst(c, i).args[1])
  IN CASE gl[1] = "func" -> CallFunc(c, i, gl[2])
       [] gl[1] = "ext"  -> CallExtern(c, i, gl[2])
       [] OTHER          -> CallIndirect(c, i)

\* One value of a call: returned by a tail call, the result of another.
TakeResult(c, i, k) ==
  CASE c.ress = <<>> \/ c.ress[k] = Nil -> c
    [] OTHER -> IF Inst(c, i).op = "tcall"
                  THEN Then(NeedReturn(c, c.func, k),
                            LAMBDA d : Subset(d, c.ress[k], SetNode(d.funcs[c.func].rets[k])))
                  ELSE Map(c, <<i, k>>, c.ress[k])

VisitCallSite(c, i) ==
  Through(LAMBDA d, k : TakeResult(d, i, k), BuildCall(c, i), [k \in 1 .. Inst(c, i).n |-> k])

VisitReturn(c, i) ==
  LET Give(d, k) ==
        LET n == Value(d, Inst(d, i).args[k])
        IN IF n = Nil THEN d
           ELSE Then(NeedReturn(d, d.func, k),
                     LAMBDA e : Subset(e, n, SetNode(e.funcs[e.func].rets[k])))
  IN Through(Give, c, [k \in DOMAIN Inst(c, i).args |-> k])

\* The buckets of exceptions.
NeedException(c, k) ==
  IF Len(c.exception) >= k THEN c ELSE [NewSet(c) EXCEPT !.exception = Append(@, c.g.vars + 1)]

\* (A raised value without a node would be dereferenced as a null pointer.)
VisitRaise(c, i) ==
  LET Throw(d, k) == Then(NeedException(d, k), LAMBDA e :
                       Subset(e, Value(e, Inst(e, i).args[k]), SetNode(e.exception[k])))
  IN Through(Throw, c, [k \in DOMAIN Inst(c, i).args |-> k])

VisitLandingPad(c, i) ==
  LET Catch(d, k) == Then(NeedException(d, k), LAMBDA e : Map(e, <<i, k>>, SetNode(e.exception[k])))
  IN Through(Catch, c, [k \in 1 .. Inst(c, i).n |-> k])

VisitMemoryLoad(c, i) ==
  LET addr == Value(c, Inst(c, i).args[1])
  IN IF addr = Nil THEN c ELSE Map(Load(c, addr), <<i, 1>>, Loaded(c, addr))

VisitMemoryStore(c, i) ==
  LET addr == Value(c, Inst(c, i).args[1])
      val  == Value(c, Inst(c, i).args[2])
  IN IF addr = Nil \/ val = Nil THEN c ELSE Store(c, addr, val)

VisitMemoryExchange(c, i) ==
  IF Value(c, Inst(c, i).args[1]) = Nil THEN c ELSE VisitMemoryLoad(VisitMemoryStore(c, i), i)

VisitArg(c, i) == Map(c, <<i, 1>>, SetNode(c.funcs[c.func].args[Inst(c, i).idx]))

\* A mov of a register, of a global (or an offset from one), or of a constant.
VisitMov(c, i) ==
  CASE Inst(c, i).op = "copy"  -> Map(c, <<i, 1>>, Value(c, Inst(c, i).args[1]))
    [] Inst(c, i).op = "mov"   -> Then(Lookup(c, Inst(c, i).sym), LAMBDA d : Map(d, <<i, 1>>, d.res))
    [] Inst(c, i).op = "const" -> c

VisitPhi(c, i) == Map(NewSet(c), <<i, 1>>, SetNode(c.g.vars + 1))

VisitAlloca(c, i) == Map(c, <<i, 1>>, SetNode(c.funcs[c.func].alloca))

\* A set for each object of the frame: not a pointer to one.
VisitFrame(c, i) ==
  LET o == Inst(c, i).idx
      d == IF c.funcs[c.func].frame[o] # None
             THEN c
             ELSE [NewSet(c) EXCEPT !.funcs[c.func].frame[o] = c.g.vars + 1]
  IN Map(d, <<i, 1>>, SetNode(d.funcs[c.func].frame[o]))

VisitVaStart(c, i) ==
  LET val == Value(c, Inst(c, i).args[1])
  IN IF val = Nil THEN c ELSE Subset(c, SetNode(c.funcs[c.func].va), val)

VisitClone(c, i) ==
  LET callee == Value(c, Inst(c, i).args[1])
  IN IF callee = Nil
       THEN c
       ELSE [c EXCEPT !.calls = Append(@, CallContext(Anchor(c, callee),
                                            <<Anchor(c, Value(c, Inst(c, i).args[2]))>>, <<>>))]

Visit(c, i) ==
  LET op == Inst(c, i).op
  IN CASE op \in {"binary", "select"}      -> VisitBinary(c, i)
       [] op \in {"call", "tcall"}         -> VisitCallSite(c, i)
       [] op = "ret"                       -> VisitReturn(c, i)
       [] op = "raise"                     -> VisitRaise(c, i)
       [] op = "pad"                       -> VisitLandingPad(c, i)
       [] op = "load"                      -> VisitMemoryLoad(c, i)
       [] op = "store"                     -> VisitMemoryStore(c, i)
       [] op = "xchg"                      -> VisitMemoryExchange(c, i)
       [] op = "arg"                       -> VisitArg(c, i)
       [] op \in {"copy", "mov", "const"}  -> VisitMov(c, i)
       [] op = "phi"                       -> VisitPhi(c, i)
       [] op = "alloca"                    -> VisitAlloca(c, i)
       [] op = "frame"                     -> VisitFrame(c, i)
       [] op = "vastart"                   -> VisitVaStart(c, i)
       [] op = "clone"                     -> VisitClone(c, i)
       [] OTHER                            -> c

\* (mutant) A PHI takes the inputs that have nodes when it is visited.
JoinPhiEarly(c, i) ==
  LET ins == {Value(c, o) : o \in {x \in ToSet(Inst(c, i).args) : x[1] < i}} \ {Nil}
  IN IF Inst(c, i).op # "phi" THEN c ELSE SubsetAll(c, InAnyOrder(ins), Value(c, <<i, 1>>))

\* PHIs take their inputs once all values have nodes.
JoinPhi(c, i) ==
  LET ins == {Value(c, Inst(c, i).args[k]) : k \in DOMAIN Inst(c, i).args} \ {Nil}
  IN IF Inst(c, i).op # "phi" THEN c ELSE SubsetAll(c, InAnyOrder(ins), Value(c, <<i, 1>>))

Build(c, f) ==
  LET b == BuildFunction(c, f)
      order == [i \in DOMAIN c.p.funcs[f].body |-> i]
      e == [b EXCEPT !.funcs[f].expanded = TRUE, !.explored = @ \cup {f}, !.func = f,
                     !.values = [o \in (DOMAIN order) \X (1 .. 2) |-> Nil], !.unions = {}]
  IN IF b.funcs[f].expanded
       THEN b
       ELSE [Through(JoinPhi, Through(Visit, e, order), order) EXCEPT !.values = <<>>, !.unions = {}]
=============================================================================
