----------------------------- MODULE SCCPSolver -----------------------------
(***************************************************************************)
(* The solver of sparse conditional constant propagation                   *)
(* (passes/sccp/solver.cpp).  It walks the whole program at once: three    *)
(* work lists (users of overdefined values, users of other values, blocks) *)
(* are drained in turn, calls enter functions and returns are carried up   *)
(* to the call sites, through tail calls.  One step visits one             *)
(* instruction or does one round of a loop along the calls.                *)
(*                                                                         *)
(* A program is a record: inst maps an instruction to its kind, operands   *)
(* (args; the callee is the first one of a call), blocks (to; of a PHI the *)
(* incoming ones), constant or condition (val), number of the argument or  *)
(* of the result (idx), whether it has a result (rets); at maps an         *)
(* instruction to its block, body a block to its instructions, home a      *)
(* block to its function, entry a function to its first block; visible     *)
(* holds the functions that other programs see; uses maps an instruction   *)
(* to its use list, one element for every use; order is the order of       *)
(* instructions in memory, which decides the order of sets; data maps a    *)
(* symbol of data to its object.                                           *)
(* An instruction has one result at most.                                  *)
(***************************************************************************)
EXTENDS SCCPEval, Sequences, SequencesExt

CONSTANTS
  Programs,   \* the programs to be analysed, by family
  Externs     \* symbols that name functions of other programs

VARIABLES
  prog,    \* the program, which does not change
  s,       \* the solver's tables and work lists
  todo,    \* functions whose entry the constructor has still to consider
  phase,   \* the work list that is being drained
  rest,    \* instructions still to be visited of what was taken off a list
  up       \* the loop along the call sites that is running

vars == <<prog, s, todo, phase, rest, up>>

Idle == [kind |-> "none"]
None == "none"             \* no continuation, no tail call

\* What is known of the results of a function: nothing, that it returns, a value.
Absent == [kind |-> "absent"]
Void   == [kind |-> "void"]
IsValue(r) == r.kind \notin {"absent", "void"}

Insts  == DOMAIN prog.inst
Blocks == DOMAIN prog.body
Funcs  == DOMAIN prog.entry

Inst(i) == prog.inst[i]
BlockOf(i) == prog.at[i]
FuncOf(i) == prog.home[BlockOf(i)]

\* The elements of a sequence that are in S, as SelectSeq finds them.
Filtered(seq, S) ==
  LET F[n \in 0 .. Len(seq)] ==
        IF n = 0 THEN <<>> ELSE IF seq[n] \in S THEN Append(F[n - 1], seq[n]) ELSE F[n - 1]
  IN F[Len(seq)]
Selected(seq, S) == CHOOSE r \in {Filtered(seq, T) : T \in {S}} : TRUE
InOrder(S) == Selected(prog.order, S)

-----------------------------------------------------------------------------
(* The tables                                                              *)

Mark(t, i, v) ==
  LET users == Selected(prog.uses[i], {u \in ToSet(prog.uses[i]) : BlockOf(u) \in t.executable})
  IN IF t.values[i] = v
       THEN t
       ELSE IF v = Overdefined
              THEN [t EXCEPT !.values[i] = v, !.bottomList = @ \o users]
              ELSE [t EXCEPT !.values[i] = v, !.instList = @ \o users]

MarkOverdefined(t, i) == IF Inst(i).rets THEN Mark(t, i, Overdefined) ELSE t

MarkBlock(t, b) ==
  IF b \in t.executable
    THEN t
    ELSE [t EXCEPT !.executable = @ \cup {b}, !.blockList = Append(@, b)]

\* The bound of what comes in over the edges taken so far.
Incoming(t, i) ==
  LET Join(v, k) ==
        IF <<Inst(i).to[k], BlockOf(i)>> \in t.edges
          THEN LUB(v, t.values[Inst(i).args[k]])
          ELSE v
  IN FoldLeft(Join, Unknown, [k \in DOMAIN Inst(i).args |-> k])

VisitPhiInst(t, i) ==
  IF t.values[i] = Overdefined THEN t ELSE Mark(t, i, Incoming(t, i))

Phis(b) == Selected(prog.body[b], {i \in Insts : Inst(i).kind = "phi"})

MarkEdge(t, i, to) ==
  LET e == <<BlockOf(i), to>>
      u == [t EXCEPT !.edges = @ \cup {e}]
  IN IF e \in t.edges
       THEN t
       ELSE IF to \in t.executable
              THEN FoldLeft(VisitPhiInst, u, Phis(to))
              ELSE MarkBlock(u, to)

MarkEdges(t, i, targets) == FoldLeft(LAMBDA u, b : MarkEdge(u, i, b), t, targets)

-----------------------------------------------------------------------------
(* The constructor                                                         *)

ArgsOf(f) == InOrder({i \in Insts : Inst(i).kind = "arg" /\ FuncOf(i) = f})

\* Func::HasAddressTaken: used by data, by an expression with an offset, or moved
\* to anything but the callee of a call.
CallSites == {"call", "tcall", "invoke"}
IsOf(v, g) == Is(v, "global") /\ v.sym = g
InData(g) ==
  \E h \in DOMAIN prog.data : \E k \in DOMAIN prog.data[h].items : IsOf(prog.data[h].items[k].val, g)
HasAddressTaken(f) ==
  \/ InData(f)
  \/ \E m \in Insts :
       /\ Inst(m).kind = "mov" /\ IsOf(Inst(m).val, f)
       /\ \/ Inst(m).val.off # 0
          \/ \E u \in Insts : \E k \in DOMAIN Inst(u).args :
               Inst(u).args[k] = m /\ (Inst(u).kind \notin CallSites \/ k > 1)

IsEntry(f) == f \in prog.visible \/ HasAddressTaken(f)

Init ==
  /\ \E family \in DOMAIN Programs : prog \in Programs[family]
  /\ s = [values |-> [i \in Insts |-> Unknown], edges |-> {}, executable |-> {},
          bottomList |-> <<>>, instList |-> <<>>, blockList |-> <<>>,
          calls |-> [f \in Funcs |-> {}], returns |-> [f \in Funcs |-> Absent]]
  /\ todo = SetToSeq(Funcs)
  /\ phase = "bottom"
  /\ rest = <<>>
  /\ up = Idle

\* Functions that others may call are entered with any arguments.
Start ==
  /\ todo # <<>>
  /\ todo' = Tail(todo)
  /\ LET f == Head(todo)
     IN s' = IF IsEntry(f)
               THEN FoldLeft(MarkOverdefined, MarkBlock(s, prog.entry[f]), ArgsOf(f))
               ELSE s
  /\ UNCHANGED <<prog, phase, rest, up>>

\* The list to take from: the current one until it is empty, then the next.
Lists == [bottom |-> s.bottomList, inst |-> s.instList, block |-> s.blockList]
After(p) ==
  CASE p = "bottom" -> <<"bottom", "inst", "block">>
    [] p = "inst"   -> <<"inst", "block", "bottom">>
    [] p = "block"  -> <<"block", "bottom", "inst">>
Turn(p) ==
  \E k \in 1 .. 3 :
    After(phase)[k] = p /\ Lists[p] # <<>> /\ \A j \in 1 .. k - 1 : Lists[After(phase)[j]] = <<>>

Ready == todo = <<>> /\ rest = <<>> /\ up = Idle
Done  == Ready /\ \A p \in DOMAIN Lists : Lists[p] = <<>>

TakeBottom ==
  /\ Ready /\ Turn("bottom")
  /\ rest' = <<Head(s.bottomList)>>
  /\ s' = [s EXCEPT !.bottomList = Tail(@)]
  /\ phase' = "bottom"
  /\ UNCHANGED <<prog, todo, up>>

TakeInst ==
  /\ Ready /\ Turn("inst")
  /\ rest' = <<Head(s.instList)>>
  /\ s' = [s EXCEPT !.instList = Tail(@)]
  /\ phase' = "inst"
  /\ UNCHANGED <<prog, todo, up>>

TakeBlock ==
  /\ Ready /\ Turn("block")
  /\ rest' = prog.body[Head(s.blockList)]
  /\ s' = [s EXCEPT !.blockList = Tail(@)]
  /\ phase' = "block"
  /\ UNCHANGED <<prog, todo, up>>

-----------------------------------------------------------------------------
(* Visiting an instruction                                                 *)

Val(i, k) == s.values[Inst(i).args[k]]

EvalSelect(c, t, f) ==
  CASE IsTrue(c)     -> t
    [] IsFalse(c)    -> f
    [] c = Undefined -> Undefined
    [] OTHER         -> LUB(t, f)

AnyUnknown(i) == \E k \in DOMAIN Inst(i).args : Val(i, k) = Unknown

\* Where an item of an object starts; every value that is loaded has size one.
StartOf(items, k) == FoldLeft(LAMBDA n, it : n + it.size, 0, SubSeq(items, 1, k - 1))
At(items, off) ==
  {k \in DOMAIN items : StartOf(items, k) <= off /\ off < StartOf(items, k) + items[k].size}
ItemAt(items, off) == CHOOSE k \in At(items, off) : TRUE

\* The instructions that may hold an address in data object g.
Transparent == {"mov", "copy", "add", "sub", "phi"}
UsersOf(i) ==
  IF Inst(i).kind \in Transparent THEN {u \in Insts : i \in ToSet(Inst(u).args)} ELSE {}
Reached(S, next, n) ==
  LET R[k \in 0 .. n] == IF k = 0 THEN S ELSE R[k - 1] \cup UNION {next[i] : i \in R[k - 1]}
  IN R[n]
Holders(g) ==
  Reached({i \in Insts : IsOf(Inst(i).val, g)}, [i \in Insts |-> UsersOf(i)], Len(prog.order))

\* (mutant) Data of this program that nobody else sees is taken to be constant.
IsConstantLocal(g) == prog.data[g].constant \/ prog.data[g].local

\* Data is constant, or local and only read: not used by data or by an expression
\* with an offset.
IsConstant(g) ==
  \/ prog.data[g].constant
  \/ /\ prog.data[g].local
     /\ ~InData(g) /\ \A i \in Insts : IsOf(Inst(i).val, g) => Inst(i).val.off = 0
     /\ \A i \in Holders(g) : Inst(i).kind \in Transparent \cup {"load"}

LoadInt(item) ==
  CASE item.kind = "space" -> CreateInteger({})
    [] item.kind = "value" /\ item.size = 1 -> item.val
    [] OTHER -> Overdefined

\* What VisitLoadInst finds at an address.
Loaded(a) ==
  LET data == prog.data[a.sym]
      known == a.sym \in DOMAIN prog.data
  IN CASE a \in {Unknown, Overdefined, Undefined} -> a
       [] Is(a, "int") -> Undefined
       [] Is(a, "range") /\ known ->
            IF data.constant /\ Len(data.items) = 1 /\ data.items[1].kind = "space"
              THEN CreateInteger({})
              ELSE Overdefined
       [] Is(a, "global") /\ known ->
            IF IsConstant(a.sym) /\ At(data.items, a.off) # {}
              THEN LoadInt(data.items[ItemAt(data.items, a.off)])
              ELSE Overdefined
       [] OTHER -> Overdefined

Unaries  == {"neg", "sext", "zext", "xext", "trunc", "bitcast", "abs"}
Binaries == {"add", "sub", "and", "or", "xor", "mul", "udiv", "sdiv", "urem", "ouadd", "oumul",
             "osadd", "fadd", "fmul", "sll", "srl", "sra", "rotl", "rotr"}

\* Subleaf of a cpuid, if it has one.
Subleaf(i) == IF Len(Inst(i).args) > 1 THEN Val(i, 2) ELSE Unknown

\* Nothing is said of a cpuid whose leaf, or subleaf where it matters, is not known.
VisitCpuId(t, i) ==
  IF Val(i, 1) = Unknown \/ (Val(i, 1) = IntOf(StateLeaf) /\ Subleaf(i) = Unknown)
    THEN t
    ELSE Mark(t, i, EvalCpuId(Val(i, 1), Subleaf(i), Inst(i).idx))

\* What visiting an instruction that is not a terminator does.
Computed(i) ==
  LET kind == Inst(i).kind
  IN CASE kind = "arg" -> s
       [] kind \in {"mov", "frame", "undef"} -> Mark(s, i, Inst(i).val)
       [] kind = "copy" -> Mark(s, i, Val(i, 1))
       [] kind = "phi" -> VisitPhiInst(s, i)
       [] kind = "load" -> Mark(s, i, Loaded(Val(i, 1)))
       [] kind = "cpuid" -> VisitCpuId(s, i)
       [] kind \in Unaries ->
            IF AnyUnknown(i) THEN s ELSE Mark(s, i, EvalUnary(kind, Val(i, 1)))
       [] kind \in Binaries ->
            IF AnyUnknown(i) THEN s ELSE Mark(s, i, EvalBinary(kind, Val(i, 1), Val(i, 2)))
       [] kind = "cmp" ->
            IF AnyUnknown(i) THEN s ELSE Mark(s, i, EvalCmp(Val(i, 1), Val(i, 2), Inst(i).val))
       [] kind = "select" ->
            IF AnyUnknown(i) THEN s ELSE Mark(s, i, EvalSelect(Val(i, 1), Val(i, 2), Val(i, 3)))
       [] OTHER -> MarkOverdefined(s, i)

\* The targets of a conditional jump (true, false) that can be taken.
JumpCondTargets(i) ==
  LET v == Val(i, 1)
  IN IF v = Undefined
       THEN <<Inst(i).to[2]>>
       ELSE (IF IsTrue(v) THEN <<>> ELSE <<Inst(i).to[2]>>)
              \o (IF IsFalse(v) THEN <<>> ELSE <<Inst(i).to[1]>>)

\* The index of a switch; a negative one reads past the targets and is left out.
Index(v) == Num(v.bits)

SwitchTargets(i) ==
  LET v == Val(i, 1)
      n == IF Is(v, "int") THEN Index(v) ELSE 0
  IN CASE v = Undefined -> <<Head(Inst(i).to)>>
       [] Is(v, "int")  -> IF n < Len(Inst(i).to) THEN <<Inst(i).to[n + 1]>> ELSE <<>>
       [] OTHER         -> Inst(i).to

\* The instruction to visit next is one of these kinds.
Visiting(kinds) == up = Idle /\ rest # <<>> /\ Inst(Head(rest)).kind \in kinds
Leave == rest' = Tail(rest) /\ UNCHANGED <<prog, todo, phase>>

VisitInst ==
  /\ Visiting({"arg", "mov", "frame", "undef", "copy", "phi", "load", "store", "cpuid", "cmp",
               "select", "other", "raise", "trap"} \cup Unaries \cup Binaries)
  /\ s' = Computed(Head(rest))
  /\ up' = Idle
  /\ Leave

VisitJump ==
  /\ Visiting({"jump"})
  /\ s' = MarkEdges(s, Head(rest), Inst(Head(rest)).to)
  /\ up' = Idle
  /\ Leave

VisitJumpCond ==
  /\ Visiting({"jcc"})
  /\ s' = IF AnyUnknown(Head(rest)) THEN s
            ELSE MarkEdges(s, Head(rest), JumpCondTargets(Head(rest)))
  /\ up' = Idle
  /\ Leave

VisitSwitch ==
  /\ Visiting({"switch"})
  /\ s' = IF AnyUnknown(Head(rest)) THEN s
            ELSE MarkEdges(s, Head(rest), SwitchTargets(Head(rest)))
  /\ up' = Idle
  /\ Leave

-----------------------------------------------------------------------------
(* Calls and returns                                                       *)

\* The function a call is known to reach, if any.
Callee(i) == Val(i, 1).sym
KnownCallee(i) == Is(Val(i, 1), "global")
CallsFunc(i)   == KnownCallee(i) /\ Callee(i) \in Funcs
CallsExtern(i) == KnownCallee(i) /\ Callee(i) \in Externs
Cont(i) == IF Inst(i).kind = "tcall" THEN None ELSE Inst(i).to[1]

\* The arguments of a call reach the function; frame addresses lose their frame.
PassArg(t, i, a) ==
  LET k   == Inst(a).idx + 2
      v   == IF k <= Len(Inst(i).args) THEN t.values[Inst(i).args[k]] ELSE Undefined
      lub == LUB(t.values[a], v)
  IN Mark(t, a, IF Is(lub, "frame") THEN Pointer ELSE lub)

Enter(t, i, f) ==
  MarkBlock(FoldLeft(LAMBDA u, a : PassArg(u, i, a), t, ArgsOf(f)), prog.entry[f])

Register(t, i, f) == [t EXCEPT !.calls[f] = @ \cup {i}]

\* After MarkCall an invoke also goes to its landing pad.
AfterCall(t, i) == IF Inst(i).kind = "invoke" THEN MarkEdge(t, i, Inst(i).to[2]) ELSE t

\* A call site learns what the function it called returns, and goes on.
Answer(t, i, r) ==
  MarkEdge(IF IsValue(r) /\ Inst(i).rets THEN Mark(t, i, LUB(t.values[i], r)) ELSE t, i, Cont(i))

\* MarkCall up to its loop, which runs only when the function is known to return.
MarkCall(i) ==
  LET f == Callee(i)
  IN IF s.returns[f] = Absent
       THEN /\ s' = AfterCall(Register(Enter(s, i, f), i, f), i)
            /\ up' = Idle
       ELSE /\ s' = Enter(s, i, f)
            /\ up' = [kind |-> "call", inst |-> i, callee |-> f, queue |-> <<i>>, visited |-> {}]

\* What a function returns once a tail call in it returns v.
Forward(old, v, i) ==
  IF IsValue(v) /\ Inst(i).rets
    THEN IF IsValue(old) THEN LUB(old, v) ELSE v
    ELSE IF old = Absent THEN Void ELSE old

\* One round of the loop of MarkCall.
CallRound ==
  /\ up.kind = "call" /\ up.queue # <<>>
  /\ LET i   == Head(up.queue)
         f   == FuncOf(i)
         ret == s.returns[up.callee]
     IN \/ /\ Cont(i) # None
           /\ s' = Answer(s, i, ret)
           /\ up' = [up EXCEPT !.queue = Tail(@)]
        \/ /\ Cont(i) = None
           /\ f \in up.visited \/ s.returns[f] = ret
           /\ s' = s
           /\ up' = [up EXCEPT !.queue = Tail(@), !.visited = @ \cup {f}]
        \/ /\ Cont(i) = None
           /\ f \notin up.visited /\ s.returns[f] # ret
           /\ s' = [s EXCEPT !.returns[f] = Forward(@, ret, i)]
           /\ up' = [up EXCEPT !.queue = Tail(@) \o InOrder(s.calls[f]),
                               !.visited = @ \cup {f}]
  /\ UNCHANGED <<prog, todo, phase, rest>>

CallEnd ==
  /\ up.kind = "call" /\ up.queue = <<>>
  /\ s' = AfterCall(Register(s, up.inst, up.callee), up.inst)
  /\ up' = Idle
  /\ UNCHANGED <<prog, todo, phase, rest>>

\* Something that cannot be evaluated yet, or cannot be called at all.
NoCall(i) ==
  \/ AnyUnknown(i)
  \/ KnownCallee(i) /\ ~CallsFunc(i) /\ ~CallsExtern(i)

\* An invoke of a function of another program marks the landing pad first.
CallEdges(i) ==
  IF Inst(i).kind = "invoke" /\ CallsExtern(i) THEN Reverse(Inst(i).to) ELSE Inst(i).to

VisitCall ==
  /\ Visiting({"call", "invoke"})
  /\ LET i == Head(rest)
     IN \/ NoCall(i) /\ s' = s /\ up' = Idle
        \/ ~NoCall(i) /\ CallsFunc(i) /\ MarkCall(i)
        \/ /\ ~NoCall(i) /\ ~CallsFunc(i)
           /\ s' = MarkEdges(MarkOverdefined(s, i), i, CallEdges(i))
           /\ up' = Idle
  /\ Leave

VisitTailCall ==
  /\ Visiting({"tcall"})
  /\ LET i == Head(rest)
     IN \/ NoCall(i) /\ s' = s /\ up' = Idle
        \/ ~NoCall(i) /\ CallsFunc(i) /\ MarkCall(i)
        \/ /\ ~NoCall(i) /\ ~CallsFunc(i)
           /\ s' = s
           /\ up' = [kind |-> "over", inst |-> i, queue |-> <<FuncOf(i)>>, visited |-> {}]
  /\ Leave

TailSites(f) == InOrder({i \in s.calls[f] : Cont(i) = None})
FullSites(f) == InOrder({i \in s.calls[f] : Cont(i) # None})

\* One round of the loop of MarkOverdefinedCall.
OverdefinedRound ==
  /\ up.kind = "over" /\ up.queue # <<>>
  /\ LET f   == Head(up.queue)
         old == s.returns[f]
         new == IF Inst(up.inst).rets THEN Overdefined ELSE IF old = Absent THEN Void ELSE old
         Tell(t, i) == MarkEdge(IF IsValue(new) THEN MarkOverdefined(t, i) ELSE t, i, Cont(i))
     IN \/ /\ f \in up.visited \/ new = old
           /\ s' = s
           /\ up' = [up EXCEPT !.queue = Tail(@), !.visited = @ \cup {f}]
        \/ /\ f \notin up.visited /\ new # old
           /\ s' = FoldLeft(Tell, [s EXCEPT !.returns[f] = new], FullSites(f))
           /\ up' = [up EXCEPT !.visited = @ \cup {f},
                               !.queue = FoldLeft(LAMBDA q, i : Append(q, FuncOf(i)),
                                                  Tail(@), TailSites(f))]
  /\ UNCHANGED <<prog, todo, phase, rest>>

VisitReturn ==
  /\ Visiting({"ret"})
  /\ s' = s
  /\ up' = [kind |-> "return", inst |-> Head(rest), queue |-> <<None>>, visited |-> {}]
  /\ Leave

\* What a function returns after this return, seen through tail call i if any.
Merge(old, r, i) ==
  LET v == IF Inst(r).args # <<>> /\ (i = None \/ Inst(i).rets) THEN Val(r, 1) ELSE Void
  IN CASE v = Void      -> IF old = Absent THEN Void ELSE old
       [] old = Absent  -> v
       [] old = Void    -> IF v = Undefined THEN Void ELSE v
       [] OTHER         -> LUB(old, v)

\* Call sites learn what the function returns, one after the other.
Inform(t, i, r) == CHOOSE u \in {Answer(v, i, r) : v \in {t}} : TRUE
TellAll(t, r, sites) == FoldLeft(LAMBDA u, c : Inform(u, c, r), t, sites)

\* (mutant) Nothing is taken off the queue.
ReturnRoundKeeps ==
  /\ up.kind = "return" /\ up.queue # <<>>
  /\ LET i   == Head(up.queue)
         f   == FuncOf(IF i = None THEN up.inst ELSE i)
         new == Merge(s.returns[f], up.inst, i)
     IN /\ f \notin up.visited
        /\ s' = TellAll([s EXCEPT !.returns[f] = new], new, FullSites(f))
        /\ up' = [up EXCEPT !.queue = @ \o TailSites(f), !.visited = @ \cup {f}]
  /\ UNCHANGED <<prog, todo, phase, rest>>

\* One round of the loop of VisitReturnInst.
ReturnRound ==
  /\ up.kind = "return" /\ up.queue # <<>>
  /\ LET i   == Head(up.queue)
         f   == FuncOf(IF i = None THEN up.inst ELSE i)
         new == Merge(s.returns[f], up.inst, i)
     IN \/ /\ f \in up.visited
           /\ s' = s
           /\ up' = [up EXCEPT !.queue = Tail(@)]
        \/ /\ f \notin up.visited
           /\ s' = TellAll([s EXCEPT !.returns[f] = new], new, FullSites(f))
           /\ up' = [up EXCEPT !.queue = Tail(@) \o TailSites(f), !.visited = @ \cup {f}]
  /\ UNCHANGED <<prog, todo, phase, rest>>

LoopEnd ==
  /\ up.kind \in {"over", "return"} /\ up.queue = <<>>
  /\ up' = Idle
  /\ UNCHANGED <<prog, s, todo, phase, rest>>

Next ==
  \/ Start
  \/ TakeBottom \/ TakeInst \/ TakeBlock
  \/ VisitInst \/ VisitJump \/ VisitJumpCond \/ VisitSwitch
  \/ VisitCall \/ VisitTailCall \/ VisitReturn
  \/ CallRound \/ CallEnd \/ OverdefinedRound \/ ReturnRound \/ LoopEnd

\* The constructor runs on without waiting for anything.
Spec == Init /\ [][Next]_vars /\ WF_vars(Next)

-----------------------------------------------------------------------------
(* Programs, as the verifier and the linker leave them                     *)

\* A value that can be written in a program.
Written(v) ==
  \/ v \in IntConstants \cup FloatConstants
  \/ Is(v, "global") /\ v.sym \in Syms /\ v.off \in Int /\ v = CreateGlobal(v.sym, v.off)

Resultless == {"store", "jump", "jcc", "switch", "ret", "raise", "trap"}
GoodInst(p, i) ==
  LET n == p.inst[i]
  IN /\ n.args \in Seq(DOMAIN p.inst) /\ n.to \in Seq(DOMAIN p.body) /\ n.idx \in Nat
     /\ n.kind \in Unaries \cup {"copy", "load", "jcc", "switch"} => Len(n.args) = 1
     /\ n.kind \in Binaries \cup {"cmp", "store"} => Len(n.args) = 2
     /\ n.kind = "cpuid" => Len(n.args) \in {1, 2}
     /\ n.kind = "select" => Len(n.args) = 3
     /\ n.kind = "jump" => n.args = <<>>
     /\ n.kind = "ret" => Len(n.args) < 2
     /\ n.kind \in CallSites => n.args # <<>>
     /\ n.kind \in {"jump", "call"} => Len(n.to) = 1
     /\ n.kind \in {"jcc", "invoke"} => Len(n.to) = 2
     /\ n.kind = "switch" => n.to # <<>>
     /\ n.kind = "phi" => Len(n.to) = Len(n.args)
     /\ n.kind # "phi" => \A b \in ToSet(n.to) : p.home[b] = p.home[p.at[i]]
     /\ n.rets \in BOOLEAN
     /\ n.kind \notin CallSites => (n.rets <=> n.kind \notin Resultless)
     /\ n.kind = "mov" => Written(n.val)
     /\ n.kind = "undef" => n.val = Undefined
     /\ n.kind = "frame" => n.val.obj \in Objects /\ n.val.off \in Int
                              /\ n.val = CreateFrame(n.val.obj, n.val.off)
     /\ n.kind \notin {"mov", "undef", "frame"} => n.val.kind \in {"unknown", "cc"}

\* A PHI knows where its block is entered from.
GoodPhis(p) ==
  \A i, j \in DOMAIN p.inst :
    p.inst[i].kind = "phi" /\ p.inst[j].kind # "phi" /\ p.at[i] \in ToSet(p.inst[j].to)
      => p.at[j] \in ToSet(p.inst[i].to)

GoodItem(item) ==
  /\ item.kind \in {"space", "value", "wide"} /\ item.size \in Nat
  /\ item.kind = "value" \/ (item.kind # "space" /\ item.size = 1) => Written(item.val)

WellFormed(p) ==
  /\ \A i \in DOMAIN p.inst : GoodInst(p, i)
  /\ GoodPhis(p)
  /\ None \notin DOMAIN p.inst \cup DOMAIN p.body
  /\ p.order \in Seq(DOMAIN p.inst) /\ ToSet(p.order) = DOMAIN p.inst
  /\ DOMAIN p.uses = DOMAIN p.inst
  /\ \A i \in DOMAIN p.inst :
       p.uses[i] \in Seq(DOMAIN p.inst)
         /\ ToSet(p.uses[i]) = {u \in DOMAIN p.inst : i \in ToSet(p.inst[u].args)}
  /\ p.at \in [DOMAIN p.inst -> DOMAIN p.body]
  /\ p.home \in [DOMAIN p.body -> DOMAIN p.entry]
  /\ p.entry \in [DOMAIN p.entry -> DOMAIN p.body] /\ IsFiniteSet(DOMAIN p.entry)
  /\ \A f \in DOMAIN p.entry : p.home[p.entry[f]] = f
  /\ \A b \in DOMAIN p.body :
       p.body[b] \in Seq(DOMAIN p.inst) /\ ToSet(p.body[b]) = {i \in DOMAIN p.inst : p.at[i] = b}
  /\ DOMAIN p.entry \cap (DOMAIN p.data \cup Externs) = {}
  /\ \A g \in DOMAIN p.data :
       /\ p.data[g].constant \in BOOLEAN /\ p.data[g].local \in BOOLEAN
       /\ p.data[g].items \in Seq(ToSet(p.data[g].items))
       /\ \A item \in ToSet(p.data[g].items) : GoodItem(item)

ASSUME ProgramsAssumption ==
  \A family \in DOMAIN Programs : \A p \in Programs[family] : WellFormed(p)

-----------------------------------------------------------------------------
(* Properties                                                              *)

\* The work lists run empty: recursion and loops in the program do not keep the
\* solver going.
Terminates == <>Done

=============================================================================
