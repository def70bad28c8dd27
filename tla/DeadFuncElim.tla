---------------------------- MODULE DeadFuncElim ----------------------------
(***************************************************************************)
(* PointsToAnalysis::Run, the only client of the constraint solver, and    *)
(* DeadFuncElimPass::Run, the only client of the analysis: functions whose *)
(* address is taken but that the analysis did not reach are deleted.  Then *)
(* the program runs: functions, and the outside world, which calls what is *)
(* exported and what it was given.                                         *)
(***************************************************************************)
EXTENDS PTABuilder

CONSTANTS
  Programs,         \* the programs to analyse
  MaxDepth          \* bound: activations on the stack

VARIABLES
  ctx,        \* the analysed program and the context of the analysis
  phase,      \* "free" (constraints of any client), "roots", "build", "solve",
              \* "expand", "elim", "run"
  roots,      \* functions that are still to be explored from
  hcd,        \* the solver collapsed nodes in some round
  gone,       \* functions that the pass erased, and those it replaced by a trap
  run         \* the state of the program: stack, memory, what is known outside

pvars == <<ctx, phase, roots, hcd, gone, run>>
allvars == <<vars, pvars>>

Funcs == DOMAIN ctx.p.funcs
Body(f) == ctx.p.funcs[f].body
NoCtx == [p |-> [funcs |-> <<>>]]

-----------------------------------------------------------------------------
(* PointsToAnalysis::Run                                                   *)

Globals(p) ==
  ({"func", "block"} \X DOMAIN p.funcs) \cup ({"atom"} \X DOMAIN p.atoms) \cup ({"ext"} \X p.exts)

Context(p) ==
  [p |-> p, globals |-> [gl \in Globals(p) |-> None],
   objects |-> [o \in {p.atoms[a].obj : a \in DOMAIN p.atoms} |-> None],
   funcs |-> [f \in DOMAIN p.funcs |->
                [built |-> FALSE, va |-> None, alloca |-> None, args |-> <<>>, rets |-> <<>>,
                 frame |-> [o \in 1 .. 1 |-> None], expanded |-> FALSE]],
   calls |-> <<>>, work |-> <<>>, explored |-> {}, outside |-> {}, exception |-> <<>>,
   func |-> 1]

\* The context together with the solver's graph, queue and constraints.
With(c, gr, q, cs, st) ==
  [p |-> c.p, globals |-> c.globals, objects |-> c.objects, funcs |-> c.funcs, calls |-> c.calls,
   work |-> c.work, explored |-> c.explored, outside |-> c.outside, exception |-> c.exception,
   func |-> c.func, values |-> <<>>, unions |-> {}, res |-> Nil, ress |-> <<>>,
   g |-> gr, q |-> q, cs |-> cs, st |-> st]

Without(c) ==
  [p |-> c.p, globals |-> c.globals, objects |-> c.objects, funcs |-> c.funcs, calls |-> c.calls,
   work |-> c.work, explored |-> c.explored, outside |-> c.outside, exception |-> c.exception,
   func |-> c.func]

Become(c) ==
  /\ ctx' = Without(c)
  /\ g' = c.g /\ queue' = c.q /\ prog' = c.cs /\ start' = c.st
  /\ UNCHANGED <<collapse, visited, solving>>

\* Exported functions, then functions that exported externs stand for.
RootsOf(p) == SelectSeq([f \in DOMAIN p.funcs |-> f], LAMBDA f : p.funcs[f].root) \o p.aliases

\* Explore is called for the next root.
Explore ==
  /\ phase = "roots" /\ roots # <<>>
  /\ ctx' = [ctx EXCEPT !.work = <<Head(roots)>>]
  /\ roots' = Tail(roots)
  /\ phase' = "build"
  /\ UNCHANGED <<vars, hcd, gone, run>>

\* A function is taken from the back of the queue.
BuildNext ==
  /\ phase = "build" /\ ctx.work # <<>>
  /\ \E c \in {Build([With(ctx, g, queue, prog, start) EXCEPT !.work = Front(@)], Last(ctx.work))} : Become(c)
  /\ UNCHANGED <<phase, roots, hcd, gone, run>>

SolveBegin ==
  /\ phase = "build" /\ ctx.work = <<>>
  /\ Start
  /\ hcd' = (hcd \/ \E d \in Derefs : collapse'[d] # None)
  /\ phase' = "solve"
  /\ UNCHANGED <<ctx, roots, gone, run>>

SolveStep ==
  /\ phase = "solve"
  /\ Pop
  /\ UNCHANGED pvars

SolveEnd ==
  /\ phase = "solve"
  /\ Return
  /\ phase' = "expand"
  /\ UNCHANGED <<ctx, roots, hcd, gone, run>>

ExpandAll ==
  /\ phase = "expand"
  /\ \E c \in {Expand(With(ctx, g, queue, prog, start))} :
       Become(c) /\ phase' = IF c.work = <<>> THEN "roots" ELSE "build"
  /\ UNCHANGED <<roots, hcd, gone, run>>

-----------------------------------------------------------------------------
(* DeadFuncElimPass::Run                                                   *)

Movs(f, gl) == {i \in DOMAIN Body(f) : Body(f)[i].op = "mov" /\ Body(f)[i].sym = gl}
UsersOf(f, i) == {j \in DOMAIN Body(f) : <<i, 1>> \in ToSet(Body(f)[j].args)}
InData(gl) == \E a \in DOMAIN ctx.p.atoms : gl \in ToSet(ctx.p.atoms[a].refs)

\* Func::HasAddressTaken: used by data or an extern, or moved to anything but a
\* callee.
HasAddressTaken(f) ==
  \/ InData(<<"func", f>>) \/ f \in ToSet(ctx.p.aliases)
  \/ \E h \in Funcs : \E i \in Movs(h, <<"func", f>>) : \E j \in UsersOf(h, i) :
       \/ Body(h)[j].op \notin {"call", "tcall"}
       \/ <<i, 1>> \in ToSet(Tail(Body(h)[j].args))

\* Where the search starts.  pta: the analysis was run.
LiveRoots(pta) ==
  {f \in Funcs : \/ ctx.p.funcs[f].root
                 \/ HasAddressTaken(f) /\ (pta => f \in ctx.explored)}

Named(f) == {h \in Funcs : Movs(f, <<"func", h>>) \cup Movs(f, <<"block", h>>) # {}}
Live(pta) ==
  FoldLeft(LAMBDA S, k : Then(S, LAMBDA T : T \cup UNION {Named(f) : f \in T}), LiveRoots(pta),
           [k \in Funcs |-> k])

\* A dead function that nobody uses is erased; one that is used, by data or by a
\* function that is still there, keeps only a trap.
IsUsed(s, f) ==
  \/ InData(<<"func", f>>) \/ f \in ToSet(ctx.p.aliases)
  \/ \E h \in Funcs \ (s.erased \cup s.trapped) : Movs(h, <<"func", f>>) # {}

RemoveFunc(s, f) ==
  IF IsUsed(s, f) THEN [s EXCEPT !.trapped = @ \cup {f}] ELSE [s EXCEPT !.erased = @ \cup {f}]

Removed(pta) ==
  Then(Live(pta), LAMBDA live :
    Through(RemoveFunc, [erased |-> {}, trapped |-> {}], InOrder(Funcs \ live)))

Elim ==
  /\ phase = "roots" /\ roots = <<>>
  /\ gone' = Removed(TRUE)
  /\ phase' = "run"
  /\ UNCHANGED <<vars, ctx, roots, hcd, run>>

\* The pass without the analysis.
ElimAlone ==
  /\ phase = "roots" /\ ctx.explored = {}
  /\ gone' = Removed(FALSE)
  /\ phase' = "run"
  /\ roots' = <<>>
  /\ UNCHANGED <<vars, ctx, hcd, run>>

-----------------------------------------------------------------------------
(* The program.  An activation of the outside world has the number 0.      *)

Number == <<"int", 0>>
Undef == <<"undef", 0>>
Address(gl) == IF gl[1] = "atom" THEN <<"data", ctx.p.atoms[gl[2]].obj>> ELSE gl
IsObject(v) == v[1] \in {"data", "heap", "frame", "alloca"}

Top == Last(run.stack)
TopInst == Body(Top.f)[Top.pc]
Arg(k) == Top.vals[TopInst.args[k]]
Actuals == [k \in 1 .. Len(TopInst.args) - 1 |-> Arg(k + 1)]

Activate(f, args) ==
  [f |-> f, pc |-> 1, args |-> args,
   vals |-> IF f = 0 THEN <<>> ELSE [o \in (DOMAIN Body(f)) \X (1 .. 2) |-> Undef]]

\* The activation goes on with the results of its instruction.
Resume(a, vs) ==
  [a EXCEPT !.pc = @ + 1,
            !.vals = [o \in DOMAIN @ |-> IF o[1] = a.pc /\ o[2] <= Len(vs) THEN vs[o[2]] ELSE @[o]]]
OnTop(a) == Append(Front(run.stack), a)

\* What an instruction that calls nobody may compute.
Outcomes ==
  CASE TopInst.op = "mov"     -> {<<Address(TopInst.sym)>>}
    [] TopInst.op = "copy"    -> {<<Arg(1)>>}
    [] TopInst.op \in {"binary", "select"} -> {<<Arg(1)>>, <<Arg(2)>>}
    [] TopInst.op \in {"load", "xchg"} -> {<<Number>>} \cup {<<v>> : v \in Image(run.mem, Arg(1))}
    [] TopInst.op = "arg"     -> {<<IF TopInst.idx <= Len(Top.args) THEN Top.args[TopInst.idx] ELSE Number>>}
    [] TopInst.op = "phi"     -> {<<Top.vals[o]>> : o \in {x \in ToSet(TopInst.args) : Top.vals[x] # Undef}}
    [] TopInst.op = "frame"   -> {<<<<"frame", Top.f>>>>}
    [] TopInst.op = "alloca"  -> {<<<<"alloca", Top.f>>>>}
    [] OTHER                  -> {<<Number>>}

Calls == {"call", "tcall", "clone"}

Running == phase = "run" /\ run.stack # <<>> /\ Top.f # 0

Compute ==
  /\ Running /\ TopInst.op \notin Calls \cup {"ret", "raise", "loop"}
  /\ \E vs \in Outcomes :
       run' = [run EXCEPT !.stack = OnTop(Resume(Top, vs)),
                          !.mem = IF TopInst.op \in {"store", "xchg"} /\ IsObject(Arg(1))
                                    THEN @ \cup {<<Arg(1), Arg(2)>>} ELSE @]

\* Back to the start, or on.
Loop ==
  /\ Running /\ TopInst.op = "loop"
  /\ \/ run' = [run EXCEPT !.stack = OnTop(Resume(Top, <<>>))]
     \/ run' = [run EXCEPT !.stack = OnTop([Top EXCEPT !.pc = 1])]

\* The object that an allocator returns, one for each call site.
NewObject == <<"heap", 10 * Top.f + Top.pc>>

CallAllocator ==
  /\ Running /\ TopInst.op \in {"call"} /\ Arg(1)[1] = "ext" /\ ctx.p.alloc[Arg(1)] # "none"
  /\ run' = [run EXCEPT !.stack = OnTop(Resume(Top,
               IF ctx.p.alloc[Arg(1)] = "caml" THEN <<Arg(2), NewObject>> ELSE <<NewObject>>))]

\* A call of a function or of the outside world; a tail call takes the place of
\* its caller.
Call ==
  /\ Running /\ TopInst.op \in Calls /\ Len(run.stack) < MaxDepth
  /\ LET below == IF TopInst.op = "tcall" THEN Front(run.stack) ELSE run.stack
     IN \/ /\ Arg(1)[1] = "func"
           /\ run' = [run EXCEPT !.stack = Append(below, Activate(Arg(1)[2], Actuals))]
        \/ /\ Arg(1)[1] = "ext" /\ ctx.p.alloc[Arg(1)] = "none"
           /\ run' = [run EXCEPT !.stack = Append(below, Activate(0, <<>>)),
                                 !.known = @ \cup ToSet(Actuals)]

\* Values are returned to a caller; the outside world knows them from then on.
HandBack(stack, vs) ==
  IF stack # <<>> /\ Last(stack).f # 0
    THEN [run EXCEPT !.stack = Append(Front(stack), Resume(Last(stack), vs))]
    ELSE [run EXCEPT !.stack = stack, !.known = @ \cup ToSet(vs)]

Ret ==
  /\ Running /\ TopInst.op = "ret"
  /\ run' = HandBack(Front(run.stack), [k \in DOMAIN TopInst.args |-> Arg(k)])

\* The innermost caller that goes on at a landing pad.
PadsOf(a) == IF a.f = 0 THEN {} ELSE {i \in DOMAIN Body(a.f) : i > a.pc /\ Body(a.f)[i].op = "pad"}

Raise ==
  /\ Running /\ TopInst.op = "raise"
  /\ LET catchers == {k \in 1 .. Len(run.stack) - 1 : PadsOf(run.stack[k]) # {}}
         k == Max(catchers)
         a == run.stack[k]
     IN run' = [run EXCEPT !.stack =
          IF catchers = {}
            THEN <<>>
            ELSE Append(SubSeq(run.stack, 1, k - 1),
                        Resume([a EXCEPT !.pc = Min(PadsOf(a))],
                               [j \in DOMAIN TopInst.args |-> Arg(j)]))]

\* What the outside world can get hold of.
Reach(S) == S \cup {m[2] : m \in {x \in run.mem : x[1] \in S}}
Known == FoldLeft(LAMBDA S, k : Then(S, Reach), run.known \cup {Number}, <<1, 2, 3>>)

Outside == phase = "run" /\ (run.stack # <<>> => Top.f = 0)

\* The outside world calls an exported function or one it was given.
Exported(f) == ctx.p.funcs[f].root \/ f \in ToSet(ctx.p.aliases)

CallIn ==
  /\ Outside /\ Len(run.stack) < MaxDepth
  /\ \E f \in Funcs :
       /\ ~Exported(f) => run.stack # <<>> /\ <<"func", f>> \in Known
       /\ \E args \in [1 .. ctx.p.funcs[f].params ->
                         IF Exported(f) THEN {Number} ELSE Known] :
            run' = [run EXCEPT !.stack = Append(@, Activate(f, args))]

ReturnIn ==
  /\ Outside /\ run.stack # <<>>
  /\ \E v \in Known : run' = HandBack(Front(run.stack), <<v>>)

Execute ==
  /\ Compute \/ Loop \/ CallAllocator \/ Call \/ Ret \/ Raise \/ CallIn \/ ReturnIn
  /\ UNCHANGED <<vars, ctx, phase, roots, hcd, gone>>

-----------------------------------------------------------------------------

\* Constraints of any client, or those of a program.
InitFree == Init /\ ctx = NoCtx /\ phase = "free" /\ roots = <<>> /\ run = <<>>

InitProgram ==
  \E p \in Programs :
    LET st == [items |-> {}, nodes |-> {}]
    IN \E c \in {PTAContext(With(Context(p), Graph(0, st), <<>>, {}, st))} :
         /\ ctx = Without(c)
         /\ g = c.g /\ queue = c.q /\ prog = c.cs /\ start = c.st
         /\ collapse = [d \in Derefs |-> None] /\ visited = {} /\ solving = FALSE
         /\ phase = "roots" /\ roots = RootsOf(p)
         /\ run = [stack |-> <<>>, known |-> {},
                   mem |-> UNION {{<<"data", p.atoms[a].obj>>} \X
                                    {IF r[1] = "atom" THEN <<"data", p.atoms[r[2]].obj>> ELSE r
                                       : r \in ToSet(p.atoms[a].refs)} : a \in DOMAIN p.atoms}]

InitAll == (InitFree \/ InitProgram) /\ hcd = FALSE /\ gone = [erased |-> {}, trapped |-> {}]

Free == phase = "free" /\ Next /\ UNCHANGED pvars

NextAll == Free \/ Explore \/ BuildNext \/ SolveBegin \/ SolveStep \/ SolveEnd \/ ExpandAll
           \/ Elim \/ ElimAlone \/ Execute

SpecAll == InitAll /\ [][NextAll]_allvars /\ Fairness

-----------------------------------------------------------------------------
(* Properties                                                              *)

\* No run enters a function that the pass deleted: whatever way the address of a
\* function takes through registers, memory, calls, exceptions and the outside
\* world, the analysis follows it (if the solver collapsed no nodes).
EnteredKept ==
  ~hcd /\ phase = "run" => \A k \in DOMAIN run.stack : run.stack[k].f \notin gone.erased \cup gone.trapped

=============================================================================
