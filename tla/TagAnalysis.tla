----------------------------- MODULE TagAnalysis -----------------------------
(***************************************************************************)
(* The forward phase of RegisterAnalysis::Solve: Init seeds the types of   *)
(* registers, Step propagates them through two queues, along calls and     *)
(* back along returns, until nothing is queued.                            *)
(*                                                                         *)
(* The order in which users are queued is left open: the properties hold   *)
(* whatever the order of the def-use chains.                               *)
(*                                                                         *)
(* A register is <<i, n>>, the n-th result of instruction i; instructions  *)
(* are numbered in program order.  A type that is not in types_ is UNKNOWN.*)
(***************************************************************************)
EXTENDS TagTypes, Sequences, SequencesExt

CONSTANT Programs   \* the programs analysed: [insts, funcs]

\* An instruction is [op, tys, args, fn, idx, name, word]: the types of its
\* results, the registers it reads and the function it is in; idx is the index
\* of an argument or the callee, 0 if that is not known; name the kind of a
\* global or the convention of a call, word the value of a constant.

VARIABLES
  prog,      \* the program
  st,        \* types_; the instructions queued or visited; what went wrong
  rets,      \* rets_: types returned by each function
  seeded,    \* instructions Init has visited
  current,   \* the instruction at the front of a queue, while it is visited
  up         \* the queue of Return: functions, the types they return

vars == <<prog, st, rets, seeded, current, up>>

Insts   == DOMAIN prog.insts
Inst(i) == prog.insts[i]
Find(s, ref) == s.types[ref]
Arg(i, n) == Find(st, Inst(i).args[n])

IsPhi(i)  == Inst(i).op = "phi"
IsCall(i) == Inst(i).op \in {"call", "tcall"}
CallsOf(f)     == {i \in Insts : IsCall(i) /\ Inst(i).idx = f}

-----------------------------------------------------------------------------
(* Mark and the queue                                                      *)

Users(ref) == {i \in Insts : ref \in Range(Inst(i).args)}

Converges(ty, told, tnew) ==
  Less(told, tnew) /\ (ty = "V64" => LessEq(tnew, Ty("VAL")))

TypeAfter(marks, r, t) ==
  IF \E m \in Range(marks) : m[1] = r THEN (CHOOSE m \in Range(marks) : m[1] = r)[2] ELSE t

\* (mutant) Users are only queued the first time a type is known.
MarkOnce(s, marks) ==
  [s EXCEPT !.types = [r \in DOMAIN @ |-> TypeAfter(marks, r, @[r])],
            !.queue = @ \cup UNION {Users(m[1]) : m \in {n \in Range(marks) : IsUnknown(Find(s, n[1]))}}]

\* Mark and ForwardQueue, for pairs of a register and its type.  A type that
\* does not rise is an error of the debug build only.
Mark(s, marks) ==
  LET changed == {m \in Range(marks) : Find(s, m[1]) # m[2]}
      risen(m) == IsUnknown(Find(s, m[1])) \/ Converges(Inst(m[1][1]).tys[m[1][2]], Find(s, m[1]), m[2])
  IN IF \E m \in Range(marks) : m[2] = Crash THEN [s EXCEPT !.crashed = TRUE]
     ELSE [s EXCEPT !.types = [r \in DOMAIN @ |-> TypeAfter(marks, r, @[r])],
                    !.queue = @ \cup UNION {Users(m[1]) : m \in changed},
                    !.diverged = @ \/ \E m \in changed : ~risen(m)]

\* The mark of the only result, once the operands are known.
Result(i, t) ==
  CASE IsUnknown(t) -> <<>>
    [] t = Crash    -> <<<<<<i, 1>>, Crash>>>>
    [] OTHER        -> <<<<<<i, 1>>, Clamp(FALSE, t, Inst(i).tys[1])>>>>

\* The first two values of OCaml calls are runtime pointers.
Pinned(cc, n, t) ==
  CASE cc = "CAML" /\ n = 1 -> Ty("PTR")
    [] cc = "CAML" /\ n = 2 -> Ty("YOUNG")
    [] OTHER -> t

-----------------------------------------------------------------------------
(* Init                                                                    *)

SeedArg(i) ==
  LET f == prog.funcs[Inst(i).fn]
  IN CASE f.cc = "CAML" /\ Inst(i).idx \in {1, 2} -> Pinned("CAML", Inst(i).idx, AnyInt)
       [] f.cc = "CAML" /\ (f.taken \/ ~f.local) -> Infer(Inst(i).tys[1])
       [] f.cc = "C" /\ (~f.local \/ f.taken) -> Ty("PTR_INT")
       [] OTHER -> Ty("UNKNOWN")

SeedGlobal(kind) ==
  CASE kind = "func" -> Ty("FUNC")
    [] kind = "caml" -> Ty("HEAP")
    [] kind \in {"extern", "data", "block"} -> Ty("PTR")

SeedOf(i) ==
  CASE Inst(i).op = "arg"    -> SeedArg(i)
    [] Inst(i).op = "global" -> SeedGlobal(Inst(i).name)
    [] Inst(i).op = "const"  -> Const(Inst(i).word)
    [] Inst(i).op = "load"   -> Infer(Inst(i).tys[1])
    [] Inst(i).op = "frame"  -> Ty("PTR")
    [] Inst(i).op = "undef"  -> Ty("UNDEF")
    [] Inst(i).op = "neg"    -> AnyInt
    [] Inst(i).op = "syscall" -> Ty("PTR_INT")
    [] OTHER -> Ty("UNKNOWN")

SeedMarks(i) ==
  CASE Inst(i).op = "pad" -> [n \in DOMAIN Inst(i).tys |->
                                <<<<i, n>>, Pinned("CAML", n, Infer(Inst(i).tys[n]))>>]
    [] IsUnknown(SeedOf(i)) -> <<>>
    [] OTHER -> <<<<<<i, 1>>, SeedOf(i)>>>>

\* One instruction of the loop in Solve; the seed is not clamped.
Seed ==
  /\ seeded < Len(prog.insts)
  /\ seeded' = seeded + 1
  /\ st' = Mark(st, SeedMarks(seeded + 1))
  /\ UNCHANGED <<prog, rets, current, up>>

-----------------------------------------------------------------------------
(* Step, FORWARD                                                           *)

\* Each visitor of an instruction with one result.
Value(i) ==
  LET op == Inst(i).op
      a  == Arg(i, 1)
      b  == Arg(i, 2)
  IN CASE op = "mov" -> a
       [] op = "add" -> Add(a, b)
       [] op = "sub" -> Sub(a, b)
       [] op = "mul" -> Mul(a, b)
       [] op = "or"  -> Or(a, b)
       [] op = "xor" -> Xor(a, b)
       [] op = "select" -> IF IsUnknown(a) \/ IsUnknown(b) THEN Ty("UNKNOWN") ELSE Join(a, b)

\* Visitors that do not clamp the result.
Unclamped(i) ==
  LET op == Inst(i).op
      a  == Arg(i, 1)
      b  == Arg(i, 2)
  IN CASE op = "and" -> And(a, b)
       [] op = "shr" -> Shr(a, b)
       [] op = "shl" -> Shl(a, b)
       [] op = "ext" -> Ext(a)
       [] op = "trunc" -> Trunc(Inst(i).tys[1] \in {"I64", "V64"}, a)
       [] op = "eq" -> CmpEq(FALSE, a, b)
       [] op = "ne" -> CmpEq(TRUE, a, b)
       [] op = "div" -> IF IsUnknown(a) \/ IsUnknown(b) THEN Ty("UNKNOWN") ELSE AnyInt

ValueOps     == {"mov", "add", "sub", "mul", "or", "xor", "select"}
UnclampedOps == {"and", "shr", "shl", "ext", "trunc", "eq", "ne", "div"}

\* The inputs of a PHI and of the PHIs among them, in the order of the queue.
RECURSIVE PhiInputs(_, _, _)
PhiInputs(queue, visited, acc) ==
  IF queue = <<>> THEN acc
  ELSE IF Head(queue) \in visited THEN PhiInputs(Tail(queue), visited, acc)
  ELSE LET in   == Inst(Head(queue)).args
           phis == SelectSeq(in, LAMBDA r : IsPhi(r[1]))
       IN PhiInputs(Tail(queue) \o [n \in DOMAIN phis |-> phis[n][1]],
                    visited \cup {Head(queue)},
                    acc \o SelectSeq(in, LAMBDA r : ~IsPhi(r[1])))

PhiType(i) ==
  FoldLeft(LAMBDA t, r : IF t = Crash THEN t ELSE Join(t, Find(st, r)),
           Ty("UNKNOWN"), PhiInputs(<<i>>, {}, <<>>))

\* The types passed by a call, once all of them are known.
CallArgs(i) ==
  LET cc == prog.funcs[Inst(i).idx].cc
  IN [n \in DOMAIN Inst(i).args |-> Pinned(cc, n, Arg(i, n))]

Ready(i) == \A n \in DOMAIN Inst(i).args : ~IsUnknown(Arg(i, n))

Params(f) == {i \in Insts : Inst(i).op = "arg" /\ Inst(i).fn = f}
ByIndex(a, b) == Inst(a).idx < Inst(b).idx \/ (Inst(a).idx = Inst(b).idx /\ a < b)

\* Each argument of the callee is joined with what is passed.
ArgMarks(i) ==
  LET args == CallArgs(i)
      params == SetToSortSeq({a \in Params(Inst(i).idx) : Inst(a).idx \in DOMAIN args}, ByIndex)
      joined(a) == Join(Find(st, <<a, 1>>), args[Inst(a).idx])
  IN [n \in DOMAIN params |->
       <<<<params[n], 1>>, IF joined(params[n]) = Crash THEN Crash
                           ELSE Clamp(FALSE, joined(params[n]), Inst(params[n]).tys[1])>>]

\* Every result of a call.
CallMarks(i, values) ==
  [n \in DOMAIN Inst(i).tys |-> <<<<i, n>>, Clamp(FALSE, values[n], Inst(i).tys[n])>>]

IndirectTypes(i) ==
  [n \in DOMAIN Inst(i).tys |->
     IF Inst(i).name = "C" THEN Ty("PTR_INT") ELSE Pinned("CAML", n, Infer(Inst(i).tys[n]))]

\* What a visit marks, and what it returns from its function.
Visited(marks)  == [marks |-> marks, up |-> <<>>]
Returned(marks, i, values) == [marks |-> marks, up |-> <<[fn |-> Inst(i).fn, rets |-> values]>>]

VisitDirectCall(i) ==
  LET f == Inst(i).idx
  IN CASE ~Ready(i) -> Visited(<<>>)
       [] Ready(i) /\ f \notin DOMAIN rets -> Visited(ArgMarks(i))
       [] OTHER -> IF Inst(i).op = "tcall" THEN Returned(ArgMarks(i), i, rets[f])
                   ELSE Visited(ArgMarks(i) \o CallMarks(i, rets[f]))

VisitIndirectCall(i) ==
  IF Inst(i).op = "tcall" THEN Returned(<<>>, i, IndirectTypes(i))
  ELSE Visited([n \in DOMAIN Inst(i).tys |-> <<<<i, n>>, IndirectTypes(i)[n]>>])

VisitReturn(i) ==
  IF ~Ready(i) THEN Visited(<<>>)
  ELSE Returned(<<>>, i, [n \in DOMAIN Inst(i).args |->
                            Pinned(prog.funcs[Inst(i).fn].cc, n, Arg(i, n))])

Visit(i) ==
  CASE IsCall(i) -> IF Inst(i).idx = 0 THEN VisitIndirectCall(i) ELSE VisitDirectCall(i)
    [] Inst(i).op = "ret" -> VisitReturn(i)
    [] IsPhi(i) -> Visited(Result(i, PhiType(i)))
    [] Inst(i).op \in ValueOps -> Visited(Result(i, Value(i)))
    [] Inst(i).op \in UnclampedOps ->
         Visited(IF IsUnknown(Unclamped(i)) THEN <<>> ELSE <<<<<<i, 1>>, Unclamped(i)>>>>)

\* PHIs wait until nothing else is queued.
Runnable(i) == i \in st.queue /\ (IsPhi(i) => \A j \in st.queue : IsPhi(j))

Seeded  == seeded = Len(prog.insts)
Running == Seeded /\ ~st.crashed

\* The front of a queue is visited; it leaves the queue when that is done.
Dispatch ==
  /\ Running /\ current = <<>>
  /\ \E i \in Insts :
       /\ Runnable(i)
       /\ current' = <<i>>
       /\ st' = Mark(st, Visit(i).marks)
       /\ up' = Visit(i).up
  /\ UNCHANGED <<prog, rets, seeded>>

\* A round of the loop of Return: joins with what other paths return, then
\* informs the callers.
Merged(old, new) ==
  [n \in DOMAIN new |-> IF n \in DOMAIN old THEN Join(new[n], old[n]) ELSE new[n]]

Callers(f, op) == Reverse(SetToSortSeq({i \in CallsOf(f) : Inst(i).op = op}, <))

InformMarks(f, values) ==
  FlattenSeq([n \in DOMAIN Callers(f, "call") |-> CallMarks(Callers(f, "call")[n], values)])

Return ==
  /\ Running /\ up # <<>>
  /\ LET f   == Head(up).fn
         old == IF f \in DOMAIN rets THEN rets[f] ELSE <<>>
         new == Merged(old, Head(up).rets)
     IN IF Crash \in Range(new)
          THEN /\ st' = [st EXCEPT !.crashed = TRUE]
               /\ UNCHANGED <<rets, up>>
        ELSE IF new = old
          THEN up' = Tail(up) /\ UNCHANGED <<st, rets>>
          ELSE /\ rets' = [g \in DOMAIN rets \cup {f} |-> IF g = f THEN new ELSE rets[g]]
               /\ st' = Mark(st, InformMarks(f, new))
               /\ up' = Tail(up) \o
                    [n \in DOMAIN Callers(f, "tcall") |->
                       [fn |-> Inst(Callers(f, "tcall")[n]).fn, rets |-> new]]
  /\ UNCHANGED <<prog, seeded, current>>

\* (mutant) The visited instruction is popped, and visited again.
PopAgain ==
  /\ Running /\ current # <<>> /\ up = <<>>
  /\ current' = <<>>
  /\ UNCHANGED <<prog, st, rets, seeded, up>>

\* The visited instruction is erased from inForwardQueue_ and popped.
Pop ==
  /\ Running /\ current # <<>> /\ up = <<>>
  /\ st' = [st EXCEPT !.queue = @ \ {current[1]}]
  /\ current' = <<>>
  /\ UNCHANGED <<prog, rets, seeded, up>>

Registers(p) == UNION {{<<i, n>> : n \in DOMAIN p.insts[i].tys} : i \in DOMAIN p.insts}

Init ==
  /\ prog \in Programs
  /\ st = [types |-> [r \in Registers(prog) |-> Ty("UNKNOWN")], queue |-> {},
           crashed |-> FALSE, diverged |-> FALSE]
  /\ rets = [f \in {} |-> <<>>]
  /\ seeded = 0
  /\ current = <<>>
  /\ up = <<>>

Solved == Seeded /\ current = <<>> /\ st.queue = {}

Done == (Solved \/ st.crashed) /\ UNCHANGED vars

Next == Seed \/ Dispatch \/ Return \/ Pop \/ Done

Spec == Init /\ [][Next]_vars /\ WF_vars(Next)

-----------------------------------------------------------------------------
(* Reference: the values registers may hold, one register at a time         *)

Integral(p) == \A i \in DOMAIN p.insts :
  p.insts[i].op \in {"const", "neg", "phi", "mov", "select", "eq", "ne",
                     "add", "sub", "mul", "and", "or", "xor", "shl", "shr"}

\* What the machine computes; a shift by Width or more has no value.
Compute(op, x, y) ==
  CASE op = "add" -> {Word((Num(x) + Num(y)) % 2 ^ Width)}
    [] op = "sub" -> {Word((2 ^ Width + Num(x) - Num(y)) % 2 ^ Width)}
    [] op = "mul" -> {Word((Num(x) * Num(y)) % 2 ^ Width)}
    [] op = "and" -> {x \cap y}
    [] op = "or"  -> {x \cup y}
    [] op = "xor" -> {(x \ y) \cup (y \ x)}
    [] op = "shl" -> IF Num(y) < Width THEN {Word(Num(x) * 2 ^ Num(y))} ELSE {}
    [] op = "shr" -> IF Num(y) < Width THEN {Word(Num(x) \div 2 ^ Num(y))} ELSE {}
    [] op = "eq"  -> {IF x = y THEN {0} ELSE {}}
    [] op = "ne"  -> {IF x = y THEN {} ELSE {0}}

\* held: pairs of an instruction and a word it may yield.
Collect(held, i) ==
  LET in(n) == {h[2] : h \in {g \in held : g[1] = Inst(i).args[n][1]}}
  IN CASE Inst(i).op = "const" -> {Inst(i).word}
       [] Inst(i).op = "neg"   -> SUBSET Bits
       [] Inst(i).op = "mov"   -> in(1)
       [] Inst(i).op \in {"phi", "select"} -> UNION {in(n) : n \in DOMAIN Inst(i).args}
       [] OTHER -> UNION {Compute(Inst(i).op, x, y) : x \in in(1), y \in in(2)}

RECURSIVE Collected(_)
Collected(held) ==
  LET next == UNION {{<<i, w>> : w \in Collect(held, i)} : i \in Insts}
  IN IF next = held THEN held ELSE Collected(next)

Matches(w, t) ==
  CASE t.k = "UNKNOWN" -> FALSE
    [] t.k = "INT" -> w \cap t.m.known = t.m.value
    [] OTHER -> TRUE

-----------------------------------------------------------------------------
(* Properties                                                               *)

\* When the queues are empty no instruction, visited again, would change the
\* type of a register or of a returned value: no notification was lost between
\* the two queues, the returns and the seeds.
ForwardFixpoint ==
  Solved => \A i \in Insts :
    Inst(i).op \in ValueOps \cup UnclampedOps \cup {"phi", "call", "tcall", "ret"} =>
      /\ \A n \in DOMAIN Visit(i).marks : Find(st, Visit(i).marks[n][1]) = Visit(i).marks[n][2]
      /\ \A n \in DOMAIN Visit(i).up :
           LET u == Visit(i).up[n]
           IN u.fn \in DOMAIN rets /\ Merged(rets[u.fn], u.rets) = rets[u.fn]

\* A register never holds a word whose bits differ from the bits the analysis
\* claims to know (EliminateTags replaces such registers by constants).
KnownBitsSound ==
  Solved /\ Integral(prog) =>
    \A h \in Collected({}) : Matches(h[2], st.types[<<h[1], 1>>])

\* The propagation ends: every program is solved.
Terminates == <>[](Solved \/ st.crashed)
=============================================================================
