-------------------------------- MODULE ISel --------------------------------
(***************************************************************************)
(* Selecting the instructions of a block (emitter/isel.cpp): every         *)
(* instruction is turned into nodes of a graph, and the graph into code in *)
(* an order that only the edges of the graph constrain.                    *)
(***************************************************************************)
EXTENDS TargetISel

CONSTANT Blocks   \* for every target, blocks [target, insts, out, phis, va, toc]

VARIABLES
  block,   \* the block
  pc,      \* the next instruction to lower
  dag,     \* the graph, and the exports that are pending
  left,    \* nodes still to be emitted
  regs,    \* the instruction whose value a machine register holds
  copied,  \* values that are in the registers of other blocks
  stale,   \* nodes that read a register which does not hold what they expect
  thrown   \* what was copied when an invoke was called

vars == <<block, pc, dag, left, regs, copied, stale, thrown>>

-----------------------------------------------------------------------------
(* Instructions of every target                                            *)

\* Divisions of x86 work in RAX and RDX.
LowerBinary(d, b, i) ==
  Computed(d, b, i, IF b.insts[i].k = "div" /\ b.target = "X86_64" THEN {Reg("AX", 0), Reg("DX", 0)} ELSE {})
LowerShift(d, b, i)  == Computed(d, b, i, {})
LowerUnary(d, b, i)  == Computed(d, b, i, {})
LowerSExt(d, b, i)   == Computed(d, b, i, {})   \* and the other conversions
LowerCmp(d, b, i)    == Computed(d, b, i, {})
LowerSelect(d, b, i) == Computed(d, b, i, {})
LowerUndef(d, b, i)  == Computed(d, b, i, {})
LowerALUO(d, b, i)   == Computed(d, b, i, {})
LowerLD(d, b, i)        == Chained(d, b, i)
LowerST(d, b, i)        == Chained(d, b, i)
LowerAlloca(d, b, i)    == Chained(d, b, i)
LowerVAStart(d, b, i)   == Chained(d, b, i)
LowerDebugTrap(d, b, i) == Chained(d, b, i)
LowerMov(d, b, i)   == IF b.insts[i].args = <<>> THEN d ELSE Export(d, b, i, GetValue(d, b, i, 1))
LowerGet(d, b, i)   ==
  CASE Is(b, i, "sp") -> Chained(d, b, i)
    [] Is(b, i, "address") -> Computed(d, b, i, {})
    [] OTHER -> GetRegArch(d, b, i)

LowerCallSite(d, b, i) ==
  CASE b.target = "X86_64"  -> X86CallSite(d, b, i)
    [] b.target = "AArch64" -> AArch64CallSite(d, b, i)
    [] b.target = "RISCV"   -> RISCVCallSite(d, b, i)
    [] b.target = "PPC"     -> PPCCallSite(d, b, i)

Branch(d, i, uses) == SetRoot(Add(d, LAMBDA e : Node(i, "br", e.chain, uses)))

LowerCall(d, b, i)      == Branch(GetExportRoot(LowerCallSite(d, b, i)), i, {})
LowerFrameCall(d, b, i) == Branch(GetExportRoot(LowerCallSite(d, b, i)), i, {})
LowerTailCall(d, b, i) == LowerCallSite(d, b, i)

Label(d, i) == SetRoot(Add(d, LAMBDA e : Node(i, "label", e.chain, {})))

\* (mutant) Nothing is exported before the call.
LowerInvokeLate(d, b, i) ==
  LET called == LowerCallSite(Label(Start(d), i), b, i)
  IN Branch(GetExportRoot(Label(Start(called), i)), i, {})

\* Numbers are exported before the call, which may not return; the values of the
\* collector and the result after it.
LowerInvoke(d, b, i) ==
  LET called == LowerCallSite(Label(GetPrimitiveExportRoot(d), i), b, i)
  IN Branch(GetExportRoot(Label(Start(called), i)), i, {})

LowerJUMP(d, b, i) == Branch(GetExportRoot(d), i, {})
LowerJUMP_COND(d, b, i) ==
  IF Is(b, i, "same") THEN Branch(GetExportRoot(d), i, {})
  ELSE Branch(Branch(GetExportRoot(d), i, Operands(d, b, i)), i, {})

\* The index goes through a virtual register.
LowerSwitch(d, b, i) ==
  LET copy  == Unglued(CopyToVReg(Unglued(GetExportRoot(d)), i, GetValue(d, b, i, 1)))
      index == Unglued(CopyFromVReg(copy, i))
  IN SetRoot(Add(index, LAMBDA e : Node(i, "br", e.chain, {e.chain})))

LowerTrap(d, b, i) == Branch(Start(d), i, {})

\* Constants that flow into a PHI get a register here.
HandleSuccessorPHI(d, b) ==
  IF PhiConst \in b.phis THEN [d EXCEPT !.prim = @ \cup {PhiConst}] ELSE d

Terminators == {"call", "framecall", "tail", "invoke", "return", "raise", "spawn", "jump", "cond", "switch", "trap"}

LowerInst(d, b, i) ==
  LET k == b.insts[i].k
  IN CASE k \in {"phi", "arg"} -> d
       [] k \in {"alu", "div"} -> LowerBinary(d, b, i)
       [] k = "shift" -> LowerShift(d, b, i)
       [] k = "unary" -> LowerUnary(d, b, i)
       [] k = "ext"   -> LowerSExt(d, b, i)
       [] k = "cmp"   -> LowerCmp(d, b, i)
       [] k = "select" -> LowerSelect(d, b, i)
       [] k = "undef" -> LowerUndef(d, b, i)
       [] k = "aluo"  -> LowerALUO(d, b, i)
       [] k = "mov"   -> LowerMov(d, b, i)
       [] k = "get"   -> LowerGet(d, b, i)
       [] k = "ld"    -> LowerLD(d, b, i)
       [] k = "st"    -> LowerST(d, b, i)
       [] k = "alloca" -> LowerAlloca(d, b, i)
       [] k = "vastart" -> LowerVAStart(d, b, i)
       [] k = "debugtrap" -> LowerDebugTrap(d, b, i)
       [] k = "set"   -> OnTarget(b, X86Set(d, b, i), AArch64Set(d, b, i), RISCVSet(d, b, i), PPCSet(d, b, i))
       [] k = "syscall" -> OnTarget(b, X86Syscall(d, b, i), AArch64Syscall(d, b, i), RISCVSyscall(d, b, i), PPCSyscall(d, b, i))
       [] k = "clone" -> OnTarget(b, X86Clone(d, b, i), AArch64Clone(d, b, i), RISCVClone(d, b, i), PPCClone(d, b, i))
       [] k = "landingpad" -> LowerPad(d, b, i)
       [] k = "call"   -> LowerCall(d, b, i)
       [] k = "framecall" -> LowerFrameCall(d, b, i)
       [] k = "tail"   -> LowerTailCall(d, b, i)
       [] k = "invoke" -> LowerInvoke(d, b, i)
       [] k = "return" -> OnTarget(b, X86Return(d, b, i), AArch64Return(d, b, i), RISCVReturn(d, b, i), PPCReturn(d, b, i))
       [] k = "raise"  -> OnTarget(b, X86Raise(d, b, i), AArch64Raise(d, b, i), RISCVRaise(d, b, i), PPCRaise(d, b, i))
       [] k = "spawn"  -> X86Spawn(d, b, i)
       [] k = "jump"   -> LowerJUMP(d, b, i)
       [] k = "cond"   -> LowerJUMP_COND(d, b, i)
       [] k = "switch" -> LowerSwitch(d, b, i)
       [] k = "trap"   -> LowerTrap(d, b, i)
       [] OTHER -> OnTarget(b, X86Arch(d, b, i), AArch64Arch(d, b, i), RISCVArch(d, b, i), PPCArch(d, b, i))

-----------------------------------------------------------------------------
(* Lowering a block, then emitting it                                      *)

Init ==
  /\ \E t \in DOMAIN Blocks : block \in Blocks[t]
  /\ pc = 1
  /\ dag = LowerArguments(Empty(block), block)
  /\ left = {}
  /\ regs = <<>>
  /\ copied = {}
  /\ stale = {}
  /\ thrown = {}

Lower ==
  /\ pc <= Len(block.insts)
  /\ dag' = LowerInst(IF block.insts[pc].k \in Terminators THEN HandleSuccessorPHI(dag, block) ELSE dag, block, pc)
  /\ left' = IF pc = Len(block.insts) THEN Reachable(dag') ELSE {}
  /\ pc' = pc + 1
  /\ UNCHANGED <<block, regs, copied, stale, thrown>>

KindOf(n) == IF dag.nodes[n].inst = 0 THEN "entry" ELSE block.insts[dag.nodes[n].inst].k

\* What emitting one more node does to the registers.
Emitted(s, n) ==
  LET node == dag.nodes[n]
      held == {r \in DOMAIN s.regs : s.regs[r] = node.inst}
  IN [regs   |-> [r \in DOMAIN s.regs \cup node.writes |-> IF r \in node.writes THEN node.inst ELSE s.regs[r]],
      copied |-> s.copied \cup ({node.copies} \ {0}),
      stale  |-> IF node.reads \subseteq held THEN s.stale ELSE s.stale \cup {n},
      thrown |-> IF node.op = "effect" /\ KindOf(n) = "invoke" THEN s.copied ELSE s.thrown]

\* CodeGenAndEmitDAG: the scheduler may take any node whose predecessors are
\* out, and emits what is glued to it with it.
Schedule ==
  /\ pc > Len(block.insts)
  /\ \E n \in left :
       LET group == SelectSeq(Group(dag, n), LAMBDA m : m \in left)
       IN /\ dag.nodes[n].glue = 0
          /\ \A m \in Range(group) : Before(dag.nodes[m]) \cap left \subseteq Range(group)
          /\ LET s == FoldLeft(Emitted, [regs |-> regs, copied |-> copied, stale |-> stale, thrown |-> thrown], group)
             IN /\ regs' = s.regs
                /\ copied' = s.copied
                /\ stale' = s.stale
                /\ thrown' = s.thrown
          /\ left' = left \ Range(group)
  /\ UNCHANGED <<block, pc, dag>>

Finished == pc > Len(block.insts) /\ left = {}

Done == Finished /\ UNCHANGED vars

Next == Lower \/ Schedule \/ Done

Spec == Init /\ [][Next]_vars

-----------------------------------------------------------------------------
(* Properties                                                              *)

\* The compare-and-exchange of RISC-V and the conditional store of PowerPC are
\* built off the chain: only who uses their result makes them happen.
OffChain(k) == <<block.target, k>> \in {<<"RISCV", "cmpxchg">>, <<"PPC", "storecond">>}

\* The effects of instructions, arranged in the order of the block.
Effects == {n \in DOMAIN dag.nodes : dag.nodes[n].op = "effect"}
InOrder(ns) ==
  pc > Len(block.insts) =>
    \A m, n \in ns : dag.nodes[m].inst < dag.nodes[n].inst => (n \notin left => m \notin left)
Kept(ns) == Finished => ns \subseteq Reachable(dag)

\* Whatever order the scheduler takes, loads, stores, calls and accesses of the
\* hardware happen in the order of the program, and none is left out: the root
\* passed from handler to handler reaches every one of them.
EffectsOrdered ==
  LET chained == {n \in Effects : ~OffChain(KindOf(n))} IN InOrder(chained) /\ Kept(chained)

\* What an instruction finds in a machine register is what was put there for it:
\* nothing is emitted between a copy to a register and its reader that changes it.
OperandsKept == stale = {}

\* When a block is left, what other blocks read is in their registers; when an
\* invoke throws, the numbers are.
ExportsReach ==
  /\ Finished => block.out \cup block.phis \subseteq copied /\ ~HasPendingExports(dag)
  /\ Finished /\ block.insts[Len(block.insts)].k = "invoke" =>
       {i \in block.out : ~block.insts[i].v64 /\ i < Len(block.insts)} \subseteq thrown
=============================================================================
