----------------------------- MODULE TargetISel -----------------------------
(***************************************************************************)
(* The nodes each target builds for calls, system calls, exceptions and    *)
(* its own instructions (X86ISel, AArch64ISel, RISCVISel and PPCISel).     *)
(*                                                                         *)
(* The first operand of a call is the function called; its results are one *)
(* value.  Registers are those of CallLowering.                            *)
(*                                                                         *)
(* The graph the instruction selector builds for a block, and the values   *)
(* it has to leave in registers for other blocks (emitter/isel.cpp).       *)
(*                                                                         *)
(* A node is ordered after the node of its chain, the nodes whose values   *)
(* it uses and the one it is glued to; nothing else orders the nodes.  The *)
(* builder d holds the graph and, in chain and glue, what the handlers of  *)
(* the code keep in local variables of these names; 0 is the entry token   *)
(* as a chain, no glue as a glue, and a value made outside the block.      *)
(***************************************************************************)
EXTENDS Integers, Sequences, SequencesExt, FiniteSets

\* Effects are what the program observes.  reads and writes are machine
\* registers, copies is the value of another block's register that is set.
Node(i, op, chain, uses) ==
  [inst |-> i, op |-> op, chain |-> chain, uses |-> uses \ {0}, glue |-> 0,
   reads |-> {}, writes |-> {}, copies |-> 0]

\* What an operand of a PHI is called when it is a constant.
PhiConst == -1

Empty(b) ==
  [nodes |-> <<>>, root |-> 0, values |-> [i \in DOMAIN b.insts |-> 0],
   prim |-> {}, val |-> {}, chain |-> 0, glue |-> 0]

\* F applied to a builder that is computed once.
Then(d, F(_)) == CHOOSE r \in {F(e) : e \in {x \in {d} : x = x}} : TRUE

\* Handlers are applied to one builder after the other.
InTurn(F(_, _), d, s) == FoldLeft(LAMBDA e, x : Then(F(e, x), LAMBDA y : y), d, s)

\* On is a node made from the builder it is added to.
Add(d, On(_)) ==
  Then(d, LAMBDA e : [e EXCEPT !.nodes = Append(@, On(e)), !.chain = Len(e.nodes) + 1])
Glue(d, On(_)) ==
  Then(d, LAMBDA e : [e EXCEPT !.nodes = Append(@, [On(e) EXCEPT !.glue = e.glue]),
                               !.chain = Len(e.nodes) + 1, !.glue = Len(e.nodes) + 1])

Start(d)   == Then(d, LAMBDA e : [e EXCEPT !.chain = e.root, !.glue = 0])
Unglued(d) == [d EXCEPT !.glue = 0]
SetRoot(d) == Then(d, LAMBDA e : [e EXCEPT !.root = e.chain, !.glue = 0])

CopyToReg(d, i, reg, v)  == Glue(d, LAMBDA e : [Node(i, "to", e.chain, {v}) EXCEPT !.writes = {reg}])
CopyToVReg(d, i, v)      == Glue(d, LAMBDA e : Node(i, "to", e.chain, {v}))
CopyFromReg(d, i, reg)   == Glue(d, LAMBDA e : [Node(i, "from", e.chain, {}) EXCEPT !.reads = {reg}])
CopyFromVReg(d, i)       == Glue(d, LAMBDA e : Node(i, "from", e.chain, {}))
Effect(d, i, vals, reads, writes) ==
  Glue(d, LAMBDA e : [Node(i, "effect", e.chain, vals) EXCEPT !.reads = reads, !.writes = writes])

\* GetValue: values of other blocks and constants are made when they are used.
GetValue(d, b, i, n) ==
  LET a == b.insts[i].args IN IF n <= Len(a) /\ a[n] > 0 THEN d.values[a[n]] ELSE 0
Operands(d, b, i) == {GetValue(d, b, i, n) : n \in DOMAIN b.insts[i].args}
Arguments(d, b, i) == [n \in DOMAIN b.insts[i].args |-> GetValue(d, b, i, n)]

\* A value that has a register for other blocks is to be copied there.
Export(d, b, i, v) ==
  LET v64 == b.insts[i].v64
  IN [d EXCEPT !.values[i] = v,
               !.val  = IF i \in b.out /\ v64 THEN @ \cup {i} ELSE @,
               !.prim = IF i \in b.out /\ ~v64 THEN @ \cup {i} ELSE @]
ExportResult(d, b, i) == Then(d, LAMBDA e : Export(e, b, i, e.chain))

\* Copies into the registers of other blocks hang off the entry; a factor joins
\* them to the root, unless one of the values was computed right after the root.
ExportRoot(d, exports) ==
  LET value(x)    == IF x = PhiConst THEN 0 ELSE d.values[x]
      exportsRoot == \E x \in exports : value(x) # 0 /\ d.nodes[value(x)].chain = d.root
      copied      == InTurn(LAMBDA e, x : Add(e, LAMBDA f : [Node(0, "to", 0, {value(x)}) EXCEPT !.copies = x]),
                            d, SetToSeq(exports))
      copies(e)   == Len(d.nodes) + 1 .. Len(e.nodes)
      joined      == Add(copied, LAMBDA e : Node(0, "factor", 0, copies(e) \cup (IF exportsRoot THEN {} ELSE {d.root})))
  IN IF exports = {} THEN Start(d) ELSE SetRoot(joined)

GetPrimitiveExportRoot(d) == Then(d, LAMBDA e : [ExportRoot(e, e.prim) EXCEPT !.prim = {}])

GetExportRoot(d) == Then(d, LAMBDA e : [ExportRoot(e, e.prim \cup e.val) EXCEPT !.prim = {}, !.val = {}])

HasPendingExports(d) == d.prim \cup d.val # {}

-----------------------------------------------------------------------------
(* Nodes that most handlers build                                          *)

\* (mutant) The node hangs off the root, but the root is not moved to it.
ChainedAside(d, b, i) == ExportResult(Effect(Start(d), i, Operands(d, b, i), {}, {}), b, i)

\* LowerLD and the handlers alike: a node on the chain that becomes the root.
Chained(d, b, i) == SetRoot(ExportResult(Effect(Start(d), i, Operands(d, b, i), {}, {}), b, i))

Computed(d, b, i, writes) ==
  ExportResult(Add(d, LAMBDA e : [Node(i, "value", 0, Operands(e, b, i)) EXCEPT !.writes = writes]), b, i)

\* Operands in virtual registers, glued to assembly code that reads them.
Assembly(d, b, i) ==
  LET copied == InTurn(LAMBDA e, v : CopyToVReg(e, i, v), Start(d), Arguments(d, b, i))
  IN SetRoot(Effect(copied, i, {}, {}, {}))

\* Assembly code that leaves its result in a virtual register.
AssemblyResult(d, b, i) ==
  SetRoot(ExportResult(CopyFromVReg(Effect(Start(d), i, {}, {}, {}), i), b, i))

-----------------------------------------------------------------------------
(* The schedule: any order of the nodes the root depends on that keeps     *)
(* glued nodes together (LLVM's list scheduler)                            *)

Before(node) == (node.uses \cup {node.chain, node.glue}) \ {0}

Reachable(d) ==
  LET step(n, set) == IF n \in set THEN set \cup Before(d.nodes[n]) ELSE set
  IN FoldLeft(LAMBDA set, n : step(n, set), {d.root} \ {0},
              [n \in DOMAIN d.nodes |-> Len(d.nodes) + 1 - n])

\* The nodes glued to n, one after the other.
Group(d, n) ==
  FoldLeft(LAMBDA seq, m : IF d.nodes[m].glue = seq[Len(seq)] THEN Append(seq, m) ELSE seq,
           <<n>>, [k \in 1 .. Len(d.nodes) - n |-> n + k])

-----------------------------------------------------------------------------
Conv == INSTANCE CallLowering
          WITH Sites <- {}, ByValSize <- 8, ByValAlign <- 8, site <- 0, sig <- 0, call <- 0, func <- 0

Reg(name, n) == <<name, n>>
Named(names) == Conv!Named(names)
X(first, last) == Conv!Numbered("X", first, last)

GetStackRegister(target) == IF target = "X86_64" THEN Reg("SP", 0) ELSE Reg("X sp", 0)
BaseRegister == Reg("BP", 0)

\* The registers a call may change.
Clobbered(target) == Range(Conv!ArgGPRs(target, "C")) \cup Range(Conv!RetGPRs(target, "C"))
                       \cup IF target = "X86_64" THEN Range(Named(<<"AX", "R10">>)) ELSE {}

-----------------------------------------------------------------------------
(* Calls                                                                   *)

Is(b, i, opt) == opt \in b.insts[i].opts
IsTail(b, i)  == b.insts[i].k = "tail"

\* Arguments in registers; with "stack" the last one does not get one.
InRegs(d, b, i) ==
  LET regs == Conv!ArgGPRs(b.target, b.insts[i].conv)
      n    == Len(b.insts[i].args) - (IF Is(b, i, "stack") THEN 2 ELSE 1)
  IN [k \in 1 .. n |-> <<regs[k], GetValue(d, b, i, k + 1)>>]

\* Arguments on the stack are stored side by side, below the stack pointer read
\* at the start of the call; without any, the chain is left alone.
LowerCallArguments(d, b, i) ==
  IF ~Is(b, i, "stack") THEN d
  ELSE LET arg(e) == GetValue(e, b, i, Len(b.insts[i].args))
           sp(e)  == Add(e, LAMBDA f : Node(i, "from", e.chain, {}))
           store(e) == Add(sp(e), LAMBDA f : Node(i, "store", e.chain, {f.chain, arg(e)}))
       IN Unglued(Add(Then(d, store), LAMBDA f : Node(i, "factor", 0, {f.chain})))

\* Results are read off the entry, but glued to the call.
LowerReturns(d, b, i) ==
  LET regs == Conv!RetGPRs(b.target, b.insts[i].conv)
  IN IF Is(b, i, "unused") THEN d
     ELSE Glue(d, LAMBDA e : [Node(i, "from", 0, {}) EXCEPT !.reads = {regs[1]}])

\* The collector's frame holds the values it may move that are live after the call.
LowerGCFrame(d, b, i) ==
  LET live == {j \in b.out : b.insts[j].v64 /\ j # i}
  IN Glue(d, LAMBDA e : Node(i, "gcframe", e.chain, {e.values[j] : j \in live}))

CallSeqStart(d, i) == Unglued(Add(d, LAMBDA e : Node(i, "start", e.chain, {})))
CallSeqEnd(d, i)   == Glue(d, LAMBDA e : Node(i, "end", e.chain, {}))

CopyRegs(d, i, regs) == InTurn(LAMBDA e, r : CopyToReg(e, i, r[1], r[2]), Unglued(d), regs)
RegsOf(regs) == {regs[n][1] : n \in DOMAIN regs}

\* A tail call that needs room on the stack becomes a call and a return.
Adjusted(b, i) == IsTail(b, i) /\ ~Is(b, i, "stack")

AfterCall(d, b, i) ==
  LET framed == IF Is(b, i, "gc") THEN LowerGCFrame(d, b, i) ELSE d
      ended  == LowerReturns(CallSeqEnd(framed, i), b, i)
      result == Conv!RetGPRs(b.target, b.insts[i].conv)[1]
  IN SetRoot(CASE IsTail(b, i) -> Add(ended, LAMBDA e : [Node(i, "br", e.chain, {}) EXCEPT !.reads = {result}])
               [] Is(b, i, "unused") -> ended
               [] OTHER -> ExportResult(ended, b, i))

\* A frame call runs on the stack it is given: the stack pointer is kept in the
\* base register.
Entered(d, b, i) ==
  LET sp == Glue(d, LAMBDA e : Node(i, "from", e.chain, {}))
      bp == Then(sp, LAMBDA e : CopyToReg(e, i, BaseRegister, e.chain))
  IN CopyToReg(bp, i, GetStackRegister(b.target), GetValue(d, b, i, 2))
Left(d, b, i) ==
  Then(CopyFromReg(d, i, BaseRegister), LAMBDA e : CopyToReg(e, i, GetStackRegister(b.target), e.chain))

TailOrCall(d, b, i, tail, regs) ==
  LET frame   == b.insts[i].k = "framecall"
      node(e) == Effect(e, i, {GetValue(e, b, i, 1)}, RegsOf(regs), IF tail THEN {} ELSE Clobbered(b.target))
  IN CASE tail  -> SetRoot(Then(d, node))
       [] frame -> AfterCall(Left(Then(Then(d, LAMBDA e : Entered(e, b, i)), node), b, i), b, i)
       [] OTHER -> AfterCall(Then(d, node), b, i)

\* The number of vector registers of a variadic call in AL, the function a call
\* from OCaml to C goes to in RAX.
X86CallArgs(d, b, i) ==
  InRegs(d, b, i)
    \o (IF Is(b, i, "vararg") THEN <<<<Reg("AX", 0), 0>>>> ELSE <<>>)
    \o (IF Is(b, i, "trampoline") THEN <<<<Reg("AX", 0), GetValue(d, b, i, 1)>>>> ELSE <<>>)

X86CallSite(d, b, i) ==
  LET tail  == Adjusted(b, i)
      start == LowerCallArguments(IF tail THEN Start(d) ELSE CallSeqStart(Start(d), i), b, i)
      regs  == X86CallArgs(d, b, i)
  IN TailOrCall(CopyRegs(start, i, regs), b, i, tail, regs)

AArch64CallArgs(d, b, i) ==
  InRegs(d, b, i) \o (IF Is(b, i, "trampoline") THEN <<<<Reg("X", 15), GetValue(d, b, i, 1)>>>> ELSE <<>>)
AArch64CallSite(d, b, i) ==
  LET tail  == Adjusted(b, i)
      start == LowerCallArguments(IF tail THEN Start(d) ELSE CallSeqStart(Start(d), i), b, i)
      regs  == AArch64CallArgs(d, b, i)
  IN TailOrCall(CopyRegs(start, i, regs), b, i, tail, regs)

RISCVCallArgs(d, b, i) ==
  InRegs(d, b, i) \o (IF Is(b, i, "trampoline") THEN <<<<Reg("X", 7), GetValue(d, b, i, 1)>>>> ELSE <<>>)
RISCVCallSite(d, b, i) ==
  LET tail  == Adjusted(b, i)
      start == LowerCallArguments(IF tail THEN Start(d) ELSE CallSeqStart(Start(d), i), b, i)
      regs  == RISCVCallArgs(d, b, i)
  IN TailOrCall(CopyRegs(start, i, regs), b, i, tail, regs)

\* The pointer to the table of contents, saved below the stack pointer.
StoreTOC(d, i, op) ==
  Add(Add(d, LAMBDA e : Node(i, "from", e.chain, {})), LAMBDA e : Node(i, op, e.chain, {e.chain}))

\* Only direct calls of functions in the same object can be tail calls; indirect
\* ones save the table of contents and go through the count register.
PPCTail(b, i) == Adjusted(b, i) /\ ~Is(b, i, "indirect") /\ ~Is(b, i, "stub")
PPCCallArgs(d, b, i) ==
  (CASE Is(b, i, "trampoline") -> <<<<Reg("X", 25), GetValue(d, b, i, 1)>>>>
     [] Is(b, i, "indirect")   -> <<<<Reg("X", 12), GetValue(d, b, i, 1)>>>>
     [] OTHER -> <<>>) \o InRegs(d, b, i)
PPCCallSite(d, b, i) ==
  LET tail  == PPCTail(b, i)
      start == LowerCallArguments(IF tail THEN Start(d) ELSE CallSeqStart(Start(d), i), b, i)
      toc   == IF Is(b, i, "indirect") THEN StoreTOC(start, i, "store") ELSE start
      regs  == PPCCallArgs(d, b, i)
      sent  == CopyRegs(toc, i, regs)
      ctr   == IF Is(b, i, "indirect") THEN CopyToVReg(sent, i, GetValue(d, b, i, 1)) ELSE sent
  IN TailOrCall(ctr, b, i, tail, regs)

-----------------------------------------------------------------------------
(* System calls                                                            *)

Results(d, b, i, reg) ==
  SetRoot(IF Is(b, i, "unused") THEN d ELSE ExportResult(CopyFromReg(d, i, reg), b, i))

\* The number of the call is the first operand.
Numbered(d, b, i, regs, number) ==
  [k \in 1 .. Len(b.insts[i].args) - 1 |-> <<regs[k], GetValue(d, b, i, k + 1)>>]
    \o <<<<number, GetValue(d, b, i, 1)>>>>

\* (mutant) The copies are only chained, not glued to the system call.
X86SyscallUnglued(d, b, i) ==
  LET regs  == Numbered(d, b, i, Named(<<"DI", "SI", "DX", "R10", "R8", "R9">>), Reg("AX", 0))
      sent  == InTurn(LAMBDA e, r : Unglued(CopyToReg(e, i, r[1], r[2])), Start(d), regs)
  IN Results(Effect(sent, i, {}, RegsOf(regs), {Reg("AX", 0)}), b, i, Reg("AX", 0))

X86Syscall(d, b, i) ==
  LET regs == Numbered(d, b, i, Named(<<"DI", "SI", "DX", "R10", "R8", "R9">>), Reg("AX", 0))
  IN Results(Effect(CopyRegs(Start(d), i, regs), i, {}, RegsOf(regs), {Reg("AX", 0)}), b, i, Reg("AX", 0))

\* Chained copies, not glued to each other nor to the system call.
SyscallUnglued(d, b, i, regs, ret) ==
  LET sent == InTurn(LAMBDA e, r : Unglued(CopyToReg(e, i, r[1], r[2])), Start(d), regs)
  IN Results(Effect(sent, i, {}, RegsOf(regs), {ret}), b, i, ret)
AArch64Syscall(d, b, i) ==
  SyscallUnglued(d, b, i, Numbered(d, b, i, X(0, 5), Reg("X", 8)), Reg("X", 0))
RISCVSyscall(d, b, i) ==
  SyscallUnglued(d, b, i, Numbered(d, b, i, X(10, 15), Reg("X", 17)), Reg("X", 10))

\* The number first, and the registers the kernel does not keep.
PPCSyscall(d, b, i) ==
  LET args == Numbered(d, b, i, X(3, 8), Reg("X", 0))
      regs == <<args[Len(args)]>> \o SubSeq(args, 1, Len(args) - 1)
      kept == CopyRegs(Start(d), i, regs)
  IN Results(Effect(kept, i, {}, RegsOf(regs), Range(X(3, 12))), b, i, Reg("X", 3))

\* Every copy hangs off the root and waits for the one before; only the last is
\* glued to the code that makes the thread.  The function and its argument go to
\* virtual registers.
Clone(d, b, i, regs, ret) ==
  LET copy(e, k) == [Node(i, "to", e.root, {GetValue(e, b, i, k), IF k = 1 THEN 0 ELSE e.chain})
                       EXCEPT !.writes = IF k <= 2 THEN {} ELSE {regs[k - 2]}]
      sent == InTurn(LAMBDA e, k : Glue(Unglued(e), LAMBDA f : copy(f, k)), Start(d), [k \in 1 .. Len(regs) + 2 |-> k])
  IN SetRoot(ExportResult(CopyFromReg(Effect(sent, i, {}, Range(regs), {ret}), i, ret), b, i))
X86Clone(d, b, i)     == Clone(d, b, i, Named(<<"DI", "SI", "DX", "R10", "R8">>), Reg("AX", 0))
AArch64Clone(d, b, i) == Clone(d, b, i, X(0, 4), Reg("X", 0))
RISCVClone(d, b, i)   == Clone(d, b, i, X(10, 14), Reg("X", 10))
PPCClone(d, b, i)     == Clone(d, b, i, X(3, 7), Reg("X", 3))

-----------------------------------------------------------------------------
(* Returns, raises, landing pads and arguments                             *)

\* LowerRets and LowerRaises.
LowerRets(d, b, i, values) ==
  CopyRegs(d, i, [k \in DOMAIN values |-> <<Conv!RetGPRs(b.target, b.insts[i].conv)[k], values[k]>>])
RetRegs(b, i, values) ==
  {Conv!RetGPRs(b.target, b.insts[i].conv)[k] : k \in DOMAIN values}

Return(d, b, i, values) ==
  SetRoot(Glue(LowerRets(GetExportRoot(d), b, i, values),
               LAMBDA e : [Node(i, "br", e.chain, {}) EXCEPT !.reads = RetRegs(b, i, values)]))
\* Interrupt handlers of x86 return nothing.
X86Return(d, b, i)     == Return(d, b, i, IF b.insts[i].conv = "INTR" THEN <<>> ELSE Arguments(d, b, i))
AArch64Return(d, b, i) == Return(d, b, i, Arguments(d, b, i))
RISCVReturn(d, b, i)   == Return(d, b, i, Arguments(d, b, i))
PPCReturn(d, b, i)     == Return(d, b, i, Arguments(d, b, i))

\* The stack pointer and the address to jump to, then the values raised, whose
\* copies hang off the root but are glued to the first two.
Raise(d, b, i) ==
  LET values == SubSeq(Arguments(d, b, i), 3, Len(b.insts[i].args))
      stk    == CopyToVReg(Start(d), i, GetValue(d, b, i, 1))
      pc     == CopyToVReg(stk, i, GetValue(d, b, i, 2))
      regs   == [k \in DOMAIN values |-> <<Conv!RetGPRs(b.target, b.insts[i].conv)[k], values[k]>>]
      sent   == InTurn(LAMBDA e, r : CopyToReg(e, i, r[1], r[2]), [pc EXCEPT !.chain = d.root], regs)
  IN SetRoot(Glue(sent, LAMBDA e : [Node(i, "br", e.chain, {}) EXCEPT !.reads = RegsOf(regs)]))

X86Raise(d, b, i)     == Raise(d, b, i)
AArch64Raise(d, b, i) == Raise(d, b, i)
RISCVRaise(d, b, i)   == Raise(d, b, i)
PPCRaise(d, b, i)     == Raise(d, b, i)
\* A raise of no values; other targets have none.
X86Spawn(d, b, i)     == Raise(d, b, i)

\* The values of a landing pad, and arguments, are in registers of the block.
LowerPad(d, b, i) ==
  LET label == SetRoot(Add(Start(d), LAMBDA e : Node(i, "label", e.chain, {})))
  IN ExportResult(Add(label, LAMBDA e : Node(i, "value", 0, {})), b, i)
LowerArgs(d, b) ==
  InTurn(LAMBDA e, i : IF b.insts[i].k # "arg" THEN e
                       ELSE ExportResult(Add(e, LAMBDA f : Node(i, "value", 0, {})), b, i),
         d, [i \in DOMAIN b.insts |-> i])

\* Registers that may hold variadic arguments are stored side by side before
\* anything else; the effects of no instruction.  RISC-V chains the stores to
\* the root, the others to the copies they store.
SaveRegs(d, onRoot) ==
  LET save(e)  == Add(Add(e, LAMBDA f : Node(0, "from", f.root, {})),
                      LAMBDA f : Node(0, "effect", IF onRoot THEN f.root ELSE f.chain, {f.chain}))
      saves(e) == {n \in DOMAIN e.nodes : e.nodes[n].op = "effect"}
  IN SetRoot(Add(save(save(d)), LAMBDA e : Node(0, "factor", 0, saves(e))))
X86VASetup(d)     == SaveRegs(d, FALSE)
AArch64VASetup(d) == SaveRegs(d, FALSE)
RISCVVASetup(d)   == SaveRegs(d, TRUE)
PPCVASetup(d)     == SaveRegs(d, FALSE)
OnTarget(b, x86, aarch64, riscv, ppc) ==
  CASE b.target = "X86_64" -> x86 [] b.target = "AArch64" -> aarch64
    [] b.target = "RISCV" -> riscv [] b.target = "PPC" -> ppc
LowerVASetup(d, b) == OnTarget(b, X86VASetup(d), AArch64VASetup(d), RISCVVASetup(d), PPCVASetup(d))

NeedsTOCSave(b) == b.target = "PPC" /\ b.toc

LowerArguments(d, b) ==
  LET args == LowerArgs(IF b.va THEN LowerVASetup(d, b) ELSE d, b)
  IN IF NeedsTOCSave(b) THEN SetRoot(StoreTOC(Start(args), 0, "effect")) ELSE args

-----------------------------------------------------------------------------
(* Instructions of the targets                                             *)

\* Operands in machine registers, glued to an instruction that has its result
\* in another.
Machine(d, b, i, regs, writes) ==
  LET sent == CopyRegs(Start(d), i, [k \in DOMAIN regs |-> <<regs[k], GetValue(d, b, i, k)>>])
  IN Effect(sent, i, {}, Range(regs), writes)

X86CpuId(d, b, i) ==
  SetRoot(ExportResult(CopyFromReg(Machine(d, b, i, Named(<<"AX", "CX">>), Range(Named(<<"AX", "BX", "CX", "DX">>))),
                                   i, Reg("AX", 0)), b, i))
X86In(d, b, i) ==
  SetRoot(ExportResult(CopyFromReg(Machine(d, b, i, Named(<<"DX">>), {Reg("AX", 0)}), i, Reg("AX", 0)), b, i))
X86Out(d, b, i)   == SetRoot(Machine(d, b, i, Named(<<"DX", "AX">>), {}))
X86WrMsr(d, b, i) == SetRoot(Machine(d, b, i, Named(<<"CX", "AX", "DX">>), {}))
X86RdMsr(d, b, i) ==
  LET low == CopyFromReg(Machine(d, b, i, Named(<<"CX">>), Range(Named(<<"AX", "DX">>))), i, Reg("AX", 0))
  IN SetRoot(CopyFromReg(ExportResult(low, b, i), i, Reg("DX", 0)))

X86CmpXchg(d, b, i) == Chained(d, b, i)
X86Xchg(d, b, i)    == Chained(d, b, i)
X86Counters == {"fnclex", "rdtsc", "mfence"}
X86Fpu      == {"fldcw", "fnstcw"}
X86Hints    == {"pause", "yield", "sti", "cli", "spin", "hlt"}
X86Tables   == {"lgdt", "lidt", "ltr"}
X86Contexts == {"xsave", "xrstor"}

\* LowerSet: the stack pointer itself, other registers through assembly code.
LowerSetSP(d, b, i) ==
  SetRoot(Effect(Start(d), i, Operands(d, b, i), {}, {GetStackRegister(b.target)}))
X86Set(d, b, i)     == IF Is(b, i, "sp") THEN LowerSetSP(d, b, i) ELSE Assembly(d, b, i)
AArch64Set(d, b, i) == IF Is(b, i, "sp") THEN LowerSetSP(d, b, i) ELSE Assembly(d, b, i)
RISCVSet(d, b, i)   == IF Is(b, i, "sp") THEN LowerSetSP(d, b, i) ELSE Assembly(d, b, i)
PPCSet(d, b, i) ==
  CASE Is(b, i, "sp") -> LowerSetSP(d, b, i)
    [] Is(b, i, "fs") -> Chained(d, b, i)
    [] OTHER -> Assembly(d, b, i)

\* GetRegArch: the register of the thread is read as it is on two targets.
GetRegArch(d, b, i) ==
  IF Is(b, i, "fs") /\ b.target \in {"RISCV", "PPC"} THEN Chained(d, b, i) ELSE AssemblyResult(d, b, i)

RISCVXchg(d, b, i) == Chained(d, b, i)
\* The exchange hangs off the root, which stays where it was.
RISCVCmpXchg(d, b, i) == ExportResult(Effect(Start(d), i, Operands(d, b, i), {}, {}), b, i)

PPCLoadLink(d, b, i) ==
  LET sent == CopyToVReg(Start(d), i, GetValue(d, b, i, 1))
  IN SetRoot(ExportResult(CopyFromVReg(Effect(sent, i, {}, {}, {}), i), b, i))
\* The address and the value chained, the code glued to the value, a comparison
\* of the flags it returns; the root stays where it was.
PPCStoreCond(d, b, i) ==
  LET addr  == Unglued(CopyToVReg(Start(d), i, GetValue(d, b, i, 1)))
      value == Glue(addr, LAMBDA e : Node(i, "to", e.root, {GetValue(d, b, i, 2), e.chain}))
      flags == CopyFromVReg(Effect(value, i, {}, {}, {}), i)
  IN ExportResult(Add(flags, LAMBDA e : Node(i, "value", 0, {e.chain})), b, i)

X86Arch(d, b, i) ==
  LET k == b.insts[i].k
  IN CASE k = "cpuid" -> X86CpuId(d, b, i)
       [] k = "in"    -> X86In(d, b, i)
       [] k = "out"   -> X86Out(d, b, i)
       [] k = "wrmsr" -> X86WrMsr(d, b, i)
       [] k = "rdmsr" -> X86RdMsr(d, b, i)
       [] k \in X86Tables -> Assembly(d, b, i)
       [] k = "cmpxchg" -> X86CmpXchg(d, b, i)
       [] k = "xchg"    -> X86Xchg(d, b, i)
       [] k \in X86Counters \cup X86Fpu \cup X86Hints \cup X86Contexts -> Chained(d, b, i)

AArch64LoadLink(d, b, i)  == Chained(d, b, i)
AArch64StoreCond(d, b, i) == Chained(d, b, i)
AArch64Arch(d, b, i) ==
  CASE b.insts[i].k = "loadlink"  -> AArch64LoadLink(d, b, i)
    [] b.insts[i].k = "storecond" -> AArch64StoreCond(d, b, i)
    [] b.insts[i].k \in {"dmb", "isb", "wfi", "sti", "cli"} -> Chained(d, b, i)
    [] b.insts[i].k = "out" -> Assembly(d, b, i)

RISCVArch(d, b, i) ==
  CASE b.insts[i].k = "cmpxchg" -> RISCVCmpXchg(d, b, i)
    [] b.insts[i].k = "xchg" -> RISCVXchg(d, b, i)
    [] b.insts[i].k \in {"fence", "gp"} -> Chained(d, b, i)

PPCArch(d, b, i) ==
  CASE b.insts[i].k = "loadlink"  -> PPCLoadLink(d, b, i)
    [] b.insts[i].k = "storecond" -> PPCStoreCond(d, b, i)
    [] b.insts[i].k \in {"fence", "ifence"} -> Chained(d, b, i)
=============================================================================
