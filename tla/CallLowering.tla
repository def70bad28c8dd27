---------------------------- MODULE CallLowering ----------------------------
(***************************************************************************)
(* Where calls leave arguments and results (emitter/call_lowering.cpp and  *)
(* the X86Call, AArch64Call, RISCVCall and PPCCall that implement it): one *)
(* assignment for the call site and one for the function called, made      *)
(* apart but bound to agree.                                               *)
(*                                                                         *)
(* A register is named by its widest form: AL, EAX and RAX are "AX".       *)
(***************************************************************************)
EXTENDS Integers, Sequences, SequencesExt, FiniteSetsExt

CONSTANTS
  Sites,    \* calls: [target, conv, fixed, vararg, types, max, runs]
  ByValSize, ByValAlign   \* of a structure passed by value

Targets == {"X86_64", "X86_32", "AArch64", "RISCV", "PPC"}
Ints    == {"I8", "I16", "I32", "I64", "V64"}
Words   == {"I64", "V64"}
Floats  == {"F32", "F64"}
Types   == Ints \cup Floats \cup {"F80", "F128", "I128", "BYVAL"}

\* The arguments of a call that is not variadic are all fixed ones.
ASSUME CallLoweringAssumption ==
  /\ Sites \subseteq [target : Targets, conv : STRING, fixed : Nat, vararg : BOOLEAN,
                      types : SUBSET Types, max : Nat, runs : Nat]
  /\ \A c \in Sites : ~c.vararg => c.fixed = c.max
  /\ ByValSize \in Nat
  /\ ByValAlign \in Nat \ {0}

Size(ty) ==
  CASE ty = "I8" -> 1 [] ty = "I16" -> 2 [] ty \in {"I32", "F32"} -> 4
    [] ty \in {"I64", "V64", "F64", "BYVAL"} -> 8 [] ty = "F80" -> 10
    [] ty \in {"I128", "F128"} -> 16

AlignTo(n, a) == ((n + a - 1) \div a) * a

-----------------------------------------------------------------------------
(* Registers                                                               *)

Numbered(prefix, first, last) == [n \in 1 .. last - first + 1 |-> <<prefix, first + n - 1>>]
Named(names) == [n \in DOMAIN names |-> <<names[n], 0>>]

X86ArgGPRs ==
  [C |-> Named(<<"DI", "SI", "DX", "CX", "R8", "R9">>),
   CAML |-> Named(<<"R14", "R15", "AX", "BX", "DI", "SI", "DX", "CX", "R8", "R9", "R12", "R13">>),
   CAML_ALLOC |-> Named(<<"R14", "R15">>), CAML_GC |-> Named(<<"R14", "R15">>),
   XEN |-> Named(<<"DI", "SI", "DX", "R10", "R8", "R9">>), MULTIBOOT |-> Named(<<"AX", "BX">>)]
X86RetGPRs ==
  [C |-> Named(<<"AX", "DX">>), CAML |-> Named(<<"R14", "R15", "AX">>),
   CAML_ALLOC |-> Named(<<"R14", "R15">>), CAML_GC |-> Named(<<"R14", "R15">>), XEN |-> Named(<<"AX">>)]
X86FPRs == Numbered("XMM", 0, 7)

AArch64Runtime == Numbered("X", 25, 28)
AArch64ArgGPRs ==
  [C |-> Numbered("X", 0, 7), CAML |-> AArch64Runtime \o Numbered("X", 0, 15),
   CAML_ALLOC |-> AArch64Runtime, CAML_GC |-> AArch64Runtime]
AArch64RetGPRs == [AArch64ArgGPRs EXCEPT !.CAML = AArch64Runtime \o Numbered("X", 0, 0)]
AArch64FPRs == Numbered("V", 0, 15)

RISCVRuntime == Numbered("X", 8, 9) \o Numbered("X", 26, 27)
RISCVArgGPRs ==
  [C |-> Numbered("X", 10, 17), CAML |-> RISCVRuntime \o Numbered("X", 10, 25),
   CAML_ALLOC |-> RISCVRuntime, CAML_GC |-> RISCVRuntime]
RISCVRetGPRs ==
  [RISCVArgGPRs EXCEPT !.C = Numbered("X", 10, 11), !.CAML = RISCVRuntime \o Numbered("X", 10, 10)]
RISCVFPRs == [C |-> Numbered("F", 10, 17), CAML |-> Numbered("F", 10, 25)]

PPCRuntime == Numbered("X", 28, 31)
PPCArgGPRs == [C |-> Numbered("X", 3, 10), CAML |-> PPCRuntime \o Numbered("X", 3, 10)]
PPCRetGPRs == [C |-> Numbered("X", 3, 6), CAML |-> PPCRuntime \o Numbered("X", 3, 6)]
PPCFPRs == Numbered("F", 1, 13)

\* The rules a convention shares with another one.
RulesOf(target, conv) ==
  CASE conv = "SETJMP" -> "C"
    [] conv = "WIN64" /\ target = "X86_64" -> "C"
    [] conv \in {"CAML_ALLOC", "CAML_GC"} /\ target = "PPC" -> "CAML"
    [] OTHER -> conv

RegsIn(table, conv) == IF conv \in DOMAIN table THEN table[conv] ELSE <<>>

ArgGPRs(target, conv) ==
  CASE target = "X86_64"  -> RegsIn(X86ArgGPRs, conv)
    [] target = "AArch64" -> RegsIn(AArch64ArgGPRs, conv)
    [] target = "RISCV"   -> RegsIn(RISCVArgGPRs, conv)
    [] target = "PPC"     -> RegsIn(PPCArgGPRs, conv)
    [] OTHER -> <<>>

ArgFPRs(target, conv) ==
  CASE target = "X86_64" /\ conv \in {"C", "CAML"} -> X86FPRs
    [] target = "AArch64" -> IF conv = "C" THEN SubSeq(AArch64FPRs, 1, 8) ELSE AArch64FPRs
    [] target = "RISCV"  -> RegsIn(RISCVFPRs, conv)
    [] target = "PPC"    -> PPCFPRs
    [] OTHER -> <<>>

-----------------------------------------------------------------------------
(* AssignArg                                                               *)

\* How a type is passed: "I" and "F" in a register of that class, or else on
\* the stack; "II" in two; "S" on the stack; "B" by value; "X" not at all.
\* size is its size on the stack, 0 if it must not get there.
How(class, size) == [class |-> class, size |-> size]
Refused == How("X", 0)

X86ArgC(ty) ==
  CASE ty = "BYVAL"   -> How("B", ByValSize)
    [] ty \in Ints    -> How("I", Size(ty))
    [] ty \in Floats  -> How("F", Size(ty))
    [] ty = "F80"     -> How("S", 10)
    [] OTHER -> Refused
X86ArgOCaml(ty) ==
  CASE ty \in Words   -> How("I", 8)
    [] ty \in Floats  -> How("F", Size(ty))
    [] ty = "F80"     -> How("S", 10)
    [] OTHER -> Refused
\* OCaml's allocator and collector, and Xen; no more words than registers.
RuntimeArg(ty)      == IF ty \in Words THEN How("I", 0) ELSE Refused
X86ArgMultiboot(ty) == IF ty = "I32" THEN How("I", 0) ELSE Refused
X86_32ArgC(ty)      == How("S", Size(ty))

AArch64ArgC(ty) ==
  CASE ty \in {"I8", "I16", "I32"} -> How("I", 4)
    [] ty \in Words   -> How("I", 8)
    [] ty = "I128"    -> How("II", 0)
    [] ty \in Floats \cup {"F128"} -> How("F", Size(ty))
    [] OTHER -> Refused
AArch64ArgOCaml(ty) ==
  CASE ty \in Words   -> How("I", 8)
    [] ty \in Floats  -> How("F", 8)
    [] OTHER -> Refused
AArch64ArgRuntime(ty) == RuntimeArg(ty)

\* Variadic floating-point values go to integer registers.
RISCVArgC(ty, variadic) ==
  CASE ty \in Ints    -> How("I", 8)
    [] ty \in Floats  -> How(IF variadic THEN "I" ELSE "F", 8)
    [] OTHER -> Refused
\* (mutant) Floating-point values of any width in the integer registers.
RISCVArgOCamlShared(ty) == IF ty \in Floats THEN How("FI", 8) ELSE How("I", 8)

\* 32-bit values take integer registers, but are counted with the others.
RISCVArgOCaml(ty) ==
  CASE ty \in Ints    -> How("I", 8)
    [] ty = "F32"     -> How("FI", 4)
    [] ty = "F64"     -> How("F", 8)
    [] OTHER -> Refused
RISCVArgRuntime(ty) == IF ty \in Words THEN How("I", 8) ELSE Refused

PPCArgC(ty) ==
  CASE ty \in Ints    -> How("I", 8)
    [] ty \in Floats  -> How("F", Size(ty))
    [] OTHER -> Refused
PPCArgOCaml(ty) == PPCArgC(ty)

Runtime == {"CAML_ALLOC", "CAML_GC"}

ArgRule(target, conv, t, variadic) ==
  LET ty == IF t = "BYVAL" /\ (target # "X86_64" \/ conv # "C") THEN "I64" ELSE t
      on(tgt, convs) == target = tgt /\ conv \in convs
  IN CASE on("X86_64", {"C"})       -> X86ArgC(ty)
       [] on("X86_64", {"CAML"})    -> X86ArgOCaml(ty)
       [] on("X86_64", Runtime \cup {"XEN"}) -> RuntimeArg(ty)
       [] on("X86_64", {"MULTIBOOT"}) -> X86ArgMultiboot(ty)
       [] on("X86_32", {"C"})       -> X86_32ArgC(ty)
       [] on("AArch64", {"C"})      -> AArch64ArgC(ty)
       [] on("AArch64", {"CAML"})   -> AArch64ArgOCaml(ty)
       [] on("AArch64", Runtime)    -> AArch64ArgRuntime(ty)
       [] on("RISCV", {"C"})        -> RISCVArgC(ty, variadic)
       [] on("RISCV", {"CAML"})     -> RISCVArgOCaml(ty)
       [] on("RISCV", Runtime)      -> RISCVArgRuntime(ty)
       [] on("PPC", {"C"})          -> PPCArgC(ty)
       [] on("PPC", {"CAML"})       -> PPCArgOCaml(ty)
       [] OTHER -> Refused

\* An assignment: the registers used of each class, the end and the alignment of
\* the stack, and the parts placed.
InReg(i, r) == [arg |-> i, reg |-> r, off |-> 0, size |-> 0]
NoReg == <<"stack", 0>>

\* AssignArgStack and AssignArgByVal: the offset first, then the new end.
StackOffset(target, s, align) ==
  IF target \in {"X86_64", "X86_32"} THEN AlignTo(s.stack, align) ELSE s.stack
StackEnd(target, off, size) ==
  CASE target \in {"AArch64", "RISCV"} -> AlignTo(off + size, 8)
    [] target = "PPC" -> off
    [] OTHER -> off + size

OnStack(target, s, i, size, align) ==
  LET off == StackOffset(target, s, align)
  IN [s EXCEPT !.stack = StackEnd(target, off, size),
               !.align = Max({@, align}),
               !.onstack = TRUE,
               !.parts = Append(@, [arg |-> i, reg |-> NoReg, off |-> off, size |-> size])]

Failed(s) == [s EXCEPT !.failed = TRUE]

StackOr(target, s, i, size) ==
  IF size = 0 THEN Failed(s) ELSE OnStack(target, s, i, size, 8)

\* On PowerPC a floating-point register takes an integer register with it, and a
\* variadic call fills both (32-bit values: a second floating-point register).
PPCFloat(c, s, i, ty) ==
  LET list == IF ty = "F32" THEN PPCFPRs ELSE PPCArgGPRs.C
      one  == [s EXCEPT !.fpr = @ + 1, !.gpr = @ + 1, !.parts = Append(@, InReg(i, PPCFPRs[s.fpr + 1]))]
  IN CASE ~c.vararg -> one
       [] c.vararg /\ s.gpr < Len(list) ->
            [one EXCEPT !.parts = Append(@, InReg(i, list[s.gpr + 1]))]
       [] OTHER -> Failed(s)

Assign(c, s, i, ty, how) ==
  LET conv == RulesOf(c.target, c.conv)
      gprs == ArgGPRs(c.target, conv)
      fprs == ArgFPRs(c.target, conv)
  IN CASE how.class = "X" -> Failed(s)
       [] how.class = "B" -> OnStack(c.target, s, i, how.size, ByValAlign)
       [] how.class = "S" -> OnStack(c.target, s, i, how.size, 8)
       [] how.class = "I" ->
            IF s.gpr < Len(gprs)
              THEN [s EXCEPT !.gpr = @ + 1, !.parts = Append(@, InReg(i, gprs[s.gpr + 1]))]
              ELSE StackOr(c.target, s, i, how.size)
       [] how.class = "II" ->
            IF s.gpr + 1 < Len(gprs)
              THEN [s EXCEPT !.gpr = @ + 2,
                             !.parts = @ \o <<InReg(i, gprs[s.gpr + 1]), InReg(i, gprs[s.gpr + 2])>>]
              ELSE Failed(s)
       [] how.class = "F" /\ s.fpr < Len(fprs) ->
            IF c.target = "PPC" /\ conv = "C" THEN PPCFloat(c, s, i, ty)
            ELSE [s EXCEPT !.fpr = @ + 1, !.parts = Append(@, InReg(i, fprs[s.fpr + 1]))]
       [] how.class = "FI" /\ s.fpr < Len(gprs) ->
            [s EXCEPT !.fpr = @ + 1, !.parts = Append(@, InReg(i, gprs[s.fpr + 1]))]
       [] OTHER -> StackOr(c.target, s, i, how.size)

\* (mutant) All floating-point values of a variadic call are passed like the
\* variadic ones.
AssignArgAllVariadic(c, s, i, ty) ==
  Assign(c, s, i, ty, ArgRule(c.target, RulesOf(c.target, c.conv), ty, c.vararg))

\* On PowerPC every argument has a slot in the frame, used or not.
AssignArg(c, s, i, ty) ==
  LET how  == ArgRule(c.target, RulesOf(c.target, c.conv), ty, i > c.fixed)
      next == Assign(c, s, i, ty, how)
  IN IF c.target = "PPC" THEN [next EXCEPT !.stack = @ + 8] ELSE next

GetFrameSize(c, s) ==
  CASE c.target \in {"X86_64", "X86_32"} -> AlignTo(s.stack, s.align)
    [] c.target = "PPC" -> IF s.onstack \/ c.vararg THEN Max({s.stack, 32 + 64}) ELSE 32
    [] OTHER -> s.stack

-----------------------------------------------------------------------------
(* AssignRet                                                               *)

RetGPRs(target, conv) ==
  CASE target = "X86_64"  -> RegsIn(X86RetGPRs, conv)
    [] target = "X86_32"  -> IF conv = "C" THEN Named(<<"AX", "DX">>) ELSE <<>>
    [] target = "AArch64" -> RegsIn(AArch64RetGPRs, conv)
    [] target = "RISCV"   -> RegsIn(RISCVRetGPRs, conv)
    [] target = "PPC"     -> RegsIn(PPCRetGPRs, conv)

RetFPRs(target, conv) ==
  CASE target = "X86_64" /\ conv \in {"C", "CAML"} -> SubSeq(X86FPRs, 1, 1)
    [] target = "X86_32" /\ conv = "C" -> Numbered("FP", 0, 1)
    [] target = "AArch64" /\ conv = "C" -> SubSeq(AArch64FPRs, 1, 8)
    [] target = "AArch64" /\ conv = "CAML" -> SubSeq(AArch64FPRs, 1, 1)
    [] target = "RISCV" /\ conv = "C" -> Numbered("F", 10, 11)
    [] target = "RISCV" /\ conv = "CAML" -> Numbered("F", 10, 10)
    [] target = "PPC" -> SubSeq(PPCFPRs, 1, 4)
    [] OTHER -> <<>>

\* The class of a result: "I", "II", "F", "8" the x87 stack, "X" none.
WordRet(ty) == IF ty \in Words THEN "I" ELSE "X"
PlainRet(ty) ==
  CASE ty \in Ints -> "I" [] ty \in Floats -> "F" [] OTHER -> "X"

X86_32RetC(ty) ==
  CASE ty \in Words -> "II"
    [] ty \in Ints  -> "I"
    [] ty \in Floats \cup {"F80"} -> "F"
    [] OTHER -> "X"
X86RetC(ty)       == IF ty = "F80" THEN "8" ELSE PlainRet(ty)
X86RetOCaml(ty)   == PlainRet(ty)
X86RetRuntime(ty) == WordRet(ty)
AArch64RetC(ty) ==
  CASE ty = "I128" -> "II" [] ty = "F128" -> "F" [] OTHER -> PlainRet(ty)
AArch64RetOCaml(ty)   == PlainRet(ty)
AArch64RetRuntime(ty) == WordRet(ty)
RISCVRetC(ty)         == PlainRet(ty)
RISCVRetOCaml(ty)     == PlainRet(ty)
RISCVRetRuntime(ty)   == IF ty \in Ints THEN "I" ELSE "X"
PPCRetC(ty)           == PlainRet(ty)
PPCRetOCaml(ty)       == PlainRet(ty)

RetClass(target, conv, ty) ==
  LET on(tgt, convs) == target = tgt /\ conv \in convs
  IN CASE on("X86_32", {"C"})        -> X86_32RetC(ty)
       [] on("X86_64", {"C"})        -> X86RetC(ty)
       [] on("X86_64", {"CAML"})     -> X86RetOCaml(ty)
       [] on("X86_64", Runtime \cup {"XEN"}) -> X86RetRuntime(ty)
       [] on("AArch64", {"C"})       -> AArch64RetC(ty)
       [] on("AArch64", {"CAML"})    -> AArch64RetOCaml(ty)
       [] on("AArch64", Runtime)     -> AArch64RetRuntime(ty)
       [] on("RISCV", {"C"})         -> RISCVRetC(ty)
       [] on("RISCV", {"CAML"})      -> RISCVRetOCaml(ty)
       [] on("RISCV", Runtime)       -> RISCVRetRuntime(ty)
       [] on("PPC", {"C"})           -> PPCRetC(ty)
       [] on("PPC", {"CAML"})        -> PPCRetOCaml(ty)
       [] OTHER -> "X"

\* In 32-bit code both classes are counted together.  On AArch64 the register
\* of a 32-bit value returned to OCaml is not counted.
AssignRet(c, s, i, ty) ==
  LET conv  == RulesOf(c.target, c.conv)
      gprs  == RetGPRs(c.target, conv)
      fprs  == RetFPRs(c.target, conv)
      class == RetClass(c.target, conv, ty)
      used  == IF c.target = "X86_32" THEN s.gpr ELSE s.fpr
      taken == IF c.target = "AArch64" /\ conv = "CAML" /\ ty = "F32" THEN 0 ELSE 1
  IN CASE class = "I" /\ s.gpr < Len(gprs) ->
            [s EXCEPT !.gpr = @ + 1, !.parts = Append(@, InReg(i, gprs[s.gpr + 1]))]
       [] class = "II" /\ s.gpr + 1 < Len(gprs) ->
            [s EXCEPT !.gpr = @ + 2, !.parts = @ \o <<InReg(i, gprs[s.gpr + 1]), InReg(i, gprs[s.gpr + 2])>>]
       [] class = "F" /\ used < Len(fprs) ->
            [s EXCEPT !.gpr = IF c.target = "X86_32" THEN @ + 1 ELSE @,
                      !.fpr = IF c.target = "X86_32" THEN @ ELSE @ + taken,
                      !.parts = Append(@, InReg(i, fprs[used + 1]))]
       [] class = "8" /\ s.x87 = 0 ->
            [s EXCEPT !.x87 = 1, !.parts = Append(@, InReg(i, <<"FP", 0>>))]
       [] OTHER -> Failed(s)

-----------------------------------------------------------------------------
(* LowerVASetup: what a variadic function saves of what it did not take    *)

UnusedGPRs(c, s) == LET r == ArgGPRs(c.target, "C") IN SubSeq(r, s.gpr + 1, Len(r))
UnusedFPRs(c, s) == LET r == ArgFPRs(c.target, "C") IN SubSeq(r, s.fpr + 1, Len(r))

\* The registers saved for va_arg, and the offset where it goes on afterwards.
VASaved(c, s) ==
  Range(UnusedGPRs(c, s)) \cup
    (IF c.target \in {"X86_64", "AArch64"} THEN Range(UnusedFPRs(c, s)) ELSE {})

\* (mutant) The search goes on at the start of the frame.
VAOverflowZero(c, s) == 0

VAOverflow(c, s) ==
  CASE c.target = "RISCV" -> 0
    [] c.target = "PPC"   -> GetFrameSize(c, s) + 8 * Len(UnusedGPRs(c, s))
    [] OTHER -> AlignTo(GetFrameSize(c, s), 8)

-----------------------------------------------------------------------------
VARIABLES
  site,   \* the call
  sig,    \* types of the arguments or results placed so far
  call,   \* the assignment of the call site
  func    \* the assignment of the function called, or of the return

vars == <<site, sig, call, func>>

Fresh(c) ==
  [gpr |-> 0, fpr |-> 0, x87 |-> 0, stack |-> IF c.target = "PPC" THEN 32 ELSE 0, align |-> 8,
   onstack |-> FALSE, failed |-> FALSE, parts |-> <<>>]

Init ==
  /\ site \in Sites
  /\ sig = [kind |-> "none", types |-> <<>>]
  /\ call = Fresh(site)
  /\ func = Fresh(site)

\* Signatures are bounded: site.max values, in at most site.runs runs of a type.
Runs(types) == Cardinality({n \in DOMAIN types : n = 1 \/ types[n - 1] # types[n]})

Extends(kind, ty) ==
  /\ ~call.failed
  /\ sig.kind \in {"none", kind}
  /\ Len(sig.types) < site.max
  /\ sig' = [kind |-> kind, types |-> Append(sig.types, ty)]
  /\ Runs(sig'.types) <= site.runs

\* The function called knows its parameters, not the variadic arguments.
Callee == [site EXCEPT !.vararg = FALSE]

PassArg ==
  \E ty \in site.types :
    /\ Extends("args", ty)
    /\ call' = AssignArg(site, call, Len(sig.types) + 1, ty)
    /\ func' = IF Len(sig.types) < site.fixed \/ ~site.vararg
                 THEN AssignArg([Callee EXCEPT !.fixed = site.max], func, Len(sig.types) + 1, ty)
                 ELSE func
    /\ UNCHANGED site

\* AnalyseCall, AnalyseReturn, AnalyseRaise and AnalysePad.
PassRet ==
  \E ty \in site.types :
    /\ Extends("rets", ty)
    /\ call' = AssignRet(site, call, Len(sig.types) + 1, ty)
    /\ func' = AssignRet(Callee, func, Len(sig.types) + 1, ty)
    /\ UNCHANGED site

Next == PassArg \/ PassRet

Spec == Init /\ [][Next]_vars

-----------------------------------------------------------------------------
(* Properties                                                              *)

Overlap(p, q) ==
  \/ p.reg = q.reg /\ p.reg # NoReg
  \/ p.reg = NoReg /\ q.reg = NoReg /\ p.off < q.off + q.size /\ q.off < p.off + p.size

\* No register and no byte of the stack is given to two parts of the arguments,
\* or of the results, of one call, whatever mix of types exhausts which class of
\* registers first.
NoClash ==
  \A s \in {call, func} : ~s.failed =>
    \A m, n \in DOMAIN s.parts : m # n => ~Overlap(s.parts[m], s.parts[n])

\* Where a function looks for a parameter, the call has put it, also when the
\* call passes variadic arguments the function knows nothing of.
CallerCalleeAgree ==
  ~call.failed => Range(func.parts) \subseteq Range(call.parts)

\* A variadic argument is where va_arg will look: in a register the function
\* saved, or on the stack from the place where the search goes on.
VarArgsFound ==
  site.vararg /\ ~call.failed /\ sig.kind = "args" =>
    LET variadic == {p \in Range(call.parts) : p.arg > site.fixed}
        onstack  == {p \in variadic : p.reg = NoReg}
    IN /\ \A p \in variadic \ onstack : p.reg \in VASaved(Callee, func)
       /\ onstack # {} => Min({p.off : p \in onstack}) = VAOverflow(Callee, func)
=============================================================================
