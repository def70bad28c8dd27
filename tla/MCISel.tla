-------------------------------- MODULE MCISel -------------------------------
(* Blocks of two instructions and a terminator, for every target; values   *)
(* used by the next instruction, by the terminator, or in other blocks.    *)
EXTENDS ISel

Inst(k, args, opts, conv) == [k |-> k, args |-> args, opts |-> opts, conv |-> conv, v64 |-> FALSE]

Arity(k) ==
  CASE k \in {"syscall", "clone", "wrmsr"} -> 3
    [] k \in {"alu", "div", "shift", "cmp", "select", "aluo", "st", "cmpxchg", "xchg", "storecond", "out", "cpuid"} -> 2
    [] k \in {"arg", "landingpad", "phi", "dmb", "fence", "mfence", "pause", "get", "undef", "rdtsc"} -> 0
    [] OTHER -> 1

\* Instructions with a result.
HasResult(k) == k \notin {"st", "set", "wrmsr", "out", "dmb", "fence", "mfence", "pause", "lgdt", "xsave", "fldcw",
                          "vastart", "debugtrap"}

\* Instructions that behave differently, and those that behave like a load.
Basic   == {"alu", "div", "ld", "mov", "syscall"}
Special(t) ==
  {"st", "alloca", "get", "set", "clone", "arg", "landingpad", "phi", "vastart", "debugtrap",
   "shift", "unary", "ext", "cmp", "select", "undef", "aluo"} \cup
    CASE t = "X86_64"  -> {"cpuid", "in", "out", "wrmsr", "rdmsr", "lgdt", "cmpxchg", "xchg", "rdtsc", "mfence", "pause", "xsave", "fldcw"}
      [] t = "AArch64" -> {"loadlink", "storecond", "out", "dmb"}
      [] t = "RISCV"   -> {"xchg", "cmpxchg", "fence"}
      [] t = "PPC"     -> {"loadlink", "storecond", "fence"}

\* The unglued copies of clone do not survive a division of x86.
Pairs(t) ==
  {p \in (Special(t) \X Basic) \cup (Basic \X (Special(t) \ {"landingpad", "phi"})) \cup (Basic \X Basic) :
     t = "X86_64" => {p[1], p[2]} # {"clone", "div"}}

Options(k) ==
  CASE k = "get" -> {{}, {"sp"}, {"fs"}, {"address"}}
    [] k = "set" -> {{}, {"sp"}, {"fs"}}
    [] k = "syscall" -> {{}, {"unused"}}
    [] OTHER -> {{}}
AllOptions == {{}, {"sp"}, {"fs"}, {"address"}, {"unused"}}

\* Terminators that go on to other blocks, and those that leave the function.
Onward(t) ==
  {[k |-> "jump", opts |-> {}, conv |-> "C"], [k |-> "cond", opts |-> {}, conv |-> "C"],
   [k |-> "cond", opts |-> {"same"}, conv |-> "C"], [k |-> "switch", opts |-> {}, conv |-> "C"],
   [k |-> "call", opts |-> {"stack"}, conv |-> "C"], [k |-> "call", opts |-> {"gc", "trampoline"}, conv |-> "C"],
   [k |-> "invoke", opts |-> {"gc"}, conv |-> "CAML"], [k |-> "invoke", opts |-> {"unused"}, conv |-> "C"]}
  \cup (IF t = "X86_64" THEN {[k |-> "framecall", opts |-> {}, conv |-> "C"],
                              [k |-> "call", opts |-> {"vararg"}, conv |-> "C"]} ELSE {})
  \cup (IF t = "PPC" THEN {[k |-> "call", opts |-> {"indirect"}, conv |-> "C"]} ELSE {})
Leaving(t) ==
  {[k |-> "return", opts |-> {}, conv |-> "C"], [k |-> "raise", opts |-> {}, conv |-> "CAML"],
   [k |-> "trap", opts |-> {}, conv |-> "C"], [k |-> "tail", opts |-> {}, conv |-> "C"],
   [k |-> "tail", opts |-> {"stack"}, conv |-> "C"]}
  \cup (IF t = "X86_64" THEN {[k |-> "spawn", opts |-> {}, conv |-> "C"],
                              [k |-> "return", opts |-> {}, conv |-> "INTR"]} ELSE {})
  \cup (IF t = "PPC" THEN {[k |-> "tail", opts |-> {"stub"}, conv |-> "C"]} ELSE {})

Common == {[k |-> "jump", opts |-> {}, conv |-> "C"], [k |-> "return", opts |-> {}, conv |-> "C"],
           [k |-> "invoke", opts |-> {"gc"}, conv |-> "CAML"]}

TermArity(term) ==
  CASE term.k \in {"call", "tail", "invoke", "framecall", "raise"} -> 3
    [] term.k = "spawn" -> 2
    [] term.k \in {"cond", "switch", "return"} -> 1
    [] OTHER -> 0

\* Operands taken in turn from a list of values.
Take(n, from) == SubSeq(from \o from \o from, 1, n)

Result(p, n) == IF HasResult(p[n]) THEN n ELSE 0

\* "used": the second instruction uses the first, the terminator the second;
\* "apart": the terminator uses both.
Block(t, p, o1, o2, term, way, out) ==
  LET second == IF way = "used" THEN <<Result(p, 1)>> ELSE <<0>>
      last   == IF way = "used" THEN <<Result(p, 2)>> ELSE <<Result(p, 2), Result(p, 1)>>
      insts  == <<Inst(p[1], Take(Arity(p[1]), <<0>>), o1, "C"),
                  [Inst(p[2], Take(Arity(p[2]), second), o2, "C") EXCEPT !.v64 = way = "apart" /\ p[2] \in {"ld", "alu", "mov"}],
                  Inst(term.k, Take(TermArity(term), last), term.opts, term.conv)>>
  IN [target |-> t, insts |-> insts, out |-> out,
      phis |-> IF 1 \in out THEN {PhiConst} ELSE {},
      va |-> p[1] = "vastart", toc |-> p[1] = "landingpad"]

\* A PHI is a register of the block, written in the blocks before it.
Exportable(p, term) ==
  {n \in {1, 2} : HasResult(p[n]) /\ p[n] # "phi"}
    \cup (IF term.k \in {"call", "invoke", "framecall"} /\ "unused" \notin term.opts THEN {3} ELSE {})

\* Every pair with the simplest terminators, the pairs of basic ones with all.
Shapes(t) ==
  {c \in [pair : Pairs(t), first : AllOptions, second : AllOptions, term : Onward(t) \cup Leaving(t), way : {"used", "apart"}] :
     /\ c.first \in Options(c.pair[1]) /\ c.second \in Options(c.pair[2])
     /\ c.pair \in Basic \X Basic \/ c.term \in Common}

Unused(x, n) == n \notin x.out /\ \A m \in DOMAIN x.insts : n \notin Range(x.insts[m].args)

MCBlocks(t) ==
  {x \in {Block(t, c.pair, c.first, c.second, c.term, c.way,
                IF c.term \in Onward(t) THEN Exportable(c.pair, c.term) ELSE {}) : c \in Shapes(t)} :
     \A n \in {1, 2} : "unused" \in x.insts[n].opts => Unused(x, n)}

AllBlocks == [t \in {"X86_64", "AArch64", "RISCV", "PPC"} |-> MCBlocks(t)]

=============================================================================
