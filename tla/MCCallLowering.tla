---------------------------- MODULE MCCallLowering ---------------------------
(* Calls of each target and convention; enough values to use up every list *)
(* of registers.                                                           *)
EXTENDS CallLowering

Site(target, conv, types, max, runs) ==
  [target |-> target, conv |-> conv, fixed |-> max, vararg |-> FALSE, types |-> types,
   max |-> max, runs |-> runs]

VarArg(target, fixed, types, max) ==
  [Site(target, "C", types, max, 3) EXCEPT !.fixed = fixed, !.vararg = TRUE]

Plain ==
  {Site(t, c, {"I32", "I64", "F32", "F64"}, 10, 3) : t \in {"X86_64", "AArch64", "RISCV"}, c \in {"C"}}
  \cup {Site("PPC", c, {"I64", "F32", "F64"}, 15, 2) : c \in {"C", "SETJMP", "CAML_GC"}}
  \cup {Site("X86_64", c, {"I16", "BYVAL", "F80", "F64"}, 9, 3) : c \in {"C", "WIN64"}}
  \cup {Site("X86_32", "C", {"I8", "I64", "F32", "F80", "F128"}, 4, 4)}
  \cup {Site("AArch64", "C", {"I128", "I64", "F128", "F32"}, 10, 3)}

OCaml ==
  {Site("X86_64", "CAML", {"I64", "F32", "F64", "F80"}, 14, 2),
   Site("AArch64", "CAML", {"V64", "F64"}, 22, 2),
   Site("RISCV", "CAML", {"V64", "F64"}, 22, 2)}
  \cup {Site(t, c, {"V64", "I32"}, 6, 3) :
          t \in {"X86_64", "AArch64", "RISCV"}, c \in {"CAML_ALLOC", "CAML_GC", "XEN", "MULTIBOOT", "INTR"}}

Variadic ==
  {VarArg(t, f, {"I64", "F64"}, 11) : t \in {"X86_64", "AArch64"}, f \in 1 .. 9}
  \cup {VarArg("RISCV", f, {"I64", "F64"}, 11) : f \in 1 .. 7}

MCSites == Plain \cup OCaml \cup Variadic

=============================================================================
