------------------------------ MODULE TagTypes ------------------------------
(***************************************************************************)
(* The types of the OCaml tag analysis (passes/tags): integers with known  *)
(* bits, pointers into the OCaml heap and elsewhere, and unions of the two,*)
(* their order, their join, and what each instruction makes of the types   *)
(* of its operands.                                                        *)
(*                                                                         *)
(* A word is the set of the positions of its one bits.  A pair of kinds    *)
(* the source does not implement yields Crash, its llvm_unreachable.       *)
(*                                                                         *)
(* The transfer functions of the tag analysis (passes/tags/step.cpp and    *)
(* passes/tags/eval): the type of the result of an instruction from the    *)
(* types of its operands, and Clamp, which fits it to the declared type of *)
(* the register.                                                           *)
(***************************************************************************)
EXTENDS Naturals, FiniteSetsExt

CONSTANTS
  Width,      \* bits of a word, 64 in the source
  AlignBits,  \* low bits that are zero in an aligned offset, 3 in the source
  PageBits    \* bits of an offset in a page, 12 in the source

ASSUME TagTypesAssumption ==
  /\ Width \in Nat \ {0}
  /\ AlignBits \in 1 .. Width
  /\ PageBits \in 1 .. Width

Bits == 0 .. Width - 1

Num(w)  == MapThenSumSet(LAMBDA b : 2 ^ b, w)
Word(n) == {b \in Bits : (n \div 2 ^ b) % 2 = 1}

-----------------------------------------------------------------------------
(* MaskedType: a word of which some bits are known                         *)

Masked(v, k) == [value |-> v \cap k, known |-> k]
MConst(v)    == Masked(v, Bits)
\* (mutant) Every bit known on both sides is known of the sum.
MAddNoCarry(a, b) ==
  Masked(Word((Num(a.value) + Num(b.value)) % 2 ^ Width), a.known \cap b.known)

\* The sum is known up to the first bit that is not known on both sides.
MAdd(a, b) ==
  LET low == {i \in Bits : 0 .. i \subseteq a.known \cap b.known}
  IN Masked(Word((Num(a.value) + Num(b.value)) % 2 ^ Width), low)

MNot(a) == Masked(Bits \ a.value, a.known)

MSub(a, b) == MAdd(MAdd(a, MNot(b)), MConst({0}))

MAnd(a, b) ==
  LET zeros == (a.known \ a.value) \cup (b.known \ b.value)
  IN Masked(a.value \cap b.value, zeros \cup (a.known \cap b.known))

MOr(a, b) ==
  Masked(a.value \cup b.value, (a.known \cap b.known) \cup a.value \cup b.value)

MXor(a, b) ==
  Masked((a.value \ b.value) \cup (b.value \ a.value), a.known \cap b.known)

IsAligned(a) ==
  /\ 0 .. AlignBits - 1 \subseteq a.known
  /\ 0 .. AlignBits - 1 \cap a.value = {}

\* Some bit above the offset in a page is known to be zero.
ClearsPage(a) == (PageBits .. Width - 1) \cap (a.known \ a.value) # {}

-----------------------------------------------------------------------------
(* TaggedType                                                              *)

\* HEAP: the start of an OCaml block, HEAP_OFF: a word inside one, ADDR: any
\* place derived from one; VAL: an OCaml value, a block or an odd integer.
Kinds == {"UNKNOWN", "INT", "FUNC", "YOUNG", "HEAP_OFF", "HEAP", "ADDR",
          "ADDR_NULL", "ADDR_INT", "VAL", "PTR", "PTR_NULL", "PTR_INT", "UNDEF"}

Mask(m) == [k |-> "INT", m |-> m]
AnyInt   == Mask(Masked({}, {}))
Odd     == Mask(Masked({0}, {0}))
Even    == Mask(Masked({}, {0}))
Const(w) == Mask(MConst(w))
Zero    == Const({})
One     == Const({0})
ZeroOne == Mask(Masked({}, Bits \ {0}))

\* The type of a kind; "INT" stands for any integer.
Ty(kind) == [k |-> kind, m |-> Masked({}, {})]

Crash == Ty("CRASH")

IsUnknown(t) == t.k = "UNKNOWN"
IsZero(t)    == t = Zero
IsOne(t)     == t = One
IsEven(t) == \/ t.k \in {"YOUNG", "HEAP_OFF"}
             \/ t.k = "INT" /\ 0 \in t.m.known \ t.m.value
IsOdd(t)  == t.k = "INT" /\ 0 \in t.m.value

IsNonZero(t) ==
  \/ t.k = "INT" /\ t.m.value # {}
  \/ t.k \in {"YOUNG", "HEAP_OFF", "HEAP", "VAL", "PTR", "ADDR", "FUNC"}

-----------------------------------------------------------------------------
(* Join and order                                                          *)

Lookup(table, l, r) ==
  IF l.k \in DOMAIN table /\ r.k \in DOMAIN table[l.k]
    THEN Ty(table[l.k][r.k])
    ELSE Crash

JoinInts(a, b) ==
  LET same == Bits \ ((a.value \ b.value) \cup (b.value \ a.value))
  IN Masked(a.value, same \cap a.known \cap b.known)

\* Rows are left operands.  FUNC with an unknown or undefined value is FUNC.
JoinTable ==
  [VAL |-> [VAL |-> "VAL", HEAP |-> "VAL", HEAP_OFF |-> "VAL", YOUNG |-> "VAL",
            PTR |-> "PTR_INT", PTR_INT |-> "PTR_INT", PTR_NULL |-> "PTR_INT",
            ADDR |-> "ADDR_INT", ADDR_INT |-> "ADDR_INT", ADDR_NULL |-> "ADDR_INT"],
   HEAP |-> [HEAP |-> "HEAP", YOUNG |-> "HEAP", HEAP_OFF |-> "HEAP_OFF",
             PTR |-> "PTR_INT", VAL |-> "VAL", PTR_INT |-> "PTR_INT",
             PTR_NULL |-> "PTR_NULL", ADDR |-> "ADDR", ADDR_INT |-> "PTR_INT",
             ADDR_NULL |-> "PTR_NULL"],
   PTR |-> [HEAP |-> "PTR", PTR |-> "PTR", YOUNG |-> "PTR", HEAP_OFF |-> "PTR",
            VAL |-> "PTR_INT", PTR_INT |-> "PTR_INT", PTR_NULL |-> "PTR_NULL",
            ADDR |-> "PTR", ADDR_INT |-> "PTR_INT", ADDR_NULL |-> "PTR_NULL",
            FUNC |-> "PTR"],
   PTR_NULL |-> [PTR |-> "PTR_NULL", PTR_NULL |-> "PTR_NULL", PTR_INT |-> "PTR_INT",
                 VAL |-> "PTR_INT", HEAP |-> "PTR_NULL", ADDR |-> "PTR_NULL",
                 ADDR_INT |-> "PTR_INT", ADDR_NULL |-> "PTR_NULL"],
   ADDR |-> [PTR |-> "PTR", PTR_NULL |-> "PTR_NULL", PTR_INT |-> "PTR_INT",
             VAL |-> "ADDR_INT", HEAP |-> "ADDR", HEAP_OFF |-> "ADDR",
             INT |-> "ADDR_INT", ADDR |-> "ADDR", ADDR_INT |-> "ADDR_INT",
             ADDR_NULL |-> "ADDR_NULL"],
   ADDR_INT |-> [PTR |-> "PTR_INT", PTR_NULL |-> "PTR_INT", PTR_INT |-> "PTR_INT",
                 VAL |-> "ADDR_INT", HEAP |-> "ADDR_INT", HEAP_OFF |-> "ADDR_INT",
                 INT |-> "ADDR_INT", ADDR |-> "ADDR_INT", ADDR_INT |-> "ADDR_INT",
                 ADDR_NULL |-> "ADDR_INT"],
   YOUNG |-> [YOUNG |-> "YOUNG", PTR |-> "PTR", PTR_INT |-> "PTR_INT",
              HEAP |-> "HEAP", VAL |-> "VAL", INT |-> "PTR_INT", ADDR |-> "PTR",
              ADDR_INT |-> "PTR_INT", ADDR_NULL |-> "PTR_NULL"],
   HEAP_OFF |-> [YOUNG |-> "HEAP_OFF", HEAP_OFF |-> "HEAP_OFF", PTR |-> "PTR",
                 PTR_INT |-> "PTR_INT", HEAP |-> "HEAP_OFF", VAL |-> "VAL",
                 ADDR |-> "ADDR", ADDR_INT |-> "ADDR_INT"],
   FUNC |-> [YOUNG |-> "YOUNG", HEAP_OFF |-> "HEAP_OFF", PTR |-> "PTR",
             PTR_INT |-> "PTR_INT", HEAP |-> "HEAP", VAL |-> "VAL",
             INT |-> "PTR_INT", PTR_NULL |-> "PTR_NULL", ADDR |-> "PTR",
             ADDR_INT |-> "PTR_INT", ADDR_NULL |-> "PTR_NULL", FUNC |-> "FUNC"]]

\* An integer on the left.
JoinInt(l, r) ==
  CASE r.k \in {"UNDEF", "UNKNOWN"} -> l
    [] r.k = "INT" -> Mask(JoinInts(l.m, r.m))
    [] r.k \in {"VAL", "HEAP", "YOUNG"} -> Ty(IF IsOdd(l) THEN "VAL" ELSE "PTR_INT")
    [] r.k \in {"PTR", "PTR_NULL"} -> Ty(IF IsZero(l) THEN "PTR_NULL" ELSE "PTR_INT")
    [] r.k \in {"ADDR", "ADDR_NULL"} -> Ty(IF IsZero(l) THEN "ADDR_NULL" ELSE "ADDR_INT")
    [] r.k \in {"PTR_INT", "ADDR_INT"} -> r
    [] r.k = "FUNC" -> Ty("PTR_INT")
    [] OTHER -> Crash

\* operator |
Join(l, r) ==
  CASE l.k = "UNKNOWN" -> r
    [] l.k = "UNDEF" -> IF IsUnknown(r) THEN l ELSE r
    [] l.k = "INT" -> JoinInt(l, r)
    [] l.k = "PTR_INT" -> l
    [] r.k = "UNKNOWN" /\ l.k # "ADDR_NULL" -> l
    [] r.k = "UNDEF" /\ l.k \in {"VAL", "HEAP", "PTR", "PTR_NULL", "ADDR_INT", "FUNC"} -> l
    [] l.k \in {"VAL", "HEAP"} /\ r.k = "INT" -> Ty(IF IsOdd(r) THEN "VAL" ELSE "PTR_INT")
    [] l.k \in {"PTR", "PTR_NULL"} /\ r.k = "INT" ->
         Ty(IF IsZero(r) THEN "PTR_NULL" ELSE "PTR_INT")
    [] OTHER -> Lookup(JoinTable, l, r)

\* The kinds above each kind of pointer or union.
AboveKind ==
  [VAL |-> {"PTR", "PTR_INT", "ADDR_INT"},
   HEAP |-> {"VAL", "HEAP_OFF", "PTR", "PTR_NULL", "PTR_INT", "ADDR", "ADDR_NULL", "ADDR_INT"},
   YOUNG |-> {"HEAP", "VAL", "PTR", "PTR_INT"},
   HEAP_OFF |-> {"HEAP", "VAL", "PTR", "PTR_NULL", "PTR_INT", "ADDR", "ADDR_NULL", "ADDR_INT"},
   PTR |-> {"PTR_INT", "PTR_NULL"},
   PTR_INT |-> {},
   ADDR |-> {"PTR", "PTR_INT", "PTR_NULL", "ADDR_INT", "ADDR_NULL"},
   ADDR_NULL |-> {"PTR", "PTR_INT", "ADDR_INT", "ADDR_NULL"},
   ADDR_INT |-> {"PTR_INT"},
   PTR_NULL |-> {"PTR_INT"},
   FUNC |-> {"PTR", "PTR_INT", "VAL", "HEAP", "HEAP_OFF", "YOUNG"},
   UNKNOWN |-> Kinds \ {"UNKNOWN"},
   UNDEF |-> Kinds \ {"UNKNOWN", "UNDEF"}]

\* operator<
Less(l, r) ==
  IF l.k # "INT" THEN r.k \in AboveKind[l.k]
  ELSE \/ /\ r.k = "INT" /\ l # r
          /\ r.m.known \subseteq l.m.known
          /\ r.m.value = l.m.value \cap r.m.known
       \/ r.k \in {"PTR_NULL", "ADDR_NULL"} /\ IsZero(l)
       \/ r.k \in {"PTR_INT", "ADDR_INT"}
       \/ r.k = "VAL" /\ IsOdd(l)

LessEq(l, r) == l = r \/ Less(l, r)

-----------------------------------------------------------------------------
(* The transfer functions *)

AddTable ==
  [VAL |-> [VAL |-> "ADDR_INT", PTR_INT |-> "PTR_INT", INT |-> "ADDR_INT", ADDR_INT |-> "ADDR_INT"],
   HEAP |-> [VAL |-> "PTR", PTR_INT |-> "PTR"],
   PTR |-> [PTR |-> "PTR", PTR_INT |-> "PTR", PTR_NULL |-> "PTR_INT", INT |-> "PTR"],
   PTR_INT |-> [PTR |-> "PTR_INT", VAL |-> "PTR_INT", HEAP |-> "PTR", PTR_INT |-> "PTR_INT",
                PTR_NULL |-> "PTR_INT", INT |-> "PTR_INT", ADDR_INT |-> "PTR_INT"],
   PTR_NULL |-> [PTR_INT |-> "PTR_INT", INT |-> "PTR_INT"],
   INT |-> [PTR |-> "PTR", VAL |-> "ADDR_INT", HEAP |-> "PTR", PTR_INT |-> "PTR_INT",
            PTR_NULL |-> "PTR_INT", ADDR |-> "ADDR_INT", ADDR_INT |-> "ADDR_INT"],
   ADDR |-> [INT |-> "ADDR", PTR |-> "PTR_INT", VAL |-> "PTR_INT", HEAP |-> "PTR_INT",
             PTR_INT |-> "PTR_INT", PTR_NULL |-> "PTR_INT"],
   ADDR_INT |-> [INT |-> "ADDR_INT", PTR |-> "PTR_INT", VAL |-> "ADDR_INT", HEAP |-> "ADDR_INT",
                 PTR_INT |-> "PTR_INT", PTR_NULL |-> "PTR_INT", ADDR_INT |-> "ADDR_INT"]]

\* What the source does first: unknown operands, and operands it ignores.
Add(l, r) ==
  CASE IsUnknown(l) -> l
    [] l.k \in {"ADDR_NULL", "FUNC"} -> Crash
    [] IsUnknown(r) -> r
    [] l.k = "UNDEF" -> l
    [] l.k = "INT" /\ r.k = "INT" -> Mask(MAdd(l.m, r.m))
    [] l.k \in {"HEAP", "YOUNG", "HEAP_OFF"} /\ r.k = "INT" ->
         Ty(IF IsAligned(r.m) THEN "HEAP_OFF" ELSE "ADDR")
    [] OTHER -> Lookup(AddTable, l, r)

SubTable ==
  [INT |-> [VAL |-> "INT", HEAP |-> "INT", PTR |-> "INT", PTR_INT |-> "INT",
            PTR_NULL |-> "INT", ADDR |-> "INT", ADDR_INT |-> "INT"],
   VAL |-> [VAL |-> "ADDR_INT", INT |-> "ADDR_INT", HEAP |-> "INT",
            PTR_INT |-> "ADDR_INT", ADDR_INT |-> "ADDR_INT"],
   HEAP |-> [INT |-> "ADDR", PTR_INT |-> "ADDR_INT", VAL |-> "PTR_INT", HEAP |-> "INT",
             PTR |-> "INT", ADDR |-> "INT"],
   PTR |-> [VAL |-> "PTR_INT", HEAP |-> "PTR_INT", PTR |-> "INT", UNDEF |-> "UNDEF",
            PTR_INT |-> "PTR_INT", PTR_NULL |-> "PTR_INT", INT |-> "PTR"],
   PTR_INT |-> [VAL |-> "PTR_INT", HEAP |-> "INT", PTR |-> "INT", PTR_INT |-> "PTR_INT",
                PTR_NULL |-> "PTR_INT", INT |-> "PTR_INT", ADDR_INT |-> "PTR_INT"],
   PTR_NULL |-> [INT |-> "PTR_INT", PTR |-> "INT", PTR_INT |-> "PTR_INT", PTR_NULL |-> "PTR_INT"],
   ADDR |-> [INT |-> "ADDR", PTR |-> "PTR", PTR_INT |-> "ADDR_INT"],
   ADDR_INT |-> [INT |-> "ADDR_INT", PTR |-> "PTR_INT", VAL |-> "ADDR_INT",
                 PTR_INT |-> "PTR_INT", PTR_NULL |-> "PTR_INT", ADDR_INT |-> "ADDR_INT"]]

Sub(l, r) ==
  CASE l.k \in {"UNKNOWN", "UNDEF"} -> l
    [] l.k \in {"ADDR_NULL", "FUNC"} -> Crash
    [] IsUnknown(r) -> r
    [] l.k = "YOUNG" -> l
    [] l.k = "INT" /\ r.k = "INT" -> Mask(MSub(l.m, r.m))
    [] OTHER -> Lookup(SubTable, l, r)

\* With an integer on either side the mask decides whether an address is left.
AndTable ==
  [VAL |-> [PTR_INT |-> "PTR_INT", VAL |-> "VAL", ADDR_INT |-> "PTR_INT"],
   PTR |-> [PTR_INT |-> "PTR_INT"],
   PTR_INT |-> [PTR_INT |-> "PTR_INT", VAL |-> "PTR_INT", HEAP |-> "PTR_INT",
                PTR |-> "PTR_INT", ADDR_INT |-> "PTR_INT"],
   PTR_NULL |-> [PTR_NULL |-> "PTR_NULL"],
   ADDR_INT |-> [VAL |-> "PTR_INT", PTR_NULL |-> "PTR_INT", ADDR_INT |-> "ADDR_INT"]]

And(l, r) ==
  CASE IsUnknown(l) -> l
    [] l.k = "UNDEF" -> r
    [] l.k \in {"YOUNG", "ADDR", "ADDR_NULL"} -> Crash
    [] IsUnknown(r) -> r
    [] l.k = "INT" /\ r.k = "INT" -> Mask(MAnd(l.m, r.m))
    [] l.k = "INT" /\ r.k \in {"PTR", "ADDR_INT"} -> IF ClearsPage(l.m) THEN AnyInt ELSE Ty("ADDR_INT")
    [] l.k = "INT" /\ r.k \in {"PTR_INT", "VAL"}  -> IF ClearsPage(l.m) THEN AnyInt ELSE Ty("PTR_INT")
    [] l.k = "VAL" /\ r = One -> ZeroOne
    [] l.k \in {"VAL", "PTR", "PTR_INT", "PTR_NULL", "FUNC"} /\ r.k = "INT" ->
         IF ClearsPage(r.m) THEN AnyInt ELSE Ty("PTR_INT")
    [] l.k = "HEAP" /\ r.k = "INT" -> IF ClearsPage(r.m) THEN ZeroOne ELSE Ty("PTR_INT")
    [] l.k = "ADDR_INT" /\ r.k = "INT" -> IF ClearsPage(r.m) THEN AnyInt ELSE Ty("ADDR_INT")
    [] OTHER -> Lookup(AndTable, l, r)

OrTable ==
  [INT |-> [PTR_INT |-> "PTR_INT", VAL |-> "PTR_INT", PTR |-> "PTR_INT", UNDEF |-> "UNDEF",
            ADDR |-> "ADDR_INT", ADDR_INT |-> "ADDR_INT"],
   VAL |-> [INT |-> "PTR_INT", PTR_INT |-> "PTR_INT", VAL |-> "PTR_INT", ADDR_INT |-> "PTR_INT"],
   HEAP |-> [INT |-> "PTR_INT", PTR_INT |-> "PTR_INT", HEAP |-> "INT"],
   PTR |-> [INT |-> "PTR_INT", PTR_INT |-> "PTR_INT", PTR |-> "PTR_INT"],
   PTR_INT |-> [INT |-> "PTR_INT", PTR_INT |-> "PTR_INT", VAL |-> "PTR_INT", HEAP |-> "PTR_INT",
                PTR |-> "PTR_INT", PTR_NULL |-> "PTR_INT", ADDR_INT |-> "PTR_INT"],
   PTR_NULL |-> [INT |-> "PTR_INT", PTR_INT |-> "PTR_INT", PTR_NULL |-> "PTR_NULL"],
   ADDR_INT |-> [INT |-> "ADDR_INT", PTR_INT |-> "PTR_INT", VAL |-> "PTR_INT"]]

Or(l, r) ==
  CASE IsUnknown(l) -> l
    [] l.k \in {"YOUNG", "ADDR", "ADDR_NULL"} -> Crash
    [] IsUnknown(r) -> r
    [] l.k = "UNDEF" -> l
    [] l.k = "FUNC" -> AnyInt
    [] l.k = "INT" /\ r.k = "INT" -> Mask(MOr(l.m, r.m))
    [] OTHER -> Lookup(OrTable, l, r)

XorTable ==
  [INT |-> [PTR_INT |-> "PTR_INT", VAL |-> "PTR_INT", HEAP |-> "PTR_INT", PTR |-> "PTR_INT",
            ADDR_INT |-> "ADDR_INT"],
   VAL |-> [INT |-> "PTR_INT", PTR_INT |-> "PTR_INT", VAL |-> "VAL", ADDR_INT |-> "PTR_INT"],
   HEAP |-> [HEAP |-> "INT"],
   PTR |-> [INT |-> "PTR_INT", PTR_INT |-> "PTR_INT", PTR |-> "INT", PTR_NULL |-> "PTR_INT"],
   PTR_INT |-> [INT |-> "PTR_INT", PTR_INT |-> "PTR_INT", VAL |-> "PTR_INT", HEAP |-> "INT",
                PTR |-> "PTR_INT", PTR_NULL |-> "PTR_INT"],
   PTR_NULL |-> [INT |-> "PTR_INT"],
   ADDR |-> [VAL |-> "PTR_INT"],
   ADDR_INT |-> [INT |-> "ADDR_INT", VAL |-> "PTR_INT", HEAP |-> "INT"]]

Xor(l, r) ==
  CASE l.k \in {"UNKNOWN", "UNDEF"} -> l
    [] l.k \in {"YOUNG", "ADDR_NULL", "FUNC"} -> Crash
    [] IsUnknown(r) -> r
    [] l.k = "INT" /\ r.k = "INT" -> Mask(MXor(l.m, r.m))
    [] OTHER -> Lookup(XorTable, l, r)

\* Shifts to the right lose the address, if only the left type is looked at.
Shr(l, r) ==
  CASE l.k \in {"UNKNOWN", "UNDEF"} -> l
    [] l.k \in {"VAL", "HEAP_OFF", "YOUNG", "HEAP"} /\ IsUnknown(r) -> r
    [] OTHER -> AnyInt

Shl(l, r) ==
  CASE IsUnknown(l) \/ IsUnknown(r) -> Ty("UNKNOWN")
    [] IsNonZero(r) -> Even
    [] OTHER -> AnyInt

\* The other factor is one.
MulByOne(t) == IF t.k \in {"UNKNOWN", "INT", "UNDEF"} THEN t ELSE AnyInt

Mul(l, r) ==
  CASE IsUnknown(l) \/ IsUnknown(r) -> Ty("UNKNOWN")
    [] IsZero(l) \/ IsZero(r) -> Zero
    [] IsOne(l) -> MulByOne(r)
    [] IsOne(r) -> MulByOne(l)
    [] IsEven(l) \/ IsEven(r) -> Even
    [] IsOdd(l) /\ IsOdd(r) -> Odd
    [] OTHER -> AnyInt

Ext(t) ==
  CASE t.k \in {"UNKNOWN", "INT", "UNDEF"} -> t
    [] t.k \in {"YOUNG", "HEAP", "HEAP_OFF"} -> Even
    [] OTHER -> AnyInt

\* Truncation; fits: the result is still as wide as a pointer.
Trunc(fits, t) ==
  CASE t.k \in {"UNKNOWN", "UNDEF"} -> t
    [] t.k = "YOUNG" -> Crash
    [] t.k \in {"INT", "VAL"} -> AnyInt
    [] OTHER -> IF fits THEN t ELSE AnyInt

\* Comparison for equality; ne: for inequality.
CmpEq(ne, l, r) ==
  CASE IsUnknown(l) \/ IsUnknown(r) -> Ty("UNKNOWN")
    [] (IsOdd(l) /\ IsEven(r)) \/ (IsEven(l) /\ IsOdd(r)) -> IF ne THEN One ELSE Zero
    [] OTHER -> ZeroOne

\* Fits a type to a register declared ty; refine: in the second phase.
Clamp(refine, t, ty) ==
  CASE ty = "I64" -> IF t.k = "HEAP_OFF" THEN Ty("ADDR") ELSE t
    [] ty # "V64" -> t
    [] t.k = "PTR_INT" -> Ty("VAL")
    [] t.k \in {"PTR", "HEAP_OFF", "PTR_NULL"} -> Ty("HEAP")
    [] t.k \in {"ADDR_NULL", "ADDR"} -> Ty("UNDEF")
    [] t.k = "ADDR_INT" -> IF refine THEN Odd ELSE Ty("VAL")
    [] t.k = "INT" -> Mask(Masked(t.m.value \cup {0}, t.m.known \cup {0}))
    [] OTHER -> t

\* The most general type of a register; I64 is the type of pointers.
Infer(ty) ==
  CASE ty = "V64" -> Ty("VAL")
    [] ty = "I64" -> Ty("PTR_INT")
    [] OTHER -> AnyInt
=============================================================================
