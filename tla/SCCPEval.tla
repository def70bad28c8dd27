------------------------------ MODULE SCCPEval ------------------------------
(***************************************************************************)
(* What SCCP makes of an instruction once its operands are known: the      *)
(* operators of passes/sccp/eval.cpp, the comparisons of compare.cpp and   *)
(* the feature flags of x86.cpp.  Integers have the width of a pointer; a  *)
(* narrow integer has its ones among the Narrow bits.  Operands for which  *)
(* the code has no case (a sum of two pointers, a comparison with a range) *)
(* are not evaluated by any program of the runs.                           *)
(***************************************************************************)
EXTENDS Lattice, FiniteSets, FiniteSetsExt

CONSTANTS
  Narrow,       \* the bits of a narrow integer
  Atoms,        \* symbols of data
  SymAlign,     \* alignment of symbols
  ObjectAlign,  \* alignment of frame objects, powers of two
  FloatRank,    \* the order of the floating-point constants that are numbers
  FloatInt,     \* the constants that are integers, and which
  FloatBits,    \* their representation
  Features      \* bits of the feature word that the target is known to have

Width == Cardinality(Bits)

ASSUME EvalAssumption ==
  /\ Width \in Nat /\ Bits = 0 .. Width - 1
  /\ Narrow = 0 .. Cardinality(Narrow) - 1 /\ Narrow \subseteq Bits /\ Narrow # {}
  /\ Atoms \subseteq Syms
  /\ DOMAIN FloatRank \subseteq Floats /\ FloatZeros \subseteq DOMAIN FloatRank
  /\ SymAlign \in [Syms -> Nat]
  /\ \A o \in Objects : \E n \in Bits : ObjectAlign[o] = 2 ^ n
  /\ \A f \in DOMAIN FloatInt : FloatInt[f] \subseteq Bits
  /\ \A z \in FloatZeros : z \in DOMAIN FloatInt /\ FloatInt[z] = {}
  /\ FloatBits \in [Floats -> SUBSET Bits]
  /\ Features \subseteq Bits

-----------------------------------------------------------------------------
(* Integers of Width bits (llvm::APInt)                                    *)

Num(b)     == MapThenSumSet(LAMBDA i : 2 ^ i, b)
Signed(b)  == Num(b) - (IF Width - 1 \in b THEN 2 ^ Width ELSE 0)
Wrapped(n) == {i \in Bits : (n \div 2 ^ i) % 2 = 1}

IntOf(n) == CreateInteger(Wrapped(n))
Flag(t) == CreateInteger(IF t THEN {0} ELSE {})

\* Division of integers that rounds towards zero.
Quotient(a, b) ==
  LET Abs(n) == IF n < 0 THEN 0 - n ELSE n
      q == Abs(a) \div Abs(b)
  IN IF (a < 0) = (b < 0) THEN q ELSE 0 - q

Shifted(op, b, n) ==
  CASE op = "sll"  -> {i \in Bits : i - n \in b}
    [] op = "srl"  -> {i \in Bits : i + n \in b}
    [] op = "sra"  -> {i \in Bits : (IF i + n < Width THEN i + n ELSE Width - 1) \in b}
    [] op = "rotl" -> {i \in Bits : (i - n) % Width \in b}
    [] op = "rotr" -> {i \in Bits : (i + n) % Width \in b}

-----------------------------------------------------------------------------
(* Unary operators                                                         *)

EvalNeg(v) == IntOf(0 - Num(v.bits))

\* The top bit of a narrow integer is copied to the bits above it.
SignExtended(b) ==
  IF Cardinality(Narrow) - 1 \in b THEN b \cup (Bits \ Narrow) ELSE b

EvalSExt(v) ==
  CASE Is(v, "int")   -> CreateInteger(SignExtended(v.bits))
    [] v = FloatZero  -> CreateInteger({})
    [] OTHER          -> Overdefined

\* A zero extension, also of a floating-point number that is an integer.
EvalZExt(v) ==
  CASE Is(v, "int")  -> v
    [] Is(v, "float") /\ v.float \in DOMAIN FloatInt -> CreateInteger(FloatInt[v.float])
    [] v = FloatZero -> CreateInteger({})
    [] OTHER         -> Overdefined

EvalTrunc(v) == IF Is(v, "int") THEN CreateInteger(v.bits \cap Narrow) ELSE Overdefined

EvalBitCast(v) ==
  CASE Is(v, "float") -> CreateInteger(FloatBits[v.float])
    [] v = FloatZero  -> Overdefined
    [] OTHER          -> v

\* Operators without a rule: abs, sqrt, sin, cos, exp, log, ceil, floor, popcount...
EvalUnary(op, v) ==
  IF v \in {Overdefined, Undefined} THEN v
  ELSE CASE op = "neg"     -> EvalNeg(v)
         [] op = "sext"    -> EvalSExt(v)
         [] op \in {"zext", "xext"} -> EvalZExt(v)
         [] op = "trunc"   -> EvalTrunc(v)
         [] op = "bitcast" -> EvalBitCast(v)
         [] OTHER          -> Overdefined

-----------------------------------------------------------------------------
(* Binary operators                                                        *)

BothInts(l, r) == Is(l, "int") /\ Is(r, "int")
HasOffset(v) == v.kind \in {"frame", "global"}
Moved(v, n) == [v EXCEPT !.off = @ + n]

EvalAdd(l, r) ==
  CASE BothInts(l, r)                 -> IntOf(Num(l.bits) + Num(r.bits))
    [] Is(l, "int") /\ HasOffset(r)   -> Moved(r, Signed(l.bits))
    [] HasOffset(l) /\ Is(r, "int")   -> Moved(l, Signed(r.bits))
    [] Is(l, "frame") /\ ~Is(r, "int")  -> Pointer
    [] Is(l, "global") /\ ~Is(r, "int") -> CreateRange(l.sym)
    [] l.kind \in {"pointer", "range"}  -> l
    [] Is(r, "global") /\ l.kind \in {"overdefined", "mask", "float", "float_zero"} ->
         CreateRange(r.sym)
    [] OTHER -> Overdefined

EvalSub(l, r) ==
  CASE BothInts(l, r)               -> IntOf(Num(l.bits) - Num(r.bits))
    [] HasOffset(l) /\ Is(r, "int") -> Moved(l, 0 - Signed(r.bits))
    [] OTHER                        -> Overdefined

AndMask(i, m) == CreateMask(m.known, m.value \cap i.bits \cap m.known)

AlignOf(v) == IF Is(v, "frame") THEN ObjectAlign[v.obj] ELSE SymAlign[v.sym]

\* The bits that the alignment of an object leaves zero.
EvalAnd(l, r) ==
  CASE BothInts(l, r)                -> CreateInteger(l.bits \cap r.bits)
    [] Is(l, "int") /\ Is(r, "mask") -> AndMask(l, r)
    [] Is(l, "mask") /\ Is(r, "int") -> AndMask(r, l)
    [] HasOffset(l) /\ Is(r, "int")  ->
         IF l.off = 0 /\ Num(r.bits) < AlignOf(l) THEN CreateInteger({}) ELSE Overdefined
    [] OTHER -> Overdefined

FrameOr(v, i) ==
  IF v.off % ObjectAlign[v.obj] = 0 /\ Num(i.bits) < ObjectAlign[v.obj]
    THEN Moved(v, Num(i.bits))
    ELSE Overdefined

EvalOr(l, r) ==
  CASE BothInts(l, r)                 -> CreateInteger(l.bits \cup r.bits)
    [] Is(l, "int") /\ Is(r, "frame") -> FrameOr(r, l)
    [] Is(l, "frame") /\ Is(r, "int") -> FrameOr(l, r)
    [] OTHER -> Overdefined

EvalXor(l, r) ==
  IF BothInts(l, r)
    THEN CreateInteger((l.bits \ r.bits) \cup (r.bits \ l.bits))
    ELSE Overdefined

EvalOUAdd(l, r) ==
  IF BothInts(l, r) THEN Flag(Num(l.bits) + Num(r.bits) >= 2 ^ Width) ELSE Overdefined

EvalOUMul(l, r) ==
  IF BothInts(l, r) THEN Flag(Num(l.bits) * Num(r.bits) >= 2 ^ Width) ELSE Overdefined

EvalOSAdd(l, r) ==
  LET sum == Signed(l.bits) + Signed(r.bits)
  IN IF BothInts(l, r) THEN Flag(sum # Signed(Wrapped(sum))) ELSE Overdefined

EvalUDiv(l, r) ==
  IF ~BothInts(l, r) THEN Overdefined
  ELSE IF r.bits = {} THEN Undefined
  ELSE IntOf(Num(l.bits) \div Num(r.bits))

EvalSDiv(l, r) ==
  IF ~BothInts(l, r) THEN Overdefined
  ELSE IF r.bits = {} THEN Undefined
  ELSE IntOf(Quotient(Signed(l.bits), Signed(r.bits)))

EvalMul(l, r) ==
  IF BothInts(l, r) THEN IntOf(Num(l.bits) * Num(r.bits)) ELSE Overdefined

\* Sums and products of floating-point numbers: only zeros are looked at.
EvalFAdd(l, r) == IF l = FloatZero THEN r ELSE IF r = FloatZero THEN l ELSE Overdefined
EvalFMul(l, r) ==
  IF \E v \in {l, r} : Is(v, "float") /\ v.float \in FloatZeros THEN FloatZero ELSE Overdefined

\* A shift of something that is not known still makes the low bits zero.
EvalBitwise(op, l, r) ==
  LET n == Num(r.bits)
  IN IF ~Is(r, "int") THEN Overdefined
     ELSE CASE Is(l, "int")  -> CreateInteger(Shifted(op, l.bits, n))
            [] Is(l, "mask") -> CreateMask(Shifted(op, l.known, n), Shifted(op, l.value, n))
            [] IsPointerLike(l) /\ n = 0 -> l
            [] (l = Overdefined \/ (IsPointerLike(l) /\ n # 0)) /\ op = "sll" ->
                 CreateMask({i \in Bits : i < n}, {})
            [] OTHER -> Overdefined

\* Operators without a rule: remainders, high products, powers, other overflows.
EvalBinary(op, l, r) ==
  IF Undefined \in {l, r} THEN Undefined
  ELSE CASE op = "add" -> EvalAdd(l, r)
         [] op = "sub" -> EvalSub(l, r)
         [] op = "and" -> EvalAnd(l, r)
         [] op = "or"  -> EvalOr(l, r)
         [] op = "xor" -> EvalXor(l, r)
         [] op = "mul" -> EvalMul(l, r)
         [] op = "udiv" -> EvalUDiv(l, r)
         [] op = "sdiv" -> EvalSDiv(l, r)
         [] op = "ouadd" -> EvalOUAdd(l, r)
         [] op = "oumul" -> EvalOUMul(l, r)
         [] op = "osadd" -> EvalOSAdd(l, r)
         [] op = "fadd" -> EvalFAdd(l, r)
         [] op = "fmul" -> EvalFMul(l, r)
         [] op \in {"sll", "srl", "sra", "rotl", "rotr"} -> EvalBitwise(op, l, r)
         [] OTHER -> Overdefined

-----------------------------------------------------------------------------
(* Comparisons.  A condition has a relation (rel) and says whether it is   *)
(* one of the U conditions (u): unsigned for integers, true of unordered   *)
(* numbers.                                                                *)

Related(rel, a, b) ==
  CASE rel = "eq" -> a = b
    [] rel = "ne" -> a # b
    [] rel = "lt" -> a < b
    [] rel = "le" -> a <= b
    [] rel = "gt" -> a > b
    [] rel = "ge" -> a >= b

CompareInt(l, r, cc) ==
  IF cc.u THEN Related(cc.rel, Num(l), Num(r)) ELSE Related(cc.rel, Signed(l), Signed(r))

Ordered(f, g) == {f, g} \subseteq DOMAIN FloatRank
CompareFloat(f, g, cc) ==
  CASE cc.rel = "o"  -> Ordered(f, g)
    [] cc.rel = "uo" -> ~Ordered(f, g)
    [] OTHER -> IF Ordered(f, g) THEN Related(cc.rel, FloatRank[f], FloatRank[g]) ELSE cc.u

Unequal(cc) == IF cc.rel \in {"eq", "ne"} THEN Flag(cc.rel = "ne") ELSE Overdefined

\* An address and an integer below all addresses; lower says on which side it is.
IntOrder(cc, lower) ==
  IF cc.rel \in {"eq", "ne"} THEN Flag(cc.rel = "ne") ELSE Flag((cc.rel \in {"lt", "le"}) = lower)

\* Offsets decide within an object.
CompareFrame(l, r, cc) ==
  IF cc.rel \in {"eq", "ne"} THEN Flag((cc.rel = "eq") = (l = r))
  ELSE IF l.obj = r.obj THEN Flag(Related(cc.rel, l.off, r.off))
  ELSE Undefined

CompareGlobal(l, r, cc) ==
  IF {l.sym, r.sym} \cap Weak # {} THEN Overdefined
  ELSE IF cc.rel \in {"eq", "ne"} THEN Flag((cc.rel = "eq") = (l = r))
  ELSE IF l.sym \in Atoms /\ l.sym = r.sym THEN Flag(Related(cc.rel, l.off, r.off))
  ELSE Overdefined

\* A known bit that differs makes a mask and an integer different.
CompareMask(m, i, cc) ==
  IF m.known \cap i.bits = m.value THEN Overdefined ELSE Unequal(cc)

\* The comparison once the left operand is of some kind, the right one not undefined.
CmpInt(i, r, cc) ==
  CASE Is(r, "int")  -> Flag(CompareInt(i.bits, r.bits, cc))
    [] Is(r, "mask") -> CompareMask(r, i, cc)
    [] IsPointerLike(r) /\ i.bits = {} /\ ~(Is(r, "global") /\ r.sym \in Weak) -> IntOrder(cc, TRUE)
    [] OTHER -> Overdefined

CmpFrame(l, r, cc) ==
  CASE Is(r, "frame")  -> CompareFrame(l, r, cc)
    [] Is(r, "global") -> Unequal(cc)
    [] Is(r, "int") /\ r.bits = {} -> IntOrder(cc, FALSE)
    [] OTHER -> Overdefined

\* Compared with a range of addresses the result is an address.
CmpGlobal(l, r, cc) ==
  CASE Is(r, "global") -> CompareGlobal(l, r, cc)
    [] Is(r, "int") /\ r.bits \subseteq {0} /\ l.sym \notin Weak -> IntOrder(cc, FALSE)
    [] Is(r, "range")  -> IF l.sym = r.sym THEN r ELSE Pointer
    [] OTHER -> Overdefined

CmpPointer(r, cc) == IF Is(r, "int") /\ r.bits = {} THEN IntOrder(cc, FALSE) ELSE Overdefined

CmpRange(r, cc) == IF Is(r, "int") /\ r.bits = {} THEN IntOrder(cc, FALSE) ELSE Overdefined

CmpMask(m, r, cc) == IF Is(r, "int") THEN CompareMask(m, r, cc) ELSE Overdefined

CmpFloat(l, r, cc) ==
  IF Is(r, "float") THEN Flag(CompareFloat(l.float, r.float, cc)) ELSE Overdefined

\* VisitCmpInst once both operands are known.
EvalCmp(l, r, cc) ==
  IF l \in {Overdefined, FloatZero} THEN Overdefined
  ELSE IF Undefined \in {l, r} THEN Undefined
  ELSE CASE Is(l, "float")  -> CmpFloat(l, r, cc)
         [] Is(l, "int")    -> CmpInt(l, r, cc)
         [] Is(l, "mask")   -> CmpMask(l, r, cc)
         [] Is(l, "frame")  -> CmpFrame(l, r, cc)
         [] Is(l, "global") -> CmpGlobal(l, r, cc)
         [] l = Pointer     -> CmpPointer(r, cc)
         [] Is(l, "range")  -> CmpRange(r, cc)

-----------------------------------------------------------------------------
(* The cpuid instruction: result idx for a leaf and a subleaf              *)

FeatureLeaf  == 1
StateLeaf    == 3     \* leaf 0xD
FeatureWord  == IF Features = {} THEN Overdefined ELSE CreateMask(Features, Features)

EvalCpuId(leaf, sub, idx) ==
  IF /\ Is(leaf, "int")
     /\ \/ Num(leaf.bits) = FeatureLeaf /\ idx = 2
        \/ Num(leaf.bits) = StateLeaf /\ idx = 0 /\ sub = CreateInteger({0})
    THEN FeatureWord
    ELSE Overdefined

=============================================================================
