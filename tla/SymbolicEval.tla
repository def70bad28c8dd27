---------------------------- MODULE SymbolicEval ----------------------------
(***************************************************************************)
(* What the symbolic pre-evaluator computes for an instruction, from the   *)
(* values of its operands (src/passes/pre_eval/eval/*.cpp).                *)
(*                                                                         *)
(* Each operator of two operands is a table over the kinds of the two      *)
(* values; a pair of kinds without a row is llvm_unreachable in            *)
(* BinaryVisitor.  Alignment[o] is the alignment of object o.              *)
(***************************************************************************)
EXTENDS SymbolicValue

CONSTANT
  SmallMask   \* the masks that only look at the tag of an address (8)

\* BinaryVisitor::Evaluate: the row of a table.
Row(a, S, b, T) == a.k \in S /\ b.k \in T

Addr == {"ptr", "value", "nullable"}

\* The bound of a lower-bounded integer, as long as it is not negative.
SetLowerBounded(x, w) ==
  IF IsNonNegative(Wrap(x, w), w) THEN LowerBoundedInteger(x, w) ELSE Scalar

\* OffsetPointer: the offset is signed.
OffsetPointer(p, v) == Offset(p, Signed(v.i, v.w))

-----------------------------------------------------------------------------
(* arith.cpp *)

\* SymbolicEval::VisitAddInst, of an integer nothing is known about and a
\* pointer.
AddUnknown(a, b) ==
  IF b.k = "ptr" THEN Pointer(Decay(b.p)) ELSE Value(Decay(b.p))

VisitAdd(a, b) ==
  CASE Row(a, {"scalar"}, b, {"scalar", "int", "float"}) -> Scalar
    [] Row(a, {"int"}, b, {"scalar"}) -> Scalar
    [] Row(a, {"scalar"}, b, Addr) \/ Row(a, {"lb"}, b, {"ptr", "value"}) ->
         AddUnknown(a, b)
    [] Row(a, Addr, b, {"scalar"}) \/ Row(a, {"value"}, b, {"lb"}) ->
         AddUnknown(b, a)
    [] Row(a, {"lb", "int"}, b, {"lb", "int"}) ->
         IF a.w # b.w THEN Fail
         ELSE IF a.k = "int" /\ b.k = "int" THEN Integer(a.i + b.i, a.w)
         ELSE SetLowerBounded(a.i + b.i, a.w)
    [] Row(a, {"int"}, b, Addr) ->
         [Of(IF b.k = "ptr" THEN "ptr" ELSE "value")
            EXCEPT !.p = OffsetPointer(b.p, a)]
    [] Row(a, Addr, b, {"int"}) ->
         [Of(IF a.k = "ptr" THEN "ptr" ELSE "value")
            EXCEPT !.p = OffsetPointer(a.p, b)]
    [] Row(a, {"ptr"}, b, Addr) -> [Of(b.k) EXCEPT !.p = LUB(a.p, b.p)]
    [] Row(a, {"value"}, b, Addr) -> Value(LUB(a.p, b.p))
    [] Row(a, {"nullable"}, b, {"value"}) -> Value(LUB(b.p, a.p))
    [] OTHER -> Fail

\* SetPointerDiff: two exact places of one object differ by a constant.
PointerDiff(p, q) ==
  CASE ~(Single(p) /\ Single(q)) -> Value(LUB(p, q))
    [] p.obj # {} /\ q.obj # {} /\ Objects(p.obj) = Objects(q.obj) ->
         LET x == CHOOSE x \in p.obj : TRUE
             y == CHOOSE y \in q.obj : TRUE
         IN  Integer(x[2] - y[2], WordBits)
    [] p.rng # {} /\ q.obj = {} -> Value(LUB(p, q))
    [] OTHER -> Fail

VisitSub(a, b) ==
  CASE \/ Row(a, {"scalar"}, b, {"scalar", "int", "ptr", "value"})
       \/ Row(a, {"int"}, b, {"scalar", "value"})
       \/ Row(a, {"value"}, b, {"ptr"}) -> Scalar
    [] Row(a, {"int"}, b, {"int"}) -> Integer(a.i - b.i, a.w)
    [] Row(a, Addr, b, {"int"}) ->
         [Of(IF a.k = "ptr" THEN "ptr" ELSE "value")
            EXCEPT !.p = Offset(a.p, -Signed(b.i, b.w))]
    [] Row(a, {"ptr", "value"}, b, {"scalar"}) -> Pointer(Decay(a.p))
    [] Row(a, {"ptr"}, b, {"ptr"}) \/ Row(a, {"nullable"}, b, {"nullable"}) ->
         PointerDiff(a.p, b.p)
    [] \/ Row(a, {"value", "ptr"}, b, {"value", "nullable"})
       \/ Row(a, {"nullable"}, b, {"value"}) -> Value(LUB(a.p, b.p))
    [] OTHER -> Fail

VisitUDiv(a, b) ==
  CASE Row(a, {"int"}, b, {"int"}) ->
         IF b.i = 0 THEN Fail ELSE Integer(a.i \div b.i, a.w)
    [] Row(a, {"ptr", "value"}, b, {"int"}) -> Value(Decay(a.p))
    [] \/ Row(a, {"int"}, b, {"scalar"})
       \/ Row(a, {"lb"}, b, {"scalar", "int"}) -> Scalar
    [] OTHER -> Fail

VisitURem(a, b) ==
  CASE Row(a, {"int"}, b, {"int"}) ->
         IF b.i = 0 THEN Fail ELSE Integer(a.i % b.i, a.w)
    [] Row(a, {"scalar", "value"}, b, {"int"}) -> Scalar
    [] OTHER -> Fail

\* APInt::sdiv rounds towards zero.
SDiv(x, y) ==
  LET q == (IF x < 0 THEN -x ELSE x) \div (IF y < 0 THEN -y ELSE y)
  IN  IF (x < 0) # (y < 0) THEN -q ELSE q

VisitSDiv(a, b) ==
  CASE Row(a, {"int"}, b, {"int"}) ->
         IF b.i = 0 THEN Fail
         ELSE Integer(SDiv(Signed(a.i, a.w), Signed(b.i, b.w)), a.w)
    [] Row(a, {"value"}, b, {"int"}) -> Value(Decay(a.p))
    [] Row(a, {"scalar"}, b, {"scalar", "int"}) -> Scalar
    [] OTHER -> Fail

VisitMul(a, b) ==
  CASE Row(a, {"int"}, b, {"int"}) -> Integer(a.i * b.i, a.w)
    [] \/ Row(a, {"scalar"}, b, {"scalar", "int"})
       \/ Row(a, {"int"}, b, {"ptr", "value"})
       \/ Row(a, {"ptr", "value"}, b, {"int"}) -> Scalar
    [] OTHER -> Fail

VisitOUMul(a, b, t) ==
  CASE Row(a, {"int"}, b, {"int"}) ->
         Integer(IF a.i * b.i >= 2^a.w THEN 1 ELSE 0, GetBitWidth(t))
    [] Row(a, {"int"}, b, {"value"}) \/ Row(a, {"value"}, b, {"int"}) -> Scalar
    [] OTHER -> Fail

VisitOUAdd(a, b, t) ==
  IF Row(a, {"int"}, b, {"int"})
    THEN Integer(IF a.i + b.i >= 2^a.w THEN 1 ELSE 0, GetBitWidth(t))
    ELSE Fail

-----------------------------------------------------------------------------
(* bitwise.cpp *)

\* PointerAnd: the low bits of an exact place in an aligned object.  A mask
\* of zero gives the pointer back, a mask of all ones divides by zero.
PointerAnd(p, r, nullable, Alignment) ==
  LET s == Signed(r.i, r.w)
      x == CHOOSE x \in p.obj : TRUE
  IN  CASE r.i = 0 -> Pointer(p)
        [] Single(p) /\ p.obj # {} ->
             IF s = -1 THEN Fail
             ELSE IF s > 0 /\ Alignment[x[1]] % (s + 1) = 0
               THEN LET bits == Wrap(x[2], WordBits) & s
                    IN  IF nullable /\ bits # 0 THEN Scalar
                        ELSE Integer(bits, WordBits)
               ELSE Value(Decay(p))
        [] ~Single(p) /\ s \in 0 .. SmallMask -> Scalar
        [] OTHER -> Value(Decay(p))

VisitAnd(a, b, Alignment) ==
  CASE \/ Row(a, {"scalar"}, b, {"scalar", "int"})
       \/ Row(a, {"int"}, b, {"scalar"}) -> Scalar
    [] Row(a, {"scalar"}, b, {"value"}) -> Value(Decay(b.p))
    [] Row(a, {"int"}, b, {"int"}) -> Integer(a.i & b.i, a.w)
    [] Row(a, {"mask"}, b, {"int"}) -> Mask(a.m, (b.i & a.i) & a.m, a.w)
    [] Row(a, {"nullable", "ptr"}, b, {"int"}) ->
         PointerAnd(a.p, b, a.k = "nullable", Alignment)
    [] Row(a, {"value"}, b, {"int", "scalar"}) -> Value(Decay(a.p))
    [] Row(a, {"value"}, b, {"ptr", "value"}) -> Value(LUB(a.p, b.p))
    [] OTHER -> Fail

VisitOr(a, b) ==
  CASE Row(a, {"scalar"}, b, {"scalar", "int"}) -> Scalar
    [] Row(a, {"int"}, b, {"int"}) -> Integer(a.i | b.i, a.w)
    [] Row(a, {"ptr", "value"}, b, {"int"}) ->
         [Of(a.k) EXCEPT !.p = IF b.i = 0 THEN a.p ELSE Decay(a.p)]
    [] Row(a, {"int"}, b, {"value"}) ->
         Value(IF a.i = 0 THEN b.p ELSE Decay(b.p))
    [] Row(a, {"ptr", "value"}, b, {"scalar"}) ->
         [Of(a.k) EXCEPT !.p = Decay(a.p)]
    [] Row(a, {"ptr"}, b, {"ptr", "value"}) -> [Of(b.k) EXCEPT !.p = LUB(a.p, b.p)]
    [] Row(a, {"value"}, b, {"value"}) -> Value(LUB(a.p, b.p))
    [] OTHER -> Fail

\* Xor with zero is a copy; the code copies the right operand in both orders.
XorCopies(a, b) ==
  \/ Row(a, {"int"}, b, {"value"}) /\ a.i = 0
  \/ Row(a, {"value"}, b, {"int"}) /\ b.i = 0

VisitXor(a, b) ==
  CASE \/ Row(a, {"scalar"}, b, {"int"}) \/ Row(a, {"lb"}, b, {"scalar"})
       \/ Row(a, {"value"}, b, Addr) \/ Row(a, {"nullable"}, b, {"nullable"}) ->
         Scalar
    [] Row(a, {"int"}, b, {"int"}) -> Integer(a.i ^^ b.i, a.w)
    [] Row(a, {"scalar", "int"}, b, {"value"}) -> Value(Decay(b.p))
    [] Row(a, {"value"}, b, {"scalar", "int"}) -> Value(Decay(a.p))
    [] OTHER -> Fail

-----------------------------------------------------------------------------
(* shift.cpp: APInt refuses to shift by more than the width. *)

Shiftable(a, b) == b.k = "int" => b.i <= a.w

VisitSll(a, b) ==
  CASE \/ Row(a, {"scalar"}, b, {"int"})
       \/ Row(a, {"int"}, b, {"scalar", "lb"}) -> Scalar
    [] Row(a, {"int", "lb"}, b, {"int"}) /\ ~Shiftable(a, b) -> Fail
    [] Row(a, {"int"}, b, {"int"}) -> Integer(a.i * 2^b.i, a.w)
    [] Row(a, {"lb"}, b, {"int"}) -> SetLowerBounded(a.i * 2^b.i, a.w)
    [] Row(a, Addr, b, {"int"}) -> Value(Decay(a.p))
    [] OTHER -> Fail

VisitSrl(a, b) ==
  CASE Row(a, {"scalar"}, b, {"scalar", "int"}) \/ Row(a, {"lb"}, b, {"int"}) ->
         Scalar
    [] Row(a, {"int"}, b, {"int"}) ->
         IF Shiftable(a, b) THEN Integer(a.i \div 2^b.i, a.w) ELSE Fail
    [] Row(a, {"ptr"}, b, {"int"}) -> Pointer(Decay(a.p))
    [] Row(a, {"value", "nullable"}, b, {"int"}) -> Value(Decay(a.p))
    [] OTHER -> Fail

VisitSra(a, b) ==
  CASE Row(a, {"scalar"}, b, {"int"}) -> Scalar
    [] Row(a, {"int"}, b, {"int"}) ->
         IF Shiftable(a, b) THEN Integer(Signed(a.i, a.w) \div 2^b.i, a.w)
         ELSE Fail
    [] Row(a, {"value"}, b, {"int"}) -> Value(Decay(a.p))
    [] OTHER -> Fail

-----------------------------------------------------------------------------
(* conv.cpp *)

\* The low bits of an exact place of an aligned object survive a truncation.
TruncPointer(p, t, Alignment) ==
  LET x     == CHOOSE x \in p.obj : TRUE
      align == Alignment[x[1]]
  IN  CASE Cardinality(p.obj) > 1 -> Fail
        [] p.rng # {}  -> Scalar
        [] p.ext # {}  -> Fail
        [] p.extr # {} -> Scalar
        [] p.fun \cup p.blk # {} \/ p.stk # {} -> Fail
        [] p.obj # {} /\ align > 1 ->
             Mask(align - 1, Wrap(x[2], WordBits) & (align - 1), GetBitWidth(t))
        [] OTHER -> Scalar

VisitTrunc(a, t, Alignment) ==
  CASE a.k = "undef" -> Undefined
    [] a.k \in {"scalar", "lb", "value", "nullable"} -> Scalar
    [] a.k = "int"   -> Integer(a.i, GetBitWidth(t))
    [] a.k = "ptr"   -> TruncPointer(a.p, t, Alignment)
    [] OTHER -> Fail

VisitZExt(a, t) ==
  CASE a.k \in {"scalar", "undef"} -> Of(a.k)
    [] a.k = "lb"    -> LowerBoundedInteger(a.i, a.w)
    [] a.k = "int"   -> IF t = "F64" THEN Scalar ELSE Integer(a.i, GetBitWidth(t))
    [] a.k \in Addr  -> Value(Decay(a.p))
    [] OTHER -> Fail

VisitSExt(a, t) ==
  CASE a.k \in {"scalar", "undef"} -> Of(a.k)
    [] a.k = "lb"    -> LowerBoundedInteger(a.i, a.w)
    [] a.k = "int"   -> Integer(Signed(a.i, a.w), GetBitWidth(t))
    [] a.k \in Addr  -> Value(Decay(a.p))
    [] OTHER -> Fail

VisitBitCast(a, t) == IF t = "F64" /\ a.k = "int" THEN Float(a.i) ELSE Fail

-----------------------------------------------------------------------------
(* cmp.cpp *)

Flag(x, t) == Integer(IF x THEN 1 ELSE 0, GetBitWidth(t))

\* The comparison of two integers.  The ordered and unordered conditions of
\* floats are treated as the plain ones, and not enumerated.
Compare(cc, x, y, w) ==
  LET s == Signed(x, w)
      u == Signed(y, w)
  IN  CASE cc = "EQ"  -> x = y  [] cc = "NE"  -> x # y
        [] cc = "LT"  -> s < u  [] cc = "ULT" -> x < y
        [] cc = "GT"  -> s > u  [] cc = "UGT" -> x > y
        [] cc = "LE"  -> s <= u [] cc = "ULE" -> x <= y
        [] cc = "GE"  -> s >= u [] cc = "UGE" -> x >= y

\* A known integer below the bound of the other operand.
CmpBound(cc, l, b, t) ==
  CASE cc = "EQ"            -> IF l < b THEN Flag(FALSE, t) ELSE Scalar
    [] cc = "NE"            -> IF l < b THEN Flag(TRUE, t) ELSE Scalar
    [] OTHER                -> Fail

CmpIntLB(cc, a, b, t) ==
  CASE ~IsNonNegative(a.i, a.w) -> Scalar
    [] cc \in {"LT", "ULT"} -> IF a.i < b.i THEN Flag(TRUE, t) ELSE Scalar
    [] cc = "GE"            -> IF a.i < b.i THEN Flag(FALSE, t) ELSE Scalar
    [] OTHER                -> CmpBound(cc, a.i, b.i, t)

CmpLBInt(cc, a, b, t) ==
  CASE ~IsNonNegative(b.i, b.w) -> Scalar
    [] cc \in {"LT", "ULT"} -> IF a.i > b.i THEN Flag(FALSE, t) ELSE Scalar
    [] OTHER                -> CmpBound(cc, b.i, a.i, t)

CmpMask(cc, a, b, t) ==
  IF a.m & (a.i ^^ b.i) = 0 THEN Scalar
  ELSE IF cc \in {"EQ", "NE"} THEN Flag(cc = "NE", t) ELSE Fail

\* Two exact addresses are the same or different.
CmpPointers(cc, p, q, t) ==
  IF /\ Single(p) /\ Single(q) /\ IsPrecise(p) /\ IsPrecise(q)
     /\ cc \in {"EQ", "NE"}
    THEN Flag((p = q) = (cc = "EQ"), t) ELSE Scalar

\* A pointer, which is not null, and a constant.
CmpPointerInt(cc, b, t) ==
  IF b.i = 0 /\ cc \in {"EQ", "NE"} THEN Flag(cc = "NE", t) ELSE Scalar

CmpIntPointer(cc, a, t) ==
  CASE a.i # 0 -> Scalar
    [] cc \in {"EQ", "NE"} -> Flag(cc = "NE", t)
    [] cc \in {"LT", "ULT", "LE", "ULE"} -> Flag(TRUE, t)
    [] OTHER -> Fail

VisitCmp(cc, a, b, t) ==
  CASE Row(a, {"int"}, b, {"int"}) -> Flag(Compare(cc, a.i, b.i, a.w), t)
    [] Row(a, {"undef"}, b, {"int"}) \/ Row(a, {"value"}, b, {"undef"}) ->
         Undefined
    [] Row(a, {"float"}, b, {"float"}) ->
         IF cc = "NE" /\ a.i = b.i THEN Flag(FALSE, t) ELSE Fail
    [] Row(a, {"ptr"}, b, {"ptr"})  -> CmpPointers(cc, a.p, b.p, t)
    [] Row(a, {"int"}, b, {"lb"})   -> CmpIntLB(cc, a, b, t)
    [] Row(a, {"lb"}, b, {"int"})   -> CmpLBInt(cc, a, b, t)
    [] Row(a, {"mask"}, b, {"int"}) -> CmpMask(cc, a, b, t)
    [] Row(a, {"ptr"}, b, {"int"})  -> CmpPointerInt(cc, b, t)
    [] Row(a, {"int"}, b, {"ptr"})  -> CmpIntPointer(cc, a, t)
    [] Row(a, {"nullable"}, b, {"int"}) -> IF b.i = 0 THEN Scalar ELSE Fail
    [] \/ Row(a, {"scalar"}, b, {"scalar", "int", "float", "ptr", "value"})
       \/ Row(a, {"int"}, b, {"scalar", "value"})
       \/ Row(a, {"lb"}, b, {"value", "lb"})
       \/ Row(a, {"ptr"}, b, {"scalar", "nullable", "value"})
       \/ Row(a, {"value"}, b, {"scalar", "lb", "int"} \cup Addr)
       \/ Row(a, {"nullable"}, b, Addr)
       \/ Row(a, {"undef"}, b, {"value"}) -> Scalar
    [] OTHER -> Fail

-----------------------------------------------------------------------------
\* SymbolicEval::VisitSelectInst: the value chosen, or the join of both as a
\* value of the select itself.
VisitSelect(c, x, y, at) ==
  CASE IsTrue(c)  -> x
    [] NoTruth(c) -> Fail
    [] IsFalse(c) -> y
    [] OTHER      -> Pin(Merge(x, y), at[1], at[2])

\* The visitor of an instruction of two operands.
VisitBinary(i, a, b, at, Alignment) ==
  IF i.op = "xor" /\ XorCopies(a, b) THEN b
  ELSE Pin(CASE i.op = "add"   -> VisitAdd(a, b)
             [] i.op = "sub"   -> VisitSub(a, b)
             [] i.op = "udiv"  -> VisitUDiv(a, b)
             [] i.op = "urem"  -> VisitURem(a, b)
             [] i.op = "sdiv"  -> VisitSDiv(a, b)
             [] i.op = "mul"   -> VisitMul(a, b)
             [] i.op = "oumul" -> VisitOUMul(a, b, i.ty)
             [] i.op = "ouadd" -> VisitOUAdd(a, b, i.ty)
             [] i.op = "and"   -> VisitAnd(a, b, Alignment)
             [] i.op = "or"    -> VisitOr(a, b)
             [] i.op = "xor"   -> VisitXor(a, b)
             [] i.op = "sll"   -> VisitSll(a, b)
             [] i.op = "srl"   -> VisitSrl(a, b)
             [] i.op = "sra"   -> VisitSra(a, b)
             [] i.op = "cmp"   -> VisitCmp(i.v, a, b, i.ty), at[1], at[2])

BinaryOps == {"add", "sub", "udiv", "urem", "sdiv", "mul", "oumul", "ouadd",
              "and", "or", "xor", "sll", "srl", "sra", "cmp"}
UnaryOps  == {"trunc", "zext", "sext", "bitcast"}

VisitUnary(i, a, at, Alignment) ==
  Pin(CASE i.op = "trunc"   -> VisitTrunc(a, i.ty, Alignment)
        [] i.op = "zext"    -> VisitZExt(a, i.ty)
        [] i.op = "sext"    -> VisitSExt(a, i.ty)
        [] i.op = "bitcast" -> VisitBitCast(a, i.ty), at[1], at[2])
=============================================================================
