---------------------------- MODULE SymbolicValue ----------------------------
(***************************************************************************)
(* The values of the symbolic pre-evaluator                                *)
(* (src/passes/pre_eval/symbolic_value.cpp and .h).                        *)
(*                                                                         *)
(* A value is a record: its kind k, the width w of an integer, the integer *)
(* (or bound, or bits of a mask, or float) i, the known bits m of a mask,  *)
(* the pointer p, and the instruction it was computed by, o = <<frame,     *)
(* instruction>>.  The kind "fail" stands for an llvm_unreachable or a     *)
(* failed assertion: the compiler stops.                                   *)
(*                                                                         *)
(* Types are narrow ("I8": one byte), wide ("I64": a word of WordBytes     *)
(* bytes, the size of a bucket of memory) or "F64".                        *)
(*                                                                         *)
(* Sets of addresses of the symbolic pre-evaluator                         *)
(* (src/passes/pre_eval/symbolic_pointer.cpp and .h).  A pointer is a      *)
(* record of sets:                                                         *)
(*   obj   <<object, offset>>, an exact place in an object                 *)
(*   rng   objects into which it may point anywhere                        *)
(*   ext   <<extern, offset>>         extr  externs, at any offset         *)
(*   fun   functions      blk  blocks      stk  frames whose stack it is   *)
(***************************************************************************)
EXTENDS Integers, FiniteSets, Sequences, Bitwise

NoAddress == [obj |-> {}, rng |-> {}, ext |-> {}, extr |-> {}, fun |-> {},
              blk |-> {}, stk |-> {}]

\* The constructors.
ObjectAt(o, off) == [NoAddress EXCEPT !.obj = {<<o, off>>}]
ExternAt(e, off) == [NoAddress EXCEPT !.ext = {<<e, off>>}]
FuncAt(f)        == [NoAddress EXCEPT !.fun = {f}]
BlockAt(b)       == [NoAddress EXCEPT !.blk = {b}]
StackOf(i)       == [NoAddress EXCEPT !.stk = {i}]

\* The number of addresses that address_iterator visits.
NumAddresses(p) == Cardinality(p.obj) + Cardinality(p.rng) + Cardinality(p.ext)
           + Cardinality(p.extr) + Cardinality(p.fun) + Cardinality(p.blk)
           + Cardinality(p.stk)

\* std::next(begin()) = end() of a pointer which is not empty.
Single(p) == NumAddresses(p) = 1

\* SymbolicAddress::IsPrecise, of the only address.
IsPrecise(p) == p.rng = {} /\ p.extr = {}

Objects(S)   == {x[1] : x \in S}
ObjectsOf(p) == Objects(p.obj) \cup p.rng

\* SymbolicPointer::Offset: functions and blocks have no offset and are left
\* out.
Offset(p, adjust) ==
  [p EXCEPT !.obj = {<<x[1], x[2] + adjust>> : x \in p.obj},
            !.ext = {<<x[1], x[2] + adjust>> : x \in p.ext},
            !.fun = {}, !.blk = {}]

\* SymbolicPointer::Decay.
Decay(p) ==
  [p EXCEPT !.obj = {}, !.rng = ObjectsOf(p),
            !.ext = {}, !.extr = p.extr \cup Objects(p.ext),
            !.fun = {}, !.blk = {}]

\* The exact places which SymbolicPointer::Merge keeps: those of both, and
\* those of q whose object p does not have.  An exact place of p alone
\* becomes a range, since the code computes the objects of q from q's ranges
\* and from p's own exact places.
Exact(p, q) ==
  LET inThis == ObjectsOf(p)
      inThat == q.rng \cup Objects(p.obj)
  IN  (p.obj \cap q.obj)
        \cup {x \in p.obj : x[1] \notin inThat}
        \cup {x \in q.obj : x[1] \notin inThis}

\* SymbolicPointer::Merge and LUB.  An extern known at two offsets becomes a
\* range and keeps the first of them.
LUB(p, q) ==
  LET kept == Exact(p, q)
      also == {x \in q.ext : \E y \in p.ext : y[1] = x[1] /\ y[2] # x[2]}
  IN  [obj  |-> kept,
       rng  |-> (ObjectsOf(p) \cup q.rng) \ Objects(kept),
       ext  |-> p.ext \cup (q.ext \ also),
       extr |-> p.extr \cup q.extr \cup Objects(also),
       fun  |-> p.fun \cup q.fun,
       blk  |-> p.blk \cup q.blk,
       stk  |-> p.stk \cup q.stk]

\* SymbolicPointer::Add of the sets of a closure.
AddObjects(p, S) == [p EXCEPT !.rng = @ \cup S]
AddFuncs(p, S)   == [p EXCEPT !.fun = @ \cup S]
AddStacks(p, S)  == [p EXCEPT !.stk = @ \cup S]

-----------------------------------------------------------------------------
\* The places of a program a pointer stands for, of objects alone.
Covers(p, o, off) == <<o, off>> \in p.obj \/ o \in p.rng

-----------------------------------------------------------------------------
CONSTANTS
  ByteBits,   \* bits of a byte (8)
  WordBytes   \* bytes of a word and of a bucket (8)

ASSUME WidthAssumption ==
  ByteBits \in Nat \ {0} /\ WordBytes \in Nat \ {0, 1}

GetSize(t)     == IF t = "I8" THEN 1 ELSE WordBytes
GetBitWidth(t) == GetSize(t) * ByteBits
WordBits       == WordBytes * ByteBits

\* APInt: integers modulo 2^w.
Wrap(x, w)        == x % 2^w
IsNonNegative(x, w) == x < 2^(w - 1)
Signed(x, w)      == IF IsNonNegative(x, w) THEN x ELSE x - 2^w
SExtOrTrunc(x, w, v) == Wrap(Signed(x, w), v)
UMin(x, y)        == IF x < y THEN x ELSE y

-----------------------------------------------------------------------------
(* Constructors: all without an origin, which Pin adds. *)

NoOrigin == <<0, 0>>

Of(k) == [k |-> k, w |-> 0, i |-> 0, m |-> 0, p |-> NoAddress, o |-> NoOrigin]

Fail            == Of("fail")
Undefined       == Of("undef")
Scalar          == Of("scalar")
Integer(x, w)   == [Of("int") EXCEPT !.i = Wrap(x, w), !.w = w]
LowerBoundedInteger(x, w) == [Of("lb") EXCEPT !.i = Wrap(x, w), !.w = w]
Mask(known, x, w) ==
  [Of("mask") EXCEPT !.m = Wrap(known, w), !.i = Wrap(x, w), !.w = w]
Float(x)        == [Of("float") EXCEPT !.i = x]
Pointer(p)      == [Of("ptr") EXCEPT !.p = p]
Nullable(p)     == [Of("nullable") EXCEPT !.p = p]
Value(p)        == [Of("value") EXCEPT !.p = p]

\* SymbolicValue::Pin.
Pin(v, frame, ref) == IF v.k = "fail" THEN v ELSE [v EXCEPT !.o = <<frame, ref>>]

IsPointerLike(v) == v.k \in {"ptr", "nullable", "value"}
IsNull(v)        == v.k = "int" /\ v.i = 0

\* The assignment of a value (operator=) has no case for a mask.
Assigned(v) == IF v.k = "mask" THEN Fail ELSE v

-----------------------------------------------------------------------------
(* Truth, casts *)

\* SymbolicValue::IsTrue, a bit of the bound standing for the bound.
IsTrue(v) ==
  \/ v.k = "lb"   /\ v.i % 2 = 1
  \/ v.k = "mask" /\ (v.i & v.m) % 2 = 1
  \/ v.k = "int"  /\ v.i # 0
  \/ v.k = "ptr"

\* SymbolicValue::IsFalse: of an integer, only the lowest bit is asked.
IsFalse(v) ==
  \/ v.k = "mask" /\ v.m % 2 = 1 /\ v.i % 2 = 0
  \/ v.k = "int"  /\ v.i % 2 = 0

\* Neither question has an answer for these kinds.
NoTruth(v) == v.k \in {"float", "undef", "fail"}

\* SymbolicValue::Cast to the type of a load.
Cast(v, t) ==
  CASE v.k \in {"undef", "scalar", "fail"} -> v
    [] v.k = "int" /\ t # "F64"   -> Integer(v.i, GetBitWidth(t))
    [] v.k \in {"mask", "float"}  ->
         IF v.k = "float" /\ t # "F64" THEN Scalar ELSE Fail
    [] IsPointerLike(v) /\ t = "I64" -> v
    [] OTHER                      -> Scalar

-----------------------------------------------------------------------------
(* SymbolicValue::Merge *)

\* Two integers, or an integer and a bound: a bound if both are known not to
\* be negative.  Bounds of different widths trip an assertion of APInt.
MergeIntegers(a, b) ==
  LET w  == IF a.w > b.w THEN a.w ELSE b.w
      x  == SExtOrTrunc(a.i, a.w, w)
      y  == SExtOrTrunc(b.i, b.w, w)
      positive == \A v \in {a, b} : v.k = "int" => IsNonNegative(v.i, v.w)
  IN  CASE b.k = "lb" /\ a.w # b.w /\ positive -> Fail
        [] a.k = "int" /\ b.k = "int" /\ x = y -> Integer(x, w)
        [] positive -> LowerBoundedInteger(UMin(x, y), w)
        [] OTHER    -> Scalar

\* Two masks: the bits known in both.  The merged bits are those in which the
\* two agree, whatever they agree on.
MergeMasks(a, b, o) ==
  LET known == a.m & b.m
      bits  == Wrap(-1 - (a.i ^^ b.i), a.w)
  IN  IF known & bits # 0
        THEN [Mask(known, bits, a.w) EXCEPT !.o = o]
        ELSE Scalar

\* A pointer or a null pointer, or any integer.
OrInteger(p, v, ptr) ==
  IF IsNull(v) /\ ptr THEN Nullable(p) ELSE Value(p)

\* The value kinds in which Merge stops with "not implemented".
Unmergeable(a, b) ==
  \/ a.k = "fail" \/ b.k = "fail"
  \/ a.k = "undef" /\ b.k = "mask"
  \/ a.k = "nullable" /\ b.k \in {"mask", "float"}
  \/ a.k = "int" /\ b.k = "mask"
  \/ a.k = "float" /\ b.k \in {"lb", "mask", "int"}

\* SymbolicValue::Merge.  What is assigned as a new value has no origin; what
\* is changed in place keeps the one both have.
Merge(a, b) ==
  LET o == IF a.o = b.o THEN a.o ELSE NoOrigin
  IN  CASE a = b               -> a
        [] Unmergeable(a, b)   -> Fail
        [] a.k = "undef"       -> b
        [] b.k = "undef"       -> [a EXCEPT !.o = o]
        [] a.k = "ptr"         ->
             IF IsPointerLike(b)
               THEN [a EXCEPT !.k = b.k, !.p = LUB(a.p, b.p), !.o = o]
               ELSE [OrInteger(a.p, b, TRUE) EXCEPT !.o = o]
        [] a.k = "value"       ->
             [a EXCEPT !.p = IF IsPointerLike(b) THEN LUB(a.p, b.p) ELSE a.p,
                       !.o = o]
        [] a.k = "nullable"    ->
             IF IsPointerLike(b)
               THEN [Of(IF b.k = "value" THEN "value" ELSE "nullable")
                       EXCEPT !.p = LUB(a.p, b.p)]
               ELSE OrInteger(a.p, b, TRUE)
        [] IsPointerLike(b)    -> OrInteger(b.p, a, b.k = "ptr")
        [] a.k = "mask" /\ b.k = "mask" -> MergeMasks(a, b, o)
        [] {a.k, b.k} \subseteq {"int", "lb"} -> MergeIntegers(a, b)
        [] a.k = "float" /\ b.k = "float" /\ a.i = b.i -> Float(a.i)
        [] OTHER               -> Scalar
=============================================================================
