------------------------------- MODULE Lattice -------------------------------
(***************************************************************************)
(* The lattice of passes/sccp/lattice.cpp: what constant propagation knows *)
(* of an instruction.  An integer is the set of its bits that are one; all *)
(* integers have one width.  A floating-point constant is abstracted to    *)
(* its name.                                                               *)
(***************************************************************************)
EXTENDS Integers

CONSTANTS
  Bits,       \* positions of the bits of an integer
  Floats,     \* floating-point constants
  FloatZeros, \* the ones that are zero
  Syms,       \* global symbols
  Weak,       \* the symbols that may be missing at run time
  Offsets,    \* offsets into a symbol or a frame object
  Objects     \* frame objects

ASSUME LatticeAssumption ==
  /\ Bits # {}
  /\ Weak \subseteq Syms
  /\ FloatZeros \subseteq Floats
  /\ Offsets \subseteq Int

Unknown     == [kind |-> "unknown"]
Overdefined == [kind |-> "overdefined"]
Undefined   == [kind |-> "undefined"]
Pointer     == [kind |-> "pointer"]
FloatZero   == [kind |-> "float_zero"]
CreateInteger(b)    == [kind |-> "int", bits |-> b]
CreateMask(k, v)    == [kind |-> "mask", known |-> k, value |-> v]
CreateFloat(f)      == [kind |-> "float", float |-> f]
CreateFrame(o, off) == [kind |-> "frame", obj |-> o, off |-> off]
CreateGlobal(g, off) == [kind |-> "global", sym |-> g, off |-> off]
CreateRange(g)      == [kind |-> "range", sym |-> g]

IntConstants == {CreateInteger(b) : b \in SUBSET Bits}
Masks == {CreateMask(m[1], m[2]) :
            m \in {n \in (SUBSET Bits) \X (SUBSET Bits) : n[1] # {} /\ n[2] \subseteq n[1]}}
Frames  == {CreateFrame(p[1], p[2]) : p \in Objects \X Offsets}
Globals == {CreateGlobal(p[1], p[2]) : p \in Syms \X Offsets}
Ranges  == {CreateRange(g) : g \in Syms}
FloatConstants == {CreateFloat(f) : f \in Floats}

LatticeValues ==
  {Unknown, Overdefined, Undefined, Pointer, FloatZero} \cup IntConstants \cup Masks
    \cup Frames \cup Globals \cup Ranges \cup FloatConstants

Is(v, kind)      == v.kind = kind
IsIntegral(v)    == v.kind \in {"int", "mask"}
IsPointerLike(v) == v.kind \in {"pointer", "frame", "global"}

IsTrue(v) ==
  \/ Is(v, "int") /\ v.bits # {}
  \/ Is(v, "float") /\ v.float \notin FloatZeros
  \/ Is(v, "mask") /\ v.known \cap v.value # {}
  \/ v.kind \in {"frame", "global", "pointer", "range"}

IsFalse(v) ==
  \/ Is(v, "int") /\ v.bits = {}
  \/ Is(v, "float") /\ v.float \in FloatZeros
  \/ Is(v, "float_zero")

-----------------------------------------------------------------------------
(* The least upper bound                                                   *)

KnownBits(v) == IF Is(v, "int") THEN Bits ELSE v.known
ValueBits(v) == IF Is(v, "int") THEN v.bits ELSE v.value

\* The bits that both values know and agree on.
Agreed(a, b) ==
  {i \in KnownBits(a) \cap KnownBits(b) : i \in ValueBits(a) <=> i \in ValueBits(b)}

\* The address of a weak symbol, which is null when the symbol is missing.
MaybeNull(v) == Is(v, "global") /\ v.sym \in Weak /\ v.off = 0

\* Two different pointers; when both are globals only the first one is asked.
PointerLUB(a, b) ==
  IF MaybeNull(IF Is(a, "global") THEN a ELSE b) THEN Overdefined ELSE Pointer

LUB(a, b) ==
  IF a = b \/ b = Unknown THEN a
  ELSE IF a = Unknown THEN b
  ELSE IF b = Undefined THEN a
  ELSE IF a = Undefined THEN b
  ELSE IF IsIntegral(a) /\ IsIntegral(b)
    THEN IF Agreed(a, b) = {}
           THEN Overdefined
           ELSE CreateMask(Agreed(a, b), Agreed(a, b) \cap ValueBits(a))
  ELSE IF IsPointerLike(a) /\ IsPointerLike(b) THEN PointerLUB(a, b)
  ELSE Overdefined

-----------------------------------------------------------------------------
(* What a lattice value promises of a run: the values the instruction may  *)
(* have.  An address of the frame belongs to a function.  An undefined     *)
(* value may be replaced by any other.                                     *)

Null == CreateInteger({})

Address(f, v) == [kind |-> "stack", func |-> f, obj |-> v.obj, off |-> v.off]

IsAddress(x) == x.kind \in {"stack", "global"}

\* x is a value that an instruction of function f described by v may have.
Stands(x, v, f) ==
  \/ v = Overdefined
  \/ v # Unknown /\ x = Undefined
  \/ v.kind \in {"int", "float", "global"} /\ x = v
  \/ MaybeNull(v) /\ x = Null
  \/ Is(v, "mask") /\ Is(x, "int") /\ x.bits \cap v.known = v.value
  \/ Is(v, "frame") /\ x = Address(f, v)
  \/ v = Pointer /\ IsAddress(x)
  \/ Is(v, "range") /\ Is(x, "global") /\ x.sym = v.sym
  \/ v = FloatZero /\ Is(x, "float") /\ x.float \in FloatZeros

=============================================================================
