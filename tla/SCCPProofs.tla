----------------------------- MODULE SCCPProofs -----------------------------
(***************************************************************************)
(* Proofs about constant propagation, for any program, any width of        *)
(* integers, any symbols and any offsets.  First the operators of the      *)
(* lattice and of the evaluator: they say of their result no more than     *)
(* what holds for all values that their operands stand for.  Then the      *)
(* solver: what its lists, its tables and its loops keep true, and that it *)
(* stops at a fixed point.  SCCPSoundProofs goes on with the runs.         *)
(***************************************************************************)
EXTENDS SCCPSound, FiniteSetTheorems, WellFoundedInduction, TLAPS

-----------------------------------------------------------------------------
(* Shapes of lattice values and of values of a run                         *)

\* What the solver may hold of an instruction that has been visited: offsets are
\* not bounded here, and a mask may know nothing.
Partial == {CreateMask(m[1], m[2]) : m \in {n \in (SUBSET Bits) \X (SUBSET Bits) : n[2] \subseteq n[1]}}
\* All that the solver may hold.
Claims ==
  {Overdefined, Undefined, Pointer, FloatZero} \cup IntConstants \cup Partial
    \cup {CreateFrame(p[1], p[2]) : p \in Objects \X Int}
    \cup {CreateGlobal(p[1], p[2]) : p \in Syms \X Int} \cup Ranges \cup FloatConstants

\* A value that an instruction has in a run.
Stack(func, obj, off) == [kind |-> "stack", func |-> func, obj |-> obj, off |-> off]
\* Numbers, addresses of symbols and addresses in a frame.
IsRunValue(x) ==
  \/ x \in {Undefined} \cup IntConstants \cup FloatConstants
  \/ \E sym \in Syms, off \in Int : x = CreateGlobal(sym, off)
  \/ \E func : \E obj \in Objects, off \in Int : x = Stack(func, obj, off)

\* The kind of a lattice value and what comes with it.
LEMMA Shapes ==
  ASSUME NEW v \in Claims
  PROVE  /\ v.kind \in {"overdefined", "undefined", "pointer", "float_zero", "int", "mask", "frame",
                        "global", "range", "float"}
         /\ v.kind = "overdefined" <=> v = Overdefined
         /\ v.kind = "undefined" <=> v = Undefined
         /\ v.kind = "pointer" <=> v = Pointer
         /\ v.kind = "float_zero" <=> v = FloatZero
         /\ v.kind = "int" => v = CreateInteger(v.bits) /\ v.bits \in SUBSET Bits
         /\ v.kind = "mask" =>
              v = CreateMask(v.known, v.value) /\ v.known \in SUBSET Bits /\ v.value \subseteq v.known
         /\ v.kind = "frame" => v = CreateFrame(v.obj, v.off) /\ v.obj \in Objects /\ v.off \in Int
         /\ v.kind = "global" => v = CreateGlobal(v.sym, v.off) /\ v.sym \in Syms /\ v.off \in Int
         /\ v.kind = "range" => v = CreateRange(v.sym) /\ v.sym \in Syms
         /\ v.kind = "float" => v = CreateFloat(v.float) /\ v.float \in Floats
         /\ v # Unknown
BY DEF Claims, IntConstants, Partial, Ranges, FloatConstants, Unknown, Overdefined, Undefined,
       Pointer, FloatZero, CreateInteger, CreateMask, CreateFloat, CreateFrame, CreateGlobal, CreateRange

\* What is built is one of them.
LEMMA Builds ==
  /\ Overdefined \in Claims /\ Undefined \in Claims /\ Pointer \in Claims /\ FloatZero \in Claims
  /\ \A b \in SUBSET Bits : CreateInteger(b) \in Claims /\ CreateInteger(b) \in IntConstants
  /\ \A k, w \in SUBSET Bits : w \subseteq k => CreateMask(k, w) \in Claims
  /\ \A o \in Objects, n \in Int : CreateFrame(o, n) \in Claims
  /\ \A g \in Syms, n \in Int : CreateGlobal(g, n) \in Claims
  /\ \A g \in Syms : CreateRange(g) \in Claims
  /\ \A x \in Floats : CreateFloat(x) \in Claims
<1>1. \A b \in SUBSET Bits : CreateInteger(b) \in Claims /\ CreateInteger(b) \in IntConstants
  BY DEF Claims, IntConstants
<1>2. ASSUME NEW k \in SUBSET Bits, NEW w \in SUBSET Bits, w \subseteq k
      PROVE  CreateMask(k, w) \in Claims
  <2>1. <<k, w>> \in {n \in (SUBSET Bits) \X (SUBSET Bits) : n[2] \subseteq n[1]}
    BY <1>2
  <2>2. CreateMask(k, w) = CreateMask(<<k, w>>[1], <<k, w>>[2])
    OBVIOUS
  <2>3. CreateMask(k, w) \in Partial
    BY <2>1, <2>2 DEF Partial
  <2> QED BY <2>3 DEF Claims
<1>3. ASSUME NEW o \in Objects, NEW n \in Int PROVE CreateFrame(o, n) \in Claims
  <2>1. CreateFrame(o, n) = CreateFrame(<<o, n>>[1], <<o, n>>[2]) /\ <<o, n>> \in Objects \X Int
    OBVIOUS
  <2> QED BY <2>1 DEF Claims
<1>4. ASSUME NEW g \in Syms, NEW n \in Int PROVE CreateGlobal(g, n) \in Claims
  <2>1. CreateGlobal(g, n) = CreateGlobal(<<g, n>>[1], <<g, n>>[2]) /\ <<g, n>> \in Syms \X Int
    OBVIOUS
  <2> QED BY <2>1 DEF Claims
<1>5. \A g \in Syms : CreateRange(g) \in Claims
  BY DEF Claims, Ranges
<1>6. \A x \in Floats : CreateFloat(x) \in Claims
  BY DEF Claims, FloatConstants
<1>7. {Overdefined, Undefined, Pointer, FloatZero} \subseteq Claims
  BY DEF Claims
<1> QED BY <1>1, <1>2, <1>3, <1>4, <1>5, <1>6, <1>7

\* What a lattice value that is known says of a value of a run.
LEMMA Means ==
  ASSUME NEW v \in Claims, NEW x, NEW f, Stands(x, v, f), x # Undefined
  PROVE  /\ v.kind # "undefined"
         /\ v.kind \in {"int", "float"} => x = v
         /\ v.kind = "global" => x = v \/ (MaybeNull(v) /\ x = Null)
         /\ v.kind = "mask" => Is(x, "int") /\ x.bits \cap v.known = v.value
         /\ v.kind = "frame" => x = Stack(f, v.obj, v.off)
         /\ v.kind = "pointer" => IsAddress(x)
         /\ v.kind = "range" => Is(x, "global") /\ x.sym = v.sym
         /\ v.kind = "float_zero" => Is(x, "float") /\ x.float \in FloatZeros
<1>1. CASE v = Overdefined
  BY <1>1 DEF Overdefined
<1>2. CASE v # Overdefined
  <2>1. /\ v.kind = "pointer" <=> v = Pointer
        /\ v.kind = "float_zero" <=> v = FloatZero
        /\ v.kind = "undefined" <=> v = Undefined
    BY Shapes
  <2>2. \/ v.kind \in {"int", "float", "global"} /\ x = v
        \/ v.kind = "global" /\ MaybeNull(v) /\ x = Null
        \/ v.kind = "mask" /\ Is(x, "int") /\ x.bits \cap v.known = v.value
        \/ v.kind = "frame" /\ x = Stack(f, v.obj, v.off)
        \/ v.kind = "pointer" /\ IsAddress(x)
        \/ v.kind = "range" /\ Is(x, "global") /\ x.sym = v.sym
        \/ v.kind = "float_zero" /\ Is(x, "float") /\ x.float \in FloatZeros
    BY <1>2, <2>1 DEF Stands, MaybeNull, Is, Address, Stack
  <2> QED BY <2>2
<1> QED BY <1>1, <1>2

\* The kinds of values of a run.
LEMMA Kinds ==
  ASSUME NEW x, IsRunValue(x)
  PROVE  /\ x.kind \in {"undefined", "int", "float", "global", "stack"}
         /\ x.kind = "undefined" <=> x = Undefined
         /\ x.kind = "int" => x = CreateInteger(x.bits) /\ x.bits \in SUBSET Bits
         /\ x.kind = "float" => x = CreateFloat(x.float) /\ x.float \in Floats
         /\ x.kind = "global" => x = CreateGlobal(x.sym, x.off) /\ x.sym \in Syms /\ x.off \in Int
         /\ x.kind = "stack" => x = Stack(x.func, x.obj, x.off) /\ x.obj \in Objects /\ x.off \in Int
BY DEF IsRunValue, IntConstants, FloatConstants, Undefined, CreateInteger, CreateFloat, CreateGlobal, Stack

-----------------------------------------------------------------------------
(* The least upper bound                                                   *)

\* Every value of the lattice is a claim, but for the one that says nothing yet.
LEMMA InLattice ==
  LatticeValues \subseteq Claims \cup {Unknown}
<1>1. Masks \subseteq Partial
  BY DEF Masks, Partial
<1>2. Objects \X Offsets \subseteq Objects \X Int /\ Syms \X Offsets \subseteq Syms \X Int
  BY LatticeAssumption
<1>3. Frames \subseteq {CreateFrame(p[1], p[2]) : p \in Objects \X Int}
  BY <1>2 DEF Frames
<1>4. Globals \subseteq {CreateGlobal(p[1], p[2]) : p \in Syms \X Int}
  BY <1>2 DEF Globals
<1> QED BY <1>1, <1>3, <1>4 DEF LatticeValues, Claims

\* What an integer knows: bits of the width, with their values.
LEMMA Integral ==
  ASSUME NEW v \in Claims, IsIntegral(v)
  PROVE  KnownBits(v) \subseteq Bits /\ ValueBits(v) \subseteq KnownBits(v)
BY Shapes DEF IsIntegral, KnownBits, ValueBits, Is

\* The bound of two integers knows bits of the width, and says of each what
\* the first one says.
LEMMA AgreedMask ==
  ASSUME NEW a \in Claims, NEW b \in Claims, IsIntegral(a), IsIntegral(b), Agreed(a, b) # {}
  PROVE  CreateMask(Agreed(a, b), Agreed(a, b) \cap ValueBits(a)) \in Masks
<1> DEFINE k == Agreed(a, b)
           w == k \cap ValueBits(a)
<1>1. k \in SUBSET Bits /\ w \in SUBSET Bits /\ w \subseteq k /\ k # {}
  BY Integral DEF Agreed
<1> HIDE DEF k, w
<1>2. <<k, w>> \in {n \in (SUBSET Bits) \X (SUBSET Bits) : n[1] # {} /\ n[2] \subseteq n[1]}
  BY <1>1
<1>3. CreateMask(k, w) = CreateMask(<<k, w>>[1], <<k, w>>[2])
  OBVIOUS
<1>4. CreateMask(k, w) \in Masks
  BY <1>2, <1>3 DEF Masks
<1> QED BY <1>4 DEF k, w

\* LUB stays in the lattice: no mask without a known bit is made, and no kind
\* is invented, whatever the two values are.
THEOREM LUBType ==
  ASSUME NEW a \in LatticeValues, NEW b \in LatticeValues
  PROVE  LUB(a, b) \in LatticeValues
<1>1. Overdefined \in LatticeValues /\ Pointer \in LatticeValues /\ Masks \subseteq LatticeValues
  BY DEF LatticeValues
<1>2. PointerLUB(a, b) \in LatticeValues
  BY <1>1 DEF PointerLUB
<1>3. IsIntegral(a) => a \in Claims
  BY InLattice DEF IsIntegral, Unknown
<1>4. IsIntegral(b) => b \in Claims
  BY InLattice DEF IsIntegral, Unknown
<1> QED BY <1>1, <1>2, <1>3, <1>4, AgreedMask DEF LUB

\* What one of two integers allows, their bound allows.
LEMMA IntegersBound ==
  ASSUME NEW a \in Claims, NEW b \in Claims, IsIntegral(a), IsIntegral(b), Agreed(a, b) # {},
         NEW x, NEW f, Stands(x, a, f) \/ Stands(x, b, f)
  PROVE  Stands(x, CreateMask(Agreed(a, b), Agreed(a, b) \cap ValueBits(a)), f)
<1> DEFINE k == Agreed(a, b)
           m == CreateMask(k, k \cap ValueBits(a))
<1>1. m.kind = "mask" /\ m.known = k /\ m.value = k \cap ValueBits(a) /\ m # Unknown
  BY DEF CreateMask, Unknown
<1>2. ASSUME NEW v \in {a, b}, Stands(x, v, f), x # Undefined
      PROVE  Is(x, "int") /\ x.bits \cap KnownBits(v) = ValueBits(v)
  <2>1. v \in Claims /\ v.kind \in {"int", "mask"}
    BY <1>2 DEF IsIntegral
  <2>2. \/ v.kind = "int" /\ x = v /\ v.bits \in SUBSET Bits
        \/ v.kind = "mask" /\ Is(x, "int") /\ x.bits \cap v.known = v.value
    BY <1>2, <2>1, Means, Shapes
  <2> QED BY <2>2 DEF Is, KnownBits, ValueBits
<1>3. CASE x = Undefined
  BY <1>1, <1>3 DEF Stands
<1>4. ASSUME x # Undefined PROVE Is(x, "int") /\ x.bits \cap k = k \cap ValueBits(a)
  <2>1. CASE Stands(x, a, f)
    BY <1>2, <1>4, <2>1 DEF Agreed
  <2>2. CASE Stands(x, b, f)
    BY <1>2, <1>4, <2>2 DEF Agreed
  <2> QED BY <2>1, <2>2
<1> QED BY <1>1, <1>3, <1>4 DEF Stands, Is

\* What one of two pointers allows, their bound allows, unless the first one
\* is a global that is certainly there and the second a weak one.
LEMMA PointersBound ==
  ASSUME NEW a \in Claims, NEW b \in Claims, IsPointerLike(a), IsPointerLike(b),
         ~ (Is(a, "global") /\ ~ MaybeNull(a) /\ MaybeNull(b)),
         NEW x, NEW f, Stands(x, a, f) \/ Stands(x, b, f)
  PROVE  Stands(x, PointerLUB(a, b), f)
<1>1. CASE PointerLUB(a, b) = Overdefined
  BY <1>1 DEF Stands
<1>2. ASSUME PointerLUB(a, b) # Overdefined PROVE Stands(x, PointerLUB(a, b), f)
  <2>1. PointerLUB(a, b) = Pointer /\ ~ MaybeNull(a) /\ ~ MaybeNull(b)
    BY <1>2 DEF PointerLUB, MaybeNull, Is
  <2>2. ASSUME NEW v \in {a, b}, Stands(x, v, f), x # Undefined PROVE IsAddress(x)
    <3>1. v \in Claims /\ v.kind \in {"pointer", "frame", "global"} /\ ~ MaybeNull(v)
      BY <2>1 DEF IsPointerLike
    <3> QED BY <2>2, <3>1, Means DEF IsAddress, Stack
  <2>3. x = Undefined \/ IsAddress(x)
    BY <2>2
  <2>4. Pointer # Unknown
    BY DEF Pointer, Unknown
  <2> QED BY <2>1, <2>3, <2>4 DEF Stands
<1> QED BY <1>1, <1>2

\* LUB is an upper bound of what the two values promise of a run, which is what
\* lets a PHI or an argument stand for all the values that flow into it: except
\* when a global that is certainly there meets a weak one on its right.
THEOREM LUBSound ==
  ASSUME NEW a \in Claims \cup {Unknown}, NEW b \in Claims \cup {Unknown}, NEW x, NEW f,
         ~ (Is(a, "global") /\ ~ MaybeNull(a) /\ MaybeNull(b)),
         Stands(x, a, f) \/ Stands(x, b, f)
  PROVE  Stands(x, LUB(a, b), f)
<1>1. ~ Stands(x, Unknown, f)
  BY DEF Stands, Unknown, Overdefined, Pointer, FloatZero, Is, MaybeNull
<1>2. Stands(x, Undefined, f) <=> x = Undefined
  BY DEF Stands, Unknown, Undefined, Overdefined, Pointer, FloatZero, Is, MaybeNull
<1>3. CASE a = b \/ b = Unknown
  BY <1>1, <1>3 DEF LUB
<1>4. CASE a # b /\ b # Unknown /\ a = Unknown
  BY <1>1, <1>4 DEF LUB
<1>5. CASE a # b /\ b # Unknown /\ a # Unknown /\ b = Undefined
  <2>1. Stands(x, a, f)
    BY <1>2, <1>5 DEF Stands
  <2> QED BY <1>5, <2>1 DEF LUB
<1>6. CASE a # b /\ b # Unknown /\ a # Unknown /\ b # Undefined /\ a = Undefined
  <2>1. Stands(x, b, f)
    BY <1>2, <1>6 DEF Stands
  <2> QED BY <1>6, <2>1 DEF LUB
<1>7. CASE a # b /\ b # Unknown /\ a # Unknown /\ b # Undefined /\ a # Undefined
  <2>1. Stands(x, Overdefined, f)
    BY DEF Stands
  <2>2. CASE IsIntegral(a) /\ IsIntegral(b)
    BY <1>7, <2>1, <2>2, IntegersBound DEF LUB
  <2>3. CASE ~ (IsIntegral(a) /\ IsIntegral(b)) /\ IsPointerLike(a) /\ IsPointerLike(b)
    BY <1>7, <2>3, PointersBound DEF LUB
  <2>4. CASE ~ (IsIntegral(a) /\ IsIntegral(b)) /\ ~ (IsPointerLike(a) /\ IsPointerLike(b))
    BY <1>7, <2>1, <2>4 DEF LUB
  <2> QED BY <2>2, <2>3, <2>4
<1> QED BY <1>3, <1>4, <1>5, <1>6, <1>7

-----------------------------------------------------------------------------
(* Induction                                                               *)

\* A set of numbers that is not empty has a smallest one.
LEMMA Smallest ==
  ASSUME NEW S \in SUBSET Nat, S # {}
  PROVE  \E m \in S : \A k \in S : m <= k
<1>1. PICK m \in S : \A k \in S : ~(<<k, m>> \in OpToRel(<, Nat))
  BY NatLessThanWellFounded, WFMin
<1>2. \A k \in S : ~(k < m)
  BY <1>1 DEF OpToRel
<1> QED BY <1>2

\* Induction over the natural numbers, for a set instead of a formula.
LEMMA AllNumbers ==
  ASSUME NEW S, 0 \in S, \A n \in Nat : n \in S => n + 1 \in S
  PROVE  Nat \subseteq S
<1> SUFFICES ASSUME Nat \ S # {} PROVE FALSE
  OBVIOUS
<1>1. PICK m \in Nat \ S : \A k \in Nat \ S : m <= k
  BY Smallest
<1>2. m - 1 \in Nat /\ m - 1 \notin S
  BY <1>1
<1> QED BY <1>1, <1>2

-----------------------------------------------------------------------------
(* Powers of two                                                           *)

\* A set has as many subsets with a new element as without it.
LEMMA Power ==
  ASSUME NEW n \in Nat
  PROVE  2 ^ n \in Nat /\ 2 ^ n > 0 /\ 2 ^ (n + 1) = 2 * 2 ^ n
<1> DEFINE A == SUBSET (1 .. n)
           B == {a \cup {n + 1} : a \in A}
<1>1. ASSUME NEW m \in Nat
      PROVE  IsFiniteSet(SUBSET (1 .. m)) /\ Cardinality(SUBSET (1 .. m)) = 2 ^ m /\ 2 ^ m \in Nat
  <2>1. IsFiniteSet(1 .. m) /\ Cardinality(1 .. m) = m
    BY FS_Interval
  <2> QED BY <2>1, FS_SUBSET, FS_CardinalityType
<1>2. SUBSET (1 .. n + 1) = A \cup B
  <2>1. ASSUME NEW sub \in SUBSET (1 .. n + 1) PROVE sub \in A \cup B
    <3>1. CASE n + 1 \in sub
      <4>1. sub \ {n + 1} \in A /\ sub = (sub \ {n + 1}) \cup {n + 1}
        BY <3>1
      <4> QED BY <4>1
    <3>2. CASE n + 1 \notin sub
      BY <3>2
    <3> QED BY <3>1, <3>2
  <2>2. \A a \in A : a \in SUBSET (1 .. n + 1) /\ a \cup {n + 1} \in SUBSET (1 .. n + 1)
    OBVIOUS
  <2> HIDE DEF A
  <2> QED BY <2>1, <2>2
<1>3. \A a \in A : n + 1 \notin a
  OBVIOUS
<1>4. A \cap B = {}
  BY <1>3
<1>5. ExistsBijection(A, B)
  <2> DEFINE f == [a \in A |-> a \cup {n + 1}]
  <2> HIDE DEF A
  <2>1. f \in [A -> B]
    OBVIOUS
  <2>2. ASSUME NEW a \in A, NEW b \in A, f[a] = f[b] PROVE a = b
    <3>1. a \cup {n + 1} = b \cup {n + 1}
      BY <2>2
    <3>2. n + 1 \notin a /\ n + 1 \notin b
      BY <1>3
    <3> QED BY <3>1, <3>2
  <2>3. \A b \in B : \E a \in A : f[a] = b
    OBVIOUS
  <2> HIDE DEF f, B
  <2> QED BY <2>1, <2>2, <2>3 DEF ExistsBijection, Bijection, Injection, Surjection, IsInjective
<1>6. IsFiniteSet(A) /\ Cardinality(A) = 2 ^ n /\ 2 ^ n \in Nat
  BY <1>1
<1>7. Cardinality(A \cup B) = 2 ^ (n + 1) /\ 2 ^ (n + 1) \in Nat
  <2>1. n + 1 \in Nat
    OBVIOUS
  <2> HIDE DEF A, B
  <2> QED BY <1>1, <1>2, <2>1
<1>8. {} \in A
  OBVIOUS
<1> HIDE DEF A, B
<1>9. IsFiniteSet(B) /\ Cardinality(B) = 2 ^ n
  BY <1>5, <1>6, FS_Bijection
<1>10. Cardinality(A \cup B) = Cardinality(A) + Cardinality(B) - Cardinality({})
  BY <1>4, <1>6, <1>9, FS_Union
<1>11. 2 ^ (n + 1) = 2 ^ n + 2 ^ n
  BY <1>6, <1>7, <1>9, <1>10, FS_EmptySet
<1>12. 2 ^ n # 0
  BY <1>6, <1>8, FS_EmptySet
<1> QED BY <1>6, <1>11, <1>12

\* Powers of two multiply.
LEMMA PowerSum ==
  ASSUME NEW m \in Nat, NEW n \in Nat
  PROVE  2 ^ (m + n) = 2 ^ m * 2 ^ n
<1> DEFINE S == {k \in Nat : 2 ^ (m + k) = 2 ^ m * 2 ^ k}
<1>1. 0 \in S
  <2>1. 2 ^ m \in Nat /\ m + 0 = m /\ 2 ^ 0 = 1
    BY Power
  <2> QED BY <2>1
<1>2. ASSUME NEW k \in Nat, k \in S PROVE k + 1 \in S
  <2>1. 2 ^ m \in Nat /\ 2 ^ k \in Nat /\ 2 ^ (m + k) = 2 ^ m * 2 ^ k
    BY <1>2, Power
  <2>2. 2 ^ (k + 1) = 2 * 2 ^ k /\ 2 ^ ((m + k) + 1) = 2 * 2 ^ (m + k)
    BY Power
  <2>3. m + (k + 1) = (m + k) + 1
    OBVIOUS
  <2>4. 2 * (2 ^ m * 2 ^ k) = 2 ^ m * (2 * 2 ^ k)
    BY <2>1
  <2> QED BY <2>1, <2>2, <2>3, <2>4
<1> HIDE DEF S
<1>3. n \in S
  BY <1>1, <1>2, AllNumbers
<1> QED BY <1>3 DEF S

\* A larger power of two is an even multiple of a smaller one.
LEMMA PowerGrows ==
  ASSUME NEW m \in Nat, NEW n \in Nat, m < n
  PROVE  /\ 2 ^ m < 2 ^ n
         /\ \E k \in Nat : 2 ^ n = 2 * k * 2 ^ m
<1>1. n - m - 1 \in Nat /\ n = (n - m - 1) + 1 + m
  OBVIOUS
<1> DEFINE d == n - m - 1
<1>2. 2 ^ n = 2 ^ (d + 1) * 2 ^ m
  BY <1>1, PowerSum
<1>3. 2 ^ (d + 1) = 2 * 2 ^ d /\ 2 ^ d \in Nat /\ 2 ^ d > 0 /\ 2 ^ m \in Nat /\ 2 ^ m > 0
  BY <1>1, Power
<1>4. 2 ^ n = 2 * 2 ^ d * 2 ^ m
  BY <1>2, <1>3
<1> HIDE DEF d
<1>5. 2 * 2 ^ d * 2 ^ m > 2 ^ m
  BY <1>3
<1> QED BY <1>3, <1>4, <1>5

\* Numbers at which the powers of two may be compared to find their exponents.
LEMMA PowerOrder ==
  ASSUME NEW m \in Nat, NEW n \in Nat
  PROVE  2 ^ m < 2 ^ n <=> m < n
BY PowerGrows, Power

-----------------------------------------------------------------------------
(* Division by a power of two                                              *)

\* A number that is written as q * p + r has the quotient q and the remainder r.
LEMMA Divide ==
  ASSUME NEW a \in Int, NEW p \in Nat, p > 0, NEW q \in Int, NEW r \in 0 .. p - 1, a = q * p + r
  PROVE  a \div p = q /\ a % p = r
OBVIOUS

\* A number is its quotient times the divisor, and its remainder.
LEMMA Division ==
  ASSUME NEW a \in Int, NEW p \in Nat, p > 0
  PROVE  /\ a \div p \in Int /\ a % p \in 0 .. p - 1
         /\ a = (a \div p) * p + (a % p)
OBVIOUS

\* Shifting right twice is shifting right once by both amounts.
LEMMA DivideTwice ==
  ASSUME NEW a \in Int, NEW m \in Nat, NEW n \in Nat
  PROVE  (a \div 2 ^ m) \div 2 ^ n = a \div 2 ^ (m + n)
<1> DEFINE p == 2 ^ m  q == 2 ^ n
<1>1. p \in Nat /\ p > 0 /\ q \in Nat /\ q > 0 /\ 2 ^ (m + n) = p * q
  BY Power, PowerSum
<1> HIDE DEF p, q
<1>2. (a \div p) \div q = a \div (p * q)
  BY <1>1
<1> QED BY <1>1, <1>2 DEF p, q

\* Adding a multiple of a higher power leaves the lower bits as they are.
LEMMA BitKept ==
  ASSUME NEW a \in Int, NEW k \in Int, NEW m \in Nat, NEW n \in Nat, m < n
  PROVE  ((a + k * 2 ^ n) \div 2 ^ m) % 2 = (a \div 2 ^ m) % 2
<1>1. PICK j \in Nat : 2 ^ n = 2 * j * 2 ^ m
  BY PowerGrows
<1> DEFINE p == 2 ^ m
           q == a \div p
           r == a % p
<1>2. p \in Nat /\ p > 0
  BY Power
<1>3. q \in Int /\ r \in 0 .. p - 1 /\ a = q * p + r
  BY <1>2, Division
<1> HIDE DEF p, q, r
<1>4. k * (2 * j * p) = (2 * (k * j)) * p
  BY <1>2
<1>5. a + k * (2 * j * p) = (q + 2 * (k * j)) * p + r /\ q + 2 * (k * j) \in Int
  BY <1>2, <1>3, <1>4
<1>6. (a + k * (2 * j * p)) \div p = q + 2 * (k * j)
  <2> DEFINE t == q + 2 * (k * j)  u == a + k * (2 * j * p)
  <2>1. t \in Int /\ u \in Int /\ u = t * p + r
    BY <1>2, <1>3, <1>5
  <2> HIDE DEF t, u
  <2>2. u \div p = t
    BY <1>2, <1>3, <2>1, Divide
  <2> QED BY <2>2 DEF t, u
<1>7. (q + 2 * (k * j)) % 2 = q % 2
  <2> DEFINE t == k * j
  <2>1. t \in Int
    OBVIOUS
  <2> HIDE DEF t
  <2>2. (q + 2 * t) % 2 = q % 2
    BY <1>3, <2>1
  <2> QED BY <2>2 DEF t
<1> QED BY <1>1, <1>6, <1>7 DEF p, q

-----------------------------------------------------------------------------
(* Sums of powers of two                                                   *)

\* What the sum takes next of a set, and the sums of the subsets of S, as a
\* function that is defined by itself.
Some(sub) == CHOOSE x \in sub : TRUE
Summed(S, h) == [sub \in SUBSET S |-> IF sub = {} THEN 0 ELSE 2 ^ Some(sub) + h[sub \ {Some(sub)}]]
IsSum(S, h) == h = Summed(S, h)

\* The number of a word is the sum that the fold of the library computes.
LEMMA NumIsSum ==
  ASSUME NEW b
  PROVE  Num(b) = (CHOOSE h : IsSum(b, h))[b]
BY DEF Num, MapThenSumSet, MapThenFoldSet, IsSum, Summed, Some

\* The element that is taken out of a set is one of its elements.
LEMMA Member ==
  ASSUME NEW sub, sub # {}
  PROVE  Some(sub) \in sub
BY DEF Some

\* There is such a function: one that is right about small sets can be made right
\* about larger ones.
LEMMA SumExists ==
  ASSUME NEW S, IsFiniteSet(S)
  PROVE  \E h : IsSum(S, h)
<1> DEFINE Right(h, n) == \A sub \in SUBSET S : Cardinality(sub) <= n => h[sub] = Summed(S, h)[sub]
           N == {n \in Nat : \E h : h = [sub \in SUBSET S |-> h[sub]] /\ Right(h, n)}
<1>1. \A sub \in SUBSET S : IsFiniteSet(sub) /\ Cardinality(sub) \in Nat /\ Cardinality(sub) <= Cardinality(S)
  BY FS_Subset, FS_CardinalityType
<1>2. \A sub \in SUBSET S : sub # {} =>
        /\ sub \ {Some(sub)} \in SUBSET S
        /\ Cardinality(sub \ {Some(sub)}) = Cardinality(sub) - 1
  BY <1>1, Member, FS_RemoveElement
<1>3. 0 \in N
  <2> DEFINE h == [sub \in SUBSET S |-> 0]
  <2>1. \A sub \in SUBSET S : Cardinality(sub) <= 0 => sub = {}
    BY <1>1, FS_EmptySet
  <2>2. Right(h, 0)
    BY <2>1 DEF Summed
  <2>3. h = [sub \in SUBSET S |-> h[sub]]
    OBVIOUS
  <2> HIDE DEF h, Right
  <2> QED BY <2>2, <2>3
<1>4. ASSUME NEW n \in Nat, n \in N PROVE n + 1 \in N
  <2>1. PICK h : h = [sub \in SUBSET S |-> h[sub]] /\ Right(h, n)
    BY <1>4
  <2> DEFINE k == Summed(S, h)
  <2>2. k = [sub \in SUBSET S |-> k[sub]]
    BY DEF Summed
  <2>3. ASSUME NEW sub \in SUBSET S, Cardinality(sub) <= n + 1 PROVE k[sub] = Summed(S, k)[sub]
    <3>1. CASE sub = {}
      BY <3>1 DEF Summed
    <3>2. CASE sub # {}
      <4> DEFINE r == sub \ {Some(sub)}
      <4>1. r \in SUBSET S /\ Cardinality(r) <= n
        BY <1>1, <1>2, <2>3, <3>2
      <4>2. h[r] = k[r]
        BY <2>1, <4>1
      <4>3. k[sub] = 2 ^ Some(sub) + h[r] /\ Summed(S, k)[sub] = 2 ^ Some(sub) + k[r]
        BY <3>2 DEF Summed
      <4> QED BY <4>2, <4>3
    <3> QED BY <3>1, <3>2
  <2>4. Right(k, n + 1)
    BY <2>3
  <2> HIDE DEF k, Right
  <2> QED BY <2>2, <2>4
<1>5. Cardinality(S) \in N
  <2> HIDE DEF N
  <2>1. Nat \subseteq N
    BY <1>3, <1>4, AllNumbers
  <2> QED BY <2>1, FS_CardinalityType
<1>6. PICK h : h = [sub \in SUBSET S |-> h[sub]] /\ Right(h, Cardinality(S))
  BY <1>5
<1>7. \A sub \in SUBSET S : h[sub] = Summed(S, h)[sub]
  BY <1>1, <1>6
<1>8. [sub \in SUBSET S |-> h[sub]] = [sub \in SUBSET S |-> Summed(S, h)[sub]]
  BY <1>7
<1>9. Summed(S, h) = [sub \in SUBSET S |-> Summed(S, h)[sub]]
  BY DEF Summed
<1> QED BY <1>6, <1>8, <1>9 DEF IsSum

\* A subset without one of its elements.
LEMMA OneLess ==
  ASSUME NEW S, IsFiniteSet(S), NEW sub \in SUBSET S, NEW n \in Nat, Cardinality(sub) <= n + 1, NEW x \in sub
  PROVE  sub \ {x} \in SUBSET S /\ Cardinality(sub \ {x}) <= n
<1>1. IsFiniteSet(sub) /\ Cardinality(sub) \in Nat
  BY FS_Subset, FS_CardinalityType
<1>2. Cardinality(sub \ {x}) = Cardinality(sub) - 1
  BY <1>1, FS_RemoveElement
<1> QED BY <1>1, <1>2

\* The sum of a set does not depend on what was added first, nor on the larger set.
LEMMA SumStep ==
  ASSUME NEW S \in SUBSET Nat, IsFiniteSet(S), NEW h, IsSum(S, h)
  PROVE  \A sub \in SUBSET S : h[sub] \in Nat /\ \A x \in sub : h[sub] = 2 ^ x + h[sub \ {x}]
<1> DEFINE Steps(sub) == h[sub] \in Nat /\ \A x \in sub : h[sub] = 2 ^ x + h[sub \ {x}]
           N == {n \in Nat : \A sub \in SUBSET S : Cardinality(sub) <= n => Steps(sub)}
<1>1. \A sub \in SUBSET S : IsFiniteSet(sub) /\ Cardinality(sub) \in Nat
  BY FS_Subset, FS_CardinalityType
<1>2. Steps({})
  BY DEF IsSum, Summed
<1>3. 0 \in N
  <2>1. \A sub \in SUBSET S : Cardinality(sub) <= 0 => sub = {}
    BY <1>1, FS_EmptySet
  <2> HIDE DEF Steps
  <2> QED BY <1>2, <2>1
<1>4. ASSUME NEW n \in Nat, n \in N, NEW sub \in SUBSET S, Cardinality(sub) <= n + 1, sub # {}
      PROVE  Steps(sub)
  <2> DEFINE c == Some(sub)
  <2>1. c \in sub /\ c \in Nat /\ h[sub] = 2 ^ c + h[sub \ {c}]
    <3>1. c \in sub
      BY <1>4, Member
    <3>2. Summed(S, h)[sub] = 2 ^ c + h[sub \ {c}]
      BY <1>4 DEF Summed
    <3> QED BY <3>1, <3>2 DEF IsSum
  <2> HIDE DEF c
  <2>2. ASSUME NEW x \in sub
        PROVE  sub \ {x} \in SUBSET S /\ Cardinality(sub \ {x}) <= n /\ 2 ^ x \in Nat
    <3>1. 2 ^ x \in Nat
      BY Power
    <3> QED BY <1>4, <3>1, OneLess
  <2>3. \A r \in SUBSET S : Cardinality(r) <= n => Steps(r)
    BY <1>4
  <2>4. h[sub] \in Nat
    BY <2>1, <2>2, <2>3
  <2>5. ASSUME NEW x \in sub, x # c PROVE h[sub] = 2 ^ x + h[sub \ {x}]
    <3> DEFINE b == sub \ {c, x}
    <3>1. (sub \ {c}) \ {x} = b /\ x \in sub \ {c} /\ (sub \ {x}) \ {c} = b /\ c \in sub \ {x}
      BY <2>1, <2>5
    <3>2. h[sub \ {c}] = 2 ^ x + h[b]
      BY <2>1, <2>2, <2>3, <3>1
    <3>3. h[sub \ {x}] = 2 ^ c + h[b]
      <4>1. Steps(sub \ {x})
        BY <2>2, <2>3
      <4> QED BY <3>1, <4>1
    <3>4. h[b] \in Nat
      <4>1. b \in SUBSET S /\ sub \ {c} \in SUBSET S
        OBVIOUS
      <4>2. Cardinality(sub \ {c}) <= n + 1
        BY <1>1, <2>1, <2>2, <4>1
      <4>3. Cardinality(b) <= n
        BY <3>1, <4>1, <4>2, OneLess
      <4> HIDE DEF b
      <4> QED BY <2>3, <4>1, <4>3
    <3> HIDE DEF b
    <3> QED BY <2>1, <2>2, <3>2, <3>3, <3>4
  <2> QED BY <2>1, <2>4, <2>5
<1>5. ASSUME NEW n \in Nat, n \in N PROVE n + 1 \in N
  <2> HIDE DEF Steps
  <2>1. ASSUME NEW sub \in SUBSET S, Cardinality(sub) <= n + 1 PROVE Steps(sub)
    BY <1>2, <1>4, <1>5, <2>1
  <2> QED BY <2>1
<1>6. Nat \subseteq N
  <2> HIDE DEF N
  <2> QED BY <1>3, <1>5, AllNumbers
<1> HIDE DEF Steps
<1>7. \A sub \in SUBSET S : Steps(sub)
  BY <1>1, <1>6
<1> QED BY <1>7 DEF Steps

\* The sum of a set is the same whatever larger set the function is about.
LEMMA SumSame ==
  ASSUME NEW S \in SUBSET Nat, IsFiniteSet(S), NEW h, IsSum(S, h),
         NEW T \in SUBSET S, NEW k, IsSum(T, k)
  PROVE  h[T] = k[T]
<1> DEFINE N == {n \in Nat : \A sub \in SUBSET T : Cardinality(sub) <= n => h[sub] = k[sub]}
<1>1. \A sub \in SUBSET T : IsFiniteSet(sub) /\ Cardinality(sub) \in Nat
  BY FS_Subset, FS_CardinalityType
<1>2. h[{}] = 0 /\ k[{}] = 0
  BY DEF IsSum, Summed
<1>3. 0 \in N
  <2>1. \A sub \in SUBSET T : Cardinality(sub) <= 0 => sub = {}
    BY <1>1, FS_EmptySet
  <2> QED BY <1>2, <2>1
<1>4. ASSUME NEW n \in Nat, n \in N, NEW sub \in SUBSET T, Cardinality(sub) <= n + 1 PROVE h[sub] = k[sub]
  <2>1. CASE sub = {}
    BY <1>2, <2>1
  <2>2. CASE sub # {}
    <3>1. PICK x : x \in sub
      BY <2>2
    <3>2. sub \ {x} \in SUBSET T /\ Cardinality(sub \ {x}) <= n
      <4>1. IsFiniteSet(T)
        BY FS_Subset
      <4> QED BY <1>4, <3>1, <4>1, OneLess
    <3>3. h[sub \ {x}] = k[sub \ {x}]
      BY <1>4, <3>2
    <3>4. h[sub] = 2 ^ x + h[sub \ {x}]
      <4>1. \A c \in SUBSET S : h[c] \in Nat /\ \A y \in c : h[c] = 2 ^ y + h[c \ {y}]
        BY SumStep
      <4>2. sub \in SUBSET S
        OBVIOUS
      <4> QED BY <3>1, <4>1, <4>2
    <3>5. k[sub] = 2 ^ x + k[sub \ {x}]
      <4>1. IsFiniteSet(T) /\ T \in SUBSET Nat
        BY FS_Subset
      <4> QED BY <3>1, <4>1, SumStep
    <3> QED BY <3>3, <3>4, <3>5
  <2> QED BY <2>1, <2>2
<1>5. \A n \in Nat : n \in N => n + 1 \in N
  BY <1>4
<1>6. Cardinality(T) \in N
  <2> HIDE DEF N
  <2>1. Nat \subseteq N
    BY <1>3, <1>5, AllNumbers
  <2> QED BY <1>1, <2>1
<1> QED BY <1>1, <1>6

\* The number that a set of bits stands for.
LEMMA Sums ==
  ASSUME NEW b \in SUBSET Nat, IsFiniteSet(b)
  PROVE  /\ Num({}) = 0
         /\ Num(b) \in Nat
         /\ \A x \in b : Num(b) = 2 ^ x + Num(b \ {x})
<1>1. \A sub : IsFiniteSet(sub) => IsSum(sub, CHOOSE h : IsSum(sub, h))
  BY SumExists
<1> DEFINE h == CHOOSE k : IsSum(b, k)
<1>2. IsSum(b, h) /\ Num(b) = h[b]
  BY <1>1, NumIsSum
<1> HIDE DEF h
<1>3. Num({}) = 0
  <2> DEFINE k == CHOOSE j : IsSum({}, j)
  <2>1. IsSum({}, k) /\ Num({}) = k[{}]
    BY <1>1, FS_EmptySet, NumIsSum
  <2> HIDE DEF k
  <2> QED BY <2>1 DEF IsSum, Summed
<1>4. Num(b) \in Nat
  BY <1>2, SumStep
<1>5. ASSUME NEW x \in b PROVE Num(b) = 2 ^ x + Num(b \ {x})
  <2> DEFINE k == CHOOSE j : IsSum(b \ {x}, j)
  <2>1. IsFiniteSet(b \ {x})
    BY FS_RemoveElement
  <2>2. IsSum(b \ {x}, k) /\ Num(b \ {x}) = k[b \ {x}]
    BY <1>1, <2>1, NumIsSum
  <2> HIDE DEF k
  <2>3. h[b \ {x}] = k[b \ {x}]
    BY <1>2, <2>2, SumSame
  <2>4. h[b] = 2 ^ x + h[b \ {x}]
    <3>1. \A c \in SUBSET b : h[c] \in Nat /\ \A y \in c : h[c] = 2 ^ y + h[c \ {y}]
      BY <1>2, SumStep
    <3>2. b \in SUBSET b
      OBVIOUS
    <3> QED BY <3>1, <3>2
  <2> QED BY <1>2, <2>2, <2>3, <2>4
<1> QED BY <1>3, <1>4, <1>5

\* Sets of bits below a width are finite.
LEMMA BitsFinite ==
  ASSUME NEW n \in Nat, NEW b \in SUBSET (0 .. n - 1)
  PROVE  IsFiniteSet(b) /\ b \in SUBSET Nat
<1> DEFINE S == 0 .. n - 1
<1>1. IsFiniteSet(S) /\ S \in SUBSET Nat
  BY FS_Interval
<1> HIDE DEF S
<1>2. IsFiniteSet(b)
  BY <1>1, FS_Subset DEF S
<1> QED BY <1>1, <1>2 DEF S

\* Either the highest bit is set or the number is one of fewer bits.
LEMMA HighestBit ==
  ASSUME NEW n \in Nat, NEW b \in SUBSET (0 .. n), n \in b
  PROVE  b \ {n} \in SUBSET (0 .. n - 1) /\ Num(b) = 2 ^ n + Num(b \ {n})
<1>1. IsFiniteSet(b) /\ b \in SUBSET Nat
  <2>1. n + 1 \in Nat /\ 0 .. n = 0 .. (n + 1) - 1
    OBVIOUS
  <2> QED BY <2>1, BitsFinite
<1>2. Num(b) = 2 ^ n + Num(b \ {n})
  BY <1>1, Sums
<1> QED BY <1>2

\* Bits below n make a number below 2^n.
LEMMA NumBound ==
  ASSUME NEW n \in Nat, NEW b \in SUBSET (0 .. n - 1)
  PROVE  Num(b) \in Nat /\ Num(b) < 2 ^ n
<1> DEFINE N == {m \in Nat : \A c \in SUBSET (0 .. m - 1) : Num(c) \in Nat /\ Num(c) < 2 ^ m}
<1>1. 0 \in N
  <2>1. 0 .. 0 - 1 = {} /\ IsFiniteSet({}) /\ {} \in SUBSET Nat
    BY FS_EmptySet
  <2>2. Num({}) = 0 /\ 2 ^ 0 > 0
    BY <2>1, Sums, Power
  <2>3. ASSUME NEW c \in SUBSET (0 .. 0 - 1) PROVE Num(c) \in Nat /\ Num(c) < 2 ^ 0
    <3>1. c = {}
      OBVIOUS
    <3> QED BY <2>2, <3>1
  <2> QED BY <2>3
<1>2. ASSUME NEW m \in Nat, m \in N, NEW c \in SUBSET (0 .. m) PROVE Num(c) \in Nat /\ Num(c) < 2 ^ (m + 1)
  <2>1. 2 ^ m \in Nat /\ 2 ^ m > 0 /\ 2 ^ (m + 1) = 2 * 2 ^ m
    BY Power
  <2>2. CASE m \in c
    <3>1. c \ {m} \in SUBSET (0 .. m - 1) /\ Num(c) = 2 ^ m + Num(c \ {m})
      BY <2>2, HighestBit
    <3>2. Num(c \ {m}) \in Nat /\ Num(c \ {m}) < 2 ^ m
      BY <1>2, <3>1
    <3> QED BY <2>1, <3>1, <3>2
  <2>3. CASE m \notin c
    <3>1. c \in SUBSET (0 .. m - 1)
      BY <2>3
    <3>2. Num(c) \in Nat /\ Num(c) < 2 ^ m
      BY <1>2, <3>1
    <3> QED BY <2>1, <3>2
  <2> QED BY <2>2, <2>3
<1>3. ASSUME NEW m \in Nat, m \in N PROVE m + 1 \in N
  <2>1. 0 .. (m + 1) - 1 = 0 .. m
    OBVIOUS
  <2> QED BY <1>2, <1>3, <2>1
<1> HIDE DEF N
<1>4. n \in N
  BY <1>1, <1>3, AllNumbers
<1> QED BY <1>4 DEF N

\* A number below a power has no bit there; with one of its multiples it has.
LEMMA TopBit ==
  ASSUME NEW n \in Nat, NEW a \in Nat, a < 2 ^ n
  PROVE  a \div 2 ^ n = 0 /\ (a + 2 ^ n) \div 2 ^ n = 1
<1> DEFINE p == 2 ^ n
<1>1. p \in Nat /\ p > 0
  BY Power
<1> HIDE DEF p
<1>2. a < p => a \div p = 0 /\ (a + p) \div p = 1
  BY <1>1
<1> QED BY <1>2 DEF p

\* Num and Wrapped are inverse to each other: the bits of the number are the set.
LEMMA BitOf ==
  ASSUME NEW n \in Nat, NEW b \in SUBSET (0 .. n - 1), NEW i \in Nat
  PROVE  (Num(b) \div 2 ^ i) % 2 = 1 <=> i \in b
<1> DEFINE Bit(a) == (a \div 2 ^ i) % 2
           N == {m \in Nat : \A c \in SUBSET (0 .. m - 1) : Bit(Num(c)) = 1 <=> i \in c}
<1>1. 0 \in N
  <2>1. 0 .. 0 - 1 = {} /\ IsFiniteSet({}) /\ {} \in SUBSET Nat
    BY FS_EmptySet
  <2>2. Num({}) = 0
    BY <2>1, Sums
  <2>3. Bit(0) = 0
    <3>1. 0 \div 2 ^ i = 0
      BY TopBit, Power
    <3>2. 0 % 2 = 0
      OBVIOUS
    <3> QED BY <3>1, <3>2, Zenon
  <2> HIDE DEF Bit
  <2>4. ASSUME NEW c \in SUBSET (0 .. 0 - 1) PROVE Bit(Num(c)) = 1 <=> i \in c
    <3>1. c = {}
      OBVIOUS
    <3> QED BY <2>2, <2>3, <3>1
  <2> QED BY <2>4
<1>2. ASSUME NEW m \in Nat, m \in N, NEW c \in SUBSET (0 .. m) PROVE Bit(Num(c)) = 1 <=> i \in c
  <2>1. CASE m \notin c
    <3>1. c \in SUBSET (0 .. m - 1)
      BY <2>1
    <3> HIDE DEF Bit
    <3> QED BY <1>2, <3>1
  <2>2. CASE m \in c
    <3> DEFINE d == c \ {m}
    <3>1. d \in SUBSET (0 .. m - 1) /\ Num(c) = 2 ^ m + Num(d)
      BY <2>2, HighestBit
    <3>2. Num(d) \in Nat /\ Num(d) < 2 ^ m /\ 2 ^ m \in Nat
      BY <3>1, NumBound, Power
    <3>3. Bit(Num(d)) = 1 <=> i \in d
      <4> HIDE DEF Bit, d
      <4> QED BY <1>2, <3>1
    <3>4. Num(c) = Num(d) + 1 * 2 ^ m
      BY <3>1, <3>2
    <3>5. CASE i < m
      <4>1. Bit(Num(d) + 1 * 2 ^ m) = Bit(Num(d))
        <5> HIDE DEF d
        <5>1. Num(d) \in Int /\ 1 \in Int
          BY <3>2
        <5> QED BY <3>5, <5>1, BitKept
      <4>2. Bit(Num(c)) = Bit(Num(d))
        BY <3>4, <4>1
      <4> HIDE DEF Bit
      <4> QED BY <3>3, <3>5, <4>2
    <3>6. CASE i = m
      <4>1. Num(c) \div 2 ^ i = 1
        BY <3>1, <3>2, <3>6, TopBit
      <4> QED BY <2>2, <3>6, <4>1
    <3>7. CASE i > m
      <4>1. Num(c) \in Nat /\ Num(c) < 2 ^ (m + 1)
        <5>1. m + 1 \in Nat /\ 0 .. (m + 1) - 1 = 0 .. m
          OBVIOUS
        <5> QED BY <5>1, NumBound
      <4>2. 2 ^ (m + 1) <= 2 ^ i
        <5>1. m + 1 \in Nat /\ (m + 1 = i \/ m + 1 < i)
          BY <3>7
        <5> QED BY <5>1, PowerGrows, Power
      <4>3. 2 ^ (m + 1) \in Nat /\ 2 ^ i \in Nat
        BY Power
      <4>4. Num(c) \div 2 ^ i = 0
        BY <4>1, <4>2, <4>3, TopBit
      <4> QED BY <3>7, <4>4
    <3> QED BY <3>5, <3>6, <3>7
  <2> QED BY <2>1, <2>2
<1>3. ASSUME NEW m \in Nat, m \in N PROVE m + 1 \in N
  <2>1. 0 .. (m + 1) - 1 = 0 .. m
    OBVIOUS
  <2> HIDE DEF Bit
  <2> QED BY <1>2, <1>3, <2>1
<1>4. n \in N
  <2> HIDE DEF N
  <2> QED BY <1>1, <1>3, AllNumbers
<1> QED BY <1>4

\* All bits below n make 2^n - 1.
LEMMA NumFull ==
  ASSUME NEW n \in Nat
  PROVE  Num(0 .. n - 1) = 2 ^ n - 1
<1> DEFINE N == {m \in Nat : Num(0 .. m - 1) = 2 ^ m - 1}
<1>1. 0 \in N
  <2>1. 0 .. 0 - 1 = {} /\ IsFiniteSet({}) /\ {} \in SUBSET Nat
    BY FS_EmptySet
  <2>2. Num({}) = 0 /\ 2 ^ 0 = 1
    BY <2>1, Sums
  <2> QED BY <2>1, <2>2
<1>2. ASSUME NEW m \in Nat, m \in N PROVE m + 1 \in N
  <2>1. 0 .. (m + 1) - 1 = 0 .. m /\ m \in 0 .. m /\ (0 .. m) \ {m} = 0 .. m - 1
    OBVIOUS
  <2>2. Num(0 .. m) = 2 ^ m + Num(0 .. m - 1)
    BY <2>1, HighestBit
  <2>3. 2 ^ m \in Nat /\ 2 ^ (m + 1) = 2 * 2 ^ m
    BY Power
  <2> QED BY <1>2, <2>1, <2>2, <2>3
<1> HIDE DEF N
<1>3. n \in N
  BY <1>1, <1>2, AllNumbers
<1> QED BY <1>3 DEF N

\* The low bits of a number make its remainder.
LowBitsOf(a, n) == {i \in 0 .. n - 1 : (a \div 2 ^ i) % 2 = 1}
\* The low bits of a number are its remainder.
LEMMA NumLow ==
  ASSUME NEW a \in Int, NEW n \in Nat
  PROVE  Num(LowBitsOf(a, n)) = a % 2 ^ n
<1> DEFINE N == {m \in Nat : Num(LowBitsOf(a, m)) = a % 2 ^ m}
<1>1. 0 \in N
  <2>1. LowBitsOf(a, 0) = {} /\ IsFiniteSet({}) /\ {} \in SUBSET Nat
    BY FS_EmptySet DEF LowBitsOf
  <2>2. Num({}) = 0 /\ 2 ^ 0 = 1 /\ a % 1 = 0
    BY <2>1, Sums
  <2> QED BY <2>1, <2>2
<1>2. ASSUME NEW m \in Nat, m \in N PROVE m + 1 \in N
  <2> DEFINE p == 2 ^ m
             q == a \div p
  <2>1. p \in Nat /\ p > 0 /\ 2 ^ (m + 1) = 2 * p
    BY Power
  <2>2. q \in Int /\ a % p \in 0 .. p - 1 /\ a = q * p + (a % p)
    BY <2>1, Division
  <2>3. q % 2 \in {0, 1} /\ a % (2 * p) = (q % 2) * p + (a % p)
    <3> HIDE DEF p, q
    <3>1. q % 2 \in {0, 1} /\ q \div 2 \in Int /\ q = 2 * (q \div 2) + (q % 2)
      BY <2>2
    <3> DEFINE t == q \div 2  u == (q % 2) * p + (a % p)
    <3>2. u \in 0 .. 2 * p - 1
      BY <2>1, <2>2, <3>1
    <3>3. a = t * (2 * p) + u
      BY <2>1, <2>2, <3>1
    <3>4. t \in Int /\ 2 * p \in Nat /\ 2 * p > 0
      BY <2>1, <3>1
    <3> HIDE DEF t, u
    <3>5. a % (2 * p) = u
      BY <3>2, <3>3, <3>4, Divide
    <3> QED BY <3>1, <3>5 DEF u
  <2>4. Num(LowBitsOf(a, m)) = a % p
    BY <1>2
  <2>5. CASE q % 2 = 1
    <3>1. LowBitsOf(a, m + 1) \in SUBSET (0 .. m) /\ m \in LowBitsOf(a, m + 1)
          /\ LowBitsOf(a, m + 1) \ {m} = LowBitsOf(a, m)
      BY <2>5 DEF LowBitsOf
    <3>2. Num(LowBitsOf(a, m + 1)) = p + Num(LowBitsOf(a, m))
      BY <3>1, HighestBit
    <3> QED BY <2>1, <2>2, <2>3, <2>4, <2>5, <3>2
  <2>6. CASE q % 2 = 0
    <3>1. LowBitsOf(a, m + 1) = LowBitsOf(a, m)
      <4>1. \A i \in 0 .. m : (a \div 2 ^ i) % 2 = 1 => i \in 0 .. m - 1
        BY <2>6
      <4>2. 0 .. (m + 1) - 1 = 0 .. m /\ 0 .. m - 1 \subseteq 0 .. m
        OBVIOUS
      <4> HIDE DEF p, q
      <4> QED BY <4>1, <4>2 DEF LowBitsOf
    <3> QED BY <2>1, <2>2, <2>3, <2>4, <2>6, <3>1
  <2> QED BY <2>3, <2>5, <2>6
<1>3. n \in N
  <2> HIDE DEF N
  <2> QED BY <1>1, <1>2, AllNumbers
<1> QED BY <1>3
-----------------------------------------------------------------------------
(* Words: sets of bits as integers modulo a power of two                   *)

\* The bits of a word are the numbers below its width.
LEMMA Words ==
  /\ Width \in Nat /\ Width > 0 /\ Width - 1 \in Nat /\ Bits = 0 .. Width - 1
  /\ 0 \in Bits /\ Width - 1 \in Bits /\ Bits \subseteq Nat
  /\ 2 ^ Width \in Nat /\ 2 ^ (Width - 1) \in Nat /\ 2 ^ (Width - 1) > 0
  /\ 2 ^ Width = 2 * 2 ^ (Width - 1)
<1>1. Width \in Nat /\ Bits = 0 .. Width - 1 /\ Bits # {}
  BY EvalAssumption, LatticeAssumption
<1> HIDE DEF Width
<1>2. Width > 0 /\ Width - 1 \in Nat /\ Width = (Width - 1) + 1
  BY <1>1
<1>3. 2 ^ (Width - 1) \in Nat /\ 2 ^ (Width - 1) > 0 /\ 2 ^ Width = 2 * 2 ^ (Width - 1)
  BY <1>2, Power
<1> QED BY <1>1, <1>2, <1>3

\* A word and its number: the bits that are one in the number are those of the word.
LEMMA Word ==
  ASSUME NEW b \in SUBSET Bits
  PROVE  /\ Num(b) \in Nat /\ Num(b) < 2 ^ Width
         /\ Wrapped(Num(b)) = b
         /\ \A i \in Nat : (Num(b) \div 2 ^ i) % 2 = 1 <=> i \in b
         /\ \A i \in b : 2 ^ i <= Num(b)
         /\ Num(b) = 0 <=> b = {}
<1>1. Width \in Nat /\ b \in SUBSET (0 .. Width - 1)
  BY Words
<1>2. Num(b) \in Nat /\ Num(b) < 2 ^ Width
  BY <1>1, NumBound
<1>3. \A i \in Nat : (Num(b) \div 2 ^ i) % 2 = 1 <=> i \in b
  BY <1>1, BitOf
<1>4. Wrapped(Num(b)) = b
  BY <1>3, Words DEF Wrapped
<1>5. IsFiniteSet(b) /\ b \in SUBSET Nat
  BY <1>1, BitsFinite
<1>6. ASSUME NEW i \in b PROVE 2 ^ i <= Num(b) /\ 2 ^ i > 0 /\ 2 ^ i \in Nat
  <2>1. Num(b) = 2 ^ i + Num(b \ {i})
    BY <1>5, Sums
  <2>2. Num(b \ {i}) \in Nat
    BY <1>1, NumBound
  <2>3. 2 ^ i \in Nat /\ 2 ^ i > 0
    BY <1>5, Power
  <2> QED BY <2>1, <2>2, <2>3
<1>7. b = {} => Num(b) = 0
  BY <1>5, Sums
<1>8. b # {} => Num(b) > 0
  BY <1>2, <1>6
<1> QED BY <1>2, <1>3, <1>4, <1>6, <1>7, <1>8

\* A word holds a number modulo a power of two.
LEMMA Wrap ==
  ASSUME NEW a \in Int
  PROVE  /\ Wrapped(a) \in SUBSET Bits
         /\ Num(Wrapped(a)) = a % 2 ^ Width
<1>1. Wrapped(a) = LowBitsOf(a, Width)
  BY Words DEF Wrapped, LowBitsOf
<1>2. Num(LowBitsOf(a, Width)) = a % 2 ^ Width
  BY Words, NumLow
<1> QED BY <1>1, <1>2 DEF Wrapped

\* Numbers that differ by a multiple of the modulus are the same word.
LEMMA WrapSame ==
  ASSUME NEW a \in Int, NEW k \in Int
  PROVE  Wrapped(a + k * 2 ^ Width) = Wrapped(a)
<1>1. ASSUME NEW i \in Bits PROVE ((a + k * 2 ^ Width) \div 2 ^ i) % 2 = (a \div 2 ^ i) % 2
  <2>1. i \in Nat /\ Width \in Nat /\ i < Width
    BY Words
  <2> QED BY ONLY a \in Int, k \in Int, <2>1, BitKept
<1> QED BY <1>1 DEF Wrapped

\* Two's complement: the sign is the top bit, and the other ones are those of the number.
LEMMA SignedWord ==
  ASSUME NEW b \in SUBSET Bits
  PROVE  /\ Signed(b) \in Int
         /\ Signed(b) = Num(b) \/ Signed(b) = Num(b) - 2 ^ Width
         /\ 0 - 2 ^ (Width - 1) <= Signed(b) /\ Signed(b) < 2 ^ (Width - 1)
         /\ \A i \in Nat : (Signed(b) \div 2 ^ i) % 2 = 1
                             <=> (IF i < Width THEN i ELSE Width - 1) \in b
<1> DEFINE p == 2 ^ (Width - 1)
           a == Num(b)
<1>1. p \in Nat /\ p > 0 /\ 2 ^ Width = 2 * p /\ a \in Nat /\ a < 2 * p
  BY Word, Words
<1>2. (a \div p) % 2 = 1 <=> Width - 1 \in b
  BY Word, Words
<1>3. a >= p <=> Width - 1 \in b
  <2> HIDE DEF a, p
  <2>1. a < p => a \div p = 0
    BY <1>1
  <2>2. a >= p => a \div p = 1
    BY <1>1
  <2> QED BY <1>1, <1>2, <2>1, <2>2
<1>4. Signed(b) = IF Width - 1 \in b THEN a - 2 * p ELSE a
  BY <1>1 DEF Signed
<1>5. ASSUME NEW i \in Nat, i < Width
      PROVE  (Signed(b) \div 2 ^ i) % 2 = 1 <=> i \in b
  <2>1. (a \div 2 ^ i) % 2 = 1 <=> i \in b
    BY Word
  <2>2. ((a + (0 - 1) * 2 ^ Width) \div 2 ^ i) % 2 = (a \div 2 ^ i) % 2
    <3>1. a \in Int /\ 0 - 1 \in Int /\ Width \in Nat
      BY <1>1, Words
    <3> HIDE DEF a
    <3> QED BY ONLY i \in Nat, i < Width, <1>5, <3>1, BitKept
  <2>3. a + (0 - 1) * 2 ^ Width = a - 2 * p
    BY <1>1
  <2>4. ((a - 2 * p) \div 2 ^ i) % 2 = (a \div 2 ^ i) % 2
    BY <2>2, <2>3
  <2> HIDE DEF a, p
  <2> QED BY <1>4, <2>1, <2>4
<1>6. ASSUME NEW i \in Nat, i >= Width
      PROVE  (Signed(b) \div 2 ^ i) % 2 = 1 <=> Width - 1 \in b
  <2> DEFINE q == 2 ^ i
  <2>1. q \in Nat /\ q > 0 /\ q >= 2 * p
    BY <1>1, <1>6, Words, Power, PowerGrows
  <2>2. CASE Width - 1 \in b
    <3> HIDE DEF a, p, q
    <3>1. Signed(b) \in Int /\ 0 - q <= Signed(b) /\ Signed(b) < 0
      BY <1>1, <1>3, <1>4, <2>1, <2>2
    <3>2. Signed(b) \div q = 0 - 1
      BY <2>1, <3>1
    <3>3. (0 - 1) % 2 = 1
      <4> DEFINE m == 0 - 1
      <4>1. m \in Int /\ m = m * 2 + 1
        OBVIOUS
      <4> HIDE DEF m
      <4>2. m % 2 = 1
        BY <4>1
      <4> QED BY <4>2 DEF m
    <3>4. (Signed(b) \div q) % 2 = 1
      BY <3>2, <3>3
    <3> QED BY <2>2, <3>4 DEF q
  <2>3. CASE Width - 1 \notin b
    <3> HIDE DEF a, p, q
    <3>1. Signed(b) \in Nat /\ Signed(b) < q
      BY <1>1, <1>4, <2>1, <2>3
    <3>2. Signed(b) \div q = 0
      BY <2>1, <3>1
    <3>4. (Signed(b) \div q) % 2 # 1
      BY <3>2
    <3> QED BY <2>3, <3>4 DEF q
  <2> QED BY <2>2, <2>3
<1> HIDE DEF a
<1>7. Signed(b) \in Int /\ (Signed(b) = a \/ Signed(b) = a - 2 ^ Width)
  BY <1>1, <1>4
<1>8. 0 - p <= Signed(b) /\ Signed(b) < p
  BY <1>1, <1>3, <1>4
<1>9. \A i \in Nat : (Signed(b) \div 2 ^ i) % 2 = 1 <=> (IF i < Width THEN i ELSE Width - 1) \in b
  <2>1. \A i \in Nat : i < Width \/ i >= Width
    BY Words
  <2> QED BY <1>5, <1>6, <2>1
<1> QED BY <1>7, <1>8, <1>9 DEF a, p

\* A word is read with its sign as the one number in the range that it stands for.
LEMMA SignedWrap ==
  ASSUME NEW a \in Int, 0 - 2 ^ (Width - 1) <= a, a < 2 ^ (Width - 1)
  PROVE  Signed(Wrapped(a)) = a
<1> DEFINE p == 2 ^ (Width - 1)
           b == Wrapped(a)
           c == Signed(b)
<1>1. p \in Nat /\ p > 0 /\ 2 ^ Width = 2 * p
  BY Words
<1>2. b \in SUBSET Bits /\ Num(b) = a % (2 * p)
  BY <1>1, Wrap
<1>3. c \in Int /\ (c = Num(b) \/ c = Num(b) - 2 * p) /\ 0 - p <= c /\ c < p
  <2> HIDE DEF b
  <2> QED BY <1>1, <1>2, SignedWord
<1>4. PICK k \in Int : a = k * (2 * p) + (a % (2 * p))
  <2> HIDE DEF p
  <2>1. 2 * p \in Nat /\ 2 * p > 0
    BY <1>1
  <2> QED BY <2>1, Division
<1>5. a % (2 * p) \in Int
  <2> HIDE DEF p
  <2> QED BY <1>1
<1> HIDE DEF b, c, p
<1>6. \E j \in Int : a = c + j * (2 * p)
  <2>1. a = c + k * (2 * p) \/ a = c + (k + 1) * (2 * p)
    BY <1>1, <1>2, <1>3, <1>4, <1>5
  <2> QED BY <2>1
<1>7. PICK j \in Int : a = c + j * (2 * p)
  BY <1>6
<1>8. 0 - p <= a /\ a < p
  BY DEF p
<1>9. j = 0
  <2>1. CASE j >= 1
    <3>1. j * (2 * p) >= 2 * p
      BY <1>1, <2>1
    <3> QED BY <1>1, <1>3, <1>7, <1>8, <3>1
  <2>2. CASE j <= 0 - 1
    <3>1. j * (2 * p) <= 0 - 2 * p
      BY <1>1, <2>2
    <3> QED BY <1>1, <1>3, <1>7, <1>8, <3>1
  <2> QED BY <2>1, <2>2
<1> QED BY <1>1, <1>3, <1>7, <1>9 DEF c, b

-----------------------------------------------------------------------------
(* Shifts and rotations                                                    *)

\* Moving around a word and back.
LEMMA Around ==
  ASSUME NEW w \in Nat, NEW i \in 0 .. w - 1, NEW n \in Int
  PROVE  (((i + n) % w) - n) % w = i
<1> DEFINE a == i + n
           q == a \div w
           j == a % w
<1>1. w > 0 /\ a \in Int
  OBVIOUS
<1>2. q \in Int /\ j \in 0 .. w - 1 /\ a = q * w + j
  <2> HIDE DEF a
  <2> QED BY <1>1, Division
<1> HIDE DEF q, j
<1>3. j - n = (0 - q) * w + i
  BY <1>1, <1>2
<1>4. j - n \in Int /\ 0 - q \in Int
  BY <1>1, <1>2
<1>5. (j - n) % w = i
  <2> DEFINE c == j - n
             k == 0 - q
  <2>1. c \in Int /\ k \in Int /\ c = k * w + i
    BY <1>3, <1>4
  <2> HIDE DEF c, k
  <2>2. c % w = i
    BY <1>1, <2>1, Divide
  <2> QED BY <2>2 DEF c
<1> QED BY <1>5 DEF j

\* Moving the bits of a word is arithmetic on the number: the machine shifts
\* numbers, the evaluator moves bits.
LEMMA Shifting ==
  ASSUME NEW b \in SUBSET Bits, NEW n \in Nat
  PROVE  /\ Wrapped(Num(b) * 2 ^ n) = Shifted("sll", b, n)
         /\ Wrapped(Num(b) \div 2 ^ n) = Shifted("srl", b, n)
         /\ n < Width => Wrapped(Signed(b) \div 2 ^ n) = Shifted("sra", b, n)
         /\ {(i + n) % Width : i \in b} = Shifted("rotl", b, n)
         /\ {(i - n) % Width : i \in b} = Shifted("rotr", b, n)
<1> DEFINE a == Num(b)
<1>1. a \in Nat /\ \A i \in Nat : (a \div 2 ^ i) % 2 = 1 <=> i \in b
  BY Word
<1>2. Bits \subseteq Nat /\ Width \in Nat /\ Width > 0 /\ Bits = 0 .. Width - 1
  BY Words
<1> HIDE DEF a
<1>3. ASSUME NEW i \in Bits PROVE ((a * 2 ^ n) \div 2 ^ i) % 2 = 1 <=> i - n \in b
  <2>1. i \in Nat /\ 2 ^ n \in Nat /\ 2 ^ n > 0
    BY <1>2, Power
  <2>2. CASE i < n
    <3>1. ((0 + a * 2 ^ n) \div 2 ^ i) % 2 = (0 \div 2 ^ i) % 2
      <4>1. 0 \in Int /\ a \in Int /\ i \in Nat
        BY <1>1, <2>1
      <4> QED BY ONLY n \in Nat, <2>2, <4>1, BitKept
    <3>2. 0 \div 2 ^ i = 0
      BY <2>1, TopBit, Power
    <3>3. 0 % 2 = 0
      OBVIOUS
    <3>4. 0 + a * 2 ^ n = a * 2 ^ n
      BY <1>1, <2>1
    <3>5. ((a * 2 ^ n) \div 2 ^ i) % 2 = 0
      BY <3>1, <3>2, <3>3, <3>4, Zenon
    <3>6. i - n \notin b
      BY <1>2, <2>1, <2>2
    <3> QED BY <3>5, <3>6
  <2>3. CASE i >= n
    <3> DEFINE j == i - n
               p == 2 ^ n
    <3>1. j \in Nat /\ n + j = i
      BY <2>1, <2>3
    <3> HIDE DEF j
    <3>2. (a * p) \div p = a
      <4> HIDE DEF p
      <4>1. p \in Nat /\ p > 0
        BY <2>1 DEF p
      <4> DEFINE c == a * p
      <4>2. c \in Int /\ c = a * p + 0 /\ 0 \in 0 .. p - 1 /\ a \in Int
        BY <1>1, <4>1
      <4> HIDE DEF c
      <4>3. c \div p = a
        BY <4>1, <4>2, Divide
      <4> QED BY <4>3 DEF c
    <3>3. ((a * p) \div p) \div 2 ^ j = (a * p) \div 2 ^ (n + j)
      <4>1. a * p \in Int
        BY <1>1, <2>1
      <4> QED BY <3>1, <4>1, DivideTwice
    <3>4. (a * p) \div 2 ^ i = a \div 2 ^ j
      BY <3>1, <3>2, <3>3
    <3>5. (a \div 2 ^ j) % 2 = 1 <=> j \in b
      BY <1>1, <3>1
    <3> QED BY <3>4, <3>5 DEF j, p
  <2> QED BY <1>2, <2>2, <2>3
<1>4. ASSUME NEW i \in Bits
      PROVE  /\ ((a \div 2 ^ n) \div 2 ^ i) % 2 = 1 <=> i + n \in b
             /\ n < Width => (((Signed(b) \div 2 ^ n) \div 2 ^ i) % 2 = 1
                               <=> (IF i + n < Width THEN i + n ELSE Width - 1) \in b)
  <2>1. i \in Nat /\ n + i = i + n /\ i + n \in Nat
    BY <1>2
  <2>2. (a \div 2 ^ n) \div 2 ^ i = a \div 2 ^ (n + i)
    <3>1. a \in Int /\ i \in Nat
      BY <1>1, <2>1
    <3> QED BY ONLY n \in Nat, <3>1, DivideTwice
  <2>3. (Signed(b) \div 2 ^ n) \div 2 ^ i = Signed(b) \div 2 ^ (n + i)
    BY <2>1, SignedWord, DivideTwice
  <2>4. (a \div 2 ^ (i + n)) % 2 = 1 <=> i + n \in b
    BY <1>1, <2>1
  <2>5. (Signed(b) \div 2 ^ (i + n)) % 2 = 1 <=> (IF i + n < Width THEN i + n ELSE Width - 1) \in b
    BY <2>1, SignedWord
  <2> QED BY <2>1, <2>2, <2>3, <2>4, <2>5
<1>5. Wrapped(a * 2 ^ n) = Shifted("sll", b, n)
  BY <1>3 DEF Wrapped, Shifted
<1>6. Wrapped(a \div 2 ^ n) = Shifted("srl", b, n)
  BY <1>4 DEF Wrapped, Shifted
<1>7. n < Width => Wrapped(Signed(b) \div 2 ^ n) = Shifted("sra", b, n)
  BY <1>4 DEF Wrapped, Shifted
<1>8. ASSUME NEW m \in Int
      PROVE  {(i + m) % Width : i \in b} = {i \in Bits : (i - m) % Width \in b}
  <2> DEFINE w == Width
  <2>1. w \in Nat /\ w > 0 /\ Bits = 0 .. w - 1 /\ b \subseteq 0 .. w - 1
    BY <1>2
  <2> HIDE DEF w
  <2>2. ASSUME NEW i \in b PROVE (i + m) % w \in 0 .. w - 1 /\ (((i + m) % w) - m) % w = i
    <3>1. i \in 0 .. w - 1
      BY <2>1
    <3>2. i + m \in Int
      BY <3>1
    <3>3. (i + m) % w \in 0 .. w - 1
      BY <2>1, <3>2, Division
    <3> QED BY <2>1, <3>1, <3>3, Around
  <2>3. ASSUME NEW i \in 0 .. w - 1 PROVE (((i - m) % w) + m) % w = i
    <3>1. 0 - m \in Int /\ i + (0 - m) = i - m
      OBVIOUS
    <3>2. (((i + (0 - m)) % w) - (0 - m)) % w = i
      BY <2>1, <3>1, Around
    <3>3. ((i - m) % w) - (0 - m) = ((i - m) % w) + m
      <4>1. i - m \in Int
        BY <3>1
      <4>2. (i - m) % w \in Int
        BY <2>1, <4>1, Division
      <4> QED BY <4>2
    <3> QED BY <3>1, <3>2, <3>3
  <2>4. {(i + m) % w : i \in b} = {i \in 0 .. w - 1 : (i - m) % w \in b}
    <3>1. ASSUME NEW i \in b
          PROVE  (i + m) % w \in {j \in 0 .. w - 1 : (j - m) % w \in b}
      BY <2>2
    <3>2. ASSUME NEW j \in {k \in 0 .. w - 1 : (k - m) % w \in b}
          PROVE  j \in {(i + m) % w : i \in b}
      <4>1. j \in 0 .. w - 1 /\ (j - m) % w \in b
        BY <3>2
      <4>2. (((j - m) % w) + m) % w = j
        BY <2>3, <4>1
      <4> QED BY <4>1, <4>2, Zenon
    <3> QED BY <3>1, <3>2
  <2> QED BY <2>1, <2>4 DEF w
<1>9. {(i + n) % Width : i \in b} = Shifted("rotl", b, n)
  BY <1>8 DEF Shifted
<1>10. {(i - n) % Width : i \in b} = Shifted("rotr", b, n)
  <2>1. 0 - n \in Int
    OBVIOUS
  <2>2. {(i + (0 - n)) % Width : i \in b} = {i \in Bits : (i - (0 - n)) % Width \in b}
    BY <1>8, <2>1
  <2>3. \A i \in Bits : i + (0 - n) = i - n /\ i - (0 - n) = i + n
    BY <1>2
  <2>4. {(i + (0 - n)) % Width : i \in b} = {(i - n) % Width : i \in b}
    BY <2>3
  <2>5. {i \in Bits : (i - (0 - n)) % Width \in b} = {i \in Bits : (i + n) % Width \in b}
    BY <2>3
  <2> QED BY <2>2, <2>4, <2>5 DEF Shifted
<1> QED BY <1>5, <1>6, <1>7, <1>9, <1>10 DEF a

-----------------------------------------------------------------------------
(* Binary operators                                                        *)

\* What EvalBinary makes of two known operands is a lattice value again: offsets
\* are numbers, and a mask has values of bits it knows only.
LEMMA BinaryType ==
  ASSUME NEW op \in Binaries, NEW l \in Claims, NEW r \in Claims
  PROVE  EvalBinary(op, l, r) \in Claims
<1>1. \A n : IntOf(n) \in Claims
  <2>1. \A n : Wrapped(n) \in SUBSET Bits
    BY DEF Wrapped
  <2> QED BY <2>1, Builds DEF IntOf
<1>2. \A t : Flag(t) \in Claims
  BY Builds, Words DEF Flag
<1>3. Overdefined \in Claims /\ Undefined \in Claims /\ Pointer \in Claims /\ FloatZero \in Claims
  BY Builds
<1>4. ASSUME NEW v \in Claims, HasOffset(v), NEW n \in Int PROVE Moved(v, n) \in Claims
  <2>1. CASE v.kind = "frame"
    <3>1. v = CreateFrame(v.obj, v.off) /\ v.obj \in Objects /\ v.off \in Int
      BY <2>1, Shapes
    <3>2. Moved(v, n) = CreateFrame(v.obj, v.off + n)
      BY <3>1 DEF Moved, CreateFrame
    <3> QED BY <3>1, <3>2, Builds
  <2>2. CASE v.kind = "global"
    <3>1. v = CreateGlobal(v.sym, v.off) /\ v.sym \in Syms /\ v.off \in Int
      BY <2>2, Shapes
    <3>2. Moved(v, n) = CreateGlobal(v.sym, v.off + n)
      BY <3>1 DEF Moved, CreateGlobal
    <3> QED BY <3>1, <3>2, Builds
  <2> QED BY <1>4, <2>1, <2>2 DEF HasOffset
<1>5. \A v \in Claims : Is(v, "int") => v.bits \in SUBSET Bits /\ Num(v.bits) \in Int /\ Signed(v.bits) \in Int
  BY Shapes, Word, SignedWord DEF Is
<1>6. EvalAdd(l, r) \in Claims
  <2>1. \A v \in Claims : Is(v, "global") => CreateRange(v.sym) \in Claims
    BY Shapes, Builds DEF Is
  <2> QED BY <1>1, <1>3, <1>4, <1>5, <2>1 DEF EvalAdd, BothInts
<1>7. EvalSub(l, r) \in Claims
  <2>1. Is(r, "int") => 0 - Signed(r.bits) \in Int
    BY <1>5
  <2> QED BY <1>1, <1>3, <1>4, <2>1 DEF EvalSub, BothInts
<1>8. EvalAnd(l, r) \in Claims
  <2>1. \A i, m \in Claims : Is(m, "mask") => AndMask(i, m) \in Claims
    BY Shapes, Builds DEF Is, AndMask
  <2>2. BothInts(l, r) => CreateInteger(l.bits \cap r.bits) \in Claims
    BY <1>5, Builds DEF BothInts
  <2>3. CreateInteger({}) \in Claims
    BY Builds
  <2> QED BY <1>3, <2>1, <2>2, <2>3 DEF EvalAnd
<1>9. EvalOr(l, r) \in Claims
  <2>1. \A v, i \in Claims : Is(v, "frame") /\ Is(i, "int") => FrameOr(v, i) \in Claims
    BY <1>3, <1>4, <1>5 DEF FrameOr, HasOffset, Is
  <2>2. BothInts(l, r) => CreateInteger(l.bits \cup r.bits) \in Claims
    BY <1>5, Builds DEF BothInts
  <2> QED BY <1>3, <2>1, <2>2 DEF EvalOr
<1>10. EvalXor(l, r) \in Claims
  <2>1. BothInts(l, r) => CreateInteger((l.bits \ r.bits) \cup (r.bits \ l.bits)) \in Claims
    BY <1>5, Builds DEF BothInts
  <2> QED BY <1>3, <2>1 DEF EvalXor
<1>11. EvalMul(l, r) \in Claims /\ EvalUDiv(l, r) \in Claims /\ EvalSDiv(l, r) \in Claims
  BY <1>1, <1>3 DEF EvalMul, EvalUDiv, EvalSDiv
<1>12. EvalOUAdd(l, r) \in Claims /\ EvalOUMul(l, r) \in Claims /\ EvalOSAdd(l, r) \in Claims
  BY <1>2, <1>3 DEF EvalOUAdd, EvalOUMul, EvalOSAdd
<1>13. EvalFAdd(l, r) \in Claims /\ EvalFMul(l, r) \in Claims
  BY <1>3 DEF EvalFAdd, EvalFMul
<1>14. op \in {"sll", "srl", "sra", "rotl", "rotr"} => EvalBitwise(op, l, r) \in Claims
  <2> SUFFICES ASSUME op \in {"sll", "srl", "sra", "rotl", "rotr"} PROVE EvalBitwise(op, l, r) \in Claims
    OBVIOUS
  <2> DEFINE n == Num(r.bits)
  <2>1. \A b : Shifted(op, b, n) \in SUBSET Bits
    BY DEF Shifted
  <2>2. \A b, c : b \subseteq c => Shifted(op, b, n) \subseteq Shifted(op, c, n)
    BY DEF Shifted
  <2>3. \A b : CreateInteger(Shifted(op, b, n)) \in Claims
    BY <2>1, Builds
  <2>4. Is(l, "mask") => CreateMask(Shifted(op, l.known, n), Shifted(op, l.value, n)) \in Claims
    <3>1. Is(l, "mask") => l.value \subseteq l.known
      BY Shapes DEF Is
    <3> QED BY <2>1, <2>2, <3>1, Builds
  <2>5. CreateMask({i \in Bits : i < n}, {}) \in Claims
    BY Builds
  <2> HIDE DEF n
  <2> QED BY <1>3, <2>3, <2>4, <2>5 DEF EvalBitwise, n
<1> QED BY <1>3, <1>6, <1>7, <1>8, <1>9, <1>10, <1>11, <1>12, <1>13, <1>14 DEF EvalBinary

\* What is promised when a value is described by a lattice value that was built.
LEMMA Allows ==
  ASSUME NEW x, NEW f
  PROVE  /\ Stands(x, Overdefined, f)
         /\ \A v \in Claims : Stands(Undefined, v, f)
         /\ \A b : Stands(CreateInteger(b), CreateInteger(b), f)
         /\ \A known, value : Is(x, "int") /\ x.bits \cap known = value => Stands(x, CreateMask(known, value), f)
         /\ \A g, n : Stands(CreateGlobal(g, n), CreateGlobal(g, n), f)
         /\ \A o, n : Stands(Stack(f, o, n), CreateFrame(o, n), f)
         /\ \A g, n : Stands(CreateGlobal(g, n), CreateRange(g), f)
         /\ IsAddress(x) => Stands(x, Pointer, f)
         /\ \A g \in FloatZeros : Stands(CreateFloat(g), FloatZero, f)
<1>1. \A v \in Claims : v # Unknown
  BY Shapes
<1> QED BY <1>1 DEF Stands, CreateInteger, CreateMask, CreateGlobal, CreateFrame, CreateRange, CreateFloat,
                    Is, Stack, Address, Pointer, FloatZero

\* Operands of an instruction in a run, which are what the solver knows of them.
Described(l, r, x, y, f) ==
  /\ l \in Claims /\ r \in Claims
  /\ IsRunValue(x) /\ IsRunValue(y)
  /\ Stands(x, l, f) /\ Stands(y, r, f)

\* What the solver can know of an integer, of an address and of a number.
LEMMA Known ==
  ASSUME NEW v \in Claims, NEW x, IsRunValue(x), NEW f, Stands(x, v, f), ~ MaybeNull(v)
  PROVE  /\ Is(x, "int") => \/ v = Overdefined
                            \/ v = x
                            \/ v.kind = "mask" /\ x.bits \cap v.known = v.value
         /\ IsAddress(x) => \/ v \in {Overdefined, Pointer}
                            \/ v.kind = "global" /\ v = x
                            \/ v.kind = "frame" /\ x = Stack(f, v.obj, v.off)
                            \/ v.kind = "range" /\ Is(x, "global") /\ x.sym = v.sym
         /\ Is(x, "float") => \/ v = Overdefined
                              \/ v = x
                              \/ v = FloatZero /\ x.float \in FloatZeros
<1>1. x.kind \in {"undefined", "int", "float", "global", "stack"} /\ (x.kind = "undefined" <=> x = Undefined)
  BY Kinds
<1>2. CASE x = Undefined
  BY <1>1, <1>2 DEF Is, IsAddress
<1>3. CASE x # Undefined
  <2>1. /\ v.kind \in {"overdefined", "undefined", "pointer", "float_zero", "int", "mask", "frame",
                       "global", "range", "float"}
        /\ v.kind = "overdefined" <=> v = Overdefined
        /\ v.kind = "pointer" <=> v = Pointer
        /\ v.kind = "float_zero" <=> v = FloatZero
    BY Shapes
  <2>2. /\ v.kind # "undefined"
        /\ v.kind \in {"int", "float"} => x = v
        /\ v.kind = "global" => x = v
        /\ v.kind = "mask" => Is(x, "int") /\ x.bits \cap v.known = v.value
        /\ v.kind = "frame" => x = Stack(f, v.obj, v.off)
        /\ v.kind = "pointer" => IsAddress(x)
        /\ v.kind = "range" => Is(x, "global") /\ x.sym = v.sym
        /\ v.kind = "float_zero" => Is(x, "float") /\ x.float \in FloatZeros
    BY <1>3, Means
  <2>3. \A func, o, n : Stack(func, o, n).kind = "stack"
    BY DEF Stack
  <2> QED BY <2>1, <2>2, <2>3 DEF Is, IsAddress
<1> QED BY <1>2, <1>3

\* The rule that EvalBinary has for an operator.
LEMMA Dispatch ==
  ASSUME NEW op, NEW l, NEW r, l # Undefined, r # Undefined
  PROVE  /\ op = "add" => EvalBinary(op, l, r) = EvalAdd(l, r)
         /\ op = "sub" => EvalBinary(op, l, r) = EvalSub(l, r)
         /\ op = "and" => EvalBinary(op, l, r) = EvalAnd(l, r)
         /\ op = "or" => EvalBinary(op, l, r) = EvalOr(l, r)
         /\ op = "xor" => EvalBinary(op, l, r) = EvalXor(l, r)
         /\ op = "mul" => EvalBinary(op, l, r) = EvalMul(l, r)
         /\ op = "udiv" => EvalBinary(op, l, r) = EvalUDiv(l, r)
         /\ op = "sdiv" => EvalBinary(op, l, r) = EvalSDiv(l, r)
         /\ op = "urem" => EvalBinary(op, l, r) = Overdefined
         /\ op = "ouadd" => EvalBinary(op, l, r) = EvalOUAdd(l, r)
         /\ op = "oumul" => EvalBinary(op, l, r) = EvalOUMul(l, r)
         /\ op = "osadd" => EvalBinary(op, l, r) = EvalOSAdd(l, r)
         /\ op = "fadd" => EvalBinary(op, l, r) = EvalFAdd(l, r)
         /\ op = "fmul" => EvalBinary(op, l, r) = EvalFMul(l, r)
         /\ op \in {"sll", "srl", "sra", "rotl", "rotr"} => EvalBinary(op, l, r) = EvalBitwise(op, l, r)
BY DEF EvalBinary

\* On two integers that are known the evaluator computes what the machine does,
\* unless it has no rule (a remainder) or the machine's result is undefined.
LEMMA Exact ==
  ASSUME NEW op \in Binaries \ {"fadd", "fmul"}, NEW a \in SUBSET Bits, NEW b \in SUBSET Bits,
         NEW z \in OnInts(op, a, b)
  PROVE  z \in {EvalBinary(op, CreateInteger(a), CreateInteger(b)), Undefined} \/ op = "urem"
<1> DEFINE l == CreateInteger(a)
           r == CreateInteger(b)
           m == 2 ^ Width
<1>1. BothInts(l, r) /\ l.bits = a /\ r.bits = b /\ Is(l, "int") /\ Is(r, "int") /\ Undefined \notin {l, r}
  BY DEF BothInts, Is, CreateInteger, Undefined
<1>2. Num(a) \in Nat /\ Num(a) < m /\ Num(b) \in Nat /\ Num(b) < m /\ m \in Nat /\ m > 0
  <2>1. \A c \in SUBSET Bits : Num(c) \in Nat /\ Num(c) < 2 ^ Width
    BY Word
  <2>2. 2 ^ Width \in Nat /\ 2 ^ Width > 0
    BY Words, Power
  <2> QED BY <2>1, <2>2
<1> HIDE DEF l, r, m
<1>3. CASE op \in {"add", "sub", "mul", "and", "or"}
  <2>1. /\ op = "add" => z = IntOf(Num(a) + Num(b))
        /\ op = "sub" => z = IntOf(Num(a) - Num(b))
        /\ op = "mul" => z = IntOf(Num(a) * Num(b))
        /\ op = "and" => z = CreateInteger(a \cap b)
        /\ op = "or" => z = CreateInteger(a \cup b)
    BY DEF OnInts
  <2>2. /\ EvalAdd(l, r) = IntOf(Num(a) + Num(b))
        /\ EvalSub(l, r) = IntOf(Num(a) - Num(b))
        /\ EvalMul(l, r) = IntOf(Num(a) * Num(b))
        /\ EvalAnd(l, r) = CreateInteger(a \cap b)
        /\ EvalOr(l, r) = CreateInteger(a \cup b)
    BY <1>1 DEF EvalAdd, EvalSub, EvalMul, EvalAnd, EvalOr, Is, HasOffset
  <2>3. z = EvalBinary(op, l, r)
    BY <1>1, <1>3, <2>1, <2>2, Dispatch
  <2> QED BY <2>3 DEF l, r
<1>4. CASE op = "xor"
  <2>1. (a \cup b) \ (a \cap b) = (a \ b) \cup (b \ a)
    OBVIOUS
  <2>2. z = CreateInteger((a \cup b) \ (a \cap b))
    BY <1>4 DEF OnInts
  <2>3. EvalBinary(op, l, r) = CreateInteger((a \ b) \cup (b \ a))
    BY <1>1, <1>4, Dispatch DEF EvalXor
  <2> QED BY <2>1, <2>2, <2>3 DEF l, r
<1>5. CASE op = "udiv"
  <2>1. z \in IntConstants /\ Num(z.bits) * Num(b) <= Num(a) /\ (Num(z.bits) + 1) * Num(b) > Num(a)
    BY <1>5 DEF OnInts, AnyInt
  <2>2. z = CreateInteger(z.bits) /\ z.bits \in SUBSET Bits
    BY <2>1 DEF IntConstants, CreateInteger
  <2>3. Num(z.bits) \in Nat /\ Wrapped(Num(z.bits)) = z.bits
    BY <2>2, Word
  <2>4. Num(b) # 0
    <3>1. (Num(z.bits) + 1) * 0 = 0 /\ ~(0 > Num(a))
      BY <1>2, <2>3
    <3> QED BY <2>1, <3>1
  <2>5. Num(a) \div Num(b) = Num(z.bits)
    <3> DEFINE q == Num(z.bits)
               c == Num(a)
               d == Num(b)
               k == c - q * d
    <3>1. q \in Nat /\ c \in Nat /\ d \in Nat /\ d > 0 /\ q * d <= c /\ (q + 1) * d > c
      BY <1>2, <2>1, <2>3, <2>4
    <3> HIDE DEF q, c, d
    <3>2. (q + 1) * d = q * d + d /\ q * d \in Nat
      BY <3>1
    <3>3. k \in 0 .. d - 1 /\ c = q * d + k
      BY <3>1, <3>2
    <3> HIDE DEF k
    <3>4. c \div d = q
      BY <3>1, <3>3, Divide
    <3> QED BY <3>4 DEF q, c, d
  <2>6. b # {}
    BY <2>4, Word
  <2>7. EvalBinary(op, l, r) = IntOf(Num(a) \div Num(b))
    BY <1>1, <1>5, <2>6, Dispatch DEF EvalUDiv
  <2> QED BY <2>2, <2>3, <2>5, <2>7 DEF IntOf, l, r
<1>6. CASE op = "sdiv"
  <2>1. b # {} /\ z = IntOf(Quotient(Signed(a), Signed(b)))
    BY <1>6 DEF OnInts
  <2>2. EvalBinary(op, l, r) = IntOf(Quotient(Signed(a), Signed(b)))
    BY <1>1, <1>6, <2>1, Dispatch DEF EvalSDiv
  <2> QED BY <2>1, <2>2 DEF l, r
<1>7. CASE op = "ouadd"
  <2>1. z = Flag(Num(Wrapped(Num(a) + Num(b))) < Num(a))
    BY <1>7 DEF OnInts
  <2>2. EvalBinary(op, l, r) = Flag(Num(a) + Num(b) >= m)
    BY <1>1, <1>7, Dispatch DEF EvalOUAdd, m
  <2>3. Num(Wrapped(Num(a) + Num(b))) = (Num(a) + Num(b)) % m
    BY <1>2, Wrap DEF m
  <2>4. Num(a) + Num(b) >= m <=> (Num(a) + Num(b)) % m < Num(a)
    <3> DEFINE c == Num(a)
               d == Num(b)
               e == c + d - m
    <3>1. c \in Nat /\ c < m /\ d \in Nat /\ d < m /\ c + d \in Int
      BY <1>2
    <3> HIDE DEF c, d
    <3>2. CASE c + d >= m
      <4>1. e \in 0 .. m - 1 /\ c + d = 1 * m + e
        BY <1>2, <3>1, <3>2
      <4>2. e < c
        BY <1>2, <3>1
      <4> HIDE DEF e
      <4>3. (c + d) % m = e
        <5> DEFINE g == c + d
        <5>1. g \in Int /\ g = 1 * m + e
          BY <3>1, <4>1
        <5> HIDE DEF g
        <5>2. g % m = e
          BY <1>2, <4>1, <5>1, Divide
        <5> QED BY <5>2 DEF g
      <4> QED BY <3>2, <4>2, <4>3 DEF c, d
    <3>3. CASE c + d < m
      <4> DEFINE g == c + d
      <4>1. g \in 0 .. m - 1 /\ g = 0 * m + g
        BY <1>2, <3>1, <3>3
      <4>2. g >= c
        BY <3>1
      <4> HIDE DEF g
      <4>3. g % m = g
        BY <1>2, <4>1, Divide
      <4>4. ~(g % m < c)
        BY <3>1, <4>1, <4>2, <4>3
      <4> QED BY <1>2, <3>1, <3>3, <4>4 DEF g
    <3> QED BY <1>2, <3>1, <3>2, <3>3 DEF c, d
  <2> QED BY <2>1, <2>2, <2>3, <2>4 DEF l, r
<1>8. CASE op = "oumul"
  <2>1. z = Flag(Num(a) * Num(b) > Num(Bits))
    BY <1>8 DEF OnInts
  <2>2. EvalBinary(op, l, r) = Flag(Num(a) * Num(b) >= m)
    BY <1>1, <1>8, Dispatch DEF EvalOUMul, m
  <2>3. Num(Bits) = m - 1
    BY Words, NumFull DEF m
  <2>4. Num(a) * Num(b) \in Nat
    BY <1>2
  <2>5. Num(a) * Num(b) > m - 1 <=> Num(a) * Num(b) >= m
    BY <1>2, <2>4
  <2> QED BY <2>1, <2>2, <2>3, <2>5 DEF l, r
<1>9. CASE op = "osadd"
  <2> DEFINE c == Signed(a) + Signed(b)
             p == 2 ^ (Width - 1)
  <2>1. z = Flag(c >= p \/ c < 0 - p)
    BY <1>9 DEF OnInts
  <2>2. EvalBinary(op, l, r) = Flag(c # Signed(Wrapped(c)))
    BY <1>1, <1>9, Dispatch DEF EvalOSAdd
  <2>3. c \in Int /\ p \in Nat
    BY SignedWord, Words
  <2>4. 0 - p <= Signed(Wrapped(c)) /\ Signed(Wrapped(c)) < p
    <3>1. Wrapped(c) \in SUBSET Bits
      BY DEF Wrapped
    <3> HIDE DEF c
    <3> QED BY <3>1, SignedWord
  <2>5. 0 - p <= c /\ c < p => Signed(Wrapped(c)) = c
    <3> HIDE DEF c
    <3> QED BY <2>3, SignedWrap
  <2> HIDE DEF c, p
  <2>6. (c >= p \/ c < 0 - p) <=> c # Signed(Wrapped(c))
    BY <2>3, <2>4, <2>5
  <2> QED BY <2>1, <2>2, <2>6 DEF l, r
<1>10. CASE op \in {"sll", "srl", "sra", "rotl", "rotr"}
  <2>1. EvalBinary(op, l, r) = CreateInteger(Shifted(op, a, Num(b)))
    <3>1. EvalBinary(op, l, r) = EvalBitwise(op, l, r)
      BY <1>1, <1>10, Dispatch
    <3>2. EvalBitwise(op, l, r) = CreateInteger(Shifted(op, a, Num(b)))
      BY <1>1 DEF EvalBitwise, Is, IsPointerLike, Overdefined
    <3> QED BY <3>1, <3>2
  <2>2. CASE op = "sll"
    <3>1. z \in {Undefined, IntOf(Num(a) * 2 ^ Num(b))}
      BY <2>2 DEF OnInts
    <3>2. Wrapped(Num(a) * 2 ^ Num(b)) = Shifted("sll", a, Num(b))
      BY <1>2, Shifting
    <3> QED BY <2>1, <2>2, <3>1, <3>2 DEF IntOf, l, r
  <2>3. CASE op = "srl"
    <3>1. z \in {Undefined, IntOf(Num(a) \div 2 ^ Num(b))}
      BY <2>3 DEF OnInts
    <3>2. Wrapped(Num(a) \div 2 ^ Num(b)) = Shifted("srl", a, Num(b))
      BY <1>2, Shifting
    <3> QED BY <2>1, <2>3, <3>1, <3>2 DEF IntOf, l, r
  <2>4. CASE op = "sra"
    <3>1. z = Undefined \/ (z = IntOf(Signed(a) \div 2 ^ Num(b)) /\ ~(Num(b) >= Width))
      BY <2>4 DEF OnInts
    <3>2. ~(Num(b) >= Width) => Wrapped(Signed(a) \div 2 ^ Num(b)) = Shifted("sra", a, Num(b))
      <4>1. ~(Num(b) >= Width) => Num(b) < Width
        BY <1>2, Words
      <4> QED BY <1>2, <4>1, Shifting
    <3> QED BY <2>1, <2>4, <3>1, <3>2 DEF IntOf, l, r
  <2>5. CASE op = "rotl"
    <3>1. z = CreateInteger({(i + Num(b)) % Width : i \in a})
      BY <2>5 DEF OnInts
    <3>2. {(i + Num(b)) % Width : i \in a} = Shifted("rotl", a, Num(b))
      BY <1>2, Shifting
    <3> QED BY <2>1, <2>5, <3>1, <3>2 DEF l, r
  <2>6. CASE op = "rotr"
    <3>1. z = CreateInteger({(i - Num(b)) % Width : i \in a})
      BY <2>6 DEF OnInts
    <3>2. {(i - Num(b)) % Width : i \in a} = Shifted("rotr", a, Num(b))
      BY <1>2, Shifting
    <3> QED BY <2>1, <2>6, <3>1, <3>2 DEF l, r
  <2> QED BY <1>10, <2>2, <2>3, <2>4, <2>5, <2>6
<1> QED BY <1>3, <1>4, <1>5, <1>6, <1>7, <1>8, <1>9, <1>10 DEF Binaries, l, r

\* Of integers: a rule that needs both of them known gives nothing otherwise; the
\* known bits of a mask survive a conjunction and a shift.
LEMMA IntsSound ==
  ASSUME NEW op \in Binaries \ {"fadd", "fmul"}, NEW l, NEW r, NEW x, NEW y, NEW f,
         Described(l, r, x, y, f), ~ MaybeNull(l), ~ MaybeNull(r), Is(x, "int"), Is(y, "int"),
         NEW z \in OnInts(op, x.bits, y.bits)
  PROVE  Stands(z, EvalBinary(op, l, r), f)
<1> DEFINE a == x.bits
           b == y.bits
           v == EvalBinary(op, l, r)
<1>1. l \in Claims /\ r \in Claims /\ IsRunValue(x) /\ IsRunValue(y) /\ Stands(x, l, f) /\ Stands(y, r, f)
  BY DEF Described
<1>2. x = CreateInteger(a) /\ a \in SUBSET Bits /\ y = CreateInteger(b) /\ b \in SUBSET Bits
  BY <1>1, Kinds DEF Is
<1>3. l = Overdefined \/ l = x \/ (l.kind = "mask" /\ a \cap l.known = l.value)
  BY <1>1, Known
<1>4. r = Overdefined \/ r = y \/ (r.kind = "mask" /\ b \cap r.known = r.value)
  BY <1>1, Known
<1>5. l # Undefined /\ r # Undefined /\ l.kind \in {"overdefined", "int", "mask"}
        /\ r.kind \in {"overdefined", "int", "mask"}
  BY <1>3, <1>4 DEF Overdefined, Undefined, Is
<1>13. x.kind = "int" /\ y.kind = "int" /\ Overdefined.kind = "overdefined"
  BY DEF Is, Overdefined
<1>6. Stands(z, Overdefined, f) /\ Stands(Undefined, v, f) /\ v \in Claims
  BY <1>1, Allows, BinaryType
<1>7. z \in {EvalBinary(op, x, y), Undefined} \/ op = "urem"
  BY <1>2, Exact
<1> HIDE DEF a, b, v
<1>8. z \in IntConstants \cup {Undefined}
  <2>1. EvalBinary(op, x, y) \in Claims
    <3>1. x \in Claims /\ y \in Claims
      BY <1>2, Builds
    <3> QED BY <3>1, BinaryType
  <2>2. \A n : IntOf(n) \in IntConstants
    <3>1. \A n : Wrapped(n) \in SUBSET Bits
      BY DEF Wrapped
    <3> QED BY <3>1 DEF IntOf, IntConstants
  <2>3. \A t : Flag(t) \in IntConstants
    BY Builds, Words DEF Flag
  <2>4. CreateInteger(a \cap b) \in IntConstants /\ CreateInteger(a \cup b) \in IntConstants
          /\ CreateInteger((a \cup b) \ (a \cap b)) \in IntConstants
    BY <1>2, Builds
  <2>5. \A n \in Nat : /\ CreateInteger({(i + n) % Width : i \in a}) \in IntConstants
                       /\ CreateInteger({(i - n) % Width : i \in a}) \in IntConstants
    <3>1. \A n \in Nat : /\ {(i + n) % Width : i \in a} = Shifted("rotl", a, n)
                         /\ {(i - n) % Width : i \in a} = Shifted("rotr", a, n)
      BY <1>2, Shifting
    <3>2. \A n : Shifted("rotl", a, n) \in SUBSET Bits /\ Shifted("rotr", a, n) \in SUBSET Bits
      BY DEF Shifted
    <3> QED BY <3>1, <3>2, Builds
  <2>6. Num(b) \in Nat
    BY <1>2, Word
  <2>7. CASE op \in {"add", "sub", "mul", "and", "or", "xor"}
    BY <2>2, <2>4, <2>7 DEF OnInts, a, b
  <2>8. CASE op \in {"udiv", "sdiv", "urem"}
    BY <2>2, <2>8 DEF OnInts, AnyInt
  <2>9. CASE op \in {"ouadd", "oumul", "osadd"}
    BY <2>3, <2>9 DEF OnInts
  <2>10. CASE op \in {"sll", "srl", "sra"}
    <3>1. z = Undefined \/ \E n : z = IntOf(n)
      BY <2>10 DEF OnInts
    <3> QED BY <2>2, <3>1
  <2>11. CASE op = "rotl"
    <3>1. z = CreateInteger({(i + Num(b)) % Width : i \in a})
      BY <2>11 DEF OnInts, a, b
    <3> QED BY <2>5, <2>6, <3>1
  <2>12. CASE op = "rotr"
    <3>1. z = CreateInteger({(i - Num(b)) % Width : i \in a})
      BY <2>12 DEF OnInts, a, b
    <3> QED BY <2>5, <2>6, <3>1
  <2> QED BY <2>7, <2>8, <2>9, <2>10, <2>11, <2>12 DEF Binaries
<1>9. CASE op = "urem"
  <2>1. v = Overdefined
    BY <1>5, <1>9, Dispatch DEF v
  <2> QED BY <1>6, <2>1 DEF v
<1>10. CASE op # "urem" /\ l = x /\ r = y
  <2>1. z = v \/ z = Undefined
    BY <1>7, <1>10 DEF v
  <2>2. CASE z = Undefined
    BY <1>6, <2>2 DEF v
  <2>3. CASE z # Undefined
    <3>1. z = CreateInteger(z.bits)
      BY <1>8, <2>3 DEF IntConstants, CreateInteger
    <3>2. Stands(z, z, f)
      BY <3>1, Allows
    <3> QED BY <2>1, <2>3, <3>2 DEF v
  <2> QED BY <2>2, <2>3
<1>11. CASE op # "urem" /\ ~ (Is(l, "int") /\ Is(r, "int"))
  <2>1. ~ BothInts(l, r)
    BY <1>11 DEF BothInts
  <2>2. CASE op \in {"xor", "mul", "udiv", "sdiv", "ouadd", "oumul", "osadd"}
    <3>1. /\ EvalXor(l, r) = Overdefined /\ EvalMul(l, r) = Overdefined
          /\ EvalUDiv(l, r) = Overdefined /\ EvalSDiv(l, r) = Overdefined
          /\ EvalOUAdd(l, r) = Overdefined /\ EvalOUMul(l, r) = Overdefined
          /\ EvalOSAdd(l, r) = Overdefined
      BY <2>1 DEF EvalXor, EvalMul, EvalUDiv, EvalSDiv, EvalOUAdd, EvalOUMul, EvalOSAdd
    <3>2. v = Overdefined
      BY <1>5, <2>2, <3>1, Dispatch DEF v
    <3> QED BY <1>6, <3>2 DEF v
  <2>3. CASE op \in {"add", "sub", "or"}
    <3>1. EvalAdd(l, r) = Overdefined /\ EvalSub(l, r) = Overdefined /\ EvalOr(l, r) = Overdefined
      BY <1>5, <2>1 DEF EvalAdd, EvalSub, EvalOr, HasOffset, Is
    <3>2. v = Overdefined
      BY <1>5, <2>3, <3>1, Dispatch DEF v
    <3> QED BY <1>6, <3>2 DEF v
  <2>4. CASE op = "and"
    <3>1. z = CreateInteger(a \cap b)
      BY <2>4 DEF OnInts, a, b
    <3>2. Is(z, "int") /\ z.bits = a \cap b
      BY <3>1 DEF Is, CreateInteger
    <3>3. CASE l = x /\ r.kind = "mask"
      <4>1. l.bits = a /\ Is(l, "int")
        BY <1>2, <3>3 DEF Is, CreateInteger
      <4>2. b \cap r.known = r.value
        BY <1>4, <1>13, <3>3
      <4>3. v = CreateMask(r.known, r.value \cap a \cap r.known)
        <5>1. EvalAnd(l, r) = CreateMask(r.known, r.value \cap a \cap r.known)
          BY <2>1, <3>3, <4>1 DEF EvalAnd, AndMask, HasOffset, Is
        <5> QED BY <1>5, <2>4, <5>1, Dispatch DEF v
      <4> DEFINE w == r.value \cap a \cap r.known
      <4>4. z.bits \cap r.known = w
        BY <3>2, <4>2
      <4> HIDE DEF w
      <4>5. Stands(z, CreateMask(r.known, w), f)
        BY <3>2, <4>4, Allows
      <4> QED BY <4>3, <4>5 DEF v, w
    <3>4. CASE l.kind = "mask" /\ r = y
      <4>1. r.bits = b /\ Is(r, "int")
        BY <1>2, <3>4 DEF Is, CreateInteger
      <4>2. a \cap l.known = l.value
        BY <1>3, <1>13, <3>4
      <4>3. v = CreateMask(l.known, l.value \cap b \cap l.known)
        <5>1. EvalAnd(l, r) = CreateMask(l.known, l.value \cap b \cap l.known)
          BY <2>1, <3>4, <4>1 DEF EvalAnd, AndMask, HasOffset, Is
        <5> QED BY <1>5, <2>4, <5>1, Dispatch DEF v
      <4> DEFINE w == l.value \cap b \cap l.known
      <4>4. z.bits \cap l.known = w
        BY <3>2, <4>2
      <4> HIDE DEF w
      <4>5. Stands(z, CreateMask(l.known, w), f)
        BY <3>2, <4>4, Allows
      <4> QED BY <4>3, <4>5 DEF v, w
    <3>5. CASE ~ (Is(l, "int") /\ Is(r, "mask")) /\ ~ (Is(l, "mask") /\ Is(r, "int"))
      <4>1. v = Overdefined
        <5>1. EvalAnd(l, r) = Overdefined
          BY <1>5, <2>1, <3>5 DEF EvalAnd, HasOffset, Is
        <5> QED BY <1>5, <2>4, <5>1, Dispatch DEF v
      <4> QED BY <1>6, <4>1 DEF v
    <3>6. (Is(l, "int") => l = x) /\ (Is(r, "int") => r = y)
      BY <1>3, <1>4 DEF Is, Overdefined
    <3> QED BY <3>3, <3>4, <3>5, <3>6 DEF Is
  <2>5. CASE op \in {"sll", "srl", "sra", "rotl", "rotr"}
    <3> DEFINE n == Num(b)
    <3>1. v = EvalBitwise(op, l, r)
      BY <1>5, <2>5, Dispatch DEF v
    <3>2. CASE z = Undefined
      BY <1>6, <3>2 DEF v
    <3>3. CASE r # y /\ z # Undefined
      <4>1. ~ Is(r, "int")
        BY <1>4, <3>3 DEF Is, Overdefined
      <4>2. v = Overdefined
        BY <3>1, <4>1 DEF EvalBitwise
      <4> QED BY <1>6, <4>2 DEF v
    <3>4. CASE r = y /\ z # Undefined
      <4>1. r.bits = b /\ Is(r, "int") /\ ~ Is(l, "int")
        BY <1>2, <1>11, <3>4 DEF Is, CreateInteger
      <4>2. z = CreateInteger(Shifted(op, a, n))
        <5>1. EvalBinary(op, x, y) = EvalBitwise(op, x, y)
          <6>1. x # Undefined /\ y # Undefined
            BY <1>2 DEF CreateInteger, Undefined
          <6> QED BY <2>5, <6>1, Dispatch
        <5>2. EvalBitwise(op, x, y) = CreateInteger(Shifted(op, a, n))
          BY <1>2 DEF EvalBitwise, Is, IsPointerLike, CreateInteger, Overdefined
        <5> QED BY <1>7, <1>11, <3>4, <5>1, <5>2
      <4>3. CASE l = Overdefined
        <5>1. v = (IF op = "sll" THEN CreateMask({i \in Bits : i < n}, {}) ELSE Overdefined)
          BY <3>1, <4>1, <4>3 DEF EvalBitwise, IsPointerLike, Is, Overdefined
        <5>2. CASE op = "sll"
          <6>1. z.bits \cap {i \in Bits : i < n} = {} /\ Is(z, "int")
            <7>1. \A i \in Bits : i \in Nat /\ n \in Nat
              BY <1>2, Word, Words
            <7>2. z.bits = {i \in Bits : i - n \in a} /\ Is(z, "int")
              BY <4>2, <5>2 DEF Shifted, CreateInteger, Is
            <7>3. \A i \in Bits : i < n => i - n \notin a
              <8>1. \A j \in a : j \in Nat
                BY <1>2, Words
              <8> QED BY <7>1, <8>1
            <7> QED BY <7>2, <7>3
          <6>2. v = CreateMask({i \in Bits : i < n}, {})
            BY <5>1, <5>2
          <6> HIDE DEF n
          <6> QED BY <6>1, <6>2, Allows DEF v
        <5>3. CASE op # "sll"
          BY <1>6, <5>1, <5>3 DEF v
        <5> QED BY <5>2, <5>3
      <4>4. CASE l.kind = "mask"
        <5>1. v = CreateMask(Shifted(op, l.known, n), Shifted(op, l.value, n))
          BY <3>1, <4>1, <4>4 DEF EvalBitwise, IsPointerLike, Is, Overdefined
        <5>2. a \cap l.known = l.value
          BY <1>3, <1>13, <4>4
        <5>3. Shifted(op, a, n) \cap Shifted(op, l.known, n) = Shifted(op, a \cap l.known, n)
          BY <2>5 DEF Shifted
        <5>4. z.bits \cap Shifted(op, l.known, n) = Shifted(op, l.value, n) /\ Is(z, "int")
          BY <4>2, <5>2, <5>3 DEF CreateInteger, Is
        <5> QED BY <5>1, <5>4, Allows DEF v
      <4> QED BY <1>3, <1>5, <4>1, <4>3, <4>4 DEF Is, Overdefined
    <3> QED BY <3>2, <3>3, <3>4
  <2> QED BY <1>11, <2>2, <2>3, <2>4, <2>5 DEF Binaries
<1>12. (Is(l, "int") => l = x) /\ (Is(r, "int") => r = y)
  BY <1>3, <1>4 DEF Is, Overdefined
<1> QED BY <1>9, <1>10, <1>11, <1>12

\* The low bits that the alignment of an object fixes: a number below the alignment
\* has no other ones, and an aligned offset has none of them.
LEMMA Aligned ==
  ASSUME NEW b \in SUBSET Bits, NEW align, Num(b) < align, align \in Nat
  PROVE  /\ b \subseteq {n \in Bits : 2 ^ n < align}
         /\ \A k \in Nat, off \in Int : align = 2 ^ k /\ off % align = 0 => b \cap Wrapped(off) = {}
<1>1. \A n \in b : n \in Bits /\ n \in Nat /\ 2 ^ n \in Nat /\ 2 ^ n < align
  <2>1. ASSUME NEW n \in b PROVE n \in Nat /\ 2 ^ n \in Nat /\ 2 ^ n <= Num(b) /\ Num(b) \in Nat
    <3>1. n \in Nat
      BY Words
    <3> QED BY <3>1, Word, Power
  <2> QED BY <2>1
<1>2. ASSUME NEW k \in Nat, NEW off \in Int, align = 2 ^ k, off % align = 0, NEW n \in b
      PROVE  n \notin Wrapped(off)
  <2>1. n \in Nat /\ n < k
    BY <1>1, <1>2, PowerOrder
  <2>2. off \div align \in Int /\ off = (off \div align) * align
    <3>1. align > 0
      BY <1>2, Power
    <3>2. off \div align \in Int /\ off = (off \div align) * align + (off % align)
      BY <3>1, Division
    <3> QED BY <1>2, <3>2
  <2> DEFINE q == off \div align
  <2>3. q \in Int /\ off = 0 + q * 2 ^ k
    <3>1. q * align \in Int
      BY <2>2
    <3> QED BY <1>2, <2>2, <3>1
  <2> HIDE DEF q
  <2>4. ((0 + q * 2 ^ k) \div 2 ^ n) % 2 = (0 \div 2 ^ n) % 2
    <3>1. 0 \in Int
      OBVIOUS
    <3> QED BY ONLY k \in Nat, <2>1, <2>3, <3>1, BitKept
  <2>5. 0 \div 2 ^ n = 0 /\ 0 % 2 = 0
    <3>1. 0 < 2 ^ n
      BY <2>1, Power
    <3>2. 0 \div 2 ^ n = 0
      BY <2>1, <3>1, TopBit
    <3> QED BY <3>2
  <2>6. (off \div 2 ^ n) % 2 = 0
    BY <2>3, <2>4, <2>5
  <2> QED BY <2>6 DEF Wrapped
<1> QED BY <1>1, <1>2

\* Of an address x on either side of an integer y: v is known of the address, w of
\* the integer.
LEMMA Sides ==
  ASSUME NEW v \in Claims, NEW w \in Claims, ~ MaybeNull(v), ~ MaybeNull(w), NEW x, NEW y, NEW f,
         IsRunValue(x), IsRunValue(y), Stands(x, v, f), Stands(y, w, f), IsAddress(x), Is(y, "int")
  PROVE  /\ v.kind \in {"overdefined", "pointer", "frame", "global", "range"}
         /\ w.kind \in {"overdefined", "int", "mask"}
         /\ w.kind = "int" => w = y
         /\ v.kind = "frame" => x = Stack(f, v.obj, v.off) /\ v = CreateFrame(v.obj, v.off)
                                  /\ v.obj \in Objects /\ v.off \in Int
         /\ v.kind = "global" => v = x /\ x = CreateGlobal(x.sym, x.off) /\ x.sym \in Syms /\ x.off \in Int
         /\ v.kind = "range" => Is(x, "global") /\ x.sym = v.sym
         /\ v.kind = "overdefined" => v = Overdefined
         /\ w.kind = "overdefined" => w = Overdefined
         /\ v.kind = "pointer" => v = Pointer
         /\ v # Undefined /\ w # Undefined
         /\ y = CreateInteger(y.bits) /\ y.bits \in SUBSET Bits
         /\ x = Stack(x.func, x.obj, x.off) \/ x = CreateGlobal(x.sym, x.off)
         /\ x.off \in Int
<1>1. y = CreateInteger(y.bits) /\ y.bits \in SUBSET Bits
  BY Kinds DEF Is
<1>2. /\ x.off \in Int
      /\ \/ x = Stack(x.func, x.obj, x.off)
         \/ x = CreateGlobal(x.sym, x.off) /\ x.sym \in Syms
  BY Kinds DEF IsAddress
<1>3. \/ v \in {Overdefined, Pointer}
      \/ v.kind = "global" /\ v = x
      \/ v.kind = "frame" /\ x = Stack(f, v.obj, v.off)
      \/ v.kind = "range" /\ Is(x, "global") /\ x.sym = v.sym
  BY Known
<1>4. w = Overdefined \/ w = y \/ w.kind = "mask"
  BY Known
<1>5. /\ v.kind = "frame" => v = CreateFrame(v.obj, v.off) /\ v.obj \in Objects /\ v.off \in Int
      /\ v.kind = "global" => v = CreateGlobal(v.sym, v.off) /\ v.sym \in Syms /\ v.off \in Int
      /\ v.kind = "overdefined" <=> v = Overdefined
      /\ v.kind = "pointer" <=> v = Pointer
      /\ v.kind = "undefined" <=> v = Undefined
      /\ w.kind = "overdefined" <=> w = Overdefined
      /\ w.kind = "undefined" <=> w = Undefined
  BY Shapes
<1>6. Overdefined.kind = "overdefined" /\ Pointer.kind = "pointer" /\ y.kind = "int"
  BY DEF Overdefined, Pointer, Is
<1> QED BY <1>1, <1>2, <1>3, <1>4, <1>5, <1>6

\* Adding to an address: what is known of the address moves with it.
LEMMA Moves ==
  ASSUME NEW v \in Claims, NEW x, NEW f, NEW n \in Int, IsAddress(x),
         x.off \in Int,
         x = Stack(x.func, x.obj, x.off) \/ x = CreateGlobal(x.sym, x.off)
  PROVE  /\ v.kind = "frame" /\ v = CreateFrame(v.obj, v.off) /\ x = Stack(f, v.obj, v.off)
              => Stands(AddTo(x, n), Moved(v, n), f)
         /\ v.kind = "global" /\ v = x => Stands(AddTo(x, n), Moved(v, n), f)
         /\ Stands(AddTo(x, n), Pointer, f)
         /\ Is(x, "global") => Stands(AddTo(x, n), CreateRange(x.sym), f)
<1>1. CASE x = Stack(x.func, x.obj, x.off)
  <2>1. AddTo(x, n) = Stack(x.func, x.obj, x.off + n)
    BY <1>1 DEF AddTo, Stack
  <2>2. x.kind = "stack"
    BY <1>1 DEF Stack
  <2>3. ASSUME v.kind = "frame", v = CreateFrame(v.obj, v.off), x = Stack(f, v.obj, v.off)
        PROVE  Stands(AddTo(x, n), Moved(v, n), f)
    <3>1. x.func = f /\ x.obj = v.obj /\ x.off = v.off
      BY <2>3 DEF Stack
    <3>2. Moved(v, n) = CreateFrame(v.obj, v.off + n)
      BY <2>3 DEF Moved, CreateFrame
    <3> QED BY <2>1, <3>1, <3>2, Allows
  <2>4. IsAddress(AddTo(x, n))
    BY <2>1 DEF Stack, IsAddress
  <2> QED BY <2>2, <2>3, <2>4, Allows DEF Is
<1>2. CASE x = CreateGlobal(x.sym, x.off)
  <2>1. AddTo(x, n) = CreateGlobal(x.sym, x.off + n) /\ Moved(x, n) = CreateGlobal(x.sym, x.off + n)
    BY <1>2 DEF AddTo, CreateGlobal, Moved
  <2>2. IsAddress(AddTo(x, n))
    BY <2>1 DEF CreateGlobal, IsAddress
  <2>3. \A o, k : x # Stack(f, o, k)
    BY <1>2 DEF CreateGlobal, Stack
  <2>4. Stands(AddTo(x, n), CreateRange(x.sym), f) /\ (v = x => Stands(AddTo(x, n), Moved(v, n), f))
    BY <2>1, Allows
  <2> QED BY <2>2, <2>3, <2>4, Allows
<1> QED BY <1>1, <1>2

\* An operator on an address and an integer, in this order.
LEMMA LeftAddress ==
  ASSUME NEW op \in Binaries, NEW l, NEW r, NEW x, NEW y, NEW f,
         Described(l, r, x, y, f), ~ MaybeNull(l), ~ MaybeNull(r), IsAddress(x), Is(y, "int"),
         ~ (op = "sll" /\ l = Overdefined /\ r = Null),
         NEW z \in OnAddress(op, x, y, TRUE)
  PROVE  Stands(z, EvalBinary(op, l, r), f)
<1> DEFINE v == EvalBinary(op, l, r)
           n == Num(y.bits)
<1>1. l \in Claims /\ r \in Claims /\ IsRunValue(x) /\ IsRunValue(y) /\ Stands(x, l, f) /\ Stands(y, r, f)
  BY DEF Described
<1>2. /\ l.kind \in {"overdefined", "pointer", "frame", "global", "range"}
      /\ r.kind \in {"overdefined", "int", "mask"}
      /\ r.kind = "int" => r = y
      /\ l.kind = "frame" => x = Stack(f, l.obj, l.off) /\ l = CreateFrame(l.obj, l.off)
                               /\ l.obj \in Objects /\ l.off \in Int
      /\ l.kind = "global" => l = x /\ x = CreateGlobal(x.sym, x.off) /\ x.sym \in Syms /\ x.off \in Int
      /\ l.kind = "range" => Is(x, "global") /\ x.sym = l.sym
      /\ l.kind = "overdefined" => l = Overdefined
      /\ r.kind = "overdefined" => r = Overdefined
      /\ l.kind = "pointer" => l = Pointer
      /\ l # Undefined /\ r # Undefined
  BY <1>1, Sides
<1>3. /\ y = CreateInteger(y.bits) /\ y.bits \in SUBSET Bits
      /\ x = Stack(x.func, x.obj, x.off) \/ x = CreateGlobal(x.sym, x.off)
      /\ x.off \in Int
  BY <1>1, Sides
<1>4. n \in Nat /\ Signed(y.bits) \in Int /\ 0 - Signed(y.bits) \in Int /\ (n = 0 <=> y.bits = {})
  BY <1>3, Word, SignedWord
<1>5. Stands(z, Overdefined, f)
  BY Allows
<1>6. ~ BothInts(l, r) /\ ~ Is(l, "int") /\ ~ Is(l, "mask") /\ ~ Is(r, "global") /\ ~ Is(r, "frame")
  BY <1>2 DEF BothInts, Is
<1>7. ASSUME NEW m \in Int
      PROVE  /\ l.kind \in {"frame", "global"} => Stands(AddTo(x, m), Moved(l, m), f)
             /\ Stands(AddTo(x, m), Pointer, f)
             /\ Is(x, "global") => Stands(AddTo(x, m), CreateRange(x.sym), f)
  <2>1. l.kind = "frame" => Stands(AddTo(x, m), Moved(l, m), f)
    BY <1>1, <1>2, <1>3, Moves
  <2>2. l.kind = "global" => Stands(AddTo(x, m), Moved(l, m), f)
    BY <1>1, <1>2, <1>3, Moves
  <2>3. Stands(AddTo(x, m), Pointer, f) /\ (Is(x, "global") => Stands(AddTo(x, m), CreateRange(x.sym), f))
    BY <1>1, <1>3, Moves
  <2> QED BY <2>1, <2>2, <2>3
<1> HIDE DEF v, n
<1>8. CASE op = "add"
  <2>1. z = AddTo(x, Signed(y.bits))
    BY <1>8 DEF OnAddress
  <2>2. v = EvalAdd(l, r)
    BY <1>2, <1>8, Dispatch DEF v
  <2>3. CASE l.kind \in {"frame", "global"} /\ r.kind = "int"
    <3>1. EvalAdd(l, r) = Moved(l, Signed(y.bits))
      BY <1>2, <1>6, <2>3 DEF EvalAdd, HasOffset, Is
    <3> QED BY <1>4, <1>7, <2>1, <2>2, <2>3, <3>1 DEF v
  <2>4. CASE l.kind = "frame" /\ r.kind # "int"
    <3>1. EvalAdd(l, r) = Pointer
      BY <1>2, <1>6, <2>4 DEF EvalAdd, HasOffset, Is
    <3> QED BY <1>4, <1>7, <2>1, <2>2, <3>1 DEF v
  <2>5. CASE l.kind = "global" /\ r.kind # "int"
    <3>1. EvalAdd(l, r) = CreateRange(l.sym)
      BY <1>2, <1>6, <2>5 DEF EvalAdd, HasOffset, Is
    <3>2. Is(x, "global") /\ x.sym = l.sym
      BY <1>2, <2>5 DEF Is
    <3> QED BY <1>4, <1>7, <2>1, <2>2, <3>1, <3>2 DEF v
  <2>6. CASE l.kind \in {"pointer", "range"}
    <3>1. EvalAdd(l, r) = l
      BY <1>2, <1>6, <2>6 DEF EvalAdd, HasOffset, Is
    <3>2. l.kind = "range" => l = CreateRange(x.sym)
      <4>1. l.kind = "range" => l = CreateRange(l.sym)
        BY <1>1, Shapes
      <4> QED BY <1>2, <4>1
    <3> QED BY <1>2, <1>4, <1>7, <2>1, <2>2, <2>6, <3>1, <3>2 DEF v
  <2>7. CASE l.kind = "overdefined"
    <3>1. EvalAdd(l, r) = Overdefined
      BY <1>2, <1>6, <2>7 DEF EvalAdd, HasOffset, Is
    <3> QED BY <1>5, <2>2, <3>1 DEF v
  <2> QED BY <1>2, <2>3, <2>4, <2>5, <2>6, <2>7
<1>9. CASE op = "sub"
  <2>1. z = AddTo(x, 0 - Signed(y.bits))
    BY <1>9 DEF OnAddress
  <2>2. v = EvalSub(l, r)
    BY <1>2, <1>9, Dispatch DEF v
  <2>3. CASE l.kind \in {"frame", "global"} /\ r.kind = "int"
    <3>1. EvalSub(l, r) = Moved(l, 0 - Signed(y.bits))
      BY <1>2, <1>6, <2>3 DEF EvalSub, HasOffset, Is
    <3> QED BY <1>4, <1>7, <2>1, <2>2, <2>3, <3>1 DEF v
  <2>4. CASE ~ (l.kind \in {"frame", "global"} /\ r.kind = "int")
    <3>1. EvalSub(l, r) = Overdefined
      BY <1>6, <2>4 DEF EvalSub, HasOffset, Is
    <3> QED BY <1>5, <2>2, <3>1 DEF v
  <2> QED BY <2>3, <2>4
<1>10. CASE op = "and"
  <2>1. z \in AndAddress(x, y)
    BY <1>10 DEF OnAddress
  <2>2. v = EvalAnd(l, r)
    BY <1>2, <1>10, Dispatch DEF v
  <2>3. CASE l.kind \in {"frame", "global"} /\ r.kind = "int" /\ l.off = 0 /\ n < AlignOf(l)
    <3>1. EvalAnd(l, r) = CreateInteger({})
      BY <1>2, <1>6, <2>3 DEF EvalAnd, HasOffset, Is, n
    <3>2. AlignOf(l) \in Nat /\ LowBits(x) = {k \in Bits : 2 ^ k < AlignOf(l)} /\ x.off = l.off
      <4>1. CASE l.kind = "frame"
        <5>1. x.kind = "stack" /\ x.obj = l.obj /\ x.off = l.off /\ l.obj \in Objects
          BY <1>2, <4>1 DEF Stack
        <5>2. AlignOf(l) = ObjectAlign[l.obj] /\ ObjectAlign[l.obj] \in Nat
          <6>1. PICK k \in Bits : ObjectAlign[l.obj] = 2 ^ k
            BY <5>1, EvalAssumption
          <6>2. k \in Nat
            BY Words
          <6> QED BY <4>1, <6>1, <6>2, Power DEF AlignOf, Is
        <5>3. LowBits(x) = {k \in Bits : 2 ^ k < ObjectAlign[x.obj]}
          BY <5>1 DEF LowBits, Is
        <5> QED BY <5>1, <5>2, <5>3
      <4>2. CASE l.kind = "global"
        <5>1. l = x /\ x.kind = "global" /\ l.sym \in Syms
          BY <1>2, <4>2
        <5>2. AlignOf(l) = SymAlign[l.sym] /\ SymAlign[l.sym] \in Nat
          BY <5>1, EvalAssumption DEF AlignOf, Is
        <5>3. LowBits(x) = {k \in Bits : 2 ^ k < SymAlign[x.sym]}
          BY <5>1 DEF LowBits, Is
        <5> QED BY <5>1, <5>2, <5>3
      <4> QED BY <2>3, <4>1, <4>2
    <3>3. y.bits \subseteq LowBits(x)
      BY <1>3, <2>3, <3>2, Aligned DEF n
    <3>4. Wrapped(x.off) = {}
      <4>1. \A i \in Bits : (0 \div 2 ^ i) % 2 # 1
        <5>1. ASSUME NEW i \in Bits PROVE (0 \div 2 ^ i) % 2 # 1
          <6>1. 0 < 2 ^ i /\ i \in Nat
            BY Words, Power
          <6>2. 0 \div 2 ^ i = 0
            BY <6>1, TopBit
          <6> QED BY <6>2
        <5> QED BY <5>1
      <4>2. x.off = 0
        BY <2>3, <3>2
      <4> QED BY <4>1, <4>2 DEF Wrapped
    <3>5. z \in IntConstants /\ z.bits \subseteq y.bits
            /\ z.bits \cap LowBits(x) = Wrapped(x.off) \cap y.bits \cap LowBits(x)
      BY <2>1 DEF AndAddress, AnyInt
    <3>6. z.bits = {} /\ z = CreateInteger(z.bits)
      BY <3>3, <3>4, <3>5 DEF IntConstants, CreateInteger
    <3>7. Stands(z, CreateInteger({}), f)
      BY <3>6, Allows
    <3> QED BY <2>2, <3>1, <3>7 DEF v
  <2>4. CASE ~ (l.kind \in {"frame", "global"} /\ r.kind = "int" /\ l.off = 0 /\ n < AlignOf(l))
    <3>1. EvalAnd(l, r) = Overdefined
      <4>1. r.kind = "int" => Num(r.bits) = n
        BY <1>2 DEF n
      <4> QED BY <1>6, <2>4, <4>1 DEF EvalAnd, HasOffset, Is
    <3> QED BY <1>5, <2>2, <3>1 DEF v
  <2> QED BY <2>3, <2>4
<1>11. CASE op = "or"
  <2>1. v = EvalOr(l, r)
    BY <1>2, <1>11, Dispatch DEF v
  <2>2. CASE l.kind = "frame" /\ r.kind = "int" /\ l.off % ObjectAlign[l.obj] = 0 /\ n < ObjectAlign[l.obj]
    <3>1. EvalOr(l, r) = Moved(l, n)
      BY <1>2, <1>6, <2>2 DEF EvalOr, FrameOr, Is, n
    <3>2. x.kind = "stack" /\ x.obj = l.obj /\ x.off = l.off /\ l.obj \in Objects
      BY <1>2, <2>2 DEF Stack
    <3>3. LowBits(x) = {k \in Bits : 2 ^ k < ObjectAlign[l.obj]}
      BY <3>2 DEF LowBits, Is
    <3>4. PICK k \in Nat : ObjectAlign[l.obj] = 2 ^ k /\ 2 ^ k \in Nat
      <4>1. PICK k \in Bits : ObjectAlign[l.obj] = 2 ^ k
        BY <3>2, EvalAssumption
      <4>2. k \in Nat
        BY Words
      <4> QED BY <4>1, <4>2, Power
    <3>5. y.bits \subseteq LowBits(x) /\ y.bits \cap Wrapped(l.off) = {}
      BY <1>2, <1>3, <2>2, <3>3, <3>4, Aligned DEF n
    <3>6. y.bits \subseteq LowBits(x) \ Wrapped(x.off)
      BY <3>2, <3>5
    <3>7. z = AddTo(x, n)
      BY <1>11, <3>6 DEF OnAddress, n
    <3> QED BY <1>4, <1>7, <2>1, <2>2, <3>1, <3>7 DEF v
  <2>3. CASE ~ (l.kind = "frame" /\ r.kind = "int" /\ l.off % ObjectAlign[l.obj] = 0 /\ n < ObjectAlign[l.obj])
    <3>1. EvalOr(l, r) = Overdefined
      <4>1. r.kind = "int" => Num(r.bits) = n
        BY <1>2 DEF n
      <4> QED BY <1>6, <2>3, <4>1 DEF EvalOr, FrameOr, Is
    <3> QED BY <1>5, <2>1, <3>1 DEF v
  <2> QED BY <2>2, <2>3
<1>12. CASE op \in {"sll", "srl", "sra", "rotl", "rotr"}
  <2>1. v = EvalBitwise(op, l, r)
    BY <1>2, <1>12, Dispatch DEF v
  <2>2. CASE r.kind # "int" \/ l.kind = "range"
    <3>1. EvalBitwise(op, l, r) = Overdefined
      BY <1>6, <2>2 DEF EvalBitwise, Is, IsPointerLike, Overdefined
    <3> QED BY <1>5, <2>1, <3>1 DEF v
  <2>3. CASE r.kind = "int" /\ l.kind # "range" /\ y.bits = {}
    <3>1. z = x
      BY <1>12, <2>3 DEF OnAddress
    <3>2. r = Null
      BY <1>2, <1>3, <2>3 DEF Null
    <3>3. CASE l.kind = "overdefined"
      <4>1. op # "sll"
        BY <1>2, <3>2, <3>3
      <4>2. EvalBitwise(op, l, r) = Overdefined
        BY <1>2, <2>3, <3>3, <4>1 DEF EvalBitwise, Is, IsPointerLike, Overdefined
      <4> QED BY <1>5, <2>1, <4>2 DEF v
    <3>4. CASE l.kind # "overdefined"
      <4>1. EvalBitwise(op, l, r) = l
        <5>1. Num(r.bits) = 0 /\ l # Overdefined
          <6>1. r = y /\ n = 0
            BY <1>2, <1>4, <2>3
          <6>2. l # Overdefined
            BY <3>4 DEF Overdefined
          <6> QED BY <6>1, <6>2 DEF n
        <5>2. IsPointerLike(l)
          BY <1>2, <2>3, <3>4 DEF IsPointerLike
        <5> QED BY <1>6, <2>3, <5>1, <5>2 DEF EvalBitwise, Is
      <4> QED BY <1>1, <2>1, <3>1, <4>1 DEF v
    <3> QED BY <3>3, <3>4
  <2>4. CASE r.kind = "int" /\ l.kind # "range" /\ y.bits # {}
    <3>1. Num(r.bits) = n /\ n # 0
      BY <1>2, <1>4, <2>4 DEF n
    <3>2. l = Overdefined \/ IsPointerLike(l)
      BY <1>2, <2>4 DEF IsPointerLike
    <3>3. CASE op = "sll"
      <4>1. EvalBitwise(op, l, r) = CreateMask({i \in Bits : i < n}, {})
        BY <1>6, <2>4, <3>1, <3>2, <3>3 DEF EvalBitwise, Is
      <4>2. z \in IntConstants /\ \A i \in z.bits : i >= n
        BY <2>4, <3>3 DEF OnAddress, AnyInt, n
      <4>3. z.bits \cap {i \in Bits : i < n} = {} /\ Is(z, "int")
        <5>1. \A i \in Bits : i \in Nat
          BY Words
        <5>2. \A i \in Bits : i < n => ~ (i >= n)
          BY <1>4, <5>1
        <5> QED BY <4>2, <5>2 DEF IntConstants, CreateInteger, Is
      <4>4. Stands(z, CreateMask({i \in Bits : i < n}, {}), f)
        BY <4>3, Allows
      <4> QED BY <2>1, <4>1, <4>4 DEF v
    <3>4. CASE op # "sll"
      <4>1. EvalBitwise(op, l, r) = Overdefined
        BY <1>6, <2>4, <3>1, <3>4 DEF EvalBitwise, Is
      <4> QED BY <1>5, <2>1, <4>1 DEF v
    <3> QED BY <3>3, <3>4
  <2> QED BY <2>2, <2>3, <2>4
<1>13. CASE op \in {"xor", "mul", "udiv", "sdiv", "urem", "ouadd", "oumul", "osadd", "fadd", "fmul"}
  <2>1. /\ EvalXor(l, r) = Overdefined /\ EvalMul(l, r) = Overdefined
        /\ EvalUDiv(l, r) = Overdefined /\ EvalSDiv(l, r) = Overdefined
        /\ EvalOUAdd(l, r) = Overdefined /\ EvalOUMul(l, r) = Overdefined
        /\ EvalOSAdd(l, r) = Overdefined
    BY <1>6 DEF EvalXor, EvalMul, EvalUDiv, EvalSDiv, EvalOUAdd, EvalOUMul, EvalOSAdd
  <2>2. EvalFAdd(l, r) = Overdefined /\ EvalFMul(l, r) = Overdefined
    <3>1. FloatZero.kind = "float_zero"
      BY DEF FloatZero
    <3>2. l # FloatZero /\ r # FloatZero /\ ~ Is(l, "float") /\ ~ Is(r, "float")
      BY <1>2, <3>1 DEF Is
    <3> QED BY <3>2 DEF EvalFAdd, EvalFMul
  <2>3. v = Overdefined
    BY <1>2, <1>13, <2>1, <2>2, Dispatch DEF v
  <2> QED BY <1>5, <2>3 DEF v
<1> QED BY <1>8, <1>9, <1>10, <1>11, <1>12, <1>13 DEF Binaries

\* An operator on an integer and an address, in this order: only a sum and a
\* disjunction say something of the result.
LEMMA RightAddress ==
  ASSUME NEW op \in Binaries, NEW l, NEW r, NEW x, NEW y, NEW f,
         Described(l, r, x, y, f), ~ MaybeNull(l), ~ MaybeNull(r), Is(x, "int"), IsAddress(y),
         NEW z \in OnAddress(op, y, x, FALSE)
  PROVE  Stands(z, EvalBinary(op, l, r), f)
<1> DEFINE v == EvalBinary(op, l, r)
           n == Num(x.bits)
<1>1. l \in Claims /\ r \in Claims /\ IsRunValue(x) /\ IsRunValue(y) /\ Stands(x, l, f) /\ Stands(y, r, f)
  BY DEF Described
<1>2. /\ r.kind \in {"overdefined", "pointer", "frame", "global", "range"}
      /\ l.kind \in {"overdefined", "int", "mask"}
      /\ l.kind = "int" => l = x
      /\ r.kind = "frame" => y = Stack(f, r.obj, r.off) /\ r = CreateFrame(r.obj, r.off)
                               /\ r.obj \in Objects /\ r.off \in Int
      /\ r.kind = "global" => r = y /\ y = CreateGlobal(y.sym, y.off) /\ y.sym \in Syms /\ y.off \in Int
      /\ l # Undefined /\ r # Undefined
  BY <1>1, Sides
<1>3. /\ x = CreateInteger(x.bits) /\ x.bits \in SUBSET Bits
      /\ y = Stack(y.func, y.obj, y.off) \/ y = CreateGlobal(y.sym, y.off)
      /\ y.off \in Int
  BY <1>1, Sides
<1>4. n \in Nat /\ Signed(x.bits) \in Int
  BY <1>3, Word, SignedWord
<1>5. Stands(z, Overdefined, f)
  BY Allows
<1>6. ~ BothInts(l, r) /\ ~ Is(r, "int") /\ ~ Is(r, "mask") /\ ~ Is(l, "global") /\ ~ Is(l, "frame")
        /\ ~ Is(r, "float") /\ ~ Is(l, "float")
  BY <1>2 DEF BothInts, Is
<1>7. ASSUME NEW m \in Int
      PROVE  /\ r.kind \in {"frame", "global"} => Stands(AddTo(y, m), Moved(r, m), f)
             /\ Is(y, "global") => Stands(AddTo(y, m), CreateRange(y.sym), f)
  <2>1. r.kind = "frame" => Stands(AddTo(y, m), Moved(r, m), f)
    BY <1>1, <1>2, <1>3, Moves
  <2>2. r.kind = "global" => Stands(AddTo(y, m), Moved(r, m), f)
    BY <1>1, <1>2, <1>3, Moves
  <2>3. Is(y, "global") => Stands(AddTo(y, m), CreateRange(y.sym), f)
    BY <1>1, <1>3, Moves
  <2> QED BY <2>1, <2>2, <2>3
<1> HIDE DEF v, n
<1>8. CASE op = "add"
  <2>1. z = AddTo(y, Signed(x.bits))
    BY <1>8 DEF OnAddress
  <2>2. v = EvalAdd(l, r)
    BY <1>2, <1>8, Dispatch DEF v
  <2>3. CASE r.kind \in {"frame", "global"} /\ l.kind = "int"
    <3>1. EvalAdd(l, r) = Moved(r, Signed(x.bits))
      BY <1>2, <1>6, <2>3 DEF EvalAdd, HasOffset, Is
    <3> QED BY <1>4, <1>7, <2>1, <2>2, <2>3, <3>1 DEF v
  <2>4. CASE r.kind = "global" /\ l.kind # "int"
    <3>1. EvalAdd(l, r) = CreateRange(r.sym)
      BY <1>2, <1>6, <2>4 DEF EvalAdd, HasOffset, Is
    <3>2. Is(y, "global") /\ y.sym = r.sym
      BY <1>2, <2>4 DEF Is
    <3> QED BY <1>4, <1>7, <2>1, <2>2, <3>1, <3>2 DEF v
  <2>5. CASE ~ (r.kind \in {"frame", "global"} /\ l.kind = "int") /\ r.kind # "global"
    <3>1. EvalAdd(l, r) = Overdefined
      BY <1>2, <1>6, <2>5 DEF EvalAdd, HasOffset, Is
    <3> QED BY <1>5, <2>2, <3>1 DEF v
  <2> QED BY <2>3, <2>4, <2>5
<1>9. CASE op = "or"
  <2>1. v = EvalOr(l, r)
    BY <1>2, <1>9, Dispatch DEF v
  <2>2. CASE r.kind = "frame" /\ l.kind = "int" /\ r.off % ObjectAlign[r.obj] = 0 /\ n < ObjectAlign[r.obj]
    <3>1. EvalOr(l, r) = Moved(r, n)
      BY <1>2, <1>6, <2>2 DEF EvalOr, FrameOr, Is, n
    <3>2. y.kind = "stack" /\ y.obj = r.obj /\ y.off = r.off /\ r.obj \in Objects
      BY <1>2, <2>2 DEF Stack
    <3>3. LowBits(y) = {k \in Bits : 2 ^ k < ObjectAlign[r.obj]}
      BY <3>2 DEF LowBits, Is
    <3>4. PICK k \in Nat : ObjectAlign[r.obj] = 2 ^ k /\ 2 ^ k \in Nat
      <4>1. PICK k \in Bits : ObjectAlign[r.obj] = 2 ^ k
        BY <3>2, EvalAssumption
      <4>2. k \in Nat
        BY Words
      <4> QED BY <4>1, <4>2, Power
    <3>5. x.bits \subseteq LowBits(y) /\ x.bits \cap Wrapped(r.off) = {}
      BY <1>2, <1>3, <2>2, <3>3, <3>4, Aligned DEF n
    <3>6. x.bits \subseteq LowBits(y) \ Wrapped(y.off)
      BY <3>2, <3>5
    <3>7. z = AddTo(y, n)
      BY <1>9, <3>6 DEF OnAddress, n
    <3> QED BY <1>4, <1>7, <2>1, <2>2, <3>1, <3>7 DEF v
  <2>3. CASE ~ (r.kind = "frame" /\ l.kind = "int" /\ r.off % ObjectAlign[r.obj] = 0 /\ n < ObjectAlign[r.obj])
    <3>1. EvalOr(l, r) = Overdefined
      <4>1. l.kind = "int" => Num(l.bits) = n
        BY <1>2 DEF n
      <4> QED BY <1>6, <2>3, <4>1 DEF EvalOr, FrameOr, Is
    <3> QED BY <1>5, <2>1, <3>1 DEF v
  <2> QED BY <2>2, <2>3
<1>10. CASE op \notin {"add", "or"}
  <2>1. /\ EvalSub(l, r) = Overdefined /\ EvalAnd(l, r) = Overdefined
        /\ EvalXor(l, r) = Overdefined /\ EvalMul(l, r) = Overdefined
        /\ EvalUDiv(l, r) = Overdefined /\ EvalSDiv(l, r) = Overdefined
        /\ EvalOUAdd(l, r) = Overdefined /\ EvalOUMul(l, r) = Overdefined
        /\ EvalOSAdd(l, r) = Overdefined
    BY <1>6 DEF EvalSub, EvalAnd, EvalXor, EvalMul, EvalUDiv, EvalSDiv, EvalOUAdd, EvalOUMul, EvalOSAdd, HasOffset, Is
  <2>2. EvalFAdd(l, r) = Overdefined /\ EvalFMul(l, r) = Overdefined
    <3>1. FloatZero.kind = "float_zero"
      BY DEF FloatZero
    <3>2. l # FloatZero /\ r # FloatZero
      BY <1>2, <3>1
    <3> QED BY <1>6, <3>2 DEF EvalFAdd, EvalFMul
  <2>3. EvalBitwise(op, l, r) = Overdefined
    BY <1>6 DEF EvalBitwise
  <2>4. v = Overdefined
    BY <1>2, <1>10, <2>1, <2>2, <2>3, Dispatch DEF v, Binaries
  <2> QED BY <1>5, <2>4 DEF v
<1> QED BY <1>8, <1>9, <1>10

\* Of floating-point numbers: a zero adds nothing, and times anything it is a zero.
LEMMA FloatsSound ==
  ASSUME NEW op \in Binaries, NEW l, NEW r, NEW x, NEW y, NEW f,
         Described(l, r, x, y, f), ~ MaybeNull(l), ~ MaybeNull(r), Is(x, "float"), Is(y, "float"),
         ~ (op = "fadd" /\ Is(l, "float") /\ l.float \in FloatZeros /\ r = FloatZero),
         NEW z \in OnFloats(op, x.float, y.float)
  PROVE  Stands(z, EvalBinary(op, l, r), f)
<1> DEFINE v == EvalBinary(op, l, r)
<1>1. l \in Claims /\ r \in Claims /\ IsRunValue(x) /\ IsRunValue(y) /\ Stands(x, l, f) /\ Stands(y, r, f)
  BY DEF Described
<1>2. /\ l = Overdefined \/ l = x \/ (l = FloatZero /\ x.float \in FloatZeros)
      /\ r = Overdefined \/ r = y \/ (r = FloatZero /\ y.float \in FloatZeros)
  BY <1>1, Known
<1>3. x = CreateFloat(x.float) /\ y = CreateFloat(y.float)
  BY <1>1, Kinds DEF Is
<1>4. x.kind = "float" /\ y.kind = "float" /\ Overdefined.kind = "overdefined" /\ FloatZero.kind = "float_zero"
        /\ Undefined.kind = "undefined"
  BY DEF Is, Overdefined, FloatZero, Undefined
<1>5. /\ l.kind \in {"overdefined", "float", "float_zero"} /\ r.kind \in {"overdefined", "float", "float_zero"}
      /\ l # Undefined /\ r # Undefined
  BY <1>2, <1>4
<1>6. Stands(z, Overdefined, f)
  BY Allows
<1> HIDE DEF v
<1>7. CASE op = "fadd"
  <2>1. v = EvalFAdd(l, r)
    BY <1>5, <1>7, Dispatch DEF v
  <2>2. CASE l = FloatZero
    <3>1. EvalFAdd(l, r) = r
      BY <2>2 DEF EvalFAdd
    <3>2. x.float \in FloatZeros
      BY <1>2, <1>4, <2>2
    <3>3. z = CreateFloat(y.float)
      BY <1>7, <3>2 DEF OnFloats
    <3> QED BY <1>1, <1>3, <2>1, <3>1, <3>3 DEF v
  <2>3. CASE l # FloatZero /\ r = FloatZero
    <3>1. EvalFAdd(l, r) = l
      BY <2>3 DEF EvalFAdd
    <3>2. y.float \in FloatZeros
      BY <1>2, <1>4, <2>3
    <3>3. z = CreateFloat(IF x.float \in FloatZeros THEN y.float ELSE x.float)
      BY <1>7, <3>2 DEF OnFloats
    <3>4. CASE l = Overdefined
      BY <1>6, <2>1, <3>1, <3>4 DEF v
    <3>5. CASE l = x
      <4>1. x.float \notin FloatZeros
        BY <1>7, <2>3, <3>5
      <4>2. z = CreateFloat(x.float)
        BY <3>3, <4>1
      <4> QED BY <1>1, <1>3, <2>1, <3>1, <4>2 DEF v
    <3> QED BY <1>2, <2>3, <3>4, <3>5
  <2>4. CASE l # FloatZero /\ r # FloatZero
    <3>1. EvalFAdd(l, r) = Overdefined
      BY <2>4 DEF EvalFAdd
    <3> QED BY <1>6, <2>1, <3>1 DEF v
  <2> QED BY <2>2, <2>3, <2>4
<1>8. CASE op = "fmul"
  <2>1. v = EvalFMul(l, r)
    BY <1>5, <1>8, Dispatch DEF v
  <2>2. CASE \E w \in {l, r} : Is(w, "float") /\ w.float \in FloatZeros
    <3>1. EvalFMul(l, r) = FloatZero
      BY <2>2 DEF EvalFMul
    <3>2. x.float \in FloatZeros \/ y.float \in FloatZeros
      <4>1. PICK w \in {l, r} : Is(w, "float") /\ w.float \in FloatZeros
        BY <2>2
      <4>2. w = x \/ w = y
        BY <1>2, <1>4, <4>1 DEF Is
      <4> QED BY <4>1, <4>2
    <3>3. \E g \in FloatZeros : z = CreateFloat(g)
      BY <1>8, <3>2 DEF OnFloats
    <3>4. Stands(z, FloatZero, f)
      BY <3>3, Allows
    <3> QED BY <2>1, <3>1, <3>4 DEF v
  <2>3. CASE ~ \E w \in {l, r} : Is(w, "float") /\ w.float \in FloatZeros
    <3>1. EvalFMul(l, r) = Overdefined
      BY <2>3 DEF EvalFMul
    <3> QED BY <1>6, <2>1, <3>1 DEF v
  <2> QED BY <2>2, <2>3
<1>9. CASE op \notin {"fadd", "fmul"}
  <2>1. ~ BothInts(l, r)
    BY <1>5 DEF BothInts, Is
  <2>2. /\ EvalXor(l, r) = Overdefined /\ EvalMul(l, r) = Overdefined
        /\ EvalUDiv(l, r) = Overdefined /\ EvalSDiv(l, r) = Overdefined
        /\ EvalOUAdd(l, r) = Overdefined /\ EvalOUMul(l, r) = Overdefined
        /\ EvalOSAdd(l, r) = Overdefined
    BY <2>1 DEF EvalXor, EvalMul, EvalUDiv, EvalSDiv, EvalOUAdd, EvalOUMul, EvalOSAdd
  <2>3. /\ EvalAdd(l, r) = Overdefined /\ EvalSub(l, r) = Overdefined
        /\ EvalAnd(l, r) = Overdefined /\ EvalOr(l, r) = Overdefined
    BY <1>5, <2>1 DEF EvalAdd, EvalSub, EvalAnd, EvalOr, HasOffset, Is
  <2>4. EvalBitwise(op, l, r) = Overdefined
    BY <1>5 DEF EvalBitwise, Is
  <2>5. v = Overdefined
    BY <1>5, <1>9, <2>2, <2>3, <2>4, Dispatch DEF v, Binaries
  <2> QED BY <1>6, <2>5 DEF v
<1> QED BY <1>7, <1>8, <1>9

\* SCCP folds a binary operator only to what holds of every value it can have in a
\* run, whatever the operands are, known, partly known or not: for words of any
\* width, any alignment and any offset.  Not covered are the operands the
\* evaluator is wrong or unclear about: the address of a weak symbol, which may be
\* null; an unknown value shifted left by zero, of which it makes a mask, although
\* the value can be an address; and the sum of a zero and a value that is some zero,
\* of which it makes the former.
THEOREM BinarySound ==
  ASSUME NEW op \in Binaries, NEW l, NEW r, NEW x, NEW y, NEW f,
         Described(l, r, x, y, f), ~ MaybeNull(l), ~ MaybeNull(r),
         ~ (op = "sll" /\ l = Overdefined /\ r = Null),
         ~ (op = "fadd" /\ Is(l, "float") /\ l.float \in FloatZeros /\ r = FloatZero),
         NEW z \in Binary(op, x, y)
  PROVE  Stands(z, EvalBinary(op, l, r), f)
<1>1. CASE op \in {"fadd", "fmul"} /\ ~ (Is(x, "float") /\ Is(y, "float"))
  <2>1. z = Undefined
    BY <1>1 DEF Binary
  <2> QED BY <2>1, BinaryType, Allows DEF Described
<1>2. CASE ~ (op \in {"fadd", "fmul"} /\ ~ (Is(x, "float") /\ Is(y, "float")))
  <2>1. z \in OnWords(op, x, y)
    BY <1>2 DEF Binary
  <2>2. CASE Is(x, "int") /\ Is(y, "int")
    <3>1. z \in OnInts(op, x.bits, y.bits) /\ op \notin {"fadd", "fmul"}
      BY <1>2, <2>1, <2>2 DEF OnWords, Is, IsAddress
    <3> QED BY <2>2, <3>1, IntsSound
  <2>3. CASE IsAddress(x) /\ Is(y, "int")
    <3>1. z \in OnAddress(op, x, y, TRUE)
      BY <2>1, <2>3 DEF OnWords, Is, IsAddress
    <3> QED BY <2>3, <3>1, LeftAddress
  <2>4. CASE Is(x, "int") /\ IsAddress(y)
    <3>1. z \in OnAddress(op, y, x, FALSE)
      BY <2>1, <2>4 DEF OnWords, Is, IsAddress
    <3> QED BY <2>4, <3>1, RightAddress
  <2>5. CASE Is(x, "float") /\ Is(y, "float")
    <3>1. z \in OnFloats(op, x.float, y.float)
      BY <2>1, <2>5 DEF OnWords, Is, IsAddress
    <3> QED BY <2>5, <3>1, FloatsSound
  <2>6. CASE /\ ~ (Is(x, "int") /\ Is(y, "int")) /\ ~ (IsAddress(x) /\ Is(y, "int"))
             /\ ~ (Is(x, "int") /\ IsAddress(y)) /\ ~ (Is(x, "float") /\ Is(y, "float"))
    <3>1. z = Undefined
      BY <2>1, <2>6 DEF OnWords
    <3> QED BY <3>1, BinaryType, Allows DEF Described
  <2> QED BY <2>2, <2>3, <2>4, <2>5, <2>6
<1> QED BY <1>1, <1>2

-----------------------------------------------------------------------------
(* Unary operators                                                         *)

\* A truncation keeps the low bits: for words, the remainder is an intersection.
LEMMA Truncated ==
  ASSUME NEW b \in SUBSET Bits
  PROVE  /\ Wrapped(Num(b) % 2 ^ Cardinality(Narrow)) = b \cap Narrow
         /\ Cardinality(Narrow) - 1 \in Bits
<1> DEFINE k == Cardinality(Narrow)
           a == Num(b)
<1>1. Narrow = 0 .. k - 1 /\ Narrow \subseteq Bits /\ Narrow # {}
  BY EvalAssumption
<1>2. k \in Nat
  <2>1. IsFiniteSet(Narrow)
    <3>1. Narrow \in SUBSET (0 .. Width - 1) /\ Width \in Nat
      BY <1>1, Words
    <3> QED BY <3>1, BitsFinite
  <2> QED BY <2>1, FS_CardinalityType
<1>3. a \in Int /\ \A i \in Nat : (a \div 2 ^ i) % 2 = 1 <=> i \in b
  BY Word
<1> HIDE DEF a, k
<1>4. LowBitsOf(a, k) = b \cap Narrow
  <2>1. \A i \in Narrow : i \in Nat
    BY <1>1, Words
  <2> QED BY <1>1, <1>3, <2>1 DEF LowBitsOf
<1>5. Num(b \cap Narrow) = a % 2 ^ k
  BY <1>2, <1>3, <1>4, NumLow
<1>6. Wrapped(Num(b \cap Narrow)) = b \cap Narrow
  <2>1. b \cap Narrow \in SUBSET Bits
    BY <1>1
  <2> QED BY <2>1, Word
<1>7. k - 1 \in Bits
  BY <1>1, <1>2
<1> QED BY <1>5, <1>6, <1>7 DEF a, k

\* What EvalUnary makes of a known operand is a lattice value again.
LEMMA UnaryType ==
  ASSUME NEW op \in Unaries, NEW v \in Claims
  PROVE  EvalUnary(op, v) \in Claims
<1>1. EvalNeg(v) \in Claims
  <2>1. Wrapped(0 - Num(v.bits)) \in SUBSET Bits
    BY DEF Wrapped
  <2> QED BY <2>1, Builds DEF EvalNeg, IntOf
<1>2. Overdefined \in Claims /\ Undefined \in Claims /\ CreateInteger({}) \in Claims
  BY Builds
<1>3. Is(v, "int") => v.bits \in SUBSET Bits
  BY Shapes DEF Is
<1>4. EvalSExt(v) \in Claims
  <2>1. Is(v, "int") => CreateInteger(SignExtended(v.bits)) \in Claims
    BY <1>3, Builds DEF SignExtended
  <2> QED BY <1>2, <2>1 DEF EvalSExt
<1>5. EvalZExt(v) \in Claims
  <2>1. Is(v, "float") /\ v.float \in DOMAIN FloatInt => CreateInteger(FloatInt[v.float]) \in Claims
    <3>1. \A g \in DOMAIN FloatInt : FloatInt[g] \in SUBSET Bits
      BY EvalAssumption
    <3> QED BY <3>1, Builds
  <2> QED BY <1>2, <2>1 DEF EvalZExt
<1>6. EvalTrunc(v) \in Claims
  <2>1. Is(v, "int") => CreateInteger(v.bits \cap Narrow) \in Claims
    BY <1>3, Builds
  <2> QED BY <1>2, <2>1 DEF EvalTrunc
<1>7. EvalBitCast(v) \in Claims
  <2>1. Is(v, "float") => CreateInteger(FloatBits[v.float]) \in Claims
    <3>1. Is(v, "float") => v.float \in Floats
      BY Shapes DEF Is
    <3>2. \A g \in Floats : FloatBits[g] \in SUBSET Bits
      BY EvalAssumption
    <3> QED BY <3>1, <3>2, Builds
  <2> QED BY <1>2, <2>1 DEF EvalBitCast
<1> QED BY <1>1, <1>2, <1>4, <1>5, <1>6, <1>7 DEF EvalUnary

\* The rule that EvalUnary has for an operator.
LEMMA UnaryDispatch ==
  ASSUME NEW op, NEW v, v # Overdefined, v # Undefined
  PROVE  /\ op = "neg" => EvalUnary(op, v) = EvalNeg(v)
         /\ op = "sext" => EvalUnary(op, v) = EvalSExt(v)
         /\ op \in {"zext", "xext"} => EvalUnary(op, v) = EvalZExt(v)
         /\ op = "trunc" => EvalUnary(op, v) = EvalTrunc(v)
         /\ op = "bitcast" => EvalUnary(op, v) = EvalBitCast(v)
         /\ op = "abs" => EvalUnary(op, v) = Overdefined
BY DEF EvalUnary

\* SCCP folds a negation, an extension, a truncation and a reinterpretation only to
\* what holds of every value it can have in a run; the evaluator negates integers
\* only.
THEOREM UnarySound ==
  ASSUME NEW op \in Unaries, NEW v \in Claims, NEW x, NEW f, IsRunValue(x), Stands(x, v, f),
         op = "neg" => v.kind \in {"int", "overdefined", "undefined"},
         NEW z \in Unary(op, x)
  PROVE  Stands(z, EvalUnary(op, v), f)
<1> DEFINE e == EvalUnary(op, v)
<1>1. Stands(z, Overdefined, f) /\ e \in Claims /\ Stands(Undefined, e, f)
  BY UnaryType, Allows
<1>2. x.kind = "undefined" <=> x = Undefined
  BY Kinds
<1> HIDE DEF e
<1>3. CASE x = Undefined
  <2>1. z = Undefined
    <3>1. ~ Is(x, "int") /\ ~ Is(x, "float")
      BY <1>3 DEF Is, Undefined
    <3> QED BY <1>3, <3>1 DEF Unary
  <2> QED BY <1>1, <2>1 DEF e
<1>4. CASE v = Overdefined
  BY <1>1, <1>4 DEF EvalUnary
<1>5. CASE x # Undefined /\ v # Overdefined
  <2>1. /\ v.kind \in {"overdefined", "undefined", "pointer", "float_zero", "int", "mask", "frame",
                       "global", "range", "float"}
        /\ v.kind = "overdefined" <=> v = Overdefined
        /\ v.kind = "undefined" <=> v = Undefined
        /\ v.kind = "float_zero" <=> v = FloatZero
    BY Shapes
  <2>2. /\ v.kind # "undefined"
        /\ v.kind \in {"int", "float"} => x = v
        /\ v.kind = "mask" => Is(x, "int") /\ x.bits \cap v.known = v.value
        /\ v.kind = "float_zero" => Is(x, "float") /\ x.float \in FloatZeros
    BY <1>5, Means
  <2>3. Is(x, "int") => x = CreateInteger(x.bits) /\ x.bits \in SUBSET Bits
    BY Kinds DEF Is
  <2>4. v # Undefined /\ v # Overdefined
    BY <1>5, <2>1, <2>2
  <2>5. CASE op = "neg"
    <3>1. v = x /\ Is(x, "int")
      BY <1>5, <2>1, <2>2, <2>5 DEF Is
    <3>2. z = IntOf(2 ^ Width - Num(x.bits))
      BY <1>5, <2>5, <3>1 DEF Unary, Is
    <3>3. e = IntOf(0 - Num(x.bits))
      BY <2>4, <2>5, <3>1, UnaryDispatch DEF e, EvalNeg
    <3>4. Wrapped(2 ^ Width - Num(x.bits)) = Wrapped(0 - Num(x.bits))
      <4> DEFINE m == 0 - Num(x.bits)
      <4>1. m \in Int /\ 2 ^ Width - Num(x.bits) = m + 1 * 2 ^ Width
        BY <2>3, <3>1, Word, Words
      <4> HIDE DEF m
      <4>2. Wrapped(m + 1 * 2 ^ Width) = Wrapped(m)
        BY <4>1, WrapSame
      <4> QED BY <4>1, <4>2 DEF m
    <3>5. z = e
      BY <3>2, <3>3, <3>4 DEF IntOf
    <3>6. Stands(z, z, f)
      BY <3>2, Allows DEF IntOf
    <3> QED BY <3>5, <3>6 DEF e
  <2>6. CASE op = "sext"
    <3>1. e = EvalSExt(v)
      BY <2>4, <2>6, UnaryDispatch DEF e
    <3>2. CASE v.kind = "int"
      <4>1. v = x /\ Is(x, "int")
        BY <2>2, <3>2 DEF Is
      <4>2. EvalSExt(v) = CreateInteger(SignExtended(x.bits))
        BY <4>1 DEF EvalSExt, Is, FloatZero
      <4>3. z = CreateInteger({i \in Bits : i \in x.bits \/ (i \notin Narrow /\ Cardinality(Narrow) - 1 \in x.bits)})
        BY <1>5, <2>6, <4>1 DEF Unary, Is
      <4>4. {i \in Bits : i \in x.bits \/ (i \notin Narrow /\ Cardinality(Narrow) - 1 \in x.bits)} = SignExtended(x.bits)
        <5>1. x.bits \subseteq Bits
          BY <2>3, <4>1
        <5> QED BY <5>1 DEF SignExtended
      <4> QED BY <3>1, <4>2, <4>3, <4>4, Allows DEF e
    <3>3. CASE v.kind = "float_zero"
      <4>1. v = FloatZero /\ Is(x, "float") /\ x.float \in DOMAIN FloatInt /\ FloatInt[x.float] = {}
        BY <2>1, <2>2, <3>3, EvalAssumption
      <4>2. EvalSExt(v) = CreateInteger({})
        BY <4>1 DEF EvalSExt, Is, FloatZero
      <4>3. z = CreateInteger({})
        <5>1. z = CreateInteger(FloatInt[x.float])
          BY <1>5, <2>6, <4>1 DEF Unary, Is
        <5> QED BY <4>1, <5>1
      <4> QED BY <3>1, <4>2, <4>3, Allows DEF e
    <3>4. CASE v.kind \notin {"int", "float_zero"}
      <4>1. EvalSExt(v) = Overdefined
        BY <2>1, <3>4 DEF EvalSExt, Is
      <4> QED BY <1>1, <3>1, <4>1 DEF e
    <3> QED BY <3>2, <3>3, <3>4
  <2>7. CASE op \in {"zext", "xext"}
    <3>1. e = EvalZExt(v)
      BY <2>4, <2>7, UnaryDispatch DEF e
    <3>2. CASE v.kind = "int"
      <4>1. v = x /\ Is(x, "int")
        BY <2>2, <3>2 DEF Is
      <4>2. EvalZExt(v) = x
        BY <4>1 DEF EvalZExt, Is, FloatZero
      <4>3. z = x
        BY <1>5, <2>7, <4>1 DEF Unary, Is
      <4>4. Stands(x, x, f)
        BY <4>1
      <4> QED BY <3>1, <4>2, <4>3, <4>4 DEF e
    <3>3. CASE v.kind = "float" /\ v.float \in DOMAIN FloatInt
      <4>1. v = x /\ Is(x, "float") /\ x.float \in DOMAIN FloatInt
        BY <2>2, <3>3 DEF Is
      <4>2. EvalZExt(v) = CreateInteger(FloatInt[x.float])
        BY <4>1 DEF EvalZExt, Is, FloatZero
      <4>3. z = CreateInteger(FloatInt[x.float])
        BY <1>5, <2>7, <4>1 DEF Unary, Is
      <4> QED BY <3>1, <4>2, <4>3, Allows DEF e
    <3>4. CASE v.kind = "float_zero"
      <4>1. v = FloatZero /\ Is(x, "float") /\ x.float \in DOMAIN FloatInt /\ FloatInt[x.float] = {}
        BY <2>1, <2>2, <3>4, EvalAssumption
      <4>2. EvalZExt(v) = CreateInteger({})
        BY <4>1 DEF EvalZExt, Is, FloatZero
      <4>3. z = CreateInteger({})
        <5>1. z = CreateInteger(FloatInt[x.float])
          BY <1>5, <2>7, <4>1 DEF Unary, Is
        <5> QED BY <4>1, <5>1
      <4> QED BY <3>1, <4>2, <4>3, Allows DEF e
    <3>5. CASE v.kind \notin {"int", "float_zero"} /\ ~ (v.kind = "float" /\ v.float \in DOMAIN FloatInt)
      <4>1. EvalZExt(v) = Overdefined
        BY <2>1, <3>5 DEF EvalZExt, Is
      <4> QED BY <1>1, <3>1, <4>1 DEF e
    <3> QED BY <3>2, <3>3, <3>4, <3>5
  <2>8. CASE op = "trunc"
    <3>1. e = EvalTrunc(v)
      BY <2>4, <2>8, UnaryDispatch DEF e
    <3>2. CASE v.kind = "int"
      <4>1. v = x /\ Is(x, "int")
        BY <2>2, <3>2 DEF Is
      <4>2. EvalTrunc(v) = CreateInteger(x.bits \cap Narrow)
        BY <4>1 DEF EvalTrunc
      <4>3. z = IntOf(Num(x.bits) % 2 ^ Cardinality(Narrow))
        BY <1>5, <2>8, <4>1 DEF Unary, Is
      <4>4. z = CreateInteger(x.bits \cap Narrow)
        BY <2>3, <4>1, <4>3, Truncated DEF IntOf
      <4> QED BY <3>1, <4>2, <4>4, Allows DEF e
    <3>3. CASE v.kind # "int"
      <4>1. EvalTrunc(v) = Overdefined
        BY <3>3 DEF EvalTrunc, Is
      <4> QED BY <1>1, <3>1, <4>1 DEF e
    <3> QED BY <3>2, <3>3
  <2>9. CASE op = "bitcast"
    <3>1. e = EvalBitCast(v)
      BY <2>4, <2>9, UnaryDispatch DEF e
    <3>2. CASE v.kind = "float"
      <4>1. v = x /\ Is(x, "float")
        BY <2>2, <3>2 DEF Is
      <4>2. EvalBitCast(v) = CreateInteger(FloatBits[x.float])
        BY <4>1 DEF EvalBitCast, Is, FloatZero
      <4>3. z = CreateInteger(FloatBits[x.float])
        BY <1>5, <2>9, <4>1 DEF Unary, Is
      <4> QED BY <3>1, <4>2, <4>3, Allows DEF e
    <3>3. CASE v.kind = "float_zero"
      <4>1. EvalBitCast(v) = Overdefined
        BY <2>1, <3>3 DEF EvalBitCast, Is, FloatZero
      <4> QED BY <1>1, <3>1, <4>1 DEF e
    <3>4. CASE v.kind \notin {"float", "float_zero"}
      <4>1. EvalBitCast(v) = v
        BY <2>1, <3>4 DEF EvalBitCast, Is
      <4>2. ~ Is(x, "float")
        <5>1. ~ MaybeNull(v) => \/ ~ Is(x, "float") \/ v = x \/ v = FloatZero
          BY <1>5, Known
        <5>2. MaybeNull(v) => x = v \/ x = Null
          BY <1>5, Means DEF MaybeNull, Is
        <5>3. ~ Is(Null, "float")
          BY DEF Null, Is, CreateInteger
        <5> QED BY <2>1, <3>4, <5>1, <5>2, <5>3 DEF Is
      <4>3. z = x
        BY <1>5, <2>9, <4>2 DEF Unary, Is
      <4> QED BY <3>1, <4>1, <4>3 DEF e
    <3> QED BY <3>2, <3>3, <3>4
  <2>10. CASE op = "abs"
    <3>1. e = Overdefined
      BY <2>4, <2>10, UnaryDispatch DEF e
    <3> QED BY <1>1, <3>1 DEF e
  <2> QED BY <2>5, <2>6, <2>7, <2>8, <2>9, <2>10 DEF Unaries
<1> QED BY <1>3, <1>4, <1>5

-----------------------------------------------------------------------------
(* Comparisons                                                             *)

\* The relations that integers can be in.
Relations == {"eq", "ne", "lt", "le", "gt", "ge"}

\* A truth value is described by itself.
LEMMA Flags ==
  ASSUME NEW f
  PROVE  \A a, b \in BOOLEAN : (a <=> b) => Stands(Flag(a), Flag(b), f)
<1>1. \A a, b \in BOOLEAN : (a <=> b) => Flag(a) = Flag(b)
  BY DEF Flag
<1>2. \A a \in BOOLEAN : Stands(Flag(a), Flag(a), f)
  BY Allows DEF Flag
<1> QED BY <1>1, <1>2

\* Two words are different when one of their bits is, however they are compared.
LEMMA Different ==
  ASSUME NEW a \in SUBSET Bits, NEW b \in SUBSET Bits, a # b, NEW cc, cc.rel \in {"eq", "ne"}
  PROVE  CompareInt(a, b, cc) <=> cc.rel = "ne"
<1>1. Num(a) # Num(b)
  BY Word
<1>2. Signed(a) # Signed(b)
  <2>1. ASSUME Signed(a) = Signed(b) PROVE FALSE
    <3>1. \A i \in Bits : i \in Nat /\ i < Width
      BY Words
    <3>2. \A c \in SUBSET Bits : \A i \in Bits : (Signed(c) \div 2 ^ i) % 2 = 1 <=> i \in c
      <4>1. ASSUME NEW c \in SUBSET Bits, NEW i \in Bits
            PROVE  (Signed(c) \div 2 ^ i) % 2 = 1 <=> i \in c
        <5>1. (Signed(c) \div 2 ^ i) % 2 = 1 <=> (IF i < Width THEN i ELSE Width - 1) \in c
          BY <3>1, SignedWord
        <5> QED BY <3>1, <5>1
      <4> QED BY <4>1
    <3>3. \A i \in Bits : i \in a <=> i \in b
      <4>1. \A i \in Bits : (Signed(a) \div 2 ^ i) % 2 = 1 <=> i \in a
        BY <3>2
      <4>2. \A i \in Bits : (Signed(b) \div 2 ^ i) % 2 = 1 <=> i \in b
        BY <3>2
      <4> QED BY <2>1, <4>1, <4>2
    <3> QED BY <3>3
  <2> QED BY <2>1
<1> QED BY <1>1, <1>2 DEF CompareInt, Related

\* What an integer below all addresses and an address compare to.
LEMMA BelowAddress ==
  ASSUME NEW x, NEW y, Is(x, "int"), IsAddress(y), Num(x.bits) < 2,
         NEW cc, cc.rel \in Relations, NEW f, NEW z \in Compared(cc, x, y)
  PROVE  Stands(z, IntOrder(cc, TRUE), f)
<1>1. z = Flag(cc.rel \in {"ne", "lt", "le"})
  BY DEF Compared, Is, IsAddress, Undefined
<1>2. IntOrder(cc, TRUE) = Flag(cc.rel \in {"ne", "lt", "le"})
  BY DEF IntOrder, Flag, Relations
<1>3. \A t : Stands(Flag(t), Flag(t), f)
  BY Allows DEF Flag
<1> QED BY <1>1, <1>2, <1>3

\* The same with the address on the left.
LEMMA AboveInt ==
  ASSUME NEW x, NEW y, IsAddress(x), Is(y, "int"), Num(y.bits) < 2,
         NEW cc, cc.rel \in Relations, NEW f, NEW z \in Compared(cc, x, y)
  PROVE  Stands(z, IntOrder(cc, FALSE), f)
<1>1. z = Flag(cc.rel \in {"ne", "gt", "ge"})
  BY DEF Compared, Is, IsAddress, Undefined
<1>2. IntOrder(cc, FALSE) = Flag(cc.rel \in {"ne", "gt", "ge"})
  BY DEF IntOrder, Flag, Relations
<1>3. \A t : Stands(Flag(t), Flag(t), f)
  BY Allows DEF Flag
<1> QED BY <1>1, <1>2, <1>3

\* The words zero and one.
LEMMA SmallWords ==
  /\ Num({}) = 0 /\ Num({0}) = 1
  /\ \A b : b \subseteq {0} => Num(b) < 2
<1>1. {} \in SUBSET Bits /\ {0} \in SUBSET Bits
  BY Words
<1>2. Num({}) = 0
  BY <1>1, Word
<1>3. Num({0}) = 1
  <2>1. IsFiniteSet({0}) /\ {0} \in SUBSET Nat
    BY FS_Singleton
  <2>2. Num({0}) = 2 ^ 0 + Num({0} \ {0})
    BY <2>1, Sums
  <2>3. {0} \ {0} = {} /\ 2 ^ 0 = 1
    OBVIOUS
  <2> QED BY <1>2, <2>2, <2>3
<1>4. \A b : b \subseteq {0} => b = {} \/ b = {0}
  OBVIOUS
<1> QED BY <1>2, <1>3, <1>4

\* Two addresses of the program that are known exactly.
LEMMA TwoFrames ==
  ASSUME NEW f, NEW o, NEW k, NEW a \in Int, NEW b \in Int, NEW cc, cc.rel \in Relations,
         NEW z \in Compared(cc, Stack(f, o, a), Stack(f, k, b))
  PROVE  Stands(z, CompareFrame(CreateFrame(o, a), CreateFrame(k, b), cc), f)
<1> DEFINE x == Stack(f, o, a)
           y == Stack(f, k, b)
           l == CreateFrame(o, a)
           r == CreateFrame(k, b)
<1>1. /\ IsAddress(x) /\ IsAddress(y) /\ ~ Is(x, "int") /\ ~ Is(x, "float") /\ ~ Is(y, "int")
      /\ Is(x, "stack") /\ Is(y, "stack") /\ x # Undefined /\ y # Undefined
      /\ x.off = a /\ y.off = b
  BY DEF Stack, IsAddress, Is, Undefined
<1>2. Within(x, y) <=> o = k
  BY DEF Within, Stack
<1>3. l = r <=> (o = k /\ a = b)
  BY DEF CreateFrame
<1>4. l.obj = o /\ r.obj = k /\ l.off = a /\ r.off = b
  BY DEF CreateFrame
<1> HIDE DEF x, y, l, r
<1>5. CASE cc.rel \in {"eq", "ne"}
  <2>1. CompareFrame(l, r, cc) = Flag((cc.rel = "eq") = (l = r))
    BY <1>5 DEF CompareFrame
  <2>2. CASE o = k
    <3>1. z = Flag(Related(cc.rel, a, b))
      BY <1>1, <1>2, <2>2 DEF Compared, x, y
    <3>2. Related(cc.rel, a, b) <=> ((cc.rel = "eq") = (l = r))
      BY <1>3, <1>5, <2>2 DEF Related
    <3>3. Related(cc.rel, a, b) \in BOOLEAN
      BY <1>5 DEF Related
    <3> QED BY <2>1, <3>1, <3>2, <3>3, Flags DEF l, r
  <2>3. CASE o # k
    <3>1. z = Flag(cc.rel = "ne")
      BY <1>1, <1>2, <1>5, <2>3 DEF Compared, x, y
    <3>2. cc.rel = "ne" <=> ((cc.rel = "eq") = (l = r))
      BY <1>3, <1>5, <2>3
    <3> QED BY <2>1, <3>1, <3>2, Flags DEF l, r
  <2> QED BY <2>2, <2>3
<1>6. CASE cc.rel \notin {"eq", "ne"} /\ o = k
  <2>1. z = Flag(Related(cc.rel, a, b))
    BY <1>1, <1>2, <1>6 DEF Compared, x, y
  <2>2. CompareFrame(l, r, cc) = Flag(Related(cc.rel, a, b))
    BY <1>4, <1>6 DEF CompareFrame
  <2>3. Stands(Flag(Related(cc.rel, a, b)), Flag(Related(cc.rel, a, b)), f)
    BY Allows DEF Flag
  <2> QED BY <2>1, <2>2, <2>3 DEF l, r
<1>7. CASE cc.rel \notin {"eq", "ne"} /\ o # k
  <2>1. z = Undefined
    BY <1>1, <1>2, <1>7 DEF Compared, x, y
  <2>2. CompareFrame(l, r, cc) = Undefined
    BY <1>4, <1>7 DEF CompareFrame
  <2>3. Stands(Undefined, Undefined, f)
    BY Allows, Builds
  <2> QED BY <2>1, <2>2, <2>3 DEF l, r
<1> QED BY <1>5, <1>6, <1>7

\* Two addresses of symbols: those of different symbols are unequal, in no known order.
LEMMA TwoGlobals ==
  ASSUME NEW f, NEW g, NEW h, NEW a \in Int, NEW b \in Int, NEW cc, cc.rel \in Relations,
         NEW z \in Compared(cc, CreateGlobal(g, a), CreateGlobal(h, b))
  PROVE  Stands(z, CompareGlobal(CreateGlobal(g, a), CreateGlobal(h, b), cc), f)
<1> DEFINE x == CreateGlobal(g, a)
           y == CreateGlobal(h, b)
<1>1. /\ IsAddress(x) /\ IsAddress(y) /\ ~ Is(x, "int") /\ ~ Is(x, "float") /\ ~ Is(y, "int")
      /\ ~ Is(x, "stack") /\ x # Undefined /\ y # Undefined
      /\ x.off = a /\ y.off = b /\ x.sym = g /\ y.sym = h
  BY DEF CreateGlobal, IsAddress, Is, Undefined
<1>2. Within(x, y) <=> g = h
  <2>1. \A i, n : [CreateGlobal(i, n) EXCEPT !.off = 0] = CreateGlobal(i, 0)
    BY DEF CreateGlobal
  <2>2. CreateGlobal(g, 0) = CreateGlobal(h, 0) <=> g = h
    BY DEF CreateGlobal
  <2> QED BY <2>1, <2>2 DEF Within
<1>3. x = y <=> (g = h /\ a = b)
  BY DEF CreateGlobal
<1> HIDE DEF x, y
<1>4. CASE CompareGlobal(x, y, cc) = Overdefined
  BY <1>4, Allows DEF x, y
<1>5. CASE cc.rel \in {"eq", "ne"} /\ CompareGlobal(x, y, cc) # Overdefined
  <2>1. CompareGlobal(x, y, cc) = Flag((cc.rel = "eq") = (x = y))
    BY <1>5 DEF CompareGlobal
  <2>2. CASE g = h
    <3>1. z = Flag(Related(cc.rel, a, b))
      BY <1>1, <1>2, <2>2 DEF Compared, x, y
    <3>2. Related(cc.rel, a, b) <=> ((cc.rel = "eq") = (x = y))
      BY <1>3, <1>5, <2>2 DEF Related
    <3>3. Related(cc.rel, a, b) \in BOOLEAN
      BY <1>5 DEF Related
    <3> QED BY <2>1, <3>1, <3>2, <3>3, Flags DEF x, y
  <2>3. CASE g # h
    <3>1. z = Flag(cc.rel = "ne")
      BY <1>1, <1>2, <1>5, <2>3 DEF Compared, x, y
    <3>2. cc.rel = "ne" <=> ((cc.rel = "eq") = (x = y))
      BY <1>3, <1>5, <2>3
    <3> QED BY <2>1, <3>1, <3>2, Flags DEF x, y
  <2> QED BY <2>2, <2>3
<1>6. CASE cc.rel \notin {"eq", "ne"} /\ CompareGlobal(x, y, cc) # Overdefined
  <2>1. g = h /\ CompareGlobal(x, y, cc) = Flag(Related(cc.rel, a, b))
    BY <1>1, <1>6 DEF CompareGlobal
  <2>2. z = Flag(Related(cc.rel, a, b))
    BY <1>1, <1>2, <2>1 DEF Compared, x, y
  <2>3. Stands(Flag(Related(cc.rel, a, b)), Flag(Related(cc.rel, a, b)), f)
    BY Allows DEF Flag
  <2> QED BY <2>1, <2>2, <2>3 DEF x, y
<1> QED BY <1>4, <1>5, <1>6

\* An address of the frame and one of a symbol are different.
LEMMA FrameAndGlobal ==
  ASSUME NEW f, NEW o, NEW g, NEW a, NEW b, NEW cc,
         NEW z \in Compared(cc, Stack(f, o, a), CreateGlobal(g, b))
  PROVE  Stands(z, Unequal(cc), f)
<1> DEFINE x == Stack(f, o, a)
           y == CreateGlobal(g, b)
<1>1. /\ IsAddress(x) /\ IsAddress(y) /\ ~ Is(x, "int") /\ ~ Is(x, "float") /\ ~ Is(y, "int")
      /\ x # Undefined /\ y # Undefined
  BY DEF Stack, CreateGlobal, IsAddress, Is, Undefined
<1>2. ~ Within(x, y)
  <2>1. [x EXCEPT !.off = 0].kind = "stack" /\ [y EXCEPT !.off = 0].kind = "global"
    BY DEF Stack, CreateGlobal
  <2> QED BY <2>1 DEF Within
<1> HIDE DEF x, y
<1>3. CASE cc.rel \in {"eq", "ne"}
  <2>1. z = Flag(cc.rel = "ne") /\ Unequal(cc) = Flag(cc.rel = "ne")
    BY <1>1, <1>2, <1>3 DEF Compared, Unequal, x, y
  <2> QED BY <2>1, Flags
<1>4. CASE cc.rel \notin {"eq", "ne"}
  BY <1>4, Allows DEF Unequal
<1> QED BY <1>3, <1>4

\* What EvalCmp makes of two known operands is a lattice value again.
LEMMA CompareType ==
  ASSUME NEW l \in Claims, NEW r \in Claims, NEW cc
  PROVE  EvalCmp(l, r, cc) \in Claims
<1>1. Overdefined \in Claims /\ Undefined \in Claims /\ Pointer \in Claims
  BY Builds
<1>2. \A t : Flag(t) \in Claims
  BY Builds, Words DEF Flag
<1>3. Unequal(cc) \in Claims /\ IntOrder(cc, TRUE) \in Claims /\ IntOrder(cc, FALSE) \in Claims
  BY <1>1, <1>2 DEF Unequal, IntOrder
<1>4. \A m, i : CompareMask(m, i, cc) \in Claims
  BY <1>1, <1>3 DEF CompareMask
<1>5. CompareFrame(l, r, cc) \in Claims /\ CompareGlobal(l, r, cc) \in Claims
  BY <1>1, <1>2 DEF CompareFrame, CompareGlobal
<1>6. CmpFloat(l, r, cc) \in Claims /\ CmpInt(l, r, cc) \in Claims
  BY <1>1, <1>2, <1>3, <1>4 DEF CmpFloat, CmpInt
<1>7. CmpMask(l, r, cc) \in Claims /\ CmpFrame(l, r, cc) \in Claims /\ CmpGlobal(l, r, cc) \in Claims
  BY <1>1, <1>3, <1>4, <1>5 DEF CmpMask, CmpFrame, CmpGlobal
<1>8. CmpPointer(r, cc) \in Claims /\ CmpRange(r, cc) \in Claims
  BY <1>1, <1>3 DEF CmpPointer, CmpRange
<1> QED BY <1>1, <1>6, <1>7, <1>8, Shapes DEF EvalCmp, Is

\* The rule that EvalCmp has for a left operand.
LEMMA CompareDispatch ==
  ASSUME NEW l \in Claims, NEW r \in Claims, l # Undefined, r # Undefined, NEW cc
  PROVE  /\ l.kind \in {"overdefined", "float_zero"} => EvalCmp(l, r, cc) = Overdefined
         /\ l.kind = "float" => EvalCmp(l, r, cc) = CmpFloat(l, r, cc)
         /\ l.kind = "int" => EvalCmp(l, r, cc) = CmpInt(l, r, cc)
         /\ l.kind = "mask" => EvalCmp(l, r, cc) = CmpMask(l, r, cc)
         /\ l.kind = "frame" => EvalCmp(l, r, cc) = CmpFrame(l, r, cc)
         /\ l.kind = "global" => EvalCmp(l, r, cc) = CmpGlobal(l, r, cc)
         /\ l.kind = "pointer" => EvalCmp(l, r, cc) = CmpPointer(r, cc)
         /\ l.kind = "range" => EvalCmp(l, r, cc) = CmpRange(r, cc)
BY Shapes DEF EvalCmp, Is

\* Two integers of which one is known only in part.
LEMMA Masked ==
  ASSUME NEW a \in SUBSET Bits, NEW b \in SUBSET Bits, NEW m, NEW i, NEW f, NEW cc,
         \/ a = i.bits /\ b \cap m.known = m.value
         \/ b = i.bits /\ a \cap m.known = m.value
  PROVE  Stands(Flag(CompareInt(a, b, cc)), CompareMask(m, i, cc), f)
<1>1. CASE m.known \cap i.bits = m.value \/ cc.rel \notin {"eq", "ne"}
  BY <1>1, Allows DEF CompareMask, Unequal
<1>2. CASE m.known \cap i.bits # m.value /\ cc.rel \in {"eq", "ne"}
  <2>1. a # b
    BY <1>2
  <2>2. CompareInt(a, b, cc) <=> cc.rel = "ne"
    BY <1>2, <2>1, Different
  <2>3. CompareMask(m, i, cc) = Flag(cc.rel = "ne")
    BY <1>2 DEF CompareMask, Unequal
  <2>4. Flag(CompareInt(a, b, cc)) = Flag(cc.rel = "ne")
    BY <2>2 DEF Flag
  <2> QED BY <2>3, <2>4, Allows DEF Flag
<1> QED BY <1>1, <1>2

\* SCCP folds a comparison only to what holds of all pairs of values its operands
\* can have: integers of any width, partly known ones, offsets into objects of the
\* frame and into symbols, addresses against zero, and weak symbols that are
\* missing.  A comparison of an address with a range of addresses is not covered:
\* of it the evaluator makes an address.
THEOREM CompareSound ==
  ASSUME NEW l, NEW r, NEW x, NEW y, NEW f, Described(l, r, x, y, f), NEW cc,
         ~ (Is(x, "float") /\ Is(y, "float")) => cc.rel \in Relations,
         ~ (Is(l, "global") /\ Is(r, "range")),
         NEW z \in Compared(cc, x, y)
  PROVE  Stands(z, EvalCmp(l, r, cc), f)
<1> DEFINE w == EvalCmp(l, r, cc)
<1>1. /\ l \in Claims /\ r \in Claims /\ IsRunValue(x) /\ IsRunValue(y)
      /\ Stands(x, l, f) /\ Stands(y, r, f)
  BY DEF Described
<1>2. w \in Claims
  BY <1>1, CompareType
<1>3. Stands(z, Overdefined, f) /\ Stands(Undefined, w, f) /\ \A t : Stands(Flag(t), Flag(t), f)
  BY <1>2, Allows DEF Flag
<1> HIDE DEF w
<1>4. CASE x = Undefined \/ y = Undefined
  <2>1. CASE x = Undefined
    <3>1. z = Undefined
      BY <2>1 DEF Compared, Is, IsAddress, Undefined
    <3> QED BY <1>3, <3>1 DEF w
  <2>2. CASE y = Undefined
    <3>1. z = Undefined
      BY <2>2 DEF Compared, Is, IsAddress, Undefined
    <3> QED BY <1>3, <3>1 DEF w
  <2> QED BY <1>4, <2>1, <2>2
<1>5. CASE x # Undefined /\ y # Undefined
  <2>1. /\ l.kind # "undefined" /\ r.kind # "undefined"
        /\ l.kind = "undefined" <=> l = Undefined
        /\ r.kind = "undefined" <=> r = Undefined
        /\ l.kind \in {"overdefined", "undefined", "pointer", "float_zero", "int", "mask", "frame",
                       "global", "range", "float"}
    BY <1>1, <1>5, Means, Shapes
  <2>2. /\ l.kind \in {"int", "float"} => x = l
        /\ l.kind = "global" => x = l \/ (MaybeNull(l) /\ x = Null)
        /\ l.kind = "mask" => Is(x, "int") /\ x.bits \cap l.known = l.value
        /\ l.kind = "frame" => x = Stack(f, l.obj, l.off)
        /\ l.kind = "pointer" => IsAddress(x)
        /\ l.kind = "range" => Is(x, "global")
    BY <1>1, <1>5, Means
  <2>3. /\ r.kind \in {"int", "float"} => y = r
        /\ r.kind = "global" => y = r \/ (MaybeNull(r) /\ y = Null)
        /\ r.kind = "mask" => Is(y, "int") /\ y.bits \cap r.known = r.value
        /\ r.kind = "frame" => y = Stack(f, r.obj, r.off)
        /\ r.kind = "pointer" => IsAddress(y)
    BY <1>1, <1>5, Means
  <2>4. /\ Is(x, "int") => x.bits \in SUBSET Bits
        /\ Is(y, "int") => y.bits \in SUBSET Bits
    BY <1>1, Kinds DEF Is
  <2>5. /\ \A g, o, n : IsAddress(Stack(g, o, n))
        /\ ~ (IsAddress(x) /\ Is(x, "float")) /\ ~ (Is(x, "int") /\ Is(x, "float"))
    BY DEF IsAddress, Is, Stack
  <2>6. Is(x, "int") /\ Is(y, "int") => z = Flag(CompareInt(x.bits, y.bits, cc))
    BY <1>5 DEF Compared, Is, IsAddress
  <2>7. Is(Null, "int") /\ Null.bits = {} /\ ~ IsAddress(Null)
    BY DEF Null, Is, IsAddress, CreateInteger
  <2>8. CASE l.kind \in {"overdefined", "float_zero"}
    <3>1. w = Overdefined
      BY <1>1, <2>1, <2>8, CompareDispatch DEF w
    <3> QED BY <1>3, <3>1 DEF w
  <2>9. CASE l.kind = "float"
    <3>1. w = CmpFloat(l, r, cc)
      BY <1>1, <2>1, <2>9, CompareDispatch DEF w
    <3>2. CASE r.kind = "float"
      <4>1. x = l /\ y = r /\ Is(x, "float") /\ Is(y, "float")
        BY <2>2, <2>3, <2>9, <3>2 DEF Is
      <4>2. z = Flag(CompareFloat(x.float, y.float, cc))
        BY <1>5, <4>1 DEF Compared, Is, IsAddress
      <4>3. w = z
        BY <3>1, <4>1, <4>2 DEF CmpFloat
      <4> QED BY <1>3, <4>2, <4>3 DEF w
    <3>3. CASE r.kind # "float"
      BY <1>3, <3>1, <3>3 DEF CmpFloat, Is, w
    <3> QED BY <3>2, <3>3
  <2>10. CASE l.kind = "int"
    <3>1. w = CmpInt(l, r, cc)
      BY <1>1, <2>1, <2>10, CompareDispatch DEF w
    <3>2. x = l /\ Is(x, "int") /\ cc.rel \in Relations
      BY <2>2, <2>5, <2>10 DEF Is
    <3>3. CASE r.kind = "int"
      <4>1. y = r /\ Is(y, "int")
        BY <2>3, <3>3 DEF Is
      <4>2. w = Flag(CompareInt(x.bits, y.bits, cc))
        BY <3>1, <3>2, <4>1 DEF CmpInt, IsPointerLike, Is
      <4> QED BY <1>3, <2>6, <3>2, <4>1, <4>2 DEF w
    <3>4. CASE r.kind = "mask"
      <4>1. Is(y, "int") /\ y.bits \cap r.known = r.value
        BY <2>3, <3>4
      <4>2. w = CompareMask(r, l, cc)
        BY <3>1, <3>4 DEF CmpInt, IsPointerLike, Is
      <4> QED BY <2>4, <2>6, <3>2, <4>1, <4>2, Masked DEF w
    <3>5. CASE IsPointerLike(r) /\ l.bits = {} /\ ~ (Is(r, "global") /\ r.sym \in Weak)
      <4>1. IsAddress(y)
        BY <2>3, <2>5, <3>5 DEF IsPointerLike, MaybeNull, Is, IsAddress
      <4>2. w = IntOrder(cc, TRUE)
        BY <3>1, <3>5 DEF CmpInt, IsPointerLike, Is
      <4>3. Num(x.bits) < 2
        BY <3>2, <3>5, SmallWords
      <4>4. Stands(z, IntOrder(cc, TRUE), f)
        BY <3>2, <4>1, <4>3, BelowAddress
      <4> QED BY <4>2, <4>4 DEF w
    <3>6. CASE /\ r.kind \notin {"int", "mask"}
               /\ ~ (IsPointerLike(r) /\ l.bits = {} /\ ~ (Is(r, "global") /\ r.sym \in Weak))
      BY <1>3, <3>1, <3>6 DEF CmpInt, Is, w
    <3> QED BY <3>3, <3>4, <3>5, <3>6
  <2>11. CASE l.kind = "mask"
    <3>1. w = CmpMask(l, r, cc)
      BY <1>1, <2>1, <2>11, CompareDispatch DEF w
    <3>2. Is(x, "int") /\ x.bits \cap l.known = l.value
      BY <2>2, <2>11
    <3>3. CASE r.kind = "int"
      <4>1. y = r /\ Is(y, "int")
        BY <2>3, <3>3 DEF Is
      <4>2. w = CompareMask(l, r, cc)
        BY <3>1, <4>1 DEF CmpMask
      <4> QED BY <2>4, <2>6, <3>2, <4>1, <4>2, Masked DEF w
    <3>4. CASE r.kind # "int"
      BY <1>3, <3>1, <3>4 DEF CmpMask, Is, w
    <3> QED BY <3>3, <3>4
  <2>12. ASSUME IsAddress(x), Is(y, "int"), y.bits \subseteq {0}
         PROVE  Stands(z, IntOrder(cc, FALSE), f) /\ Stands(z, Unequal(cc), f)
    <3>1. Num(y.bits) < 2 /\ cc.rel \in Relations
      BY <2>5, <2>12, SmallWords
    <3>2. Stands(z, IntOrder(cc, FALSE), f)
      BY <2>12, <3>1, AboveInt
    <3>3. Unequal(cc) \in {Overdefined, IntOrder(cc, FALSE)}
      BY DEF Unequal, IntOrder
    <3> QED BY <1>3, <3>2, <3>3
  <2>13. CASE l.kind = "frame"
    <3>1. w = CmpFrame(l, r, cc)
      BY <1>1, <2>1, <2>13, CompareDispatch DEF w
    <3>2. /\ x = Stack(f, l.obj, l.off) /\ l = CreateFrame(l.obj, l.off) /\ l.off \in Int
          /\ IsAddress(x) /\ cc.rel \in Relations
      BY <1>1, <2>2, <2>5, <2>13, Shapes
    <3>3. CASE r.kind = "frame"
      <4>1. y = Stack(f, r.obj, r.off) /\ r = CreateFrame(r.obj, r.off) /\ r.off \in Int
        BY <1>1, <2>3, <3>3, Shapes
      <4>2. w = CompareFrame(l, r, cc)
        BY <3>1, <3>3 DEF CmpFrame, Is
      <4>3. Stands(z, CompareFrame(CreateFrame(l.obj, l.off), CreateFrame(r.obj, r.off), cc), f)
        BY <3>2, <4>1, TwoFrames
      <4> QED BY <3>2, <4>1, <4>2, <4>3 DEF w
    <3>4. CASE r.kind = "global"
      <4>1. w = Unequal(cc)
        BY <3>1, <3>4 DEF CmpFrame, Is
      <4>2. CASE y = r
        <5>1. r = CreateGlobal(r.sym, r.off)
          BY <1>1, <3>4, Shapes
        <5>2. Stands(z, Unequal(cc), f)
          BY <3>2, <4>2, <5>1, FrameAndGlobal
        <5> QED BY <4>1, <5>2 DEF w
      <4>3. CASE y = Null
        BY <2>7, <2>12, <3>2, <4>1, <4>3 DEF w
      <4> QED BY <2>3, <3>4, <4>2, <4>3
    <3>5. CASE Is(r, "int") /\ r.bits = {}
      <4>1. w = IntOrder(cc, FALSE)
        BY <3>1, <3>5 DEF CmpFrame, Is
      <4> QED BY <2>3, <2>12, <3>2, <3>5, <4>1 DEF w, Is
    <3>6. CASE r.kind \notin {"frame", "global"} /\ ~ (Is(r, "int") /\ r.bits = {})
      BY <1>3, <3>1, <3>6 DEF CmpFrame, Is, w
    <3> QED BY <3>3, <3>4, <3>5, <3>6
  <2>14. CASE l.kind = "global"
    <3>1. w = CmpGlobal(l, r, cc)
      BY <1>1, <2>1, <2>14, CompareDispatch DEF w
    <3>2. l = CreateGlobal(l.sym, l.off) /\ l.off \in Int
      BY <1>1, <2>14, Shapes
    <3>3. l.sym \notin Weak => x = l /\ IsAddress(x) /\ cc.rel \in Relations
      BY <2>2, <2>5, <2>14 DEF MaybeNull, IsAddress
    <3>4. CASE r.kind = "global"
      <4>1. w = CompareGlobal(l, r, cc)
        BY <3>1, <3>4 DEF CmpGlobal, Is
      <4>2. CASE {l.sym, r.sym} \cap Weak # {}
        <5>1. CompareGlobal(l, r, cc) = Overdefined
          BY <4>2 DEF CompareGlobal
        <5> QED BY <1>3, <4>1, <5>1 DEF w
      <4>3. CASE l.sym \notin Weak /\ r.sym \notin Weak
        <5>1. y = r /\ r = CreateGlobal(r.sym, r.off) /\ r.off \in Int
          BY <1>1, <2>3, <3>4, <4>3, Shapes DEF MaybeNull
        <5>2. x = CreateGlobal(l.sym, l.off) /\ cc.rel \in Relations
          BY <3>2, <3>3, <4>3
        <5>3. Stands(z, CompareGlobal(CreateGlobal(l.sym, l.off), CreateGlobal(r.sym, r.off), cc), f)
          BY <3>2, <5>1, <5>2, TwoGlobals
        <5> QED BY <3>2, <4>1, <5>1, <5>3 DEF w
      <4> QED BY <4>2, <4>3
    <3>5. CASE Is(r, "int") /\ r.bits \subseteq {0} /\ l.sym \notin Weak
      <4>1. w = IntOrder(cc, FALSE)
        BY <3>1, <3>5 DEF CmpGlobal, Is
      <4> QED BY <2>3, <2>12, <3>3, <3>5, <4>1 DEF w, Is
    <3>6. CASE r.kind # "global" /\ ~ (Is(r, "int") /\ r.bits \subseteq {0} /\ l.sym \notin Weak)
      <4>1. r.kind # "range"
        BY <2>14 DEF Is
      <4> QED BY <1>3, <3>1, <3>6, <4>1 DEF CmpGlobal, Is, w
    <3> QED BY <3>4, <3>5, <3>6
  <2>15. CASE l.kind \in {"pointer", "range"}
    <3>1. w = IF Is(r, "int") /\ r.bits = {} THEN IntOrder(cc, FALSE) ELSE Overdefined
      BY <1>1, <2>1, <2>15, CompareDispatch DEF w, CmpPointer, CmpRange
    <3>2. IsAddress(x)
      BY <2>2, <2>15 DEF IsAddress, Is
    <3>3. CASE Is(r, "int") /\ r.bits = {}
      BY <2>3, <2>12, <3>1, <3>2, <3>3 DEF w, Is
    <3>4. CASE ~ (Is(r, "int") /\ r.bits = {})
      BY <1>3, <3>1, <3>4 DEF w
    <3> QED BY <3>3, <3>4
  <2> QED BY <2>1, <2>8, <2>9, <2>10, <2>11, <2>13, <2>14, <2>15
<1> QED BY <1>4, <1>5

-----------------------------------------------------------------------------
(* Choices                                                                 *)

\* A condition that the solver holds to be true or false is so in every run, or
\* undefined there: the branch it does not take, and marks unreachable, is not taken.
THEOREM TruthSound ==
  ASSUME NEW v \in Claims, NEW x, NEW f, Stands(x, v, f), x # Undefined, ~ MaybeNull(v)
  PROVE  (IsTrue(v) => Truth(x)) /\ (IsFalse(v) => ~ Truth(x))
<1>1. /\ v.kind \in {"int", "float"} => x = v
      /\ v.kind = "global" => x = v
      /\ v.kind = "mask" => Is(x, "int") /\ x.bits \cap v.known = v.value
      /\ v.kind = "frame" => x = Stack(f, v.obj, v.off)
      /\ v.kind = "pointer" => IsAddress(x)
      /\ v.kind = "range" => Is(x, "global")
      /\ v.kind = "float_zero" => Is(x, "float") /\ x.float \in FloatZeros
  BY Means
<1>2. Null.kind = "int" /\ Null.bits = {}
  BY DEF Null, CreateInteger
<1>3. v.kind = "int" => v = CreateInteger(v.bits)
  BY Shapes
<1>4. IsTrue(v) => Truth(x)
  <2>1. \A g, o, n : Stack(g, o, n).kind = "stack"
    BY DEF Stack
  <2> QED BY <1>1, <1>2, <2>1 DEF IsTrue, Truth, Is, IsAddress
<1>5. IsFalse(v) => ~ Truth(x)
  <2>1. CASE v.kind = "int" /\ v.bits = {}
    BY <1>1, <1>3, <2>1 DEF Truth, Null
  <2>2. CASE v.kind \in {"float", "float_zero"}
    BY <1>1, <2>2 DEF IsFalse, Truth, Is
  <2> QED BY <2>1, <2>2 DEF IsFalse, Is
<1> QED BY <1>4, <1>5

\* A choice stands for the operand it takes, whichever that is.  As in LUBSound, a
\* global that is certainly there must not be the first of a weak one.
THEOREM SelectSound ==
  ASSUME NEW c \in Claims, NEW a \in Claims, NEW b \in Claims, NEW x, NEW f, NEW y, NEW z,
         Stands(x, c, f), ~ MaybeNull(c), Stands(y, a, f), Stands(z, b, f),
         ~ (Is(a, "global") /\ ~ MaybeNull(a) /\ MaybeNull(b))
  PROVE  Stands(IF x = Undefined THEN Undefined ELSE IF Truth(x) THEN y ELSE z, EvalSelect(c, a, b), f)
<1> DEFINE w == EvalSelect(c, a, b)
           v == IF x = Undefined THEN Undefined ELSE IF Truth(x) THEN y ELSE z
<1>1. Undefined # Unknown /\ ~ (IsTrue(c) /\ IsFalse(c))
  BY DEF Undefined, Unknown, IsTrue, IsFalse, Is
<1>2. IsTrue(c) \/ IsFalse(c) => c # Undefined
  BY DEF Undefined, IsTrue, IsFalse, Is
<1>3. /\ IsTrue(c) => w = a
      /\ IsFalse(c) => w = b
      /\ c = Undefined => w = Undefined
      /\ ~ IsTrue(c) /\ ~ IsFalse(c) /\ c # Undefined => w = LUB(a, b)
  BY <1>1, <1>2 DEF EvalSelect
<1>4. Stands(y, LUB(a, b), f) /\ Stands(z, LUB(a, b), f)
  BY LUBSound
<1>5. \A d \in Claims : Stands(Undefined, d, f)
  BY Allows
<1> HIDE DEF w
<1>6. CASE x = Undefined
  <2>1. w \in Claims \/ w = LUB(a, b)
    BY <1>3, Builds
  <2>2. LUB(a, b) # Unknown
    BY <1>4 DEF Stands, Unknown, Overdefined, Pointer, FloatZero, Is, MaybeNull
  <2>3. Stands(Undefined, w, f)
    BY <1>5, <2>1, <2>2 DEF Stands
  <2> QED BY <1>6, <2>3 DEF w
<1>7. CASE x # Undefined
  <2>1. c # Undefined /\ (IsTrue(c) => Truth(x)) /\ (IsFalse(c) => ~ Truth(x))
    BY <1>7, Means, TruthSound DEF Undefined
  <2>2. CASE Truth(x)
    BY <1>3, <1>4, <1>7, <2>1, <2>2 DEF w
  <2>3. CASE ~ Truth(x)
    BY <1>3, <1>4, <1>7, <2>1, <2>3 DEF w
  <2> QED BY <2>2, <2>3
<1> QED BY <1>6, <1>7

-----------------------------------------------------------------------------
(* Folds over sequences and selections                                     *)

\* The last of the numbers up to m, if it is there.
LEMMA Greatest ==
  ASSUME NEW m \in Nat, NEW S \in SUBSET (1 .. m), m \in S
  PROVE  Max(S) = m
<1>1. \A y \in S : m >= y
  OBVIOUS
<1>2. \E x \in S : \A y \in S : x >= y
  BY <1>1
<1>3. Max(S) \in S /\ \A y \in S : Max(S) >= y
  BY <1>2 DEF Max
<1>4. Max(S) \in 1 .. m /\ Max(S) >= m
  BY <1>3
<1> QED BY <1>4

\* The maximum of a set of positions is one of them.
LEMMA Maximal ==
  ASSUME NEW n \in Nat, NEW S \in SUBSET (1 .. n), S # {}
  PROVE  Max(S) \in S /\ Max(S) \in 1 .. n
<1>1. \E x \in S : \A y \in S : x >= y
  <2> DEFINE N == {n - x : x \in S}
  <2>0. \A x \in S : n - x \in Nat
    OBVIOUS
  <2>a. PICK z \in S : TRUE
    OBVIOUS
  <2>b. n - z \in N
    OBVIOUS
  <2>1. N # {} /\ N \in SUBSET Nat
    BY <2>0, <2>b
  <2>2. PICK m \in N : \A k \in N : m <= k
    <3> HIDE DEF N
    <3> QED BY <2>1, Smallest
  <2>3. PICK x \in S : m = n - x
    <3>1. m \in N
      BY <2>2
    <3> QED BY <3>1
  <2>4. \A y \in S : n - y \in N
    OBVIOUS
  <2>5. \A y \in S : n - x <= n - y
    BY <2>2, <2>3, <2>4
  <2> QED BY <2>5
<1>2. Max(S) \in S
  BY <1>1 DEF Max
<1> QED BY <1>2

\* A function of sets of positions that is built as the library builds its folds; G
\* says what position k makes of a value.
IsFold(n, V, base, G, it) ==
  /\ it \in [SUBSET (1 .. n) -> V] /\ it[{}] = base
  /\ \A S \in SUBSET (1 .. n) : S # {} => it[S] = G[<<Max(S), it[S \ {Max(S)}]>>]

\* The same as far as values of V are concerned, which is all that matters.
Folds(n, V, base, G, f) ==
  /\ f[{}] = base
  /\ \A S \in SUBSET (1 .. n) : S # {} /\ f[S \ {Max(S)}] \in V => f[S] = G[<<Max(S), f[S \ {Max(S)}]>>]

\* What comes out of the positions up to k, one after the other.
AreSteps(n, V, base, G, h) ==
  /\ h \in [0 .. n -> V] /\ h[0] = base
  /\ \A k \in 1 .. n : h[k] = G[<<k, h[k - 1]>>]

EndIn(n, V, base, G, h, x) == AreSteps(n, V, base, G, h) /\ h[n] = x

\* The function by which the library folds a sequence exists.
LEMMA FoldExists ==
  ASSUME NEW n \in Nat, NEW V, NEW base \in V, NEW G \in [(1 .. n) \X V -> V]
  PROVE  \E it : IsFold(n, V, base, G, it)
<1> DEFINE Fits(m, it) ==
             /\ it \in [SUBSET (1 .. m) -> V] /\ it[{}] = base
             /\ \A S \in SUBSET (1 .. m) : S # {} => it[S] = G[<<Max(S), it[S \ {Max(S)}]>>]
           Found(m) == m <= n => \E it : Fits(m, it)
           N == {m \in Nat : Found(m)}
<1>1. Found(0)
  <2> DEFINE it == [S \in SUBSET (1 .. 0) |-> base]
  <2>1. \A S \in SUBSET (1 .. 0) : S = {}
    OBVIOUS
  <2>2. Fits(0, it)
    BY <2>1
  <2> QED BY <2>2
<1>2. ASSUME NEW m \in Nat, Found(m), m + 1 <= n PROVE Found(m + 1)
  <2>1. PICK it : Fits(m, it)
    <3> HIDE DEF Fits
    <3> QED BY <1>2
  <2> DEFINE on == [S \in SUBSET (1 .. m + 1) |->
                      IF m + 1 \in S THEN G[<<m + 1, it[S \ {m + 1}]>>] ELSE it[S]]
  <2>2. \A S \in SUBSET (1 .. m + 1) : S \ {m + 1} \in SUBSET (1 .. m)
    OBVIOUS
  <2>3. ASSUME NEW S \in SUBSET (1 .. m + 1), m + 1 \notin S
        PROVE  S \in SUBSET (1 .. m) /\ on[S] = it[S]
    <3>1. S = S \ {m + 1}
      BY <2>3
    <3> QED BY <2>2, <2>3, <3>1
  <2>4. ASSUME NEW S \in SUBSET (1 .. m + 1), m + 1 \in S
        PROVE  on[S] = G[<<m + 1, it[S \ {m + 1}]>>] /\ on[S] \in V
    <3>1. it[S \ {m + 1}] \in V /\ m + 1 \in 1 .. n
      BY <1>2, <2>1, <2>2
    <3>2. <<m + 1, it[S \ {m + 1}]>> \in (1 .. n) \X V
      BY <3>1
    <3> QED BY <2>4, <3>2
  <2>5. \A S \in SUBSET (1 .. m + 1) : on[S] \in V
    BY <2>1, <2>3, <2>4
  <2>6. on \in [SUBSET (1 .. m + 1) -> V]
    BY <2>5
  <2>7. on[{}] = base
    BY <2>1, <2>3
  <2>8. ASSUME NEW S \in SUBSET (1 .. m + 1), S # {}
        PROVE  on[S] = G[<<Max(S), on[S \ {Max(S)}]>>]
    <3>1. CASE m + 1 \in S
      <4>1. Max(S) = m + 1
        BY <3>1, Greatest
      <4>2. S \ {m + 1} \in SUBSET (1 .. m + 1) /\ m + 1 \notin S \ {m + 1}
        OBVIOUS
      <4>3. on[S \ {m + 1}] = it[S \ {m + 1}]
        BY <2>3, <4>2
      <4> QED BY <2>4, <3>1, <4>1, <4>3
    <3>2. CASE m + 1 \notin S
      <4>1. S \in SUBSET (1 .. m) /\ on[S] = it[S]
        BY <2>3, <3>2
      <4>2. S \ {Max(S)} \in SUBSET (1 .. m + 1) /\ m + 1 \notin S \ {Max(S)}
        BY <3>2
      <4>3. on[S \ {Max(S)}] = it[S \ {Max(S)}]
        BY <2>3, <4>2
      <4> QED BY <2>1, <2>8, <4>1, <4>3
    <3> QED BY <3>1, <3>2
  <2> HIDE DEF on
  <2>9. Fits(m + 1, on)
    BY <2>6, <2>7, <2>8
  <2> QED BY <2>9
<1>3. Found(n)
  <2>1. ASSUME NEW m \in Nat, m \in N PROVE m + 1 \in N
    <3>1. m + 1 <= n \/ Found(m + 1)
      <4> HIDE DEF Fits
      <4> QED OBVIOUS
    <3> HIDE DEF Found
    <3> QED BY <1>2, <2>1, <3>1
  <2> HIDE DEF Found
  <2>2. 0 \in N
    BY <1>1
  <2>3. Nat \subseteq N
    <3> HIDE DEF N
    <3> QED BY <2>1, <2>2, AllNumbers
  <2> QED BY <2>3
<1>4. PICK it : Fits(n, it)
  <2> HIDE DEF Fits
  <2> QED BY <1>3
<1> QED BY <1>4 DEF IsFold

\* What such a function makes of the numbers up to k, one after the other.
LEMMA Chain ==
  ASSUME NEW n \in Nat, NEW V, NEW base \in V, NEW G \in [(1 .. n) \X V -> V], NEW f, Folds(n, V, base, G, f)
  PROVE  \E h : EndIn(n, V, base, G, h, f[1 .. n])
<1>0. /\ f[{}] = base
      /\ \A S \in SUBSET (1 .. n) : S # {} /\ f[S \ {Max(S)}] \in V => f[S] = G[<<Max(S), f[S \ {Max(S)}]>>]
  BY DEF Folds
<1>1. ASSUME NEW k \in 1 .. n, f[1 .. k - 1] \in V
      PROVE  f[1 .. k] = G[<<k, f[1 .. k - 1]>>] /\ f[1 .. k] \in V
  <2>1. k \in Nat /\ 1 .. k \in SUBSET (1 .. k) /\ k \in 1 .. k
    OBVIOUS
  <2>2. Max(1 .. k) = k
    BY <2>1, Greatest
  <2>3. (1 .. k) \ {k} = 1 .. k - 1 /\ 1 .. k # {} /\ 1 .. k \in SUBSET (1 .. n)
    BY <2>1
  <2>4. f[1 .. k] = G[<<k, f[1 .. k - 1]>>]
    BY <1>0, <1>1, <2>2, <2>3
  <2>5. <<k, f[1 .. k - 1]>> \in (1 .. n) \X V
    BY <1>1
  <2> QED BY <2>4, <2>5
<1> DEFINE N == {m \in Nat : m <= n => f[1 .. m] \in V}
<1>2. 0 \in N
  <2>1. f[1 .. 0] = base
    <3>1. 1 .. 0 = {}
      OBVIOUS
    <3> QED BY <1>0, <3>1
  <2> QED BY <2>1
<1>3. ASSUME NEW m \in Nat, m \in N PROVE m + 1 \in N
  <2>1. ASSUME m + 1 <= n PROVE f[1 .. m + 1] \in V
    <3>1. m + 1 \in 1 .. n /\ (m + 1) - 1 = m
      BY <2>1
    <3>2. f[1 .. (m + 1) - 1] \in V
      BY <1>3, <2>1, <3>1
    <3> QED BY <1>1, <3>1, <3>2
  <2> QED BY <2>1
<1>4. Nat \subseteq N
  <2> HIDE DEF N
  <2> QED BY <1>2, <1>3, AllNumbers
<1> DEFINE h == [m \in 0 .. n |-> f[1 .. m]]
<1>5. h \in [0 .. n -> V]
  BY <1>4
<1>6. \A k \in 1 .. n : h[k] = G[<<k, h[k - 1]>>]
  <2> TAKE k \in 1 .. n
  <2>1. k - 1 \in 0 .. n /\ k \in 0 .. n
    OBVIOUS
  <2>2. f[1 .. k - 1] \in V
    BY <1>4, <2>1
  <2> QED BY <1>1, <2>1, <2>2
<1>7. h[0] = base /\ h[n] = f[1 .. n]
  <2>1. 1 .. 0 = {}
    OBVIOUS
  <2> QED BY <1>0, <2>1
<1> HIDE DEF h
<1> QED BY <1>5, <1>6, <1>7 DEF AreSteps, EndIn

\* The same for a recursive function over positions.
LEMMA StepsExist ==
  ASSUME NEW n \in Nat, NEW V, NEW base \in V, NEW G \in [(1 .. n) \X V -> V]
  PROVE  \E h : AreSteps(n, V, base, G, h)
<1>1. PICK it : IsFold(n, V, base, G, it)
  BY FoldExists
<1>2. Folds(n, V, base, G, it)
  BY <1>1 DEF IsFold, Folds
<1>3. PICK h : EndIn(n, V, base, G, h, it[1 .. n])
  BY <1>2, Chain
<1> QED BY <1>3 DEF EndIn

\* A selection from a sequence has the elements that were asked for.
LEMMA SelectedSet ==
  ASSUME NEW T, NEW seq \in Seq(T), NEW S
  PROVE  Selected(seq, S) \in Seq(T) /\ ToSet(Selected(seq, S)) = ToSet(seq) \cap S
<1> DEFINE n == Len(seq)
           Body(F) == [m \in 0 .. n |-> IF m = 0 THEN <<>>
                         ELSE IF seq[m] \in S THEN Append(F[m - 1], seq[m]) ELSE F[m - 1]]
           F == CHOOSE F : F = Body(F)
           G == [p \in (1 .. n) \X Seq(T) |-> IF seq[p[1]] \in S THEN Append(p[2], seq[p[1]]) ELSE p[2]]
<1>1. n \in Nat /\ \A m \in 1 .. n : seq[m] \in T
  OBVIOUS
<1>2. Selected(seq, S) = F[n]
  BY DEF Selected, Filtered
<1>3. F = Body(F)
  <2>1. G \in [(1 .. n) \X Seq(T) -> Seq(T)]
    BY <1>1
  <2>2. <<>> \in Seq(T)
    OBVIOUS
  <2>3. PICK h : AreSteps(n, Seq(T), <<>>, G, h)
    <3> HIDE DEF n, G
    <3> QED BY <1>1, <2>1, <2>2, StepsExist
  <2>7. h \in [0 .. n -> Seq(T)] /\ h[0] = <<>> /\ \A k \in 1 .. n : h[k] = G[<<k, h[k - 1]>>]
    BY <2>3 DEF AreSteps
  <2>4. ASSUME NEW k \in 1 .. n PROVE h[k] = IF seq[k] \in S THEN Append(h[k - 1], seq[k]) ELSE h[k - 1]
    <3>1. k - 1 \in 0 .. n
      BY <1>1
    <3>2. h[k - 1] \in Seq(T)
      BY <2>7, <3>1
    <3>3. <<k, h[k - 1]>> \in (1 .. n) \X Seq(T)
      BY <3>2
    <3> QED BY <2>7, <3>3
  <2>5. ASSUME NEW k \in 0 .. n PROVE h[k] = Body(h)[k]
    <3>1. k = 0 \/ (k # 0 /\ k \in 1 .. n)
      BY <1>1
    <3> HIDE DEF n, G
    <3> QED BY <2>7, <2>4, <3>1
  <2>6. h = Body(h)
    BY <2>7, <2>5
  <2> QED BY <2>6
<1> DEFINE P == {m \in Nat : m <= n => F[m] \in Seq(T) /\ ToSet(F[m]) = {seq[k] : k \in 1 .. m} \cap S}
<1>4. \A m \in 0 .. n : F[m] = IF m = 0 THEN <<>>
                          ELSE IF seq[m] \in S THEN Append(F[m - 1], seq[m]) ELSE F[m - 1]
  BY <1>3
<1> HIDE DEF F, G
<1>5. 0 \in P
  <2>1. F[0] = <<>>
    BY <1>1, <1>4
  <2>2. ToSet(<<>>) = {} /\ <<>> \in Seq(T) /\ 1 .. 0 = {}
    BY DEF ToSet
  <2>3. {seq[k] : k \in 1 .. 0} = {}
    BY <2>2
  <2> QED BY <2>1, <2>2, <2>3
<1>6. ASSUME NEW m \in Nat, m \in P PROVE m + 1 \in P
  <2> SUFFICES ASSUME m + 1 <= n
               PROVE  F[m + 1] \in Seq(T) /\ ToSet(F[m + 1]) = {seq[k] : k \in 1 .. m + 1} \cap S
    OBVIOUS
  <2>1. F[m] \in Seq(T) /\ ToSet(F[m]) = {seq[k] : k \in 1 .. m} \cap S
    BY <1>6
  <2>2. F[m + 1] = IF seq[m + 1] \in S THEN Append(F[m], seq[m + 1]) ELSE F[m]
    <3>1. m + 1 \in 0 .. n /\ m + 1 # 0 /\ (m + 1) - 1 = m
      BY <1>1
    <3> QED BY <1>4, <3>1
  <2>3. {seq[k] : k \in 1 .. m + 1} = {seq[k] : k \in 1 .. m} \cup {seq[m + 1]}
    <3>1. 1 .. m + 1 = (1 .. m) \cup {m + 1}
      OBVIOUS
    <3> QED BY <3>1
  <2>4. \A q \in Seq(T), x \in T : Append(q, x) \in Seq(T) /\ ToSet(Append(q, x)) = ToSet(q) \cup {x}
    BY DEF ToSet
  <2>5. seq[m + 1] \in T
    BY <1>1
  <2> QED BY <2>1, <2>2, <2>3, <2>4, <2>5
<1>7. n \in P
  <2>1. Nat \subseteq P
    <3> HIDE DEF P
    <3> QED BY <1>5, <1>6, AllNumbers
  <2> QED BY <1>1, <2>1
<1>8. ToSet(seq) = {seq[k] : k \in 1 .. n}
  BY DEF ToSet
<1> QED BY <1>1, <1>2, <1>7, <1>8

-----------------------------------------------------------------------------
(* What the solver keeps true                                              *)

\* What the tables hold.
Claimed == Claims \cup {Unknown}
Tables ==
  [values : [Insts -> Claimed], edges : SUBSET (Blocks \X Blocks), executable : SUBSET Blocks,
   bottomList : Seq(Insts), instList : Seq(Insts), blockList : Seq(Blocks),
   calls : [Funcs -> SUBSET Insts], returns : [Funcs -> Claimed \cup {Absent, Void}]]

\* Whatever v stands for, w stands for.
Covers(v, w) == \A x, f : Stands(x, v, f) => Stands(x, w, f)

\* What is known of the operands of an instruction.
Vals(t, i) == [k \in DOMAIN Inst(i).args |-> t.values[Inst(i).args[k]]]
Lacking(vs) == \E k \in DOMAIN vs : vs[k] = Unknown
SubleafOf(i, vs) == IF Len(Inst(i).args) > 1 THEN vs[2] ELSE Unknown

\* The claim that an instruction makes, from what is known of its operands, and
\* when it makes none yet.
Plainly == {"mov", "frame", "undef"}
Silent == {"store", "other", "raise", "trap"}
ValueKinds == Plainly \cup Silent \cup {"copy", "load", "cpuid", "cmp", "select"} \cup Unaries \cup Binaries
Evaluated(i, vs) ==
  LET kind == Inst(i).kind
  IN CASE kind \in Plainly -> Inst(i).val
       [] kind = "copy" -> vs[1]
       [] kind = "load" -> Loaded(vs[1])
       [] kind = "cpuid" -> EvalCpuId(vs[1], SubleafOf(i, vs), Inst(i).idx)
       [] kind \in Unaries -> EvalUnary(kind, vs[1])
       [] kind \in Binaries -> EvalBinary(kind, vs[1], vs[2])
       [] kind = "cmp" -> EvalCmp(vs[1], vs[2], Inst(i).val)
       [] kind = "select" -> EvalSelect(vs[1], vs[2], vs[3])
       [] OTHER -> Overdefined
Waits(i, vs) ==
  LET kind == Inst(i).kind
  IN CASE kind \in Silent -> ~ Inst(i).rets
       [] kind = "cpuid" -> vs[1] = Unknown \/ (vs[1] = IntOf(StateLeaf) /\ SubleafOf(i, vs) = Unknown)
       [] kind \in Unaries \cup Binaries \cup {"cmp", "select"} -> Lacking(vs)
       [] OTHER -> FALSE

\* The targets that a jump marks.
CondTaken(i, v) ==
  IF v = Undefined
    THEN <<Inst(i).to[2]>>
    ELSE (IF IsTrue(v) THEN <<>> ELSE <<Inst(i).to[2]>>) \o (IF IsFalse(v) THEN <<>> ELSE <<Inst(i).to[1]>>)
SwitchTaken(i, v) ==
  LET n == IF Is(v, "int") THEN Index(v) ELSE 0
  IN CASE v = Undefined -> <<Head(Inst(i).to)>>
       [] Is(v, "int")  -> IF n < Len(Inst(i).to) THEN <<Inst(i).to[n + 1]>> ELSE <<>>
       [] OTHER         -> Inst(i).to
Taken(i, vs) ==
  CASE Inst(i).kind = "jump" -> Inst(i).to
    [] Inst(i).kind = "jcc" -> CondTaken(i, vs[1])
    [] Inst(i).kind = "switch" -> SwitchTaken(i, vs[1])

\* What has come of a visit: the instruction is settled, for as long as its
\* operands stay what they are.
Edge(i, b) == <<BlockOf(i), b>>
\* A function is entered with the arguments of a call.
IsArg(a, f) == Inst(a).kind = "arg" /\ FuncOf(a) = f
Given(t, i, a) ==
  IF Inst(a).idx + 2 \in DOMAIN Inst(i).args THEN t.values[Inst(i).args[Inst(a).idx + 2]] ELSE Undefined
Entered(t, i, f) ==
  /\ prog.entry[f] \in t.executable
  /\ \A a \in Insts : IsArg(a, f) => Covers(Given(t, i, a), t.values[a])
\* A value that is the address of a function of the program.
IsFunc(v) == Is(v, "global") /\ v.sym \in Funcs

\* A value is what follows from the operands; a PHI covers what comes in over the
\* edges; a jump has marked its edges; a call has entered its callee; a return is
\* known to the function.
ValueSettled(t, i) == Waits(i, Vals(t, i)) \/ t.values[i] = Evaluated(i, Vals(t, i))
PhiSettled(t, i) ==
  \A k \in DOMAIN Inst(i).args :
    <<Inst(i).to[k], BlockOf(i)>> \in t.edges => Covers(t.values[Inst(i).args[k]], t.values[i])
JumpSettled(t, i) ==
  Lacking(Vals(t, i)) \/ \A b \in ToSet(Taken(i, Vals(t, i))) : Edge(i, b) \in t.edges
CallSettled(t, i) ==
  LET vs == Vals(t, i)
      v == vs[1]
  IN \/ Lacking(vs)
     \/ Is(v, "global") /\ v.sym \notin Funcs \cup Externs
     \/ /\ IsFunc(v) /\ i \in t.calls[v.sym] /\ Entered(t, i, v.sym)
        /\ Inst(i).kind = "invoke" => Edge(i, Inst(i).to[2]) \in t.edges
     \/ /\ ~ IsFunc(v)
        /\ Inst(i).rets => Covers(Overdefined, t.values[i])
        /\ \A b \in ToSet(Inst(i).to) : Edge(i, b) \in t.edges
ReturnSettled(t, i) ==
  LET r == t.returns[FuncOf(i)]
  IN /\ r # Absent
     /\ Inst(i).args # <<>> => IsValue(r) /\ Covers(Vals(t, i)[1], r)
Settled(t, i) ==
  LET kind == Inst(i).kind
  IN /\ kind \in ValueKinds => ValueSettled(t, i)
     /\ kind = "phi" => PhiSettled(t, i)
     /\ kind \in {"jump", "jcc", "switch"} => JumpSettled(t, i)
     /\ kind \in {"call", "invoke"} => CallSettled(t, i)
     /\ kind = "ret" => ReturnSettled(t, i)

\* The instructions that are still to be visited, of those that the lists hold.
Queued(t) ==
  ToSet(t.bottomList) \cup ToSet(t.instList) \cup UNION {ToSet(prog.body[b]) : b \in ToSet(t.blockList)}

\* An instruction of executable code.
Live(t, i) == BlockOf(i) \in t.executable

\* Every instruction of executable code that is not waiting to be visited is settled.
Good(t, X) == \A i \in Insts : Live(t, i) /\ i \notin Queued(t) \cup X => Settled(t, i)

\* The tables fit together.
Fit(t) ==
  /\ t \in Tables
  /\ \A a \in Insts : Inst(a).kind = "arg" => ~ Is(t.values[a], "frame")
  /\ \A i \in Queued(t) : Live(t, i)
  /\ \A e \in t.edges : e[2] \in t.executable

\* What a step from t to u may not undo: visits that were made stay made, or are due
\* again, except those of X.
Rising == {"arg", "call", "invoke"}
KeepsBut(t, u, X) ==
  /\ Fit(u)
  /\ t.executable \subseteq u.executable /\ t.edges \subseteq u.edges
  /\ u.calls = t.calls /\ u.returns = t.returns
  /\ Queued(t) \subseteq Queued(u)
  /\ \A i \in Insts : Live(u, i) /\ ~ Live(t, i) => i \in Queued(u)
  /\ \A i \in Insts : Live(t, i) /\ i \notin Queued(u) => Vals(u, i) = Vals(t, i)
  /\ \A i \in Insts : Live(t, i) /\ i \notin Queued(u) \cup X /\ Settled(t, i) => Settled(u, i)
  /\ \A i \in Insts : Inst(i).kind \in Rising => Covers(t.values[i], u.values[i])
Keeps(t, u) == KeepsBut(t, u, {})

\* Programs without tail calls, none of whose symbols is weak; the returns of a
\* function agree on whether they return something.
Plain ==
  /\ Weak = {}
  /\ \A i \in Insts : Inst(i).kind # "tcall"
  /\ \A i, j \in Insts :
       Inst(i).kind = "ret" /\ Inst(j).kind = "ret" /\ FuncOf(i) = FuncOf(j)
         => (Inst(i).args = <<>> <=> Inst(j).args = <<>>)

\* A call site knows that its callee returns, and what.
Told1(t, j, r) ==
  /\ Edge(j, Inst(j).to[1]) \in t.edges
  /\ IsValue(r) /\ Inst(j).rets => Covers(r, t.values[j])
Told(t) ==
  \A f \in Funcs : \A j \in t.calls[f] :
    Inst(j).kind \in {"call", "invoke"} /\ (t.returns[f] # Absent => Told1(t, j, t.returns[f]))

\* Functions that others may call are entered with anything, except for those that
\* the constructor has still to come to.
Open(t, f) ==
  /\ prog.entry[f] \in t.executable
  /\ \A a \in Insts : IsArg(a, f) => Covers(Overdefined, t.values[a])
Opened(t, F) == \A f \in Funcs : IsEntry(f) => f \in F \/ Open(t, f)

\* Only functions that return nothing are known to do so.
Voids(t) == \A i \in Insts : Inst(i).kind = "ret" /\ t.returns[FuncOf(i)] = Void => Inst(i).args = <<>>

\* The tables, while the functions of F are still to be considered and the
\* instructions of X to be visited.
Tabled(t, F, X) == Fit(t) /\ Good(t, X) /\ Told(t) /\ Opened(t, F) /\ Voids(t)

\* The call is known to reach the function.
Reaches(t, i, f) == ~ Lacking(Vals(t, i)) /\ Is(Vals(t, i)[1], "global") /\ Vals(t, i)[1].sym = f

\* The loop that runs.
CallLoop(t, u, i, f, q) ==
  /\ u = [kind |-> "call", inst |-> i, callee |-> f, queue |-> q, visited |-> {}]
  /\ Inst(i).kind \in {"call", "invoke"}
  /\ q \in {<<i>>, <<>>}
  /\ t.returns[f] # Absent
  /\ i \in Queued(t) \/ (Reaches(t, i, f) /\ Entered(t, i, f))
  /\ q = <<>> => Told1(t, i, t.returns[f])
ReturnLoop(t, u, i, q, V) ==
  /\ u = [kind |-> "return", inst |-> i, queue |-> q, visited |-> V]
  /\ Inst(i).kind = "ret"
  /\ \/ q = <<None>> /\ V = {}
     \/ q = <<>> /\ (i \in Queued(t) \/ Settled(t, i))
Loop(t, u) ==
  \/ u = Idle
  \/ \E i \in Insts, f \in Funcs : \E q : CallLoop(t, u, i, f, q)
  \/ \E i \in Insts : \E q, V : ReturnLoop(t, u, i, q, V)

\* The instructions that the visit of a block still has to come to, and the one whose
\* loop runs.
Waiting(r, u) == ToSet(r) \cup (IF u = Idle THEN {} ELSE {u.inst})

\* A state of the solver.
State(t, q, r, u) ==
  /\ Tabled(t, ToSet(q), Waiting(r, u)) /\ Loop(t, u)
  /\ r \in Seq(Insts) /\ q \in Seq(Funcs)
  /\ \A i \in Waiting(r, u) : i \in Insts /\ Live(t, i)

\* The invariant of the solver.
SolverInv == WellFormed(prog) /\ (Plain => State(s, todo, rest, up))

-----------------------------------------------------------------------------

\* The parts of a program that is well formed.
LEMMA Formed ==
  ASSUME WellFormed(prog)
  PROVE  /\ \A i \in Insts :
              /\ BlockOf(i) \in Blocks /\ FuncOf(i) \in Funcs
              /\ Inst(i).args \in Seq(Insts) /\ Inst(i).to \in Seq(Blocks) /\ Inst(i).idx \in Nat
              /\ prog.uses[i] \in Seq(Insts)
              /\ \A u \in Insts : u \in ToSet(prog.uses[i]) <=> i \in ToSet(Inst(u).args)
         /\ \A b \in Blocks :
              /\ prog.body[b] \in Seq(Insts)
              /\ \A i : i \in ToSet(prog.body[b]) <=> i \in Insts /\ BlockOf(i) = b
         /\ \A f \in Funcs : prog.entry[f] \in Blocks /\ prog.home[prog.entry[f]] = f
         /\ prog.order \in Seq(Insts) /\ ToSet(prog.order) = Insts
         /\ None \notin Insts /\ None \notin Blocks
BY DEF WellFormed, GoodInst, Insts, Blocks, Funcs, Inst, BlockOf, FuncOf

\* Covering is a preorder.
LEMMA Covering ==
  /\ \A v : Covers(v, v)
  /\ \A v, w, z : Covers(v, w) /\ Covers(w, z) => Covers(v, z)
  /\ \A v : Covers(v, Overdefined)
  /\ \A v : Covers(Unknown, v)
<1>1. \A x, f : ~ Stands(x, Unknown, f)
  BY DEF Stands, Unknown, Overdefined, Pointer, FloatZero, Is, MaybeNull
<1> QED BY <1>1 DEF Covers, Stands

\* The bound of two claims is a claim, and covers both.
LEMMA LUBCovers ==
  ASSUME NEW a \in Claimed, NEW b \in Claimed
  PROVE  /\ LUB(a, b) \in Claimed
         /\ Weak = {} => Covers(a, LUB(a, b)) /\ Covers(b, LUB(a, b))
<1>1. LUB(a, b) \in Claimed
  <2>1. PointerLUB(a, b) \in Claimed /\ Overdefined \in Claimed
    BY Builds DEF PointerLUB, Claimed
  <2>2. IsIntegral(a) => a \in Claims
    BY DEF IsIntegral, Unknown, Claimed
  <2>3. IsIntegral(b) => b \in Claims
    BY DEF IsIntegral, Unknown, Claimed
  <2>4. IsIntegral(a) /\ IsIntegral(b) =>
          CreateMask(Agreed(a, b), Agreed(a, b) \cap ValueBits(a)) \in Claims
    BY <2>2, <2>3, Builds, Integral DEF Agreed
  <2> QED BY <2>1, <2>4 DEF LUB, Claimed
<1>2. ASSUME Weak = {} PROVE Covers(a, LUB(a, b)) /\ Covers(b, LUB(a, b))
  <2>1. ~ MaybeNull(b)
    BY <1>2 DEF MaybeNull
  <2> QED BY <2>1, LUBSound DEF Covers, Claimed
<1> QED BY <1>1, <1>2

\* Sets of the elements of sequences.
LEMMA SetsOf ==
  ASSUME NEW T, NEW q \in Seq(T)
  PROVE  /\ ToSet(q) \subseteq T
         /\ \A r \in Seq(T) : q \o r \in Seq(T) /\ ToSet(q \o r) = ToSet(q) \cup ToSet(r)
         /\ \A x \in T : Append(q, x) \in Seq(T) /\ ToSet(Append(q, x)) = ToSet(q) \cup {x}
         /\ q # <<>> => Head(q) \in T /\ Tail(q) \in Seq(T) /\ ToSet(q) = {Head(q)} \cup ToSet(Tail(q))
         /\ q # <<>> <=> ToSet(q) # {}
<1>0. \A r \in Seq(T) : Len(r) \in Nat /\ DOMAIN r = 1 .. Len(r) /\ \A k \in 1 .. Len(r) : r[k] \in T
  OBVIOUS
<1>a. \A r, x : r \in Seq(T) => (x \in ToSet(r) <=> \E k \in 1 .. Len(r) : x = r[k])
  BY <1>0 DEF ToSet
<1>1. ToSet(q) \subseteq T
  BY <1>0, <1>a
<1>2. ASSUME NEW r \in Seq(T) PROVE q \o r \in Seq(T) /\ ToSet(q \o r) = ToSet(q) \cup ToSet(r)
  <2>1. q \o r \in Seq(T) /\ Len(q \o r) = Len(q) + Len(r)
    OBVIOUS
  <2>2. \A k \in 1 .. Len(q) : k \in 1 .. Len(q \o r) /\ (q \o r)[k] = q[k]
    BY <1>0, <2>1
  <2>3. \A k \in 1 .. Len(r) : Len(q) + k \in 1 .. Len(q \o r) /\ (q \o r)[Len(q) + k] = r[k]
    BY <1>0, <2>1
  <2>4. \A k \in 1 .. Len(q \o r) : k \in 1 .. Len(q) \/ (k - Len(q) \in 1 .. Len(r) /\ Len(q) + (k - Len(q)) = k)
    BY <1>0, <2>1
  <2>5. ASSUME NEW x \in ToSet(q \o r) PROVE x \in ToSet(q) \cup ToSet(r)
    <3>1. PICK k \in 1 .. Len(q \o r) : x = (q \o r)[k]
      BY <1>a, <2>1, <2>5
    <3>2. CASE k \in 1 .. Len(q)
      BY <1>a, <2>2, <3>1, <3>2
    <3>3. CASE k - Len(q) \in 1 .. Len(r) /\ Len(q) + (k - Len(q)) = k
      <4>1. x = r[k - Len(q)]
        BY <2>3, <3>1, <3>3
      <4> QED BY <1>a, <3>3, <4>1
    <3>4. k \in 1 .. Len(q) \/ (k - Len(q) \in 1 .. Len(r) /\ Len(q) + (k - Len(q)) = k)
      BY <2>4, <3>1
    <3> QED BY <3>2, <3>3, <3>4
  <2>6. ASSUME NEW x \in ToSet(q) PROVE x \in ToSet(q \o r)
    <3>1. PICK k \in 1 .. Len(q) : x = q[k]
      BY <1>a, <2>6
    <3>2. x = (q \o r)[k] /\ k \in 1 .. Len(q \o r)
      BY <2>2, <3>1
    <3> QED BY <1>a, <2>1, <3>2
  <2>7. ASSUME NEW x \in ToSet(r) PROVE x \in ToSet(q \o r)
    <3>1. PICK k \in 1 .. Len(r) : x = r[k]
      BY <1>a, <2>7
    <3>2. x = (q \o r)[Len(q) + k] /\ Len(q) + k \in 1 .. Len(q \o r)
      BY <2>3, <3>1
    <3> QED BY <1>a, <2>1, <3>2
  <2> QED BY <2>1, <2>5, <2>6, <2>7
<1>3. ASSUME NEW x \in T PROVE Append(q, x) \in Seq(T) /\ ToSet(Append(q, x)) = ToSet(q) \cup {x}
  <2>1. Append(q, x) \in Seq(T) /\ Len(Append(q, x)) = Len(q) + 1
    OBVIOUS
  <2>2. \A k \in 1 .. Len(q) : Append(q, x)[k] = q[k]
    OBVIOUS
  <2>3. Append(q, x)[Len(q) + 1] = x
    OBVIOUS
  <2>4. \A k : k \in 1 .. Len(q) + 1 <=> k \in 1 .. Len(q) \/ k = Len(q) + 1
    BY <1>0
  <2>5. \A y : y \in ToSet(Append(q, x)) <=> \E k \in 1 .. Len(q) + 1 : y = Append(q, x)[k]
    BY <1>a, <2>1
  <2>6. ASSUME NEW y PROVE y \in ToSet(Append(q, x)) <=> y \in ToSet(q) \/ y = x
    <3>1. y \in ToSet(q) <=> \E k \in 1 .. Len(q) : y = q[k]
      BY <1>a
    <3>2. (\E k \in 1 .. Len(q) + 1 : y = Append(q, x)[k]) <=> (\E k \in 1 .. Len(q) : y = Append(q, x)[k]) \/ y = x
      BY <2>3, <2>4
    <3> QED BY <2>2, <2>5, <3>1, <3>2
  <2>7. ToSet(Append(q, x)) = ToSet(q) \cup {x}
    BY <2>6
  <2> QED BY <2>1, <2>7
<1>4. ASSUME q # <<>>
      PROVE  Head(q) \in T /\ Tail(q) \in Seq(T) /\ ToSet(q) = {Head(q)} \cup ToSet(Tail(q))
  <2>1. /\ Head(q) = q[1] /\ Len(q) \in Nat /\ 1 \in 1 .. Len(q)
        /\ Tail(q) \in Seq(T) /\ Len(Tail(q)) = Len(q) - 1
    BY <1>4
  <2>2. \A k \in 1 .. Len(q) - 1 : k + 1 \in 1 .. Len(q) /\ Tail(q)[k] = q[k + 1]
    BY <1>4, <2>1
  <2>3. \A k \in 1 .. Len(q) : k = 1 \/ (k - 1 \in 1 .. Len(q) - 1 /\ (k - 1) + 1 = k)
    BY <2>1
  <2>4. \A k \in 1 .. Len(q) : k = 1 \/ (k - 1 \in 1 .. Len(q) - 1 /\ Tail(q)[k - 1] = q[k])
    BY <2>2, <2>3
  <2>5. \A x : x \in ToSet(Tail(q)) <=> \E k \in 1 .. Len(q) - 1 : x = Tail(q)[k]
    <3>1. Tail(q) \in Seq(T)
      BY <2>1
    <3> DEFINE r == Tail(q)
    <3>3. r \in Seq(T)
      BY <3>1
    <3>4. \A x : x \in ToSet(r) <=> \E k \in 1 .. Len(r) : x = r[k]
      <4> HIDE DEF r
      <4> QED BY <1>a, <3>3
    <3>2. Len(Tail(q)) = Len(q) - 1
      BY <2>1
    <3> QED BY <3>2, <3>4
  <2>6. \A x \in ToSet(q) : x = q[1] \/ x \in ToSet(Tail(q))
    BY <1>a, <2>4, <2>5
  <2>7. \A x \in ToSet(Tail(q)) : x \in ToSet(q)
    BY <1>a, <2>2, <2>5
  <2>8. q[1] \in ToSet(q)
    BY <1>a, <2>1
  <2>9. Head(q) \in T
    BY <1>0, <2>1
  <2>10. ToSet(q) = {q[1]} \cup ToSet(Tail(q))
    BY <2>6, <2>7, <2>8
  <2> QED BY <2>1, <2>9, <2>10
<1>5. q # <<>> <=> ToSet(q) # {}
  <2>1. q # <<>> <=> Len(q) # 0
    OBVIOUS
  <2>2. Len(q) # 0 <=> 1 \in 1 .. Len(q)
    BY <1>0
  <2>3. Len(q) = 0 => ToSet(q) = {}
    <3>1. \A k : k \notin 1 .. 0
      OBVIOUS
    <3>2. ASSUME Len(q) = 0, NEW x \in ToSet(q) PROVE FALSE
      <4>1. \E k \in 1 .. Len(q) : x = q[k]
        BY <1>0, <3>2 DEF ToSet
      <4> QED BY <3>1, <3>2, <4>1
    <3> QED BY <3>2
  <2> QED BY <1>a, <2>1, <2>2, <2>3
<1> QED BY <1>1, <1>2, <1>3, <1>4, <1>5

-----------------------------------------------------------------------------
(* Marking                                                                 *)

\* What marking an instruction does.
LEMMA Marked ==
  ASSUME WellFormed(prog), NEW t \in Tables, NEW i \in Insts, NEW v \in Claimed
  PROVE  /\ Mark(t, i, v) \in Tables
         /\ Mark(t, i, v).values = [t.values EXCEPT ![i] = v]
         /\ Mark(t, i, v).edges = t.edges /\ Mark(t, i, v).executable = t.executable
         /\ Mark(t, i, v).calls = t.calls /\ Mark(t, i, v).returns = t.returns
         /\ Queued(t) \subseteq Queued(Mark(t, i, v))
         /\ \A j \in Queued(Mark(t, i, v)) : j \in Queued(t) \/ Live(t, j)
         /\ t.values[i] # v =>
              \A j \in Insts : Live(t, j) /\ i \in ToSet(Inst(j).args) => j \in Queued(Mark(t, i, v))
<1> DEFINE S == {u \in ToSet(prog.uses[i]) : BlockOf(u) \in t.executable}
           users == Selected(prog.uses[i], S)
           u == Mark(t, i, v)
<1>1. prog.uses[i] \in Seq(Insts)
  BY Formed
<1>2. users \in Seq(Insts) /\ ToSet(users) = S
  <2>1. S \subseteq ToSet(prog.uses[i])
    OBVIOUS
  <2> HIDE DEF S
  <2>2. users \in Seq(Insts) /\ ToSet(users) = ToSet(prog.uses[i]) \cap S
    BY <1>1, SelectedSet
  <2> QED BY <2>1, <2>2
<1>3. \A j \in ToSet(users) : Live(t, j)
  BY <1>2 DEF Live
<1>4. \A j \in Insts : Live(t, j) /\ i \in ToSet(Inst(j).args) => j \in ToSet(users)
  <2>1. \A j \in Insts : j \in ToSet(prog.uses[i]) <=> i \in ToSet(Inst(j).args)
    BY Formed
  <2> QED BY <1>2, <2>1 DEF Live
<1>5. u = IF t.values[i] = v
            THEN t
            ELSE IF v = Overdefined
                   THEN [t EXCEPT !.values[i] = v, !.bottomList = @ \o users]
                   ELSE [t EXCEPT !.values[i] = v, !.instList = @ \o users]
  BY DEF Mark
<1> HIDE DEF users, S
<1>6. t.values \in [Insts -> Claimed] /\ t.bottomList \in Seq(Insts) /\ t.instList \in Seq(Insts)
  BY DEF Tables
<1>7. \A q \in Seq(Insts) : q \o users \in Seq(Insts) /\ ToSet(q \o users) = ToSet(q) \cup ToSet(users)
  BY <1>2, SetsOf
<1>8. CASE t.values[i] = v
  <2>1. u = t
    BY <1>5, <1>8
  <2>2. [t.values EXCEPT ![i] = v] = t.values
    BY <1>6, <1>8
  <2> QED BY <1>8, <2>1, <2>2
<1>9. CASE t.values[i] # v /\ v = Overdefined
  <2>1. u = [t EXCEPT !.values[i] = v, !.bottomList = @ \o users]
    BY <1>5, <1>9
  <2>2. t.bottomList \o users \in Seq(Insts)
    BY <1>6, <1>7
  <2>3. /\ u \in Tables /\ u.values = [t.values EXCEPT ![i] = v]
        /\ u.bottomList = t.bottomList \o users /\ u.instList = t.instList /\ u.blockList = t.blockList
        /\ u.edges = t.edges /\ u.executable = t.executable /\ u.calls = t.calls /\ u.returns = t.returns
    <3> HIDE DEF u
    <3>1. [t.values EXCEPT ![i] = v] \in [Insts -> Claimed]
      BY <1>6
    <3> QED BY <2>1, <2>2, <3>1 DEF Tables
  <2>4. Queued(u) = Queued(t) \cup ToSet(users)
    BY <1>6, <1>7, <2>3 DEF Queued
  <2> HIDE DEF u
  <2>5. Queued(t) \subseteq Queued(u) /\ \A j \in Queued(u) : j \in Queued(t) \/ Live(t, j)
    BY <1>3, <2>4
  <2>6. \A j \in Insts : Live(t, j) /\ i \in ToSet(Inst(j).args) => j \in Queued(u)
    BY <1>4, <2>4
  <2> QED BY <2>3, <2>5, <2>6 DEF u
<1>10. CASE t.values[i] # v /\ v # Overdefined
  <2>1. u = [t EXCEPT !.values[i] = v, !.instList = @ \o users]
    BY <1>5, <1>10
  <2>2. t.instList \o users \in Seq(Insts)
    BY <1>6, <1>7
  <2>3. /\ u \in Tables /\ u.values = [t.values EXCEPT ![i] = v]
        /\ u.instList = t.instList \o users /\ u.bottomList = t.bottomList /\ u.blockList = t.blockList
        /\ u.edges = t.edges /\ u.executable = t.executable /\ u.calls = t.calls /\ u.returns = t.returns
    <3> HIDE DEF u
    <3>1. [t.values EXCEPT ![i] = v] \in [Insts -> Claimed]
      BY <1>6
    <3> QED BY <2>1, <2>2, <3>1 DEF Tables
  <2>4. Queued(u) = Queued(t) \cup ToSet(users)
    BY <1>6, <1>7, <2>3 DEF Queued
  <2> HIDE DEF u
  <2>5. Queued(t) \subseteq Queued(u) /\ \A j \in Queued(u) : j \in Queued(t) \/ Live(t, j)
    BY <1>3, <2>4
  <2>6. \A j \in Insts : Live(t, j) /\ i \in ToSet(Inst(j).args) => j \in Queued(u)
    BY <1>4, <2>4
  <2> QED BY <2>3, <2>5, <2>6 DEF u
<1> QED BY <1>8, <1>9, <1>10

\* A visit that was made stays made as long as the operands of the instruction do
\* not change, its own value only grows, and no edge to it is new.
LEMMA StaysSettled ==
  ASSUME NEW t \in Tables, NEW u \in Tables, NEW i \in Insts, Settled(t, i), Vals(u, i) = Vals(t, i),
         t.edges \subseteq u.edges, t.executable \subseteq u.executable,
         \A f \in Funcs : t.calls[f] \subseteq u.calls[f],
         u.returns = t.returns,
         \A a \in Insts : Inst(a).kind = "arg" => Covers(t.values[a], u.values[a]),
         u.values[i] = t.values[i] \/ (Inst(i).kind \in Rising /\ Covers(t.values[i], u.values[i])),
         Inst(i).kind = "phi" => \A e \in u.edges : e[2] = BlockOf(i) => e \in t.edges
  PROVE  Settled(u, i)
<1>1. CASE Inst(i).kind \in ValueKinds
  <2>1. Inst(i).kind \notin {"phi", "jump", "jcc", "switch", "call", "invoke", "ret", "arg"}
    BY <1>1 DEF ValueKinds, Plainly, Silent, Unaries, Binaries
  <2>2. ValueSettled(t, i)
    BY <1>1 DEF Settled
  <2>3. u.values[i] = t.values[i]
    BY <2>1 DEF Rising
  <2> QED BY <2>1, <2>2, <2>3 DEF Settled, ValueSettled
<1>2. CASE Inst(i).kind = "phi"
  <2>1. PhiSettled(t, i) /\ u.values[i] = t.values[i]
    BY <1>2 DEF Settled, Rising
  <2>2. \A k \in DOMAIN Inst(i).args : t.values[Inst(i).args[k]] = Vals(t, i)[k]
    BY DEF Vals
  <2>3. \A k \in DOMAIN Inst(i).args : u.values[Inst(i).args[k]] = Vals(u, i)[k]
    BY DEF Vals
  <2>4. ASSUME NEW k \in DOMAIN Inst(i).args, <<Inst(i).to[k], BlockOf(i)>> \in u.edges
        PROVE  Covers(u.values[Inst(i).args[k]], u.values[i])
    <3>1. <<Inst(i).to[k], BlockOf(i)>> \in t.edges
      BY <1>2, <2>4
    <3>2. u.values[Inst(i).args[k]] = t.values[Inst(i).args[k]]
      BY <2>2, <2>3
    <3> QED BY <2>1, <3>1, <3>2 DEF PhiSettled
  <2> QED BY <1>2, <2>4 DEF Settled, PhiSettled, ValueKinds, Plainly, Silent, Unaries, Binaries
<1>3. CASE Inst(i).kind \in {"jump", "jcc", "switch"}
  <2>1. JumpSettled(t, i)
    BY <1>3 DEF Settled
  <2>2. JumpSettled(u, i)
    BY <2>1 DEF JumpSettled
  <2> QED BY <1>3, <2>2 DEF Settled, ValueKinds, Plainly, Silent, Unaries, Binaries
<1>4. CASE Inst(i).kind \in {"call", "invoke"}
  <2>1. CallSettled(t, i)
    BY <1>4 DEF Settled
  <2>2. Covers(t.values[i], u.values[i])
    BY Covering
  <2>3. \A a \in Insts : Given(u, i, a) = Given(t, i, a)
    <3>1. \A k \in DOMAIN Inst(i).args : t.values[Inst(i).args[k]] = u.values[Inst(i).args[k]]
      <4>1. \A k \in DOMAIN Inst(i).args : Vals(t, i)[k] = Vals(u, i)[k]
        OBVIOUS
      <4> QED BY <4>1 DEF Vals
    <3> QED BY <3>1 DEF Given
  <2>4. ASSUME NEW f \in Funcs, Entered(t, i, f) PROVE Entered(u, i, f)
    <3>1. ASSUME NEW a \in Insts, IsArg(a, f) PROVE Covers(Given(u, i, a), u.values[a])
      <4>1. Covers(Given(t, i, a), t.values[a]) /\ Covers(t.values[a], u.values[a])
        BY <2>4, <3>1 DEF Entered, IsArg
      <4> QED BY <2>3, <4>1, Covering
    <3> QED BY <2>4, <3>1 DEF Entered
  <2>5. \A v : IsFunc(v) => v.sym \in Funcs
    BY DEF IsFunc
  <2>6. CallSettled(u, i)
    <3>1. CASE Lacking(Vals(t, i)) \/ (Is(Vals(t, i)[1], "global") /\ Vals(t, i)[1].sym \notin Funcs \cup Externs)
      BY <3>1 DEF CallSettled
    <3>2. CASE IsFunc(Vals(t, i)[1]) /\ i \in t.calls[Vals(t, i)[1].sym] /\ Entered(t, i, Vals(t, i)[1].sym)
               /\ (Inst(i).kind = "invoke" => Edge(i, Inst(i).to[2]) \in t.edges)
      BY <2>4, <2>5, <3>2 DEF CallSettled
    <3>3. CASE /\ ~ IsFunc(Vals(t, i)[1])
               /\ Inst(i).rets => Covers(Overdefined, t.values[i])
               /\ \A b \in ToSet(Inst(i).to) : Edge(i, b) \in t.edges
      <4>1. Inst(i).rets => Covers(Overdefined, u.values[i])
        BY <2>2, <3>3, Covering
      <4> QED BY <3>3, <4>1 DEF CallSettled
    <3> QED BY <2>1, <3>1, <3>2, <3>3 DEF CallSettled
  <2> QED BY <1>4, <2>6 DEF Settled, ValueKinds, Plainly, Silent, Unaries, Binaries
<1>5. CASE Inst(i).kind = "ret"
  <2>1. ReturnSettled(u, i)
    BY <1>5 DEF Settled, ReturnSettled
  <2> QED BY <1>5, <2>1 DEF Settled, ValueKinds, Plainly, Silent, Unaries, Binaries
<1>6. CASE Inst(i).kind \notin ValueKinds \cup {"phi", "jump", "jcc", "switch", "call", "invoke", "ret"}
  BY <1>6 DEF Settled
<1> QED BY <1>1, <1>2, <1>3, <1>4, <1>5, <1>6

\* What marking an instruction keeps: all but the visit of a value itself.
LEMMA MarkKeeps ==
  ASSUME WellFormed(prog), NEW t, Fit(t), NEW i \in Insts, NEW v \in Claimed,
         Inst(i).kind = "arg" => ~ Is(v, "frame"),
         Inst(i).kind \in Rising => Covers(t.values[i], v)
  PROVE  /\ KeepsBut(t, Mark(t, i, v), {i})
         /\ Inst(i).kind \in Rising => Keeps(t, Mark(t, i, v))
         /\ Mark(t, i, v).values[i] = v
         /\ Live(t, i) => \/ i \in Queued(Mark(t, i, v))
                          \/ Vals(Mark(t, i, v), i) = Vals(t, i)
<1> DEFINE u == Mark(t, i, v)
<1>1. t \in Tables
  BY DEF Fit
<1>2. /\ u \in Tables
      /\ u.values = [t.values EXCEPT ![i] = v]
      /\ u.edges = t.edges /\ u.executable = t.executable /\ u.calls = t.calls /\ u.returns = t.returns
      /\ Queued(t) \subseteq Queued(u)
      /\ \A j \in Queued(u) : j \in Queued(t) \/ Live(t, j)
      /\ t.values[i] # v => \A j \in Insts : Live(t, j) /\ i \in ToSet(Inst(j).args) => j \in Queued(u)
  BY <1>1, Marked
<1> HIDE DEF u
<1>3. t.values \in [Insts -> Claimed]
  BY <1>1 DEF Tables
<1>4. u.values[i] = v /\ \A j \in Insts : j # i => u.values[j] = t.values[j]
  BY <1>2, <1>3
<1>5. \A j : Live(u, j) <=> Live(t, j)
  BY <1>2 DEF Live
<1>6. ASSUME NEW j \in Insts, Live(t, j), j \notin Queued(u) PROVE Vals(u, j) = Vals(t, j)
  <2>1. Inst(j).args \in Seq(Insts)
    BY Formed
  <2>2. t.values[i] # v => \A k \in DOMAIN Inst(j).args : Inst(j).args[k] # i
    BY <1>2, <1>6 DEF ToSet
  <2>3. \A k \in DOMAIN Inst(j).args : Inst(j).args[k] \in Insts
    BY <2>1
  <2>4. \A k \in DOMAIN Inst(j).args : u.values[Inst(j).args[k]] = t.values[Inst(j).args[k]]
    BY <1>4, <2>2, <2>3
  <2> QED BY <2>4 DEF Vals
<1>7. \A j \in Insts : Inst(j).kind \in Rising => Covers(t.values[j], u.values[j])
  BY <1>4, Covering
<1>8. ASSUME NEW j \in Insts, Live(t, j), j \notin Queued(u), j # i \/ Inst(i).kind \in Rising, Settled(t, j)
      PROVE  Settled(u, j)
  <2>1. Vals(u, j) = Vals(t, j)
    BY <1>6, <1>8
  <2>2. u.values[j] = t.values[j] \/ (Inst(j).kind \in Rising /\ Covers(t.values[j], u.values[j]))
    BY <1>4, <1>7, <1>8
  <2>3. \A a \in Insts : Inst(a).kind = "arg" => Covers(t.values[a], u.values[a])
    BY <1>7 DEF Rising
  <2> QED BY <1>1, <1>2, <1>8, <2>1, <2>2, <2>3, StaysSettled
<1>9. Fit(u)
  <2>1. \A a \in Insts : Inst(a).kind = "arg" => ~ Is(u.values[a], "frame")
    BY <1>4 DEF Fit
  <2>2. \A j \in Queued(u) : Live(u, j)
    BY <1>2, <1>5 DEF Fit
  <2> QED BY <1>2, <2>1, <2>2 DEF Fit
<1>10. KeepsBut(t, u, {i})
  BY <1>2, <1>5, <1>6, <1>7, <1>8, <1>9 DEF KeepsBut
<1>11. Inst(i).kind \in Rising => Keeps(t, u)
  BY <1>2, <1>5, <1>6, <1>7, <1>8, <1>9 DEF KeepsBut, Keeps
<1> QED BY <1>4, <1>6, <1>10, <1>11 DEF u

\* What is kept by two steps.
LEMMA KeepsBoth ==
  ASSUME NEW t, NEW u, NEW w, NEW X, NEW Y, KeepsBut(t, u, X), KeepsBut(u, w, Y)
  PROVE  KeepsBut(t, w, X \cup Y)
<1>1. \A i : Live(t, i) => Live(u, i)
  BY DEF KeepsBut, Live
<1>2. \A i : Live(u, i) => Live(w, i)
  BY DEF KeepsBut, Live
<1>3. /\ Fit(w)
      /\ t.executable \subseteq w.executable /\ t.edges \subseteq w.edges
      /\ w.calls = t.calls /\ w.returns = t.returns
      /\ Queued(t) \subseteq Queued(u) /\ Queued(u) \subseteq Queued(w)
  BY DEF KeepsBut
<1>4. \A i \in Insts : Live(w, i) /\ ~ Live(t, i) => i \in Queued(w)
  BY <1>3 DEF KeepsBut
<1>5. \A i \in Insts : Live(t, i) /\ i \notin Queued(w) => Vals(w, i) = Vals(t, i)
  BY <1>1, <1>3 DEF KeepsBut
<1>6. \A i \in Insts : Live(t, i) /\ i \notin Queued(w) \cup X \cup Y /\ Settled(t, i) => Settled(w, i)
  BY <1>1, <1>3 DEF KeepsBut
<1>7. \A i \in Insts : Inst(i).kind \in Rising => Covers(t.values[i], w.values[i])
  BY Covering DEF KeepsBut
<1> QED BY <1>3, <1>4, <1>5, <1>6, <1>7 DEF KeepsBut

\* A step that does nothing keeps everything; visits that are settled or due again
\* are kept.
LEMMA KeepsSame ==
  /\ \A t : Fit(t) => Keeps(t, t)
  /\ \A t, u, X, Y : KeepsBut(t, u, X) /\ X \subseteq Y => KeepsBut(t, u, Y)
  /\ \A t, u, X, Y :
       /\ KeepsBut(t, u, X)
       /\ \A i \in X \cap Insts : Live(t, i) => i \in Y \/ i \in Queued(u) \/ Settled(u, i)
       => KeepsBut(t, u, Y)
<1>1. \A t : Fit(t) => Keeps(t, t)
  BY Covering DEF KeepsBut, Keeps
<1>2. ASSUME NEW t, NEW u, NEW X, NEW Y, KeepsBut(t, u, X),
             \A i \in X \cap Insts : Live(t, i) => i \in Y \/ i \in Queued(u) \/ Settled(u, i)
      PROVE  KeepsBut(t, u, Y)
  BY <1>2 DEF KeepsBut
<1>3. \A t, u, X, Y : KeepsBut(t, u, X) /\ X \subseteq Y => KeepsBut(t, u, Y)
  BY DEF KeepsBut
<1> QED BY <1>1, <1>2, <1>3

\* Marking a block.
LEMMA BlockMarked ==
  ASSUME WellFormed(prog), NEW t, Fit(t), NEW b \in Blocks
  PROVE  /\ Keeps(t, MarkBlock(t, b)) /\ b \in MarkBlock(t, b).executable
         /\ b \notin t.executable => \A i \in Insts : BlockOf(i) = b => i \in Queued(MarkBlock(t, b))
         /\ MarkBlock(t, b).values = t.values /\ MarkBlock(t, b).edges = t.edges
<1> DEFINE u == MarkBlock(t, b)
<1>1. t \in Tables
  BY DEF Fit
<1>2. CASE b \in t.executable
  <2>1. u = t
    BY <1>2 DEF MarkBlock
  <2> QED BY <1>2, <2>1, KeepsSame
<1>3. CASE b \notin t.executable
  <2>1. u = [t EXCEPT !.executable = @ \cup {b}, !.blockList = Append(@, b)]
    BY <1>3 DEF MarkBlock
  <2> HIDE DEF u
  <2>2. t.blockList \in Seq(Blocks)
    BY <1>1 DEF Tables
  <2>3. Append(t.blockList, b) \in Seq(Blocks) /\ ToSet(Append(t.blockList, b)) = ToSet(t.blockList) \cup {b}
    BY <2>2, SetsOf
  <2>4. /\ u \in Tables
        /\ u.values = t.values /\ u.edges = t.edges /\ u.calls = t.calls /\ u.returns = t.returns
        /\ u.bottomList = t.bottomList /\ u.instList = t.instList
        /\ u.executable = t.executable \cup {b} /\ u.blockList = Append(t.blockList, b)
    BY <1>1, <2>1, <2>3 DEF Tables
  <2>5. Queued(u) = Queued(t) \cup ToSet(prog.body[b])
    BY <2>3, <2>4 DEF Queued
  <2>6. \A i : i \in ToSet(prog.body[b]) <=> i \in Insts /\ BlockOf(i) = b
    BY Formed
  <2>7. \A i : Live(u, i) <=> Live(t, i) \/ BlockOf(i) = b
    BY <2>4 DEF Live
  <2>8. \A i : Vals(u, i) = Vals(t, i)
    BY <2>4 DEF Vals
  <2>9. Fit(u)
    BY <2>4, <2>5, <2>6, <2>7 DEF Fit
  <2>10. \A i \in Insts : Settled(t, i) => Settled(u, i)
    BY <1>1, <2>4, <2>8, Covering, StaysSettled
  <2>11. Keeps(t, u)
    BY <2>4, <2>5, <2>6, <2>7, <2>8, <2>9, <2>10, Covering DEF Keeps, KeepsBut
  <2> QED BY <2>4, <2>5, <2>6, <2>11 DEF u
<1> QED BY <1>2, <1>3

-----------------------------------------------------------------------------
(* The solver's folds                                                      *)

\* Whatever the steps of a fold keep true, Z, is true of its result.
Stays(n, V, G, Z) == \A k \in 1 .. n, t \in V : <<k - 1, t>> \in Z => <<k, G[<<k, t>>]>> \in Z

\* So a fold ends with what its steps keep true.
LEMMA Folding ==
  ASSUME NEW n \in Nat, NEW V, NEW base \in V, NEW G \in [(1 .. n) \X V -> V], NEW f, Folds(n, V, base, G, f),
         NEW Z, <<0, base>> \in Z, Stays(n, V, G, Z)
  PROVE  f[1 .. n] \in V /\ <<n, f[1 .. n]>> \in Z
<1>0. \A k \in 1 .. n, t \in V : <<k - 1, t>> \in Z => <<k, G[<<k, t>>]>> \in Z
  BY DEF Stays
<1>1. PICK h : EndIn(n, V, base, G, h, f[1 .. n])
  BY Chain
<1>7. h[n] = f[1 .. n]
  BY <1>1 DEF EndIn
<1>2. h \in [0 .. n -> V] /\ h[0] = base /\ \A k \in 1 .. n : h[k] = G[<<k, h[k - 1]>>]
  BY <1>1 DEF AreSteps, EndIn
<1> DEFINE N == {m \in Nat : m <= n => <<m, h[m]>> \in Z}
<1>3. 0 \in N
  BY <1>2
<1>4. ASSUME NEW m \in Nat, m \in N PROVE m + 1 \in N
  <2>1. ASSUME m + 1 <= n PROVE <<m + 1, h[m + 1]>> \in Z
    <3>1. m + 1 \in 1 .. n /\ (m + 1) - 1 = m /\ m \in 0 .. n /\ m <= n
      BY <2>1
    <3>2. h[m] \in V /\ h[m + 1] = G[<<m + 1, h[m]>>] /\ <<(m + 1) - 1, h[m]>> \in Z
      BY <1>2, <1>4, <3>1
    <3> QED BY <1>0, <3>1, <3>2
  <2> QED BY <2>1
<1>5. Nat \subseteq N
  <2> HIDE DEF N
  <2> QED BY <1>3, <1>4, AllNumbers
<1>6. <<n, h[n]>> \in Z /\ h[n] \in V
  BY <1>2, <1>5
<1> QED BY <1>6, <1>7

\* What comes in over the edges covers what comes in over each of them.
LEMMA ComesIn ==
  ASSUME WellFormed(prog), NEW t \in Tables, NEW i \in Insts
  PROVE  /\ Incoming(t, i) \in Claimed
         /\ Weak = {} =>
              \A k \in DOMAIN Inst(i).args :
                <<Inst(i).to[k], BlockOf(i)>> \in t.edges => Covers(t.values[Inst(i).args[k]], Incoming(t, i))
<1> DEFINE A == Inst(i).args
           n == Len(A)
           seq == [k \in DOMAIN A |-> k]
           op(v, k) == IF <<Inst(i).to[k], BlockOf(i)>> \in t.edges THEN LUB(v, t.values[A[k]]) ELSE v
           Body(g) == [S \in SUBSET DOMAIN seq |-> IF S = {} THEN Unknown
                                                   ELSE op(g[S \ {Max(S)}], seq[Max(S)])]
           f == CHOOSE g : g = Body(g)
           G == [p \in (1 .. n) \X Claimed |-> op(p[2], seq[p[1]])]
           Covered(k, v) == \A j \in 1 .. k : <<Inst(i).to[j], BlockOf(i)>> \in t.edges => Covers(t.values[A[j]], v)
           Z == {p \in (0 .. n) \X Claimed : Weak = {} => Covered(p[1], p[2])}
<1>1. A \in Seq(Insts) /\ n \in Nat /\ DOMAIN A = 1 .. n /\ DOMAIN seq = 1 .. n /\ \A k \in 1 .. n : seq[k] = k
  BY Formed
<1>2. t.values \in [Insts -> Claimed] /\ \A k \in 1 .. n : t.values[A[k]] \in Claimed
  BY <1>1 DEF Tables
<1>3. Incoming(t, i) = f[1 .. n]
  <2>1. Incoming(t, i) = f[DOMAIN seq]
    BY DEF Incoming, FoldLeft, MapThenFoldSet
  <2> HIDE DEF f
  <2> QED BY <1>1, <2>1
<1>4. \A k \in 1 .. n, v \in Claimed : op(v, seq[k]) = op(v, k) /\ op(v, k) \in Claimed
  BY <1>1, <1>2, LUBCovers
<1>5. Unknown \in Claimed
  BY DEF Claimed
<1>6. G \in [(1 .. n) \X Claimed -> Claimed]
  BY <1>4
<1>7. f = Body(f)
  <2>1. PICK g : IsFold(n, Claimed, Unknown, G, g)
    <3> HIDE DEF G, n
    <3> QED BY <1>1, <1>5, <1>6, FoldExists
  <2>2. g \in [SUBSET (1 .. n) -> Claimed] /\ g[{}] = Unknown
          /\ \A S \in SUBSET (1 .. n) : S # {} => g[S] = G[<<Max(S), g[S \ {Max(S)}]>>]
    BY <2>1 DEF IsFold
  <2>3. ASSUME NEW S \in SUBSET (1 .. n) PROVE g[S] = Body(g)[S]
    <3>1. S # {} => Max(S) \in 1 .. n
      BY <1>1, Maximal
    <3>2. S # {} => g[S \ {Max(S)}] \in Claimed
      BY <2>2
    <3> QED BY <1>1, <2>2, <3>1, <3>2
  <2>4. g = Body(g)
    BY <1>1, <2>2, <2>3
  <2> QED BY <2>4
<1>8. f[{}] = Unknown /\ \A S \in SUBSET (1 .. n) : S # {} => f[S] = op(f[S \ {Max(S)}], seq[Max(S)])
  BY <1>1, <1>7
<1> HIDE DEF f
<1>9. Folds(n, Claimed, Unknown, G, f)
  <2> SUFFICES ASSUME NEW S \in SUBSET (1 .. n), S # {}, f[S \ {Max(S)}] \in Claimed
               PROVE  f[S] = G[<<Max(S), f[S \ {Max(S)}]>>]
    BY <1>8 DEF Folds
  <2>1. Max(S) \in 1 .. n
    BY <1>1, Maximal
  <2> QED BY <1>8, <2>1
<1>10. <<0, Unknown>> \in Z
  BY <1>1, <1>5
<1>11. ASSUME NEW k \in 1 .. n, NEW v \in Claimed, <<k - 1, v>> \in Z PROVE <<k, G[<<k, v>>]>> \in Z
  <2>1. G[<<k, v>>] = op(v, k) /\ op(v, k) \in Claimed
    BY <1>1, <1>4
  <2>2. ASSUME Weak = {}, NEW j \in 1 .. k, <<Inst(i).to[j], BlockOf(i)>> \in t.edges
        PROVE  Covers(t.values[A[j]], op(v, k))
    <3>1. Covers(v, op(v, k))
      BY <1>2, <2>2, Covering, LUBCovers
    <3>2. CASE j = k
      BY <1>2, <2>2, <3>2, LUBCovers
    <3>3. CASE j # k
      <4>1. j \in 1 .. k - 1
        BY <3>3
      <4>2. Covers(t.values[A[j]], v)
        BY <1>11, <2>2, <4>1
      <4> QED BY <3>1, <4>2, Covering
    <3> QED BY <3>2, <3>3
  <2>3. k \in 0 .. n
    OBVIOUS
  <2>4. Weak = {} => Covered(k, G[<<k, v>>])
    BY <2>1, <2>2
  <2>5. <<k, G[<<k, v>>]>> \in (0 .. n) \X Claimed
    <3>1. G[<<k, v>>] \in Claimed
      BY <2>1
    <3> HIDE DEF G, op
    <3> QED BY <2>3, <3>1
  <2> QED BY <2>4, <2>5
<1>12. f[1 .. n] \in Claimed /\ <<n, f[1 .. n]>> \in Z
  <2>1. Stays(n, Claimed, G, Z)
    <3> HIDE DEF G, Z, n
    <3> QED BY <1>11 DEF Stays
  <2> HIDE DEF G, Z, n
  <2> QED BY <1>1, <1>5, <1>6, <1>9, <1>10, <2>1, Folding
<1>13. Weak = {} => Covered(n, f[1 .. n])
  BY <1>12
<1> QED BY <1>1, <1>3, <1>12, <1>13

\* After a visit a PHI is settled, or due again.
LEMMA PhiVisited ==
  ASSUME WellFormed(prog), Weak = {}, NEW t, Fit(t), NEW i \in Insts, Inst(i).kind = "phi"
  PROVE  /\ KeepsBut(t, VisitPhiInst(t, i), {i})
         /\ Live(t, i) => i \in Queued(VisitPhiInst(t, i)) \/ Settled(VisitPhiInst(t, i), i)
<1>1. t \in Tables /\ t.values \in [Insts -> Claimed]
  BY DEF Fit, Tables
<1>2. \A u : PhiSettled(u, i) => Settled(u, i)
  BY DEF Settled, ValueKinds, Plainly, Silent, Unaries, Binaries
<1>3. CASE t.values[i] = Overdefined
  <2>1. VisitPhiInst(t, i) = t
    BY <1>3 DEF VisitPhiInst
  <2>2. PhiSettled(t, i)
    BY <1>3, Covering DEF PhiSettled
  <2>3. KeepsBut(t, t, {i})
    BY KeepsSame DEF Keeps
  <2> QED BY <1>2, <2>1, <2>2, <2>3
<1>4. CASE t.values[i] # Overdefined
  <2> DEFINE v == Incoming(t, i)
             u == Mark(t, i, v)
  <2>1. VisitPhiInst(t, i) = u
    BY <1>4 DEF VisitPhiInst
  <2>2. v \in Claimed
    BY <1>1, ComesIn
  <2>3. \A k \in DOMAIN Inst(i).args : <<Inst(i).to[k], BlockOf(i)>> \in t.edges => Covers(t.values[Inst(i).args[k]], v)
    BY <1>1, ComesIn
  <2> HIDE DEF v
  <2>4. /\ KeepsBut(t, u, {i}) /\ u.values[i] = v
        /\ Live(t, i) => i \in Queued(u) \/ Vals(u, i) = Vals(t, i)
    BY <2>2, MarkKeeps DEF Rising
  <2>5. u.edges = t.edges
    BY <1>1, <2>2, Marked
  <2> HIDE DEF u
  <2>6. ASSUME Vals(u, i) = Vals(t, i) PROVE PhiSettled(u, i)
    <3>1. \A k \in DOMAIN Inst(i).args : u.values[Inst(i).args[k]] = t.values[Inst(i).args[k]]
      <4>1. \A k \in DOMAIN Inst(i).args : Vals(u, i)[k] = Vals(t, i)[k]
        BY <2>6
      <4> QED BY <4>1 DEF Vals
    <3> QED BY <2>3, <2>4, <2>5, <3>1 DEF PhiSettled
  <2> QED BY <1>2, <2>1, <2>4, <2>6
<1> QED BY <1>3, <1>4

\* The PHIs of a block.
LEMMA PhisOf ==
  ASSUME WellFormed(prog), NEW b \in Blocks
  PROVE  /\ Phis(b) \in Seq(Insts)
         /\ \A i : i \in ToSet(Phis(b)) <=> i \in Insts /\ Inst(i).kind = "phi" /\ BlockOf(i) = b
<1> DEFINE S == {i \in Insts : Inst(i).kind = "phi"}
<1>1. prog.body[b] \in Seq(Insts) /\ \A i : i \in ToSet(prog.body[b]) <=> i \in Insts /\ BlockOf(i) = b
  BY Formed
<1>2. Phis(b) = Selected(prog.body[b], S)
  BY DEF Phis
<1>3. Phis(b) \in Seq(Insts) /\ ToSet(Phis(b)) = ToSet(prog.body[b]) \cap S
  <2> HIDE DEF S
  <2> QED BY <1>1, <1>2, SelectedSet
<1> QED BY <1>1, <1>3

\* A new edge to a block that is executed: its PHIs are visited.
LEMMA PhisVisited ==
  ASSUME WellFormed(prog), Weak = {}, NEW u0, Fit(u0), NEW b \in Blocks, b \in u0.executable
  PROVE  /\ KeepsBut(u0, FoldLeft(VisitPhiInst, u0, Phis(b)), ToSet(Phis(b)))
         /\ \A i \in ToSet(Phis(b)) : \/ i \in Queued(FoldLeft(VisitPhiInst, u0, Phis(b)))
                                      \/ Settled(FoldLeft(VisitPhiInst, u0, Phis(b)), i)
<1> DEFINE seq == Phis(b)
           n == Len(seq)
           base == u0
           V == {t \in Tables : Fit(t)}
           op(t, i) == VisitPhiInst(t, i)
           Body(g) == [S \in SUBSET DOMAIN seq |-> IF S = {} THEN base
                                                   ELSE op(g[S \ {Max(S)}], seq[Max(S)])]
           f == CHOOSE g : g = Body(g)
           G == [p \in (1 .. n) \X V |-> op(p[2], seq[p[1]])]
           After_(k, t) == /\ KeepsBut(base, t, ToSet(seq))
                           /\ \A j \in 1 .. k : seq[j] \in Queued(t) \/ Settled(t, seq[j])
           Z == {p \in (0 .. n) \X V : After_(p[1], p[2])}
<1>0. seq \in Seq(Insts) /\ \A i : i \in ToSet(seq) <=> i \in Insts /\ Inst(i).kind = "phi" /\ BlockOf(i) = b
  BY PhisOf
<1>1. n \in Nat /\ DOMAIN seq = 1 .. n /\ ToSet(seq) = {seq[k] : k \in 1 .. n}
  BY <1>0 DEF ToSet
<1>4. \A k \in 1 .. n : seq[k] \in Insts /\ Inst(seq[k]).kind = "phi" /\ BlockOf(seq[k]) = b
  BY <1>0, <1>1
<1>2. base \in V
  BY DEF Fit
<1> HIDE DEF seq
<1>5. ASSUME NEW k \in 1 .. n, NEW t \in V
      PROVE  /\ KeepsBut(t, op(t, seq[k]), {seq[k]})
             /\ Live(t, seq[k]) => seq[k] \in Queued(op(t, seq[k])) \/ Settled(op(t, seq[k]), seq[k])
  BY <1>4, PhiVisited
<1>3. \A k \in 1 .. n, t \in V : op(t, seq[k]) \in V
  BY <1>5 DEF KeepsBut, Fit
<1>f1. FoldLeft(VisitPhiInst, u0, Phis(b)) = f[1 .. n]
  <2>1. FoldLeft(VisitPhiInst, u0, Phis(b)) = f[DOMAIN seq]
    BY DEF seq, FoldLeft, MapThenFoldSet
  <2> HIDE DEF f
  <2> QED BY <1>1, <2>1
<1>f2. G \in [(1 .. n) \X V -> V]
  BY <1>3
<1>f3. f = Body(f)
  <2>1. PICK g : IsFold(n, V, base, G, g)
    <3> HIDE DEF G, n, V, base
    <3> QED BY <1>1, <1>2, <1>f2, FoldExists
  <2>2. g \in [SUBSET (1 .. n) -> V] /\ g[{}] = base
          /\ \A S \in SUBSET (1 .. n) : S # {} => g[S] = G[<<Max(S), g[S \ {Max(S)}]>>]
    BY <2>1 DEF IsFold
  <2>3. ASSUME NEW S \in SUBSET (1 .. n) PROVE g[S] = Body(g)[S]
    <3>1. S # {} => Max(S) \in 1 .. n
      BY <1>1, Maximal
    <3>2. S # {} => g[S \ {Max(S)}] \in V
      BY <2>2
    <3>3. S # {} => g[S] = op(g[S \ {Max(S)}], seq[Max(S)])
      <4> HIDE DEF op, V, seq, base
      <4> QED BY <2>2, <3>1, <3>2
    <3> HIDE DEF op, V, seq, base, G
    <3> QED BY <1>1, <2>2, <3>3
  <2>4. g = Body(g)
    <3> HIDE DEF op, V, seq, base, G
    <3> QED BY <1>1, <2>2, <2>3
  <2> QED BY <2>4
<1>f4. Folds(n, V, base, G, f)
  <2>1. f[{}] = base /\ \A S \in SUBSET (1 .. n) : S # {} => f[S] = op(f[S \ {Max(S)}], seq[Max(S)])
    <3> HIDE DEF op, V, seq, base, G
    <3> QED BY <1>1, <1>f3
  <2> HIDE DEF f
  <2> SUFFICES ASSUME NEW S \in SUBSET (1 .. n), S # {}, f[S \ {Max(S)}] \in V
               PROVE  f[S] = G[<<Max(S), f[S \ {Max(S)}]>>]
    BY <2>1 DEF Folds
  <2>2. Max(S) \in 1 .. n
    BY <1>1, Maximal
  <2> HIDE DEF op, V, seq, base
  <2> QED BY <2>1, <2>2
<1> HIDE DEF f
<1>z1. <<0, base>> \in Z
  <2>1. KeepsBut(base, base, ToSet(seq))
    BY <1>2, KeepsSame DEF Keeps
  <2> QED BY <1>1, <1>2, <2>1
<1>z2. ASSUME NEW k \in 1 .. n, NEW t \in V, <<k - 1, t>> \in Z PROVE <<k, op(t, seq[k])>> \in Z
  <2> DEFINE w == op(t, seq[k])
  <2>1. After_(k - 1, t)
    BY <1>z2
  <2>2. KeepsBut(t, w, {seq[k]}) /\ (Live(t, seq[k]) => seq[k] \in Queued(w) \/ Settled(w, seq[k]))
    BY <1>5
  <2>3. \A j \in 1 .. n : Live(t, seq[j])
    BY <1>4, <2>1 DEF KeepsBut, Live
  <2>4. w \in V
    BY <1>3
  <2> HIDE DEF w
  <2>5. KeepsBut(base, w, ToSet(seq) \cup {seq[k]})
    BY <2>1, <2>2, KeepsBoth
  <2>6. ToSet(seq) \cup {seq[k]} = ToSet(seq)
    BY <1>1
  <2>7. ASSUME NEW j \in 1 .. k PROVE seq[j] \in Queued(w) \/ Settled(w, seq[j])
    <3>1. j \in 1 .. n /\ (j # k => j \in 1 .. k - 1)
      BY <1>1
    <3>2. CASE seq[j] = seq[k]
      BY <2>2, <2>3, <3>2
    <3>3. CASE seq[j] # seq[k]
      <4>1. seq[j] \in Queued(t) \/ Settled(t, seq[j])
        BY <2>1, <3>1, <3>3
      <4>2. seq[j] \in Insts /\ Live(t, seq[j])
        BY <1>4, <2>3, <3>1
      <4> QED BY <2>2, <3>3, <4>1, <4>2 DEF KeepsBut
    <3> QED BY <3>2, <3>3
  <2>8. After_(k, w) /\ k \in 0 .. n
    <3>1. k \in 0 .. n
      BY <1>1
    <3>2. KeepsBut(base, w, ToSet(seq))
      BY <2>5, <2>6
    <3> QED BY <2>7, <3>1, <3>2
  <2>9. <<k, w>> \in Z
    BY <2>4, <2>8
  <2> QED BY <2>9 DEF w
<1>f5. f[1 .. n] \in V /\ <<n, f[1 .. n]>> \in Z
  <2>1. Stays(n, V, G, Z)
    <3> SUFFICES ASSUME NEW k \in 1 .. n, NEW t \in V, <<k - 1, t>> \in Z PROVE <<k, G[<<k, t>>]>> \in Z
      BY DEF Stays
    <3>1. G[<<k, t>>] = op(t, seq[k])
      <4> HIDE DEF op, V, seq
      <4> QED OBVIOUS
    <3> HIDE DEF G
    <3> QED BY <1>z2, <3>1
  <2> HIDE DEF G, Z, n, V, base
  <2> QED BY <1>1, <1>2, <1>f2, <1>f4, <1>z1, <2>1, Folding
<1>6. After_(n, f[1 .. n])
  BY <1>f5
<1>7. \A i \in ToSet(seq) : i \in Queued(f[1 .. n]) \/ Settled(f[1 .. n], i)
  BY <1>1, <1>6
<1> QED BY <1>f1, <1>6, <1>7 DEF seq

\* A new edge concerns the PHIs of the block that it enters.
LEMMA EdgeAdded ==
  ASSUME WellFormed(prog), NEW t, Fit(t), NEW i \in Insts, NEW b \in Blocks, b \in t.executable
  PROVE  /\ KeepsBut(t, [t EXCEPT !.edges = @ \cup {Edge(i, b)}], ToSet(Phis(b)))
         /\ Edge(i, b) \in [t EXCEPT !.edges = @ \cup {Edge(i, b)}].edges
<1> DEFINE u == [t EXCEPT !.edges = @ \cup {Edge(i, b)}]
<1>1. t \in Tables
  BY DEF Fit
<1>2. Edge(i, b) \in Blocks \X Blocks /\ Edge(i, b)[2] = b
  BY Formed DEF Edge
<1>3. /\ u \in Tables /\ u.edges = t.edges \cup {Edge(i, b)}
      /\ u.values = t.values /\ u.executable = t.executable /\ u.calls = t.calls /\ u.returns = t.returns
      /\ u.bottomList = t.bottomList /\ u.instList = t.instList /\ u.blockList = t.blockList
  BY <1>1, <1>2 DEF Tables
<1> HIDE DEF u
<1>4. Queued(u) = Queued(t)
  BY <1>3 DEF Queued
<1>5. (\A j : Live(u, j) <=> Live(t, j)) /\ \A j : Vals(u, j) = Vals(t, j)
  BY <1>3 DEF Live, Vals
<1>6. Fit(u)
  BY <1>2, <1>3, <1>4, <1>5 DEF Fit
<1>7. ASSUME NEW j \in Insts, j \notin ToSet(Phis(b)), Settled(t, j) PROVE Settled(u, j)
  <2>1. Inst(j).kind = "phi" => BlockOf(j) # b
    BY <1>7, PhisOf
  <2>2. Inst(j).kind = "phi" => \A e \in u.edges : e[2] = BlockOf(j) => e \in t.edges
    BY <1>2, <1>3, <2>1
  <2>3. \A a \in Insts : Covers(t.values[a], u.values[a])
    BY <1>3, Covering
  <2>4. Vals(u, j) = Vals(t, j)
    BY <1>5
  <2> QED BY <1>1, <1>3, <1>7, <2>2, <2>3, <2>4, StaysSettled
<1>8. KeepsBut(t, u, ToSet(Phis(b)))
  BY <1>3, <1>4, <1>5, <1>6, <1>7, Covering DEF KeepsBut
<1> QED BY <1>3, <1>8 DEF u

\* Marking an edge.
LEMMA EdgeMarked ==
  ASSUME WellFormed(prog), Weak = {}, NEW t, Fit(t), NEW i \in Insts, NEW b \in Blocks
  PROVE  Keeps(t, MarkEdge(t, i, b)) /\ Edge(i, b) \in MarkEdge(t, i, b).edges
<1> DEFINE u == [t EXCEPT !.edges = @ \cup {Edge(i, b)}]
           w == MarkEdge(t, i, b)
<1>1. w = IF Edge(i, b) \in t.edges
            THEN t
            ELSE IF b \in t.executable
                   THEN FoldLeft(VisitPhiInst, u, Phis(b))
                   ELSE MarkBlock(u, b)
  BY DEF MarkEdge, Edge
<1>2. t \in Tables
  BY DEF Fit
<1>3. CASE Edge(i, b) \in t.edges
  BY <1>1, <1>3, KeepsSame
<1>4. CASE Edge(i, b) \notin t.edges /\ b \in t.executable
  <2>1. KeepsBut(t, u, ToSet(Phis(b))) /\ Edge(i, b) \in u.edges
    BY <1>4, EdgeAdded
  <2>2. w = FoldLeft(VisitPhiInst, u, Phis(b))
    BY <1>1, <1>4
  <2> HIDE DEF u, w
  <2>3. Fit(u) /\ b \in u.executable
    BY <1>4, <2>1 DEF KeepsBut
  <2>4. KeepsBut(u, w, ToSet(Phis(b))) /\ \A j \in ToSet(Phis(b)) : j \in Queued(w) \/ Settled(w, j)
    BY <2>2, <2>3, PhisVisited
  <2>5. KeepsBut(t, w, ToSet(Phis(b)) \cup ToSet(Phis(b)))
    BY <2>1, <2>4, KeepsBoth
  <2>6. KeepsBut(t, w, {})
    BY <2>4, <2>5, KeepsSame
  <2>7. Edge(i, b) \in w.edges
    BY <2>1, <2>4 DEF KeepsBut
  <2> QED BY <2>6, <2>7 DEF Keeps, w
<1>5. CASE Edge(i, b) \notin t.edges /\ b \notin t.executable
  <2> DEFINE m == MarkBlock(t, b)
  <2>1. Keeps(t, m) /\ b \in m.executable
    BY BlockMarked
  <2>2. w = [m EXCEPT !.edges = @ \cup {Edge(i, b)}]
    <3>1. m = [t EXCEPT !.executable = @ \cup {b}, !.blockList = Append(@, b)]
      BY <1>5 DEF MarkBlock
    <3>2. u.executable = t.executable
      BY <1>2 DEF Tables
    <3>3. w = [u EXCEPT !.executable = @ \cup {b}, !.blockList = Append(@, b)]
      BY <1>1, <1>5, <3>2 DEF MarkBlock
    <3> HIDE DEF m, w
    <3> QED BY <1>2, <3>1, <3>3 DEF Tables
  <2> HIDE DEF m, w, u
  <2>3. Fit(m)
    BY <2>1 DEF Keeps, KeepsBut
  <2>4. KeepsBut(m, w, ToSet(Phis(b))) /\ Edge(i, b) \in w.edges
    BY <2>1, <2>2, <2>3, EdgeAdded
  <2>5. KeepsBut(t, w, {} \cup ToSet(Phis(b)))
    BY <2>1, <2>4, KeepsBoth DEF Keeps
  <2>6. \A j \in ({} \cup ToSet(Phis(b))) : ~ Live(t, j)
    BY <1>5, PhisOf DEF Live
  <2>7. KeepsBut(t, w, {})
    BY <2>5, <2>6, KeepsSame
  <2> QED BY <2>4, <2>7 DEF Keeps, w
<1> QED BY <1>3, <1>4, <1>5

\* Keeping everything is kept.
LEMMA KeepsOn ==
  /\ \A t, u, w : Keeps(t, u) /\ Keeps(u, w) => Keeps(t, w)
  /\ \A t, u, w, X : KeepsBut(t, u, X) /\ Keeps(u, w) => KeepsBut(t, w, X)
  /\ \A t, u, X : KeepsBut(t, u, X) => Fit(u) /\ t.edges \subseteq u.edges /\ t.executable \subseteq u.executable
<1>1. \A X : X \cup {} = X
  OBVIOUS
<1>2. ASSUME NEW t, NEW u, NEW w, NEW X, KeepsBut(t, u, X), Keeps(u, w) PROVE KeepsBut(t, w, X)
  <2>1. KeepsBut(t, w, X \cup {})
    BY <1>2, KeepsBoth DEF Keeps
  <2> QED BY <1>1, <2>1
<1>3. \A t, u, w : Keeps(t, u) /\ Keeps(u, w) => Keeps(t, w)
  BY <1>2 DEF Keeps
<1>4. \A t, u, X : KeepsBut(t, u, X) => Fit(u) /\ t.edges \subseteq u.edges /\ t.executable \subseteq u.executable
  BY DEF KeepsBut
<1> QED BY <1>2, <1>3, <1>4

\* Marking several edges.
LEMMA EdgesMarked ==
  ASSUME WellFormed(prog), Weak = {}, NEW t0, Fit(t0), NEW i \in Insts, NEW seq \in Seq(Blocks)
  PROVE  Keeps(t0, MarkEdges(t0, i, seq)) /\ \A b \in ToSet(seq) : Edge(i, b) \in MarkEdges(t0, i, seq).edges
<1> DEFINE n == Len(seq)
           base == t0
           V == {t \in Tables : Fit(t)}
           op(t, b) == MarkEdge(t, i, b)
           Body(g) == [S \in SUBSET DOMAIN seq |-> IF S = {} THEN base
                                                   ELSE op(g[S \ {Max(S)}], seq[Max(S)])]
           f == CHOOSE g : g = Body(g)
           G == [p \in (1 .. n) \X V |-> op(p[2], seq[p[1]])]
           After_(k, t) == Keeps(base, t) /\ \A j \in 1 .. k : Edge(i, seq[j]) \in t.edges
           Z == {p \in (0 .. n) \X V : After_(p[1], p[2])}
<1>1. n \in Nat /\ DOMAIN seq = 1 .. n /\ ToSet(seq) = {seq[k] : k \in 1 .. n}
  BY DEF ToSet
<1>2. base \in V
  BY DEF Fit
<1>4. ASSUME NEW k \in 1 .. n, NEW t \in V
      PROVE  Keeps(t, op(t, seq[k])) /\ Edge(i, seq[k]) \in op(t, seq[k]).edges
  <2>1. seq[k] \in Blocks
    OBVIOUS
  <2> QED BY <2>1, EdgeMarked
<1>3. \A k \in 1 .. n, t \in V : op(t, seq[k]) \in V
  BY <1>4, KeepsOn DEF Keeps, Fit
<1>f1. MarkEdges(t0, i, seq) = f[1 .. n]
  <2>1. MarkEdges(t0, i, seq) = f[DOMAIN seq]
    BY DEF MarkEdges, FoldLeft, MapThenFoldSet
  <2> HIDE DEF f
  <2> QED BY <1>1, <2>1
<1>f2. G \in [(1 .. n) \X V -> V]
  BY <1>3
<1>f3. f = Body(f)
  <2>1. PICK g : IsFold(n, V, base, G, g)
    <3> HIDE DEF G, n, V, base
    <3> QED BY <1>1, <1>2, <1>f2, FoldExists
  <2>2. g \in [SUBSET (1 .. n) -> V] /\ g[{}] = base
          /\ \A S \in SUBSET (1 .. n) : S # {} => g[S] = G[<<Max(S), g[S \ {Max(S)}]>>]
    BY <2>1 DEF IsFold
  <2>3. ASSUME NEW S \in SUBSET (1 .. n) PROVE g[S] = Body(g)[S]
    <3>1. S # {} => Max(S) \in 1 .. n
      BY <1>1, Maximal
    <3>2. S # {} => g[S \ {Max(S)}] \in V
      BY <2>2
    <3>3. S # {} => g[S] = op(g[S \ {Max(S)}], seq[Max(S)])
      <4> HIDE DEF op, V, base
      <4> QED BY <2>2, <3>1, <3>2
    <3> HIDE DEF op, V, base, G
    <3> QED BY <1>1, <2>2, <3>3
  <2>4. g = Body(g)
    <3> HIDE DEF op, V, base, G
    <3> QED BY <1>1, <2>2, <2>3
  <2> QED BY <2>4
<1>f4. Folds(n, V, base, G, f)
  <2>1. f[{}] = base /\ \A S \in SUBSET (1 .. n) : S # {} => f[S] = op(f[S \ {Max(S)}], seq[Max(S)])
    <3> HIDE DEF op, V, base, G
    <3> QED BY <1>1, <1>f3
  <2> HIDE DEF f
  <2> SUFFICES ASSUME NEW S \in SUBSET (1 .. n), S # {}, f[S \ {Max(S)}] \in V
               PROVE  f[S] = G[<<Max(S), f[S \ {Max(S)}]>>]
    BY <2>1 DEF Folds
  <2>2. Max(S) \in 1 .. n
    BY <1>1, Maximal
  <2> HIDE DEF op, V, base
  <2> QED BY <2>1, <2>2
<1> HIDE DEF f
<1>z1. <<0, base>> \in Z
  <2>1. Keeps(base, base)
    BY <1>2, KeepsSame
  <2> QED BY <1>1, <1>2, <2>1
<1>z2. ASSUME NEW k \in 1 .. n, NEW t \in V, <<k - 1, t>> \in Z PROVE <<k, op(t, seq[k])>> \in Z
  <2> DEFINE w == op(t, seq[k])
  <2>1. After_(k - 1, t)
    BY <1>z2
  <2>2. Keeps(t, w) /\ Edge(i, seq[k]) \in w.edges /\ w \in V
    BY <1>3, <1>4
  <2> HIDE DEF w, V
  <2>3. Keeps(base, w) /\ t.edges \subseteq w.edges
    BY <2>1, <2>2, KeepsOn DEF Keeps
  <2>4. \A j \in 1 .. k : j = k \/ j \in 1 .. k - 1
    BY <1>1
  <2>5. \A j \in 1 .. k : Edge(i, seq[j]) \in w.edges
    BY <2>1, <2>2, <2>3, <2>4
  <2>6. k \in 0 .. n
    BY <1>1
  <2>7. <<k, w>> \in Z
    BY <2>2, <2>3, <2>5, <2>6
  <2> QED BY <2>7 DEF w
<1>f5. f[1 .. n] \in V /\ <<n, f[1 .. n]>> \in Z
  <2>1. Stays(n, V, G, Z)
    <3> SUFFICES ASSUME NEW k \in 1 .. n, NEW t \in V, <<k - 1, t>> \in Z PROVE <<k, G[<<k, t>>]>> \in Z
      BY DEF Stays
    <3>1. G[<<k, t>>] = op(t, seq[k])
      <4> HIDE DEF op, V
      <4> QED OBVIOUS
    <3> HIDE DEF G
    <3> QED BY <1>z2, <3>1
  <2> HIDE DEF G, Z, n, V, base
  <2> QED BY <1>1, <1>2, <1>f2, <1>f4, <1>z1, <2>1, Folding
<1>5. After_(n, f[1 .. n])
  BY <1>f5
<1>6. \A b \in ToSet(seq) : Edge(i, b) \in f[1 .. n].edges
  BY <1>1, <1>5
<1> QED BY <1>f1, <1>5, <1>6

-----------------------------------------------------------------------------
(* Arguments and answers                                                   *)

\* What marking an instruction as overdefined keeps.
LEMMA OverMarked ==
  ASSUME WellFormed(prog), NEW t, Fit(t), NEW i \in Insts
  PROVE  /\ KeepsBut(t, MarkOverdefined(t, i), {i})
         /\ Inst(i).kind \in Rising => Keeps(t, MarkOverdefined(t, i))
         /\ Inst(i).rets => MarkOverdefined(t, i).values[i] = Overdefined
         /\ ~ Inst(i).rets => MarkOverdefined(t, i) = t
         /\ Live(t, i) => \/ i \in Queued(MarkOverdefined(t, i))
                          \/ Vals(MarkOverdefined(t, i), i) = Vals(t, i)
<1>1. CASE Inst(i).rets
  <2>1. Overdefined \in Claimed /\ ~ Is(Overdefined, "frame")
    BY Builds DEF Claimed, Overdefined, Is
  <2>2. Covers(t.values[i], Overdefined)
    BY Covering
  <2>3. MarkOverdefined(t, i) = Mark(t, i, Overdefined)
    BY <1>1 DEF MarkOverdefined
  <2> QED BY <1>1, <2>1, <2>2, <2>3, MarkKeeps
<1>2. CASE ~ Inst(i).rets
  <2>1. MarkOverdefined(t, i) = t
    BY <1>2 DEF MarkOverdefined
  <2>2. Keeps(t, t) /\ KeepsBut(t, t, {i})
    BY KeepsSame DEF Keeps
  <2> QED BY <1>2, <2>1, <2>2
<1> QED BY <1>1, <1>2

\* The arguments of a function.
LEMMA ArgsAre ==
  ASSUME WellFormed(prog), NEW f
  PROVE  /\ ArgsOf(f) \in Seq(Insts)
         /\ \A a : a \in ToSet(ArgsOf(f)) <=> a \in Insts /\ IsArg(a, f)
         /\ \A a \in Insts : Inst(a).kind = "arg" => Inst(a).rets
<1> DEFINE S == {i \in Insts : Inst(i).kind = "arg" /\ FuncOf(i) = f}
<1>1. prog.order \in Seq(Insts) /\ ToSet(prog.order) = Insts
  BY Formed
<1>2. ArgsOf(f) = Selected(prog.order, S)
  BY DEF ArgsOf, InOrder
<1>3. ArgsOf(f) \in Seq(Insts) /\ ToSet(ArgsOf(f)) = ToSet(prog.order) \cap S
  <2> HIDE DEF S
  <2> QED BY <1>1, <1>2, SelectedSet
<1>4. \A a \in Insts : Inst(a).kind = "arg" => Inst(a).rets
  <2>1. \A a \in Insts : GoodInst(prog, a)
    BY DEF WellFormed, Insts
  <2> QED BY <2>1 DEF GoodInst, Inst, CallSites, Resultless
<1> QED BY <1>1, <1>3, <1>4 DEF IsArg

\* The constructor opens a function to any arguments.
LEMMA Opens ==
  ASSUME WellFormed(prog), Weak = {}, NEW t0, Fit(t0), NEW fn \in Funcs
  PROVE  /\ Keeps(t0, FoldLeft(MarkOverdefined, MarkBlock(t0, prog.entry[fn]), ArgsOf(fn)))
         /\ Open(FoldLeft(MarkOverdefined, MarkBlock(t0, prog.entry[fn]), ArgsOf(fn)), fn)
<1> DEFINE seq == ArgsOf(fn)
           n == Len(seq)
           base == MarkBlock(t0, prog.entry[fn])
           V == {t \in Tables : Fit(t)}
           op(t, a) == MarkOverdefined(t, a)
           Body(g) == [S \in SUBSET DOMAIN seq |-> IF S = {} THEN base
                                                   ELSE op(g[S \ {Max(S)}], seq[Max(S)])]
           f == CHOOSE g : g = Body(g)
           G == [p \in (1 .. n) \X V |-> op(p[2], seq[p[1]])]
           After_(k, t) == Keeps(base, t) /\ \A j \in 1 .. k : Covers(Overdefined, t.values[seq[j]])
           Z == {p \in (0 .. n) \X V : After_(p[1], p[2])}
<1>0. seq \in Seq(Insts) /\ \A a : a \in ToSet(seq) <=> a \in Insts /\ IsArg(a, fn)
  BY ArgsAre
<1>1. n \in Nat /\ DOMAIN seq = 1 .. n /\ ToSet(seq) = {seq[k] : k \in 1 .. n}
  BY <1>0 DEF ToSet
<1>a. Keeps(t0, base) /\ prog.entry[fn] \in base.executable
  <2>1. prog.entry[fn] \in Blocks
    BY Formed
  <2> QED BY <2>1, BlockMarked
<1>2. base \in V
  BY <1>a DEF Keeps, KeepsBut, Fit
<1>5. \A k \in 1 .. n : seq[k] \in Insts /\ Inst(seq[k]).kind = "arg" /\ Inst(seq[k]).rets
  BY <1>0, <1>1, ArgsAre DEF IsArg
<1> HIDE DEF seq, base
<1>4. ASSUME NEW k \in 1 .. n, NEW t \in V
      PROVE  Keeps(t, op(t, seq[k])) /\ op(t, seq[k]).values[seq[k]] = Overdefined
  BY <1>5, OverMarked DEF Rising
<1>3. \A k \in 1 .. n, t \in V : op(t, seq[k]) \in V
  BY <1>4, KeepsOn DEF Keeps, Fit
<1>f1. FoldLeft(MarkOverdefined, MarkBlock(t0, prog.entry[fn]), ArgsOf(fn)) = f[1 .. n]
  <2>1. FoldLeft(MarkOverdefined, MarkBlock(t0, prog.entry[fn]), ArgsOf(fn)) = f[DOMAIN seq]
    BY DEF seq, base, FoldLeft, MapThenFoldSet
  <2> HIDE DEF f
  <2> QED BY <1>1, <2>1
<1>f2. G \in [(1 .. n) \X V -> V]
  BY <1>3
<1>f3. f = Body(f)
  <2>1. PICK g : IsFold(n, V, base, G, g)
    <3> HIDE DEF G, n, V, base
    <3> QED BY <1>1, <1>2, <1>f2, FoldExists
  <2>2. g \in [SUBSET (1 .. n) -> V] /\ g[{}] = base
          /\ \A S \in SUBSET (1 .. n) : S # {} => g[S] = G[<<Max(S), g[S \ {Max(S)}]>>]
    BY <2>1 DEF IsFold
  <2>3. ASSUME NEW S \in SUBSET (1 .. n) PROVE g[S] = Body(g)[S]
    <3>1. S # {} => Max(S) \in 1 .. n
      BY <1>1, Maximal
    <3>2. S # {} => g[S \ {Max(S)}] \in V
      BY <2>2
    <3>3. S # {} => g[S] = op(g[S \ {Max(S)}], seq[Max(S)])
      <4> HIDE DEF op, V, seq, base
      <4> QED BY <2>2, <3>1, <3>2
    <3> HIDE DEF op, V, seq, base, G
    <3> QED BY <1>1, <2>2, <3>3
  <2>4. g = Body(g)
    <3> HIDE DEF op, V, seq, base, G
    <3> QED BY <1>1, <2>2, <2>3
  <2> QED BY <2>4
<1>f4. Folds(n, V, base, G, f)
  <2>1. f[{}] = base /\ \A S \in SUBSET (1 .. n) : S # {} => f[S] = op(f[S \ {Max(S)}], seq[Max(S)])
    <3> HIDE DEF op, V, seq, base, G
    <3> QED BY <1>1, <1>f3
  <2> HIDE DEF f
  <2> SUFFICES ASSUME NEW S \in SUBSET (1 .. n), S # {}, f[S \ {Max(S)}] \in V
               PROVE  f[S] = G[<<Max(S), f[S \ {Max(S)}]>>]
    BY <2>1 DEF Folds
  <2>2. Max(S) \in 1 .. n
    BY <1>1, Maximal
  <2> HIDE DEF op, V, seq, base
  <2> QED BY <2>1, <2>2
<1> HIDE DEF f
<1>z1. <<0, base>> \in Z
  <2>1. Keeps(base, base)
    BY <1>2, KeepsSame
  <2> QED BY <1>1, <1>2, <2>1
<1>z2. ASSUME NEW k \in 1 .. n, NEW t \in V, <<k - 1, t>> \in Z PROVE <<k, op(t, seq[k])>> \in Z
  <2> DEFINE w == op(t, seq[k])
  <2>1. After_(k - 1, t)
    BY <1>z2
  <2>2. Keeps(t, w) /\ w.values[seq[k]] = Overdefined /\ w \in V
    BY <1>3, <1>4
  <2> HIDE DEF w, V
  <2>3. Keeps(base, w)
    BY <2>1, <2>2, KeepsOn
  <2>4. \A j \in 1 .. k : j \in 1 .. n /\ (j = k \/ j \in 1 .. k - 1)
    BY <1>1
  <2>5. ASSUME NEW j \in 1 .. k PROVE Covers(Overdefined, w.values[seq[j]])
    <3>1. CASE j = k
      BY <2>2, <3>1, Covering
    <3>2. CASE j \in 1 .. k - 1
      <4>1. Covers(Overdefined, t.values[seq[j]])
        BY <2>1, <3>2
      <4>2. seq[j] \in Insts /\ Inst(seq[j]).kind \in Rising
        BY <1>5, <2>4 DEF Rising
      <4>3. Covers(t.values[seq[j]], w.values[seq[j]])
        BY <2>2, <4>2 DEF Keeps, KeepsBut
      <4> QED BY <4>1, <4>3, Covering
    <3>3. j = k \/ j \in 1 .. k - 1
      BY <2>4
    <3> QED BY <3>1, <3>2, <3>3
  <2>6. k \in 0 .. n
    BY <1>1
  <2>7. <<k, w>> \in Z
    BY <2>2, <2>3, <2>5, <2>6
  <2> QED BY <2>7 DEF w
<1>f5. f[1 .. n] \in V /\ <<n, f[1 .. n]>> \in Z
  <2>1. Stays(n, V, G, Z)
    <3> SUFFICES ASSUME NEW k \in 1 .. n, NEW t \in V, <<k - 1, t>> \in Z PROVE <<k, G[<<k, t>>]>> \in Z
      BY DEF Stays
    <3>1. G[<<k, t>>] = op(t, seq[k])
      <4> HIDE DEF op, V, seq
      <4> QED OBVIOUS
    <3> HIDE DEF G
    <3> QED BY <1>z2, <3>1
  <2> HIDE DEF G, Z, n, V, base
  <2> QED BY <1>1, <1>2, <1>f2, <1>f4, <1>z1, <2>1, Folding
<1>6. After_(n, f[1 .. n])
  BY <1>f5
<1>7. \A a \in Insts : IsArg(a, fn) => Covers(Overdefined, f[1 .. n].values[a])
  <2>1. ASSUME NEW a \in Insts, IsArg(a, fn) PROVE Covers(Overdefined, f[1 .. n].values[a])
    <3>1. PICK k \in 1 .. n : seq[k] = a
      BY <1>0, <1>1, <2>1
    <3> QED BY <1>6, <3>1
  <2> QED BY <2>1
<1>8. prog.entry[fn] \in f[1 .. n].executable
  BY <1>a, <1>6, KeepsOn DEF Keeps
<1>9. Keeps(t0, f[1 .. n])
  BY <1>a, <1>6, KeepsOn
<1> QED BY <1>f1, <1>7, <1>8, <1>9 DEF Open

\* An argument that a call passes.
LEMMA ArgPassed ==
  ASSUME WellFormed(prog), Weak = {}, NEW t, Fit(t), NEW i \in Insts, NEW a \in Insts, Inst(a).kind = "arg"
  PROVE  Keeps(t, PassArg(t, i, a)) /\ Covers(Given(t, i, a), PassArg(t, i, a).values[a])
<1> DEFINE k == Inst(a).idx + 2
           lub == LUB(t.values[a], Given(t, i, a))
           v == IF Is(lub, "frame") THEN Pointer ELSE lub
           u == Mark(t, a, v)
<1>1. Inst(i).args \in Seq(Insts) /\ Inst(a).idx \in Nat
  BY Formed
<1>2. k <= Len(Inst(i).args) <=> k \in DOMAIN Inst(i).args
  BY <1>1
<1>3. PassArg(t, i, a) = u
  BY <1>2 DEF PassArg, Given
<1>4. t.values \in [Insts -> Claimed] /\ Undefined \in Claimed /\ Pointer \in Claimed
  BY Builds DEF Fit, Tables, Claimed
<1>5. t.values[a] \in Claimed /\ Given(t, i, a) \in Claimed
  BY <1>1, <1>4 DEF Given
<1>6. lub \in Claimed /\ Covers(t.values[a], lub) /\ Covers(Given(t, i, a), lub)
  BY <1>5, LUBCovers
<1> HIDE DEF lub
<1>7. Covers(lub, v)
  <2>1. CASE Is(lub, "frame")
    <3>1. ASSUME NEW x, NEW f, Stands(x, lub, f) PROVE Stands(x, Pointer, f)
      BY <2>1, <3>1 DEF Stands, Is, Overdefined, Unknown, Pointer, FloatZero, MaybeNull, Address, IsAddress
    <3> QED BY <2>1, <3>1 DEF Covers
  <2>2. CASE ~ Is(lub, "frame")
    BY <2>2, Covering
  <2> QED BY <2>1, <2>2
<1>8. v \in Claimed /\ ~ Is(v, "frame")
  BY <1>4, <1>6 DEF Is, Pointer
<1>9. Covers(t.values[a], v) /\ Covers(Given(t, i, a), v)
  BY <1>6, <1>7, Covering
<1> HIDE DEF v
<1>10. Keeps(t, u) /\ u.values[a] = v
  BY <1>8, <1>9, MarkKeeps DEF Rising
<1> QED BY <1>3, <1>9, <1>10

\* A call enters a function, unless the call itself is due again.
LEMMA Enters ==
  ASSUME WellFormed(prog), Weak = {}, NEW t0, Fit(t0), NEW i \in Insts, NEW fn \in Funcs, Live(t0, i)
  PROVE  /\ Keeps(t0, Enter(t0, i, fn))
         /\ i \in Queued(Enter(t0, i, fn)) \/ Entered(Enter(t0, i, fn), i, fn)
<1> DEFINE seq == ArgsOf(fn)
           n == Len(seq)
           base == t0
           V == {t \in Tables : Fit(t)}
           op(t, a) == PassArg(t, i, a)
           Body(g) == [S \in SUBSET DOMAIN seq |-> IF S = {} THEN base
                                                   ELSE op(g[S \ {Max(S)}], seq[Max(S)])]
           f == CHOOSE g : g = Body(g)
           G == [p \in (1 .. n) \X V |-> op(p[2], seq[p[1]])]
           Has(t, a) == i \in Queued(t) \/ Covers(Given(t, i, a), t.values[a])
           After_(k, t) == Keeps(base, t) /\ \A j \in 1 .. k : Has(t, seq[j])
           Z == {p \in (0 .. n) \X V : After_(p[1], p[2])}
<1>0. seq \in Seq(Insts) /\ \A a : a \in ToSet(seq) <=> a \in Insts /\ IsArg(a, fn)
  BY ArgsAre
<1>1. n \in Nat /\ DOMAIN seq = 1 .. n /\ ToSet(seq) = {seq[k] : k \in 1 .. n}
  BY <1>0 DEF ToSet
<1>2. base \in V
  BY DEF Fit
<1>5. \A k \in 1 .. n : seq[k] \in Insts /\ Inst(seq[k]).kind = "arg"
  BY <1>0, <1>1 DEF IsArg
<1> HIDE DEF seq
<1>4. ASSUME NEW k \in 1 .. n, NEW t \in V
      PROVE  Keeps(t, op(t, seq[k])) /\ Covers(Given(t, i, seq[k]), op(t, seq[k]).values[seq[k]])
  BY <1>5, ArgPassed
<1>3. \A k \in 1 .. n, t \in V : op(t, seq[k]) \in V
  BY <1>4, KeepsOn DEF Keeps, Fit
<1>6. ASSUME NEW t, NEW w, Keeps(t, w), Live(t, i), NEW a \in Insts
      PROVE  i \in Queued(w) \/ Given(w, i, a) = Given(t, i, a)
  <2>1. ASSUME i \notin Queued(w) PROVE Given(w, i, a) = Given(t, i, a)
    <3>1. Vals(w, i) = Vals(t, i)
      BY <1>6, <2>1 DEF Keeps, KeepsBut
    <3>2. \A k \in DOMAIN Inst(i).args : w.values[Inst(i).args[k]] = t.values[Inst(i).args[k]]
      <4>1. \A k \in DOMAIN Inst(i).args : Vals(w, i)[k] = Vals(t, i)[k]
        BY <3>1
      <4> QED BY <4>1 DEF Vals
    <3> QED BY <3>2 DEF Given
  <2> QED BY <2>1
<1>f1. FoldLeft(LAMBDA u, a : PassArg(u, i, a), t0, ArgsOf(fn)) = f[1 .. n]
  <2>1. FoldLeft(LAMBDA u, a : PassArg(u, i, a), t0, ArgsOf(fn)) = f[DOMAIN seq]
    BY DEF seq, FoldLeft, MapThenFoldSet
  <2> HIDE DEF f
  <2> QED BY <1>1, <2>1
<1>f2. G \in [(1 .. n) \X V -> V]
  BY <1>3
<1>f3. f = Body(f)
  <2>1. PICK g : IsFold(n, V, base, G, g)
    <3> HIDE DEF G, n, V, base
    <3> QED BY <1>1, <1>2, <1>f2, FoldExists
  <2>2. g \in [SUBSET (1 .. n) -> V] /\ g[{}] = base
          /\ \A S \in SUBSET (1 .. n) : S # {} => g[S] = G[<<Max(S), g[S \ {Max(S)}]>>]
    BY <2>1 DEF IsFold
  <2>3. ASSUME NEW S \in SUBSET (1 .. n) PROVE g[S] = Body(g)[S]
    <3>1. S # {} => Max(S) \in 1 .. n
      BY <1>1, Maximal
    <3>2. S # {} => g[S \ {Max(S)}] \in V
      BY <2>2
    <3>3. S # {} => g[S] = op(g[S \ {Max(S)}], seq[Max(S)])
      <4> HIDE DEF op, V, base, seq
      <4> QED BY <2>2, <3>1, <3>2
    <3> HIDE DEF op, V, base, seq, G
    <3> QED BY <1>1, <2>2, <3>3
  <2>4. g = Body(g)
    <3> HIDE DEF op, V, base, seq, G
    <3> QED BY <1>1, <2>2, <2>3
  <2> QED BY <2>4
<1>f4. Folds(n, V, base, G, f)
  <2>1. f[{}] = base /\ \A S \in SUBSET (1 .. n) : S # {} => f[S] = op(f[S \ {Max(S)}], seq[Max(S)])
    <3> HIDE DEF op, V, base, seq, G
    <3> QED BY <1>1, <1>f3
  <2> HIDE DEF f
  <2> SUFFICES ASSUME NEW S \in SUBSET (1 .. n), S # {}, f[S \ {Max(S)}] \in V
               PROVE  f[S] = G[<<Max(S), f[S \ {Max(S)}]>>]
    BY <2>1 DEF Folds
  <2>2. Max(S) \in 1 .. n
    BY <1>1, Maximal
  <2> HIDE DEF op, V, base, seq
  <2> QED BY <2>1, <2>2
<1> HIDE DEF f
<1>z1. <<0, base>> \in Z
  <2>1. Keeps(base, base)
    BY <1>2, KeepsSame
  <2> QED BY <1>1, <1>2, <2>1
<1>z2. ASSUME NEW k \in 1 .. n, NEW t \in V, <<k - 1, t>> \in Z PROVE <<k, op(t, seq[k])>> \in Z
  <2> DEFINE w == op(t, seq[k])
  <2>1. After_(k - 1, t)
    BY <1>z2
  <2>2. Keeps(t, w) /\ Covers(Given(t, i, seq[k]), w.values[seq[k]]) /\ w \in V
    BY <1>3, <1>4
  <2> HIDE DEF w, V
  <2>3. Keeps(base, w) /\ Queued(t) \subseteq Queued(w)
    BY <2>1, <2>2, KeepsOn DEF Keeps, KeepsBut
  <2>8. Live(t, i)
    BY <2>1 DEF Keeps, KeepsBut, Live
  <2>4. \A j \in 1 .. k : j \in 1 .. n /\ (j = k \/ j \in 1 .. k - 1)
    BY <1>1
  <2>5. ASSUME NEW j \in 1 .. k PROVE Has(w, seq[j])
    <3>0. seq[j] \in Insts /\ Inst(seq[j]).kind \in Rising
      BY <1>5, <2>4 DEF Rising
    <3>1. i \in Queued(w) \/ Given(w, i, seq[j]) = Given(t, i, seq[j])
      BY <1>6, <2>2, <2>8, <3>0
    <3>2. CASE j = k
      BY <2>2, <3>1, <3>2
    <3>3. CASE j \in 1 .. k - 1
      <4>1. Has(t, seq[j])
        BY <2>1, <3>3
      <4>2. Covers(t.values[seq[j]], w.values[seq[j]])
        BY <2>2, <3>0 DEF Keeps, KeepsBut
      <4> QED BY <2>3, <3>1, <4>1, <4>2, Covering
    <3>4. j = k \/ j \in 1 .. k - 1
      BY <2>4
    <3> QED BY <3>2, <3>3, <3>4
  <2>6. k \in 0 .. n
    BY <1>1
  <2>7. <<k, w>> \in Z
    BY <2>2, <2>3, <2>5, <2>6
  <2> QED BY <2>7 DEF w
<1>f5. f[1 .. n] \in V /\ <<n, f[1 .. n]>> \in Z
  <2>1. Stays(n, V, G, Z)
    <3> SUFFICES ASSUME NEW k \in 1 .. n, NEW t \in V, <<k - 1, t>> \in Z PROVE <<k, G[<<k, t>>]>> \in Z
      BY DEF Stays
    <3>1. G[<<k, t>>] = op(t, seq[k])
      <4> HIDE DEF op, V, seq
      <4> QED OBVIOUS
    <3> HIDE DEF G
    <3> QED BY <1>z2, <3>1
  <2> HIDE DEF G, Z, n, V, base
  <2> QED BY <1>1, <1>2, <1>f2, <1>f4, <1>z1, <2>1, Folding
<1>7. After_(n, f[1 .. n])
  BY <1>f5
<1> DEFINE w == MarkBlock(f[1 .. n], prog.entry[fn])
<1>8. Enter(t0, i, fn) = w
  BY <1>f1 DEF Enter
<1>9. Keeps(f[1 .. n], w) /\ prog.entry[fn] \in w.executable /\ w.values = f[1 .. n].values
  <2>1. prog.entry[fn] \in Blocks /\ Fit(f[1 .. n])
    BY <1>f5, Formed
  <2> QED BY <2>1, BlockMarked
<1>10. Keeps(t0, w) /\ Queued(f[1 .. n]) \subseteq Queued(w)
  BY <1>7, <1>9, KeepsOn DEF Keeps, KeepsBut
<1>11. ASSUME i \notin Queued(w) PROVE Entered(w, i, fn)
  <2>1. ASSUME NEW a \in Insts, IsArg(a, fn) PROVE Covers(Given(w, i, a), w.values[a])
    <3>1. PICK k \in 1 .. n : seq[k] = a
      BY <1>0, <1>1, <2>1
    <3>2. Covers(Given(f[1 .. n], i, a), f[1 .. n].values[a])
      BY <1>7, <1>10, <1>11, <3>1
    <3> QED BY <1>9, <3>2 DEF Given
  <2> QED BY <1>9, <2>1 DEF Entered
<1> QED BY <1>8, <1>10, <1>11

\* What a call site was told stays true.
LEMMA StaysTold ==
  ASSUME NEW t, NEW u, Keeps(t, u), NEW j \in Insts, Inst(j).kind \in {"call", "invoke"}, NEW r, Told1(t, j, r)
  PROVE  Told1(u, j, r)
<1>1. Covers(t.values[j], u.values[j]) /\ t.edges \subseteq u.edges
  BY DEF Keeps, KeepsBut, Rising
<1> QED BY <1>1, Covering DEF Told1

\* The first target of a call, where it returns to, and the second one of an invoke.
LEMMA CallTargets ==
  ASSUME WellFormed(prog), NEW j \in Insts, Inst(j).kind \in {"call", "invoke"}
  PROVE  /\ Cont(j) = Inst(j).to[1] /\ Inst(j).to[1] \in Blocks /\ Cont(j) # None
         /\ Inst(j).kind = "invoke" => Inst(j).to[2] \in Blocks
         /\ Inst(j).args # <<>> /\ 1 \in DOMAIN Inst(j).args
<1>1. GoodInst(prog, j)
  BY DEF WellFormed, Insts
<1>2. Inst(j).to \in Seq(Blocks) /\ Len(Inst(j).to) >= 1 /\ (Inst(j).kind = "invoke" => Len(Inst(j).to) = 2)
  <2>1. /\ prog.inst[j].to \in Seq(DOMAIN prog.body)
        /\ prog.inst[j].kind \in {"jump", "call"} => Len(prog.inst[j].to) = 1
        /\ prog.inst[j].kind \in {"jcc", "invoke"} => Len(prog.inst[j].to) = 2
    BY <1>1, Zenon DEF GoodInst
  <2> QED BY <2>1 DEF Inst, Blocks
<1>3. Inst(j).to[1] \in Blocks /\ (Inst(j).kind = "invoke" => Inst(j).to[2] \in Blocks)
  BY <1>2
<1>4. Inst(j).args \in Seq(Insts) /\ Inst(j).args # <<>>
  BY <1>1 DEF GoodInst, Inst, Insts, CallSites
<1> QED BY <1>3, <1>4, Formed DEF Cont

\* A call site is told what its callee returns.
LEMMA Answered ==
  ASSUME WellFormed(prog), Weak = {}, NEW t, Fit(t), NEW j \in Insts, Inst(j).kind \in {"call", "invoke"},
         NEW r \in Claimed \cup {Absent, Void}
  PROVE  Keeps(t, Answer(t, j, r)) /\ Told1(Answer(t, j, r), j, r)
<1> DEFINE v == LUB(t.values[j], r)
           u == IF IsValue(r) /\ Inst(j).rets THEN Mark(t, j, v) ELSE t
           w == MarkEdge(u, j, Cont(j))
<1>1. Answer(t, j, r) = w
  BY DEF Answer
<1>2. Keeps(t, u) /\ (IsValue(r) /\ Inst(j).rets => Covers(r, u.values[j]))
  <2>1. CASE IsValue(r) /\ Inst(j).rets
    <3>1. r \in Claimed /\ t.values[j] \in Claimed
      BY <2>1 DEF IsValue, Absent, Void, Fit, Tables
    <3>2. v \in Claimed /\ Covers(t.values[j], v) /\ Covers(r, v)
      BY <3>1, LUBCovers
    <3>3. Keeps(t, Mark(t, j, v)) /\ Mark(t, j, v).values[j] = v
      <4> HIDE DEF v
      <4> QED BY <3>2, MarkKeeps DEF Rising
    <3> QED BY <2>1, <3>2, <3>3
  <2>2. CASE ~ (IsValue(r) /\ Inst(j).rets)
    BY <2>2, KeepsSame
  <2> QED BY <2>1, <2>2
<1> HIDE DEF u
<1>3. Fit(u) /\ Cont(j) \in Blocks /\ Cont(j) = Inst(j).to[1]
  BY <1>2, CallTargets, KeepsOn DEF Keeps
<1>4. Keeps(u, w) /\ Edge(j, Cont(j)) \in w.edges
  BY <1>3, EdgeMarked
<1> HIDE DEF w
<1>5. Keeps(t, w)
  BY <1>2, <1>4, KeepsOn
<1>6. Covers(u.values[j], w.values[j])
  BY <1>4 DEF Keeps, KeepsBut, Rising
<1> QED BY <1>1, <1>2, <1>3, <1>4, <1>5, <1>6, Covering DEF Told1

\* Every call site of a sequence is told.
LEMMA AllAnswered ==
  ASSUME WellFormed(prog), Weak = {}, NEW t0, Fit(t0), NEW seq \in Seq(Insts),
         \A j \in ToSet(seq) : Inst(j).kind \in {"call", "invoke"},
         NEW r \in Claimed \cup {Absent, Void}
  PROVE  Keeps(t0, TellAll(t0, r, seq)) /\ \A j \in ToSet(seq) : Told1(TellAll(t0, r, seq), j, r)
<1> DEFINE n == Len(seq)
           base == t0
           V == {t \in Tables : Fit(t)}
           op(t, c) == Inform(t, c, r)
           Body(g) == [S \in SUBSET DOMAIN seq |-> IF S = {} THEN base
                                                   ELSE op(g[S \ {Max(S)}], seq[Max(S)])]
           f == CHOOSE g : g = Body(g)
           G == [p \in (1 .. n) \X V |-> op(p[2], seq[p[1]])]
           After_(k, t) == Keeps(base, t) /\ \A j \in 1 .. k : Told1(t, seq[j], r)
           Z == {p \in (0 .. n) \X V : After_(p[1], p[2])}
<1>1. n \in Nat /\ DOMAIN seq = 1 .. n /\ ToSet(seq) = {seq[k] : k \in 1 .. n}
  BY DEF ToSet
<1>2. base \in V
  BY DEF Fit
<1>5. \A k \in 1 .. n : seq[k] \in Insts /\ Inst(seq[k]).kind \in {"call", "invoke"}
  BY <1>1
<1>4. ASSUME NEW k \in 1 .. n, NEW t \in V
      PROVE  Keeps(t, op(t, seq[k])) /\ Told1(op(t, seq[k]), seq[k], r)
  <2>1. Keeps(t, Answer(t, seq[k], r)) /\ Told1(Answer(t, seq[k], r), seq[k], r)
    BY <1>5, Answered
  <2>2. op(t, seq[k]) = Answer(t, seq[k], r)
    BY DEF Inform
  <2> QED BY <2>1, <2>2
<1>3. \A k \in 1 .. n, t \in V : op(t, seq[k]) \in V
  BY <1>4, KeepsOn DEF Keeps, Fit
<1>f1. TellAll(t0, r, seq) = f[1 .. n]
  <2>1. TellAll(t0, r, seq) = f[DOMAIN seq]
    BY DEF TellAll, FoldLeft, MapThenFoldSet
  <2> HIDE DEF f
  <2> QED BY <1>1, <2>1
<1>f2. G \in [(1 .. n) \X V -> V]
  BY <1>3
<1>f3. f = Body(f)
  <2>1. PICK g : IsFold(n, V, base, G, g)
    <3> HIDE DEF G, n, V, base
    <3> QED BY <1>1, <1>2, <1>f2, FoldExists
  <2>2. g \in [SUBSET (1 .. n) -> V] /\ g[{}] = base
          /\ \A S \in SUBSET (1 .. n) : S # {} => g[S] = G[<<Max(S), g[S \ {Max(S)}]>>]
    BY <2>1 DEF IsFold
  <2>3. ASSUME NEW S \in SUBSET (1 .. n) PROVE g[S] = Body(g)[S]
    <3>1. S # {} => Max(S) \in 1 .. n
      BY <1>1, Maximal
    <3>2. S # {} => g[S \ {Max(S)}] \in V
      BY <2>2
    <3>3. S # {} => g[S] = op(g[S \ {Max(S)}], seq[Max(S)])
      <4> HIDE DEF op, V, base
      <4> QED BY <2>2, <3>1, <3>2
    <3> HIDE DEF op, V, base, G
    <3> QED BY <1>1, <2>2, <3>3
  <2>4. g = Body(g)
    <3> HIDE DEF op, V, base, G
    <3> QED BY <1>1, <2>2, <2>3
  <2> QED BY <2>4
<1>f4. Folds(n, V, base, G, f)
  <2>1. f[{}] = base /\ \A S \in SUBSET (1 .. n) : S # {} => f[S] = op(f[S \ {Max(S)}], seq[Max(S)])
    <3> HIDE DEF op, V, base, G
    <3> QED BY <1>1, <1>f3
  <2> HIDE DEF f
  <2> SUFFICES ASSUME NEW S \in SUBSET (1 .. n), S # {}, f[S \ {Max(S)}] \in V
               PROVE  f[S] = G[<<Max(S), f[S \ {Max(S)}]>>]
    BY <2>1 DEF Folds
  <2>2. Max(S) \in 1 .. n
    BY <1>1, Maximal
  <2> HIDE DEF op, V, base
  <2> QED BY <2>1, <2>2
<1> HIDE DEF f
<1>z1. <<0, base>> \in Z
  <2>1. Keeps(base, base)
    BY <1>2, KeepsSame
  <2> QED BY <1>1, <1>2, <2>1
<1>z2. ASSUME NEW k \in 1 .. n, NEW t \in V, <<k - 1, t>> \in Z PROVE <<k, op(t, seq[k])>> \in Z
  <2> DEFINE w == op(t, seq[k])
  <2>1. After_(k - 1, t)
    BY <1>z2
  <2>2. Keeps(t, w) /\ Told1(w, seq[k], r) /\ w \in V
    BY <1>3, <1>4
  <2> HIDE DEF w, V
  <2>3. Keeps(base, w)
    BY <2>1, <2>2, KeepsOn
  <2>4. \A j \in 1 .. k : j \in 1 .. n /\ (j = k \/ j \in 1 .. k - 1)
    BY <1>1
  <2>5. ASSUME NEW j \in 1 .. k PROVE Told1(w, seq[j], r)
    <3>1. seq[j] \in Insts /\ Inst(seq[j]).kind \in {"call", "invoke"}
      BY <1>5, <2>4
    <3>2. j = k \/ Told1(t, seq[j], r)
      BY <2>1, <2>4
    <3> QED BY <2>2, <3>1, <3>2, StaysTold
  <2>6. k \in 0 .. n
    BY <1>1
  <2>7. <<k, w>> \in Z
    BY <2>2, <2>3, <2>5, <2>6
  <2> QED BY <2>7 DEF w
<1>f5. f[1 .. n] \in V /\ <<n, f[1 .. n]>> \in Z
  <2>1. Stays(n, V, G, Z)
    <3> SUFFICES ASSUME NEW k \in 1 .. n, NEW t \in V, <<k - 1, t>> \in Z PROVE <<k, G[<<k, t>>]>> \in Z
      BY DEF Stays
    <3>1. G[<<k, t>>] = op(t, seq[k])
      <4> HIDE DEF op, V
      <4> QED OBVIOUS
    <3> HIDE DEF G
    <3> QED BY <1>z2, <3>1
  <2> HIDE DEF G, Z, n, V, base
  <2> QED BY <1>1, <1>2, <1>f2, <1>f4, <1>z1, <2>1, Folding
<1>6. After_(n, f[1 .. n])
  BY <1>f5
<1>7. \A j \in ToSet(seq) : Told1(f[1 .. n], j, r)
  BY <1>1, <1>6
<1> QED BY <1>f1, <1>6, <1>7

-----------------------------------------------------------------------------
(* Types of what is evaluated                                              *)

\* A value that is written in a program is a claim.
LEMMA WrittenIsClaim ==
  ASSUME NEW v, Written(v)
  PROVE  v \in Claims
BY Builds DEF Written, Claims

\* What is loaded of a good item is a claim.
LEMMA ItemType ==
  ASSUME NEW item, GoodItem(item)
  PROVE  LoadInt(item) \in Claimed
<1>1. Overdefined \in Claimed /\ CreateInteger({}) \in Claimed /\ Claims \subseteq Claimed
  BY Builds DEF Claimed
<1>2. CASE item.kind = "space"
  BY <1>1, <1>2 DEF LoadInt
<1>3. CASE item.kind = "value" /\ item.size = 1
  <2>1. item.val \in Claims
    BY <1>3, WrittenIsClaim DEF GoodItem
  <2> QED BY <1>1, <1>3, <2>1 DEF LoadInt
<1>4. CASE item.kind # "space" /\ ~ (item.kind = "value" /\ item.size = 1)
  BY <1>1, <1>4 DEF LoadInt
<1> QED BY <1>2, <1>3, <1>4

\* What is said of a load is a claim.
LEMMA LoadedType ==
  ASSUME WellFormed(prog), NEW a \in Claimed
  PROVE  Loaded(a) \in Claimed
<1> DEFINE data == prog.data[a.sym]
           known == a.sym \in DOMAIN prog.data
<1>1. Overdefined \in Claimed /\ Undefined \in Claimed /\ CreateInteger({}) \in Claimed
  BY Builds DEF Claimed
<1>2. CASE a \in {Unknown, Overdefined, Undefined}
  BY <1>2, <1>1 DEF Loaded, Is, Unknown, Overdefined, Undefined
<1>3. CASE a \notin {Unknown, Overdefined, Undefined} /\ Is(a, "int")
  BY <1>3, <1>1 DEF Loaded, Is
<1>4. CASE a \notin {Unknown, Overdefined, Undefined} /\ Is(a, "range") /\ known
  <2>1. Loaded(a) = IF data.constant /\ Len(data.items) = 1 /\ data.items[1].kind = "space"
                      THEN CreateInteger({}) ELSE Overdefined
    BY <1>4 DEF Loaded, Is
  <2> QED BY <1>1, <2>1
<1>5. CASE a \notin {Unknown, Overdefined, Undefined} /\ Is(a, "global") /\ known
  <2>1. Loaded(a) = IF IsConstant(a.sym) /\ At(data.items, a.off) # {}
                      THEN LoadInt(data.items[ItemAt(data.items, a.off)])
                      ELSE Overdefined
    BY <1>5 DEF Loaded, Is
  <2>2. ASSUME At(data.items, a.off) # {}
        PROVE  LoadInt(data.items[ItemAt(data.items, a.off)]) \in Claimed
    <3> DEFINE item == data.items[ItemAt(data.items, a.off)]
    <3>1. ItemAt(data.items, a.off) \in At(data.items, a.off)
      BY <2>2 DEF ItemAt
    <3>2. ItemAt(data.items, a.off) \in DOMAIN data.items
      BY <3>1 DEF At
    <3>3. item \in ToSet(data.items)
      BY <3>2 DEF ToSet
    <3>4. GoodItem(item)
      BY <1>5, <3>3 DEF WellFormed
    <3> QED BY <3>4, ItemType
  <2> QED BY <1>1, <2>1, <2>2
<1>6. CASE /\ a \notin {Unknown, Overdefined, Undefined} /\ ~ Is(a, "int")
           /\ ~ (Is(a, "range") /\ known) /\ ~ (Is(a, "global") /\ known)
  BY <1>6, <1>1 DEF Loaded
<1> QED BY <1>2, <1>3, <1>4, <1>5, <1>6

\* What is said of a feature word is a claim.
LEMMA CpuIdType == \A leaf, sub, idx : EvalCpuId(leaf, sub, idx) \in Claims
BY Builds, EvalAssumption DEF EvalCpuId, FeatureWord

\* What is said of a selection is a claim.
LEMMA SelectType ==
  ASSUME NEW c, NEW a \in Claims, NEW b \in Claims
  PROVE  EvalSelect(c, a, b) \in Claimed
<1>1. LUB(a, b) \in Claimed
  BY LUBCovers DEF Claimed
<1>2. ~ (IsTrue(c) /\ IsFalse(c))
  BY DEF IsTrue, IsFalse, Is
<1>3. IsTrue(c) => EvalSelect(c, a, b) = a
  BY <1>2 DEF EvalSelect, IsTrue, Is, Undefined
<1>4. IsFalse(c) => EvalSelect(c, a, b) = b
  BY <1>2 DEF EvalSelect, IsFalse, Is, Undefined
<1>5. ~ IsTrue(c) /\ ~ IsFalse(c) => EvalSelect(c, a, b) \in {Undefined, LUB(a, b)}
  BY DEF EvalSelect
<1> QED BY <1>1, <1>3, <1>4, <1>5, Builds DEF Claimed

\* The parts of an instruction that is well formed.
LEMMA Operands ==
  ASSUME WellFormed(prog), NEW i \in Insts
  PROVE  /\ DOMAIN Inst(i).args = 1 .. Len(Inst(i).args) /\ Len(Inst(i).args) \in Nat
         /\ \A k \in DOMAIN Inst(i).args : Inst(i).args[k] \in Insts
         /\ Inst(i).kind \in Unaries \cup {"copy", "load", "jcc", "switch"} => Len(Inst(i).args) = 1
         /\ Inst(i).kind \in Binaries \cup {"cmp", "store"} => Len(Inst(i).args) = 2
         /\ Inst(i).kind = "cpuid" => Len(Inst(i).args) \in {1, 2}
         /\ Inst(i).kind = "select" => Len(Inst(i).args) = 3
         /\ Inst(i).kind = "ret" => Len(Inst(i).args) < 2
         /\ Inst(i).kind = "mov" => Written(Inst(i).val)
         /\ Inst(i).kind = "undef" => Inst(i).val = Undefined
         /\ Inst(i).kind = "frame" => /\ Inst(i).val.obj \in Objects /\ Inst(i).val.off \in Int
                                      /\ Inst(i).val = CreateFrame(Inst(i).val.obj, Inst(i).val.off)
         /\ Inst(i).kind \notin CallSites => (Inst(i).rets <=> Inst(i).kind \notin Resultless)
         /\ Inst(i).to \in Seq(Blocks) /\ Inst(i).idx \in Nat
<1>1. GoodInst(prog, i)
  BY DEF WellFormed, Insts
<1>2. Inst(i).args \in Seq(Insts)
  BY Formed
<1> QED BY <1>1, <1>2 DEF GoodInst, Inst, Insts, Blocks

\* What is known of the operands of an instruction are claims, or nothing.
LEMMA KnownOperands ==
  ASSUME WellFormed(prog), NEW t \in Tables, NEW i \in Insts
  PROVE  /\ DOMAIN Vals(t, i) = 1 .. Len(Inst(i).args)
         /\ \A k \in DOMAIN Vals(t, i) : Vals(t, i)[k] \in Claimed /\ Vals(t, i)[k] = t.values[Inst(i).args[k]]
         /\ ~ Lacking(Vals(t, i)) => \A k \in DOMAIN Vals(t, i) : Vals(t, i)[k] \in Claims
<1>1. t.values \in [Insts -> Claimed]
  BY DEF Tables
<1>2. DOMAIN Vals(t, i) = DOMAIN Inst(i).args /\ \A k \in DOMAIN Inst(i).args : Vals(t, i)[k] = t.values[Inst(i).args[k]]
  BY DEF Vals
<1>3. \A k \in DOMAIN Inst(i).args : Inst(i).args[k] \in Insts
  BY Operands
<1> QED BY <1>1, <1>2, <1>3, Operands DEF Lacking, Claimed

\* The kinds of instructions that compute something are different.
Singles == {"copy", "load", "cpuid", "cmp", "select", "phi", "arg"}

\* No kind is in two of these sets.
LEMMA KindsApart ==
  ASSUME NEW kind
  PROVE  /\ kind \in Unaries => kind \notin Plainly /\ kind \notin Silent /\ kind \notin Binaries /\ kind \notin Singles
         /\ kind \in Binaries => kind \notin Plainly /\ kind \notin Silent /\ kind \notin Unaries /\ kind \notin Singles
         /\ kind \in Silent => kind \notin Plainly /\ kind \notin Unaries /\ kind \notin Binaries /\ kind \notin Singles
         /\ kind \in Plainly => kind \notin Silent /\ kind \notin Unaries /\ kind \notin Binaries /\ kind \notin Singles
         /\ kind \in Singles => kind \notin Silent /\ kind \notin Unaries /\ kind \notin Binaries /\ kind \notin Plainly
         /\ kind \in ValueKinds => kind \notin {"phi", "arg", "jump", "jcc", "switch", "ret"} \cup CallSites
BY DEF Unaries, Binaries, Plainly, Silent, ValueKinds, CallSites, Singles

\* What an instruction evaluates to is a claim, or nothing yet.
LEMMA EvaluatedType ==
  ASSUME WellFormed(prog), NEW t \in Tables, NEW i \in Insts, Inst(i).kind \in ValueKinds,
         ~ Waits(i, Vals(t, i))
  PROVE  Evaluated(i, Vals(t, i)) \in Claimed
<1> DEFINE kind == Inst(i).kind
           vs == Vals(t, i)
<1>1. DOMAIN vs = 1 .. Len(Inst(i).args) /\ \A k \in DOMAIN vs : vs[k] \in Claimed
  BY KnownOperands
<1>2. ~ Lacking(vs) => \A k \in DOMAIN vs : vs[k] \in Claims
  BY KnownOperands
<1>3. Overdefined \in Claimed /\ Claims \subseteq Claimed
  BY Builds DEF Claimed
<1>w. ~ Waits(i, vs)
  OBVIOUS
<1> HIDE DEF vs
<1> SUFFICES Evaluated(i, vs) \in Claimed
  BY DEF vs
<1>4. CASE kind \in Plainly
  <2>1. Evaluated(i, vs) = Inst(i).val
    BY <1>4, KindsApart DEF Evaluated, Singles
  <2>2. Inst(i).val \in Claims
    BY <1>4, Operands, WrittenIsClaim, Builds DEF Plainly
  <2> QED BY <1>3, <2>1, <2>2
<1>5. CASE kind = "copy"
  <2>1. Evaluated(i, vs) = vs[1]
    BY <1>5, KindsApart DEF Evaluated, Singles
  <2>2. 1 \in DOMAIN vs
    <3>1. Len(Inst(i).args) = 1
      BY <1>5, Operands
    <3> QED BY <1>1, <3>1
  <2> QED BY <1>1, <2>1, <2>2
<1>6. CASE kind = "load"
  <2>1. Evaluated(i, vs) = Loaded(vs[1])
    BY <1>6, KindsApart DEF Evaluated, Singles
  <2>2. 1 \in DOMAIN vs
    <3>1. Len(Inst(i).args) = 1
      BY <1>6, Operands
    <3> QED BY <1>1, <3>1
  <2> QED BY <1>1, <2>1, <2>2, LoadedType
<1>7. CASE kind = "cpuid"
  <2>1. Evaluated(i, vs) = EvalCpuId(vs[1], SubleafOf(i, vs), Inst(i).idx)
    BY <1>7, KindsApart DEF Evaluated, Singles
  <2> QED BY <1>3, <2>1, CpuIdType
<1>8. CASE kind \in Unaries
  <2>1. Evaluated(i, vs) = EvalUnary(kind, vs[1])
    BY <1>8, KindsApart DEF Evaluated, Singles
  <2>2. 1 \in DOMAIN vs
    <3>1. Len(Inst(i).args) = 1
      BY <1>8, Operands
    <3> QED BY <1>1, <3>1
  <2>3. ~ Lacking(vs)
    BY <1>8, <1>w, KindsApart DEF Waits, Singles
  <2>4. vs[1] \in Claims
    BY <1>2, <2>2, <2>3
  <2>5. EvalUnary(kind, vs[1]) \in Claims
    BY <1>8, <2>4, UnaryType
  <2> QED BY <1>3, <2>1, <2>5
<1>9. CASE kind \in Binaries
  <2>1. Evaluated(i, vs) = EvalBinary(kind, vs[1], vs[2])
    BY <1>9, KindsApart DEF Evaluated, Singles
  <2>2. 1 \in DOMAIN vs /\ 2 \in DOMAIN vs
    <3>1. Len(Inst(i).args) = 2
      BY <1>9, Operands
    <3> QED BY <1>1, <3>1
  <2>3. ~ Lacking(vs)
    BY <1>9, <1>w, KindsApart DEF Waits, Singles
  <2>4. vs[1] \in Claims /\ vs[2] \in Claims
    BY <1>2, <2>2, <2>3
  <2>5. EvalBinary(kind, vs[1], vs[2]) \in Claims
    BY <1>9, <2>4, BinaryType
  <2> QED BY <1>3, <2>1, <2>5
<1>10. CASE kind = "cmp"
  <2>1. Evaluated(i, vs) = EvalCmp(vs[1], vs[2], Inst(i).val)
    BY <1>10, KindsApart DEF Evaluated, Singles
  <2>2. 1 \in DOMAIN vs /\ 2 \in DOMAIN vs
    <3>1. Len(Inst(i).args) = 2
      BY <1>10, Operands
    <3> QED BY <1>1, <3>1
  <2>3. ~ Lacking(vs)
    BY <1>10, <1>w, KindsApart DEF Waits, Singles
  <2>4. vs[1] \in Claims /\ vs[2] \in Claims
    BY <1>2, <2>2, <2>3
  <2>5. EvalCmp(vs[1], vs[2], Inst(i).val) \in Claims
    BY <2>4, CompareType
  <2> QED BY <1>3, <2>1, <2>5
<1>11. CASE kind = "select"
  <2>1. Evaluated(i, vs) = EvalSelect(vs[1], vs[2], vs[3])
    BY <1>11, KindsApart DEF Evaluated, Singles
  <2>2. 2 \in DOMAIN vs /\ 3 \in DOMAIN vs
    <3>1. Len(Inst(i).args) = 3
      BY <1>11, Operands
    <3> QED BY <1>1, <3>1
  <2>3. ~ Lacking(vs)
    BY <1>11, <1>w, KindsApart DEF Waits, Singles
  <2>4. vs[2] \in Claims /\ vs[3] \in Claims
    BY <1>2, <2>2, <2>3
  <2> QED BY <2>1, <2>4, SelectType
<1>12. CASE kind \in Silent
  <2>1. Evaluated(i, vs) = Overdefined
    BY <1>12, KindsApart DEF Evaluated, Singles
  <2> QED BY <1>3, <2>1
<1> QED BY <1>4, <1>5, <1>6, <1>7, <1>8, <1>9, <1>10, <1>11, <1>12 DEF ValueKinds

-----------------------------------------------------------------------------
(* Visits                                                                  *)

\* A step that keeps what visits have settled keeps the tables fit together, but for
\* the instructions that it unsettles.
LEMMA GoodOn ==
  ASSUME NEW t, NEW u, NEW F, NEW X, NEW Z, Good(t, X), Opened(t, F), Voids(t), KeepsBut(t, u, Z)
  PROVE  Fit(u) /\ Good(u, X \cup Z) /\ Opened(u, F) /\ Voids(u)
<1>1. Fit(u)
  BY DEF KeepsBut
<1>2. Good(u, X \cup Z)
  <2> SUFFICES ASSUME NEW i \in Insts, Live(u, i), i \notin Queued(u) \cup (X \cup Z) PROVE Settled(u, i)
    BY DEF Good
  <2>1. Live(t, i) /\ i \notin Queued(t)
    BY DEF KeepsBut
  <2>2. Settled(t, i)
    BY <2>1 DEF Good
  <2> QED BY <2>1, <2>2 DEF KeepsBut
<1>3. Opened(u, F)
  <2> SUFFICES ASSUME NEW f \in Funcs, Open(t, f) PROVE Open(u, f)
    BY DEF Opened
  <2> QED BY Covering DEF Open, KeepsBut, IsArg, Rising
<1>4. Voids(u)
  BY DEF Voids, KeepsBut
<1> QED BY <1>1, <1>2, <1>3, <1>4

\* Steps that keep visits made keep the tables right.
LEMMA TabledOn ==
  ASSUME NEW t, NEW u, NEW F, NEW X, NEW Z, Tabled(t, F, X), KeepsBut(t, u, Z)
  PROVE  Tabled(u, F, X \cup Z)
<1>1. Fit(u) /\ Good(u, X \cup Z) /\ Opened(u, F) /\ Voids(u)
  BY GoodOn DEF Tabled
<1>2. Told(u)
  <2> SUFFICES ASSUME NEW f \in Funcs, NEW j \in u.calls[f]
               PROVE  /\ Inst(j).kind \in {"call", "invoke"}
                      /\ u.returns[f] # Absent => Told1(u, j, u.returns[f])
    BY DEF Told
  <2>1. u.calls = t.calls /\ u.returns = t.returns /\ t.edges \subseteq u.edges
    BY DEF KeepsBut
  <2>2. j \in t.calls[f] /\ j \in Insts
    BY <2>1 DEF Tabled, Fit, Tables
  <2>3. Inst(j).kind \in {"call", "invoke"} /\ (t.returns[f] # Absent => Told1(t, j, t.returns[f]))
    BY <2>2 DEF Tabled, Told
  <2>4. Covers(t.values[j], u.values[j])
    BY <2>2, <2>3 DEF KeepsBut, Rising
  <2>5. \A r : Told1(t, j, r) => Told1(u, j, r)
    BY <2>1, <2>4, Covering DEF Told1
  <2> QED BY <2>1, <2>3, <2>5
<1> QED BY <1>1, <1>2 DEF Tabled

\* An instruction that is settled, or waits in a list, need not be visited.
LEMMA TabledLess ==
  ASSUME NEW t, NEW F, NEW X, NEW Y, Tabled(t, F, X),
         \A i \in X : i \in Insts /\ Live(t, i) => i \in Y \/ i \in Queued(t) \/ Settled(t, i)
  PROVE  Tabled(t, F, Y)
BY DEF Tabled, Good

\* Tables that differ in their lists only.
LEMMA SameTables ==
  ASSUME NEW t, NEW u, u.values = t.values, u.edges = t.edges, u.executable = t.executable,
         u.calls = t.calls, u.returns = t.returns
  PROVE  /\ \A i : Settled(u, i) <=> Settled(t, i)
         /\ \A i : Live(u, i) <=> Live(t, i)
         /\ Told(t) => Told(u)
         /\ \A F : Opened(t, F) => Opened(u, F)
         /\ Voids(t) => Voids(u)
<1>1. \A i : Vals(u, i) = Vals(t, i)
  BY DEF Vals
<1>2. \A i, a : Given(u, i, a) = Given(t, i, a)
  BY DEF Given
<1>3. \A i, f : Entered(u, i, f) <=> Entered(t, i, f)
  BY <1>2 DEF Entered
<1>4. ASSUME NEW i PROVE Settled(u, i) <=> Settled(t, i)
  <2>1. ValueSettled(u, i) <=> ValueSettled(t, i)
    BY <1>1 DEF ValueSettled
  <2>2. PhiSettled(u, i) <=> PhiSettled(t, i)
    BY DEF PhiSettled
  <2>3. JumpSettled(u, i) <=> JumpSettled(t, i)
    BY <1>1 DEF JumpSettled
  <2>4. CallSettled(u, i) <=> CallSettled(t, i)
    BY <1>1, <1>3 DEF CallSettled
  <2>5. ReturnSettled(u, i) <=> ReturnSettled(t, i)
    BY <1>1 DEF ReturnSettled
  <2> QED BY <2>1, <2>2, <2>3, <2>4, <2>5 DEF Settled
<1>5. \A i : Live(u, i) <=> Live(t, i)
  BY DEF Live
<1>6. \A j, r : Told1(u, j, r) <=> Told1(t, j, r)
  BY DEF Told1
<1>7. \A f : Open(u, f) <=> Open(t, f)
  BY DEF Open
<1> QED BY <1>4, <1>5, <1>6, <1>7 DEF Told, Opened, Voids

\* Taking something off a list.
LEMMA Taking ==
  ASSUME NEW t, NEW u \in Tables, NEW F, Tabled(t, F, {}), u.values = t.values, u.edges = t.edges,
         u.executable = t.executable, u.calls = t.calls, u.returns = t.returns,
         NEW X, Queued(t) = Queued(u) \cup X
  PROVE  Tabled(u, F, X) /\ \A i \in X : Live(u, i)
<1>1. Fit(t) /\ Good(t, {}) /\ Told(t) /\ Opened(t, F) /\ Voids(t)
  BY DEF Tabled
<1>2. Told(u) /\ Opened(u, F) /\ Voids(u)
  BY <1>1, SameTables
<1>3. \A i : Live(u, i) <=> Live(t, i)
  BY SameTables
<1>4. Fit(u)
  BY <1>1, <1>3 DEF Fit
<1>5. \A i : Settled(u, i) <=> Settled(t, i)
  BY SameTables
<1>6. Good(u, X)
  BY <1>1, <1>3, <1>5 DEF Good
<1> QED BY <1>1, <1>2, <1>3, <1>4, <1>6 DEF Tabled, Fit

\* What a step makes of a function that was entered, for a call that has nothing new
\* to pass.
LEMMA EntersOn ==
  ASSUME NEW t, NEW u, Keeps(t, u), NEW i \in Insts, NEW f, Vals(u, i) = Vals(t, i), Entered(t, i, f)
  PROVE  Entered(u, i, f)
<1>1. t.executable \subseteq u.executable
  BY DEF Keeps, KeepsBut
<1>2. \A k \in DOMAIN Inst(i).args : Vals(t, i)[k] = t.values[Inst(i).args[k]] /\ Vals(u, i)[k] = u.values[Inst(i).args[k]]
  BY DEF Vals
<1>3. \A a \in Insts : Given(u, i, a) = Given(t, i, a)
  BY <1>2 DEF Given
<1>4. \A a \in Insts : IsArg(a, f) => Covers(t.values[a], u.values[a])
  BY DEF Keeps, KeepsBut, Rising, IsArg
<1> QED BY <1>1, <1>3, <1>4, Covering DEF Entered

\* A call is noted among those of a function.
LEMMA Registered ==
  ASSUME WellFormed(prog), NEW t, NEW F, NEW X, Tabled(t, F, X), NEW i \in Insts, NEW f \in Funcs,
         Inst(i).kind \in {"call", "invoke"}, t.returns[f] # Absent => Told1(t, i, t.returns[f])
  PROVE  /\ Tabled(Register(t, i, f), F, X)
         /\ i \in Register(t, i, f).calls[f]
         /\ Register(t, i, f).values = t.values /\ Register(t, i, f).edges = t.edges
         /\ Register(t, i, f).executable = t.executable /\ Queued(Register(t, i, f)) = Queued(t)
<1> DEFINE u == Register(t, i, f)
<1>0. t \in Tables
  BY DEF Tabled, Fit
<1>1. /\ u = [t EXCEPT !.calls[f] = @ \cup {i}]
      /\ t.calls \in [Funcs -> SUBSET Insts]
  BY <1>0 DEF Register, Tables
<1>2. /\ u.values = t.values /\ u.edges = t.edges /\ u.executable = t.executable /\ u.returns = t.returns
      /\ u.bottomList = t.bottomList /\ u.instList = t.instList /\ u.blockList = t.blockList
      /\ u.calls = [t.calls EXCEPT ![f] = @ \cup {i}]
  BY <1>0, <1>1 DEF Tables
<1>3. u.calls \in [Funcs -> SUBSET Insts]
  BY <1>1, <1>2
<1>4. u \in Tables
  <2>1. u = [values |-> u.values, edges |-> u.edges, executable |-> u.executable, bottomList |-> u.bottomList,
             instList |-> u.instList, blockList |-> u.blockList, calls |-> u.calls, returns |-> u.returns]
    BY <1>0, <1>1 DEF Tables
  <2> HIDE DEF u
  <2> QED BY <1>0, <1>2, <1>3, <2>1 DEF Tables
<1> HIDE DEF u
<1>5. Queued(u) = Queued(t)
  BY <1>2 DEF Queued
<1>6. \A g \in Funcs : t.calls[g] \subseteq u.calls[g]
  BY <1>1, <1>2
<1>7. \A j : Live(u, j) <=> Live(t, j)
  BY <1>2 DEF Live
<1>8. Fit(u)
  BY <1>2, <1>4, <1>5, <1>7 DEF Fit, Tabled
<1>9. \A j \in Insts : Settled(t, j) => Settled(u, j)
  <2> SUFFICES ASSUME NEW j \in Insts, Settled(t, j) PROVE Settled(u, j)
    OBVIOUS
  <2>1. Vals(u, j) = Vals(t, j)
    BY <1>2 DEF Vals
  <2>2. \A a \in Insts : Covers(t.values[a], u.values[a])
    BY <1>2, Covering
  <2> QED BY <1>0, <1>2, <1>4, <1>6, <2>1, <2>2, StaysSettled
<1>10. Good(u, X)
  BY <1>5, <1>7, <1>9 DEF Good, Tabled
<1>11. \A j, r : Told1(u, j, r) <=> Told1(t, j, r)
  BY <1>2 DEF Told1
<1>12. Told(u)
  <2> SUFFICES ASSUME NEW g \in Funcs, NEW j \in u.calls[g]
               PROVE  /\ Inst(j).kind \in {"call", "invoke"}
                      /\ u.returns[g] # Absent => Told1(u, j, u.returns[g])
    BY DEF Told
  <2>1. CASE j \in t.calls[g]
    BY <1>2, <1>11, <2>1 DEF Told, Tabled
  <2>2. CASE j \notin t.calls[g]
    <3>1. g = f /\ j = i
      BY <1>1, <1>2, <2>2
    <3> QED BY <1>2, <1>11, <3>1
  <2> QED BY <2>1, <2>2
<1>13. Opened(u, F) /\ Voids(u)
  BY <1>2 DEF Opened, Open, Voids, Tabled
<1>14. i \in u.calls[f]
  BY <1>1, <1>2
<1> QED BY <1>2, <1>5, <1>8, <1>10, <1>12, <1>13, <1>14 DEF Tabled, u

\* What the visit of an instruction that computes something does.
LEMMA ComputedIs ==
  ASSUME WellFormed(prog), NEW i \in Insts, Inst(i).kind \in ValueKinds
  PROVE  Computed(i) = IF Waits(i, Vals(s, i)) THEN s ELSE Mark(s, i, Evaluated(i, Vals(s, i)))
<1> DEFINE kind == Inst(i).kind
           vs == Vals(s, i)
<1>1. DOMAIN vs = 1 .. Len(Inst(i).args) /\ \A k \in DOMAIN vs : vs[k] = Val(i, k)
  BY Operands DEF Vals, Val
<1>2. AnyUnknown(i) <=> Lacking(vs)
  BY DEF AnyUnknown, Lacking, Vals, Val
<1> HIDE DEF vs
<1> SUFFICES Computed(i) = IF Waits(i, vs) THEN s ELSE Mark(s, i, Evaluated(i, vs))
  BY DEF vs
<1>4. CASE kind \in Plainly
  <2>1. Evaluated(i, vs) = Inst(i).val /\ ~ Waits(i, vs)
    BY <1>4, KindsApart DEF Evaluated, Waits, Singles
  <2>2. Computed(i) = Mark(s, i, Inst(i).val)
    BY <1>4, KindsApart DEF Computed, Plainly, Singles
  <2> QED BY <2>1, <2>2
<1>5. CASE kind = "copy"
  <2>1. Evaluated(i, vs) = vs[1] /\ ~ Waits(i, vs)
    BY <1>5, KindsApart DEF Evaluated, Waits, Singles
  <2>2. vs[1] = Val(i, 1)
    <3>1. Len(Inst(i).args) = 1
      BY <1>5, Operands
    <3> QED BY <1>1, <3>1
  <2>3. Computed(i) = Mark(s, i, Val(i, 1))
    BY <1>5, KindsApart DEF Computed, Plainly, Singles
  <2> QED BY <2>1, <2>2, <2>3
<1>6. CASE kind = "load"
  <2>1. Evaluated(i, vs) = Loaded(vs[1]) /\ ~ Waits(i, vs)
    BY <1>6, KindsApart DEF Evaluated, Waits, Singles
  <2>2. vs[1] = Val(i, 1)
    <3>1. Len(Inst(i).args) = 1
      BY <1>6, Operands
    <3> QED BY <1>1, <3>1
  <2>3. Computed(i) = Mark(s, i, Loaded(Val(i, 1)))
    BY <1>6, KindsApart DEF Computed, Plainly, Singles
  <2> QED BY <2>1, <2>2, <2>3
<1>7. CASE kind = "cpuid"
  <2>1. /\ Evaluated(i, vs) = EvalCpuId(vs[1], SubleafOf(i, vs), Inst(i).idx)
        /\ Waits(i, vs) <=> vs[1] = Unknown \/ (vs[1] = IntOf(StateLeaf) /\ SubleafOf(i, vs) = Unknown)
    BY <1>7, KindsApart DEF Evaluated, Waits, Singles
  <2>2. vs[1] = Val(i, 1) /\ SubleafOf(i, vs) = Subleaf(i)
    <3>1. Len(Inst(i).args) \in {1, 2}
      BY <1>7, Operands
    <3>2. 1 \in DOMAIN vs /\ (Len(Inst(i).args) > 1 => 2 \in DOMAIN vs)
      <4>1. CASE Len(Inst(i).args) = 1
        BY <1>1, <4>1
      <4>2. CASE Len(Inst(i).args) = 2
        BY <1>1, <4>2
      <4> QED BY <3>1, <4>1, <4>2
    <3> QED BY <1>1, <3>2 DEF SubleafOf, Subleaf
  <2>3. Computed(i) = VisitCpuId(s, i)
    BY <1>7, KindsApart DEF Computed, Plainly, Singles
  <2> QED BY <2>1, <2>2, <2>3 DEF VisitCpuId
<1>8. CASE kind \in Unaries
  <2>1. Evaluated(i, vs) = EvalUnary(kind, vs[1]) /\ (Waits(i, vs) <=> Lacking(vs))
    BY <1>8, KindsApart DEF Evaluated, Waits, Singles
  <2>2. vs[1] = Val(i, 1)
    <3>1. Len(Inst(i).args) = 1
      BY <1>8, Operands
    <3> QED BY <1>1, <3>1
  <2>3. Computed(i) = IF AnyUnknown(i) THEN s ELSE Mark(s, i, EvalUnary(kind, Val(i, 1)))
    BY <1>8, KindsApart DEF Computed, Plainly, Singles
  <2> QED BY <1>2, <2>1, <2>2, <2>3
<1>9. CASE kind \in Binaries
  <2>1. Evaluated(i, vs) = EvalBinary(kind, vs[1], vs[2]) /\ (Waits(i, vs) <=> Lacking(vs))
    BY <1>9, KindsApart DEF Evaluated, Waits, Singles
  <2>2. vs[1] = Val(i, 1) /\ vs[2] = Val(i, 2)
    <3>1. Len(Inst(i).args) = 2
      BY <1>9, Operands
    <3> QED BY <1>1, <3>1
  <2>3. Computed(i) = IF AnyUnknown(i) THEN s ELSE Mark(s, i, EvalBinary(kind, Val(i, 1), Val(i, 2)))
    BY <1>9, KindsApart DEF Computed, Plainly, Singles
  <2> QED BY <1>2, <2>1, <2>2, <2>3
<1>10. CASE kind = "cmp"
  <2>1. Evaluated(i, vs) = EvalCmp(vs[1], vs[2], Inst(i).val) /\ (Waits(i, vs) <=> Lacking(vs))
    BY <1>10, KindsApart DEF Evaluated, Waits, Singles
  <2>2. vs[1] = Val(i, 1) /\ vs[2] = Val(i, 2)
    <3>1. Len(Inst(i).args) = 2
      BY <1>10, Operands
    <3> QED BY <1>1, <3>1
  <2>3. Computed(i) = IF AnyUnknown(i) THEN s ELSE Mark(s, i, EvalCmp(Val(i, 1), Val(i, 2), Inst(i).val))
    BY <1>10, KindsApart DEF Computed, Plainly, Singles
  <2> QED BY <1>2, <2>1, <2>2, <2>3
<1>11. CASE kind = "select"
  <2>1. Evaluated(i, vs) = EvalSelect(vs[1], vs[2], vs[3]) /\ (Waits(i, vs) <=> Lacking(vs))
    BY <1>11, KindsApart DEF Evaluated, Waits, Singles
  <2>2. vs[1] = Val(i, 1) /\ vs[2] = Val(i, 2) /\ vs[3] = Val(i, 3)
    <3>1. Len(Inst(i).args) = 3
      BY <1>11, Operands
    <3> QED BY <1>1, <3>1
  <2>3. Computed(i) = IF AnyUnknown(i) THEN s ELSE Mark(s, i, EvalSelect(Val(i, 1), Val(i, 2), Val(i, 3)))
    BY <1>11, KindsApart DEF Computed, Plainly, Singles
  <2> QED BY <1>2, <2>1, <2>2, <2>3
<1>12. CASE kind \in Silent
  <2>1. Evaluated(i, vs) = Overdefined /\ (Waits(i, vs) <=> ~ Inst(i).rets)
    BY <1>12, KindsApart DEF Evaluated, Waits, Singles
  <2>2. Computed(i) = MarkOverdefined(s, i)
    BY <1>12, KindsApart DEF Computed, Plainly, Singles
  <2> QED BY <2>1, <2>2 DEF MarkOverdefined
<1> QED BY <1>4, <1>5, <1>6, <1>7, <1>8, <1>9, <1>10, <1>11, <1>12 DEF ValueKinds

\* A visit settles an instruction that computes something, unless it is to be visited again.
LEMMA ValueVisited ==
  ASSUME WellFormed(prog), Weak = {}, Fit(s), NEW i \in Insts, Live(s, i),
         Inst(i).kind \in ValueKinds \cup {"phi", "arg"}
  PROVE  /\ KeepsBut(s, Computed(i), {i})
         /\ i \in Queued(Computed(i)) \/ Settled(Computed(i), i)
<1>1. CASE Inst(i).kind = "arg"
  <2>1. Computed(i) = s
    BY <1>1, KindsApart DEF Computed, Plainly, Singles
  <2>2. Settled(s, i)
    BY <1>1 DEF Settled, ValueKinds, Plainly, Silent, Unaries, Binaries
  <2> QED BY <2>1, <2>2, KeepsSame DEF Keeps
<1>2. CASE Inst(i).kind = "phi"
  <2>1. Computed(i) = VisitPhiInst(s, i)
    BY <1>2, KindsApart DEF Computed, Plainly, Singles
  <2> QED BY <1>2, <2>1, PhiVisited
<1>3. CASE Inst(i).kind \in ValueKinds /\ Waits(i, Vals(s, i))
  <2>1. Computed(i) = s
    BY <1>3, ComputedIs
  <2>2. Settled(s, i)
    BY <1>3, KindsApart DEF Settled, ValueSettled, CallSites
  <2> QED BY <2>1, <2>2, KeepsSame DEF Keeps
<1>4. CASE Inst(i).kind \in ValueKinds /\ ~ Waits(i, Vals(s, i))
  <2> DEFINE v == Evaluated(i, Vals(s, i))
             u == Mark(s, i, v)
  <2>1. Computed(i) = u
    BY <1>4, ComputedIs
  <2>2. v \in Claimed
    BY <1>4, EvaluatedType DEF Fit
  <2>3. Inst(i).kind # "arg" /\ Inst(i).kind \notin Rising
    BY <1>4, KindsApart DEF Rising, CallSites
  <2>4. KeepsBut(s, u, {i}) /\ u.values[i] = v /\ (i \in Queued(u) \/ Vals(u, i) = Vals(s, i))
    <3> HIDE DEF v
    <3> QED BY <2>2, <2>3, MarkKeeps
  <2>5. Vals(u, i) = Vals(s, i) => Settled(u, i)
    <3>1. u.values[i] = Evaluated(i, Vals(s, i))
      BY <2>4
    <3> HIDE DEF u
    <3> QED BY <1>4, <3>1, KindsApart DEF Settled, ValueSettled, CallSites
  <2> QED BY <2>1, <2>4, <2>5
<1> QED BY <1>1, <1>2, <1>3, <1>4

\* A visit is over once the instruction is settled, or waits in a list.
LEMMA Visited ==
  ASSUME State(s, todo, rest, Idle), rest # <<>>, NEW u, KeepsBut(s, u, {Head(rest)}),
         Head(rest) \in Queued(u) \/ Settled(u, Head(rest))
  PROVE  State(u, todo, Tail(rest), Idle)
<1>1. rest \in Seq(Insts) /\ Tail(rest) \in Seq(Insts) /\ ToSet(rest) = {Head(rest)} \cup ToSet(Tail(rest))
  BY SetsOf DEF State
<1>2. Tabled(s, ToSet(todo), ToSet(rest))
  BY DEF State, Waiting
<1>3. Tabled(u, ToSet(todo), ToSet(rest) \cup {Head(rest)})
  BY <1>2, TabledOn
<1>4. Tabled(u, ToSet(todo), ToSet(Tail(rest)))
  BY <1>1, <1>3, TabledLess
<1>5. Waiting(rest, Idle) = ToSet(rest) /\ Waiting(Tail(rest), Idle) = ToSet(Tail(rest))
  BY DEF Waiting
<1>6. \A i \in ToSet(Tail(rest)) : i \in Insts /\ Live(u, i)
  <2>1. s.executable \subseteq u.executable
    BY DEF KeepsBut
  <2> QED BY <1>1, <1>5, <2>1 DEF State, Live
<1>7. Loop(u, Idle)
  BY DEF Loop
<1> QED BY <1>1, <1>4, <1>5, <1>6, <1>7 DEF State

\* The instruction to visit next.
LEMMA AtHead ==
  ASSUME State(s, todo, rest, Idle), rest # <<>>
  PROVE  Head(rest) \in Insts /\ Live(s, Head(rest)) /\ Fit(s)
<1>1. rest \in Seq(Insts) /\ ToSet(rest) = {Head(rest)} \cup ToSet(Tail(rest))
  BY SetsOf DEF State
<1> QED BY <1>1 DEF State, Waiting, Tabled

\* The visit of an instruction that computes a value, and of a PHI.
LEMMA VisitsInst ==
  ASSUME WellFormed(prog), Weak = {}, State(s, todo, rest, up), VisitInst
  PROVE  State(s', todo', rest', up')
<1> DEFINE i == Head(rest)
<1>1. /\ up = Idle /\ rest # <<>> /\ s' = Computed(i) /\ up' = Idle /\ rest' = Tail(rest) /\ todo' = todo
      /\ Inst(i).kind \in {"arg", "mov", "frame", "undef", "copy", "phi", "load", "store", "cpuid", "cmp",
               "select", "other", "raise", "trap"} \cup Unaries \cup Binaries
  BY DEF VisitInst, Visiting, Leave
<1>2. Inst(i).kind \in ValueKinds \cup {"phi", "arg"}
  BY <1>1 DEF ValueKinds, Plainly, Silent
<1>3. State(s, todo, rest, Idle)
  BY <1>1
<1>4. i \in Insts /\ Live(s, i) /\ Fit(s)
  BY <1>1, <1>3, AtHead
<1>5. KeepsBut(s, Computed(i), {i}) /\ (i \in Queued(Computed(i)) \/ Settled(Computed(i), i))
  <2> HIDE DEF i
  <2> QED BY <1>2, <1>4, ValueVisited
<1>6. State(Computed(i), todo, Tail(rest), Idle)
  BY <1>1, <1>3, <1>5, Visited
<1> QED BY <1>1, <1>6

-----------------------------------------------------------------------------
(* Jumps                                                                   *)

\* The jumps, and the targets they have.
LEMMA Jumps ==
  ASSUME WellFormed(prog), NEW i \in Insts, Inst(i).kind \in {"jump", "jcc", "switch"}, NEW vs,
         Inst(i).kind = "switch" => vs[1] \in Claims
  PROVE  /\ Inst(i).kind = "jump" => Inst(i).args = <<>>
         /\ Inst(i).kind \in {"jcc", "switch"} => 1 \in DOMAIN Inst(i).args
         /\ Taken(i, vs) \in Seq(Blocks)
         /\ ToSet(Taken(i, vs)) \subseteq ToSet(Inst(i).to)
<1>1. GoodInst(prog, i)
  BY DEF WellFormed, Insts
<1>2. /\ Inst(i).to \in Seq(Blocks)
      /\ Inst(i).kind = "jump" => Inst(i).args = <<>>
      /\ Inst(i).kind \in {"jcc", "invoke"} => Len(Inst(i).to) = 2
      /\ Inst(i).kind = "switch" => Inst(i).to # <<>>
  <2>1. /\ prog.inst[i].to \in Seq(DOMAIN prog.body)
        /\ prog.inst[i].kind = "jump" => prog.inst[i].args = <<>>
        /\ prog.inst[i].kind \in {"jcc", "invoke"} => Len(prog.inst[i].to) = 2
        /\ prog.inst[i].kind = "switch" => prog.inst[i].to # <<>>
    BY <1>1, Zenon DEF GoodInst
  <2> QED BY <2>1 DEF Inst, Blocks
<1>3. Inst(i).kind \in {"jcc", "switch"} => 1 \in DOMAIN Inst(i).args
  <2>1. Inst(i).kind \in {"jcc", "switch"} => Len(Inst(i).args) = 1
    BY Operands
  <2> QED BY <2>1, Operands
<1>a. \A x : x \in ToSet(Inst(i).to) <=> \E k \in 1 .. Len(Inst(i).to) : x = Inst(i).to[k]
  BY <1>2 DEF ToSet
<1>4. CASE Inst(i).kind = "jump"
  BY <1>2, <1>3, <1>4 DEF Taken
<1>5. CASE Inst(i).kind = "jcc"
  <2> DEFINE a == Inst(i).to[1]
             b == Inst(i).to[2]
  <2>1. Taken(i, vs) = CondTaken(i, vs[1])
    BY <1>5 DEF Taken
  <2>2. a \in Blocks /\ b \in Blocks /\ a \in ToSet(Inst(i).to) /\ b \in ToSet(Inst(i).to)
    BY <1>2, <1>5, <1>a
  <2>3. CondTaken(i, vs[1]) \in {<<b>>, <<>> \o <<a>>, <<b>> \o <<>>, <<b>> \o <<a>>, <<>> \o <<>>}
    BY DEF CondTaken
  <2> HIDE DEF a, b
  <2>4. /\ <<b>> \in Seq(Blocks) /\ <<>> \in Seq(Blocks) /\ <<a>> \in Seq(Blocks)
        /\ ToSet(<<b>>) = {b} /\ ToSet(<<>>) = {} /\ ToSet(<<a>>) = {a}
    BY <2>2 DEF ToSet
  <2>5. \A q, r \in Seq(Blocks) : q \o r \in Seq(Blocks) /\ ToSet(q \o r) = ToSet(q) \cup ToSet(r)
    BY SetsOf
  <2>6. CondTaken(i, vs[1]) \in Seq(Blocks) /\ ToSet(CondTaken(i, vs[1])) \subseteq {a, b}
    <3>1. CASE CondTaken(i, vs[1]) = <<b>>
      BY <3>1, <2>4
    <3>2. CASE CondTaken(i, vs[1]) = <<>> \o <<a>>
      BY <3>2, <2>4, <2>5
    <3>3. CASE CondTaken(i, vs[1]) = <<b>> \o <<>>
      BY <3>3, <2>4, <2>5
    <3>4. CASE CondTaken(i, vs[1]) = <<b>> \o <<a>>
      BY <3>4, <2>4, <2>5
    <3>5. CASE CondTaken(i, vs[1]) = <<>> \o <<>>
      BY <3>5, <2>4, <2>5
    <3> QED BY <2>3, <3>1, <3>2, <3>3, <3>4, <3>5
  <2> QED BY <1>2, <1>3, <1>5, <2>1, <2>2, <2>6
<1>6. CASE Inst(i).kind = "switch"
  <2> DEFINE v == vs[1]
             n == IF Is(v, "int") THEN Index(v) ELSE 0
  <2>1. Taken(i, vs) = SwitchTaken(i, v)
    BY <1>6 DEF Taken
  <2>2. Len(Inst(i).to) \in Nat /\ Len(Inst(i).to) >= 1 /\ Head(Inst(i).to) = Inst(i).to[1]
    BY <1>2, <1>6
  <2>3. CASE v = Undefined
    <3>1. SwitchTaken(i, v) = <<Inst(i).to[1]>>
      BY <2>2, <2>3 DEF SwitchTaken, Is, Undefined
    <3>2. Inst(i).to[1] \in Blocks /\ Inst(i).to[1] \in ToSet(Inst(i).to)
      BY <1>2, <1>a, <2>2
    <3>3. ToSet(<<Inst(i).to[1]>>) = {Inst(i).to[1]}
      BY DEF ToSet
    <3> QED BY <1>2, <1>3, <1>6, <2>1, <3>1, <3>2, <3>3
  <2>4. CASE v # Undefined /\ Is(v, "int")
    <3>1. SwitchTaken(i, v) = IF Index(v) < Len(Inst(i).to) THEN <<Inst(i).to[Index(v) + 1]>> ELSE <<>>
      BY <2>4 DEF SwitchTaken
    <3>2. <<>> \in Seq(Blocks) /\ ToSet(<<>>) = {}
      BY DEF ToSet
    <3>4. Index(v) \in Nat
      BY <1>6, <2>4, Shapes, Word DEF Index, Is
    <3>5. CASE Index(v) < Len(Inst(i).to)
      <4>1. Index(v) + 1 \in 1 .. Len(Inst(i).to)
        BY <2>2, <3>4, <3>5
      <4> DEFINE b == Inst(i).to[Index(v) + 1]
      <4>2. b \in Blocks /\ b \in ToSet(Inst(i).to)
        BY <1>2, <1>a, <4>1
      <4>3. Taken(i, vs) = <<b>>
        BY <2>1, <3>1, <3>5
      <4> HIDE DEF b
      <4>4. ToSet(<<b>>) = {b}
        BY DEF ToSet
      <4> QED BY <1>2, <1>3, <1>6, <4>2, <4>3, <4>4
    <3>6. CASE ~ (Index(v) < Len(Inst(i).to))
      BY <1>2, <1>3, <1>6, <2>1, <3>1, <3>2, <3>6
    <3> QED BY <3>5, <3>6
  <2>5. CASE v # Undefined /\ ~ Is(v, "int")
    <3>1. SwitchTaken(i, v) = Inst(i).to
      BY <2>5 DEF SwitchTaken
    <3> QED BY <1>2, <1>3, <1>6, <2>1, <3>1
  <2> QED BY <2>3, <2>4, <2>5
<1> QED BY <1>4, <1>5, <1>6

\* A visit of a jump marks the edges to the targets it can take.
LEMMA JumpVisited ==
  ASSUME WellFormed(prog), Weak = {}, Fit(s), NEW i \in Insts, Live(s, i),
         Inst(i).kind \in {"jump", "jcc", "switch"}, ~ Lacking(Vals(s, i)),
         NEW u, u = MarkEdges(s, i, Taken(i, Vals(s, i)))
  PROVE  KeepsBut(s, u, {i}) /\ (i \in Queued(u) \/ Settled(u, i))
<1> DEFINE vs == Vals(s, i)
<1>1. Inst(i).kind = "switch" => vs[1] \in Claims
  <2>1. s \in Tables
    BY DEF Fit
  <2>2. \A k \in DOMAIN vs : vs[k] \in Claims
    BY <2>1, KnownOperands
  <2>3. Inst(i).kind = "switch" => 1 \in DOMAIN vs
    <3>1. ASSUME Inst(i).kind = "switch" PROVE 1 \in DOMAIN Inst(i).args
      <4>1. Len(Inst(i).args) = 1
        BY <3>1, Operands
      <4> QED BY <4>1, Operands
    <3> QED BY <3>1 DEF Vals
  <2> HIDE DEF vs
  <2> QED BY <2>2, <2>3
<1>2. Taken(i, vs) \in Seq(Blocks)
  <2>1. ASSUME NEW v, Inst(i).kind = "switch" => v[1] \in Claims PROVE Taken(i, v) \in Seq(Blocks)
    <3>1. /\ Inst(i).kind = "jump" => Inst(i).args = <<>>
          /\ Inst(i).kind \in {"jcc", "switch"} => 1 \in DOMAIN Inst(i).args
          /\ Taken(i, v) \in Seq(Blocks)
          /\ ToSet(Taken(i, v)) \subseteq ToSet(Inst(i).to)
      BY <2>1, Jumps, Zenon
    <3> QED BY <3>1
  <2> QED BY <1>1, <2>1, Zenon
<1>3. Keeps(s, u) /\ \A b \in ToSet(Taken(i, vs)) : Edge(i, b) \in u.edges
  <2> DEFINE seq == Taken(i, vs)
  <2>1. seq \in Seq(Blocks) /\ u = MarkEdges(s, i, seq)
    BY <1>2
  <2> HIDE DEF seq
  <2>2. Keeps(s, u) /\ \A b \in ToSet(seq) : Edge(i, b) \in u.edges
    BY <2>1, EdgesMarked
  <2> QED BY <2>2 DEF seq
<1>4. i \in Queued(u) \/ Vals(u, i) = vs
  BY <1>3 DEF Keeps, KeepsBut
<1>5. Vals(u, i) = vs => Settled(u, i)
  BY <1>3, KindsApart DEF Settled, JumpSettled, ValueKinds, Plainly, Silent, Unaries, Binaries
<1>6. KeepsBut(s, u, {i})
  BY <1>3, KeepsSame DEF Keeps
<1> QED BY <1>4, <1>5, <1>6

\* A jump whose condition is not known yet is left for later.
LEMMA JumpWaits ==
  ASSUME Fit(s), NEW i \in Insts, Inst(i).kind \in {"jcc", "switch"}, Lacking(Vals(s, i))
  PROVE  KeepsBut(s, s, {i}) /\ Settled(s, i)
<1>1. Settled(s, i)
  BY DEF Settled, JumpSettled, ValueKinds, Plainly, Silent, Unaries, Binaries
<1> QED BY <1>1, KeepsSame DEF Keeps

\* Whether an operand is not known, and what is known of the first one.
LEMMA Unknowns ==
  ASSUME NEW i
  PROVE  /\ AnyUnknown(i) <=> Lacking(Vals(s, i))
         /\ 1 \in DOMAIN Inst(i).args => Vals(s, i)[1] = Val(i, 1)
BY DEF AnyUnknown, Lacking, Vals, Val

\* The visit of a jump or a switch.
LEMMA VisitsJump ==
  ASSUME WellFormed(prog), Weak = {}, State(s, todo, rest, up), VisitJump \/ VisitJumpCond \/ VisitSwitch
  PROVE  State(s', todo', rest', up')
<1> DEFINE i == Head(rest)
<1>1. /\ up = Idle /\ rest # <<>> /\ up' = Idle /\ rest' = Tail(rest) /\ todo' = todo
      /\ Inst(i).kind \in {"jump", "jcc", "switch"}
  BY DEF VisitJump, VisitJumpCond, VisitSwitch, Visiting, Leave
<1>2. State(s, todo, rest, Idle)
  BY <1>1
<1>3. i \in Insts /\ Live(s, i) /\ Fit(s)
  BY <1>1, <1>2, AtHead
<1>4. /\ Inst(i).kind = "jump" => Inst(i).args = <<>>
      /\ Inst(i).kind \in {"jcc", "switch"} => 1 \in DOMAIN Inst(i).args
  <2>1. GoodInst(prog, i)
    BY <1>3 DEF WellFormed, Insts
  <2>2. Inst(i).kind = "jump" => Inst(i).args = <<>>
    <3>1. prog.inst[i].kind = "jump" => prog.inst[i].args = <<>>
      BY <2>1, Zenon DEF GoodInst
    <3> QED BY <3>1 DEF Inst
  <2>3. Inst(i).kind \in {"jcc", "switch"} => 1 \in DOMAIN Inst(i).args
    <3>1. Inst(i).kind \in {"jcc", "switch"} => Len(Inst(i).args) = 1
      BY <1>3, Operands
    <3> QED BY <1>3, <3>1, Operands
  <2> QED BY <2>2, <2>3
<1>5. KeepsBut(s, s', {i}) /\ (i \in Queued(s') \/ Settled(s', i))
  <2>1. CASE VisitJump
    <3>1. s' = MarkEdges(s, i, Inst(i).to) /\ Inst(i).kind = "jump"
      BY <2>1 DEF VisitJump, Visiting
    <3>2. Taken(i, Vals(s, i)) = Inst(i).to
      BY <3>1 DEF Taken
    <3>3. ~ Lacking(Vals(s, i))
      <4>1. Inst(i).args = <<>>
        BY <1>4, <3>1
      <4>2. DOMAIN Inst(i).args = {}
        BY <4>1
      <4> QED BY <4>2 DEF Lacking, Vals
    <3> HIDE DEF i
    <3> QED BY <1>3, <3>1, <3>2, <3>3, JumpVisited
  <2>2. CASE VisitJumpCond
    <3>1. /\ s' = IF AnyUnknown(i) THEN s ELSE MarkEdges(s, i, JumpCondTargets(i))
          /\ Inst(i).kind = "jcc"
      BY <2>2 DEF VisitJumpCond, Visiting
    <3>2. Taken(i, Vals(s, i)) = JumpCondTargets(i)
      BY <1>4, <3>1, Unknowns DEF Taken, CondTaken, JumpCondTargets
    <3> HIDE DEF i
    <3> QED BY <1>3, <3>1, <3>2, Unknowns, JumpVisited, JumpWaits
  <2>3. CASE VisitSwitch
    <3>1. /\ s' = IF AnyUnknown(i) THEN s ELSE MarkEdges(s, i, SwitchTargets(i))
          /\ Inst(i).kind = "switch"
      BY <2>3 DEF VisitSwitch, Visiting
    <3>2. Taken(i, Vals(s, i)) = SwitchTargets(i)
      BY <1>4, <3>1, Unknowns DEF Taken, SwitchTaken, SwitchTargets
    <3> HIDE DEF i
    <3> QED BY <1>3, <3>1, <3>2, Unknowns, JumpVisited, JumpWaits
  <2> QED BY <2>1, <2>2, <2>3
<1>6. State(s', todo, Tail(rest), Idle)
  BY <1>1, <1>2, <1>5, Visited
<1> QED BY <1>1, <1>6

\* A loop that runs goes on, with what it has made sure of so far.
LEMMA LoopOn ==
  ASSUME NEW t, NEW u, NEW r, Loop(t, r), Keeps(t, u), r # Idle => Live(t, r.inst)
  PROVE  Loop(u, r)
<1>1. u.returns = t.returns /\ Queued(t) \subseteq Queued(u)
  BY DEF Keeps, KeepsBut
<1>2. CASE r = Idle
  BY <1>2 DEF Loop
<1>3. ASSUME NEW i \in Insts, NEW f \in Funcs, NEW q, CallLoop(t, r, i, f, q)
      PROVE  CallLoop(u, r, i, f, q)
  <2>0. r.inst = i /\ r # Idle /\ Inst(i).kind \in {"call", "invoke"}
    BY <1>3 DEF CallLoop, Idle
  <2>1. i \in Queued(u) \/ (Reaches(u, i, f) /\ Entered(u, i, f))
    <3>1. CASE i \in Queued(u)
      BY <3>1
    <3>2. CASE i \notin Queued(u)
      <4>1. Reaches(t, i, f) /\ Entered(t, i, f)
        BY <1>1, <1>3, <3>2 DEF CallLoop
      <4>2. Vals(u, i) = Vals(t, i)
        BY <2>0, <3>2 DEF Keeps, KeepsBut
      <4>3. Reaches(u, i, f)
        BY <4>1, <4>2 DEF Reaches
      <4>4. Entered(u, i, f)
        BY <4>1, <4>2, EntersOn
      <4> QED BY <4>3, <4>4
    <3> QED BY <3>1, <3>2
  <2>2. q = <<>> => Told1(u, i, u.returns[f])
    <3>1. q = <<>> => Told1(t, i, t.returns[f])
      BY <1>3 DEF CallLoop
    <3>2. q = <<>> => Told1(u, i, t.returns[f])
      BY <2>0, <3>1, StaysTold
    <3> QED BY <1>1, <3>2
  <2> QED BY <1>1, <1>3, <2>1, <2>2 DEF CallLoop
<1>4. ASSUME NEW i \in Insts, NEW q, NEW V, ReturnLoop(t, r, i, q, V)
      PROVE  ReturnLoop(u, r, i, q, V)
  <2>0. r.inst = i /\ r # Idle
    BY <1>4 DEF ReturnLoop, Idle
  <2>1. i \in Queued(t) \/ Settled(t, i) => i \in Queued(u) \/ Settled(u, i)
    BY <1>1, <2>0 DEF Keeps, KeepsBut
  <2> QED BY <1>4, <2>1 DEF ReturnLoop
<1>5. CASE \E i \in Insts, f \in Funcs : \E q : CallLoop(t, r, i, f, q)
  BY <1>3, <1>5 DEF Loop
<1>6. CASE \E i \in Insts : \E q, V : ReturnLoop(t, r, i, q, V)
  BY <1>4, <1>6 DEF Loop
<1> QED BY <1>2, <1>5, <1>6 DEF Loop

\* Nothing is done with a function that others cannot call; one that they may call is
\* entered with anything.
LEMMA Starts ==
  ASSUME WellFormed(prog), Weak = {}, State(s, todo, rest, up), Start
  PROVE  State(s', todo', rest', up')
<1> DEFINE f == Head(todo)
<1>1. /\ todo # <<>> /\ todo' = Tail(todo) /\ rest' = rest /\ up' = up
      /\ s' = IF IsEntry(f) THEN FoldLeft(MarkOverdefined, MarkBlock(s, prog.entry[f]), ArgsOf(f)) ELSE s
  BY DEF Start
<1>2. f \in Funcs /\ Tail(todo) \in Seq(Funcs) /\ ToSet(todo) = {f} \cup ToSet(Tail(todo))
  BY <1>1, SetsOf DEF State
<1>3. Fit(s)
  BY DEF State, Tabled
<1>4. Keeps(s, s') /\ (IsEntry(f) => Open(s', f))
  <2>1. CASE IsEntry(f)
    <3> HIDE DEF f
    <3> QED BY <1>1, <1>2, <1>3, <2>1, Opens
  <2>2. CASE ~ IsEntry(f)
    BY <1>1, <1>3, <2>2, KeepsSame
  <2> QED BY <2>1, <2>2
<1> DEFINE X == Waiting(rest, up)
<1>5. Tabled(s', ToSet(todo), X)
  <2>1. Tabled(s', ToSet(todo), X \cup {})
    BY <1>4, TabledOn DEF State, Keeps
  <2> HIDE DEF X
  <2> QED BY <2>1
<1>6. Tabled(s', ToSet(Tail(todo)), X)
  <2> HIDE DEF X, f
  <2> QED BY <1>2, <1>4, <1>5 DEF Tabled, Opened
<1>7. Loop(s', up)
  <2>1. up # Idle => Live(s, up.inst)
    BY DEF State, Waiting
  <2> QED BY <1>4, <2>1, LoopOn DEF State
<1>8. \A i \in X : i \in Insts /\ Live(s', i)
  BY <1>4 DEF State, Live, Keeps, KeepsBut
<1> QED BY <1>1, <1>2, <1>5, <1>6, <1>7, <1>8 DEF State

-----------------------------------------------------------------------------
(* Calls                                                                   *)

\* Taking off a list what it is the turn of.
LEMMA Takes ==
  ASSUME WellFormed(prog), State(s, todo, rest, up), TakeBottom \/ TakeInst \/ TakeBlock
  PROVE  State(s', todo', rest', up')
<1>1. /\ todo = <<>> /\ rest = <<>> /\ up = Idle /\ todo' = todo /\ up' = up
  BY DEF TakeBottom, TakeInst, TakeBlock, Ready
<1>2. Waiting(rest, up) = {}
  BY <1>1 DEF Waiting, ToSet
<1>3. Tabled(s, ToSet(todo), {}) /\ todo \in Seq(Funcs)
  BY <1>2 DEF State
<1>4. s \in Tables
  BY <1>3 DEF Tabled, Fit
<1>5. s.bottomList \in Seq(Insts) /\ s.instList \in Seq(Insts) /\ s.blockList \in Seq(Blocks)
  BY <1>4 DEF Tables
<1>6. /\ s'.values = s.values /\ s'.edges = s.edges /\ s'.executable = s.executable
      /\ s'.calls = s.calls /\ s'.returns = s.returns /\ s' \in Tables
      /\ rest' \in Seq(Insts) /\ Queued(s) = Queued(s') \cup ToSet(rest')
  <2>1. CASE TakeBottom
    <3>1. s.bottomList # <<>> /\ rest' = <<Head(s.bottomList)>> /\ s' = [s EXCEPT !.bottomList = Tail(@)]
      BY <2>1 DEF TakeBottom, Turn, Lists
    <3>2. /\ Head(s.bottomList) \in Insts /\ Tail(s.bottomList) \in Seq(Insts)
          /\ ToSet(s.bottomList) = {Head(s.bottomList)} \cup ToSet(Tail(s.bottomList))
      BY <1>5, <3>1, SetsOf
    <3>3. ToSet(rest') = {Head(s.bottomList)} /\ rest' \in Seq(Insts)
      BY <3>1, <3>2 DEF ToSet
    <3>4. s' \in Tables
      BY <1>4, <3>1, <3>2 DEF Tables
    <3>5. s'.bottomList = Tail(s.bottomList) /\ s'.instList = s.instList /\ s'.blockList = s.blockList
      BY <1>4, <3>1 DEF Tables
    <3>6. Queued(s) = Queued(s') \cup ToSet(rest')
      BY <3>2, <3>3, <3>5 DEF Queued
    <3> QED BY <1>4, <3>1, <3>3, <3>4, <3>6 DEF Tables
  <2>2. CASE TakeInst
    <3>1. s.instList # <<>> /\ rest' = <<Head(s.instList)>> /\ s' = [s EXCEPT !.instList = Tail(@)]
      BY <2>2 DEF TakeInst, Turn, Lists
    <3>2. /\ Head(s.instList) \in Insts /\ Tail(s.instList) \in Seq(Insts)
          /\ ToSet(s.instList) = {Head(s.instList)} \cup ToSet(Tail(s.instList))
      BY <1>5, <3>1, SetsOf
    <3>3. ToSet(rest') = {Head(s.instList)} /\ rest' \in Seq(Insts)
      BY <3>1, <3>2 DEF ToSet
    <3>4. s' \in Tables
      BY <1>4, <3>1, <3>2 DEF Tables
    <3>5. s'.instList = Tail(s.instList) /\ s'.bottomList = s.bottomList /\ s'.blockList = s.blockList
      BY <1>4, <3>1 DEF Tables
    <3>6. Queued(s) = Queued(s') \cup ToSet(rest')
      BY <3>2, <3>3, <3>5 DEF Queued
    <3> QED BY <1>4, <3>1, <3>3, <3>4, <3>6 DEF Tables
  <2>3. CASE TakeBlock
    <3> DEFINE b == Head(s.blockList)
    <3>1. s.blockList # <<>> /\ rest' = prog.body[b] /\ s' = [s EXCEPT !.blockList = Tail(@)]
      BY <2>3 DEF TakeBlock, Turn, Lists
    <3>2. b \in Blocks /\ Tail(s.blockList) \in Seq(Blocks) /\ ToSet(s.blockList) = {b} \cup ToSet(Tail(s.blockList))
      BY <1>5, <3>1, SetsOf
    <3>3. rest' \in Seq(Insts)
      BY <3>1, <3>2, Formed
    <3>4. s' \in Tables
      BY <1>4, <3>1, <3>2 DEF Tables
    <3>5. s'.blockList = Tail(s.blockList) /\ s'.bottomList = s.bottomList /\ s'.instList = s.instList
      BY <1>4, <3>1 DEF Tables
    <3>6. Queued(s) = Queued(s') \cup ToSet(rest')
      <4> HIDE DEF b
      <4> QED BY <3>1, <3>2, <3>5 DEF Queued
    <3> QED BY <1>4, <3>1, <3>3, <3>4, <3>6 DEF Tables
  <2> QED BY <2>1, <2>2, <2>3
<1>7. Tabled(s', ToSet(todo), ToSet(rest')) /\ \A i \in ToSet(rest') : Live(s', i)
  <2> DEFINE u == s'
             X == ToSet(rest')
  <2>1. /\ u \in Tables /\ u.values = s.values /\ u.edges = s.edges /\ u.executable = s.executable
        /\ u.calls = s.calls /\ u.returns = s.returns /\ Queued(s) = Queued(u) \cup X
    BY <1>6
  <2> HIDE DEF u, X
  <2>2. Tabled(u, ToSet(todo), X) /\ \A i \in X : Live(u, i)
    BY <1>3, <2>1, Taking
  <2> QED BY <2>2 DEF u, X
<1>8. ToSet(rest') \subseteq Insts
  BY <1>6, SetsOf
<1>9. Waiting(rest', up') = ToSet(rest')
  BY <1>1 DEF Waiting
<1>10. Loop(s', up')
  BY <1>1 DEF Loop
<1> QED BY <1>1, <1>3, <1>6, <1>7, <1>8, <1>9, <1>10 DEF State

\* After a call that is known to reach a function an invoke goes to its landing pad,
\* and the call is settled.
LEMMA AfterCalled ==
  ASSUME WellFormed(prog), Weak = {}, NEW t, NEW F, NEW X, Tabled(t, F, X), NEW i \in Insts, Live(t, i),
         NEW f \in Funcs, Inst(i).kind \in {"call", "invoke"}, t.returns[f] # Absent => Told1(t, i, t.returns[f]),
         i \in Queued(t) \/ (Reaches(t, i, f) /\ Entered(t, i, f))
  PROVE  LET u == AfterCall(Register(t, i, f), i)
         IN /\ Tabled(u, F, X) /\ t.executable \subseteq u.executable
            /\ i \in Queued(u) \/ Settled(u, i)
<1> DEFINE r == Register(t, i, f)
           u == AfterCall(r, i)
<1>1. /\ Tabled(r, F, X) /\ i \in r.calls[f] /\ r.values = t.values /\ r.edges = t.edges
      /\ r.executable = t.executable /\ Queued(r) = Queued(t)
  BY Registered
<1>2. i \in Queued(r) \/ (Reaches(r, i, f) /\ Entered(r, i, f))
  <2>1. Vals(r, i) = Vals(t, i) /\ \A a : Given(r, i, a) = Given(t, i, a)
    BY <1>1 DEF Vals, Given
  <2> HIDE DEF r
  <2> QED BY <1>1, <2>1 DEF Reaches, Entered
<1> HIDE DEF r
<1>3. Keeps(r, u) /\ (Inst(i).kind = "invoke" => Edge(i, Inst(i).to[2]) \in u.edges)
  <2>1. Fit(r)
    BY <1>1 DEF Tabled
  <2>2. CASE Inst(i).kind = "invoke"
    <3>1. u = MarkEdge(r, i, Inst(i).to[2]) /\ Inst(i).to[2] \in Blocks
      BY <2>2, CallTargets DEF AfterCall
    <3> HIDE DEF u
    <3> QED BY <2>1, <3>1, EdgeMarked
  <2>3. CASE Inst(i).kind # "invoke"
    BY <2>1, <2>3, KeepsSame DEF AfterCall
  <2> QED BY <2>2, <2>3
<1> HIDE DEF u
<1>4. Tabled(u, F, X) /\ t.executable \subseteq u.executable
  <2>1. Tabled(u, F, X \cup {})
    BY <1>1, <1>3, TabledOn DEF Keeps
  <2> QED BY <1>1, <1>3, <2>1 DEF Keeps, KeepsBut
<1>5. ASSUME i \notin Queued(u) PROVE Settled(u, i)
  <2>1. i \notin Queued(r) /\ Live(r, i)
    BY <1>1, <1>3, <1>5 DEF Keeps, KeepsBut, Live
  <2>2. Reaches(r, i, f) /\ Entered(r, i, f)
    BY <1>2, <2>1
  <2>3. Vals(u, i) = Vals(r, i)
    BY <1>3, <1>5, <2>1 DEF Keeps, KeepsBut
  <2>4. Entered(u, i, f)
    BY <1>3, <2>2, <2>3, EntersOn
  <2>5. Reaches(u, i, f) /\ u.calls = r.calls
    BY <1>3, <2>2, <2>3 DEF Reaches, Keeps, KeepsBut
  <2>6. CallSettled(u, i)
    BY <1>1, <1>3, <2>4, <2>5 DEF CallSettled, Reaches, IsFunc
  <2> QED BY <2>6 DEF Settled, ValueKinds, Plainly, Silent, Unaries, Binaries
<1> QED BY <1>4, <1>5 DEF u, r

\* What is known of a call, and what it reaches.
LEMMA CallKnown ==
  ASSUME WellFormed(prog), NEW i \in Insts, Inst(i).kind \in {"call", "invoke"}
  PROVE  /\ AnyUnknown(i) <=> Lacking(Vals(s, i))
         /\ Vals(s, i)[1] = Val(i, 1)
         /\ CallsFunc(i) <=> IsFunc(Vals(s, i)[1])
         /\ KnownCallee(i) <=> Is(Vals(s, i)[1], "global")
         /\ CallsExtern(i) <=> Is(Vals(s, i)[1], "global") /\ Vals(s, i)[1].sym \in Externs
         /\ CallsFunc(i) => Callee(i) = Vals(s, i)[1].sym /\ Callee(i) \in Funcs
<1>1. Vals(s, i)[1] = Val(i, 1)
  BY CallTargets, Unknowns
<1> QED BY <1>1, Unknowns DEF CallsFunc, KnownCallee, CallsExtern, Callee, IsFunc

\* Entering a function from a call that reaches it.
LEMMA CallEntered ==
  ASSUME WellFormed(prog), Weak = {}, NEW F, NEW X, Tabled(s, F, X), NEW i \in Insts, Live(s, i), NEW f \in Funcs,
         Reaches(s, i, f)
  PROVE  LET t == Enter(s, i, f)
         IN Tabled(t, F, X) /\ Keeps(s, t) /\ (i \in Queued(t) \/ (Reaches(t, i, f) /\ Entered(t, i, f)))
<1> DEFINE t == Enter(s, i, f)
<1>1. Keeps(s, t) /\ (i \in Queued(t) \/ Entered(t, i, f))
  BY Enters DEF Tabled
<1> HIDE DEF t
<1>2. Tabled(t, F, X)
  <2>1. Tabled(t, F, X \cup {})
    BY <1>1, TabledOn DEF Keeps
  <2> QED BY <2>1
<1>3. i \in Queued(t) \/ Reaches(t, i, f)
  BY <1>1 DEF Keeps, KeepsBut, Reaches
<1> QED BY <1>1, <1>2, <1>3 DEF t

\* The targets of a call that leaves the program are marked in some order.
LEMMA CallEdgesAre ==
  ASSUME WellFormed(prog), NEW i \in Insts, Inst(i).kind \in {"call", "invoke"}
  PROVE  CallEdges(i) \in Seq(Blocks) /\ ToSet(CallEdges(i)) = ToSet(Inst(i).to)
<1>1. Inst(i).to \in Seq(Blocks) /\ (Inst(i).kind = "invoke" => Len(Inst(i).to) = 2)
  <2>1. GoodInst(prog, i)
    BY DEF WellFormed, Insts
  <2>2. /\ prog.inst[i].to \in Seq(DOMAIN prog.body)
        /\ prog.inst[i].kind \in {"jcc", "invoke"} => Len(prog.inst[i].to) = 2
    BY <2>1, Zenon DEF GoodInst
  <2> QED BY <2>2 DEF Inst, Blocks
<1>2. CASE CallEdges(i) = Inst(i).to
  BY <1>1, <1>2
<1>3. CASE CallEdges(i) = Reverse(Inst(i).to) /\ Inst(i).kind = "invoke"
  <2> DEFINE q == Inst(i).to
  <2>1. q \in Seq(Blocks) /\ Len(q) = 2 /\ q[1] \in Blocks /\ q[2] \in Blocks
    BY <1>1, <1>3
  <2> HIDE DEF q
  <2>2. Reverse(q) = [k \in 1 .. 2 |-> q[3 - k]]
    BY <2>1 DEF Reverse
  <2>3. Reverse(q) \in Seq(Blocks) /\ DOMAIN Reverse(q) = {1, 2} /\ Reverse(q)[1] = q[2] /\ Reverse(q)[2] = q[1]
    <3>1. [k \in 1 .. 2 |-> q[3 - k]] = <<q[2], q[1]>>
      OBVIOUS
    <3>2. <<q[2], q[1]>> \in Seq(Blocks)
      BY <2>1
    <3> QED BY <2>2, <3>1, <3>2
  <2>4. DOMAIN q = {1, 2}
    BY <2>1
  <2>5. ToSet(Reverse(q)) = ToSet(q)
    BY <2>3, <2>4 DEF ToSet
  <2> QED BY <1>3, <2>3, <2>5 DEF q
<1> QED BY <1>2, <1>3 DEF CallEdges

\* Less is to be visited once the first instruction is settled or waits in a list.
LEMMA VisitedOn ==
  ASSUME State(s, todo, rest, Idle), rest # <<>>, NEW u, Tabled(u, ToSet(todo), ToSet(rest)),
         s.executable \subseteq u.executable, Head(rest) \in Queued(u) \/ Settled(u, Head(rest))
  PROVE  State(u, todo, Tail(rest), Idle)
<1>1. rest \in Seq(Insts) /\ Tail(rest) \in Seq(Insts) /\ ToSet(rest) = {Head(rest)} \cup ToSet(Tail(rest))
  BY SetsOf DEF State
<1>2. Tabled(u, ToSet(todo), ToSet(Tail(rest)))
  BY <1>1, TabledLess
<1>3. Waiting(rest, Idle) = ToSet(rest) /\ Waiting(Tail(rest), Idle) = ToSet(Tail(rest))
  BY DEF Waiting
<1>4. \A i \in ToSet(Tail(rest)) : i \in Insts /\ Live(u, i)
  BY <1>1, <1>3 DEF State, Live
<1>5. Loop(u, Idle)
  BY DEF Loop
<1> QED BY <1>1, <1>2, <1>3, <1>4, <1>5 DEF State

\* A call of a function of the program that is not known to return yet.
LEMMA CallsOn ==
  ASSUME WellFormed(prog), Weak = {}, State(s, todo, rest, Idle), rest # <<>>, NEW i, i = Head(rest),
         Inst(i).kind \in {"call", "invoke"}, ~ NoCall(i), CallsFunc(i),
         NEW f, f = Callee(i)
  PROVE  /\ s.returns[f] = Absent =>
              State(AfterCall(Register(Enter(s, i, f), i, f), i), todo, Tail(rest), Idle)
         /\ s.returns[f] # Absent =>
              State(Enter(s, i, f), todo, Tail(rest),
                    [kind |-> "call", inst |-> i, callee |-> f, queue |-> <<i>>, visited |-> {}])
<1> DEFINE t == Enter(s, i, f)
           F == ToSet(todo)
           X == ToSet(rest)
<1>1. i \in Insts /\ Live(s, i) /\ Fit(s)
  BY AtHead
<1>2. f \in Funcs /\ Reaches(s, i, f)
  BY <1>1, CallKnown DEF NoCall, Reaches, IsFunc
<1>3. Tabled(s, F, X)
  BY DEF State, Waiting
<1>4. Tabled(t, F, X) /\ Keeps(s, t) /\ (i \in Queued(t) \/ (Reaches(t, i, f) /\ Entered(t, i, f)))
  BY <1>1, <1>2, <1>3, CallEntered
<1> HIDE DEF F, X
<1>5. Live(t, i) /\ t.returns = s.returns /\ s.executable \subseteq t.executable
  BY <1>1, <1>4 DEF Keeps, KeepsBut, Live
<1> HIDE DEF t
<1>6. ASSUME s.returns[f] = Absent
      PROVE  State(AfterCall(Register(t, i, f), i), todo, Tail(rest), Idle)
  <2> DEFINE u == AfterCall(Register(t, i, f), i)
  <2>1. /\ Tabled(u, F, X) /\ t.executable \subseteq u.executable
        /\ i \in Queued(u) \/ Settled(u, i)
    BY <1>1, <1>2, <1>4, <1>5, <1>6, AfterCalled
  <2> HIDE DEF u
  <2>2. s.executable \subseteq u.executable
    BY <1>5, <2>1
  <2>3. State(u, todo, Tail(rest), Idle)
    BY <2>1, <2>2, VisitedOn DEF F, X
  <2> QED BY <2>3 DEF u
<1>7. ASSUME s.returns[f] # Absent, NEW r,
             r = [kind |-> "call", inst |-> i, callee |-> f, queue |-> <<i>>, visited |-> {}]
      PROVE  State(t, todo, Tail(rest), r)
  <2>1. CallLoop(t, r, i, f, <<i>>)
    BY <1>4, <1>5, <1>7 DEF CallLoop
  <2>2. Loop(t, r)
    BY <1>1, <1>2, <2>1 DEF Loop
  <2>3. rest \in Seq(Insts) /\ Tail(rest) \in Seq(Insts) /\ X = {i} \cup ToSet(Tail(rest))
    BY SetsOf DEF State, X
  <2>4. r # Idle /\ r.inst = i
    BY <1>7 DEF Idle
  <2>5. Waiting(Tail(rest), r) = X /\ Waiting(rest, Idle) = X
    BY <2>3, <2>4 DEF Waiting, X
  <2>6. \A j \in X : j \in Insts /\ Live(t, j)
    BY <1>5, <2>5 DEF State, Live
  <2>7. Tabled(t, ToSet(todo), Waiting(Tail(rest), r))
    BY <1>4, <2>5 DEF F
  <2> QED BY <2>2, <2>3, <2>5, <2>6, <2>7 DEF State
<1> QED BY <1>6, <1>7 DEF t

\* A call of something that is not a function of the program.
LEMMA CallsOut ==
  ASSUME WellFormed(prog), Weak = {}, Fit(s), NEW i \in Insts, Live(s, i), Inst(i).kind \in {"call", "invoke"},
         ~ CallsFunc(i), NEW u, u = MarkEdges(MarkOverdefined(s, i), i, CallEdges(i))
  PROVE  KeepsBut(s, u, {i}) /\ (i \in Queued(u) \/ Settled(u, i))
<1> DEFINE t == MarkOverdefined(s, i)
<1>1. Keeps(s, t) /\ (Inst(i).rets => t.values[i] = Overdefined)
  BY OverMarked DEF Rising
<1>2. CallEdges(i) \in Seq(Blocks) /\ ToSet(CallEdges(i)) = ToSet(Inst(i).to)
  BY CallEdgesAre
<1>3. Fit(t)
  BY <1>1, KeepsOn DEF Keeps
<1> HIDE DEF t
<1>4. Keeps(t, u) /\ \A b \in ToSet(CallEdges(i)) : Edge(i, b) \in u.edges
  <2>1. u = MarkEdges(t, i, CallEdges(i))
    BY DEF t
  <2> DEFINE seq == CallEdges(i)
  <2>2. seq \in Seq(Blocks) /\ u = MarkEdges(t, i, seq)
    BY <1>2, <2>1
  <2> HIDE DEF seq
  <2>3. Keeps(t, u) /\ \A b \in ToSet(seq) : Edge(i, b) \in u.edges
    BY <1>3, <2>2, EdgesMarked
  <2> QED BY <2>3 DEF seq
<1>5. Keeps(s, u)
  BY <1>1, <1>4, KeepsOn
<1>6. Inst(i).rets => Covers(Overdefined, u.values[i])
  BY <1>1, <1>4, Covering DEF Keeps, KeepsBut, Rising
<1>7. i \in Queued(u) \/ Vals(u, i) = Vals(s, i)
  BY <1>5 DEF Keeps, KeepsBut
<1>8. ASSUME Vals(u, i) = Vals(s, i) PROVE Settled(u, i)
  <2>1. ~ IsFunc(Vals(u, i)[1])
    BY <1>8, CallKnown
  <2>2. CallSettled(u, i)
    BY <1>2, <1>4, <1>6, <2>1 DEF CallSettled
  <2> QED BY <2>2 DEF Settled, ValueKinds, Plainly, Silent, Unaries, Binaries
<1>9. KeepsBut(s, u, {i})
  BY <1>5, KeepsSame DEF Keeps
<1> QED BY <1>7, <1>8, <1>9

\* A call that is left for later, or that cannot be made.
LEMMA CallWaits ==
  ASSUME WellFormed(prog), Fit(s), NEW i \in Insts, Inst(i).kind \in {"call", "invoke"}, NoCall(i)
  PROVE  KeepsBut(s, s, {i}) /\ Settled(s, i)
<1>1. CallSettled(s, i)
  BY CallKnown DEF NoCall, CallSettled, IsFunc
<1>2. Settled(s, i)
  BY <1>1 DEF Settled, ValueKinds, Plainly, Silent, Unaries, Binaries
<1> QED BY <1>2, KeepsSame DEF Keeps

\* The visit of a call.
LEMMA VisitsCall ==
  ASSUME WellFormed(prog), Weak = {}, State(s, todo, rest, up), VisitCall
  PROVE  State(s', todo', rest', up')
<1> DEFINE i == Head(rest)
<1>1. /\ up = Idle /\ rest # <<>> /\ rest' = Tail(rest) /\ todo' = todo
      /\ Inst(i).kind \in {"call", "invoke"}
  BY DEF VisitCall, Visiting, Leave
<1>2. \/ NoCall(i) /\ s' = s /\ up' = Idle
      \/ ~ NoCall(i) /\ CallsFunc(i) /\ MarkCall(i)
      \/ /\ ~ NoCall(i) /\ ~ CallsFunc(i)
         /\ s' = MarkEdges(MarkOverdefined(s, i), i, CallEdges(i))
         /\ up' = Idle
  BY DEF VisitCall
<1>3. State(s, todo, rest, Idle)
  BY <1>1
<1>4. i \in Insts /\ Live(s, i) /\ Fit(s)
  BY <1>1, <1>3, AtHead
<1> HIDE DEF i
<1>5. CASE NoCall(i) /\ s' = s /\ up' = Idle
  <2>1. KeepsBut(s, s, {i}) /\ Settled(s, i)
    BY <1>1, <1>4, <1>5, CallWaits
  <2>2. State(s, todo, Tail(rest), Idle)
    BY <1>1, <1>3, <2>1, Visited DEF i
  <2> QED BY <1>1, <1>5, <2>2
<1>6. CASE ~ NoCall(i) /\ CallsFunc(i) /\ MarkCall(i)
  <2> DEFINE f == Callee(i)
  <2>1. /\ s.returns[f] = Absent =>
             State(AfterCall(Register(Enter(s, i, f), i, f), i), todo, Tail(rest), Idle)
        /\ s.returns[f] # Absent =>
             State(Enter(s, i, f), todo, Tail(rest),
                   [kind |-> "call", inst |-> i, callee |-> f, queue |-> <<i>>, visited |-> {}])
    BY <1>1, <1>3, <1>6, CallsOn DEF i
  <2>2. IF s.returns[f] = Absent
          THEN s' = AfterCall(Register(Enter(s, i, f), i, f), i) /\ up' = Idle
          ELSE s' = Enter(s, i, f) /\ up' = [kind |-> "call", inst |-> i, callee |-> f, queue |-> <<i>>, visited |-> {}]
    BY <1>6 DEF MarkCall
  <2> QED BY <1>1, <2>1, <2>2
<1>7. CASE /\ ~ NoCall(i) /\ ~ CallsFunc(i)
           /\ s' = MarkEdges(MarkOverdefined(s, i), i, CallEdges(i))
           /\ up' = Idle
  <2>1. KeepsBut(s, s', {i}) /\ (i \in Queued(s') \/ Settled(s', i))
    BY <1>1, <1>4, <1>7, CallsOut
  <2>2. State(s', todo, Tail(rest), Idle)
    BY <1>1, <1>3, <2>1, Visited DEF i
  <2> QED BY <1>1, <1>7, <2>2
<1> QED BY <1>2, <1>5, <1>6, <1>7

\* A return begins the loop that tells those who called.
LEMMA VisitsReturn ==
  ASSUME WellFormed(prog), State(s, todo, rest, up), VisitReturn
  PROVE  State(s', todo', rest', up')
<1> DEFINE i == Head(rest)
<1>1. /\ up = Idle /\ rest # <<>> /\ rest' = Tail(rest) /\ todo' = todo /\ s' = s
      /\ Inst(i).kind = "ret"
      /\ up' = [kind |-> "return", inst |-> i, queue |-> <<None>>, visited |-> {}]
  BY DEF VisitReturn, Visiting, Leave
<1>2. State(s, todo, rest, Idle)
  BY <1>1
<1>3. i \in Insts
  BY <1>1, <1>2, AtHead
<1>4. ReturnLoop(s, up', i, <<None>>, {})
  BY <1>1 DEF ReturnLoop
<1>5. Loop(s, up')
  BY <1>3, <1>4 DEF Loop
<1>6. rest \in Seq(Insts) /\ Tail(rest) \in Seq(Insts) /\ ToSet(rest) = {i} \cup ToSet(Tail(rest))
  BY <1>1, SetsOf DEF State
<1>7. up' # Idle /\ up'.inst = i
  BY <1>1 DEF Idle
<1>8. Waiting(rest, Idle) = ToSet(rest)
  BY DEF Waiting
<1>9. Waiting(Tail(rest), up') = ToSet(rest)
  BY <1>6, <1>7 DEF Waiting
<1> QED BY <1>1, <1>2, <1>5, <1>6, <1>8, <1>9 DEF State

-----------------------------------------------------------------------------
(* The loops of calls and returns                                          *)

\* A loop that ends has settled its instruction, or that waits in a list.
LEMMA LoopOver ==
  ASSUME NEW t, NEW u, NEW r, u # Idle, State(t, todo, rest, u), NEW w, Tabled(w, ToSet(todo), Waiting(rest, u)),
         t.executable \subseteq w.executable, r = u.inst, r \in Queued(w) \/ Settled(w, r)
  PROVE  State(w, todo, rest, Idle)
<1>1. Waiting(rest, u) = ToSet(rest) \cup {r} /\ Waiting(rest, Idle) = ToSet(rest)
  BY DEF Waiting
<1>2. Tabled(w, ToSet(todo), ToSet(rest))
  BY <1>1, TabledLess
<1>3. \A i \in ToSet(rest) : i \in Insts /\ Live(w, i)
  BY <1>1 DEF State, Live
<1> QED BY <1>1, <1>2, <1>3 DEF State, Loop

\* The loop along a call tells the call what its callee returns, and is over.
LEMMA CallRounds ==
  ASSUME WellFormed(prog), Weak = {}, State(s, todo, rest, up), CallRound \/ CallEnd
  PROVE  State(s', todo', rest', up')
<1>1. up.kind = "call" /\ todo' = todo /\ rest' = rest
  BY DEF CallRound, CallEnd
<1>2. up # Idle /\ Loop(s, up)
  BY <1>1 DEF Idle, State
<1>3. PICK i \in Insts, f \in Funcs : \E q : CallLoop(s, up, i, f, q)
  BY <1>1, <1>2 DEF Loop, ReturnLoop
<1>4. PICK q : CallLoop(s, up, i, f, q)
  BY <1>3
<1>5. /\ up = [kind |-> "call", inst |-> i, callee |-> f, queue |-> q, visited |-> {}]
      /\ Inst(i).kind \in {"call", "invoke"} /\ q \in {<<i>>, <<>>} /\ s.returns[f] # Absent
      /\ i \in Queued(s) \/ (Reaches(s, i, f) /\ Entered(s, i, f))
      /\ q = <<>> => Told1(s, i, s.returns[f])
  BY <1>4 DEF CallLoop
<1>6. i \in Waiting(rest, up) /\ Live(s, i) /\ Fit(s) /\ Tabled(s, ToSet(todo), Waiting(rest, up))
  BY <1>2, <1>5 DEF State, Waiting, Tabled
<1>7. CASE CallRound
  <2>1. q = <<i>>
    BY <1>5, <1>7 DEF CallRound
  <2>2. Head(q) = i /\ Tail(q) = <<>>
    BY <2>1
  <2>3. Cont(i) # None
    BY <1>5, CallTargets
  <2>4. s' = Answer(s, i, s.returns[f]) /\ up' = [up EXCEPT !.queue = <<>>]
    BY <1>5, <1>7, <2>2, <2>3 DEF CallRound
  <2>5. s.returns[f] \in Claimed \cup {Absent, Void}
    BY <1>6 DEF Fit, Tables
  <2>6. Keeps(s, s') /\ Told1(s', i, s.returns[f])
    BY <1>5, <1>6, <2>4, <2>5, Answered
  <2>7. up' = [kind |-> "call", inst |-> i, callee |-> f, queue |-> <<>>, visited |-> {}]
    BY <1>5, <2>4
  <2>8. Loop(s', up)
    BY <1>2, <1>5, <1>6, <2>6, LoopOn
  <2>9. CallLoop(s', up', i, f, <<>>)
    <3>1. s'.returns = s.returns
      BY <2>6 DEF Keeps, KeepsBut
    <3>2. i \in Queued(s') \/ (Reaches(s', i, f) /\ Entered(s', i, f))
      <4>1. CASE i \in Queued(s')
        BY <4>1
      <4>2. CASE i \notin Queued(s')
        <5>1. Reaches(s, i, f) /\ Entered(s, i, f) /\ Vals(s', i) = Vals(s, i)
          BY <1>5, <1>6, <2>6, <4>2 DEF Keeps, KeepsBut
        <5>2. Entered(s', i, f)
          BY <2>6, <5>1, EntersOn
        <5> QED BY <5>1, <5>2 DEF Reaches
      <4> QED BY <4>1, <4>2
    <3> QED BY <1>5, <2>6, <2>7, <3>1, <3>2 DEF CallLoop
  <2>10. Waiting(rest, up') = Waiting(rest, up)
    BY <1>5, <2>7 DEF Waiting, Idle
  <2>11. Tabled(s', ToSet(todo), Waiting(rest, up))
    <3>1. Tabled(s', ToSet(todo), Waiting(rest, up) \cup {})
      BY <1>6, <2>6, TabledOn DEF Keeps
    <3> QED BY <3>1
  <2>12. Loop(s', up')
    BY <2>9 DEF Loop
  <2>13. \A j \in Waiting(rest, up) : j \in Insts /\ Live(s', j)
    BY <2>6 DEF State, Live, Keeps, KeepsBut
  <2> QED BY <1>1, <2>10, <2>11, <2>12, <2>13 DEF State
<1>8. CASE CallEnd
  <2>1. q = <<>> /\ s' = AfterCall(Register(s, i, f), i) /\ up' = Idle
    BY <1>5, <1>8 DEF CallEnd
  <2> DEFINE X == Waiting(rest, up)
             F == ToSet(todo)
  <2>2. Told1(s, i, s.returns[f]) /\ Tabled(s, F, X)
    BY <1>5, <1>6, <2>1
  <2> HIDE DEF X, F
  <2>3. Tabled(s', F, X) /\ s.executable \subseteq s'.executable /\ (i \in Queued(s') \/ Settled(s', i))
    BY <1>5, <1>6, <2>1, <2>2, AfterCalled
  <2>4. Tabled(s', ToSet(todo), Waiting(rest, up))
    BY <2>3 DEF X, F
  <2>5. i = up.inst
    BY <1>5
  <2>6. State(s', todo, rest, Idle)
    BY <1>2, <2>3, <2>4, <2>5, LoopOver
  <2> QED BY <1>1, <2>1, <2>6
<1> QED BY <1>7, <1>8

\* What a function returns rises with a return, and covers what the return gives.
LEMMA Merged ==
  ASSUME WellFormed(prog), Plain, NEW F, NEW X, Tabled(s, F, X), NEW r \in Insts, Inst(r).kind = "ret",
         NEW new, new = Merge(s.returns[FuncOf(r)], r, None)
  PROVE  /\ new \in Claimed \cup {Absent, Void} /\ new # Absent
         /\ Inst(r).args # <<>> => IsValue(new) /\ Covers(Vals(s, r)[1], new)
         /\ IsValue(s.returns[FuncOf(r)]) => IsValue(new) /\ Covers(s.returns[FuncOf(r)], new)
         /\ new = Void => Inst(r).args = <<>>
<1> DEFINE old == s.returns[FuncOf(r)]
           v == IF Inst(r).args # <<>> /\ (None = None \/ Inst(None).rets) THEN Val(r, 1) ELSE Void
<1>1. FuncOf(r) \in Funcs /\ s \in Tables
  BY Formed DEF Tabled, Fit
<1>2. old \in Claimed \cup {Absent, Void}
  BY <1>1 DEF Tables
<1>3. old = Void => Inst(r).args = <<>>
  BY DEF Tabled, Voids
<1>4. Inst(r).args # <<>> => v = Vals(s, r)[1] /\ v \in Claimed
  <2>1. ASSUME Inst(r).args # <<>> PROVE 1 \in DOMAIN Inst(r).args
    <3>1. Inst(r).args \in Seq(Insts)
      BY Formed
    <3> QED BY <2>1, <3>1
  <2>2. Inst(r).args # <<>> => Vals(s, r)[1] = Val(r, 1)
    BY <2>1, Unknowns
  <2>3. Inst(r).args # <<>> => Val(r, 1) \in Claimed
    <3>1. \A k \in DOMAIN Inst(r).args : Inst(r).args[k] \in Insts
      BY Operands
    <3>2. s.values \in [Insts -> Claimed]
      BY <1>1 DEF Tables
    <3> QED BY <2>1, <3>1, <3>2 DEF Val
  <2> QED BY <2>2, <2>3
<1>5. Inst(r).args = <<>> => v = Void
  OBVIOUS
<1>6. Merge(old, r, None) =
        CASE v = Void      -> IF old = Absent THEN Void ELSE old
          [] old = Absent  -> v
          [] old = Void    -> IF v = Undefined THEN Void ELSE v
          [] OTHER         -> LUB(old, v)
  BY DEF Merge
<1>7. \A w \in Claimed : IsValue(w) /\ w # Void /\ w # Absent
  BY Shapes DEF IsValue, Claimed, Unknown, Absent, Void
<1>8. ~ IsValue(Absent) /\ ~ IsValue(Void) /\ Absent # Void
  BY DEF IsValue, Absent, Void
<1> HIDE DEF v, old
<1>9. CASE Inst(r).args = <<>>
  <2>1. new = IF old = Absent THEN Void ELSE old
    <3>1. CASE old = Absent
      BY <1>5, <1>6, <1>9, <3>1, <1>8 DEF old
    <3>2. CASE old # Absent
      <4>1. Merge(old, r, None) = old
        <5>1. v = Void /\ Void # Undefined
          BY <1>5, <1>9 DEF Void, Undefined
        <5>2. CASE old = Void
          BY <1>6, <3>2, <5>1, <5>2
        <5>3. CASE old # Void
          BY <1>6, <3>2, <5>1, <5>3
        <5> QED BY <5>2, <5>3
      <4> QED BY <3>2, <4>1 DEF old
    <3> QED BY <3>1, <3>2
  <2> QED BY <1>2, <1>8, <1>9, <2>1, Covering DEF old
<1>10. CASE Inst(r).args # <<>>
  <2>1. v \in Claimed /\ v # Void /\ old # Void /\ v = Vals(s, r)[1]
    BY <1>3, <1>4, <1>7, <1>10
  <2>2. CASE old = Absent
    <3>1. new = v
      BY <1>6, <2>1, <2>2, <1>8 DEF old
    <3> QED BY <1>7, <1>8, <2>1, <2>2, <3>1, Covering DEF old
  <2>3. CASE old # Absent
    <3>1. old \in Claimed
      BY <1>2, <2>1, <2>3
    <3>2. new = LUB(old, v)
      BY <1>6, <2>1, <2>3 DEF old
    <3>3. new \in Claimed /\ Covers(old, new) /\ Covers(v, new)
      BY <2>1, <3>1, <3>2, LUBCovers DEF Plain
    <3> QED BY <1>7, <1>10, <2>1, <3>3 DEF old
  <2> QED BY <2>2, <2>3
<1> QED BY <1>9, <1>10

\* A function returns more: no visit is undone.
LEMMA ReturnsRise ==
  ASSUME WellFormed(prog), Plain, NEW F, NEW X, Tabled(s, F, X), NEW r \in Insts, Inst(r).kind = "ret"
  PROVE  LET f == FuncOf(r)
             new == Merge(s.returns[f], r, None)
             t == [s EXCEPT !.returns[f] = new]
         IN /\ Fit(t) /\ Good(t, X) /\ Opened(t, F) /\ Voids(t)
            /\ t.values = s.values /\ t.edges = s.edges /\ t.executable = s.executable /\ t.calls = s.calls
            /\ Queued(t) = Queued(s) /\ t.returns = [s.returns EXCEPT ![f] = new] /\ Settled(t, r)
<1> DEFINE f == FuncOf(r)
           new == Merge(s.returns[f], r, None)
           t == [s EXCEPT !.returns[f] = new]
<1>1. /\ new \in Claimed \cup {Absent, Void} /\ new # Absent
      /\ Inst(r).args # <<>> => IsValue(new) /\ Covers(Vals(s, r)[1], new)
      /\ IsValue(s.returns[f]) => IsValue(new) /\ Covers(s.returns[f], new)
      /\ new = Void => Inst(r).args = <<>>
  BY Merged
<1> HIDE DEF new
<1>2. s \in Tables /\ f \in Funcs
  BY Formed DEF Tabled, Fit
<1>3. /\ t.values = s.values /\ t.edges = s.edges /\ t.executable = s.executable /\ t.calls = s.calls
      /\ t.bottomList = s.bottomList /\ t.instList = s.instList /\ t.blockList = s.blockList
      /\ t.returns = [s.returns EXCEPT ![f] = new]
  BY <1>2 DEF Tables
<1>4. s.returns \in [Funcs -> Claimed \cup {Absent, Void}]
  BY <1>2 DEF Tables
<1>5. t.returns \in [Funcs -> Claimed \cup {Absent, Void}] /\ t.returns[f] = new
        /\ \A g \in Funcs : g # f => t.returns[g] = s.returns[g]
  BY <1>1, <1>2, <1>3, <1>4
<1>6. t \in Tables
  <2> HIDE DEF f
  <2>0. s = [values |-> s.values, edges |-> s.edges, executable |-> s.executable, bottomList |-> s.bottomList,
             instList |-> s.instList, blockList |-> s.blockList, calls |-> s.calls, returns |-> s.returns]
    <3> HIDE DEF t
    <3> QED BY <1>2 DEF Tables
  <2> DEFINE w == [s.returns EXCEPT ![f] = new]
  <2>1. t = [values |-> s.values, edges |-> s.edges, executable |-> s.executable, bottomList |-> s.bottomList,
             instList |-> s.instList, blockList |-> s.blockList, calls |-> s.calls, returns |-> w]
    BY <2>0
  <2> HIDE DEF t
  <2>2. /\ t.values \in [Insts -> Claimed] /\ t.edges \in SUBSET (Blocks \X Blocks)
        /\ t.executable \in SUBSET Blocks /\ t.bottomList \in Seq(Insts) /\ t.instList \in Seq(Insts)
        /\ t.blockList \in Seq(Blocks) /\ t.calls \in [Funcs -> SUBSET Insts]
    BY <1>2, <1>3 DEF Tables
  <2> HIDE DEF w
  <2>3. w = t.returns
    BY <1>3 DEF w
  <2> QED BY <1>3, <1>5, <2>1, <2>2, <2>3 DEF Tables
<1> HIDE DEF t, f
<1>7. Queued(t) = Queued(s) /\ \A j : Live(t, j) <=> Live(s, j)
  BY <1>3 DEF Queued, Live
<1>8. Fit(t)
  BY <1>3, <1>6, <1>7 DEF Fit, Tabled
<1>9. \A j : Vals(t, j) = Vals(s, j)
  BY <1>3 DEF Vals
<1>10. ASSUME NEW j \in Insts, Settled(s, j) PROVE Settled(t, j)
  <2>1. CASE Inst(j).kind # "ret"
    <3>1. \A g : Entered(t, j, g) <=> Entered(s, j, g)
      BY <1>3 DEF Entered, Given
    <3>2. ValueSettled(s, j) => ValueSettled(t, j)
      BY <1>3, <1>9 DEF ValueSettled
    <3>3. PhiSettled(s, j) => PhiSettled(t, j)
      BY <1>3 DEF PhiSettled
    <3>4. JumpSettled(s, j) => JumpSettled(t, j)
      BY <1>3, <1>9 DEF JumpSettled
    <3>5. CallSettled(s, j) => CallSettled(t, j)
      BY <1>3, <1>9, <3>1 DEF CallSettled
    <3> QED BY <1>10, <2>1, <3>2, <3>3, <3>4, <3>5 DEF Settled
  <2>2. CASE Inst(j).kind = "ret"
    <3>1. FuncOf(j) \in Funcs /\ ReturnSettled(s, j)
      BY <1>10, <2>2, Formed DEF Settled
    <3>2. ReturnSettled(t, j)
      <4>1. CASE FuncOf(j) = f
        BY <1>1, <1>5, <1>9, <3>1, <4>1, Covering DEF ReturnSettled
      <4>2. CASE FuncOf(j) # f
        BY <1>5, <1>9, <3>1, <4>2 DEF ReturnSettled
      <4> QED BY <4>1, <4>2
    <3> QED BY <2>2, <3>2 DEF Settled, ValueKinds, Plainly, Silent, Unaries, Binaries
  <2> QED BY <2>1, <2>2
<1>11. Good(t, X)
  BY <1>7, <1>10 DEF Good, Tabled
<1>12. Opened(t, F)
  BY <1>3 DEF Opened, Open, Tabled
<1>13. Voids(t)
  <2> SUFFICES ASSUME NEW j \in Insts, Inst(j).kind = "ret", t.returns[FuncOf(j)] = Void
               PROVE  Inst(j).args = <<>>
    BY DEF Voids
  <2>1. FuncOf(j) \in Funcs
    BY Formed
  <2>2. CASE FuncOf(j) = f
    BY <1>1, <1>5, <2>2 DEF Plain, f
  <2>3. CASE FuncOf(j) # f
    BY <1>5, <2>1, <2>3 DEF Tabled, Voids
  <2> QED BY <2>2, <2>3
<1>14. Settled(t, r)
  <2>1. ReturnSettled(t, r)
    BY <1>1, <1>5, <1>9 DEF ReturnSettled, f
  <2> QED BY <2>1 DEF Settled, ValueKinds, Plainly, Silent, Unaries, Binaries
<1> QED BY <1>3, <1>7, <1>8, <1>11, <1>12, <1>13, <1>14 DEF f, new, t

\* The call sites of a function, none of which is a tail call.
LEMMA Sites ==
  ASSUME WellFormed(prog), NEW F, NEW X, Tabled(s, F, X), NEW f \in Funcs
  PROVE  /\ FullSites(f) \in Seq(Insts) /\ ToSet(FullSites(f)) = s.calls[f]
         /\ TailSites(f) = <<>>
         /\ \A j \in s.calls[f] : j \in Insts /\ Inst(j).kind \in {"call", "invoke"}
<1>1. \A j \in s.calls[f] : j \in Insts /\ Inst(j).kind \in {"call", "invoke"}
  <2>1. s.calls \in [Funcs -> SUBSET Insts]
    BY DEF Tabled, Fit, Tables
  <2> QED BY <2>1 DEF Tabled, Told
<1>2. \A j \in s.calls[f] : Cont(j) # None
  BY <1>1, CallTargets
<1>3. {j \in s.calls[f] : Cont(j) = None} = {} /\ {j \in s.calls[f] : Cont(j) # None} = s.calls[f]
  BY <1>2
<1>4. \A S : InOrder(S) \in Seq(Insts) /\ ToSet(InOrder(S)) = Insts \cap S
  <2>1. prog.order \in Seq(Insts) /\ ToSet(prog.order) = Insts
    BY Formed
  <2> QED BY <2>1, SelectedSet DEF InOrder
<1>5. FullSites(f) = InOrder(s.calls[f]) /\ TailSites(f) = InOrder({})
  BY <1>3 DEF FullSites, TailSites
<1>6. InOrder({}) = <<>>
  <2>1. InOrder({}) \in Seq(Insts) /\ ToSet(InOrder({})) = {}
    BY <1>4
  <2> DEFINE q == InOrder({})
  <2>2. q \in Seq(Insts) /\ ToSet(q) = {}
    BY <2>1
  <2> HIDE DEF q
  <2>3. q = <<>>
    BY <2>2, SetsOf
  <2> QED BY <2>3 DEF q
<1> QED BY <1>1, <1>4, <1>5, <1>6

-----------------------------------------------------------------------------
(* Steps of the solver                                                     *)

\* A loop along a return that runs.
LEMMA Returning ==
  ASSUME State(s, todo, rest, up), up.kind = "return"
  PROVE  \E r \in Insts : \E q, V :
           /\ up = [kind |-> "return", inst |-> r, queue |-> q, visited |-> V] /\ Inst(r).kind = "ret"
           /\ \/ q = <<None>> /\ V = {}
              \/ q = <<>> /\ (r \in Queued(s) \/ Settled(s, r))
           /\ r \in Waiting(rest, up) /\ up # Idle /\ r = up.inst /\ Live(s, r)
           /\ Tabled(s, ToSet(todo), Waiting(rest, up))
<1>1. up # Idle
  BY DEF Idle
<1>2. PICK r \in Insts : \E q, V : ReturnLoop(s, up, r, q, V)
  BY <1>1 DEF State, Loop, CallLoop
<1>3. PICK q, V : ReturnLoop(s, up, r, q, V)
  BY <1>2
<1>4. r = up.inst
  BY <1>3 DEF ReturnLoop
<1>5. r \in Waiting(rest, up)
  BY <1>1, <1>4 DEF Waiting
<1>6. Live(s, r) /\ Tabled(s, ToSet(todo), Waiting(rest, up))
  BY <1>5 DEF State
<1> QED BY <1>1, <1>3, <1>4, <1>5, <1>6 DEF ReturnLoop

\* A return tells the call sites of its function what the function now returns.
LEMMA ReturnRounds ==
  ASSUME WellFormed(prog), Plain, State(s, todo, rest, up), ReturnRound
  PROVE  State(s', todo', rest', up')
<1>1. up.kind = "return" /\ up.queue # <<>> /\ todo' = todo /\ rest' = rest
  BY DEF ReturnRound
<1>2. PICK r \in Insts : \E q, V :
           /\ up = [kind |-> "return", inst |-> r, queue |-> q, visited |-> V] /\ Inst(r).kind = "ret"
           /\ \/ q = <<None>> /\ V = {}
              \/ q = <<>> /\ (r \in Queued(s) \/ Settled(s, r))
           /\ r \in Waiting(rest, up) /\ up # Idle /\ r = up.inst /\ Live(s, r)
           /\ Tabled(s, ToSet(todo), Waiting(rest, up))
  BY <1>1, Returning
<1>3. up = [kind |-> "return", inst |-> r, queue |-> <<None>>, visited |-> {}]
  <2>1. PICK q, V : /\ up = [kind |-> "return", inst |-> r, queue |-> q, visited |-> V]
                    /\ (q = <<None>> /\ V = {}) \/ q = <<>>
    BY <1>2
  <2>2. q # <<>>
    BY <1>1, <2>1
  <2> QED BY <2>1, <2>2
<1> DEFINE f == FuncOf(r)
           new == Merge(s.returns[f], r, None)
           t == [s EXCEPT !.returns[f] = new]
           F == ToSet(todo)
           X == Waiting(rest, up)
<1>4. Head(up.queue) = None /\ Tail(up.queue) = <<>> /\ up.visited = {} /\ up.inst = r
  BY <1>3
<1>5. /\ s' = TellAll(t, new, FullSites(f))
      /\ up' = [up EXCEPT !.queue = <<>> \o TailSites(f), !.visited = {} \cup {f}]
  BY <1>4 DEF ReturnRound
<1>6. f \in Funcs /\ Tabled(s, F, X)
  BY <1>2, Formed
<1>7. /\ Fit(t) /\ Good(t, X) /\ Opened(t, F) /\ Voids(t)
      /\ t.values = s.values /\ t.edges = s.edges /\ t.executable = s.executable /\ t.calls = s.calls
      /\ Queued(t) = Queued(s) /\ t.returns = [s.returns EXCEPT ![f] = new] /\ Settled(t, r)
  <2> HIDE DEF F, X
  <2> QED BY <1>2, <1>6, ReturnsRise
<1>8. new \in Claimed \cup {Absent, Void}
  <2> HIDE DEF new, F, X
  <2>1. new = Merge(s.returns[FuncOf(r)], r, None)
    BY DEF new
  <2> QED BY <1>2, <1>6, <2>1, Merged
<1>9. /\ FullSites(f) \in Seq(Insts) /\ ToSet(FullSites(f)) = s.calls[f] /\ TailSites(f) = <<>>
      /\ \A j \in s.calls[f] : j \in Insts /\ Inst(j).kind \in {"call", "invoke"}
  <2> HIDE DEF f, F, X
  <2> QED BY <1>6, Sites
<1> HIDE DEF new, t, f, F, X
<1>10. Keeps(t, s') /\ \A j \in s.calls[f] : Told1(s', j, new)
  <2> DEFINE seq == FullSites(f)
  <2>1. /\ seq \in Seq(Insts) /\ (\A j \in ToSet(seq) : Inst(j).kind \in {"call", "invoke"})
        /\ s' = TellAll(t, new, seq) /\ ToSet(seq) = s.calls[f]
    BY <1>5, <1>9
  <2> HIDE DEF seq
  <2>2. Keeps(t, TellAll(t, new, seq)) /\ \A j \in ToSet(seq) : Told1(TellAll(t, new, seq), j, new)
    BY <1>7, <1>8, <2>1, AllAnswered DEF Plain
  <2> QED BY <2>1, <2>2
<1>11. Fit(s') /\ Good(s', X) /\ Opened(s', F) /\ Voids(s')
  <2>1. Fit(s') /\ Good(s', X \cup {}) /\ Opened(s', F) /\ Voids(s')
    BY <1>7, <1>10, GoodOn DEF Keeps
  <2> QED BY <2>1
<1>12. s'.calls = s.calls /\ s'.returns = t.returns /\ s.executable \subseteq s'.executable
  BY <1>7, <1>10 DEF Keeps, KeepsBut
<1>13. Told(s')
  <2> SUFFICES ASSUME NEW g \in Funcs, NEW j \in s'.calls[g]
               PROVE  /\ Inst(j).kind \in {"call", "invoke"}
                      /\ s'.returns[g] # Absent => Told1(s', j, s'.returns[g])
    BY DEF Told
  <2>1. s.returns \in [Funcs -> Claimed \cup {Absent, Void}] /\ s.calls \in [Funcs -> SUBSET Insts]
    BY <1>6 DEF Tabled, Fit, Tables
  <2>2. j \in s.calls[g] /\ j \in Insts
    BY <1>12, <2>1
  <2>3. Inst(j).kind \in {"call", "invoke"} /\ (s.returns[g] # Absent => Told1(s, j, s.returns[g]))
    BY <1>6, <2>2 DEF Tabled, Told
  <2>4. CASE g = f
    <3>1. s'.returns[g] = new
      BY <1>6, <1>7, <1>12, <2>1, <2>4
    <3> QED BY <1>10, <2>2, <2>3, <2>4, <3>1
  <2>5. CASE g # f
    <3>1. s'.returns[g] = s.returns[g]
      BY <1>6, <1>7, <1>12, <2>1, <2>5
    <3>2. \A c : Told1(s, j, c) => Told1(t, j, c)
      BY <1>7 DEF Told1
    <3>3. \A c : Told1(t, j, c) => Told1(s', j, c)
      BY <1>10, <2>2, <2>3, StaysTold
    <3> QED BY <2>3, <3>1, <3>2, <3>3
  <2> QED BY <2>4, <2>5
<1>14. Tabled(s', F, X)
  BY <1>11, <1>13 DEF Tabled
<1>15. up' = [kind |-> "return", inst |-> r, queue |-> <<>>, visited |-> {f}]
  <2>1. up' = [up EXCEPT !.queue = <<>> \o <<>>, !.visited = {} \cup {f}]
    BY <1>5, <1>9
  <2>2. <<>> \o <<>> = <<>> /\ {} \cup {f} = {f}
    OBVIOUS
  <2> QED BY <1>3, <2>1, <2>2
<1>16. r \in Queued(s') \/ Settled(s', r)
  <2>1. Live(t, r)
    BY <1>2, <1>7 DEF Live
  <2> QED BY <1>7, <1>10, <2>1 DEF Keeps, KeepsBut
<1>17. Loop(s', up')
  <2>1. ReturnLoop(s', up', r, <<>>, {f})
    BY <1>2, <1>15, <1>16 DEF ReturnLoop
  <2> QED BY <2>1 DEF Loop
<1>18. Waiting(rest, up') = X
  BY <1>3, <1>15 DEF Waiting, Idle, X
<1>19. \A j \in X : j \in Insts /\ Live(s', j)
  BY <1>12 DEF State, Live, X
<1> QED BY <1>1, <1>14, <1>17, <1>18, <1>19 DEF State, F

\* The loop along a return is over.
LEMMA LoopEnds ==
  ASSUME State(s, todo, rest, up), LoopEnd
  PROVE  State(s', todo', rest', up')
<1>1. up.kind \in {"over", "return"} /\ up.queue = <<>> /\ up' = Idle /\ s' = s /\ todo' = todo /\ rest' = rest
  BY DEF LoopEnd
<1>2. up.kind = "return"
  <2>1. up.kind # "over"
    BY DEF State, Loop, CallLoop, ReturnLoop, Idle
  <2> QED BY <1>1, <2>1
<1>3. PICK r \in Insts : \E q, V :
           /\ up = [kind |-> "return", inst |-> r, queue |-> q, visited |-> V] /\ Inst(r).kind = "ret"
           /\ \/ q = <<None>> /\ V = {}
              \/ q = <<>> /\ (r \in Queued(s) \/ Settled(s, r))
           /\ r \in Waiting(rest, up) /\ up # Idle /\ r = up.inst /\ Live(s, r)
           /\ Tabled(s, ToSet(todo), Waiting(rest, up))
  BY <1>2, Returning
<1>4. r \in Queued(s) \/ Settled(s, r)
  BY <1>1, <1>3
<1>5. State(s, todo, rest, Idle)
  BY <1>3, <1>4, LoopOver
<1> QED BY <1>1, <1>5

\* Without tail calls some steps are not taken.
LEMMA NoTail ==
  ASSUME Plain, State(s, todo, rest, up)
  PROVE  ~ VisitTailCall /\ ~ OverdefinedRound
<1>1. ~ OverdefinedRound
  <2>1. OverdefinedRound => up.kind = "over"
    BY DEF OverdefinedRound
  <2>2. up.kind # "over"
    BY DEF State, Loop, CallLoop, ReturnLoop, Idle
  <2> QED BY <2>1, <2>2
<1>2. ASSUME VisitTailCall PROVE FALSE
  <2>1. up = Idle /\ rest # <<>> /\ Inst(Head(rest)).kind = "tcall"
    BY <1>2 DEF VisitTailCall, Visiting
  <2>2. Head(rest) \in Insts
    BY <2>1, AtHead
  <2> QED BY <2>1, <2>2 DEF Plain
<1> QED BY <1>1, <1>2

\* Every step of the solver keeps its state.
LEMMA SolverSteps ==
  ASSUME WellFormed(prog), Plain, State(s, todo, rest, up), Next
  PROVE  prog' = prog /\ State(s', todo', rest', up')
<1>0. Weak = {}
  BY DEF Plain
<1>1. prog' = prog
  BY DEF Next, Start, TakeBottom, TakeInst, TakeBlock, VisitInst, VisitJump, VisitJumpCond, VisitSwitch, VisitCall,
         VisitTailCall, VisitReturn, CallRound, CallEnd, OverdefinedRound, ReturnRound, LoopEnd, Leave
<1>2. CASE Start
  BY <1>0, <1>1, <1>2, Starts
<1>3. CASE TakeBottom \/ TakeInst \/ TakeBlock
  BY <1>1, <1>3, Takes
<1>4. CASE VisitInst
  BY <1>0, <1>1, <1>4, VisitsInst
<1>5. CASE VisitJump \/ VisitJumpCond \/ VisitSwitch
  BY <1>0, <1>1, <1>5, VisitsJump
<1>6. CASE VisitCall
  BY <1>0, <1>1, <1>6, VisitsCall
<1>7. CASE VisitReturn
  BY <1>1, <1>7, VisitsReturn
<1>8. CASE CallRound \/ CallEnd
  BY <1>0, <1>1, <1>8, CallRounds
<1>9. CASE ReturnRound
  BY <1>1, <1>9, ReturnRounds
<1>10. CASE LoopEnd
  BY <1>1, <1>10, LoopEnds
<1>11. ~ VisitTailCall /\ ~ OverdefinedRound
  BY NoTail
<1> QED BY <1>1, <1>2, <1>3, <1>4, <1>5, <1>6, <1>7, <1>8, <1>9, <1>10, <1>11 DEF Next

\* The program does not change, and nothing that the solver keeps true asks for more.
LEMMA Frozen ==
  ASSUME prog' = prog
  PROVE  /\ State(s, todo, rest, up)' <=> State(s', todo', rest', up')
         /\ Plain' <=> Plain
         /\ WellFormed(prog)' <=> WellFormed(prog)
<1>1. State(s, todo, rest, up)' <=> State(s', todo', rest', up')
  BY DEF State, Tabled, Fit, Good, Told, Opened, Voids, Tables, Waiting, Loop, CallLoop, ReturnLoop, Reaches, Open,
         Told1, Live, Queued, Settled, ReturnSettled, CallSettled, JumpSettled, PhiSettled, IsFunc, Entered, Given,
         IsArg, Edge, Taken, SwitchTaken, CondTaken, IsEntry, HasAddressTaken, BlockOf, FuncOf, Blocks, Funcs,
         ValueSettled, Waits, Evaluated, Vals, Lacking, SubleafOf, Loaded, IsConstant, InData, Holders, Reached,
         UsersOf, Insts, Inst, IsOf
<1>2. Plain' <=> Plain
  BY DEF Plain, Insts, Inst, FuncOf, BlockOf
<1>3. WellFormed(prog)' <=> WellFormed(prog)
  OBVIOUS
<1> QED BY <1>1, <1>2, <1>3

\* A finite set, put into a sequence, is what the sequence holds.
LEMMA InSequence ==
  ASSUME NEW S, IsFiniteSet(S)
  PROVE  SetToSeq(S) \in Seq(S) /\ ToSet(SetToSeq(S)) = S
<1> DEFINE n == Cardinality(S)
           q == SetToSeq(S)
<1>1. n \in Nat /\ ExistsBijection(1 .. n, S)
  BY FS_CardinalityType
<1>2. q \in [1 .. n -> S] /\ IsInjective(q)
  <2>1. PICK b \in Bijection(1 .. n, S) : TRUE
    BY <1>1 DEF ExistsBijection
  <2>2. b \in [1 .. n -> S] /\ IsInjective(b)
    BY <2>1 DEF Bijection, Injection
  <2> QED BY <2>2 DEF SetToSeq
<1> HIDE DEF q, n
<1> DEFINE T == ToSet(q)
<1>3. T = {q[k] : k \in 1 .. n} /\ T \subseteq S
  BY <1>2 DEF ToSet
<1>4. q \in Bijection(1 .. n, T)
  <2>1. q \in [1 .. n -> T] /\ \A x \in T : \E k \in 1 .. n : q[k] = x
    BY <1>2, <1>3
  <2> QED BY <1>2, <2>1 DEF Bijection, Injection, Surjection
<1>5. ExistsBijection(1 .. n, T) /\ IsFiniteSet(1 .. n) /\ Cardinality(1 .. n) = n
  BY <1>1, <1>4, FS_Interval DEF ExistsBijection
<1>6. Cardinality(T) = n
  <2> HIDE DEF T
  <2> QED BY <1>5, FS_Bijection
<1>7. T = S
  <2> HIDE DEF T
  <2> QED BY <1>3, <1>6, FS_Subset DEF n
<1>8. q \in Seq(S)
  BY <1>1, <1>2
<1> QED BY <1>7, <1>8 DEF q

\* Nothing is known at first, and nothing can be executed.
LEMMA Begins ==
  ASSUME Init
  PROVE  SolverInv
<1>1. WellFormed(prog)
  BY ProgramsAssumption DEF Init
<1> SUFFICES ASSUME Plain PROVE State(s, todo, rest, up)
  BY <1>1 DEF SolverInv
<1>2. /\ s = [values |-> [i \in Insts |-> Unknown], edges |-> {}, executable |-> {},
              bottomList |-> <<>>, instList |-> <<>>, blockList |-> <<>>,
              calls |-> [f \in Funcs |-> {}], returns |-> [f \in Funcs |-> Absent]]
      /\ todo = SetToSeq(Funcs) /\ rest = <<>> /\ up = Idle
  BY DEF Init
<1>3. /\ s.values = [i \in Insts |-> Unknown] /\ s.edges = {} /\ s.executable = {}
      /\ s.bottomList = <<>> /\ s.instList = <<>> /\ s.blockList = <<>>
      /\ s.calls = [f \in Funcs |-> {}] /\ s.returns = [f \in Funcs |-> Absent]
  BY <1>2
<1>4. todo \in Seq(Funcs) /\ ToSet(todo) = Funcs
  BY <1>1, <1>2, InSequence DEF WellFormed, Funcs
<1>5. ToSet(<<>>) = {}
  BY DEF ToSet
<1>6. Queued(s) = {} /\ Waiting(rest, up) = {}
  BY <1>2, <1>3, <1>5 DEF Queued, Waiting
<1>7. Fit(s)
  <2>1. s \in Tables
    <3>1. Unknown \in Claimed /\ Absent \in Claimed \cup {Absent, Void}
      BY DEF Claimed
    <3>2. /\ [i \in Insts |-> Unknown] \in [Insts -> Claimed]
          /\ [f \in Funcs |-> {}] \in [Funcs -> SUBSET Insts]
          /\ [f \in Funcs |-> Absent] \in [Funcs -> Claimed \cup {Absent, Void}]
      BY <3>1
    <3> QED BY <1>2, <3>2 DEF Tables
  <2>2. \A a \in Insts : ~ Is(s.values[a], "frame")
    <3>1. ~ Is(Unknown, "frame") /\ \A a \in Insts : s.values[a] = Unknown
      BY <1>3 DEF Is, Unknown
    <3> QED BY <3>1
  <2> QED BY <1>3, <1>6, <2>1, <2>2 DEF Fit
<1>8. Good(s, {}) /\ Told(s) /\ Opened(s, Funcs)
  BY <1>3 DEF Good, Live, Told, Opened
<1>9. Voids(s)
  <2>1. \A i \in Insts : FuncOf(i) \in Funcs
    BY <1>1, Formed
  <2>2. \A i \in Insts : s.returns[FuncOf(i)] = Absent
    BY <1>3, <2>1
  <2>3. Absent # Void
    BY DEF Absent, Void
  <2> QED BY <2>2, <2>3 DEF Voids
<1>10. Tabled(s, ToSet(todo), Waiting(rest, up)) /\ Loop(s, up)
  BY <1>2, <1>4, <1>6, <1>7, <1>8, <1>9 DEF Tabled, Loop
<1>11. rest \in Seq(Insts) /\ \A i \in Waiting(rest, up) : i \in Insts /\ Live(s, i)
  BY <1>2, <1>6
<1> QED BY <1>4, <1>10, <1>11 DEF State

\* No step of the solver breaks what it keeps true.
LEMMA SolverKeeps ==
  ASSUME SolverInv, [Next]_vars
  PROVE  SolverInv'
<1>1. CASE Next
  <2>1. prog' = prog
    BY <1>1 DEF Next, Start, TakeBottom, TakeInst, TakeBlock, VisitInst, VisitJump, VisitJumpCond, VisitSwitch,
                VisitCall, VisitTailCall, VisitReturn, CallRound, CallEnd, OverdefinedRound, ReturnRound, LoopEnd,
                Leave
  <2>2. ASSUME Plain PROVE State(s', todo', rest', up')
    BY <1>1, <2>2, SolverSteps DEF SolverInv
  <2> QED BY <2>1, <2>2, Frozen DEF SolverInv
<1>2. CASE UNCHANGED vars
  <2>1. prog' = prog /\ s' = s /\ todo' = todo /\ rest' = rest /\ up' = up
    BY <1>2 DEF vars
  <2>2. State(s', todo', rest', up') <=> State(s, todo, rest, up)
    BY <2>1
  <2> QED BY <2>1, <2>2, Frozen DEF SolverInv
<1> QED BY <1>1, <1>2

\* The invariant of the solver: each instruction of code that can be executed is
\* settled or due for a visit, call sites know what their functions return, and
\* functions that others may call are open.
THEOREM SolverInvariant == Spec => []SolverInv
<1>1. Init => SolverInv
  BY Begins
<1>2. SolverInv /\ [Next]_vars => SolverInv'
  BY SolverKeeps
<1> QED BY <1>1, <1>2, PTL DEF Spec

\* What the solver has found out when it is done.
Solved ==
  /\ Fit(s)
  /\ \A i \in Insts : Live(s, i) => Settled(s, i)
  /\ Told(s) /\ Opened(s, {}) /\ Voids(s)

\* The lists are empty and nothing is left to be visited.
LEMMA AtRest ==
  ASSUME WellFormed(prog), State(s, todo, rest, up), Done
  PROVE  Solved
<1>1. todo = <<>> /\ rest = <<>> /\ up = Idle /\ \A p \in {"bottom", "inst", "block"} : Lists[p] = <<>>
  BY DEF Done, Ready, Lists
<1>2. s.bottomList = <<>> /\ s.instList = <<>> /\ s.blockList = <<>>
  <2>1. Lists["bottom"] = s.bottomList /\ Lists["inst"] = s.instList /\ Lists["block"] = s.blockList
    BY DEF Lists
  <2> QED BY <1>1, <2>1
<1>3. ToSet(<<>>) = {}
  BY DEF ToSet
<1>4. Queued(s) = {} /\ Waiting(rest, up) = {} /\ ToSet(todo) = {}
  BY <1>1, <1>2, <1>3 DEF Queued, Waiting
<1>5. Tabled(s, {}, {})
  BY <1>4 DEF State
<1>6. \A i \in Insts : Live(s, i) => Settled(s, i)
  BY <1>4, <1>5 DEF Tabled, Good
<1> QED BY <1>5, <1>6 DEF Tabled, Solved

\* When the solver stops its tables are a fixpoint: each instruction of code that can
\* be executed holds what is made of its operands, each edge that can be taken is
\* marked, each call has entered its callee, and each call site knows what comes back.
THEOREM Fixpoint == Spec => [](Plain /\ Done => Solved)
<1>1. SolverInv => (Plain /\ Done => Solved)
  BY AtRest DEF SolverInv
<1> QED BY <1>1, SolverInvariant, PTL

\* A solver that is done does nothing more.
LEMMA Stopped ==
  ASSUME Done
  PROVE  ~ Next
<1>1. todo = <<>> /\ rest = <<>> /\ up = Idle /\ \A p \in {"bottom", "inst", "block"} : Lists[p] = <<>>
  BY DEF Done, Ready, Lists
<1>2. \A p \in {"bottom", "inst", "block"} : ~ Turn(p)
  BY <1>1 DEF Turn
<1>3. up.kind = "none"
  BY <1>1 DEF Idle
<1>4. ~ Start /\ ~ TakeBottom /\ ~ TakeInst /\ ~ TakeBlock
  BY <1>1, <1>2 DEF Start, TakeBottom, TakeInst, TakeBlock
<1>5. ~ VisitInst /\ ~ VisitJump /\ ~ VisitJumpCond /\ ~ VisitSwitch /\ ~ VisitCall /\ ~ VisitTailCall /\ ~ VisitReturn
  BY <1>1 DEF VisitInst, VisitJump, VisitJumpCond, VisitSwitch, VisitCall, VisitTailCall, VisitReturn, Visiting
<1>6. ~ CallRound /\ ~ CallEnd /\ ~ OverdefinedRound /\ ~ ReturnRound /\ ~ LoopEnd
  BY <1>3 DEF CallRound, CallEnd, OverdefinedRound, ReturnRound, LoopEnd
<1> QED BY <1>4, <1>5, <1>6 DEF Next

=============================================================================
