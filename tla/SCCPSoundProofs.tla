--------------------------- MODULE SCCPSoundProofs ---------------------------
(***************************************************************************)
(* Proofs about the runs of a program that has been solved: they execute   *)
(* only what is marked executable, and compute only values that the        *)
(* lattice allows.  What the solver keeps true is proved in SCCPProofs.    *)
(***************************************************************************)
EXTENDS SCCPProofs

-----------------------------------------------------------------------------
(* What runs keep true                                                     *)

\* What the proofs about the operators of the evaluator ask of an instruction whose
\* operands are known: cases where the machine and the evaluator may disagree are
\* left out (README).
FloatLike == {"overdefined", "undefined", "float", "float_zero"}
CleanInst(i) ==
  LET kind == Inst(i).kind
      vs == Vals(s, i)
  IN \/ Lacking(vs)
     \/ /\ kind = "cpuid" => Len(Inst(i).args) = 2
        /\ kind = "neg" => vs[1].kind \in {"int", "overdefined", "undefined"}
        /\ kind = "sll" => ~ (vs[1] = Overdefined /\ vs[2] = Null)
        /\ kind = "fadd" => ~ (Is(vs[1], "float") /\ vs[1].float \in FloatZeros /\ vs[2] = FloatZero)
        /\ kind = "cmp" => /\ ~ (Is(vs[1], "global") /\ Is(vs[2], "range"))
                           /\ Inst(i).val.rel \in Relations \/ {vs[1].kind, vs[2].kind} \subseteq FloatLike
        /\ kind = "ret" /\ Inst(i).args # <<>> => ~ Is(vs[1], "frame")

\* Programs that the theorem about runs is about, once they are solved.
Clean == Plain /\ \A i \in Insts : Live(s, i) => CleanInst(i)

\* The values of a run.
RunValues ==
  {Undefined} \cup IntConstants \cup FloatConstants \cup {CreateGlobal(p[1], p[2]) : p \in Syms \X Int}
    \cup {Stack(p[1], p[2], p[3]) : p \in Funcs \X Objects \X Int}

\* Data that is not constant, and that is nevertheless taken to be: nobody but the
\* instructions that load from it has its address.
Quiet(g) == g \in DOMAIN prog.data /\ ~ prog.data[g].constant /\ IsConstant(g)

\* An address that may be anywhere: of a function that anybody may call, of data that
\* the solver says nothing of.
Loose(x) == Is(x, "global") => (x.sym \in Funcs => IsEntry(x.sym)) /\ ~ Quiet(x.sym)

\* Other addresses are where the program writes them, or where they are moved to.
Belongs(i, x) ==
  Is(x, "global") =>
    /\ x.sym \in Funcs => IsEntry(x.sym) \/ (Inst(i).kind = "mov" /\ IsOf(Inst(i).val, x.sym))
    /\ Quiet(x.sym) => i \in Holders(x.sym) /\ Inst(i).kind \in Transparent

\* Instruction i has the value x in an activation of f.
Has(i, x, f) == x \in RunValues /\ Live(s, i) /\ Stands(x, s.values[i], f) /\ Belongs(i, x)

\* An activation executes code of its function, all of it marked executable, and what
\* it has computed and was given is what the solver says.
Activations == [code : Seq(Insts), func : Funcs, env : [Insts -> RunValues \cup {Unknown}], args : Seq(RunValues)]
Argument(args, a) == IF Inst(a).idx + 1 \in DOMAIN args THEN args[Inst(a).idx + 1] ELSE Undefined
Receives(f, args) ==
  /\ \A k \in DOMAIN args : Loose(args[k])
  /\ \A a \in Insts : IsArg(a, f) => Stands(Argument(args, a), s.values[a], f)
Executable(f, code) == \A i \in ToSet(code) : Live(s, i) /\ FuncOf(i) = f
Environment(f, env) == \A i \in Insts : env[i] # Unknown => Has(i, env[i], f)
Active(act) ==
  /\ act \in Activations
  /\ Executable(act.func, act.code) /\ Environment(act.func, act.env) /\ Receives(act.func, act.args)

\* An activation waits at a call for the return of function g.
Returns(i, g) ==
  \/ i \in s.calls[g]
  \/ (Inst(i).rets => Covers(Overdefined, s.values[i])) /\ Edge(i, Inst(i).to[1]) \in s.edges
Awaits(act, g) ==
  /\ act.code # <<>>
  /\ Inst(Head(act.code)).kind \in {"call", "invoke"}
  /\ Returns(Head(act.code), g)
  /\ Inst(Head(act.code)).kind = "invoke" => Edge(Head(act.code), Inst(Head(act.code)).to[2]) \in s.edges

\* A stack of activations, each of which waits for the one above it.
Stacked(acts) ==
  /\ acts \in Seq(Activations)
  /\ \A n \in 1 .. Len(acts) : Active(acts[n])
  /\ \A n \in 1 .. Len(acts) - 1 : Awaits(acts[n], acts[n + 1].func)

\* Memory holds loose addresses only, and none of it is taken to be constant.
Stored(m) ==
  /\ m = [cells |-> m.cells, escaped |-> m.escaped]
  /\ \A c \in DOMAIN m.cells : m.cells[c] \in RunValues /\ Loose(m.cells[c]) /\ ~ IsConstant(c[1])
  /\ \A g \in m.escaped : ~ Quiet(g)

\* Memory before a run.
Nothing == [cells |-> <<>>, escaped |-> {}]

-----------------------------------------------------------------------------

\* Values of a run are described by the lattice, and no other.
LEMMA RunKinds ==
  ASSUME NEW x \in RunValues
  PROVE  /\ IsRunValue(x)
         /\ x # Unknown
         /\ Is(x, "stack") => \E f \in Funcs, o \in Objects, n \in Int : x = Stack(f, o, n)
<1>1. \/ x \in {Undefined} \cup IntConstants \cup FloatConstants
      \/ \E p \in Syms \X Int : x = CreateGlobal(p[1], p[2])
      \/ \E p \in Funcs \X Objects \X Int : x = Stack(p[1], p[2], p[3])
  BY DEF RunValues
<1>2. CASE x \in {Undefined} \cup IntConstants \cup FloatConstants
  <2>1. x.kind \in {"undefined", "int", "float"}
    BY <1>2 DEF Undefined, IntConstants, FloatConstants, CreateInteger, CreateFloat
  <2> QED BY <1>2, <2>1 DEF IsRunValue, Is, Unknown
<1>3. CASE \E p \in Syms \X Int : x = CreateGlobal(p[1], p[2])
  <2>1. PICK p \in Syms \X Int : x = CreateGlobal(p[1], p[2])
    BY <1>3
  <2>2. p[1] \in Syms /\ p[2] \in Int /\ x.kind = "global"
    BY <2>1 DEF CreateGlobal
  <2> QED BY <2>1, <2>2 DEF IsRunValue, Is, Unknown
<1>4. CASE \E p \in Funcs \X Objects \X Int : x = Stack(p[1], p[2], p[3])
  <2>1. PICK p \in Funcs \X Objects \X Int : x = Stack(p[1], p[2], p[3])
    BY <1>4
  <2>2. p[1] \in Funcs /\ p[2] \in Objects /\ p[3] \in Int /\ x.kind = "stack"
    BY <2>1 DEF Stack
  <2> QED BY <2>1, <2>2 DEF IsRunValue, Is, Unknown
<1> QED BY <1>1, <1>2, <1>3, <1>4

\* How values of a run are made.
LEMMA RunBuilds ==
  /\ Undefined \in RunValues /\ AnyInt \subseteq RunValues /\ AnyFloat \subseteq RunValues
  /\ \A b \in SUBSET Bits : CreateInteger(b) \in AnyInt
  /\ \A c \in FloatZeros : CreateFloat(c) \in AnyFloat
  /\ \A g \in Syms, n \in Int : CreateGlobal(g, n) \in RunValues
  /\ \A f \in Funcs, o \in Objects, n \in Int : Stack(f, o, n) \in RunValues
  /\ \A b \in SUBSET Bits : CreateInteger(b) \in RunValues
<1>1. \A b \in SUBSET Bits : CreateInteger(b) \in AnyInt
  BY DEF AnyInt, IntConstants
<1>2. \A c \in FloatZeros : CreateFloat(c) \in AnyFloat
  BY LatticeAssumption DEF AnyFloat, FloatConstants
<1>3. ASSUME NEW g \in Syms, NEW n \in Int PROVE CreateGlobal(g, n) \in RunValues
  <2> DEFINE p == <<g, n>>
  <2>1. p \in Syms \X Int /\ p[1] = g /\ p[2] = n
    OBVIOUS
  <2> HIDE DEF p
  <2> QED BY <2>1 DEF RunValues
<1>4. ASSUME NEW f \in Funcs, NEW o \in Objects, NEW n \in Int PROVE Stack(f, o, n) \in RunValues
  <2> DEFINE p == <<f, o, n>>
  <2>1. p \in Funcs \X Objects \X Int /\ p[1] = f /\ p[2] = o /\ p[3] = n
    OBVIOUS
  <2> HIDE DEF p
  <2> QED BY <2>1 DEF RunValues
<1>5. Undefined \in RunValues /\ AnyInt \subseteq RunValues /\ AnyFloat \subseteq RunValues
  BY DEF RunValues, AnyInt, AnyFloat
<1> QED BY <1>1, <1>2, <1>3, <1>4, <1>5

\* What comes from outside, and what a program writes, are values of runs.
LEMMA WrittenRuns ==
  ASSUME NEW v, Written(v)
  PROVE  v \in RunValues
BY RunBuilds DEF Written, RunValues

-----------------------------------------------------------------------------
(* What instructions compute                                               *)

\* An address among the results is the address that an operand had, moved.
Derived(z, x) == Is(z, "global") => Is(x, "global") /\ x.sym = z.sym

\* Integers and floating-point numbers are nobody's address.
LEMMA NoAddress ==
  ASSUME NEW z, z \in AnyInt \cup AnyFloat \cup {Undefined}
  PROVE  z \in RunValues /\ \A x : Derived(z, x)
<1>1. z \in RunValues
  BY RunBuilds
<1>2. z.kind \in {"int", "float", "undefined"}
  BY DEF AnyInt, AnyFloat, IntConstants, FloatConstants, CreateInteger, CreateFloat, Undefined
<1> QED BY <1>1, <1>2 DEF Derived, Is

\* What the machine makes of two integers.
LEMMA IntsRun ==
  ASSUME NEW op \in Binaries \ {"fadd", "fmul"}, NEW l \in SUBSET Bits, NEW r \in SUBSET Bits, NEW z \in OnInts(op, l, r)
  PROVE  z \in AnyInt \cup {Undefined}
<1>1. /\ Num(l) \in Nat /\ Num(r) \in Nat /\ Signed(l) \in Int /\ Signed(r) \in Int
      /\ Width \in Nat /\ Width > 0 /\ Bits = 0 .. Width - 1
  BY Word, SignedWord, Words
<1>2. \A n \in Int : IntOf(n) \in AnyInt
  BY Wrap, RunBuilds DEF IntOf
<1>3. \A b : Flag(b) \in AnyInt
  BY Words, RunBuilds DEF Flag
<1>4. CASE op \in {"add", "sub", "mul"}
  <2>1. Num(l) + Num(r) \in Int /\ Num(l) - Num(r) \in Int /\ Num(l) * Num(r) \in Int
    BY <1>1
  <2>2. z \in {IntOf(Num(l) + Num(r)), IntOf(Num(l) - Num(r)), IntOf(Num(l) * Num(r))}
    BY <1>4 DEF OnInts
  <2> QED BY <1>2, <2>1, <2>2
<1>5. CASE op \in {"and", "or", "xor"}
  <2>1. z \in {CreateInteger(l \cap r), CreateInteger(l \cup r), CreateInteger((l \cup r) \ (l \cap r))}
    BY <1>5 DEF OnInts
  <2> QED BY <2>1, RunBuilds
<1>6. CASE op = "udiv"
  BY <1>6 DEF OnInts
<1>7. CASE op = "sdiv"
  <2>1. r # {} /\ z = IntOf(Quotient(Signed(l), Signed(r)))
    BY <1>7 DEF OnInts
  <2>2. Signed(r) # 0
    <3>1. Num(r) # 0 /\ Num(r) < 2 ^ Width
      BY <2>1, Word
    <3>2. Signed(r) = Num(r) \/ Signed(r) = Num(r) - 2 ^ Width
      BY SignedWord
    <3>3. 2 ^ Width \in Nat
      BY Words
    <3> QED BY <1>1, <3>1, <3>2, <3>3
  <2>3. Quotient(Signed(l), Signed(r)) \in Int
    <3>1. \A a \in Int, b \in Int : b # 0 => Quotient(a, b) \in Int
      BY DEF Quotient
    <3> QED BY <1>1, <2>2, <3>1
  <2> QED BY <1>2, <2>1, <2>3
<1>8. CASE op = "urem"
  <2>1. r # {} /\ z = IntOf(Num(l) % Num(r))
    BY <1>8 DEF OnInts
  <2>2. Num(r) # 0
    BY <2>1, Word
  <2>3. Num(l) % Num(r) \in Int
    BY <1>1, <2>2
  <2> QED BY <1>2, <2>1, <2>3
<1>9. CASE op \in {"ouadd", "oumul", "osadd"}
  <2>1. \E b : z = Flag(b)
    BY <1>9 DEF OnInts
  <2> QED BY <1>3, <2>1
<1>10. CASE op \in {"sll", "srl", "sra"}
  <2>1. z = Undefined \/ z \in {IntOf(Num(l) * 2 ^ Num(r)), IntOf(Num(l) \div 2 ^ Num(r)), IntOf(Signed(l) \div 2 ^ Num(r))}
    BY <1>10 DEF OnInts
  <2>2. 2 ^ Num(r) \in Nat /\ 2 ^ Num(r) > 0
    BY <1>1, Power
  <2>3. Num(l) * 2 ^ Num(r) \in Int /\ Num(l) \div 2 ^ Num(r) \in Int /\ Signed(l) \div 2 ^ Num(r) \in Int
    <3> DEFINE p == 2 ^ Num(r)
    <3>1. p \in Nat /\ p > 0
      BY <2>2
    <3> HIDE DEF p
    <3>2. Num(l) * p \in Int /\ Num(l) \div p \in Int /\ Signed(l) \div p \in Int
      BY <1>1, <3>1
    <3> QED BY <3>2 DEF p
  <2> QED BY <1>2, <2>1, <2>3
<1>11. CASE op \in {"rotl", "rotr"}
  <2>1. z \in {CreateInteger({(i + Num(r)) % Width : i \in l}), CreateInteger({(i - Num(r)) % Width : i \in l})}
    BY <1>11 DEF OnInts
  <2>2. \A n \in Int : n % Width \in Bits
    BY <1>1
  <2>3. \A i \in l : i + Num(r) \in Int /\ i - Num(r) \in Int
    BY <1>1
  <2>4. {(i + Num(r)) % Width : i \in l} \in SUBSET Bits /\ {(i - Num(r)) % Width : i \in l} \in SUBSET Bits
    BY <2>2, <2>3
  <2> QED BY <2>1, <2>4, RunBuilds
<1> QED BY <1>4, <1>5, <1>6, <1>7, <1>8, <1>9, <1>10, <1>11 DEF Binaries

\* An address that is moved is an address of the same object.
LEMMA Moving ==
  ASSUME NEW x \in RunValues, IsAddress(x), NEW n \in Int
  PROVE  AddTo(x, n) \in RunValues /\ Derived(AddTo(x, n), x)
<1>1. IsRunValue(x)
  BY RunKinds
<1>2. CASE Is(x, "global")
  <2>1. x = CreateGlobal(x.sym, x.off) /\ x.sym \in Syms /\ x.off \in Int
    BY <1>1, <1>2, Kinds DEF Is
  <2>2. AddTo(x, n) = CreateGlobal(x.sym, x.off + n)
    <3> DEFINE g == x.sym
               k == x.off
    <3>1. x = CreateGlobal(g, k)
      BY <2>1
    <3> HIDE DEF g, k
    <3>2. AddTo(CreateGlobal(g, k), n) = CreateGlobal(g, k + n)
      BY DEF AddTo, CreateGlobal
    <3> QED BY <3>1, <3>2 DEF g, k
  <2>3. x.off + n \in Int
    BY <2>1
  <2>4. CreateGlobal(x.sym, x.off + n) \in RunValues
    BY <2>1, <2>3, RunBuilds
  <2>5. AddTo(x, n).sym = x.sym
    BY <2>2 DEF CreateGlobal
  <2> QED BY <1>2, <2>2, <2>4, <2>5 DEF Derived
<1>3. CASE Is(x, "stack")
  <2>1. PICK f \in Funcs, o \in Objects, m \in Int : x = Stack(f, o, m)
    BY <1>3, RunKinds
  <2>2. AddTo(x, n) = Stack(f, o, m + n)
    BY <2>1 DEF AddTo, Stack
  <2>3. Stack(f, o, m + n) \in RunValues
    BY RunBuilds
  <2>4. ~ Is(Stack(f, o, m + n), "global")
    BY DEF Is, Stack
  <2> QED BY <2>2, <2>3, <2>4 DEF Derived
<1> QED BY <1>2, <1>3 DEF IsAddress, Is

\* What the machine makes of an address and an integer.
LEMMA AddressRuns ==
  ASSUME NEW op, NEW x \in RunValues, IsAddress(x), NEW i \in RunValues, Is(i, "int"), NEW first \in BOOLEAN,
         NEW z \in OnAddress(op, x, i, first)
  PROVE  z \in RunValues /\ Derived(z, x)
<1>1. IsRunValue(i) /\ i = CreateInteger(i.bits) /\ i.bits \in SUBSET Bits
  BY RunKinds, Kinds DEF Is
<1>2. Num(i.bits) \in Nat /\ Signed(i.bits) \in Int /\ 0 - Signed(i.bits) \in Int
  BY <1>1, Word, SignedWord
<1>3. AndAddress(x, i) \subseteq AnyInt
  BY DEF AndAddress
<1>4. z \in {AddTo(x, Signed(i.bits)), AddTo(x, 0 - Signed(i.bits)), AddTo(x, Num(i.bits)), x} \cup AnyInt
  BY <1>3 DEF OnAddress
<1>5. \A n \in Int : AddTo(x, n) \in RunValues /\ Derived(AddTo(x, n), x)
  BY Moving
<1>6. Derived(x, x)
  BY DEF Derived
<1>7. Num(i.bits) \in Int
  BY <1>2
<1> QED BY <1>2, <1>4, <1>5, <1>6, <1>7, NoAddress

\* What the machine makes of two operands.
LEMMA BinaryRuns ==
  ASSUME NEW op \in Binaries, NEW x \in RunValues, NEW y \in RunValues, NEW z \in Binary(op, x, y)
  PROVE  z \in RunValues /\ (Derived(z, x) \/ Derived(z, y))
<1>1. IsRunValue(x) /\ IsRunValue(y)
  BY RunKinds
<1>2. /\ Is(x, "int") => x.bits \in SUBSET Bits
      /\ Is(y, "int") => y.bits \in SUBSET Bits
  BY <1>1, Kinds DEF Is
<1>3. \/ op \in {"fadd", "fmul"} /\ ~ (Is(x, "float") /\ Is(y, "float")) /\ z = Undefined
      \/ z \in OnWords(op, x, y) /\ (op \in {"fadd", "fmul"} => Is(x, "float") /\ Is(y, "float"))
  BY DEF Binary
<1>4. CASE z = Undefined
  BY <1>4, NoAddress
<1> SUFFICES ASSUME z \in OnWords(op, x, y), op \in {"fadd", "fmul"} => Is(x, "float") /\ Is(y, "float")
             PROVE  z \in RunValues /\ (Derived(z, x) \/ Derived(z, y))
  BY <1>3, <1>4
<1>5. CASE Is(x, "int") /\ Is(y, "int")
  <2>1. op \notin {"fadd", "fmul"}
    BY <1>5 DEF Is
  <2>2. z \in OnInts(op, x.bits, y.bits)
    BY <1>5 DEF OnWords, IsAddress, Is
  <2> QED BY <1>2, <1>5, <2>1, <2>2, IntsRun, NoAddress
<1>6. CASE IsAddress(x) /\ Is(y, "int")
  <2>1. z \in OnAddress(op, x, y, TRUE)
    BY <1>6 DEF OnWords, IsAddress, Is
  <2> QED BY <1>6, <2>1, AddressRuns
<1>7. CASE Is(x, "int") /\ IsAddress(y)
  <2>1. z \in OnAddress(op, y, x, FALSE)
    BY <1>7 DEF OnWords, IsAddress, Is
  <2> QED BY <1>7, <2>1, AddressRuns
<1>8. CASE Is(x, "float") /\ Is(y, "float")
  <2>1. z \in OnFloats(op, x.float, y.float)
    BY <1>8 DEF OnWords, IsAddress, Is
  <2>2. x \in AnyFloat /\ y \in AnyFloat /\ x = CreateFloat(x.float) /\ y = CreateFloat(y.float)
    BY <1>1, <1>8, Kinds DEF Is, AnyFloat, FloatConstants
  <2>3. z \in {x, y} \cup {CreateFloat(c) : c \in FloatZeros} \cup AnyFloat
    BY <2>1, <2>2 DEF OnFloats
  <2> QED BY <2>2, <2>3, RunBuilds, NoAddress
<1>9. CASE ~ (Is(x, "int") /\ Is(y, "int")) /\ ~ (IsAddress(x) /\ Is(y, "int"))
             /\ ~ (Is(x, "int") /\ IsAddress(y)) /\ ~ (Is(x, "float") /\ Is(y, "float"))
  <2>1. OnWords(op, x, y) = {Undefined}
    BY <1>9 DEF OnWords
  <2> QED BY <2>1, NoAddress
<1> QED BY <1>5, <1>6, <1>7, <1>8, <1>9

\* What the machine makes of one operand.
LEMMA UnaryRuns ==
  ASSUME NEW op \in Unaries, NEW x \in RunValues, NEW z \in Unary(op, x)
  PROVE  z \in RunValues /\ Derived(z, x)
<1>1. IsRunValue(x)
  BY RunKinds
<1>2. /\ Is(x, "int") => x.bits \in SUBSET Bits
      /\ Is(x, "float") => x.float \in Floats
  BY <1>1, Kinds DEF Is
<1>3. \A n \in Int : IntOf(n) \in AnyInt
  BY Wrap, RunBuilds DEF IntOf
<1>4. CASE z = x
  BY <1>4 DEF Derived
<1>5. CASE z \in AnyInt \cup {Undefined}
  BY <1>5, NoAddress
<1>6. CASE Is(x, "int") /\ op = "neg"
  <2>1. z = IntOf(2 ^ Width - Num(x.bits))
    BY <1>6 DEF Unary, Is, Undefined
  <2>2. 2 ^ Width - Num(x.bits) \in Int
    BY <1>2, <1>6, Word, Words
  <2> QED BY <1>3, <1>5, <2>1, <2>2
<1>7. CASE Is(x, "int") /\ op = "sext"
  <2>1. z = CreateInteger({i \in Bits : i \in x.bits \/ (i \notin Narrow /\ Cardinality(Narrow) - 1 \in x.bits)})
    BY <1>7 DEF Unary, Is, Undefined
  <2>2. {i \in Bits : i \in x.bits \/ (i \notin Narrow /\ Cardinality(Narrow) - 1 \in x.bits)} \in SUBSET Bits
    OBVIOUS
  <2> QED BY <1>5, <2>1, <2>2, RunBuilds
<1>8. CASE Is(x, "int") /\ op = "trunc"
  <2>1. z = IntOf(Num(x.bits) % 2 ^ Cardinality(Narrow))
    BY <1>8 DEF Unary, Is, Undefined
  <2>2. Num(x.bits) % 2 ^ Cardinality(Narrow) \in Int
    <3>1. Cardinality(Narrow) \in Nat
      <4>1. IsFiniteSet(Narrow)
        <5>1. Bits = 0 .. Width - 1 /\ Width \in Nat /\ Narrow \in SUBSET Bits
          BY EvalAssumption
        <5>2. IsFiniteSet(0 .. Width - 1)
          BY <5>1, FS_Interval
        <5> QED BY <5>1, <5>2, FS_Subset
      <4> QED BY <4>1, FS_CardinalityType
    <3>2. 2 ^ Cardinality(Narrow) \in Nat /\ 2 ^ Cardinality(Narrow) > 0 /\ Num(x.bits) \in Nat
      BY <1>2, <1>8, <3>1, Power, Word
    <3> QED BY <3>2
  <2> QED BY <1>3, <1>5, <2>1, <2>2
<1>9. CASE Is(x, "float") /\ op = "bitcast"
  <2>1. z = CreateInteger(FloatBits[x.float])
    BY <1>9 DEF Unary, Is, Undefined
  <2>2. FloatBits[x.float] \in SUBSET Bits
    BY <1>2, <1>9, EvalAssumption
  <2> QED BY <1>5, <2>1, <2>2, RunBuilds
<1>10. CASE Is(x, "float") /\ op # "bitcast" /\ x.float \in DOMAIN FloatInt
  <2>1. z = CreateInteger(FloatInt[x.float])
    BY <1>10 DEF Unary, Is, Undefined
  <2>2. FloatInt[x.float] \in SUBSET Bits
    BY <1>10, EvalAssumption
  <2> QED BY <1>5, <2>1, <2>2, RunBuilds
<1>11. CASE /\ ~ (Is(x, "int") /\ op \in {"neg", "sext", "trunc"})
            /\ ~ (Is(x, "float") /\ op = "bitcast")
            /\ ~ (Is(x, "float") /\ op # "bitcast" /\ x.float \in DOMAIN FloatInt)
  <2>1. z \in {x, Undefined} \cup AnyInt
    BY <1>11 DEF Unary
  <2> QED BY <1>4, <1>5, <2>1
<1> QED BY <1>6, <1>7, <1>8, <1>9, <1>10, <1>11

\* A comparison has a truth value, if any.
LEMMA CompareRuns ==
  ASSUME NEW cc, NEW x, NEW y, NEW z \in Compared(cc, x, y)
  PROVE  z \in RunValues /\ \A w : Derived(z, w)
<1>1. \A b : Flag(b) \in AnyInt
  BY Words, RunBuilds DEF Flag
<1>2. z = Undefined \/ \E b : z = Flag(b)
  BY DEF Compared
<1> QED BY <1>1, <1>2, NoAddress

\* The features of the machine.
LEMMA FeaturesRun ==
  ASSUME NEW leaf, NEW sub, NEW idx, NEW z \in FeatureWords(leaf, sub, idx)
  PROVE  z \in RunValues /\ \A w : Derived(z, w)
<1>1. z = Undefined \/ z \in AnyInt
  BY DEF FeatureWords
<1> QED BY <1>1, NoAddress

-----------------------------------------------------------------------------
(* Data that is never written                                              *)

\* What is reached in as many steps as there are elements is closed under steps.
LEMMA ReachedClosed ==
  ASSUME NEW T, IsFiniteSet(T), NEW n \in Nat, Cardinality(T) <= n, NEW S \in SUBSET T, NEW next \in [T -> SUBSET T]
  PROVE  /\ S \subseteq Reached(S, next, n) /\ Reached(S, next, n) \subseteq T
         /\ \A i \in Reached(S, next, n) : next[i] \subseteq Reached(S, next, n)
<1> DEFINE More(R) == R \cup UNION {next[i] : i \in R}
           Body(R) == [k \in 0 .. n |-> IF k = 0 THEN S ELSE More(R[k - 1])]
           R == CHOOSE R : R = Body(R)
           G == [p \in (1 .. n) \X SUBSET T |-> More(p[2])]
<1>1. Reached(S, next, n) = R[n]
  BY DEF Reached
<1>2. \A Q \in SUBSET T : More(Q) \in SUBSET T
  OBVIOUS
<1>3. R = Body(R)
  <2>1. G \in [(1 .. n) \X SUBSET T -> SUBSET T]
    BY <1>2
  <2>2. PICK h : AreSteps(n, SUBSET T, S, G, h)
    <3> HIDE DEF G
    <3> QED BY <2>1, StepsExist
  <2>3. h \in [0 .. n -> SUBSET T] /\ h[0] = S /\ \A k \in 1 .. n : h[k] = G[<<k, h[k - 1]>>]
    BY <2>2 DEF AreSteps
  <2>4. ASSUME NEW k \in 1 .. n PROVE h[k] = More(h[k - 1])
    <3>1. k - 1 \in 0 .. n
      OBVIOUS
    <3>2. <<k, h[k - 1]>> \in (1 .. n) \X SUBSET T
      BY <2>3, <3>1
    <3> HIDE DEF More
    <3> QED BY <2>3, <3>2
  <2>5. ASSUME NEW k \in 0 .. n PROVE h[k] = Body(h)[k]
    <3>1. k = 0 \/ (k # 0 /\ k \in 1 .. n)
      OBVIOUS
    <3> HIDE DEF More, G
    <3> QED BY <2>3, <2>4, <3>1
  <2>6. h = Body(h)
    <3> HIDE DEF More, G
    <3> QED BY <2>3, <2>5
  <2> HIDE DEF More, G
  <2> QED BY <2>6
<1>4. R[0] = S /\ \A m \in 0 .. n - 1 : R[m + 1] = More(R[m])
  <2>1. \A m \in 0 .. n - 1 : m + 1 \in 0 .. n /\ m + 1 # 0 /\ (m + 1) - 1 = m
    OBVIOUS
  <2> HIDE DEF R, More
  <2> QED BY <1>3, <2>1
<1> HIDE DEF R, G
<1> DEFINE Closed(Q) == \A i \in Q : next[i] \subseteq Q
           P == {m \in Nat : m <= n => /\ S \subseteq R[m] /\ R[m] \in SUBSET T
                                       /\ Closed(R[m]) \/ Cardinality(R[m]) > m}
<1>5. \A Q \in SUBSET T : IsFiniteSet(Q) /\ Cardinality(Q) \in Nat
  BY FS_Subset, FS_CardinalityType
<1>6. 0 \in P
  <2>1. CASE S = {}
    BY <1>4, <2>1
  <2>2. CASE S # {}
    <3>1. Cardinality(S) # 0
      BY <1>5, <2>2, FS_EmptySet
    <3>2. Cardinality(R[0]) > 0
      BY <1>4, <1>5, <3>1
    <3> QED BY <1>4, <3>2
  <2> QED BY <2>1, <2>2
<1>7. ASSUME NEW m \in Nat, m \in P PROVE m + 1 \in P
  <2> SUFFICES ASSUME m + 1 <= n
               PROVE  /\ S \subseteq R[m + 1] /\ R[m + 1] \in SUBSET T
                      /\ Closed(R[m + 1]) \/ Cardinality(R[m + 1]) > m + 1
    OBVIOUS
  <2>1. m \in 0 .. n - 1 /\ m <= n
    OBVIOUS
  <2>2. S \subseteq R[m] /\ R[m] \in SUBSET T /\ (Closed(R[m]) \/ Cardinality(R[m]) > m)
    BY <1>7, <2>1
  <2>3. R[m + 1] = More(R[m])
    BY <1>4, <2>1
  <2>4. R[m + 1] \in SUBSET T /\ R[m] \subseteq R[m + 1]
    BY <1>2, <2>2, <2>3
  <2>5. CASE Closed(R[m])
    <3>1. R[m + 1] = R[m]
      BY <2>3, <2>5
    <3> QED BY <2>2, <2>5, <3>1
  <2>6. CASE ~ Closed(R[m]) /\ Cardinality(R[m]) > m
    <3>1. R[m + 1] # R[m]
      BY <2>3, <2>6
    <3>2. Cardinality(R[m]) <= Cardinality(R[m + 1]) /\ Cardinality(R[m]) # Cardinality(R[m + 1])
      BY <1>5, <2>4, <3>1, FS_Subset
    <3>3. Cardinality(R[m]) \in Nat /\ Cardinality(R[m + 1]) \in Nat
      BY <1>5, <2>2, <2>4
    <3>4. Cardinality(R[m + 1]) > m + 1
      BY <2>6, <3>2, <3>3
    <3> QED BY <2>2, <2>4, <3>4
  <2> QED BY <2>2, <2>5, <2>6
<1>8. n \in P
  <2>1. Nat \subseteq P
    <3> HIDE DEF P
    <3> QED BY <1>6, <1>7, AllNumbers
  <2> QED BY <2>1
<1>9. Cardinality(R[n]) <= n
  <2>1. R[n] \in SUBSET T
    BY <1>8
  <2>2. Cardinality(R[n]) <= Cardinality(T) /\ Cardinality(T) \in Nat /\ Cardinality(R[n]) \in Nat
    BY <1>5, <2>1, FS_Subset, FS_CardinalityType
  <2> QED BY <2>2
<1>10. Closed(R[n])
  <2>1. Cardinality(R[n]) \in Nat
    BY <1>5, <1>8
  <2> QED BY <1>8, <1>9, <2>1
<1> QED BY <1>1, <1>8, <1>10

\* Whoever uses the address of quiet data is among its holders, and holders only move
\* it or load from it.
LEMMA Holding ==
  ASSUME WellFormed(prog), NEW g
  PROVE  /\ \A i \in Insts : IsOf(Inst(i).val, g) => i \in Holders(g)
         /\ \A i \in Insts, u \in Insts :
              i \in Holders(g) /\ Inst(i).kind \in Transparent /\ i \in ToSet(Inst(u).args) => u \in Holders(g)
         /\ Quiet(g) => \A i \in Holders(g) : i \in Insts /\ Inst(i).kind \in Transparent \cup {"load"}
         /\ Quiet(g) => ~ InData(g) /\ prog.data[g].local
<1> DEFINE S == {i \in Insts : IsOf(Inst(i).val, g)}
           next == [i \in Insts |-> UsersOf(i)]
           n == Len(prog.order)
<1>1. n \in Nat /\ prog.order \in [1 .. n -> Insts] /\ \A i \in Insts : \E k \in 1 .. n : prog.order[k] = i
  <2>1. prog.order \in Seq(Insts) /\ ToSet(prog.order) = Insts
    BY Formed
  <2> QED BY <2>1 DEF ToSet
<1> HIDE DEF n
<1>2. prog.order \in Surjection(1 .. n, Insts)
  BY <1>1 DEF Surjection
<1>3. IsFiniteSet(Insts) /\ Cardinality(Insts) <= n
  <2>1. IsFiniteSet(1 .. n) /\ Cardinality(1 .. n) = n
    BY <1>1, FS_Interval
  <2>2. IsFiniteSet(Insts) /\ Cardinality(Insts) <= Cardinality(1 .. n)
    BY <1>2, <2>1, FS_Surjection
  <2> QED BY <2>1, <2>2
<1>4. S \in SUBSET Insts /\ next \in [Insts -> SUBSET Insts]
  BY DEF UsersOf
<1>5. Holders(g) = Reached(S, next, n)
  BY DEF Holders, n
<1> HIDE DEF S, next
<1>6. /\ S \subseteq Holders(g) /\ Holders(g) \subseteq Insts
      /\ \A i \in Holders(g) : next[i] \subseteq Holders(g)
  BY <1>1, <1>3, <1>4, <1>5, ReachedClosed
<1>7. ASSUME NEW i \in Insts, NEW u \in Insts, i \in Holders(g), Inst(i).kind \in Transparent, i \in ToSet(Inst(u).args)
      PROVE  u \in Holders(g)
  <2>1. u \in next[i]
    BY <1>7 DEF next, UsersOf
  <2> QED BY <1>6, <1>7, <2>1
<1>8. \A i \in Insts : IsOf(Inst(i).val, g) => i \in Holders(g)
  BY <1>6 DEF S
<1>9. Quiet(g) => /\ \A i \in Holders(g) : i \in Insts /\ Inst(i).kind \in Transparent \cup {"load"}
                  /\ ~ InData(g) /\ prog.data[g].local
  BY <1>6 DEF Quiet, IsConstant
<1> QED BY <1>7, <1>8, <1>9

-----------------------------------------------------------------------------
(* What operands are                                                       *)

\* Operands of instruction i that have been computed, in an activation of f.
Reading(i, xs, f) == \A k \in DOMAIN Inst(i).args : Has(Inst(i).args[k], xs[k], f)

\* The solver knows something of operands that have been computed.
LEMMA Reads ==
  ASSUME WellFormed(prog), Weak = {}, Fit(s), NEW i \in Insts, NEW xs, NEW f, Reading(i, xs, f)
  PROVE  /\ ~ Lacking(Vals(s, i))
         /\ \A k \in DOMAIN Inst(i).args :
              /\ Vals(s, i)[k] = s.values[Inst(i).args[k]] /\ Vals(s, i)[k] \in Claims
              /\ ~ MaybeNull(Vals(s, i)[k])
              /\ xs[k] \in RunValues /\ IsRunValue(xs[k]) /\ Stands(xs[k], Vals(s, i)[k], f)
              /\ k \in DOMAIN Vals(s, i)
         /\ DOMAIN Inst(i).args = 1 .. Len(Inst(i).args)
<1>1. s \in Tables
  BY DEF Fit
<1>2. DOMAIN Vals(s, i) = DOMAIN Inst(i).args /\ DOMAIN Inst(i).args = 1 .. Len(Inst(i).args)
  BY Operands DEF Vals
<1>3. ASSUME NEW k \in DOMAIN Inst(i).args
      PROVE  /\ Vals(s, i)[k] = s.values[Inst(i).args[k]] /\ Vals(s, i)[k] \in Claims
             /\ xs[k] \in RunValues /\ IsRunValue(xs[k]) /\ Stands(xs[k], Vals(s, i)[k], f)
  <2>1. Vals(s, i)[k] = s.values[Inst(i).args[k]] /\ Vals(s, i)[k] \in Claimed
    BY <1>1, <1>2, KnownOperands
  <2>2. xs[k] \in RunValues /\ Stands(xs[k], s.values[Inst(i).args[k]], f)
    BY DEF Reading, Has
  <2>3. \A x : ~ Stands(x, Unknown, f)
    BY DEF Stands, Unknown, Overdefined, Pointer, FloatZero, Is, MaybeNull
  <2> QED BY <2>1, <2>2, <2>3, RunKinds DEF Claimed
<1>4. ~ Lacking(Vals(s, i))
  <2>1. Unknown \notin Claims
    BY Shapes
  <2> QED BY <1>2, <1>3, <2>1 DEF Lacking
<1>5. \A v : ~ MaybeNull(v)
  BY DEF MaybeNull
<1> QED BY <1>2, <1>3, <1>4, <1>5

\* Where an address may go with an instruction that uses it.
LEMMA Uses ==
  ASSUME WellFormed(prog), NEW i \in Insts, NEW k \in DOMAIN Inst(i).args, NEW x, NEW f, Has(Inst(i).args[k], x, f),
         Is(x, "global")
  PROVE  /\ Inst(i).kind \notin CallSites \/ k # 1 => (x.sym \in Funcs => IsEntry(x.sym))
         /\ x.sym \in Funcs => \/ IsEntry(x.sym)
                               \/ Inst(Inst(i).args[k]).kind = "mov" /\ IsOf(Inst(Inst(i).args[k]).val, x.sym)
         /\ Quiet(x.sym) => i \in Holders(x.sym) /\ Inst(i).kind \in Transparent \cup {"load"}
<1> DEFINE a == Inst(i).args[k]
           g == x.sym
<1>1. a \in Insts /\ k \in 1 .. Len(Inst(i).args) /\ a \in ToSet(Inst(i).args)
  BY Operands DEF ToSet
<1>2. Belongs(a, x)
  BY DEF Has
<1>3. /\ g \in Funcs => IsEntry(g) \/ (Inst(a).kind = "mov" /\ IsOf(Inst(a).val, g))
      /\ Quiet(g) => a \in Holders(g) /\ Inst(a).kind \in Transparent
  BY <1>2 DEF Belongs
<1>4. Quiet(g) => i \in Holders(g) /\ Inst(i).kind \in Transparent \cup {"load"}
  <2> HIDE DEF a, g
  <2> QED BY <1>1, <1>3, Holding DEF a
<1>5. ASSUME Inst(i).kind \notin CallSites \/ k # 1, g \in Funcs PROVE IsEntry(g)
  <2> SUFFICES ASSUME Inst(a).kind = "mov", IsOf(Inst(a).val, g) PROVE IsEntry(g)
    BY <1>3, <1>5
  <2>1. Inst(i).args[k] = a /\ (Inst(i).kind \notin CallSites \/ k > 1)
    BY <1>1, <1>5
  <2> HIDE DEF a, g
  <2>2. HasAddressTaken(g)
    BY <1>1, <2>1 DEF HasAddressTaken
  <2> QED BY <2>2 DEF IsEntry
<1> QED BY <1>3, <1>4, <1>5

\* An address that does not concern an instruction may be anywhere.
LEMMA UsesLoose ==
  ASSUME WellFormed(prog), NEW i \in Insts, NEW k \in DOMAIN Inst(i).args, NEW x, NEW f, Has(Inst(i).args[k], x, f),
         Inst(i).kind \notin Transparent \cup {"load"}, Inst(i).kind \notin CallSites \/ k # 1
  PROVE  Loose(x)
BY Uses DEF Loose

\* What may be anywhere may be with any instruction.
LEMMA LooseBelongs ==
  ASSUME NEW x, Loose(x)
  PROVE  \A i : Belongs(i, x)
BY DEF Loose, Belongs

\* An address that an instruction makes of one that it uses.
LEMMA DerivedBelongs ==
  ASSUME WellFormed(prog), NEW i \in Insts, NEW k \in DOMAIN Inst(i).args, NEW x, NEW f, Has(Inst(i).args[k], x, f),
         Inst(i).kind \notin CallSites \cup {"load"}, NEW z, Derived(z, x)
  PROVE  Belongs(i, z)
<1> SUFFICES ASSUME Is(z, "global")
             PROVE  /\ z.sym \in Funcs => IsEntry(z.sym)
                    /\ Quiet(z.sym) => i \in Holders(z.sym) /\ Inst(i).kind \in Transparent
  BY DEF Belongs
<1>1. Is(x, "global") /\ x.sym = z.sym
  BY DEF Derived
<1> QED BY <1>1, Uses

\* What comes from outside may be anywhere.
LEMMA InputsLoose ==
  ASSUME WellFormed(prog), \E family \in DOMAIN Programs : prog \in Programs[family], NEW x \in Inputs
  PROVE  x \in RunValues /\ Loose(x)
<1>1. CASE x = Undefined
  BY <1>1, RunBuilds DEF Loose, Is, Undefined
<1>2. CASE x # Undefined
  <2>1. Written(x) /\ (Is(x, "global") => (x.sym \in DOMAIN prog.entry => x.sym \in prog.visible)
                                          /\ (x.sym \in DOMAIN prog.data => ~ prog.data[x.sym].local))
    BY <1>2, InputsAssumption
  <2>2. x \in RunValues
    BY <2>1, WrittenRuns
  <2>3. Is(x, "global") /\ x.sym \in Funcs => IsEntry(x.sym)
    BY <2>1 DEF IsEntry, Funcs
  <2>4. Is(x, "global") => ~ Quiet(x.sym)
    BY <2>1, Holding DEF Quiet
  <2> QED BY <2>2, <2>3, <2>4 DEF Loose
<1> QED BY <1>1, <1>2

-----------------------------------------------------------------------------
(* What instructions leave                                                 *)

\* What is known while a program runs that is analysed and clean.
Analysed == \E family \in DOMAIN Programs : prog \in Programs[family]
Sure == Analysed /\ WellFormed(prog) /\ Solved /\ Clean

\* Its parts.
LEMMA SureIs ==
  ASSUME Sure
  PROVE  /\ Analysed /\ WellFormed(prog) /\ Weak = {} /\ Fit(s) /\ Told(s) /\ Opened(s, {}) /\ Plain
         /\ \A i \in Insts : Live(s, i) => Settled(s, i) /\ CleanInst(i)
         /\ \A i \in Insts : Inst(i).kind # "tcall"
         /\ \A v : ~ MaybeNull(v)
BY DEF Sure, Solved, Clean, Plain, MaybeNull

\* Operators compute something, and are no calls and no loads.
LEMMA Computing ==
  ASSUME NEW op, op \in Unaries \cup Binaries \cup {"cpuid", "cmp", "select", "copy"}
  PROVE  op \in ValueKinds \ {"store", "raise", "trap"} /\ op \notin CallSites \cup {"load"}
<1>1. op \in ValueKinds
  BY DEF ValueKinds
<1>2. op \notin CallSites
  BY <1>1, KindsApart
<1>3. op # "load"
  BY DEF Unaries, Binaries
<1>4. op \notin {"store", "raise", "trap"}
  BY DEF Unaries, Binaries
<1> QED BY <1>1, <1>2, <1>3, <1>4

\* An instruction of code that is executed has the value that was made of its operands.
LEMMA Valued ==
  ASSUME Sure, NEW i \in Insts, Live(s, i), Inst(i).kind \in ValueKinds \ {"store", "raise", "trap"},
         ~ Lacking(Vals(s, i))
  PROVE  /\ s.values[i] = Evaluated(i, Vals(s, i))
         /\ CleanInst(i) /\ s.values[i] \in Claimed
<1>1. Settled(s, i) /\ CleanInst(i) /\ WellFormed(prog) /\ s \in Tables
  BY SureIs DEF Fit
<1>2. Waits(i, Vals(s, i)) \/ s.values[i] = Evaluated(i, Vals(s, i))
  BY <1>1 DEF Settled, ValueSettled
<1> DEFINE kind == Inst(i).kind
<1>3. ~ Waits(i, Vals(s, i))
  <2>1. CASE kind \in Silent
    <3>1. kind = "other"
      BY <2>1 DEF Silent
    <3>2. Inst(i).rets
      BY <1>1, <3>1, Operands DEF CallSites, Resultless
    <3> QED BY <2>1, <3>1, <3>2 DEF Waits, Unaries, Binaries
  <2>2. CASE kind = "cpuid"
    <3>1. Len(Inst(i).args) = 2
      BY <1>1, <2>2 DEF CleanInst
    <3>2. 1 \in DOMAIN Vals(s, i) /\ 2 \in DOMAIN Vals(s, i)
      BY <1>1, <3>1, KnownOperands
    <3>3. Vals(s, i)[1] # Unknown /\ SubleafOf(i, Vals(s, i)) # Unknown
      BY <3>1, <3>2 DEF SubleafOf, Lacking
    <3>4. kind \notin Silent /\ kind \notin Unaries \cup Binaries \cup {"cmp", "select"}
      BY <2>2, KindsApart DEF Singles
    <3> QED BY <2>2, <3>3, <3>4 DEF Waits
  <2>3. CASE kind \in Unaries \cup Binaries \cup {"cmp", "select"}
    <3>1. kind \notin Silent /\ kind # "cpuid"
      BY <2>3, KindsApart DEF Singles
    <3> QED BY <2>3, <3>1 DEF Waits
  <2>4. CASE kind \notin Silent /\ kind # "cpuid" /\ kind \notin Unaries \cup Binaries \cup {"cmp", "select"}
    BY <2>4 DEF Waits
  <2> QED BY <2>1, <2>2, <2>3, <2>4
<1>4. s.values[i] \in Claimed
  BY <1>1 DEF Tables
<1> QED BY <1>1, <1>2, <1>3, <1>4

\* The operands of an instruction that can be read.
LEMMA SureReads ==
  ASSUME Sure, NEW i \in Insts, NEW xs, NEW f, Reading(i, xs, f), NEW k \in 1 .. Len(Inst(i).args)
  PROVE  /\ Vals(s, i)[k] = s.values[Inst(i).args[k]] /\ Vals(s, i)[k] \in Claims
         /\ ~ MaybeNull(Vals(s, i)[k])
         /\ xs[k] \in RunValues /\ IsRunValue(xs[k]) /\ Stands(xs[k], Vals(s, i)[k], f)
         /\ k \in DOMAIN Inst(i).args /\ Has(Inst(i).args[k], xs[k], f)
<1>1. DOMAIN Inst(i).args = 1 .. Len(Inst(i).args)
  BY SureIs, Operands
<1> QED BY <1>1, SureIs, Reads DEF Reading

\* Binary operators.
LEMMA BinaryMade ==
  ASSUME Sure, NEW i \in Insts, Live(s, i), Inst(i).kind \in Binaries, NEW f, NEW xs, Reading(i, xs, f),
         NEW z \in Binary(Inst(i).kind, xs[1], xs[2])
  PROVE  Has(i, z, f)
<1> DEFINE op == Inst(i).kind
           l == Vals(s, i)[1]
           r == Vals(s, i)[2]
<1>1. WellFormed(prog) /\ ~ Lacking(Vals(s, i)) /\ Len(Inst(i).args) = 2
  BY SureIs, Reads, Operands
<1>2. 1 \in 1 .. Len(Inst(i).args) /\ 2 \in 1 .. Len(Inst(i).args)
  BY <1>1
<1>3. /\ l \in Claims /\ ~ MaybeNull(l) /\ xs[1] \in RunValues /\ IsRunValue(xs[1]) /\ Stands(xs[1], l, f)
      /\ 1 \in DOMAIN Inst(i).args /\ Has(Inst(i).args[1], xs[1], f)
      /\ r \in Claims /\ ~ MaybeNull(r) /\ xs[2] \in RunValues /\ IsRunValue(xs[2]) /\ Stands(xs[2], r, f)
      /\ 2 \in DOMAIN Inst(i).args /\ Has(Inst(i).args[2], xs[2], f)
  BY <1>2, SureReads
<1>4. op \in ValueKinds \ {"store", "raise", "trap"} /\ op \notin CallSites \cup {"load"}
  <2> HIDE DEF op
  <2>1. op \in Unaries \cup Binaries
    BY DEF op
  <2> QED BY <2>1, Computing
<1>5. s.values[i] = Evaluated(i, Vals(s, i)) /\ CleanInst(i)
  BY <1>1, <1>4, Valued
<1>6. Evaluated(i, Vals(s, i)) = EvalBinary(op, l, r)
  <2>1. op \notin Plainly /\ op \notin Unaries /\ op \notin {"copy", "load", "cpuid", "cmp", "select"}
    BY KindsApart DEF Singles
  <2> QED BY <2>1 DEF Evaluated
<1>7. /\ ~ (op = "sll" /\ l = Overdefined /\ r = Null)
      /\ ~ (op = "fadd" /\ Is(l, "float") /\ l.float \in FloatZeros /\ r = FloatZero)
  BY <1>1, <1>5 DEF CleanInst
<1>8. Stands(z, s.values[i], f)
  <2>1. Described(l, r, xs[1], xs[2], f)
    BY <1>3 DEF Described
  <2> HIDE DEF l, r
  <2>2. Stands(z, EvalBinary(op, l, r), f)
    BY <1>3, <1>7, <2>1, BinarySound
  <2> QED BY <1>5, <1>6, <2>2
<1>9. z \in RunValues /\ (Derived(z, xs[1]) \/ Derived(z, xs[2]))
  BY <1>3, BinaryRuns
<1>10. Belongs(i, z)
  BY <1>1, <1>3, <1>4, <1>9, DerivedBelongs
<1> QED BY <1>8, <1>9, <1>10 DEF Has

\* Unary operators.
LEMMA UnaryMade ==
  ASSUME Sure, NEW i \in Insts, Live(s, i), Inst(i).kind \in Unaries, NEW f, NEW xs, Reading(i, xs, f),
         NEW z \in Unary(Inst(i).kind, xs[1])
  PROVE  Has(i, z, f)
<1> DEFINE op == Inst(i).kind
           v == Vals(s, i)[1]
<1>1. WellFormed(prog) /\ ~ Lacking(Vals(s, i)) /\ Len(Inst(i).args) = 1
  BY SureIs, Reads, Operands
<1>2. 1 \in 1 .. Len(Inst(i).args)
  BY <1>1
<1>3. /\ v \in Claims /\ xs[1] \in RunValues /\ IsRunValue(xs[1]) /\ Stands(xs[1], v, f)
      /\ 1 \in DOMAIN Inst(i).args /\ Has(Inst(i).args[1], xs[1], f)
  BY <1>2, SureReads
<1>4. op \in ValueKinds \ {"store", "raise", "trap"} /\ op \notin CallSites \cup {"load"}
  <2> HIDE DEF op
  <2>1. op \in Unaries \cup Binaries
    BY DEF op
  <2> QED BY <2>1, Computing
<1>5. s.values[i] = Evaluated(i, Vals(s, i)) /\ CleanInst(i)
  BY <1>1, <1>4, Valued
<1>6. Evaluated(i, Vals(s, i)) = EvalUnary(op, v)
  <2>1. op \notin Plainly /\ op \notin Binaries /\ op \notin {"copy", "load", "cpuid", "cmp", "select"}
    BY KindsApart DEF Singles
  <2> QED BY <2>1 DEF Evaluated
<1>7. op = "neg" => v.kind \in {"int", "overdefined", "undefined"}
  BY <1>1, <1>5 DEF CleanInst
<1>8. Stands(z, s.values[i], f)
  <2> HIDE DEF v
  <2>1. Stands(z, EvalUnary(op, v), f)
    BY <1>3, <1>7, UnarySound
  <2> QED BY <1>5, <1>6, <2>1
<1>9. z \in RunValues /\ Derived(z, xs[1])
  BY <1>3, UnaryRuns
<1>10. Belongs(i, z)
  BY <1>1, <1>3, <1>4, <1>9, DerivedBelongs
<1> QED BY <1>8, <1>9, <1>10 DEF Has

\* Comparisons.
LEMMA CompareMade ==
  ASSUME Sure, NEW i \in Insts, Live(s, i), Inst(i).kind = "cmp", NEW f, NEW xs, Reading(i, xs, f),
         NEW z \in Compared(Inst(i).val, xs[1], xs[2])
  PROVE  Has(i, z, f)
<1> DEFINE l == Vals(s, i)[1]
           r == Vals(s, i)[2]
           cc == Inst(i).val
<1>1. WellFormed(prog) /\ ~ Lacking(Vals(s, i)) /\ Len(Inst(i).args) = 2
  BY SureIs, Reads, Operands
<1>2. 1 \in 1 .. Len(Inst(i).args) /\ 2 \in 1 .. Len(Inst(i).args)
  BY <1>1
<1>3. /\ l \in Claims /\ ~ MaybeNull(l) /\ xs[1] \in RunValues /\ IsRunValue(xs[1]) /\ Stands(xs[1], l, f)
      /\ 1 \in DOMAIN Inst(i).args /\ Has(Inst(i).args[1], xs[1], f)
      /\ r \in Claims /\ ~ MaybeNull(r) /\ xs[2] \in RunValues /\ IsRunValue(xs[2]) /\ Stands(xs[2], r, f)
      /\ 2 \in DOMAIN Inst(i).args /\ Has(Inst(i).args[2], xs[2], f)
  BY <1>2, SureReads
<1>4. Inst(i).kind \in ValueKinds \ {"store", "raise", "trap"}
  BY Computing
<1>5. s.values[i] = Evaluated(i, Vals(s, i)) /\ CleanInst(i)
  BY <1>1, <1>4, Valued
<1>6. Evaluated(i, Vals(s, i)) = EvalCmp(l, r, cc)
  <2>1. "cmp" \notin Plainly /\ "cmp" \notin Unaries /\ "cmp" \notin Binaries
    BY KindsApart DEF Singles
  <2> QED BY <2>1 DEF Evaluated
<1>7. /\ ~ (Is(l, "global") /\ Is(r, "range"))
      /\ cc.rel \in Relations \/ {l.kind, r.kind} \subseteq FloatLike
  BY <1>1, <1>5 DEF CleanInst
<1>8. z \in RunValues /\ \A w : Derived(z, w)
  BY CompareRuns
<1>9. Described(l, r, xs[1], xs[2], f)
  BY <1>3 DEF Described
<1> HIDE DEF l, r, cc
<1>10. Stands(z, EvalCmp(l, r, cc), f)
  <2>1. CASE cc.rel \in Relations \/ (Is(xs[1], "float") /\ Is(xs[2], "float"))
    <3>1. z \in Compared(cc, xs[1], xs[2])
      BY DEF cc
    <3> QED BY <1>7, <1>9, <2>1, <3>1, CompareSound
  <2>2. CASE {l.kind, r.kind} \subseteq FloatLike /\ ~ (Is(xs[1], "float") /\ Is(xs[2], "float"))
    <3>1. EvalCmp(l, r, cc) \in Claims
      BY <1>3, CompareType
    <3>2. CASE z = Undefined
      BY <3>1, <3>2, Allows
    <3>3. CASE xs[1] # Undefined /\ xs[2] # Undefined
      <4>1. l.kind # "undefined" /\ r.kind # "undefined"
        BY <1>3, <3>3, Means
      <4>2. l # Undefined /\ r # Undefined
        BY <4>1 DEF Undefined
      <4>3. (l.kind \in {"float", "float_zero"} => Is(xs[1], "float"))
              /\ (r.kind \in {"float", "float_zero"} => Is(xs[2], "float"))
        BY <1>3, <3>3, Means DEF Is
      <4>4. l.kind = "overdefined" \/ r.kind = "overdefined"
        BY <2>2, <4>1, <4>3 DEF FloatLike
      <4>5. CASE l.kind \in {"overdefined", "float_zero"}
        BY <1>3, <4>2, <4>5, CompareDispatch, Allows
      <4>6. CASE l.kind = "float" /\ r.kind = "overdefined"
        <5>1. EvalCmp(l, r, cc) = CmpFloat(l, r, cc)
          BY <1>3, <4>2, <4>6, CompareDispatch
        <5> QED BY <4>6, <5>1, Allows DEF CmpFloat, Is
      <4> QED BY <2>2, <4>1, <4>4, <4>5, <4>6 DEF FloatLike
    <3>4. CASE xs[1] = Undefined \/ xs[2] = Undefined
      <4>1. CASE xs[1] = Undefined
        <5>1. z = Undefined
          BY <4>1 DEF Compared, Is, IsAddress, Undefined
        <5> QED BY <3>2, <5>1
      <4>2. CASE xs[2] = Undefined
        <5>1. z = Undefined
          BY <4>2 DEF Compared, Is, IsAddress, Undefined
        <5> QED BY <3>2, <5>1
      <4> QED BY <3>4, <4>1, <4>2
    <3> QED BY <3>3, <3>4
  <2> QED BY <1>7, <2>1, <2>2
<1>11. Belongs(i, z)
  <2>1. Inst(i).kind \notin CallSites \cup {"load"}
    BY DEF CallSites
  <2> QED BY <1>1, <1>3, <1>8, <2>1, DerivedBelongs
<1> QED BY <1>5, <1>6, <1>8, <1>10, <1>11 DEF Has, cc, l, r

\* A choice between two values.
LEMMA SelectMade ==
  ASSUME Sure, NEW i \in Insts, Live(s, i), Inst(i).kind = "select", NEW f, NEW xs, Reading(i, xs, f)
  PROVE  Has(i, IF xs[1] = Undefined THEN Undefined ELSE IF Truth(xs[1]) THEN xs[2] ELSE xs[3], f)
<1> DEFINE c == Vals(s, i)[1]
           a == Vals(s, i)[2]
           b == Vals(s, i)[3]
           z == IF xs[1] = Undefined THEN Undefined ELSE IF Truth(xs[1]) THEN xs[2] ELSE xs[3]
<1>1. WellFormed(prog) /\ ~ Lacking(Vals(s, i)) /\ Len(Inst(i).args) = 3
  BY SureIs, Reads, Operands
<1>2. 1 \in 1 .. Len(Inst(i).args) /\ 2 \in 1 .. Len(Inst(i).args) /\ 3 \in 1 .. Len(Inst(i).args)
  BY <1>1
<1>3. c \in Claims /\ ~ MaybeNull(c) /\ Stands(xs[1], c, f)
  BY <1>2, SureReads
<1>4. /\ a \in Claims /\ Stands(xs[2], a, f) /\ xs[2] \in RunValues
      /\ 2 \in DOMAIN Inst(i).args /\ Has(Inst(i).args[2], xs[2], f)
  BY <1>2, SureReads
<1>5. /\ b \in Claims /\ ~ MaybeNull(b) /\ Stands(xs[3], b, f) /\ xs[3] \in RunValues
      /\ 3 \in DOMAIN Inst(i).args /\ Has(Inst(i).args[3], xs[3], f)
  BY <1>2, SureReads
<1>6. Inst(i).kind \in ValueKinds \ {"store", "raise", "trap"}
  BY Computing
<1>7. s.values[i] = Evaluated(i, Vals(s, i))
  BY <1>1, <1>6, Valued
<1>8. Evaluated(i, Vals(s, i)) = EvalSelect(c, a, b)
  <2>1. "select" \notin Plainly /\ "select" \notin Unaries /\ "select" \notin Binaries
    BY KindsApart DEF Singles
  <2> QED BY <2>1 DEF Evaluated
<1> HIDE DEF a, b, c
<1>9. Stands(z, EvalSelect(c, a, b), f)
  BY <1>3, <1>4, <1>5, SelectSound
<1>10. z \in RunValues /\ (z = Undefined \/ z = xs[2] \/ z = xs[3])
  BY <1>4, <1>5, RunBuilds
<1>11. Belongs(i, z)
  <2>1. Inst(i).kind \notin CallSites \cup {"load"}
    BY DEF CallSites
  <2>2. \A x : Derived(x, x) /\ Derived(Undefined, x)
    BY NoAddress DEF Derived
  <2>3. Derived(z, xs[2]) \/ Derived(z, xs[3])
    BY <1>10, <2>2
  <2> HIDE DEF z
  <2> QED BY <1>1, <1>4, <1>5, <2>1, <2>3, DerivedBelongs
<1> HIDE DEF z
<1>12. Has(i, z, f)
  BY <1>7, <1>8, <1>9, <1>10, <1>11 DEF Has
<1> QED BY <1>12 DEF z

\* A copy.
LEMMA CopyMade ==
  ASSUME Sure, NEW i \in Insts, Live(s, i), Inst(i).kind = "copy", NEW f, NEW xs, Reading(i, xs, f)
  PROVE  Has(i, xs[1], f)
<1>1. WellFormed(prog) /\ ~ Lacking(Vals(s, i)) /\ Len(Inst(i).args) = 1
  BY SureIs, Reads, Operands
<1>2. 1 \in 1 .. Len(Inst(i).args)
  BY <1>1
<1>3. /\ Stands(xs[1], Vals(s, i)[1], f) /\ xs[1] \in RunValues
      /\ 1 \in DOMAIN Inst(i).args /\ Has(Inst(i).args[1], xs[1], f)
  BY <1>2, SureReads
<1>4. Inst(i).kind \in ValueKinds \ {"store", "raise", "trap"} /\ Inst(i).kind \notin CallSites \cup {"load"}
  BY Computing
<1>5. s.values[i] = Evaluated(i, Vals(s, i))
  BY <1>1, <1>4, Valued
<1>6. Evaluated(i, Vals(s, i)) = Vals(s, i)[1]
  <2>1. "copy" \notin Plainly /\ "copy" \notin Unaries /\ "copy" \notin Binaries
    BY KindsApart DEF Singles
  <2> QED BY <2>1 DEF Evaluated
<1>7. Derived(xs[1], xs[1])
  BY DEF Derived
<1> QED BY <1>1, <1>3, <1>4, <1>5, <1>6, <1>7, DerivedBelongs DEF Has

\* The features of the machine: two operands, the leaf and the subleaf.
LEMMA CpuIdMade ==
  ASSUME Sure, NEW i \in Insts, Live(s, i), Inst(i).kind = "cpuid", NEW f, NEW xs, Reading(i, xs, f),
         NEW z \in FeatureWords(xs[1], xs[2], Inst(i).idx)
  PROVE  Has(i, z, f)
<1> DEFINE l == Vals(s, i)[1]
           r == Vals(s, i)[2]
           w == EvalCpuId(l, r, Inst(i).idx)
<1>1. WellFormed(prog) /\ ~ Lacking(Vals(s, i))
  BY SureIs, Reads
<1>2. Inst(i).kind \in ValueKinds \ {"store", "raise", "trap"} /\ Inst(i).kind \notin CallSites \cup {"load"}
  BY Computing
<1>3. s.values[i] = Evaluated(i, Vals(s, i)) /\ CleanInst(i)
  BY <1>1, <1>2, Valued
<1>4. Len(Inst(i).args) = 2
  BY <1>1, <1>3 DEF CleanInst
<1>5. 1 \in 1 .. Len(Inst(i).args) /\ 2 \in 1 .. Len(Inst(i).args)
  BY <1>4
<1>6. /\ l \in Claims /\ xs[1] \in RunValues /\ Stands(xs[1], l, f)
      /\ 1 \in DOMAIN Inst(i).args /\ Has(Inst(i).args[1], xs[1], f)
      /\ r \in Claims /\ xs[2] \in RunValues /\ Stands(xs[2], r, f)
  BY <1>5, SureReads
<1>7. Evaluated(i, Vals(s, i)) = w
  <2>1. "cpuid" \notin Plainly /\ "cpuid" \notin Unaries /\ "cpuid" \notin Binaries
    BY KindsApart DEF Singles
  <2> QED BY <1>4, <2>1 DEF Evaluated, SubleafOf
<1>8. w \in Claims
  BY CpuIdType
<1>9. Stands(z, w, f)
  <2>1. CASE xs[1] = Undefined \/ xs[2] = Undefined
    <3>1. z = Undefined
      BY <2>1 DEF FeatureWords
    <3> QED BY <1>8, <3>1, Allows
  <2>2. CASE w = Overdefined
    BY <2>2, Allows
  <2>3. CASE xs[1] # Undefined /\ xs[2] # Undefined /\ w # Overdefined
    <3>1. /\ Is(l, "int") /\ Features # {} /\ w = CreateMask(Features, Features)
          /\ \/ Num(l.bits) = FeatureLeaf /\ Inst(i).idx = 2
             \/ Num(l.bits) = StateLeaf /\ Inst(i).idx = 0 /\ r = CreateInteger({0})
      BY <2>3 DEF EvalCpuId, FeatureWord
    <3>2. xs[1] = l
      BY <1>6, <2>3, <3>1, Means DEF Is
    <3>3. r = CreateInteger({0}) => xs[2] = CreateInteger({0})
      BY <1>6, <2>3, Means DEF CreateInteger
    <3>4. z \in AnyInt /\ Features \subseteq z.bits
      BY <2>3, <3>1, <3>2, <3>3 DEF FeatureWords
    <3>5. Is(z, "int") /\ z.bits \cap Features = Features
      BY <3>4 DEF AnyInt, IntConstants, CreateInteger, Is
    <3> QED BY <3>1, <3>5, Allows
  <2> QED BY <2>1, <2>2, <2>3
<1>10. z \in RunValues /\ \A x : Derived(z, x)
  BY FeaturesRun
<1>11. Belongs(i, z)
  BY <1>1, <1>2, <1>6, <1>10, DerivedBelongs
<1> QED BY <1>3, <1>7, <1>9, <1>10, <1>11 DEF Has

\* Values that are written down, or that an argument is given.
LEMMA WrittenMade ==
  ASSUME Sure, NEW i \in Insts, Live(s, i), NEW f \in Funcs
  PROVE  /\ Inst(i).kind = "mov" => Has(i, Inst(i).val, f)
         /\ Inst(i).kind = "undef" => Has(i, Undefined, f)
         /\ Inst(i).kind = "frame" => Has(i, Address(f, Inst(i).val), f)
<1> DEFINE v == Inst(i).val
<1>1. WellFormed(prog)
  BY SureIs
<1>2. ASSUME Inst(i).kind \in Plainly PROVE s.values[i] = v
  <2>1. Settled(s, i)
    BY SureIs
  <2>2. Inst(i).kind \in ValueKinds /\ Inst(i).kind \notin Silent \cup Unaries \cup Binaries \cup Singles
    BY <1>2, KindsApart DEF ValueKinds
  <2>3. ~ Waits(i, Vals(s, i))
    BY <2>2 DEF Waits, Singles
  <2>4. Evaluated(i, Vals(s, i)) = v
    BY <1>2, <2>2 DEF Evaluated, Singles
  <2> QED BY <2>1, <2>2, <2>3, <2>4 DEF Settled, ValueSettled
<1>3. CASE Inst(i).kind = "mov"
  <2>1. Written(v) /\ s.values[i] = v
    BY <1>1, <1>2, <1>3, Operands DEF Plainly
  <2>2. v \in RunValues
    BY <2>1, WrittenRuns
  <2>3. v.kind \in {"int", "float", "global"}
    BY <2>1 DEF Written, IntConstants, FloatConstants, CreateInteger, CreateFloat, Is
  <2>4. Stands(v, s.values[i], f)
    BY <2>1, <2>3 DEF Stands
  <2>5. Belongs(i, v)
    <3>1. Is(v, "global") => IsOf(v, v.sym)
      BY DEF IsOf
    <3>2. Is(v, "global") => i \in Holders(v.sym)
      BY <1>1, <3>1, Holding
    <3> QED BY <1>3, <3>1, <3>2 DEF Belongs, Transparent
  <2> QED BY <1>3, <2>2, <2>4, <2>5 DEF Has
<1>4. CASE Inst(i).kind = "undef"
  <2>1. s.values[i] = Undefined
    BY <1>1, <1>2, <1>4, Operands DEF Plainly
  <2>2. Stands(Undefined, s.values[i], f) /\ Undefined \in RunValues
    BY <2>1, RunBuilds DEF Stands, Undefined, Unknown
  <2>3. Belongs(i, Undefined)
    BY DEF Belongs, Is, Undefined
  <2> QED BY <1>4, <2>2, <2>3 DEF Has
<1>5. CASE Inst(i).kind = "frame"
  <2>1. v.obj \in Objects /\ v.off \in Int /\ v = CreateFrame(v.obj, v.off) /\ s.values[i] = v
    BY <1>1, <1>2, <1>5, Operands DEF Plainly
  <2>2. Address(f, v) = Stack(f, v.obj, v.off)
    BY DEF Address, Stack
  <2>3. Address(f, v) \in RunValues
    BY <2>1, <2>2, RunBuilds
  <2>4. Stands(Address(f, v), s.values[i], f)
    <3>1. Is(v, "frame")
      BY <2>1 DEF CreateFrame, Is
    <3> QED BY <2>1, <3>1 DEF Stands
  <2>5. Belongs(i, Address(f, v))
    BY <2>2 DEF Belongs, Is, Stack
  <2> QED BY <1>5, <2>3, <2>4, <2>5 DEF Has
<1> QED BY <1>3, <1>4, <1>5

\* What the code knows nothing of.
LEMMA OtherMade ==
  ASSUME Sure, NEW i \in Insts, Live(s, i), Inst(i).kind = "other", NEW f, NEW z \in Inputs
  PROVE  Has(i, z, f)
<1>1. WellFormed(prog) /\ Settled(s, i) /\ Analysed
  BY SureIs
<1>2. Inst(i).rets
  BY <1>1, Operands DEF CallSites, Resultless
<1>3. Inst(i).kind \in ValueKinds /\ Inst(i).kind \in Silent
  BY DEF ValueKinds, Silent
<1>4. Inst(i).kind \notin Plainly \cup Unaries \cup Binaries \cup {"copy", "load", "cpuid", "cmp", "select"}
  BY <1>3, KindsApart DEF Singles
<1>5. ~ Waits(i, Vals(s, i))
  BY <1>2, <1>3, <1>4 DEF Waits
<1>6. Evaluated(i, Vals(s, i)) = Overdefined
  BY <1>4 DEF Evaluated
<1>7. s.values[i] = Overdefined
  BY <1>1, <1>3, <1>5, <1>6 DEF Settled, ValueSettled
<1>8. z \in RunValues /\ Loose(z)
  BY <1>1, InputsLoose DEF Analysed
<1> QED BY <1>7, <1>8, Allows, LooseBelongs DEF Has

\* What a load finds is what is in the data of the program.
LEMMA LoadMade ==
  ASSUME Sure, Stored(mem), NEW i \in Insts, Live(s, i), Inst(i).kind = "load", NEW f, NEW xs, Reading(i, xs, f),
         NEW z \in Contents(xs[1])
  PROVE  Has(i, z, f)
<1> DEFINE x == xs[1]
           v == Vals(s, i)[1]
           g == x.sym
           data == prog.data[g]
           item == data.items[ItemAt(data.items, x.off)]
<1>1. WellFormed(prog) /\ Analysed /\ ~ Lacking(Vals(s, i)) /\ Len(Inst(i).args) = 1
  BY SureIs, Reads, Operands
<1>2. 1 \in 1 .. Len(Inst(i).args)
  BY <1>1
<1>3. v \in Claims /\ ~ MaybeNull(v) /\ x \in RunValues /\ IsRunValue(x) /\ Stands(x, v, f)
  BY <1>2, SureReads
<1>4. s.values[i] = Loaded(v)
  <2>1. Inst(i).kind \in ValueKinds \ {"store", "raise", "trap"}
    BY DEF ValueKinds
  <2>2. s.values[i] = Evaluated(i, Vals(s, i))
    BY <1>1, <2>1, Valued
  <2>3. "load" \notin Plainly /\ "load" \notin Unaries /\ "load" \notin Binaries
    BY KindsApart DEF Singles
  <2> QED BY <2>2, <2>3 DEF Evaluated
<1>5. IsAddress(x)
  BY DEF Contents
<1> DEFINE ours == Is(x, "global") /\ g \in DOMAIN prog.data
           k == ItemAt(data.items, x.off)
<1>6. ASSUME ours PROVE At(data.items, x.off) # {} /\ k \in At(data.items, x.off) /\ k \in DOMAIN data.items
  <2>1. At(data.items, x.off) # {}
    BY <1>5, <1>6 DEF Contents
  <2>2. k \in At(data.items, x.off)
    BY <2>1 DEF ItemAt
  <2> QED BY <2>1, <2>2 DEF At
<1>7. ASSUME ours PROVE item \in ToSet(data.items) /\ GoodItem(item)
  <2>1. item \in ToSet(data.items)
    BY <1>6, <1>7 DEF ToSet
  <2> QED BY <1>1, <1>7, <2>1 DEF WellFormed
<1>8. Null \in RunValues /\ Loose(Null)
  BY RunBuilds DEF Null, Loose, Is, CreateInteger
<1>9. ASSUME ours, Written(item.val) PROVE item.val \in RunValues /\ Loose(item.val)
  <2>1. item.val \in RunValues
    BY <1>9, WrittenRuns
  <2>2. ASSUME Is(item.val, "global") PROVE InData(item.val.sym)
    BY <1>6, <1>9, <2>2 DEF InData, IsOf
  <2>3. ASSUME Is(item.val, "global") PROVE ~ Quiet(item.val.sym)
    BY <1>1, <2>2, <2>3, Holding
  <2>4. ASSUME Is(item.val, "global"), item.val.sym \in Funcs PROVE IsEntry(item.val.sym)
    BY <2>2, <2>4 DEF IsEntry, HasAddressTaken
  <2> HIDE DEF item
  <2> QED BY <2>1, <2>3, <2>4 DEF Loose
<1>10. z \in RunValues /\ Loose(z)
  <2>1. CASE z \in Inputs
    BY <1>1, <2>1, InputsLoose DEF Analysed
  <2>2. CASE ours /\ z \notin Inputs
    <3>1. \/ <<g, x.off>> \in DOMAIN mem.cells /\ z = mem.cells[<<g, x.off>>]
          \/ z = Null
          \/ item.kind # "space" /\ item.size = 1 /\ z = item.val
      <4> HIDE DEF item
      <4>1. x.sym = g /\ prog.data[x.sym] = data
        OBVIOUS
      <4> QED BY <1>5, <1>6, <2>2 DEF Contents, item
    <3>2. item.kind # "space" /\ item.size = 1 => Written(item.val)
      BY <1>7, <2>2 DEF GoodItem
    <3> HIDE DEF item
    <3> QED BY <1>8, <1>9, <2>2, <3>1, <3>2 DEF Stored
  <2>3. CASE ~ ours
    <3>1. z \in Inputs
      BY <1>5, <2>3 DEF Contents
    <3> QED BY <2>1, <3>1
  <2> QED BY <2>1, <2>2, <2>3
<1>11. ASSUME ours, IsConstant(g)
       PROVE  Stands(z, LoadInt(item), f)
  <2>1. <<g, x.off>> \notin DOMAIN mem.cells
    <3> DEFINE c == <<g, x.off>>
    <3>1. c[1] = g
      OBVIOUS
    <3> HIDE DEF c
    <3>2. c \notin DOMAIN mem.cells
      BY <1>11, <3>1 DEF Stored
    <3> QED BY <3>2 DEF c
  <2>2. data.constant \/ (data.local /\ g \notin mem.escaped)
    <3>1. CASE ~ data.constant
      <4>1. Quiet(g)
        BY <1>11, <3>1 DEF Quiet
      <4>2. prog.data[g].local
        BY <1>1, <4>1, Holding
      <4> QED BY <4>1, <4>2 DEF Stored
    <3> QED BY <3>1
  <2>3. IF item.kind = "space" THEN z = Null ELSE IF item.size = 1 THEN z = item.val ELSE z \in Inputs
    <3>1. z \in (IF item.kind = "space" THEN {Null} ELSE IF item.size = 1 THEN {item.val} ELSE Inputs)
      BY <1>5, <1>6, <1>11, <2>1, <2>2 DEF Contents
    <3> HIDE DEF item
    <3> QED BY <3>1
  <2>4. GoodItem(item)
    BY <1>7, <1>11
  <2> HIDE DEF item, data, g
  <2>5. CASE item.kind = "space"
    <3>1. LoadInt(item) = Null /\ z = Null
      BY <2>3, <2>5 DEF LoadInt, Null
    <3> QED BY <3>1, Allows DEF Null
  <2>6. CASE item.kind = "value" /\ item.size = 1
    <3>1. LoadInt(item) = item.val /\ z = item.val /\ Written(item.val)
      BY <2>3, <2>4, <2>6 DEF LoadInt, GoodItem
    <3>2. z.kind \in {"int", "float", "global"}
      BY <3>1 DEF Written, IntConstants, FloatConstants, CreateInteger, CreateFloat, Is
    <3> QED BY <3>1, <3>2 DEF Stands
  <2>7. CASE ~ (item.kind = "space") /\ ~ (item.kind = "value" /\ item.size = 1)
    <3>1. LoadInt(item) = Overdefined
      BY <2>7 DEF LoadInt
    <3> QED BY <3>1, Allows
  <2> QED BY <2>5, <2>6, <2>7
<1> HIDE DEF item, k, ours
<1>12. Stands(z, Loaded(v), f)
  <2>1. x # Undefined /\ x.kind \in {"global", "stack"} /\ ~ Is(x, "int")
    BY <1>5 DEF IsAddress, Undefined, Is
  <2>2. v.kind \notin {"undefined", "int"}
    <3>1. v.kind # "undefined" /\ (v.kind = "int" => x = v)
      BY <1>3, <2>1, Means
    <3> QED BY <2>1, <3>1
  <2>3. v # Undefined /\ v # Unknown
    BY <1>3, <2>2, Shapes DEF Undefined, Unknown
  <2>4. CASE Loaded(v) = Overdefined
    BY <2>4, Allows
  <2>5. CASE Loaded(v) # Overdefined
    <3>1. v # Overdefined
      BY <2>5 DEF Loaded, Is, Overdefined
    <3>2. \/ /\ Is(v, "range") /\ v.sym \in DOMAIN prog.data /\ Loaded(v) = CreateInteger({})
             /\ prog.data[v.sym].constant /\ Len(prog.data[v.sym].items) = 1
             /\ prog.data[v.sym].items[1].kind = "space"
          \/ /\ Is(v, "global") /\ v.sym \in DOMAIN prog.data /\ IsConstant(v.sym)
             /\ Loaded(v) = LoadInt(prog.data[v.sym].items[ItemAt(prog.data[v.sym].items, v.off)])
      BY <2>2, <2>3, <2>5, <3>1 DEF Loaded, Is
    <3>3. CASE Is(v, "global") /\ v.sym \in DOMAIN prog.data
      <4>1. x = v
        BY <1>3, <2>1, <3>3, Means DEF Is
      <4>2. ours
        BY <3>3, <4>1 DEF ours
      <4>3. IsConstant(g) /\ Loaded(v) = LoadInt(item)
        BY <3>2, <3>3, <4>1 DEF Is, item, k
      <4> QED BY <1>11, <4>2, <4>3
    <3>4. CASE Is(v, "range") /\ v.sym \in DOMAIN prog.data
      <4>1. Is(x, "global") /\ g = v.sym
        BY <1>3, <2>1, <3>4, Means DEF Is
      <4>2. ours
        BY <3>4, <4>1 DEF ours
      <4>3. data.constant /\ Len(data.items) = 1 /\ data.items[1].kind = "space" /\ Loaded(v) = CreateInteger({})
        BY <3>2, <3>4, <4>1 DEF Is
      <4>4. IsConstant(g)
        BY <4>3 DEF IsConstant
      <4>5. data.items \in Seq(ToSet(data.items))
        BY <1>1, <4>2 DEF WellFormed, ours
      <4>6. k = 1
        <5>1. DOMAIN data.items = 1 .. 1
          BY <4>3, <4>5
        <5> QED BY <1>6, <4>2, <5>1
      <4>7. LoadInt(item) = CreateInteger({})
        BY <4>3, <4>6 DEF LoadInt, item, k
      <4> QED BY <1>11, <4>2, <4>3, <4>4, <4>7
    <3> QED BY <3>2, <3>3, <3>4
  <2> QED BY <2>4, <2>5
<1> QED BY <1>4, <1>10, <1>12, LooseBelongs DEF Has

-----------------------------------------------------------------------------
(* The stack                                                               *)

\* The innermost activations of a stack are taken off.
LEMMA CutStack ==
  ASSUME NEW acts, Stacked(acts), NEW n \in 0 .. Len(acts)
  PROVE  Stacked(SubSeq(acts, 1, n)) /\ Len(SubSeq(acts, 1, n)) = n
         /\ \A k \in 1 .. n : SubSeq(acts, 1, n)[k] = acts[k]
<1> DEFINE q == SubSeq(acts, 1, n)
<1>1. acts \in Seq(Activations) /\ Len(acts) \in Nat
  BY DEF Stacked
<1>2. q \in Seq(Activations) /\ Len(q) = n /\ \A k \in 1 .. n : q[k] = acts[k]
  BY <1>1
<1> HIDE DEF q
<1>3. \A k \in 1 .. Len(q) : Active(q[k])
  <2>1. \A k \in 1 .. n : k \in 1 .. Len(acts)
    BY <1>1
  <2> QED BY <1>2, <2>1 DEF Stacked
<1>4. \A k \in 1 .. Len(q) - 1 : Awaits(q[k], q[k + 1].func)
  <2>1. \A k \in 1 .. n - 1 : k \in 1 .. Len(acts) - 1 /\ k \in 1 .. n /\ k + 1 \in 1 .. n
    BY <1>1
  <2> QED BY <1>2, <2>1 DEF Stacked
<1> QED BY <1>2, <1>3, <1>4 DEF Stacked, q

\* An activation is put on a stack: nothing is below it, or the one below waits for it.
LEMMA PushStack ==
  ASSUME NEW acts, Stacked(acts), NEW act, Active(act), acts # <<>> => Awaits(acts[Len(acts)], act.func)
  PROVE  Stacked(Append(acts, act))
<1> DEFINE q == Append(acts, act)
           n == Len(acts)
<1>1. acts \in Seq(Activations) /\ n \in Nat /\ act \in Activations
  BY DEF Stacked, Active
<1>2. q \in Seq(Activations) /\ Len(q) = n + 1 /\ q[n + 1] = act /\ \A k \in 1 .. n : q[k] = acts[k]
  BY <1>1
<1>3. n # 0 => acts # <<>>
  OBVIOUS
<1> HIDE DEF q
<1>4. \A k \in 1 .. Len(q) : Active(q[k])
  <2>1. \A k \in 1 .. n + 1 : k = n + 1 \/ k \in 1 .. n
    BY <1>1
  <2> QED BY <1>2, <2>1 DEF Stacked
<1>5. \A k \in 1 .. Len(q) - 1 : Awaits(q[k], q[k + 1].func)
  <2>1. \A k \in 1 .. Len(q) - 1 : k \in 1 .. n /\ (k = n \/ (k \in 1 .. n - 1 /\ k + 1 \in 1 .. n))
    BY <1>1, <1>2
  <2> SUFFICES ASSUME NEW k \in 1 .. Len(q) - 1 PROVE Awaits(q[k], q[k + 1].func)
    OBVIOUS
  <2>2. CASE k = n
    <3>1. n # 0
      BY <2>1, <2>2
    <3> QED BY <1>2, <1>3, <2>1, <2>2, <3>1
  <2>3. CASE k \in 1 .. n - 1 /\ k + 1 \in 1 .. n
    BY <1>2, <2>1, <2>3 DEF Stacked
  <2> QED BY <2>1, <2>2, <2>3
<1> QED BY <1>2, <1>4, <1>5 DEF Stacked, q

\* Some activation goes on, those above it are gone.
LEMMA GoesOn ==
  ASSUME NEW acts, Stacked(acts), NEW n \in 1 .. Len(acts), NEW act, Active(act), act.func = acts[n].func
  PROVE  Stacked(Append(SubSeq(acts, 1, n - 1), act))
<1> DEFINE q == SubSeq(acts, 1, n - 1)
<1>1. acts \in Seq(Activations) /\ Len(acts) \in Nat
  BY DEF Stacked
<1>2. n - 1 \in 0 .. Len(acts)
  BY <1>1
<1>3. Stacked(q) /\ Len(q) = n - 1 /\ \A k \in 1 .. n - 1 : q[k] = acts[k]
  BY <1>2, CutStack
<1>4. ASSUME q # <<>> PROVE Awaits(q[Len(q)], act.func)
  <2>1. q \in Seq(Activations)
    BY <1>3 DEF Stacked
  <2> HIDE DEF q
  <2>2. n - 1 # 0
    BY <1>3, <1>4, <2>1
  <2>3. n - 1 \in 1 .. Len(acts) - 1 /\ n - 1 \in 1 .. n - 1 /\ (n - 1) + 1 = n
    BY <1>1, <2>2
  <2>4. Awaits(acts[n - 1], acts[(n - 1) + 1].func)
    BY <2>3 DEF Stacked
  <2> QED BY <1>3, <2>3, <2>4
<1> HIDE DEF q
<1>5. Stacked(Append(q, act))
  BY <1>3, <1>4, PushStack
<1> QED BY <1>5 DEF q

\* The instruction that is executed next.
LEMMA NowIs ==
  ASSUME Sure, Stacked(stack), Running
  PROVE  /\ Active(Top) /\ Len(stack) \in 1 .. Len(stack) /\ Top = stack[Len(stack)]
         /\ Now \in Insts /\ Live(s, Now) /\ FuncOf(Now) = Top.func /\ Top.func \in Funcs
         /\ Stacked(Below)
         /\ Below # <<>> => Awaits(Below[Len(Below)], Top.func)
         /\ Executable(Top.func, Tail(Top.code)) /\ Tail(Top.code) \in Seq(Insts)
<1>1. stack \in Seq(Activations) /\ stack # <<>> /\ Top.code # <<>>
  BY DEF Stacked, Running
<1>2. Len(stack) \in 1 .. Len(stack) /\ Top = stack[Len(stack)]
  BY <1>1 DEF Top
<1>3. Active(Top)
  BY <1>2 DEF Stacked
<1>4. Top.code \in Seq(Insts) /\ Top.func \in Funcs
  BY <1>3 DEF Active, Activations
<1>5. Head(Top.code) \in Insts /\ Tail(Top.code) \in Seq(Insts)
        /\ ToSet(Top.code) = {Head(Top.code)} \cup ToSet(Tail(Top.code))
  BY <1>1, <1>4, SetsOf
<1>6. \A i \in ToSet(Top.code) : Live(s, i) /\ FuncOf(i) = Top.func
  BY <1>3 DEF Active, Executable
<1>7. Now \in Insts /\ Live(s, Now) /\ FuncOf(Now) = Top.func /\ Executable(Top.func, Tail(Top.code))
  BY <1>5, <1>6 DEF Now, Executable
<1> DEFINE n == Len(stack)
<1>8. n - 1 \in 0 .. n /\ n \in Nat
  BY <1>1, <1>2
<1>9. Stacked(Below) /\ Len(Below) = n - 1 /\ \A k \in 1 .. n - 1 : Below[k] = stack[k]
  BY <1>8, CutStack DEF Below
<1> HIDE DEF n
<1>10. ASSUME Below # <<>> PROVE Awaits(Below[Len(Below)], Top.func)
  <2>1. Below \in Seq(Activations)
    BY <1>9 DEF Stacked
  <2>2. n - 1 # 0
    BY <1>9, <1>10, <2>1
  <2>3. n - 1 \in 1 .. n - 1 /\ (n - 1) + 1 = n
    BY <1>8, <2>2
  <2>4. Awaits(stack[n - 1], stack[(n - 1) + 1].func)
    BY <2>3 DEF Stacked, n
  <2> QED BY <1>2, <1>9, <2>3, <2>4 DEF n
<1> QED BY <1>2, <1>3, <1>4, <1>5, <1>7, <1>9, <1>10

\* What it reads has been computed.
Seen == [k \in DOMAIN Inst(Now).args |-> Operand(k)]

\* The operands of the instruction that is executed.
LEMMA NowReads ==
  ASSUME Sure, Stacked(stack), Running, Readable
  PROVE  /\ Reading(Now, Seen, Top.func)
         /\ \A k \in DOMAIN Inst(Now).args :
              /\ Seen[k] = Operand(k) /\ Has(Inst(Now).args[k], Operand(k), Top.func)
              /\ Operand(k) \in RunValues
         /\ DOMAIN Inst(Now).args = 1 .. Len(Inst(Now).args) /\ Len(Inst(Now).args) \in Nat
<1>1. Active(Top) /\ Now \in Insts
  BY NowIs
<1>2. DOMAIN Inst(Now).args = 1 .. Len(Inst(Now).args) /\ Len(Inst(Now).args) \in Nat
      /\ \A k \in DOMAIN Inst(Now).args : Inst(Now).args[k] \in Insts
  BY <1>1, SureIs, Operands
<1>3. \A i \in Insts : Top.env[i] # Unknown => Has(i, Top.env[i], Top.func)
  BY <1>1 DEF Active, Environment
<1>4. \A k \in DOMAIN Inst(Now).args : Has(Inst(Now).args[k], Operand(k), Top.func)
  BY <1>2, <1>3 DEF Readable, Operand
<1>5. \A k \in DOMAIN Inst(Now).args : Seen[k] = Operand(k)
  BY DEF Seen
<1> QED BY <1>2, <1>4, <1>5 DEF Reading, Has

\* What has changed in an activation.
LEMMA Updated ==
  ASSUME NEW x, NEW y, NEW act, act \in Activations
  PROVE  [act EXCEPT !.code = x, !.env = y] = [code |-> x, func |-> act.func, env |-> y, args |-> act.args]
<1>1. \A r : [r EXCEPT !.code = x, !.env = y] = [[r EXCEPT !.code = x] EXCEPT !.env = y]
  OBVIOUS
<1>2. \A a, b, c, d : [[code |-> a, func |-> b, env |-> c, args |-> d] EXCEPT !.code = x]
                         = [code |-> x, func |-> b, env |-> c, args |-> d]
  OBVIOUS
<1>3. \A a, b, c, d : [[code |-> a, func |-> b, env |-> c, args |-> d] EXCEPT !.env = y]
                         = [code |-> a, func |-> b, env |-> y, args |-> d]
  OBVIOUS
<1> DEFINE a == act.code
           b == act.func
           c == act.env
           d == act.args
<1>4. act = [code |-> a, func |-> b, env |-> c, args |-> d]
  BY DEF Activations
<1> HIDE DEF a, b, c, d
<1>5. [act EXCEPT !.code = x, !.env = y] = [code |-> x, func |-> b, env |-> y, args |-> d]
  <2>1. [act EXCEPT !.code = x, !.env = y] = [[act EXCEPT !.code = x] EXCEPT !.env = y]
    BY <1>1
  <2>2. [act EXCEPT !.code = x] = [code |-> x, func |-> b, env |-> c, args |-> d]
    BY <1>2, <1>4
  <2>3. [[code |-> x, func |-> b, env |-> c, args |-> d] EXCEPT !.env = y]
          = [code |-> x, func |-> b, env |-> y, args |-> d]
    BY <1>3
  <2> QED BY <2>1, <2>2, <2>3
<1> QED BY <1>5 DEF b, d

\* An activation with code that can be executed, and one more value.
LEMMA StillActive ==
  ASSUME NEW act, Active(act), NEW code \in Seq(Insts), Executable(act.func, code),
         NEW env \in [Insts -> RunValues \cup {Unknown}], Environment(act.func, env)
  PROVE  Active([act EXCEPT !.code = code, !.env = env]) /\ [act EXCEPT !.code = code, !.env = env].func = act.func
<1>1. act \in Activations
  BY DEF Active
<1>2. [act EXCEPT !.code = code, !.env = env] = [code |-> code, func |-> act.func, env |-> env, args |-> act.args]
  BY <1>1, Updated
<1>3. act.func \in Funcs /\ act.args \in Seq(RunValues) /\ Receives(act.func, act.args)
  BY DEF Active, Activations
<1> DEFINE new == [code |-> code, func |-> act.func, env |-> env, args |-> act.args]
<1>4. new \in Activations
  BY <1>3 DEF Activations
<1>5. new.code = code /\ new.func = act.func /\ new.env = env /\ new.args = act.args
  OBVIOUS
<1>6. Active(new)
  <2> HIDE DEF new
  <2> QED BY <1>3, <1>4, <1>5 DEF Active
<1> QED BY <1>2, <1>5, <1>6

\* A value that an instruction has got.
LEMMA NewValue ==
  ASSUME NEW act, Active(act), NEW i \in Insts, NEW x, x = Unknown \/ Has(i, x, act.func)
  PROVE  /\ [act.env EXCEPT ![i] = x] \in [Insts -> RunValues \cup {Unknown}]
         /\ Environment(act.func, [act.env EXCEPT ![i] = x])
<1>1. act.env \in [Insts -> RunValues \cup {Unknown}] /\ Environment(act.func, act.env)
  BY DEF Active, Activations
<1>2. x \in RunValues \cup {Unknown}
  BY DEF Has
<1> DEFINE env == [act.env EXCEPT ![i] = x]
<1>3. env \in [Insts -> RunValues \cup {Unknown}] /\ \A j \in Insts : env[j] = IF j = i THEN x ELSE act.env[j]
  BY <1>1, <1>2
<1> HIDE DEF env
<1>4. Environment(act.func, env)
  BY <1>1, <1>3 DEF Environment
<1> QED BY <1>3, <1>4 DEF env

-----------------------------------------------------------------------------
(* Steps of a run                                                          *)

\* What PHIs take over an edge that is marked.
LEMMA PhiTakes ==
  ASSUME Sure, NEW act, Active(act), NEW i \in Insts, Inst(i).kind # "phi", NEW j \in Insts, Inst(j).kind = "phi",
         BlockOf(j) \in ToSet(Inst(i).to), Edge(i, BlockOf(j)) \in s.edges,
         NEW k, k = (CHOOSE m \in DOMAIN Inst(j).to : Inst(j).to[m] = BlockOf(i))
  PROVE  /\ Inst(j).args[k] \in Insts
         /\ act.env[Inst(j).args[k]] # Unknown => Has(j, act.env[Inst(j).args[k]], act.func)
<1>1. WellFormed(prog) /\ Fit(s)
  BY SureIs
<1>2. BlockOf(i) \in ToSet(Inst(j).to)
  <2>1. GoodPhis(prog)
    BY <1>1 DEF WellFormed
  <2> QED BY <2>1 DEF GoodPhis, Inst, Insts, BlockOf
<1>3. k \in DOMAIN Inst(j).to /\ Inst(j).to[k] = BlockOf(i)
  <2>1. \E m \in DOMAIN Inst(j).to : Inst(j).to[m] = BlockOf(i)
    BY <1>2 DEF ToSet
  <2> QED BY <2>1
<1>4. k \in DOMAIN Inst(j).args
  <2>1. GoodInst(prog, j)
    BY <1>1 DEF WellFormed, Insts
  <2>2. prog.inst[j].kind = "phi" => Len(prog.inst[j].to) = Len(prog.inst[j].args)
    BY <2>1, Zenon DEF GoodInst
  <2>3. Len(Inst(j).to) = Len(Inst(j).args)
    BY <2>2 DEF Inst
  <2>4. Inst(j).to \in Seq(Blocks) /\ Inst(j).args \in Seq(Insts)
    BY <1>1, Formed
  <2> QED BY <1>3, <2>3, <2>4
<1>5. Inst(j).args[k] \in Insts
  BY <1>1, <1>4, Operands
<1> DEFINE a == Inst(j).args[k]
           x == act.env[a]
<1>6. ASSUME x # Unknown PROVE Has(j, x, act.func)
  <2>1. Has(a, x, act.func)
    BY <1>5, <1>6 DEF Active, Environment
  <2>2. Live(s, j)
    <3>1. Edge(i, BlockOf(j))[2] = BlockOf(j)
      BY DEF Edge
    <3> QED BY <1>1, <3>1 DEF Fit, Live
  <2>3. PhiSettled(s, j)
    <3>1. Settled(s, j)
      BY <2>2, SureIs
    <3> QED BY <3>1 DEF Settled
  <2>4. <<Inst(j).to[k], BlockOf(j)>> \in s.edges
    BY <1>3 DEF Edge
  <2>5. Covers(s.values[a], s.values[j])
    BY <1>4, <2>3, <2>4 DEF PhiSettled
  <2>6. Stands(x, s.values[j], act.func) /\ x \in RunValues
    BY <2>1, <2>5 DEF Has, Covers
  <2>7. Belongs(j, x)
    <3>1. Inst(j).kind \notin CallSites \cup {"load"} /\ Derived(x, x)
      BY DEF CallSites, Derived
    <3> HIDE DEF x
    <3> QED BY <1>1, <1>4, <2>1, <3>1, DerivedBelongs
  <2> QED BY <2>2, <2>6, <2>7 DEF Has
<1> QED BY <1>5, <1>6

\* Where an edge is marked an activation may go.
LEMMA GoesTo ==
  ASSUME Sure, NEW act, Active(act), NEW i \in Insts, Inst(i).kind # "phi", FuncOf(i) = act.func,
         NEW to, to \in ToSet(Inst(i).to), Edge(i, to) \in s.edges
  PROVE  Active(Goto(act, BlockOf(i), to)) /\ Goto(act, BlockOf(i), to).func = act.func
<1>1. WellFormed(prog) /\ Fit(s)
  BY SureIs
<1>2. to \in Blocks /\ prog.home[to] = act.func
  <2>1. GoodInst(prog, i)
    BY <1>1 DEF WellFormed, Insts
  <2>2. prog.inst[i].kind # "phi" => \A b \in ToSet(prog.inst[i].to) : prog.home[b] = prog.home[prog.at[i]]
    BY <2>1, Zenon DEF GoodInst
  <2>3. Inst(i).to \in Seq(Blocks)
    BY <1>1, Formed
  <2>4. to \in Blocks
    BY <2>3, SetsOf
  <2> QED BY <2>2, <2>4 DEF Inst, FuncOf, BlockOf
<1>3. to \in s.executable
  <2>1. Edge(i, to)[2] = to
    BY DEF Edge
  <2> QED BY <1>1, <2>1 DEF Fit
<1> DEFINE phis == Phis(to)
           body == prog.body[to]
           code == From(to, Len(phis) + 1)
           Take(j) == LET k == CHOOSE k \in DOMAIN Inst(j).to : Inst(j).to[k] = BlockOf(i)
                      IN act.env[Inst(j).args[k]]
           env == [j \in Insts |-> IF Contains(phis, j) THEN Take(j) ELSE act.env[j]]
<1>4. Goto(act, BlockOf(i), to) = [act EXCEPT !.code = code, !.env = env]
  BY DEF Goto
<1>5. phis \in Seq(Insts) /\ \A j : j \in ToSet(phis) <=> j \in Insts /\ Inst(j).kind = "phi" /\ BlockOf(j) = to
  BY <1>1, <1>2, PhisOf
<1>6. body \in Seq(Insts) /\ \A j : j \in ToSet(body) <=> j \in Insts /\ BlockOf(j) = to
  BY <1>1, <1>2, Formed
<1>7. code \in Seq(Insts) /\ ToSet(code) \subseteq ToSet(body)
  <2> DEFINE m == Len(phis) + 1
  <2>1. m \in Int /\ m >= 1
    BY <1>5
  <2> HIDE DEF m, body, phis
  <2>2. code = SubSeq(body, m, Len(body))
    BY DEF From, body, m
  <2>3. SubSeq(body, m, Len(body)) \in Seq(Insts)
    BY <1>6, <2>1
  <2>4. \A n \in DOMAIN SubSeq(body, m, Len(body)) :
          /\ n + m - 1 \in DOMAIN body
          /\ SubSeq(body, m, Len(body))[n] = body[n + m - 1]
    BY <1>6, <2>1
  <2> HIDE DEF code
  <2> QED BY <2>2, <2>3, <2>4 DEF ToSet
<1>8. Executable(act.func, code)
  <2>1. \A j \in ToSet(code) : j \in Insts /\ BlockOf(j) = to
    BY <1>6, <1>7
  <2> HIDE DEF code
  <2> QED BY <1>2, <1>3, <2>1 DEF Executable, Live, FuncOf
<1>9. act.env \in [Insts -> RunValues \cup {Unknown}] /\ Environment(act.func, act.env)
  BY DEF Active, Activations
<1>10. ASSUME NEW j \in Insts, Contains(phis, j)
       PROVE  Take(j) \in RunValues \cup {Unknown} /\ (Take(j) # Unknown => Has(j, Take(j), act.func))
  <2>1. j \in ToSet(phis)
    BY <1>5, <1>10 DEF Contains, ToSet
  <2>2. Inst(j).kind = "phi" /\ BlockOf(j) = to
    BY <1>5, <2>1
  <2> DEFINE k == CHOOSE k \in DOMAIN Inst(j).to : Inst(j).to[k] = BlockOf(i)
  <2>3. Take(j) = act.env[Inst(j).args[k]]
    OBVIOUS
  <2>4. k = (CHOOSE m \in DOMAIN Inst(j).to : Inst(j).to[m] = BlockOf(i))
    OBVIOUS
  <2> HIDE DEF k, Take
  <2>5. Inst(j).args[k] \in Insts /\ (act.env[Inst(j).args[k]] # Unknown => Has(j, act.env[Inst(j).args[k]], act.func))
    BY <2>2, <2>4, PhiTakes
  <2> QED BY <1>9, <2>3, <2>5
<1>11. env \in [Insts -> RunValues \cup {Unknown}] /\ Environment(act.func, env)
  <2> HIDE DEF Take, phis
  <2>1. \A j \in Insts : env[j] = IF Contains(phis, j) THEN Take(j) ELSE act.env[j]
    OBVIOUS
  <2>2. env \in [Insts -> RunValues \cup {Unknown}]
    BY <1>9, <1>10
  <2> HIDE DEF env
  <2>3. Environment(act.func, env)
    BY <1>9, <1>10, <2>1 DEF Environment
  <2> QED BY <2>2, <2>3
<1> HIDE DEF code, env
<1>12. Active([act EXCEPT !.code = code, !.env = env]) /\ [act EXCEPT !.code = code, !.env = env].func = act.func
  BY <1>7, <1>8, <1>11, StillActive
<1> QED BY <1>4, <1>12

\* What the instruction that is executed computes.
LEMMA Computes ==
  ASSUME Sure, Stacked(stack), Stored(mem), Running, Readable,
         Inst(Now).kind \in {"arg", "mov", "undef", "frame", "copy", "load", "cpuid", "cmp", "select", "other"}
                              \cup Unaries \cup Binaries,
         NEW x \in Results(Now)
  PROVE  Has(Now, x, Top.func)
<1> DEFINE f == Top.func
           kind == Inst(Now).kind
<1>1. /\ Now \in Insts /\ Live(s, Now) /\ FuncOf(Now) = f /\ f \in Funcs /\ Active(Top)
      /\ WellFormed(prog)
  BY NowIs, SureIs
<1>2. /\ Reading(Now, Seen, f) /\ \A k \in DOMAIN Inst(Now).args : Seen[k] = Operand(k)
      /\ DOMAIN Inst(Now).args = 1 .. Len(Inst(Now).args)
  BY NowReads
<1>3. /\ kind \in Unaries \cup {"copy", "load"} => Len(Inst(Now).args) = 1
      /\ kind \in Binaries \cup {"cmp"} => Len(Inst(Now).args) = 2
      /\ kind = "select" => Len(Inst(Now).args) = 3
  BY <1>1, Operands
<1>4. kind = "cpuid" => Len(Inst(Now).args) = 2
  <2>1. ~ Lacking(Vals(s, Now)) /\ CleanInst(Now)
    BY <1>1, <1>2, SureIs, Reads
  <2> QED BY <2>1 DEF CleanInst
<1>5. CASE kind = "arg"
  <2>1. x = Argument(Top.args, Now)
    <3>1. kind \notin Unaries \cup Binaries
      BY <1>5, KindsApart DEF Singles
    <3> QED BY <1>5, <3>1 DEF Results, Argument
  <2>2. IsArg(Now, f)
    BY <1>1, <1>5 DEF IsArg
  <2>3. Receives(f, Top.args) /\ Top.args \in Seq(RunValues)
    BY <1>1 DEF Active, Activations
  <2>4. Stands(x, s.values[Now], f)
    BY <1>1, <2>1, <2>2, <2>3 DEF Receives
  <2>5. x = Undefined \/ \E k \in DOMAIN Top.args : x = Top.args[k]
    BY <2>1 DEF Argument
  <2>6. x \in RunValues /\ Loose(x)
    <3>1. Loose(Undefined) /\ Undefined \in RunValues
      BY RunBuilds DEF Loose, Is, Undefined
    <3>2. \A k \in DOMAIN Top.args : Top.args[k] \in RunValues /\ Loose(Top.args[k])
      BY <2>3 DEF Receives
    <3> QED BY <2>5, <3>1, <3>2
  <2> QED BY <1>1, <2>4, <2>6, LooseBelongs DEF Has
<1>6. CASE kind \in {"mov", "undef", "frame"}
  <2>1. ~ MaybeNull(Inst(Now).val)
    BY SureIs
  <2>2. x = IF kind = "mov" THEN Inst(Now).val ELSE IF kind = "undef" THEN Undefined ELSE Address(f, Inst(Now).val)
    <3>1. kind \notin Unaries \cup Binaries
      BY <1>6, KindsApart DEF Plainly
    <3> QED BY <1>6, <2>1, <3>1 DEF Results
  <2> QED BY <1>1, <1>6, <2>2, WrittenMade
<1>7. CASE kind = "copy"
  <2>1. kind \notin Unaries \cup Binaries
    BY <1>7, KindsApart DEF Singles
  <2>2. x = Operand(1)
    BY <1>7, <2>1 DEF Results
  <2>3. x = Seen[1]
    BY <1>2, <1>3, <1>7, <2>2
  <2> QED BY <1>1, <1>2, <1>7, <2>3, CopyMade
<1>8. CASE kind = "load"
  <2>1. kind \notin Unaries \cup Binaries
    BY <1>8, KindsApart DEF Singles
  <2>2. x \in Contents(Operand(1))
    BY <1>8, <2>1 DEF Results
  <2>3. Operand(1) = Seen[1]
    BY <1>2, <1>3, <1>8
  <2> QED BY <1>1, <1>2, <1>8, <2>2, <2>3, LoadMade
<1>9. CASE kind = "cpuid"
  <2>1. kind \notin Unaries \cup Binaries
    BY <1>9, KindsApart DEF Singles
  <2>2. x \in FeatureWords(Operand(1), Operand(2), Inst(Now).idx)
    BY <1>9, <2>1 DEF Results
  <2>3. Operand(1) = Seen[1] /\ Operand(2) = Seen[2]
    BY <1>2, <1>4, <1>9
  <2> QED BY <1>1, <1>2, <1>9, <2>2, <2>3, CpuIdMade
<1>10. CASE kind = "cmp"
  <2>1. kind \notin Unaries \cup Binaries
    BY <1>10, KindsApart DEF Singles
  <2>2. x \in Compared(Inst(Now).val, Operand(1), Operand(2))
    BY <1>10, <2>1 DEF Results
  <2>3. Operand(1) = Seen[1] /\ Operand(2) = Seen[2]
    <3>1. Len(Inst(Now).args) = 2
      BY <1>3, <1>10
    <3> QED BY <1>2, <3>1
  <2> QED BY <1>1, <1>2, <1>10, <2>2, <2>3, CompareMade
<1>11. CASE kind = "select"
  <2>1. kind \notin Unaries \cup Binaries
    BY <1>11, KindsApart DEF Singles
  <2>2. x = IF Operand(1) = Undefined THEN Undefined ELSE IF Truth(Operand(1)) THEN Operand(2) ELSE Operand(3)
    BY <1>11, <2>1 DEF Results
  <2>3. Operand(1) = Seen[1] /\ Operand(2) = Seen[2] /\ Operand(3) = Seen[3]
    <3>1. Len(Inst(Now).args) = 3
      BY <1>3, <1>11
    <3> QED BY <1>2, <3>1
  <2> QED BY <1>1, <1>2, <1>11, <2>2, <2>3, SelectMade
<1>12. CASE kind = "other"
  <2>1. kind \notin Unaries \cup Binaries
    BY <1>12, KindsApart DEF Silent
  <2>2. x \in Inputs
    BY <1>12, <2>1 DEF Results
  <2> QED BY <1>1, <1>12, <2>2, OtherMade
<1>13. CASE kind \in Unaries
  <2>1. kind \notin Plainly \cup Silent \cup Binaries \cup Singles
    BY <1>13, KindsApart
  <2>2. x \in Unary(kind, Operand(1))
    BY <1>13, <2>1 DEF Results, Plainly, Silent, Singles
  <2>3. Operand(1) = Seen[1]
    <3>1. Len(Inst(Now).args) = 1
      BY <1>3, <1>13
    <3> QED BY <1>2, <3>1
  <2> QED BY <1>1, <1>2, <1>13, <2>2, <2>3, UnaryMade
<1>14. CASE kind \in Binaries
  <2>1. kind \notin Plainly \cup Silent \cup Unaries \cup Singles
    BY <1>14, KindsApart
  <2>2. x \in Binary(kind, Operand(1), Operand(2))
    BY <1>14, <2>1 DEF Results, Plainly, Silent, Singles
  <2>3. Operand(1) = Seen[1] /\ Operand(2) = Seen[2]
    <3>1. Len(Inst(Now).args) = 2
      BY <1>3, <1>14
    <3> QED BY <1>2, <3>1
  <2> QED BY <1>1, <1>2, <1>14, <2>2, <2>3, BinaryMade
<1> QED BY <1>5, <1>6, <1>7, <1>8, <1>9, <1>10, <1>11, <1>12, <1>13, <1>14

\* What the machine does to the innermost activation.
LEMMA Advanced ==
  ASSUME NEW act, act \in Activations, NEW i, NEW x
  PROVE  /\ [act EXCEPT !.code = Tail(@), !.env[i] = x]
              = [act EXCEPT !.code = Tail(act.code), !.env = [act.env EXCEPT ![i] = x]]
         /\ [act EXCEPT !.code = Tail(@)] = [act EXCEPT !.code = Tail(act.code), !.env = act.env]
         /\ [act EXCEPT !.env[i] = x] = [act EXCEPT !.code = act.code, !.env = [act.env EXCEPT ![i] = x]]
<1>1. [act EXCEPT !.code = Tail(@), !.env[i] = x]
        = [act EXCEPT !.code = Tail(act.code), !.env = [act.env EXCEPT ![i] = x]]
  OBVIOUS
<1> DEFINE a == act.code
           b == act.func
           c == act.env
           d == act.args
<1>2. act = [code |-> a, func |-> b, env |-> c, args |-> d]
  BY DEF Activations
<1> HIDE DEF a, b, c, d
<1>3. [act EXCEPT !.code = Tail(@)] = [code |-> Tail(a), func |-> b, env |-> c, args |-> d]
  <2>1. \A r : [r EXCEPT !.code = Tail(@)] = [r EXCEPT !.code = Tail(r.code)]
    OBVIOUS
  <2>2. [act EXCEPT !.code = Tail(@)] = [act EXCEPT !.code = Tail(act.code)]
    BY <2>1, Zenon
  <2> DEFINE y == Tail(act.code)
  <2>3. \A p, q, r, z : [[code |-> p, func |-> q, env |-> r, args |-> z] EXCEPT !.code = y]
                           = [code |-> y, func |-> q, env |-> r, args |-> z]
    <3> HIDE DEF y
    <3> QED OBVIOUS
  <2>4. act.code = a
    BY DEF a
  <2>5. y = Tail(a)
    BY <2>4
  <2> HIDE DEF y
  <2>6. [act EXCEPT !.code = y] = [code |-> y, func |-> b, env |-> c, args |-> d]
    BY <1>2, <2>3
  <2> QED BY <2>2, <2>5, <2>6 DEF y
<1>4. [act EXCEPT !.env[i] = x] = [code |-> a, func |-> b, env |-> [c EXCEPT ![i] = x], args |-> d]
  <2>1. \A r : [r EXCEPT !.env[i] = x] = [r EXCEPT !.env = [r.env EXCEPT ![i] = x]]
    OBVIOUS
  <2>2. [act EXCEPT !.env[i] = x] = [act EXCEPT !.env = [act.env EXCEPT ![i] = x]]
    BY <2>1
  <2> DEFINE y == [act.env EXCEPT ![i] = x]
  <2>3. \A p, q, r, z : [[code |-> p, func |-> q, env |-> r, args |-> z] EXCEPT !.env = y]
                           = [code |-> p, func |-> q, env |-> y, args |-> z]
    <3> HIDE DEF y
    <3> QED OBVIOUS
  <2>4. act.env = c
    BY DEF c
  <2>5. y = [c EXCEPT ![i] = x]
    BY <2>4
  <2> HIDE DEF y
  <2>6. [act EXCEPT !.env = y] = [code |-> a, func |-> b, env |-> y, args |-> d]
    BY <1>2, <2>3
  <2> QED BY <2>2, <2>5, <2>6 DEF y
<1>5. /\ [act EXCEPT !.code = Tail(act.code), !.env = act.env]
           = [code |-> Tail(a), func |-> b, env |-> c, args |-> d]
      /\ [act EXCEPT !.code = act.code, !.env = [act.env EXCEPT ![i] = x]]
           = [code |-> a, func |-> b, env |-> [c EXCEPT ![i] = x], args |-> d]
  BY Updated DEF a, b, c, d
<1> QED BY <1>1, <1>3, <1>4, <1>5

\* The innermost activation goes on.
LEMMA TopGoesOn ==
  ASSUME Sure, Stacked(stack), Running, NEW act, Active(act), act.func = Top.func
  PROVE  Stacked(Append(Below, act))
<1>1. Len(stack) \in 1 .. Len(stack) /\ Top = stack[Len(stack)]
  BY NowIs
<1> QED BY <1>1, GoesOn DEF Below

\* A value is computed, and it is one that the solver allows.
LEMMA ComputeStep ==
  ASSUME Sure, Stacked(stack), Stored(mem), Compute
  PROVE  Stacked(stack')
<1>1. /\ Running /\ Readable
      /\ Inst(Now).kind \in {"arg", "mov", "undef", "frame", "copy", "load", "cpuid", "cmp", "select", "other"}
                              \cup Unaries \cup Binaries
  BY DEF Compute, Executes
<1>2. PICK x \in Results(Now) : stack' = Append(Below, [Top EXCEPT !.code = Tail(@), !.env[Now] = x])
  BY DEF Compute
<1>3. Has(Now, x, Top.func)
  BY <1>1, Computes
<1>4. Active(Top) /\ Now \in Insts /\ Executable(Top.func, Tail(Top.code)) /\ Tail(Top.code) \in Seq(Insts)
  BY <1>1, NowIs
<1>5. Top \in Activations
  BY <1>4 DEF Active
<1> DEFINE act == [Top EXCEPT !.code = Tail(Top.code), !.env = [Top.env EXCEPT ![Now] = x]]
<1>6. Active(act) /\ act.func = Top.func
  BY <1>3, <1>4, NewValue, StillActive
<1>7. stack' = Append(Below, act)
  BY <1>2, <1>5, Advanced
<1> HIDE DEF act
<1> QED BY <1>1, <1>6, <1>7, TopGoesOn

\* Addresses that are given away are not of quiet data.
LEMMA NotQuiet ==
  ASSUME NEW values, \A k \in DOMAIN values : Loose(values[k])
  PROVE  \A g \in Outside(values) : ~ Quiet(g)
BY DEF Outside, ToSet, Loose

\* What is stored may be loaded: neither the data nor the value is quiet.
LEMMA StoreStep ==
  ASSUME Sure, Stacked(stack), Stored(mem), Store
  PROVE  Stacked(stack') /\ Stored(mem')
<1> DEFINE x == Operand(1)
           y == Operand(2)
           c == <<x.sym, x.off>>
<1>1. /\ Running /\ Readable /\ Inst(Now).kind = "store"
      /\ Is(x, "global") /\ x.sym \in DOMAIN prog.data /\ ~ prog.data[x.sym].constant
      /\ mem' = [cells |-> Put(mem.cells, c, y), escaped |-> mem.escaped \cup Outside(<<y>>)]
      /\ stack' = Append(Below, [Top EXCEPT !.code = Tail(@)])
  BY DEF Store, Executes
<1>2. Active(Top) /\ Now \in Insts /\ Executable(Top.func, Tail(Top.code)) /\ Tail(Top.code) \in Seq(Insts)
  BY <1>1, NowIs
<1>3. Stacked(stack')
  <2>1. Top \in Activations /\ Top.env \in [Insts -> RunValues \cup {Unknown}] /\ Environment(Top.func, Top.env)
    BY <1>2 DEF Active, Activations
  <2> DEFINE act == [Top EXCEPT !.code = Tail(Top.code), !.env = Top.env]
  <2>2. Active(act) /\ act.func = Top.func
    BY <1>2, <2>1, StillActive
  <2>3. stack' = Append(Below, act)
    BY <1>1, <2>1, Advanced
  <2> HIDE DEF act
  <2> QED BY <1>1, <2>2, <2>3, TopGoesOn
<1>4. WellFormed(prog) /\ Len(Inst(Now).args) = 2
  BY <1>1, <1>2, SureIs, Operands
<1>5. 1 \in DOMAIN Inst(Now).args /\ 2 \in DOMAIN Inst(Now).args
  BY <1>1, <1>4, NowReads
<1>6. Has(Inst(Now).args[1], x, Top.func) /\ Has(Inst(Now).args[2], y, Top.func) /\ y \in RunValues
  BY <1>1, <1>5, NowReads
<1>7. Loose(x) /\ Loose(y)
  <2>1. Inst(Now).kind \notin Transparent \cup {"load"} /\ Inst(Now).kind \notin CallSites
    BY <1>1 DEF Transparent, CallSites
  <2> QED BY <1>2, <1>4, <1>5, <1>6, <2>1, UsesLoose
<1>8. ~ IsConstant(x.sym)
  BY <1>1, <1>7 DEF Loose, Quiet
<1>9. Stored(mem')
  <2>1. \A g \in Outside(<<y>>) : ~ Quiet(g)
    <3> DEFINE q == <<y>>
    <3>1. \A k \in DOMAIN q : q[k] = y
      OBVIOUS
    <3> HIDE DEF q
    <3>2. \A g \in Outside(q) : ~ Quiet(g)
      BY <1>7, <3>1, NotQuiet
    <3> QED BY <3>2 DEF q
  <2> DEFINE cells == Put(mem.cells, c, y)
             escaped == mem.escaped \cup Outside(<<y>>)
  <2>2. c[1] = x.sym
    OBVIOUS
  <2>3. \A d \in DOMAIN cells : (d = c /\ cells[d] = y) \/ (d \in DOMAIN mem.cells /\ cells[d] = mem.cells[d])
    <3> HIDE DEF c, y
    <3> QED BY DEF Put
  <2>4. mem' = [cells |-> cells, escaped |-> escaped]
    BY <1>1
  <2> HIDE DEF c, y, x, cells
  <2>5. \A d \in DOMAIN cells : cells[d] \in RunValues /\ Loose(cells[d]) /\ ~ IsConstant(d[1])
    BY <1>6, <1>7, <1>8, <2>2, <2>3 DEF Stored
  <2>6. \A g \in escaped : ~ Quiet(g)
    BY <2>1 DEF Stored
  <2> HIDE DEF escaped
  <2> DEFINE new == [cells |-> cells, escaped |-> escaped]
  <2>7. new = [cells |-> new.cells, escaped |-> new.escaped] /\ new.cells = cells /\ new.escaped = escaped
    OBVIOUS
  <2>8. mem' = new
    BY <2>4
  <2> HIDE DEF new
  <2>9. Stored(new)
    BY <2>5, <2>6, <2>7 DEF Stored
  <2> QED BY <2>8, <2>9
<1> QED BY <1>3, <1>9

\* What two short sequences hold, one after the other.
LEMMA TwoOf ==
  \A a, b : /\ b \in ToSet(<<>> \o <<b>>) /\ a \in ToSet(<<a>> \o <<>>)
            /\ a \in ToSet(<<a>> \o <<b>>) /\ b \in ToSet(<<a>> \o <<b>>)
<1> SUFFICES ASSUME NEW a, NEW b
             PROVE  /\ b \in ToSet(<<>> \o <<b>>) /\ a \in ToSet(<<a>> \o <<>>)
                    /\ a \in ToSet(<<a>> \o <<b>>) /\ b \in ToSet(<<a>> \o <<b>>)
  OBVIOUS
<1>1. <<>> \o <<b>> = <<b>>
  OBVIOUS
<1>2. <<a>> \o <<>> = <<a>>
  OBVIOUS
<1>3. b \in ToSet(<<b>>) /\ a \in ToSet(<<a>>)
  BY DEF ToSet
<1>4. ToSet(<<a>> \o <<b>>) = ToSet(<<a>>) \cup ToSet(<<b>>)
  <2> DEFINE T == {a, b}
             p == <<a>>
             q == <<b>>
  <2>1. p \in Seq(T) /\ q \in Seq(T)
    OBVIOUS
  <2> HIDE DEF p, q, T
  <2>2. ToSet(p \o q) = ToSet(p) \cup ToSet(q)
    BY <2>1, SetsOf
  <2> QED BY <2>2 DEF p, q
<1> QED BY <1>1, <1>2, <1>3, <1>4

\* A jump takes an edge that is marked.
LEMMA JumpStep ==
  ASSUME Sure, Stacked(stack), Jump
  PROVE  Stacked(stack')
<1>1. /\ Running /\ Readable /\ Inst(Now).kind \in {"jump", "jcc", "switch"}
  BY DEF Jump, Executes
<1>2. PICK k \in DOMAIN Inst(Now).to :
        /\ CASE Inst(Now).kind = "jump" -> TRUE
             [] Inst(Now).kind = "jcc" ->
                  Operand(1) # Undefined /\ (k = 1 <=> Truth(Operand(1)))
             [] OTHER -> Is(Operand(1), "int") /\ k = Index(Operand(1)) + 1
        /\ stack' = Append(Below, Goto(Top, BlockOf(Now), Inst(Now).to[k]))
  BY DEF Jump
<1>3. Active(Top) /\ Now \in Insts /\ Live(s, Now) /\ FuncOf(Now) = Top.func
  BY <1>1, NowIs
<1>4. Reading(Now, Seen, Top.func) /\ \A j \in DOMAIN Inst(Now).args : Seen[j] = Operand(j)
  BY <1>1, NowReads
<1>5. WellFormed(prog) /\ ~ Lacking(Vals(s, Now)) /\ Settled(s, Now)
  BY <1>3, <1>4, SureIs, Reads
<1> DEFINE v == Vals(s, Now)[1]
           x == Operand(1)
           n == Len(Inst(Now).to)
<1>6. Inst(Now).to \in Seq(Blocks) /\ n \in Nat /\ DOMAIN Inst(Now).to = 1 .. n /\ k \in 1 .. n
  BY <1>3, <1>5, Formed
<1>7. \A b \in ToSet(Taken(Now, Vals(s, Now))) : Edge(Now, b) \in s.edges
  BY <1>1, <1>5 DEF Settled, JumpSettled
<1>8. Inst(Now).kind \in {"jcc", "switch"} => v \in Claims /\ Stands(x, v, Top.func) /\ ~ MaybeNull(v)
  <2> SUFFICES ASSUME Inst(Now).kind \in {"jcc", "switch"} PROVE v \in Claims /\ Stands(x, v, Top.func) /\ ~ MaybeNull(v)
    OBVIOUS
  <2>1. Len(Inst(Now).args) = 1
    BY <1>3, <1>5, Operands
  <2>2. 1 \in 1 .. Len(Inst(Now).args)
    BY <2>1
  <2>3. v \in Claims /\ Stands(Seen[1], v, Top.func) /\ ~ MaybeNull(v) /\ 1 \in DOMAIN Inst(Now).args
    BY <1>3, <1>4, <2>2, SureReads
  <2> QED BY <1>4, <2>3
<1>9. Inst(Now).to[k] \in ToSet(Taken(Now, Vals(s, Now)))
  <2> HIDE DEF v, x, n
  <2>1. CASE Inst(Now).kind = "jump"
    <3>1. Taken(Now, Vals(s, Now)) = Inst(Now).to
      BY <2>1 DEF Taken
    <3> QED BY <1>2, <3>1 DEF ToSet
  <2>2. CASE Inst(Now).kind = "jcc"
    <3>1. Taken(Now, Vals(s, Now)) = CondTaken(Now, v)
      BY <2>2 DEF Taken, v
    <3>2. x # Undefined /\ (k = 1 <=> Truth(x))
      BY <1>2, <2>2 DEF x
    <3>3. (IsTrue(v) => k = 1) /\ (IsFalse(v) => k # 1)
      BY <1>8, <2>2, <3>2, TruthSound
    <3>4. v # Undefined
      BY <1>8, <2>2, <3>2, Means DEF Undefined
    <3>5. k = 1 \/ k = 2
      <4>1. GoodInst(prog, Now)
        BY <1>3, <1>5 DEF WellFormed, Insts
      <4>2. prog.inst[Now].kind \in {"jcc", "invoke"} => Len(prog.inst[Now].to) = 2
        BY <4>1, Zenon DEF GoodInst
      <4>3. n = 2
        BY <2>2, <4>2 DEF Inst, n
      <4> QED BY <1>6, <4>3
    <3> DEFINE t == Inst(Now).to
    <3>6. CondTaken(Now, v) = (IF IsTrue(v) THEN <<>> ELSE <<t[2]>>) \o (IF IsFalse(v) THEN <<>> ELSE <<t[1]>>)
      BY <3>4 DEF CondTaken
    <3> HIDE DEF t
    <3>8. CASE k = 1
      <4>1. ~ IsFalse(v)
        BY <3>3, <3>8
      <4>2. t[1] \in ToSet(CondTaken(Now, v))
        BY <3>6, <4>1, TwoOf
      <4> QED BY <3>1, <3>8, <4>2 DEF t
    <3>9. CASE k = 2
      <4>1. ~ IsTrue(v)
        BY <3>3, <3>9
      <4>2. t[2] \in ToSet(CondTaken(Now, v))
        BY <3>6, <4>1, TwoOf
      <4> QED BY <3>1, <3>9, <4>2 DEF t
    <3> QED BY <3>5, <3>8, <3>9
  <2>3. CASE Inst(Now).kind = "switch"
    <3>1. Taken(Now, Vals(s, Now)) = SwitchTaken(Now, v)
      BY <2>3 DEF Taken, v
    <3>2. Is(x, "int") /\ k = Index(x) + 1
      BY <1>2, <2>3 DEF x
    <3>3. x # Undefined
      BY <3>2 DEF Is, Undefined
    <3>4. v.kind # "undefined" /\ (v.kind = "int" => x = v)
      BY <1>8, <2>3, <3>3, Means
    <3>5. v # Undefined
      BY <3>4 DEF Undefined
    <3>6. CASE Is(v, "int")
      <4> DEFINE m == Index(v)
      <4>1. k = m + 1
        BY <3>2, <3>4, <3>6 DEF Is
      <4>2. m \in Nat
        <5>1. v.bits \in SUBSET Bits
          BY <1>8, <2>3, <3>6, Shapes DEF Is
        <5> QED BY <5>1, Word DEF Index
      <4>3. SwitchTaken(Now, v) = IF m < n THEN <<Inst(Now).to[m + 1]>> ELSE <<>>
        BY <3>5, <3>6 DEF SwitchTaken, n
      <4> HIDE DEF m
      <4>4. m < n
        BY <1>6, <4>1, <4>2
      <4>5. SwitchTaken(Now, v) = <<Inst(Now).to[k]>>
        BY <4>1, <4>3, <4>4
      <4>6. \A a : a \in ToSet(<<a>>)
        BY DEF ToSet
      <4> QED BY <3>1, <4>5, <4>6
    <3>7. CASE ~ Is(v, "int")
      <4>1. SwitchTaken(Now, v) = Inst(Now).to
        BY <3>5, <3>7 DEF SwitchTaken
      <4> QED BY <1>2, <3>1, <4>1 DEF ToSet
    <3> QED BY <3>6, <3>7
  <2> QED BY <1>1, <2>1, <2>2, <2>3
<1>10. Inst(Now).to[k] \in ToSet(Inst(Now).to) /\ Edge(Now, Inst(Now).to[k]) \in s.edges
  BY <1>7, <1>9 DEF ToSet
<1>11. Inst(Now).kind # "phi"
  BY <1>1
<1>12. Active(Goto(Top, BlockOf(Now), Inst(Now).to[k])) /\ Goto(Top, BlockOf(Now), Inst(Now).to[k]).func = Top.func
  BY <1>3, <1>10, <1>11, GoesTo
<1> QED BY <1>1, <1>2, <1>12, TopGoesOn

\* A function whose entry may be executed starts, with arguments that it may be given.
LEMMA Launched ==
  ASSUME Sure, NEW f \in Funcs, prog.entry[f] \in s.executable, NEW args \in Seq(RunValues), Receives(f, args)
  PROVE  Active(Activation(f, args)) /\ Activation(f, args).func = f
<1> DEFINE b == prog.entry[f]
           code == prog.body[b]
           env == [i \in Insts |-> Unknown]
           act == [code |-> code, func |-> f, env |-> env, args |-> args]
<1>1. b \in Blocks /\ prog.home[b] = f
  BY SureIs, Formed
<1>2. code \in Seq(Insts) /\ \A i : i \in ToSet(code) <=> i \in Insts /\ BlockOf(i) = b
  BY <1>1, SureIs, Formed
<1>3. Executable(f, code)
  <2> HIDE DEF code
  <2> QED BY <1>1, <1>2 DEF Executable, Live, FuncOf
<1>4. env \in [Insts -> RunValues \cup {Unknown}] /\ Environment(f, env)
  BY DEF Environment
<1>5. Activation(f, args) = act
  BY DEF Activation
<1> HIDE DEF code, env
<1>6. act \in Activations
  BY <1>2, <1>4 DEF Activations
<1>7. act.code = code /\ act.func = f /\ act.env = env /\ act.args = args
  OBVIOUS
<1> HIDE DEF act
<1>8. Active(act)
  BY <1>3, <1>4, <1>6, <1>7 DEF Active
<1>9. Active(act) /\ act.func = f
  BY <1>7, <1>8
<1> QED BY <1>5, <1>9

\* A function that anybody may call is open to all arguments.
LEMMA OpenReceives ==
  ASSUME Sure, NEW f \in Funcs, IsEntry(f), NEW args, \A k \in DOMAIN args : Loose(args[k])
  PROVE  prog.entry[f] \in s.executable /\ Receives(f, args)
<1>1. Open(s, f)
  BY SureIs DEF Opened
<1>2. \A x, g : Stands(x, Overdefined, g)
  BY DEF Stands
<1>3. \A a \in Insts : IsArg(a, f) => Stands(Argument(args, a), s.values[a], f)
  BY <1>1, <1>2 DEF Open, Covers
<1> QED BY <1>1, <1>3 DEF Open, Receives

\* A run begins with a function that anybody may call.
LEMMA LaunchStep ==
  ASSUME Sure, Launch
  PROVE  Stacked(stack') /\ mem' = mem
<1>1. PICK f \in Funcs, x \in Inputs, y \in Inputs : IsEntry(f) /\ stack' = <<Activation(f, <<x, y>>)>>
  BY DEF Launch
<1> DEFINE args == <<x, y>>
<1>2. x \in RunValues /\ Loose(x) /\ y \in RunValues /\ Loose(y)
  BY SureIs, InputsLoose DEF Analysed
<1>3. args \in Seq(RunValues) /\ \A k \in DOMAIN args : args[k] = x \/ args[k] = y
  BY <1>2
<1> HIDE DEF args
<1>4. \A k \in DOMAIN args : Loose(args[k])
  BY <1>2, <1>3
<1>5. Active(Activation(f, args))
  <2>1. prog.entry[f] \in s.executable /\ Receives(f, args)
    BY <1>1, <1>4, OpenReceives
  <2> QED BY <1>1, <1>3, <2>1, Launched
<1> DEFINE act == Activation(f, args)
<1>6. stack' = <<act>>
  BY <1>1 DEF args
<1> HIDE DEF act
<1>7. Active(act) /\ act \in Activations
  BY <1>5 DEF act, Active
<1>8. <<act>> \in Seq(Activations) /\ Len(<<act>>) = 1 /\ <<act>>[1] = act
  BY <1>7
<1>9. Stacked(<<act>>)
  BY <1>7, <1>8 DEF Stacked
<1> QED BY <1>6, <1>9 DEF Launch

\* What is not an address of the frame means the same in every function.
LEMMA Elsewhere ==
  ASSUME NEW v, ~ Is(v, "frame"), NEW x, NEW f, Stands(x, v, f)
  PROVE  \A g : Stands(x, v, g)
BY DEF Stands

\* What is known at a call that is executed.
LEMMA CallIs ==
  ASSUME Sure, Stacked(stack), Running, Readable, Inst(Now).kind \in CallSites
  PROVE  /\ Inst(Now).kind \in {"call", "invoke"}
         /\ 1 \in DOMAIN Inst(Now).args /\ DOMAIN Inst(Now).args = 1 .. Len(Inst(Now).args)
         /\ Len(Inst(Now).args) \in Nat
         /\ ~ Lacking(Vals(s, Now)) /\ Fit(s) /\ CallSettled(s, Now)
         /\ Vals(s, Now)[1] \in Claims /\ Stands(Operand(1), Vals(s, Now)[1], Top.func) /\ ~ MaybeNull(Vals(s, Now)[1])
         /\ Actuals \in Seq(RunValues) /\ \A k \in DOMAIN Actuals : Loose(Actuals[k])
         /\ \A k \in 1 .. Len(Inst(Now).args) - 1 : Actuals[k] = Operand(k + 1)
         /\ Len(Actuals) = Len(Inst(Now).args) - 1
<1>1. Now \in Insts /\ Live(s, Now) /\ FuncOf(Now) = Top.func
  BY NowIs
<1>2. /\ Reading(Now, Seen, Top.func)
      /\ \A k \in DOMAIN Inst(Now).args :
           /\ Seen[k] = Operand(k) /\ Has(Inst(Now).args[k], Operand(k), Top.func) /\ Operand(k) \in RunValues
      /\ DOMAIN Inst(Now).args = 1 .. Len(Inst(Now).args) /\ Len(Inst(Now).args) \in Nat
  BY NowReads
<1>3. /\ WellFormed(prog) /\ Inst(Now).kind # "tcall" /\ Settled(s, Now) /\ Fit(s)
  BY <1>1, SureIs
<1>4. Inst(Now).kind \in {"call", "invoke"}
  BY <1>3 DEF CallSites
<1>5. 1 \in DOMAIN Inst(Now).args /\ Inst(Now).args # <<>>
  BY <1>1, <1>3, <1>4, CallTargets
<1>6. ~ Lacking(Vals(s, Now)) /\ CallSettled(s, Now)
  BY <1>1, <1>2, <1>3, <1>4, Reads, SureIs DEF Settled
<1>7. Vals(s, Now)[1] \in Claims /\ Stands(Operand(1), Vals(s, Now)[1], Top.func) /\ ~ MaybeNull(Vals(s, Now)[1])
  <2>1. 1 \in 1 .. Len(Inst(Now).args)
    BY <1>2, <1>5
  <2>2. Vals(s, Now)[1] \in Claims /\ Stands(Seen[1], Vals(s, Now)[1], Top.func) /\ ~ MaybeNull(Vals(s, Now)[1])
    BY <1>1, <1>2, <2>1, SureReads
  <2> QED BY <1>2, <1>5, <2>2
<1> DEFINE n == Len(Inst(Now).args)
<1>8. n \in Nat /\ n >= 1 /\ DOMAIN Inst(Now).args = 1 .. n
  BY <1>2, <1>5
<1>9. \A k \in 1 .. n - 1 : Operand(k + 1) \in RunValues /\ Loose(Operand(k + 1))
  <2> HIDE DEF n
  <2> SUFFICES ASSUME NEW k \in 1 .. n - 1 PROVE Operand(k + 1) \in RunValues /\ Loose(Operand(k + 1))
    OBVIOUS
  <2> DEFINE m == k + 1
  <2>1. m \in 1 .. n /\ m # 1
    BY <1>8
  <2> HIDE DEF m
  <2>2. m \in DOMAIN Inst(Now).args /\ Has(Inst(Now).args[m], Operand(m), Top.func) /\ Operand(m) \in RunValues
    BY <1>2, <1>8, <2>1
  <2>3. Inst(Now).kind \notin Transparent \cup {"load"}
    BY <1>4 DEF Transparent
  <2>4. Loose(Operand(m))
    BY <1>1, <1>3, <2>1, <2>2, <2>3, UsesLoose
  <2> QED BY <2>2, <2>4 DEF m
<1>10. Actuals = [k \in 1 .. n - 1 |-> Operand(k + 1)]
  BY DEF Actuals
<1> HIDE DEF n
<1>11. \A k \in 1 .. n - 1 : Actuals[k] = Operand(k + 1)
  BY <1>10
<1>12. DOMAIN Actuals = 1 .. n - 1
  BY <1>10
<1>13. Actuals \in [1 .. n - 1 -> RunValues]
  BY <1>9, <1>10
<1>14. n - 1 \in Nat
  BY <1>8
<1>15. Actuals \in Seq(RunValues) /\ Len(Actuals) = n - 1
  BY <1>12, <1>13, <1>14
<1> QED BY <1>2, <1>3, <1>4, <1>5, <1>6, <1>7, <1>9, <1>11, <1>12, <1>15 DEF n

\* The function that is called has been entered by this call, or it is one that
\* anybody may call.
LEMMA CallReceives ==
  ASSUME Sure, Stacked(stack), Running, Readable, Inst(Now).kind \in CallSites,
         NEW f \in Funcs, Is(Operand(1), "global"), Operand(1).sym = f
  PROVE  /\ prog.entry[f] \in s.executable /\ Receives(f, Actuals)
         /\ Awaits(Top, f)
<1> DEFINE v == Vals(s, Now)[1]
           x == Operand(1)
           A == Inst(Now).args
<1>1. /\ Now \in Insts /\ Live(s, Now) /\ FuncOf(Now) = Top.func /\ Active(Top) /\ Len(stack) \in 1 .. Len(stack)
      /\ WellFormed(prog) /\ Top.code # <<>>
  BY NowIs, SureIs DEF Running
<1>2. /\ Inst(Now).kind \in {"call", "invoke"}
      /\ 1 \in DOMAIN A /\ DOMAIN A = 1 .. Len(A) /\ Len(A) \in Nat
      /\ ~ Lacking(Vals(s, Now)) /\ Fit(s) /\ CallSettled(s, Now)
      /\ v \in Claims /\ Stands(x, v, Top.func) /\ ~ MaybeNull(v)
      /\ Actuals \in Seq(RunValues) /\ \A k \in DOMAIN Actuals : Loose(Actuals[k])
      /\ \A k \in 1 .. Len(A) - 1 : Actuals[k] = Operand(k + 1)
      /\ Len(Actuals) = Len(A) - 1
  BY CallIs
<1>3. x # Undefined
  BY DEF Is, Undefined
<1>4. v.kind \notin {"undefined"} /\ (v.kind = "global" => x = v)
  BY <1>2, <1>3, Means
<1>5. ~ (Is(v, "global") /\ v.sym \notin Funcs \cup Externs)
  BY <1>4 DEF Is
<1>6. Inst(Now).kind = "invoke" => Inst(Now).to[2] \in ToSet(Inst(Now).to)
  <2> SUFFICES ASSUME Inst(Now).kind = "invoke" PROVE Inst(Now).to[2] \in ToSet(Inst(Now).to)
    OBVIOUS
  <2>1. GoodInst(prog, Now)
    BY <1>1 DEF WellFormed, Insts
  <2>2. prog.inst[Now].kind \in {"jcc", "invoke"} => Len(prog.inst[Now].to) = 2
    BY <2>1, Zenon DEF GoodInst
  <2>3. Len(Inst(Now).to) = 2 /\ Inst(Now).to \in Seq(Blocks)
    BY <1>1, <2>2, Formed DEF Inst
  <2>4. 2 \in DOMAIN Inst(Now).to
    BY <2>3
  <2> QED BY <2>4 DEF ToSet
<1>7. Inst(Now).to[1] \in ToSet(Inst(Now).to)
  <2>1. GoodInst(prog, Now)
    BY <1>1 DEF WellFormed, Insts
  <2>2. /\ prog.inst[Now].kind \in {"jcc", "invoke"} => Len(prog.inst[Now].to) = 2
        /\ prog.inst[Now].kind \in {"jump", "call"} => Len(prog.inst[Now].to) = 1
    BY <2>1, Zenon DEF GoodInst
  <2>3. Len(Inst(Now).to) \in {1, 2} /\ Inst(Now).to \in Seq(Blocks)
    BY <1>1, <1>2, <2>2, Formed DEF Inst
  <2>4. 1 \in DOMAIN Inst(Now).to
    BY <2>3
  <2> QED BY <2>4 DEF ToSet
<1>8. CASE IsFunc(v)
  <2>1. v.sym = f
    BY <1>4, <1>8 DEF IsFunc, Is
  <2>2. /\ Now \in s.calls[f] /\ Entered(s, Now, f)
        /\ Inst(Now).kind = "invoke" => Edge(Now, Inst(Now).to[2]) \in s.edges
    BY <1>2, <1>5, <1>8, <2>1 DEF CallSettled
  <2>3. Awaits(Top, f)
    BY <1>1, <1>2, <2>2 DEF Awaits, Returns, Now
  <2>4. ASSUME NEW a \in Insts, IsArg(a, f) PROVE Stands(Argument(Actuals, a), s.values[a], f)
    <3>1. Covers(Given(s, Now, a), s.values[a])
      BY <2>2, <2>4 DEF Entered
    <3>2. Inst(a).idx \in Nat
      BY <1>1, Formed
    <3> DEFINE n == Inst(a).idx + 1
    <3>3. n + 1 = Inst(a).idx + 2 /\ n \in Nat /\ n >= 1
      BY <3>2
    <3>4. CASE n \in DOMAIN Actuals
      <4>1. n \in 1 .. Len(A) - 1
        BY <1>2, <3>4
      <4>2. Argument(Actuals, a) = Operand(n + 1)
        BY <1>2, <3>4, <4>1 DEF Argument
      <4> HIDE DEF n
      <4>3. n + 1 \in DOMAIN A /\ n + 1 \in 1 .. Len(A)
        BY <1>2, <3>3, <4>1
      <4>4. Given(s, Now, a) = s.values[A[n + 1]]
        BY <3>3, <4>3 DEF Given
      <4>5. Has(A[n + 1], Operand(n + 1), Top.func)
        BY <4>3, NowReads
      <4>6. Stands(Operand(n + 1), s.values[a], Top.func)
        BY <3>1, <4>4, <4>5 DEF Has, Covers
      <4>7. ~ Is(s.values[a], "frame")
        BY <1>2, <2>4 DEF Fit, IsArg
      <4> QED BY <4>2, <4>6, <4>7, Elsewhere
    <3>5. CASE n \notin DOMAIN Actuals
      <4>1. Argument(Actuals, a) = Undefined
        BY <3>5 DEF Argument
      <4> HIDE DEF n
      <4>2. DOMAIN Actuals = 1 .. Len(A) - 1
        BY <1>2
      <4>3. n + 1 \notin DOMAIN A
        BY <1>2, <3>3, <3>5, <4>2
      <4>4. Given(s, Now, a) = Undefined
        BY <3>3, <4>3 DEF Given
      <4>5. Stands(Undefined, Undefined, f)
        BY DEF Stands, Undefined, Unknown
      <4> QED BY <3>1, <4>1, <4>4, <4>5 DEF Covers
    <3> QED BY <3>4, <3>5
  <2> QED BY <1>2, <2>2, <2>3, <2>4 DEF Receives, Entered
<1>9. CASE ~ IsFunc(v)
  <2>1. /\ Inst(Now).rets => Covers(Overdefined, s.values[Now])
        /\ \A b \in ToSet(Inst(Now).to) : Edge(Now, b) \in s.edges
    BY <1>2, <1>5, <1>9 DEF CallSettled
  <2>2. Awaits(Top, f)
    BY <1>1, <1>2, <1>6, <1>7, <2>1 DEF Awaits, Returns, Now
  <2>3. IsEntry(f)
    <3>1. Has(A[1], x, Top.func) /\ A[1] \in Insts
      BY <1>1, <1>2, NowReads, Operands
    <3>2. IsEntry(f) \/ (Inst(A[1]).kind = "mov" /\ IsOf(Inst(A[1]).val, f))
      BY <1>1, <1>2, <3>1, Uses
    <3> SUFFICES ASSUME Inst(A[1]).kind = "mov", IsOf(Inst(A[1]).val, f) PROVE FALSE
      BY <3>2
    <3>3. Live(s, A[1]) /\ Settled(s, A[1])
      BY <3>1, SureIs DEF Has
    <3>4. s.values[A[1]] = Inst(A[1]).val
      <4>1. Inst(A[1]).kind \in ValueKinds /\ Inst(A[1]).kind \in Plainly
        BY DEF ValueKinds, Plainly
      <4>2. Inst(A[1]).kind \notin Silent \cup Unaries \cup Binaries \cup Singles
        BY <4>1, KindsApart
      <4>3. ~ Waits(A[1], Vals(s, A[1]))
        BY <4>2 DEF Waits, Singles
      <4>4. Evaluated(A[1], Vals(s, A[1])) = Inst(A[1]).val
        BY <4>1, <4>2 DEF Evaluated, Singles
      <4> QED BY <3>3, <4>1, <4>3, <4>4 DEF Settled, ValueSettled
    <3>5. v = s.values[A[1]]
      BY <1>2 DEF Vals
    <3> QED BY <1>9, <3>4, <3>5 DEF IsFunc, IsOf
  <2> QED BY <1>2, <2>2, <2>3, OpenReceives
<1> QED BY <1>8, <1>9

\* A call of a function of the program.
LEMMA CallStep ==
  ASSUME Sure, Stacked(stack), Call
  PROVE  Stacked(stack') /\ mem' = mem
<1>1. /\ Running /\ Readable /\ Inst(Now).kind \in CallSites
      /\ Is(Operand(1), "global") /\ Operand(1).sym \in Funcs /\ mem' = mem
  BY DEF Call, Executes
<1> DEFINE f == Operand(1).sym
           act == Activation(f, Actuals)
<1>2. Inst(Now).kind # "tcall"
  BY <1>1, NowIs, SureIs
<1>3. stack' = Append(stack, act)
  BY <1>2 DEF Call
<1>4. Active(act) /\ act.func = f /\ Awaits(Top, f)
  <2>1. Actuals \in Seq(RunValues)
    BY <1>1, CallIs
  <2>2. prog.entry[f] \in s.executable /\ Receives(f, Actuals) /\ Awaits(Top, f)
    BY <1>1, CallReceives
  <2>3. f \in Funcs
    BY <1>1
  <2>4. Active(act) /\ act.func = f
    <3> HIDE DEF f
    <3> QED BY <2>1, <2>2, <2>3, Launched
  <2> QED BY <2>2, <2>4
<1>5. Top = stack[Len(stack)]
  BY <1>1, NowIs
<1> HIDE DEF f, act
<1>6. Stacked(Append(stack, act))
  BY <1>4, <1>5, PushStack
<1> QED BY <1>1, <1>3, <1>6

\* Where calls go on.
LEMMA CallGoes ==
  ASSUME WellFormed(prog), NEW i \in Insts, Inst(i).kind \in {"call", "invoke"}
  PROVE  /\ Inst(i).to[1] \in ToSet(Inst(i).to)
         /\ Inst(i).kind = "invoke" => Inst(i).to[2] \in ToSet(Inst(i).to)
<1>1. GoodInst(prog, i)
  BY DEF WellFormed, Insts
<1>2. /\ prog.inst[i].kind \in {"jcc", "invoke"} => Len(prog.inst[i].to) = 2
      /\ prog.inst[i].kind \in {"jump", "call"} => Len(prog.inst[i].to) = 1
  BY <1>1, Zenon DEF GoodInst
<1>3. /\ Len(Inst(i).to) \in {1, 2} /\ (Inst(i).kind = "invoke" => Len(Inst(i).to) = 2)
      /\ Inst(i).to \in Seq(Blocks)
  BY <1>2, Formed DEF Inst
<1>4. 1 \in DOMAIN Inst(i).to /\ (Inst(i).kind = "invoke" => 2 \in DOMAIN Inst(i).to)
  BY <1>3
<1> QED BY <1>4 DEF ToSet

\* An activation gets a value and stays where it is.
LEMMA GetsValue ==
  ASSUME NEW act, Active(act), NEW i \in Insts, NEW y, y = Unknown \/ Has(i, y, act.func)
  PROVE  Active([act EXCEPT !.env[i] = y]) /\ [act EXCEPT !.env[i] = y].func = act.func
<1> DEFINE code == act.code
           env == [act.env EXCEPT ![i] = y]
<1>1. act \in Activations /\ code \in Seq(Insts) /\ Executable(act.func, code)
  BY DEF Active, Activations
<1>2. env \in [Insts -> RunValues \cup {Unknown}] /\ Environment(act.func, env)
  BY NewValue
<1>3. [act EXCEPT !.env[i] = y] = [act EXCEPT !.code = code, !.env = env]
  BY <1>1, Advanced
<1> HIDE DEF code, env
<1>4. Active([act EXCEPT !.code = code, !.env = env]) /\ [act EXCEPT !.code = code, !.env = env].func = act.func
  BY <1>1, <1>2, StillActive
<1> QED BY <1>3, <1>4

\* The innermost activation is at a call that goes on when it returns.
AtCall(acts, act, i) ==
  /\ acts # <<>> /\ act = acts[Len(acts)]
  /\ act.code # <<>> /\ i = Head(act.code) /\ Inst(i).kind \in {"call", "invoke"}
  /\ Edge(i, Inst(i).to[1]) \in s.edges

\* It goes on after the call, with the result.
LEMMA Resumes ==
  ASSUME Sure, NEW acts, Stacked(acts), NEW act, NEW i, AtCall(acts, act, i),
         NEW x, Inst(i).rets => x = Unknown \/ Has(i, x, act.func)
  PROVE  Stacked(Resume(acts, x))
<1>1. acts \in Seq(Activations) /\ Len(acts) \in 1 .. Len(acts)
  BY DEF Stacked, AtCall
<1>2. Active(act) /\ act \in Activations
  BY <1>1 DEF Stacked, Active, AtCall
<1>3. act.code \in Seq(Insts) /\ Executable(act.func, act.code)
  BY <1>2 DEF Active, Activations
<1>4. i \in Insts /\ i \in ToSet(act.code)
  <2>1. act.code # <<>> /\ i = Head(act.code)
    BY DEF AtCall
  <2>2. Head(act.code) \in Insts /\ ToSet(act.code) = {Head(act.code)} \cup ToSet(Tail(act.code))
    BY <1>3, <2>1, SetsOf
  <2> QED BY <2>1, <2>2
<1>5. FuncOf(i) = act.func
  BY <1>3, <1>4 DEF Executable
<1> DEFINE y == IF Inst(i).rets THEN x ELSE Unknown
           new == [act EXCEPT !.code = act.code, !.env = [act.env EXCEPT ![i] = y]]
           to == Inst(i).to[1]
           next == Goto(new, BlockOf(i), to)
<1>6. y = Unknown \/ Has(i, y, act.func)
  OBVIOUS
<1>7. [act EXCEPT !.env[i] = y] = new
  <2> HIDE DEF y
  <2> QED BY <1>2, Advanced
<1>8. Active(new) /\ new.func = act.func
  <2> HIDE DEF y, new, to, next
  <2>1. Active(act) /\ i \in Insts /\ (y = Unknown \/ Has(i, y, act.func))
    BY <1>2, <1>4, <1>6
  <2>2. Active([act EXCEPT !.env[i] = y]) /\ [act EXCEPT !.env[i] = y].func = act.func
    BY <2>1, GetsValue
  <2> QED BY <1>7, <2>2
<1>9. Resume(acts, x) = Append(SubSeq(acts, 1, Len(acts) - 1), next)
  <2>1. Resume(acts, x) = Append(SubSeq(acts, 1, Len(acts) - 1), Goto([act EXCEPT !.env[i] = y], BlockOf(i), to))
    BY DEF Resume, AtCall
  <2> HIDE DEF new, y
  <2> QED BY <1>7, <2>1
<1> HIDE DEF new
<1>10. to \in ToSet(Inst(i).to) /\ Inst(i).kind # "phi" /\ Edge(i, to) \in s.edges
  BY <1>4, SureIs, CallGoes DEF AtCall
<1>11. Active(next) /\ next.func = act.func
  BY <1>4, <1>5, <1>8, <1>10, GoesTo
<1> HIDE DEF next
<1>12. Stacked(Append(SubSeq(acts, 1, Len(acts) - 1), next))
  <2>1. act = acts[Len(acts)]
    BY DEF AtCall
  <2> QED BY <1>1, <1>11, <2>1, GoesOn
<1> QED BY <1>9, <1>12

\* A function returns to the call site that waits for it.
LEMMA ReturnStep ==
  ASSUME Sure, Stacked(stack), Return
  PROVE  Stacked(stack') /\ mem' = mem
<1> DEFINE g == Top.func
           A == Inst(Now).args
           x == IF A = <<>> THEN Unknown ELSE Operand(1)
<1>1. /\ Running /\ Readable /\ Inst(Now).kind = "ret" /\ mem' = mem /\ stack' = Resume(Below, x)
  BY DEF Return, Executes
<1>2. /\ Now \in Insts /\ Live(s, Now) /\ FuncOf(Now) = g /\ g \in Funcs /\ Stacked(Below)
      /\ Below # <<>> => Awaits(Below[Len(Below)], g)
  BY <1>1, NowIs
<1>3. /\ WellFormed(prog) /\ Settled(s, Now) /\ CleanInst(Now) /\ Told(s)
  BY <1>2, SureIs
<1>4. CASE Below = <<>>
  <2>1. Resume(Below, x) = <<>>
    BY <1>4 DEF Resume
  <2> QED BY <1>1, <1>2, <1>4, <2>1
<1>5. CASE Below # <<>>
  <2> DEFINE act == Below[Len(Below)]
             i == Head(act.code)
             r == s.returns[g]
  <2>1. act.code # <<>> /\ Inst(i).kind \in {"call", "invoke"} /\ Returns(i, g)
    BY <1>2, <1>5 DEF Awaits
  <2>2. r # Absent /\ (A # <<>> => IsValue(r) /\ Covers(Vals(s, Now)[1], r))
    <3>1. ReturnSettled(s, Now)
      BY <1>1, <1>3 DEF Settled
    <3> QED BY <1>2, <3>1 DEF ReturnSettled
  <2>3. /\ Edge(i, Inst(i).to[1]) \in s.edges
        /\ Inst(i).rets => Covers(Overdefined, s.values[i]) \/ (IsValue(r) => Covers(r, s.values[i]))
    <3> HIDE DEF i, r, g
    <3>1. CASE i \in s.calls[g]
      <4>1. Told1(s, i, r)
        BY <1>2, <1>3, <2>2, <3>1 DEF Told, r
      <4> QED BY <4>1 DEF Told1
    <3>2. CASE i \notin s.calls[g]
      BY <2>1, <3>2 DEF Returns
    <3> QED BY <3>1, <3>2
  <2>4. act \in Activations /\ Active(act) /\ Len(Below) \in 1 .. Len(Below)
    <3>1. Below \in Seq(Activations)
      BY <1>2 DEF Stacked
    <3>2. Len(Below) \in 1 .. Len(Below)
      BY <1>5, <3>1
    <3> QED BY <1>2, <3>2 DEF Stacked, Active
  <2>5. Live(s, i)
    <3>1. act.code \in Seq(Insts)
      BY <2>4 DEF Activations
    <3>2. i \in ToSet(act.code)
      BY <2>1, <3>1, SetsOf
    <3> QED BY <2>4, <3>2 DEF Active, Executable
  <2>6. Inst(i).rets => x = Unknown \/ Has(i, x, act.func)
    <3> SUFFICES ASSUME Inst(i).rets, A # <<>> PROVE Has(i, Operand(1), act.func)
      OBVIOUS
    <3> HIDE DEF i, act
    <3>1. DOMAIN A = 1 .. Len(A) /\ Len(A) \in Nat /\ A \in Seq(Insts)
      BY <1>2, <1>3, Operands, Formed
    <3>2. 1 \in DOMAIN A /\ 1 \in 1 .. Len(A)
      BY <3>1
    <3>3. /\ Reading(Now, Seen, g) /\ Seen[1] = Operand(1) /\ Has(A[1], Operand(1), g) /\ Operand(1) \in RunValues
      BY <1>1, <3>2, NowReads
    <3>4. Stands(Operand(1), Vals(s, Now)[1], g) /\ ~ Lacking(Vals(s, Now))
      BY <1>2, <3>2, <3>3, SureReads, SureIs, Reads
    <3>5. ~ Is(Vals(s, Now)[1], "frame")
      BY <1>1, <1>3, <3>4 DEF CleanInst
    <3>6. Stands(Operand(1), Vals(s, Now)[1], act.func)
      BY <3>4, <3>5, Elsewhere
    <3>7. Stands(Operand(1), r, act.func) /\ IsValue(r)
      BY <2>2, <3>6 DEF Covers
    <3>8. Stands(Operand(1), Overdefined, act.func)
      BY DEF Stands
    <3>9. Stands(Operand(1), s.values[i], act.func)
      BY <2>3, <3>7, <3>8 DEF Covers
    <3>10. Inst(Now).kind \notin Transparent \cup {"load"} /\ Inst(Now).kind \notin CallSites
      BY <1>1 DEF Transparent, CallSites
    <3>11. Loose(Operand(1))
      BY <1>2, <1>3, <3>2, <3>3, <3>10, UsesLoose
    <3> QED BY <2>5, <3>3, <3>9, <3>11, LooseBelongs DEF Has
  <2>7. AtCall(Below, act, i)
    BY <1>5, <2>1, <2>3 DEF AtCall
  <2> HIDE DEF x, act, i, g, r
  <2>8. Stacked(Resume(Below, x))
    BY <1>2, <2>6, <2>7, Resumes
  <2> QED BY <1>1, <2>8
<1> QED BY <1>4, <1>5

\* What is given away by a call is not quiet.
LEMMA GivenAway ==
  ASSUME NEW m, Stored(m), NEW values, \A k \in DOMAIN values : Loose(values[k])
  PROVE  Stored([m EXCEPT !.escaped = @ \cup Outside(values)])
<1> DEFINE new == [m EXCEPT !.escaped = @ \cup Outside(values)]
           c == m.cells
           e == m.escaped
           f == e \cup Outside(values)
<1>1. m = [cells |-> c, escaped |-> e]
  BY DEF Stored
<1>2. new = [cells |-> c, escaped |-> f]
  <2>1. \A r : [r EXCEPT !.escaped = @ \cup Outside(values)] = [r EXCEPT !.escaped = r.escaped \cup Outside(values)]
    OBVIOUS
  <2>2. new = [m EXCEPT !.escaped = f]
    BY <2>1
  <2> HIDE DEF c, e, f, new
  <2>3. [[cells |-> c, escaped |-> e] EXCEPT !.escaped = f] = [cells |-> c, escaped |-> f]
    OBVIOUS
  <2> QED BY <1>1, <2>2, <2>3
<1>3. \A g \in Outside(values) : ~ Quiet(g)
  BY NotQuiet
<1>4. /\ \A d \in DOMAIN c : c[d] \in RunValues /\ Loose(c[d]) /\ ~ IsConstant(d[1])
      /\ \A g \in f : ~ Quiet(g)
  BY <1>3 DEF Stored
<1> HIDE DEF c, f, e
<1> DEFINE w == [cells |-> c, escaped |-> f]
<1>5. w.cells = c /\ w.escaped = f /\ w = [cells |-> w.cells, escaped |-> w.escaped]
  OBVIOUS
<1> HIDE DEF w
<1>6. Stored(w)
  BY <1>4, <1>5 DEF Stored
<1> QED BY <1>2, <1>6 DEF w

\* A function of another program returns anything from outside.
LEMMA CallOutStep ==
  ASSUME Sure, Stacked(stack), Stored(mem), CallOut
  PROVE  Stacked(stack') /\ Stored(mem')
<1>1. /\ Running /\ Readable /\ Inst(Now).kind \in CallSites
      /\ Is(Operand(1), "global") /\ Operand(1).sym \in Externs
      /\ mem' = [mem EXCEPT !.escaped = @ \cup Outside(Actuals)]
  BY DEF CallOut, Executes
<1> DEFINE v == Vals(s, Now)[1]
<1>2. /\ Inst(Now).kind \in {"call", "invoke"}
      /\ ~ Lacking(Vals(s, Now)) /\ CallSettled(s, Now)
      /\ v \in Claims /\ Stands(Operand(1), v, Top.func)
      /\ \A k \in DOMAIN Actuals : Loose(Actuals[k])
  BY <1>1, CallIs
<1>3. Operand(1) # Undefined
  BY <1>1 DEF Is, Undefined
<1>4. v.kind = "global" => Operand(1) = v
  BY <1>2, <1>3, Means, SureIs
<1>5. Operand(1).sym \notin Funcs
  BY <1>1, SureIs DEF WellFormed, Funcs
<1>6. /\ Inst(Now).rets => Covers(Overdefined, s.values[Now])
      /\ \A b \in ToSet(Inst(Now).to) : Edge(Now, b) \in s.edges
  BY <1>1, <1>2, <1>4, <1>5 DEF CallSettled, IsFunc, Is
<1>7. Stored(mem')
  BY <1>1, <1>2, GivenAway
<1>8. PICK x \in Inputs : stack' = Resume(IF Inst(Now).kind = "tcall" THEN Below ELSE stack,
                                          IF Inst(Now).rets THEN x ELSE Unknown)
  BY DEF CallOut
<1> DEFINE y == IF Inst(Now).rets THEN x ELSE Unknown
<1>9. stack' = Resume(stack, y)
  BY <1>2, <1>8
<1>10. /\ Now \in Insts /\ Live(s, Now) /\ Top = stack[Len(stack)] /\ stack # <<>> /\ Top.code # <<>>
  BY <1>1, NowIs DEF Running
<1>11. Inst(Now).rets => y = Unknown \/ Has(Now, y, Top.func)
  <2> SUFFICES ASSUME Inst(Now).rets PROVE Has(Now, x, Top.func)
    OBVIOUS
  <2>1. x \in RunValues /\ Loose(x)
    BY SureIs, InputsLoose DEF Analysed
  <2>2. Stands(x, s.values[Now], Top.func)
    <3>1. Stands(x, Overdefined, Top.func)
      BY DEF Stands
    <3> QED BY <1>6, <3>1 DEF Covers
  <2> QED BY <1>10, <2>1, <2>2, LooseBelongs DEF Has
<1>12. Edge(Now, Inst(Now).to[1]) \in s.edges
  BY <1>2, <1>6, <1>10, CallGoes, SureIs
<1> HIDE DEF y
<1>13. Stacked(Resume(stack, y))
  <2>1. AtCall(stack, Top, Now)
    BY <1>2, <1>10, <1>12 DEF AtCall, Now
  <2> QED BY <1>11, <2>1, Resumes
<1> QED BY <1>7, <1>9, <1>13

\* An exception goes where the solver lets each invoke go.
LEMMA ThrowStep ==
  ASSUME Sure, Stacked(stack), Throw
  PROVE  Stacked(stack') /\ mem' = mem
<1>1. PICK n \in 1 .. Len(stack) - 1 :
        /\ Inst(Head(stack[n].code)).kind = "invoke"
        /\ stack' = Append(SubSeq(stack, 1, n - 1),
                           Goto(stack[n], BlockOf(Head(stack[n].code)), Inst(Head(stack[n].code)).to[2]))
  BY DEF Throw
<1> DEFINE act == stack[n]
           i == Head(act.code)
           to == Inst(i).to[2]
           next == Goto(act, BlockOf(i), to)
<1>2. stack \in Seq(Activations) /\ Len(stack) \in Nat
  BY DEF Stacked
<1>3. n \in 1 .. Len(stack)
  BY <1>2
<1>4. Active(act) /\ Awaits(act, stack[n + 1].func)
  BY <1>3 DEF Stacked
<1>5. act.code # <<>> /\ Edge(i, to) \in s.edges
  BY <1>1, <1>4 DEF Awaits
<1>6. act.code \in Seq(Insts) /\ Executable(act.func, act.code)
  BY <1>4 DEF Active, Activations
<1>7. i \in Insts /\ i \in ToSet(act.code)
  <2>1. Head(act.code) \in Insts /\ ToSet(act.code) = {Head(act.code)} \cup ToSet(Tail(act.code))
    BY <1>5, <1>6, SetsOf
  <2> QED BY <2>1
<1>8. FuncOf(i) = act.func
  BY <1>6, <1>7 DEF Executable
<1>9. Inst(i).kind = "invoke" /\ stack' = Append(SubSeq(stack, 1, n - 1), next)
  BY <1>1
<1> HIDE DEF i
<1>10. to \in ToSet(Inst(i).to) /\ Inst(i).kind # "phi"
  BY <1>7, <1>9, SureIs, CallGoes
<1> HIDE DEF to, act
<1>11. Active(next) /\ next.func = act.func
  BY <1>4, <1>5, <1>7, <1>8, <1>10, GoesTo
<1> HIDE DEF next
<1>12. Stacked(Append(SubSeq(stack, 1, n - 1), next))
  BY <1>3, <1>11, GoesOn DEF act
<1> QED BY <1>9, <1>12 DEF Throw

-----------------------------------------------------------------------------
(* Runs                                                                    *)

\* What holds in every state: the invariant of the solver, that nothing runs before it
\* is done, and what runs keep true after that.
MachineInv ==
  /\ SolverInv /\ Analysed
  /\ ~ Done => stack = <<>> /\ mem = Nothing
  /\ Done /\ Clean => Stacked(stack) /\ Stored(mem)

\* A state in which the program may run.
LEMMA SureWhenDone ==
  ASSUME MachineInv, Done, Clean
  PROVE  Sure /\ Stacked(stack) /\ Stored(mem)
<1>1. WellFormed(prog) /\ State(s, todo, rest, up)
  BY DEF MachineInv, SolverInv, Clean
<1>2. Solved
  BY <1>1, AtRest
<1> QED BY <1>1, <1>2 DEF Sure, MachineInv

\* A run changes neither the program nor what the solver knows.
LEMMA RunFrozen ==
  ASSUME prog' = prog, s' = s
  PROVE  /\ Stacked(stack)' <=> Stacked(stack')
         /\ Stored(mem)' <=> Stored(mem')
         /\ Clean' <=> Clean
         /\ Analysed' <=> Analysed
<1>1. Stacked(stack)' <=> Stacked(stack')
  BY DEF Stacked, Active, Awaits, Returns, Executable, Environment, Receives, Argument, Activations, Has, Belongs, Loose,
         Quiet, RunValues, Live, Edge, IsArg, IsEntry, HasAddressTaken, BlockOf, FuncOf, Funcs, IsConstant, InData,
         Holders, Reached, UsersOf, Insts, Inst, IsOf
<1>2. Stored(mem)' <=> Stored(mem')
  BY DEF Stored, Loose, Quiet, RunValues, IsEntry, HasAddressTaken, Funcs, IsConstant, InData, Holders, Reached, UsersOf,
         Insts, Inst, IsOf
<1>3. Clean' <=> Clean
  BY DEF Clean, Plain, CleanInst, Lacking, Vals, Live, BlockOf, FuncOf, Insts, Inst
<1>4. Analysed' <=> Analysed
  BY DEF Analysed
<1> QED BY <1>1, <1>2, <1>3, <1>4

\* At first nothing runs.
LEMMA NothingRuns ==
  ASSUME SInit
  PROVE  MachineInv
<1>1. stack = <<>> /\ mem = Nothing
  BY DEF SInit, Nothing
<1>2. SolverInv /\ Analysed
  BY Begins DEF SInit, Init, Analysed
<1>3. Stacked(stack)
  BY <1>1 DEF Stacked
<1>4. Stored(mem)
  BY <1>1 DEF Stored, Nothing
<1> QED BY <1>1, <1>2, <1>3, <1>4 DEF MachineInv

\* A step of a run.
Runs == Launch \/ Compute \/ Store \/ Jump \/ Call \/ Return \/ CallOut \/ Throw

\* Every step keeps activations and memory right.
LEMMA RunsOn ==
  ASSUME Sure, Stacked(stack), Stored(mem), Runs
  PROVE  Stacked(stack') /\ Stored(mem')
<1>1. CASE Launch
  BY <1>1, LaunchStep
<1>2. CASE Compute
  BY <1>2, ComputeStep DEF Compute
<1>3. CASE Store
  BY <1>3, StoreStep
<1>4. CASE Jump
  BY <1>4, JumpStep DEF Jump
<1>5. CASE Call
  BY <1>5, CallStep
<1>6. CASE Return
  BY <1>6, ReturnStep
<1>7. CASE CallOut
  BY <1>7, CallOutStep
<1>8. CASE Throw
  BY <1>8, ThrowStep
<1> QED BY <1>1, <1>2, <1>3, <1>4, <1>5, <1>6, <1>7, <1>8 DEF Runs

\* Nothing runs before the solver is done.
LEMMA RunsWhenDone ==
  ASSUME MachineInv, Runs
  PROVE  Done
<1> SUFFICES ASSUME ~ Done PROVE FALSE
  OBVIOUS
<1>1. stack = <<>>
  BY DEF MachineInv
<1>2. ~ Running /\ ~ (\E n \in 1 .. Len(stack) - 1 : TRUE)
  BY <1>1 DEF Running
<1> QED BY <1>2 DEF Runs, Launch, Compute, Store, Jump, Call, Return, CallOut, Throw, Executes

\* No step breaks it.
LEMMA MachineKeeps ==
  ASSUME MachineInv, [SNext]_svars
  PROVE  MachineInv'
<1>1. SolverInv /\ Analysed
  BY DEF MachineInv
<1>2. CASE Next /\ UNCHANGED <<stack, mem>>
  <2>1. stack = <<>> /\ mem = Nothing /\ stack' = stack /\ mem' = mem
    BY <1>2, Stopped DEF MachineInv
  <2>2. SolverInv'
    BY <1>1, <1>2, SolverKeeps
  <2>3. Analysed'
    <3>1. prog' = prog
      BY <1>2 DEF Next, Start, TakeBottom, TakeInst, TakeBlock, VisitInst, VisitJump, VisitJumpCond, VisitSwitch,
                  VisitCall, VisitTailCall, VisitReturn, CallRound, CallEnd, OverdefinedRound, ReturnRound, LoopEnd,
                  Leave
    <3> QED BY <1>1, <3>1 DEF Analysed
  <2>4. stack' = <<>> /\ mem' = Nothing
    BY <2>1
  <2>5. Stacked(stack)'
    BY <2>4 DEF Stacked
  <2>6. Stored(mem)'
    BY <2>4 DEF Stored, Nothing
  <2>7. Nothing' = Nothing
    BY DEF Nothing
  <2> QED BY <2>2, <2>3, <2>4, <2>5, <2>6, <2>7 DEF MachineInv
<1>3. CASE UNCHANGED vars /\ (Runs \/ UNCHANGED <<stack, mem>>)
  <2>1. prog' = prog /\ s' = s /\ UNCHANGED vars
    BY <1>3 DEF vars
  <2>2. SolverInv'
    BY <1>1, <2>1, SolverKeeps
  <2>3. Done' <=> Done
    BY <2>1 DEF Done, Ready, Lists, vars
  <2>4. ~ Done => stack' = <<>> /\ mem' = Nothing
    BY <1>3, RunsWhenDone DEF MachineInv
  <2>5. ASSUME Done, Clean PROVE Stacked(stack') /\ Stored(mem')
    BY <1>3, <2>5, SureWhenDone, RunsOn
  <2>6. Nothing' = Nothing
    BY DEF Nothing
  <2> QED BY <1>1, <2>1, <2>2, <2>3, <2>4, <2>5, <2>6, RunFrozen DEF MachineInv
<1>4. (Next /\ UNCHANGED <<stack, mem>>) \/ (UNCHANGED vars /\ (Runs \/ UNCHANGED <<stack, mem>>))
  BY DEF SNext, svars, Runs, Launch, Compute, Store, Jump, Call, Return, CallOut, Throw
<1> QED BY <1>2, <1>3, <1>4

\* What runs keep true is more than that the solver is right about them.
LEMMA RunsSound ==
  ASSUME MachineInv, Clean
  PROVE  Sound
<1>1. CASE ~ Done
  <2>1. stack = <<>>
    BY <1>1 DEF MachineInv
  <2> QED BY <2>1 DEF Sound
<1>2. CASE Done
  <2>1. Stacked(stack)
    BY <1>2, SureWhenDone
  <2> SUFFICES ASSUME NEW n \in DOMAIN stack
               PROVE  /\ \A k \in DOMAIN stack[n].code : BlockOf(stack[n].code[k]) \in s.executable
                      /\ \A i \in Insts :
                           stack[n].env[i] # Unknown => Stands(stack[n].env[i], s.values[i], stack[n].func)
    BY DEF Sound
  <2>2. Active(stack[n])
    <3>1. stack \in Seq(Activations)
      BY <2>1 DEF Stacked
    <3>2. n \in 1 .. Len(stack)
      BY <3>1
    <3> QED BY <2>1, <3>2 DEF Stacked
  <2>3. \A i \in ToSet(stack[n].code) : Live(s, i)
    BY <2>2 DEF Active, Executable
  <2>4. \A k \in DOMAIN stack[n].code : BlockOf(stack[n].code[k]) \in s.executable
    BY <2>3 DEF ToSet, Live
  <2>5. \A i \in Insts : stack[n].env[i] # Unknown => Stands(stack[n].env[i], s.values[i], stack[n].func)
    BY <2>2 DEF Active, Environment, Has
  <2> QED BY <2>4, <2>5
<1> QED BY <1>1, <1>2

\* What holds in every state of a run.
THEOREM MachineInvariant == SSpec => []MachineInv
<1>1. SInit => MachineInv
  BY NothingRuns
<1>2. MachineInv /\ [SNext]_svars => MachineInv'
  BY MachineKeeps
<1> QED BY <1>1, <1>2, PTL DEF SSpec

\* SCCP is right about every run of a clean program: only code that is marked is
\* executed, and every value that is computed is one that the lattice allows.
THEOREM SoundWhenClean == SSpec => [](Clean => Sound)
<1>1. MachineInv => (Clean => Sound)
  BY RunsSound
<1> QED BY <1>1, MachineInvariant, PTL

=============================================================================
