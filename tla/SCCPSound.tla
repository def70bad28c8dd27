------------------------------ MODULE SCCPSound ------------------------------
(***************************************************************************)
(* The solver together with a run of the program it has analysed.  When    *)
(* the solver is done a machine executes the program with any arguments    *)
(* and any results of other functions; every value it computes has to be   *)
(* one that the solver's result allows.  The machine is what LLIR programs *)
(* mean, as the solver and the passes take it; it stops where that is      *)
(* undefined (a jump on an undefined value, a call of something that is    *)
(* not a function, a result that nobody returned).                         *)
(***************************************************************************)
EXTENDS SCCPSolver

CONSTANTS
  Inputs,     \* values that come from outside
  MaxDepth    \* bound: activations on the stack

VARIABLES
  stack,      \* the activations, innermost last; empty while nothing runs
  mem         \* cells of data that were written, and objects others may write

\* What comes from outside names only what this program shows.
ASSUME InputsAssumption ==
  \A x \in Inputs :
    \/ x = Undefined
    \/ /\ Written(x)
       /\ \A family \in DOMAIN Programs : \A p \in Programs[family] :
            Is(x, "global") => (x.sym \in DOMAIN p.entry => x.sym \in p.visible)
                                 /\ (x.sym \in DOMAIN p.data => ~p.data[x.sym].local)

svars == <<vars, stack, mem>>

\* Code at or after instruction number k of block b.
From(b, k) == SubSeq(prog.body[b], k, Len(prog.body[b]))

Top == stack[Len(stack)]
Below == SubSeq(stack, 1, Len(stack) - 1)
Running == stack # <<>> /\ Top.code # <<>>
Now == Head(Top.code)
Operand(k) == Top.env[Inst(Now).args[k]]
Executes(kinds) == Running /\ Inst(Now).kind \in kinds
Readable == \A k \in DOMAIN Inst(Now).args : Operand(k) # Unknown

\* An activation of function f with the given arguments.
Activation(f, args) ==
  [code |-> prog.body[prog.entry[f]], func |-> f,
   env  |-> [i \in Insts |-> Unknown], args |-> args]

\* The activation act goes from block b to block to, whose PHIs take their values.
Goto(act, b, to) ==
  LET phis == Phis(to)
      Value(i) ==
        LET k == CHOOSE k \in DOMAIN Inst(i).to : Inst(i).to[k] = b
        IN act.env[Inst(i).args[k]]
  IN [act EXCEPT !.code = From(to, Len(phis) + 1),
                 !.env = [i \in Insts |-> IF Contains(phis, i) THEN Value(i) ELSE @[i]]]

\* Values that some operators may have, and how addresses are added to.
AnyInt   == IntConstants
AnyFloat == FloatConstants
AddTo(x, n) == [x EXCEPT !.off = @ + n]

\* An integer that has the bits of i which x cannot have cleared, x an address:
\* the alignment of its object fixes the low bits.
LowBits(x) ==
  LET align == IF Is(x, "stack") THEN ObjectAlign[x.obj] ELSE SymAlign[x.sym]
  IN {n \in Bits : 2 ^ n < align}
AndAddress(x, i) ==
  {v \in AnyInt : /\ v.bits \subseteq i.bits
                  /\ v.bits \cap LowBits(x) = Wrapped(x.off) \cap i.bits \cap LowBits(x)}

\* An operator on two integers.
OnInts(op, l, r) ==
  LET a == Num(l)  b == Num(r)  c == Signed(l)  d == Signed(r)
  IN CASE op = "add"  -> {IntOf(a + b)}
       [] op = "sub"  -> {IntOf(a - b)}
       [] op = "mul"  -> {IntOf(a * b)}
       [] op = "and"  -> {CreateInteger(l \cap r)}
       [] op = "or"   -> {CreateInteger(l \cup r)}
       [] op = "xor"  -> {CreateInteger((l \cup r) \ (l \cap r))}
       [] op = "udiv" -> {v \in AnyInt : Num(v.bits) * b <= a /\ (Num(v.bits) + 1) * b > a}
       [] op = "sdiv" -> IF r = {} THEN {} ELSE {IntOf(Quotient(c, d))}
       [] op = "urem" -> IF r = {} THEN {} ELSE {IntOf(a % b)}
       [] op = "ouadd" -> {Flag(Num(Wrapped(a + b)) < a)}
       [] op = "oumul" -> {Flag(a * b > Num(Bits))}
       [] op = "osadd" -> {Flag(c + d >= 2 ^ (Width - 1) \/ c + d < 0 - 2 ^ (Width - 1))}
       [] op \in {"sll", "srl", "sra"} ->
            IF b >= Width THEN {Undefined}
            ELSE {CASE op = "sll" -> IntOf(a * 2 ^ b)
                    [] op = "srl" -> IntOf(a \div 2 ^ b)
                    [] op = "sra" -> IntOf(c \div 2 ^ b)}
       [] op = "rotl" -> {CreateInteger({(i + b) % Width : i \in l})}
       [] op = "rotr" -> {CreateInteger({(i - b) % Width : i \in l})}

\* An operator on an address x and an integer i; first says which one is on the left.
OnAddress(op, x, i, first) ==
  CASE op = "add"           -> {AddTo(x, Signed(i.bits))}
    [] op = "sub" /\ first  -> {AddTo(x, 0 - Signed(i.bits))}
    [] op = "and"           -> AndAddress(x, i)
    [] op = "or" /\ i.bits \subseteq LowBits(x) \ Wrapped(x.off) -> {AddTo(x, Num(i.bits))}
    [] op \in {"sll", "srl", "sra", "rotl", "rotr"} /\ first /\ i.bits = {} -> {x}
    [] op = "sll" /\ first /\ i.bits # {} -> {v \in AnyInt : \A n \in v.bits : n >= Num(i.bits)}
    [] OTHER                -> AnyInt

OnFloats(op, f, g) ==
  CASE op = "fadd" /\ {f, g} \cap FloatZeros # {} -> {CreateFloat(IF f \in FloatZeros THEN g ELSE f)}
    [] op = "fmul" /\ {f, g} \cap FloatZeros # {} -> {CreateFloat(z) : z \in FloatZeros}
    [] OTHER -> AnyFloat

OnWords(op, l, r) ==
  CASE Is(l, "int") /\ Is(r, "int")     -> OnInts(op, l.bits, r.bits)
    [] IsAddress(l) /\ Is(r, "int")     -> OnAddress(op, l, r, TRUE)
    [] Is(l, "int") /\ IsAddress(r)     -> OnAddress(op, r, l, FALSE)
    [] Is(l, "float") /\ Is(r, "float") -> OnFloats(op, l.float, r.float)
    [] OTHER                            -> {Undefined}

Binary(op, l, r) ==
  IF op \in {"fadd", "fmul"} /\ ~(Is(l, "float") /\ Is(r, "float"))
    THEN {Undefined}
    ELSE OnWords(op, l, r)

Unary(op, x) ==
  CASE Is(x, "int") /\ op = "neg"   -> {IntOf(2 ^ Width - Num(x.bits))}
    [] Is(x, "int") /\ op = "sext"  -> {CreateInteger({i \in Bits : i \in x.bits
                                          \/ (i \notin Narrow /\ Cardinality(Narrow) - 1 \in x.bits)})}
    [] Is(x, "int") /\ op \in {"zext", "xext", "bitcast"} -> {x}
    [] Is(x, "int") /\ op = "trunc" -> {IntOf(Num(x.bits) % 2 ^ Cardinality(Narrow))}
    [] Is(x, "float") /\ op = "bitcast" -> {CreateInteger(FloatBits[x.float])}
    [] Is(x, "float") /\ op # "bitcast" /\ x.float \in DOMAIN FloatInt ->
         {CreateInteger(FloatInt[x.float])}
    [] x = Undefined -> {Undefined}
    [] OTHER -> IF op = "bitcast" THEN {x} ELSE AnyInt

\* Addresses of one object are ordered by their offsets, others in any way, those
\* of two frame objects not at all; zero and one are below all addresses.
Within(x, y) == [x EXCEPT !.off = 0] = [y EXCEPT !.off = 0]
Compared(cc, x, y) ==
  CASE Undefined \in {x, y} -> {Undefined}
    [] Is(x, "int") /\ Is(y, "int") -> {Flag(CompareInt(x.bits, y.bits, cc))}
    [] Is(x, "float") /\ Is(y, "float") -> {Flag(CompareFloat(x.float, y.float, cc))}
    [] IsAddress(x) /\ IsAddress(y) ->
         IF Within(x, y) THEN {Flag(Related(cc.rel, x.off, y.off))}
         ELSE IF cc.rel \in {"eq", "ne"} THEN {Flag(cc.rel = "ne")}
         ELSE IF Is(x, "stack") /\ Is(y, "stack") THEN {Undefined} ELSE {Flag(TRUE), Flag(FALSE)}
    [] Is(x, "int") /\ IsAddress(y) /\ Num(x.bits) < 2 -> {Flag(cc.rel \in {"ne", "lt", "le"})}
    [] IsAddress(x) /\ Is(y, "int") /\ Num(y.bits) < 2 -> {Flag(cc.rel \in {"ne", "gt", "ge"})}
    [] OTHER -> {Flag(TRUE), Flag(FALSE)}

\* What a load may find: nothing outside the data of this program; others write
\* data that they can see.
Contents(x) ==
  LET data == prog.data[x.sym]
      item == data.items[ItemAt(data.items, x.off)]
  IN IF ~IsAddress(x) THEN {}
     ELSE IF ~(Is(x, "global") /\ x.sym \in DOMAIN prog.data) THEN Inputs
     ELSE IF At(data.items, x.off) = {} THEN {}
     ELSE IF ~data.constant /\ (~data.local \/ x.sym \in mem.escaped) THEN Inputs
     ELSE IF <<x.sym, x.off>> \in DOMAIN mem.cells THEN {mem.cells[<<x.sym, x.off>>]}
     ELSE IF item.kind = "space" THEN {Null}
     ELSE IF item.size = 1 THEN {item.val} ELSE Inputs

\* The feature word of the machine has at least the features of the target.
FeatureWords(leaf, sub, idx) ==
  LET wanted == \/ Num(leaf.bits) = FeatureLeaf /\ idx = 2
                \/ Num(leaf.bits) = StateLeaf /\ idx = 0 /\ sub = CreateInteger({0})
  IN IF Undefined \in {leaf, sub} THEN {Undefined}
     ELSE {v \in AnyInt : Is(leaf, "int") /\ wanted => Features \subseteq v.bits}

\* Whether a value counts as true.
Truth(x) == x # Null /\ (Is(x, "float") => x.float \notin FloatZeros)

\* What an instruction may compute.
Results(i) ==
  LET kind == Inst(i).kind
  IN CASE kind = "arg" ->
            {IF Inst(i).idx + 1 \in DOMAIN Top.args THEN Top.args[Inst(i).idx + 1] ELSE Undefined}
       [] kind = "mov" -> {Inst(i).val} \cup (IF MaybeNull(Inst(i).val) THEN {Null} ELSE {})
       [] kind = "undef" -> {Undefined}
       [] kind = "frame" -> {Address(Top.func, Inst(i).val)}
       [] kind = "copy" -> {Operand(1)}
       [] kind = "load" -> Contents(Operand(1))
       [] kind = "cpuid" -> FeatureWords(Operand(1), Operand(2), Inst(i).idx)
       [] kind \in Unaries -> Unary(kind, Operand(1))
       [] kind \in Binaries -> Binary(kind, Operand(1), Operand(2))
       [] kind = "cmp" -> Compared(Inst(i).val, Operand(1), Operand(2))
       [] kind = "select" ->
            {IF Operand(1) = Undefined THEN Undefined
               ELSE IF Truth(Operand(1)) THEN Operand(2) ELSE Operand(3)}
       [] OTHER -> Inputs

\* Objects whose addresses are among these values.
Outside(values) == {v.sym : v \in {w \in ToSet(values) : Is(w, "global")}}

Launch ==
  /\ Done /\ stack = <<>>
  /\ \E f \in Funcs, x, y \in Inputs :
       IsEntry(f) /\ stack' = <<Activation(f, <<x, y>>)>>
  /\ UNCHANGED <<vars, mem>>

Compute ==
  /\ Executes({"arg", "mov", "undef", "frame", "copy", "load", "cpuid", "cmp", "select", "other"}
                \cup Unaries \cup Binaries)
  /\ Readable
  /\ \E x \in Results(Now) :
       stack' = Append(Below, [Top EXCEPT !.code = Tail(@), !.env[Now] = x])
  /\ UNCHANGED <<vars, mem>>

\* Cells of which c has the value x.
Put(cells, c, x) == [d \in DOMAIN cells \cup {c} |-> IF d = c THEN x ELSE cells[d]]

\* A store changes data that is not constant; a store anywhere else is not looked at.
Store ==
  /\ Executes({"store"})
  /\ Readable
  /\ LET x == Operand(1)
     IN /\ Is(x, "global") /\ x.sym \in DOMAIN prog.data /\ ~prog.data[x.sym].constant
        /\ mem' = [cells   |-> Put(mem.cells, <<x.sym, x.off>>, Operand(2)),
                   escaped |-> mem.escaped \cup Outside(<<Operand(2)>>)]
  /\ stack' = Append(Below, [Top EXCEPT !.code = Tail(@)])
  /\ UNCHANGED vars

Jump ==
  /\ Executes({"jump", "jcc", "switch"})
  /\ Readable
  /\ \E k \in DOMAIN Inst(Now).to :
       /\ CASE Inst(Now).kind = "jump" -> TRUE
            [] Inst(Now).kind = "jcc" ->
                 Operand(1) # Undefined /\ (k = 1 <=> Truth(Operand(1)))
            [] OTHER -> Is(Operand(1), "int") /\ k = Index(Operand(1)) + 1
       /\ stack' = Append(Below, Goto(Top, BlockOf(Now), Inst(Now).to[k]))
  /\ UNCHANGED <<vars, mem>>

Actuals == [k \in 1 .. Len(Inst(Now).args) - 1 |-> Operand(k + 1)]

\* A tail call replaces the activation of its function.
Call ==
  /\ Executes(CallSites)
  /\ Readable /\ Is(Operand(1), "global") /\ Operand(1).sym \in Funcs
  /\ LET callee == Activation(Operand(1).sym, Actuals)
     IN IF Inst(Now).kind = "tcall"
          THEN stack' = Append(Below, callee)
          ELSE Len(stack) < MaxDepth /\ stack' = Append(stack, callee)
  /\ UNCHANGED <<vars, mem>>

\* The activations below the top one, with x returned to the innermost of them.
Resume(acts, x) ==
  IF acts = <<>>
    THEN <<>>
    ELSE LET act == acts[Len(acts)]
             i   == Head(act.code)
         IN Append(SubSeq(acts, 1, Len(acts) - 1),
                   Goto([act EXCEPT !.env[i] = IF Inst(i).rets THEN x ELSE Unknown],
                        BlockOf(i), Inst(i).to[1]))

Return ==
  /\ Executes({"ret"})
  /\ Readable
  /\ stack' = Resume(Below, IF Inst(Now).args = <<>> THEN Unknown ELSE Operand(1))
  /\ UNCHANGED <<vars, mem>>

\* A function of another program returns anything.
CallOut ==
  /\ Executes(CallSites)
  /\ Readable /\ Is(Operand(1), "global") /\ Operand(1).sym \in Externs
  /\ \E x \in Inputs :
       stack' = Resume(IF Inst(Now).kind = "tcall" THEN Below ELSE stack,
                       IF Inst(Now).rets THEN x ELSE Unknown)
  /\ mem' = [mem EXCEPT !.escaped = @ \cup Outside(Actuals)]
  /\ UNCHANGED vars

\* An exception goes to the landing pad of the innermost invoke.
Throw ==
  /\ Executes({"raise"})
  /\ \E n \in 1 .. Len(stack) - 1 :
       LET i == Head(stack[n].code)
       IN /\ Inst(i).kind = "invoke"
          /\ \A m \in n + 1 .. Len(stack) - 1 : Inst(Head(stack[m].code)).kind # "invoke"
          /\ stack' = Append(SubSeq(stack, 1, n - 1), Goto(stack[n], BlockOf(i), Inst(i).to[2]))
  /\ UNCHANGED <<vars, mem>>

SInit == Init /\ stack = <<>> /\ mem = [cells |-> <<>>, escaped |-> {}]

SNext ==
  \/ Next /\ UNCHANGED <<stack, mem>>
  \/ Launch \/ Compute \/ Store \/ Jump \/ Call \/ Return \/ CallOut \/ Throw

SSpec == SInit /\ [][SNext]_svars /\ WF_vars(Next)

\* What SCCP claims is true of every run: the code that is executed is marked
\* executable, and every value that is computed is one that its lattice value
\* stands for.  Rewrite replaces code it was told is not executable by a trap and
\* instructions by the constant in the lattice.
Sound ==
  \A n \in DOMAIN stack :
    /\ \A k \in DOMAIN stack[n].code : BlockOf(stack[n].code[k]) \in s.executable
    /\ \A i \in Insts :
         stack[n].env[i] # Unknown => Stands(stack[n].env[i], s.values[i], stack[n].func)

=============================================================================
