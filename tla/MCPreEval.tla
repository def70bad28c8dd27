------------------------------ MODULE MCPreEval ------------------------------
(***************************************************************************)
(* Programs for the pre-evaluator: all pairs of operands of all operators, *)
(* joins of memory and of PHIs, loops, calls and exceptions.  Words have   *)
(* two bytes of three bits.                                                *)
(***************************************************************************)
EXTENDS PreEval

N(id, op, ty, a, t, v) ==
  [id |-> id, op |-> op, ty |-> ty, a |-> [k \in DOMAIN a |-> <<a[k], 1>>],
   t |-> t, v |-> v]

IntI(id, x)        == N(id, "int", "I64", <<>>, <<>>, x)
FlagI(id, x)       == N(id, "int", "I8", <<>>, <<>>, x)
AtomI(id, d, off)  == N(id, "atom", "I64", <<>>, <<>>, <<d, off>>)
FrameI(id, k, off) == N(id, "frame", "I64", <<>>, <<>>, <<k, off>>)
FuncI(id, fn)      == N(id, "func", "I64", <<>>, <<>>, fn)
BlockI(id, b)      == N(id, "block", "I64", <<>>, <<>>, b)
ArgI(id, k)        == N(id, "arg", "I64", <<>>, <<>>, k)
InI(id, ty)        == N(id, "rdtsc", ty, <<>>, <<>>, 0)
LoadI(id, ty, p)   == N(id, "load", ty, <<p>>, <<>>, 0)
StoreI(id, p, x)   == N(id, "store", "I64", <<p, x>>, <<>>, 0)
UnI(id, op, ty, x) == N(id, op, ty, <<x>>, <<>>, 0)
BinI(id, op, x, y) == N(id, op, "I64", <<x, y>>, <<>>, 0)
CmpI(id, cc, x, y) == N(id, "cmp", "I8", <<x, y>>, <<>>, cc)
SelI(id, c, x, y)  == N(id, "select", "I64", <<c, x, y>>, <<>>, 0)
PhiI(id, a, t)     == N(id, "phi", "I64", a, t, 0)
OutI(id, x)        == N(id, "out", "I64", <<x>>, <<>>, 0)
PadI(id, n)        == N(id, "landing", "I64", <<>>, <<>>, n)
Jmp(id, b)         == N(id, "jmp", "", <<>>, <<b>>, 0)
Jc(id, c, b, e)    == N(id, "jc", "", <<c>>, <<b, e>>, 0)
Sw(id, x, t)       == N(id, "switch", "", <<x>>, t, 0)
Ret(id, a)         == N(id, "ret", "", a, <<>>, 0)
Throw(id, a)       == N(id, "raise", "", a, <<>>, 0)
Trap(id)           == N(id, "trap", "", <<>>, <<>>, 0)
CallI(id, a, t, n) == N(id, "call", "I64", a, t, n)
InvokeI(id, a, t, n) == N(id, "invoke", "I64", a, t, n)
TCallI(id, a, n)   == N(id, "tcall", "I64", a, <<>>, n)

Word == [size |-> WordBytes, align |-> WordBytes]

\* A function, its blocks numbered in order.
Fun(order, body, objs, params) ==
  [order |-> order, body |-> body, objs |-> objs, va |-> FALSE, entry |-> FALSE,
   params |-> params]
Main(order, body, objs) == [Fun(order, body, objs, 0) EXCEPT !.entry = TRUE]
Malloc0 == Fun(<<900>>, 900 :> <<Trap(901)>>, <<>>, 1)

\* Three data objects: two words, one that refers to the first, and read-only.
Datas ==
  1 :> [items |-> <<<<"i64", 5>>, <<"i8", 3>>, <<"i8", 1>>>>, align |-> 4, ro |-> FALSE]
    @@ 2 :> [items |-> <<<<"atom", 1, 2>>, <<"i64", 0>>>>, align |-> 2, ro |-> FALSE]
    @@ 3 :> [items |-> <<<<"i64", 7>>, <<"func", "f">>>>, align |-> 2, ro |-> TRUE]
NoDatas == 1 :> [items |-> <<<<"i64", 5>>, <<"i64", 0>>>>, align |-> 4, ro |-> FALSE]

Prog(funcs, data) == [funcs |-> funcs, data |-> data, start |-> "main"]
Leaf == Fun(<<800>>, 800 :> <<ArgI(801, 1), Ret(802, <<801>>)>>, <<>>, 1)

-----------------------------------------------------------------------------
(* Operators: the operand of number k ends in instruction k * 10. *)

Sources(k) ==
  LET i == k * 10
  IN  <<  <<IntI(i, 0)>>, <<IntI(i, 1)>>, <<IntI(i, 2)>>, <<IntI(i, -2)>>,
          <<InI(i, "I64")>>,
          <<InI(i + 1, "I64"), IntI(i + 2, 1), IntI(i + 3, 2), SelI(i, i + 1, i + 2, i + 3)>>,
          <<AtomI(i, 1, 0)>>, <<AtomI(i, 1, 2)>>, <<AtomI(i, 2, 0)>>,
          <<FrameI(i, 1, 0)>>,
          <<AtomI(i + 1, 1, 0), InI(i + 2, "I64"), BinI(i, "add", i + 1, i + 2)>>,
          <<AtomI(i + 1, 1, 0), FrameI(i + 2, 1, 0), InI(i + 3, "I64"),
            SelI(i, i + 3, i + 1, i + 2)>>,
          <<AtomI(i + 1, 1, 0), IntI(i + 2, 0), InI(i + 3, "I64"),
            SelI(i, i + 3, i + 1, i + 2)>>,
          <<FuncI(i, "f")>>,
          <<AtomI(i + 1, 3, 2), LoadI(i, "I64", i + 1)>>  >>

\* The result is stored, loaded and asked for.
OpProg(x, y, op) ==
  Prog([main |-> Main(<<1, 2, 3, 4>>,
          1 :> x \o y \o <<op, InI(40, "I8"), FrameI(41, 2, 0), StoreI(42, 41, 30),
                           LoadI(43, op.ty, 41),
                           Jc(44, IF op.op = "cmp" THEN 30 ELSE 40, 2, 3)>>
            @@ 2 :> <<Jmp(45, 4)>> @@ 3 :> <<Jmp(46, 4)>>
            @@ 4 :> <<PhiI(47, <<30, 43>>, <<2, 3>>), Ret(48, <<>>)>>,
          <<Word, Word>>),
        f |-> Leaf], Datas)

Ccs == {"EQ", "NE", "LT", "ULT", "GE"}
Ops == {BinI(30, op, 10, 20) : op \in BinaryOps \ {"cmp", "oumul", "ouadd"}}
         \cup {N(30, op, "I8", <<10, 20>>, <<>>, 0) : op \in {"oumul", "ouadd"}}
         \cup {CmpI(30, cc, 10, 20) : cc \in Ccs}

OpProgs(op) ==
  {OpProg(Sources(1)[x], Sources(2)[y], op) :
     x \in DOMAIN Sources(1), y \in DOMAIN Sources(2) \ (IF op.op = "and" THEN {1} ELSE {})}

\* A conversion, and a test of its result.
ConvProgs ==
  {Prog([main |-> Main(<<1, 2, 3, 4>>,
           1 :> Sources(1)[x] \o
                <<UnI(20, "trunc", "I8", 10), FlagI(21, k), CmpI(22, cc, 20, 21),
                  Jc(32, 22, 2, 3)>>
             @@ 2 :> <<UnI(30, "zext", "I64", 20), Jmp(33, 4)>>
             @@ 3 :> <<UnI(31, "sext", "I64", 20), Jmp(34, 4)>>
             @@ 4 :> <<PhiI(35, <<30, 31>>, <<2, 3>>), Ret(36, <<>>)>>,
           <<Word, Word>>),
         f |-> Leaf], Datas) :
     x \in DOMAIN Sources(1), k \in {0, 1, 7}, cc \in {"EQ", "NE"}}

-----------------------------------------------------------------------------
(* Joins: two ways from block 1 to block 4, on which two places are written. *)

Conds == <<InI(10, "I8"), FlagI(10, 0), FlagI(10, 1)>>
\* A place: the first word of an object, the second, another object, anywhere.
Places(i) == << <<AtomI(i, 1, 0)>>, <<AtomI(i, 1, 2)>>, <<FrameI(i, 1, 0)>>,
                <<AtomI(i + 1, 1, 0), InI(i + 2, "I64"), BinI(i, "add", i + 1, i + 2)>> >>
Things(i) == << <<IntI(i, 5)>>, <<IntI(i, 1)>>, <<InI(i, "I64")>>, <<AtomI(i, 1, 2)>> >>

JoinProg(c, p, q, x, y) ==
  Prog([main |-> Main(<<1, 2, 3, 4>>,
          1 :> <<c>> \o p \o q \o x \o y \o
               <<IntI(60, 0), FrameI(61, 1, 0), StoreI(62, 61, 60), Jc(63, 10, 2, 3)>>
            @@ 2 :> <<StoreI(64, 20, 40), OutI(65, 60), Jmp(66, 4)>>
            @@ 3 :> <<StoreI(67, 30, 50), Jmp(68, 4)>>
            @@ 4 :> <<PhiI(69, <<40, 50>>, <<2, 3>>), LoadI(70, "I64", 20),
                      LoadI(71, "I64", 30), LoadI(72, "I8", 20),
                      CmpI(73, "EQ", 70, 69), Ret(74, <<>>)>>,
          <<Word>>)], NoDatas)
JoinProgs(c) ==
  {JoinProg(Conds[c], Places(20)[p], Places(30)[q], Things(40)[x], Things(50)[y]) :
     p, q \in 1 .. 4, x, y \in 1 .. 4}

-----------------------------------------------------------------------------
(* Loops: block 2 is repeated until a counter reaches a bound. *)

Bounds(i) == << <<IntI(i, 1)>>, <<IntI(i, 2)>>, <<IntI(i, 5)>>, <<InI(i, "I64")>> >>

LoopProg(n, p, x) ==
  Prog([main |-> Main(<<1, 2, 3>>,
          1 :> n \o p \o x \o
               <<IntI(50, 0), IntI(51, 1), StoreI(52, 20, 51), Jmp(53, 2)>>
            @@ 2 :> <<PhiI(60, <<50, 62>>, <<1, 2>>), LoadI(61, "I64", 20),
                      BinI(62, "add", 60, 51), StoreI(63, 20, 40),
                      CmpI(64, "ULT", 62, 30), Jc(65, 64, 2, 3)>>
            @@ 3 :> <<LoadI(70, "I64", 20), CmpI(71, "EQ", 70, 62), Ret(72, <<>>)>>,
          <<Word>>)], NoDatas)

\* A loop of two blocks in which the counter itself is stored.
LoopProg2(n, p, c) ==
  Prog([main |-> Main(<<1, 2, 3, 4, 5, 6>>,
          1 :> n \o p \o <<c, IntI(50, 0), IntI(51, 1), StoreI(52, 20, 51), Jmp(53, 2)>>
            @@ 2 :> <<PhiI(60, <<50, 62>>, <<1, 5>>), BinI(62, "add", 60, 51),
                      Jc(61, 10, 3, 4)>>
            @@ 3 :> <<StoreI(63, 20, 62), Jmp(64, 5)>>
            @@ 4 :> <<OutI(65, 62), Jmp(66, 5)>>
            @@ 5 :> <<PhiI(67, <<50, 51>>, <<3, 4>>), CmpI(68, "ULT", 62, 30),
                      Jc(69, 68, 2, 6)>>
            @@ 6 :> <<LoadI(70, "I64", 20), BinI(71, "add", 70, 67), Ret(72, <<>>)>>,
          <<Word>>)], NoDatas)

LoopProgs ==
  {LoopProg(Bounds(30)[n], Places(20)[p], Things(40)[x]) : n, p, x \in 1 .. 4}
    \cup {LoopProg2(Bounds(30)[n], Places(20)[p], Conds[c]) : n, p \in 1 .. 4, c \in 1 .. 3}

\* A program that ends in an endless loop: the compiler must not follow.
HangProgs ==
  {Prog([main |-> Main(<<1, 2, 3>>, 1 :> <<IntI(10, 1), Jmp(11, 2)>> @@ 2 :> <<OutI(12, 10), Jmp(13, 3)>>
                         @@ 3 :> <<Jmp(14, 2)>>, <<>>)], NoDatas)}

-----------------------------------------------------------------------------
(* Switches, and paths that end in a trap. *)

SwitchProg(n, p, x, y, end) ==
  Prog([main |-> Main(<<1, 2, 3, 4, 5>>,
          1 :> n \o p \o x \o y \o <<IntI(60, 0), StoreI(61, 20, 60), Sw(62, 30, <<2, 3, 4>>)>>
            @@ 2 :> <<StoreI(63, 20, 40), Jmp(64, 5)>>
            @@ 3 :> <<StoreI(65, 20, 50), Jmp(66, 5)>>
            @@ 4 :> <<OutI(67, 40), OutI(68, 50), OutI(69, 40), end>>
            @@ 5 :> <<PhiI(71, <<40, 50>> \o (IF end.op = "jmp" THEN <<60>> ELSE <<>>),
                           <<2, 3>> \o (IF end.op = "jmp" THEN <<4>> ELSE <<>>)),
                      LoadI(72, "I64", 20), Ret(73, <<>>)>>,
          <<Word>>)], NoDatas)
SwitchProgs ==
  {SwitchProg(Bounds(30)[n], Places(20)[p], Things(40)[x], Things(50)[y], end) :
     n, p \in 1 .. 4, x, y \in 1 .. 3, end \in {Jmp(70, 5), Trap(70), Throw(70, <<>>)}}

-----------------------------------------------------------------------------
(* Calls: main stores x, calls f with a place and x, and loads. *)

\* f: evaluated, recursive (not entered), with a tail call, with two ways out,
\* with a variable argument list.
Store1 == <<ArgI(101, 1), ArgI(102, 2), IntI(103, 6), StoreI(104, 101, 103)>>
Callees0 ==
  << Fun(<<100>>, 100 :> Store1 \o <<Ret(105, <<102>>)>>, <<Word>>, 2),
     [Fun(<<100>>, 100 :> Store1 \o <<Ret(105, <<101>>)>>, <<>>, 2) EXCEPT !.va = TRUE],
     Fun(<<100, 110, 120>>,
         100 :> Store1 \o <<InI(105, "I8"), FuncI(106, "f"), Jc(107, 105, 110, 120)>>
           @@ 110 :> <<CallI(111, <<106, 101, 103>>, <<130>>, 1)>>
           @@ 120 :> <<Ret(121, <<102>>)>> @@ 130 :> <<Ret(131, <<111>>)>>, <<>>, 2),
     Fun(<<100>>, 100 :> Store1 \o <<FuncI(105, "g"), TCallI(106, <<105, 102>>, 1)>>, <<>>, 2),
     Fun(<<100, 110, 120>>,
         100 :> Store1 \o <<InI(105, "I8"), Jc(106, 105, 110, 120)>>
           @@ 110 :> <<StoreI(111, 101, 102), OutI(112, 101), Ret(113, <<102>>)>>
           @@ 120 :> <<Ret(121, <<103>>)>>, <<>>, 2),
     Fun(<<100, 110, 120>>,
         100 :> Store1 \o <<InI(105, "I8"), Jc(106, 105, 110, 120)>>
           @@ 110 :> <<StoreI(111, 101, 102), Throw(112, <<102>>)>>
           @@ 120 :> <<Ret(121, <<103>>)>>, <<>>, 2),
     Fun(<<100>>, 100 :> Store1 \o <<Throw(105, <<102>>)>>, <<>>, 2) >>
Leaf1 == Fun(<<800>>, 800 :> <<ArgI(801, 1), AtomI(802, 1, 2), StoreI(803, 802, 801),
                                Ret(804, <<801>>)>>, <<>>, 1)
WithRecursion(F) == IF Len(F.order) = 3 /\ 130 \in DOMAIN F.body
                      THEN [F EXCEPT !.order = <<100, 110, 120, 130>>] ELSE F

\* Block 3 is where an exception lands; it joins the rest of main, or returns.
CallProg(F, p, x, call, pad) ==
  LET both == call.op = "invoke" /\ pad.op = "jmp"
  IN  Prog([main |-> Main(IF call.op = "invoke" THEN <<1, 2, 3, 4>> ELSE <<1, 2, 4>>,
              1 :> p \o x \o <<IntI(50, 0), StoreI(51, 20, 50), FuncI(52, "f"), call>>
                @@ 2 :> <<LoadI(60, "I64", 20), Jmp(61, 4)>>
                @@ 3 :> <<PadI(70, 1), LoadI(71, "I64", 20), pad>>
                @@ 4 :> <<PhiI(73, IF both THEN <<60, 70>> ELSE <<60>>,
                               IF both THEN <<2, 3>> ELSE <<2>>),
                          AtomI(74, 1, 2), LoadI(75, "I64", 74), Ret(76, <<>>)>>,
              <<Word>>),
            f |-> WithRecursion(F), g |-> Leaf1], NoDatas)
CallProgs ==
  {CallProg(Callees0[f], Places(20)[p], Things(40)[x], CallI(53, <<52, 20, 40>>, <<2>>, 1),
            Ret(72, <<>>)) : f \in DOMAIN Callees0, p, x \in 1 .. 4}
    \cup {CallProg(Callees0[f], Places(20)[p], Things(40)[x],
                   InvokeI(53, <<52, 20, 40>>, <<2, 3>>, 1),
                   IF f = 6 THEN Ret(72, <<>>) ELSE Jmp(72, 4)) :
            f \in {1, 3, 6, 7}, p, x \in 1 .. 4}

-----------------------------------------------------------------------------
(* The heap, the boot record, addresses of code and of the stack. *)

\* An object from malloc is stored to, and its address goes through memory.
HeapProg(n, x, cc) ==
  Prog([main |-> Main(<<1, 2, 3, 4>>,
          1 :> n \o x \o <<IntI(50, 0), AtomI(51, 1, 0), FuncI(52, "malloc"),
                           CallI(53, <<52, 30>>, <<2>>, 1)>>
            @@ 2 :> <<StoreI(60, 51, 53), CmpI(61, cc, 53, 50),
                      Jc(62, 61, IF cc = "EQ" THEN 3 ELSE 4, IF cc = "EQ" THEN 4 ELSE 3)>>
            @@ 3 :> <<OutI(63, 53), Ret(64, <<>>)>>
            @@ 4 :> <<StoreI(70, 53, 40), LoadI(71, "I64", 51), LoadI(72, "I64", 71),
                      StoreI(73, 71, 51), LoadI(74, "I64", 53), CmpI(75, "EQ", 74, 51),
                      FuncI(76, "f"), CallI(77, <<76, 72>>, <<5>>, 1)>>
            @@ 5 :> <<LoadI(78, "I64", 53), Ret(79, <<>>)>>,
          <<Word>>),
        f |-> Leaf, malloc |-> Malloc0], NoDatas)
HeapProgs == {[P EXCEPT !.funcs.main.order = <<1, 2, 3, 4, 5>>] :
                P \in {HeapProg(Bounds(30)[n], Things(40)[x], cc) :
                         n \in 2 .. 4, x \in 1 .. 4, cc \in {"EQ", "NE"}}}

\* The record of the boot loader, read at each of its words.
BootProgs ==
  {[Prog([main |-> Main(<<1>>,
            1 :> <<ArgI(10, 1), IntI(11, off), BinI(12, "add", 10, 11), LoadI(13, "I64", 12)>>
                 \o more \o <<Ret(16, <<>>)>>, <<>>)], NoDatas) EXCEPT !.funcs.main.params = 1] :
     off \in {0, 2, 6, 8}, more \in {<<>>, <<LoadI(14, "I64", 13), StoreI(15, 13, 11)>>}}

\* A pointer to a function, a block, the stack or nowhere goes through memory;
\* a function is called.
CodeProgs ==
  {Prog([main |-> Main(<<1, 2>>,
           1 :> <<fp, x, FrameI(20, 1, 0), StoreI(21, 20, 30), LoadI(22, "I64", 20),
                  AtomI(23, 3, 2), LoadI(24, "I64", 23), BinI(25, "xor", 40, 40),
                  CallI(26, <<c, 22>>, <<2>>, 1)>>
             @@ 2 :> <<LoadI(27, "I64", 20), Ret(28, <<>>)>>,
           <<Word>>),
         f |-> Leaf], Datas) :
     fp \in {FuncI(30, "f"), BlockI(30, 2), N(30, "get", "I64", <<>>, <<>>, 0),
             N(30, "extern", "I64", <<>>, <<>>, <<"_end", 0>>)},
     x \in {IntI(40, 3)}, c \in {22, 24}}

OpSeq == InAnyOrder(Ops)
TestPrograms ==
  [k \in DOMAIN OpSeq |-> OpProgs(OpSeq[k])] \o [k \in 1 .. 3 |-> JoinProgs(k)]
    \o <<ConvProgs, LoopProgs, HangProgs, SwitchProgs, CallProgs, HeapProgs, BootProgs,
         CodeProgs>>
=============================================================================
