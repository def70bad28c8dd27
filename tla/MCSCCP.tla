------------------------------- MODULE MCSCCP -------------------------------
(***************************************************************************)
(* Families of small programs for the SCCP solver.                         *)
(***************************************************************************)
EXTENDS SCCPSound

\* Instructions, without the block that holds them.
Op(kind, args, to, val, rets) ==
  [kind |-> kind, args |-> args, to |-> to, val |-> val, idx |-> 0, rets |-> rets]
Arg         == Op("arg", <<>>, <<>>, Unknown, TRUE)
Mov(v)      == Op("mov", <<>>, <<>>, v, TRUE)
FrameAt(o)  == Op("frame", <<>>, <<>>, CreateFrame(o, 0), TRUE)
Undef       == Op("undef", <<>>, <<>>, Undefined, TRUE)
Value(kind, args) == Op(kind, args, <<>>, Unknown, TRUE)
Phi(args, from)   == Op("phi", args, from, Unknown, TRUE)
Go(kind, args, to) == Op(kind, args, to, Unknown, FALSE)
CallOp(kind, args, to, rets) == Op(kind, args, to, Unknown, rets)

\* The parts that the programs of a family share, from functions to blocks and
\* from blocks to bodies.
MapOf(parts) ==
  LET Pairs == UNION {{<<x, b>> : x \in ToSet(parts[b])} : b \in DOMAIN parts}
  IN FoldSet(LAMBDA p, m : (p[1] :> p[2]) @@ m, <<>>, Pairs)
Firsts(parts) == FoldSet(LAMBDA x, m : (x :> Head(parts[x])) @@ m, <<>>, DOMAIN parts)
Shape(funcs, body, inst, order) ==
  [inst |-> inst, at |-> MapOf(body), body |-> body, home |-> MapOf(funcs),
   entry |-> Firsts(funcs), visible |-> {"main"}, order |-> order, data |-> <<>>]

I(n) == CreateInteger(n)
Consts == {Mov(I({0})), Mov(I({})), Undef}

LoopShape ==
  Shape([main |-> <<"m0", "m1", "m2">>],
        [m0 |-> <<"x", "k", "l", "j0">>, m1 |-> <<"p", "q", "j1">>, m2 |-> <<"r">>],
        <<>>, <<"x", "k", "l", "j0", "p", "q", "j1", "r">>)

\* A loop: p is what comes in or what the loop body made of it.
Loop ==
  {LET inst == [x |-> Arg, k |-> k, l |-> l,
                j0 |-> IF sw THEN Go("switch", <<c>>, <<"m1", "m2">>)
                             ELSE Go("jcc", <<c>>, <<"m1", "m2">>),
                p |-> Phi(<<a, "q">>, <<"m0", "m1">>), q |-> q,
                j1 |-> Go("jcc", <<d>>, <<"m1", "m2">>), r |-> Go("ret", <<>>, <<>>)]
   IN [LoopShape EXCEPT !.inst = inst] :
     k \in Consts, l \in {Mov(I({1})), Mov(I({0, 1}))}, c \in {"x", "k"}, a \in {"k", "l"},
     d \in {"p", "q"}, sw \in BOOLEAN,
     q \in {Value("xor", <<"p", "l">>), Value("and", <<"p", "k">>), Value("and", <<"l", "p">>),
            Value("select", <<"x", "p", "k">>), Value("select", <<"p", "k", "l">>),
            Value("copy", <<"p">>)}}

\* Two calls, tail calls between f and g, and a landing pad.
CallOrder == <<"x", "k", "j0", "ft", "r1", "ff", "r2", "p", "z", "l", "zl",
               "a", "ja", "gm", "t1", "t2m", "t2", "b", "h", "t3m", "t3">>
CallShape ==
  Shape([main |-> <<"m0", "mt", "mf", "m3", "m4">>, f |-> <<"f0", "f1", "f2">>, g |-> <<"g0">>],
        [m0 |-> <<"x", "k", "j0">>, mt |-> <<"ft", "r1">>, mf |-> <<"ff", "r2">>,
         m3 |-> <<"p", "z">>, m4 |-> <<"l", "zl">>,
         f0 |-> <<"a", "ja">>, f1 |-> <<"gm", "t1">>, f2 |-> <<"t2m", "t2">>,
         g0 |-> <<"b", "h", "t3m", "t3">>],
        <<>>, <<>>)
Calls ==
  {LET inst == [x |-> Arg, k |-> Mov(I({0})), j0 |-> Go("jcc", <<"x">>, <<"mt", "mf">>),
                ft |-> Mov(CreateGlobal("f", 0)), r1 |-> CallOp("call", <<"ft", a1>>, <<"m3">>, TRUE),
                ff |-> Mov(CreateGlobal(f2, 0)),
                r2 |-> CallOp("invoke", <<"ff">> \o a2, <<"m3", "m4">>, TRUE),
                p |-> Phi(<<"r1", "r2">>, <<"mt", "mf">>), z |-> Go("ret", <<"p">>, <<>>),
                l |-> Value("other", <<>>), zl |-> Go("ret", <<"l">>, <<>>),
                a |-> Arg, ja |-> Go("jcc", <<"a">>, <<"f1", "f2">>),
                gm |-> Mov(CreateGlobal("g", 0)), t1 |-> CallOp("tcall", <<"gm", "a">>, <<>>, TRUE),
                t2m |-> Mov(CreateGlobal(t2[1], 0)), t2 |-> t2[2],
                b |-> Arg, h |-> Mov(I({1})), t3m |-> Mov(CreateGlobal(t3[1], 0)), t3 |-> t3[2]]
   IN [CallShape EXCEPT !.inst = inst, !.order = o] :
     a1 \in {"x", "k"}, a2 \in {<<"k">>, <<>>}, f2 \in {"f", "g", "ext", "var"},
     t2 \in {<<"ext", CallOp("tcall", <<"t2m", "a">>, <<>>, r)>> : r \in BOOLEAN}
              \cup {<<"g", CallOp("tcall", <<"t2m">>, <<>>, TRUE)>>,
                    <<"g", CallOp("tcall", <<"t2m", "a">>, <<>>, FALSE)>>,
                    <<"ext", Go("ret", <<"a">>, <<>>)>>, <<"ext", Go("ret", <<>>, <<>>)>>},
     t3 \in {<<"f", CallOp("tcall", <<"t3m", "b">>, <<>>, TRUE)>>,
             <<"f", CallOp("tcall", <<"t3m", "h">>, <<>>, TRUE)>>,
             <<"var", CallOp("tcall", <<"t3m", "b">>, <<>>, TRUE)>>,
             <<"ext", Go("ret", <<"b">>, <<>>)>>, <<"ext", Go("ret", <<"h">>, <<>>)>>,
             <<"ext", Go("raise", <<>>, <<>>)>>, <<"ext", Go("trap", <<>>, <<>>)>>},
     o \in {CallOrder, Reverse(CallOrder)}}

\* Recursion through f and g, an invoke in g, and no tail calls.
RecursionOrder ==
  <<"x", "k", "j0", "ft", "r1", "ff", "r2", "p", "z", "l", "zl", "a", "ja", "gm", "c1",
    "za", "zc", "b", "h", "fm", "c2", "zb", "zz">>
RecursionShape ==
  Shape([main |-> <<"m0", "mt", "mf", "m3", "m4">>, f |-> <<"f0", "f1", "f2", "f3">>,
         g |-> <<"g0", "g1", "g2">>],
        [m0 |-> <<"x", "k", "j0">>, mt |-> <<"ft", "r1">>, mf |-> <<"ff", "r2">>,
         m3 |-> <<"p", "z">>, m4 |-> <<"l", "zl">>, f0 |-> <<"a", "ja">>, f1 |-> <<"gm", "c1">>,
         f2 |-> <<"za">>, f3 |-> <<"zc">>, g0 |-> <<"b", "h", "fm", "c2">>, g1 |-> <<"zb">>,
         g2 |-> <<"zz">>],
        <<>>, RecursionOrder)
Recursion ==
  {LET inst == [x |-> Arg, k |-> Mov(I({0})), j0 |-> Go("jcc", <<"x">>, <<"mt", "mf">>),
                ft |-> Mov(CreateGlobal("f", 0)), r1 |-> CallOp("call", <<"ft", a1>>, <<"m3">>, TRUE),
                ff |-> Mov(CreateGlobal(f2, 0)),
                r2 |-> CallOp("invoke", <<"ff">> \o a2, <<"m3", "m4">>, TRUE),
                p |-> Phi(<<"r1", "r2">>, <<"mt", "mf">>), z |-> Go("ret", <<"p">>, <<>>),
                l |-> Value("other", <<>>), zl |-> Go("ret", <<"l">>, <<>>),
                a |-> Arg, ja |-> Go("jcc", <<"a">>, <<"f1", "f2">>),
                gm |-> Mov(CreateGlobal("g", 0)), c1 |-> CallOp("call", <<"gm", "a">>, <<"f3">>, TRUE),
                za |-> Go("ret", <<"a">>, <<>>), zc |-> Go("ret", <<q>>, <<>>),
                b |-> Arg, h |-> Mov(I({1})), fm |-> Mov(CreateGlobal(f3, 0)),
                c2 |-> CallOp("invoke", <<"fm", "h">>, <<"g1", "g2">>, TRUE),
                zb |-> e[1], zz |-> e[2]]
   IN [RecursionShape EXCEPT !.inst = inst] :
     a1 \in {"x", "k"}, a2 \in {<<"k">>, <<>>}, f2 \in {"f", "g"}, f3 \in {"f", "g", "ext"},
     q \in {"a", "c1"},
     e \in {<<Go("ret", v, <<>>), Go("ret", v, <<>>)>> : v \in {<<"c2">>, <<>>}}
             \cup {<<Go("raise", <<>>, <<>>), Go("ret", <<"c2">>, <<>>)>>,
                   <<Go("ret", <<"b">>, <<>>), Go("ret", <<"c2">>, <<>>)>>}}

\* Addresses: of a frame object, of functions and of data, joined by a PHI.
AddressShape ==
  Shape([main |-> <<"m0", "m1", "m2", "m3", "m4", "m5", "m6">>, h |-> <<"h0", "h1", "h2">>],
        [m0 |-> <<"x", "u", "v", "fm", "j0">>, m1 |-> <<"j1">>, m2 |-> <<"j2">>,
         m3 |-> <<"p", "j3">>, m4 |-> <<"r">>, m5 |-> <<"c">>, m6 |-> <<"z">>,
         h0 |-> <<"a", "jh">>, h1 |-> <<"z1">>, h2 |-> <<"z2">>],
        <<>>, <<"x", "u", "v", "fm", "j0", "j1", "j2", "p", "j3", "r", "c", "z", "a", "jh", "z1", "z2">>)
Addresses(us, vs) ==
  {LET inst == [x |-> Arg, u |-> u, v |-> v, fm |-> Mov(CreateGlobal("h", 0)),
                j0 |-> Go("jcc", <<"x">>, <<"m1", "m2">>), j1 |-> Go("jump", <<>>, <<"m3">>),
                j2 |-> Go("jump", <<>>, <<"m3">>), p |-> Phi(<<"u", "v">>, <<"m1", "m2">>),
                j3 |-> Go("jcc", <<"p">>, <<"m5", "m4">>), r |-> Go("ret", <<>>, <<>>),
                c |-> CallOp("call", <<IF ind THEN "p" ELSE "fm", "p">>, <<"m6">>, TRUE),
                z |-> Go("ret", <<"c">>, <<>>),
                a |-> Arg, jh |-> Go("jcc", <<"a">>, <<"h1", "h2">>),
                z1 |-> Go("ret", <<"a">>, <<>>), z2 |-> Go("trap", <<>>, <<>>)]
   IN [AddressShape EXCEPT !.inst = inst] :
     u \in us, v \in vs, ind \in BOOLEAN}

Symbols(names) == {Mov(CreateGlobal(g, 0)) : g \in names}
Places == {FrameAt(0), FrameAt(1), Mov(I({0}))} \cup Symbols({"h", "var", "ext"})

\* One operator.  An operand is one instruction or what select makes of two.
OperatorOrder == <<"x", "y", "g", "la", "lb", "l", "ra", "rb", "r", "o", "j">>
Fixed == [x |-> Arg, y |-> [Arg EXCEPT !.idx = 1], g |-> Mov(CreateGlobal("var", 0)),
          j |-> Go("jcc", <<"o">>, <<"m1", "m2">>),
          z1 |-> Go("ret", <<"o">>, <<>>), z2 |-> Go("ret", <<"x">>, <<>>)]
Straight(inst) ==
  Shape([main |-> <<"m0", "m1", "m2">>],
        [m0 |-> SelectSeq(OperatorOrder, LAMBDA i : i \in DOMAIN inst),
         m1 |-> <<"z1">>, m2 |-> <<"z2">>],
        inst, SelectSeq(OperatorOrder \o <<"z1", "z2">>, LAMBDA i : i \in DOMAIN inst))
Left(l)  == IF Len(l) = 1 THEN [l |-> l[1]]
            ELSE [la |-> l[1], lb |-> l[2], l |-> Value("select", <<"x", "la", "lb">>)]
Right(r) == IF Len(r) = 1 THEN [r |-> r[1]]
            ELSE [ra |-> r[1], rb |-> r[2], r |-> Value("select", <<"y", "ra", "rb">>)]
Operator(l, r, o) == Straight(Fixed @@ Left(l) @@ Right(r) @@ [o |-> o])

\* Operands: known integers, known bits, unknown and undefined integers, addresses.
One(v) == <<v>>
Known    == {One(Mov(v)) : v \in IntConstants}
Partial  == {<<Mov(I({0})), Mov(I({0, 1}))>>, <<Mov(I({})), Mov(I({0}))>>}
Anything(a) == {One(Value("copy", <<a>>))}
Missing  == {One(Undef)}
Numbers(a) == Known \cup Partial \cup Anything(a) \cup Missing
Framed   == {One(FrameAt(0)), One(FrameAt(1)), One(Op("frame", <<>>, <<>>, CreateFrame(0, 1), TRUE))}
Named    == {One(Mov(CreateGlobal(g, 0))) : g \in {"var", "ext", "h"}}
              \cup {One(Mov(CreateGlobal("var", 1)))}
Either   == {<<FrameAt(0), Mov(CreateGlobal("var", 0))>>}
Ranging(a) == {One(Value("add", <<"g", a>>))}
Reals    == {One(Mov(CreateFloat(f))) : f \in Floats}
              \cup {<<Mov(CreateFloat("half")), Mov(CreateFloat("one"))>>}
NotNaN   == {p \in Reals : \A k \in DOMAIN p : p[k].val.float # "nan"}

Cond(rel, u) == [kind |-> "cc", rel |-> rel, u |-> u]
Conds == {Cond("eq", FALSE), Cond("ne", TRUE), Cond("lt", FALSE), Cond("ge", TRUE)}
MoreConds == Conds \cup {Cond("lt", TRUE), Cond("gt", FALSE)}
FloatConds == Conds \cup {Cond("ne", FALSE), Cond("le", TRUE), Cond("o", FALSE), Cond("uo", FALSE)}
Cmp(cc) == Op("cmp", <<"l", "r">>, <<>>, cc, TRUE)
Does(kind) == Value(kind, <<"l", "r">>)

\* An operator applied to each pair of operands for which the code has a case.
Apply(L, R, os) == {Operator(p[1], p[2], p[3]) : p \in L \X R \X os}
Somewhere == Framed \cup Named \cup Either
Arithmetic == Apply(Numbers("x"), Numbers("y"), {Does(k) : k \in Binaries \ {"fadd", "fmul"}})
Comparisons == Apply(Numbers("x"), Numbers("y"), {Cmp(c) : c \in MoreConds})
PointerArithmetic ==
  Apply(Somewhere, Numbers("y"), {Does(k) : k \in {"add", "sub", "and", "or", "sll", "srl", "rotl"}})
  \cup Apply(Ranging("x"), Numbers("y"), {Does(k) : k \in {"add", "sub", "and", "or"}})
  \cup Apply(Numbers("x"), Framed \cup Named, {Does(k) : k \in {"add", "and", "or"}})
PointerComparisons ==
  Apply(Somewhere, Somewhere, {Cmp(c) : c \in Conds})
  \cup Apply(Somewhere \cup Ranging("x"), Known \cup Missing, {Cmp(c) : c \in Conds})
  \cup Apply(Known, Somewhere, {Cmp(c) : c \in Conds})
FloatOps ==
  Apply(NotNaN, NotNaN, {Does("fadd"), Does("fmul")}) \cup Apply(Reals, Reals, {Cmp(c) : c \in FloatConds})

\* Conversions (a number is cut to a narrow one, which is extended again), cpuid.
Conversions ==
  {Operator(l, One(Value("trunc", <<"l">>)), Value(v, <<"r">>)) :
     l \in Numbers("x"), v \in {"sext", "zext", "bitcast"}}
  \cup {Operator(l, One(Undef), Value(v, <<"l">>)) :
          l \in Known \cup Anything("x") \cup Missing, v \in {"neg", "abs", "bitcast"}}
  \cup {Operator(l, One(Undef), Value(v, <<"l">>)) :
          l \in Reals, v \in {"zext", "xext", "bitcast", "sext"}}
  \cup {Operator(l, r, [Does("cpuid") EXCEPT !.idx = k]) :
          l \in Known \cup Anything("x"), r \in Known \cup Anything("y"), k \in {0, 2}}

\* Loads: from data that is constant or not, local or not, written in between or not.
Item(kind, size, val) == [kind |-> kind, size |-> size, val |-> val]
Items == {<<Item("space", 2, Unknown)>>, <<Item("value", 1, I({1})), Item("wide", 2, Unknown)>>,
          <<Item("value", 1, CreateGlobal("var", 0)), Item("space", 1, Unknown)>>}
LoadFrom(constant, local, items, off, first, op, second) ==
  [Straight(Fixed @@ [la |-> off, lb |-> first, l |-> Value(op, <<"g", "la">>), ra |-> second,
                      o |-> Value("load", <<"l">>)])
     EXCEPT !.data = [var |-> [constant |-> constant, local |-> local, items |-> items]]]
Loads ==
  {LoadFrom(p[1], p[2], p[3], p[4], p[5], p[6], p[7]) :
     p \in BOOLEAN \X BOOLEAN \X Items
             \X {Mov(I({})), Mov(I({0})), Mov(I({1})), Value("copy", <<"x">>)}
             \X {Go("store", <<"g", "y">>, <<>>), Undef, Value("select", <<"x", "g", "y">>)}
             \X {"add", "sub"}
             \X {Go("store", <<"l", "y">>, <<>>), Undef}}

\* The use lists of a program: one element for every use, nothing uses a value
\* three times.
UsesOf(p) ==
  LET Times(u, i) == Cardinality({k \in DOMAIN p.inst[u].args : p.inst[u].args[k] = i})
      Users(i, n) == SelectSeq(p.order, LAMBDA u : Times(u, i) > n)
  IN [i \in DOMAIN p.inst |-> Users(i, 0) \o Users(i, 1)]
Linked(family) == {p @@ [uses |-> UsesOf(p)] : p \in family}

MCPrograms ==
  LET families == <<Loop, Calls, Recursion, Addresses(Places, Places), Arithmetic, Comparisons, PointerArithmetic,
    PointerComparisons, FloatOps, Conversions, Loads>>
  IN [k \in DOMAIN families |-> Linked(families[k])]
MCInputs   == {I({}), I({0}), I({1})}
MCSymAlign == [g \in Syms |-> IF g = "var" THEN 2 ELSE 1]
MCObjectAlign == [o \in Objects |-> o + 1]
MCFloatRank == [z |-> 0, half |-> 1, one |-> 2]
MCFloatInt  == [z |-> {}, one |-> {0}]
MCFloatBits == [z |-> {}, half |-> {0}, one |-> {1}, nan |-> {0, 1}]

=============================================================================
