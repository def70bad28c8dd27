---------------------------- MODULE MCTagAnalysis ----------------------------
(* Programs for TagAnalysis: loops over integers, and calls between an     *)
(* exported and a local function.                                          *)
EXTENDS TagAnalysis

I(op, tys, args, fn) ==
  [op |-> op, tys |-> tys, args |-> args, fn |-> fn, idx |-> 0, name |-> "", word |-> {}]
Idx(i, n)  == [i EXCEPT !.idx = n]
Name(i, n) == [i EXCEPT !.name = n]
K(w)       == [I("const", <<"I64">>, <<>>, 1) EXCEPT !.word = w]
Param(ty, f, n) == Idx(I("arg", <<ty>>, <<>>, f), n)
R(i) == <<i, 1>>
Op(op, ty, a, b) == I(op, <<ty>>, <<R(a), R(b)>>, 1)

Root(cc)  == [cc |-> cc, taken |-> FALSE, local |-> FALSE]
Local(cc) == [cc |-> cc, taken |-> FALSE, local |-> TRUE]

\* x = a; loop { y = x op b; z = y op2 x; x = z }
Loops ==
  {[insts |-> <<K(a), b, Op("phi", "I64", 1, 5), Op(op, "I64", 3, 2), Op(op2, "I64", 4, 3)>>,
    funcs |-> <<Root("C")>>] :
     a \in {{}, {0}, {1}, {0, 2}},
     b \in {K({0}), K({1})} \cup {I("neg", <<"I64">>, <<>>, 1)},
     op \in {"add", "sub", "mul", "and", "or", "xor", "shl", "shr", "eq", "ne"},
     op2 \in {"mov", "select", "add", "and", "or"}}

Sources ==
  {K({1}), [K({0}) EXCEPT !.tys = <<"V64">>],
   Name(I("global", <<"I64">>, <<>>, 1), "caml"),
   Name(I("global", <<"I64">>, <<>>, 1), "data"),
   Name(I("global", <<"I64">>, <<>>, 1), "func"),
   I("frame", <<"I64">>, <<>>, 1), I("load", <<"V64">>, <<>>, 1), I("undef", <<"I64">>, <<>>, 1)}

\* f(a, b) returns a value it computes, or what it returns to itself when it
\* passes on b and that value, through a call or a tail call.
Calls ==
  {[insts |-> <<s, t, Idx(I("call", <<"V64">>, <<R(1), R(2)>>, 1), 2), Op("phi", "I64", 3, 1),
                Param("I64", 2, 1), Param("I64", 2, 2),
                I("mov", <<ty>>, <<R(6)>>, 2), [Op(op, "I64", 5, 6) EXCEPT !.fn = 2],
                Idx(I(rec, <<"I64">>, <<R(7), R(8)>>, 2), 2),
                I("ret", <<>>, <<R(ret)>>, 2)>>,
    funcs |-> <<Root("C"), Local("C")>>] :
     s \in {K({1}), Name(I("global", <<"I64">>, <<>>, 1), "caml"), I("load", <<"V64">>, <<>>, 1)},
     t \in Sources, ty \in {"V64"}, rec \in {"call", "tcall"},
     ret \in {5, 8}, op \in {"select", "sub"}}

\* An OCaml function with its two runtime pointers, called directly or through
\* a pointer, and a landing pad.
Camls ==
  {[insts |-> <<Param("I64", 1, 1), Param("I64", 1, 2), Param(ty, 1, 3),
                I("pad", <<"I64", "I64", "V64">>, <<>>, 1),
                Name(Idx(I("call", <<"I64", "I64", ty>>, <<R(1), R(2), <<4, 3>>>>, 1), callee), cc),
                I(op, <<"I64">>, <<<<5, 3>>>>, 1),
                Param("V64", 2, 3),
                I("syscall", <<"I64">>, <<>>, 2),
                [Op("select", "I64", 7, 8) EXCEPT !.fn = 2],
                I("ret", <<>>, <<R(8), R(8), R(r)>>, 2),
                Name(I("tcall", <<"I64", "I64", "I64">>, <<R(8), R(8), R(7)>>, 2), "CAML"),
                Param("I64", 3, 1)>>,
    funcs |-> <<Root("CAML"), Local("CAML"), Root("C")>>] :
     ty \in {"I64", "V64"}, callee \in {0, 2}, cc \in {"CAML", "C"},
     op \in {"ext", "trunc", "mov"}, r \in {7, 9}}

MCPrograms == Loops \cup Calls \cup Camls
=============================================================================
