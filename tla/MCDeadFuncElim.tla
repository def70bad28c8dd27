--------------------------- MODULE MCDeadFuncElim ---------------------------
(***************************************************************************)
(* Constraints of any client, and programs in which the address of a       *)
(* function lies in data, is loaded, takes one way or two through the      *)
(* program and is called.                                                  *)
(***************************************************************************)
EXTENDS DeadFuncElim

MCItems == {"func", "ext"} \X (1 .. 13)
fn == <<"func", 1>>

(* 1 holds fn, 2 and 3 point to the objects 4 and 5.                       *)
MCStarts == {[items |-> {<<1, fn>>}, nodes |-> {<<2, 4>>, <<3, 5>>}]}

(* 1, 2 and 3 are copied, loaded from and stored to in every way.          *)
MCConstraints ==
  {c \in [op : {"copy"}, from : 1 .. 3, to : 1 .. 3] : c.from # c.to}
  \cup [op : {"load"}, from : {2, 3}, to : 1 .. 3]
  \cup [op : {"store"}, from : 1 .. 3, to : {2, 3}]
  \cup {c \in [op : {"move"}, from : {2, 3}, to : {2, 3}] : c.from # c.to}

-----------------------------------------------------------------------------
I(op, args, n) == [op |-> op, args |-> args, n |-> n, sym |-> <<"none", 0>>, idx |-> 1]
Mov(kind, k) == [I("mov", <<>>, 1) EXCEPT !.sym = <<kind, k>>]
V(i) == <<i, 1>>

\* Instructions that take the value v on, given the number of instructions so
\* far: the instructions and the value that they result in.
Way(n, insts, v) == [insts |-> insts, v |-> v]

Ways == {"none", "copy", "binary", "heap", "data", "alias", "xchg", "id", "tail", "throw", "ext",
         "caml"}
Asides == {"vararg", "frame", "own", "block", "addr"}

Insts(way, n, v) ==
  CASE way = "none"   -> Way(n, <<>>, v)
    [] way = "copy"   -> Way(n, <<I("copy", <<v>>, 1)>>, V(n + 1))
    [] way = "binary" -> Way(n, <<I("const", <<>>, 1), I("binary", <<V(n + 1), v>>, 1)>>, V(n + 2))
    [] way = "heap"   -> Way(n, <<Mov("ext", 2), I("call", <<V(n + 1)>>, 1),
                                  I("store", <<V(n + 2), v>>, 0), I("load", <<V(n + 2)>>, 1)>>, V(n + 4))
    [] way = "data"   -> Way(n, <<Mov("atom", 2), I("store", <<V(n + 1), v>>, 0),
                                  I("load", <<V(n + 1)>>, 1)>>, V(n + 3))
    [] way = "alias"  -> Way(n, <<Mov("atom", 2), Mov("atom", 3), I("store", <<V(n + 1), v>>, 0),
                                  I("load", <<V(n + 2)>>, 1)>>, V(n + 4))
    [] way = "xchg"   -> Way(n, <<Mov("atom", 2), I("xchg", <<V(n + 1), v>>, 1),
                                  I("load", <<V(n + 1)>>, 1)>>, V(n + 3))
    [] way = "id"     -> Way(n, <<Mov("func", 3), I("call", <<V(n + 1), v>>, 1)>>, V(n + 2))
    [] way = "tail"   -> Way(n, <<Mov("func", 5), I("call", <<V(n + 1), v>>, 1)>>, V(n + 2))
    [] way = "throw"  -> Way(n, <<Mov("func", 6), I("call", <<V(n + 1), v>>, 0), I("pad", <<>>, 1)>>, V(n + 3))
    [] way = "ext"    -> Way(n, <<Mov("ext", 1), I("call", <<V(n + 1), v>>, 1)>>, V(n + 2))
    [] way = "caml"   -> Way(n, <<Mov("ext", 3), I("const", <<>>, 1),
                                  I("call", <<V(n + 1), v, V(n + 2)>>, 2)>>, V(n + 3))
    [] way = "vararg" -> Way(n, <<Mov("func", 10), I("call", <<V(n + 1), v, v>>, 1)>>, V(n + 2))
    [] way = "frame"  -> Way(n, <<I("frame", <<>>, 1), I("alloca", <<>>, 1), I("cmp", <<v, v>>, 1),
                                  I("store", <<V(n + 1), V(n + 3)>>, 0), I("frame", <<>>, 1),
                                  I("load", <<V(n + 5)>>, 1)>>, v)
    [] way = "own"    -> Way(n, <<Mov("func", 11), I("call", <<V(n + 1)>>, 1),
                                  I("store", <<V(n + 2), v>>, 0), I("load", <<V(n + 2)>>, 1)>>, V(n + 4))
    [] way = "block"  -> Way(n, <<Mov("block", 8)>>, v)
    [] way = "addr"   -> Way(n, <<Mov("func", 8), Mov("atom", 2), I("store", <<V(n + 2), V(n + 1)>>, 0),
                                  I("binary", <<V(n + 2), v>>, 1), I("select", <<V(n + 2), v>>, 1)>>, V(n + 5))

Ends == {"call", "apply", "indirect", "tail", "out", "stash", "clone"}
Outs == {"extern", "struct", "both"}

Uses(end, n, v) ==
  CASE end = "call"     -> <<I("call", <<v>>, 0)>>
    [] end = "apply"    -> <<Mov("func", 4), I("call", <<V(n + 1), v>>, 0)>>
    [] end = "indirect" -> <<Mov("atom", 4), I("load", <<V(n + 1)>>, 1), I("call", <<V(n + 2), v>>, 0)>>
    [] end = "tail"     -> <<I("tcall", <<v>>, 0)>>
    [] end = "out"      -> <<Mov("ext", 1), I("call", <<V(n + 1), v>>, 0)>>
    [] end = "stash"    -> <<Mov("atom", 5), I("load", <<V(n + 1)>>, 1), I("call", <<V(n + 2), v>>, 0),
                             Mov("atom", 2), I("load", <<V(n + 4)>>, 1), I("call", <<V(n + 5)>>, 0)>>
    [] end = "extern"   -> <<Mov("atom", 7), I("load", <<V(n + 1)>>, 1), I("call", <<V(n + 2), v>>, 0),
                             Mov("atom", 4), I("load", <<V(n + 4)>>, 1), I("call", <<V(n + 5)>>, 0)>>
    [] end = "struct"   -> <<Mov("ext", 2), I("call", <<V(n + 1)>>, 1), I("store", <<V(n + 2), v>>, 0),
                             Mov("ext", 1), I("call", <<V(n + 4), V(n + 2)>>, 0)>>
    [] end = "both"     -> <<Mov("atom", 4), I("load", <<V(n + 1)>>, 1), Mov("ext", 1),
                             I("call", <<V(n + 3), V(n + 2)>>, 0), I("call", <<V(n + 3), v>>, 0)>>
    [] end = "clone"    -> <<I("const", <<>>, 1), I("clone", <<v, V(n + 1)>>, 1)>>

Fetch(fetch) ==
  CASE fetch = "load" -> Way(0, <<Mov("atom", 1), I("load", <<V(1)>>, 1)>>, V(2))
    [] fetch = "deep" -> Way(0, <<Mov("atom", 6), I("load", <<V(1)>>, 1), I("load", <<V(2)>>, 1)>>, V(3))
    [] fetch = "loop" -> Way(0, <<I("const", <<>>, 1), I("phi", <<V(1), V(4)>>, 1), Mov("atom", 1),
                                  I("load", <<V(3)>>, 1), I("loop", <<>>, 0)>>, V(2))

Main(fetch, ways, end) ==
  LET Take(w, way) == LET x == Insts(way, Len(w.insts), w.v) IN Way(0, w.insts \o x.insts, x.v)
      w == FoldLeft(Take, Fetch(fetch), ways)
  IN w.insts \o Uses(end, Len(w.insts), w.v) \o <<I("ret", <<>>, 0)>>

F(params, body) == [params |-> params, vararg |-> FALSE, root |-> FALSE, body |-> body]
A == I("arg", <<>>, 1)

\* The exported function, the one that only data names, and helpers: identity,
\* application, a tail call of the identity, raising, writing to data; two
\* functions that nothing reaches, the second named by the first; one with
\* variable arguments, an allocator, and a pair of which the first is exported
\* under another name.
FuncsOf(main) ==
  << [F(0, main) EXCEPT !.root = TRUE],
     F(0, <<I("ret", <<>>, 0)>>),
     F(1, <<A, I("ret", <<V(1)>>, 0)>>),
     F(1, <<A, I("call", <<V(1)>>, 0), I("ret", <<>>, 0)>>),
     F(1, <<A, Mov("func", 3), I("tcall", <<V(2), V(1)>>, 1)>>),
     F(1, <<A, I("raise", <<V(1)>>, 0)>>),
     F(1, <<A, Mov("atom", 2), I("store", <<V(2), V(1)>>, 0), I("ret", <<>>, 0)>>),
     F(0, <<Mov("func", 9), I("call", <<V(1)>>, 0), I("ret", <<>>, 0)>>),
     F(0, <<I("ret", <<>>, 0)>>),
     [F(1, <<A, Mov("ext", 2), I("call", <<V(2)>>, 1), I("vastart", <<V(3)>>, 0), I("ret", <<V(1)>>, 0)>>)
        EXCEPT !.vararg = TRUE],
     F(0, <<Mov("atom", 8), I("ret", <<V(1)>>, 0)>>),
     F(0, <<Mov("atom", 9), I("load", <<V(1)>>, 1), I("call", <<V(2)>>, 0), I("ret", <<>>, 0)>>),
     F(0, <<I("ret", <<>>, 0)>>) >>

\* Atoms 2 and 3 lie in one object.
Atoms ==
  << [obj |-> 1, refs |-> <<<<"func", 2>>>>], [obj |-> 2, refs |-> <<>>], [obj |-> 2, refs |-> <<>>],
     [obj |-> 3, refs |-> <<<<"func", 4>>>>], [obj |-> 4, refs |-> <<<<"func", 7>>>>],
     [obj |-> 5, refs |-> <<<<"atom", 1>>>>], [obj |-> 6, refs |-> <<<<"ext", 1>>>>],
     [obj |-> 7, refs |-> <<>>], [obj |-> 8, refs |-> <<<<"func", 13>>>>] >>

Prog(main, aliases) ==
  [funcs |-> FuncsOf(main), atoms |-> Atoms, exts |-> 1 .. 3, aliases |-> aliases,
   alloc |-> [gl \in ({"func"} \X (1 .. 13)) \cup ({"ext"} \X (1 .. 3)) |->
                CASE gl = <<"ext", 2>> -> "malloc" [] gl = <<"ext", 3>> -> "caml"
                  [] gl = <<"func", 11>> -> "realloc" [] OTHER -> "none"]]

MCPrograms ==
  {Prog(Main("load", <<w>>, e), <<>>) : w \in Ways, e \in Ends \cup Outs}
  \cup {Prog(Main("deep", <<w, x>>, "call"), <<>>) : w \in Ways, x \in {"heap", "id", "throw", "ext"}}
  \cup {Prog(Main("loop", <<"none">>, e), <<12>>) : e \in Ends}
  \cup {Prog(Main("load", <<w>>, e), <<12>>) : w \in Asides, e \in {"call", "indirect", "clone"}}
=============================================================================
