------------------------------ MODULE PreMachine ------------------------------
(***************************************************************************)
(* What a program does: the machine against which the results of the       *)
(* symbolic pre-evaluator are judged.                                      *)
(*                                                                         *)
(* A value is a number n and an object o it points into, NoObject for an   *)
(* integer; as in the semantics of C, an address is known only within its  *)
(* object.  Junk is the result of anything whose meaning depends on where  *)
(* the objects are or which is undefined.  The state is a record           *)
(*   mem   the words of each object            size, align  of each object *)
(*   acts  the activations: function, number ix (the name of its frame),   *)
(*         values by instruction, the current block and the one before     *)
(*   on    FALSE once the program has stopped, or is undefined             *)
(***************************************************************************)
EXTENDS SymbolicContext

CONSTANT MaxDepth   \* the calls which may be active

NoObject  == <<"", 0, 0>>
FunName(f)   == <<"fun", f, 0>>
BlkName(b)   == <<"blk", b, 0>>
ExtName(e)   == <<"ext", e, 0>>
StkName(ix)  == <<"stk", ix, 0>>

Num(x, w)  == [n |-> Wrap(x, w), o |-> NoObject]
Ptr(o, n)  == [n |-> n, o |-> o]
Junk       == [n |-> 0, o |-> <<"junk", 0, 0>>]
IsNum(c)   == c.o = NoObject
IsJunk(c)  == c = Junk

\* A place in an object, or just after it.
Place(m, o, n) ==
  IF o \in DOMAIN m.mem /\ n \in 0 .. m.size[o] THEN Ptr(o, n) ELSE Junk

-----------------------------------------------------------------------------
(* Operations *)

\* The arithmetic of two numbers of w bits; t is the type of the result.
NumOp(i, x, y, w) ==
  LET s == Signed(x, w)
      u == Signed(y, w)
      v == GetBitWidth(i.ty)
      Flip(b) == Num(IF b THEN 1 ELSE 0, v)
  IN  CASE i.op = "add"   -> Num(x + y, w)
        [] i.op = "sub"   -> Num(x - y, w)
        [] i.op = "mul"   -> Num(x * y, w)
        [] i.op = "and"   -> Num(x & y, w)
        [] i.op = "or"    -> Num(x | y, w)
        [] i.op = "xor"   -> Num(x ^^ y, w)
        [] i.op = "oumul" -> Flip(x * y >= 2^w)
        [] i.op = "ouadd" -> Flip(x + y >= 2^w)
        [] i.op = "cmp"   -> Flip(Compare(i.v, x, y, w))
        [] i.op \in {"udiv", "urem", "sdiv"} /\ y = 0 -> Junk
        [] i.op = "udiv"  -> Num(x \div y, w)
        [] i.op = "urem"  -> Num(x % y, w)
        [] i.op = "sdiv"  -> Num(SDiv(s, u), w)
        [] y >= w         -> Junk
        [] i.op = "sll"   -> Num(x * 2^y, w)
        [] i.op = "srl"   -> Num(x \div 2^y, w)
        [] i.op = "sra"   -> Num(s \div 2^y, w)

\* Whether two addresses are equal is known; their order, within an object.
PtrCmp(cc, x, y, t) ==
  LET Flip(b) == Num(IF b THEN 1 ELSE 0, GetBitWidth(t))
      null == \E c \in {x, y} : IsNum(c) /\ c.n = 0
  IN  CASE cc \in {"EQ", "NE"} /\ (null \/ ~(IsNum(x) \/ IsNum(y))) ->
             Flip((x = y) = (cc = "EQ"))
        [] x.o = y.o -> Flip(Compare(cc, x.n, y.n, WordBits))
        [] OTHER     -> Junk

\* An operation on an address: it may move within its object, and its low bits
\* are known up to the alignment.
PtrOp(m, i, x, y) ==
  LET low(c) == x.o \in DOMAIN m.align /\ m.align[x.o] % (c + 1) = 0
  IN  CASE i.op = "cmp" -> PtrCmp(i.v, x, y, i.ty)
        [] i.op = "add" /\ IsNum(y) -> Place(m, x.o, x.n + Signed(y.n, WordBits))
        [] i.op = "add" /\ IsNum(x) -> Place(m, y.o, y.n + Signed(x.n, WordBits))
        [] i.op = "sub" /\ IsNum(y) -> Place(m, x.o, x.n - Signed(y.n, WordBits))
        [] i.op = "sub" /\ x.o = y.o -> Num(x.n - y.n, WordBits)
        [] i.op = "and" /\ IsNum(y) /\ low(y.n) -> Num(x.n & y.n, WordBits)
        [] i.op = "or" /\ IsNum(y) /\ low(y.n) -> Place(m, x.o, x.n | y.n)
        [] OTHER -> Junk

BinaryOp(m, i, x, y, w) ==
  CASE IsJunk(x) \/ IsJunk(y) -> Junk
    [] IsNum(x) /\ IsNum(y)   -> NumOp(i, x.n, y.n, w)
    [] OTHER                  -> PtrOp(m, i, x, y)

\* The address of an object is one more than a multiple of its alignment.
UnaryOp(m, i, x, w) ==
  LET v == GetBitWidth(i.ty)
  IN  CASE IsJunk(x) -> Junk
        [] ~IsNum(x) -> IF i.op = "trunc" /\ x.o \in DOMAIN m.align
                          THEN Num(m.align[x.o] + x.n, v) ELSE Junk
        [] i.op = "sext" -> Num(Signed(x.n, w), v)
        [] OTHER -> Num(x.n, v)

-----------------------------------------------------------------------------
(* Memory *)

WordAt(m, c, t) ==
  /\ c.o \in DOMAIN m.mem
  /\ c.n \in 0 .. m.size[c.o] - GetSize(t)
  /\ t # "I8" => c.n % WordBytes = 0

LoadWord(m, c, t) ==
  LET x == m.mem[c.o][c.n \div WordBytes + 1]
  IN  CASE t # "I8" -> x
        [] IsNum(x) -> Num(Extract(x.n, c.n % WordBytes), ByteBits)
        [] OTHER    -> Junk

StoreWord(m, c, x, t) ==
  LET k   == c.n \div WordBytes + 1
      old == m.mem[c.o][k]
      new == CASE t # "I8"                -> x
               [] IsNum(old) /\ IsNum(x)  ->
                    Num(Insert(old.n, x.n, c.n % WordBytes), WordBits)
               [] OTHER                   -> Junk
  IN  [m EXCEPT !.mem[c.o][k] = new]

\* A new object, of junk.
AddObject(m, o, size, align, words) ==
  [m EXCEPT !.mem = (o :> words) @@ @, !.size = (o :> size) @@ @,
            !.align = (o :> align) @@ @]
Words(size, x) == [k \in 1 .. (size + WordBytes - 1) \div WordBytes |-> x]

\* The words of a data object.
ItemWords(items) ==
  LET Item(s, item) ==
        LET k == s.off \div WordBytes + 1
        IN  [off |-> s.off + ItemSize(item),
             ws  |-> CASE item[1] = "i8" ->
                            [s.ws EXCEPT ![k].n = Insert(@, item[2], s.off % WordBytes)]
                       [] item[1] = "i64"  -> [s.ws EXCEPT ![k] = Num(item[2], WordBits)]
                       [] item[1] = "atom" ->
                            [s.ws EXCEPT ![k] = Ptr(DataId(item[2]), item[3])]
                       [] item[1] = "func" -> [s.ws EXCEPT ![k] = Ptr(FunName(item[2]), 0)]
                       [] OTHER -> s.ws]
  IN  FoldLeft(Item, [off |-> 0, ws |-> Words(DataSize(items), Num(0, WordBits))], items).ws

-----------------------------------------------------------------------------
(* Control *)

Stop(m) == [m EXCEPT !.on = FALSE]
Top(m)  == Last(m.acts)

\* The evaluator's name of the frame of a function, if it has just one and the
\* function is entered for the first time; otherwise, one of its own.
FrameOf(m, E, fn) ==
  LET known == GetFrames(E, fn)
  IN  IF Cardinality(known) = 1 /\ fn \notin m.seen
        THEN CHOOSE k \in known : TRUE ELSE -(m.fresh + 1)

EnterFunction(P, E, m, fn, args) ==
  LET F  == P.funcs[fn]
      ix == FrameOf(m, E, fn)
      Obj(G, k) == AddObject(G, FrameId(ix, k), F.objs[k].size, F.objs[k].align,
                             Words(F.objs[k].size, Junk))
      enter(G) == [G EXCEPT !.seen = @ \cup {fn}, !.fresh = @ + 1,
                            !.acts = Append(@, [fn |-> fn, ix |-> ix, args |-> args,
                                                vals |-> <<>>, cur |-> EntryBlock(F),
                                                from |-> NoBlock])]
  IN  Through(Obj, enter(m), [k \in DOMAIN F.objs |-> k])

\* Go to a block: its PHIs take their values at once.
GoTo(P, m, b) ==
  LET a    == Top(m)
      phis == SelectSeq(P.funcs[a.fn].body[b], LAMBDA i : i.op = "phi")
      from(i) == i.a[CHOOSE k \in DOMAIN i.a : i.t[k] = a.cur]
      new  == FoldLeft(LAMBDA f, i : (Result(i, 1) :> a.vals[from(i)]) @@ f, a.vals, phis)
  IN  [m EXCEPT !.acts[Len(m.acts)] = [a EXCEPT !.vals = new, !.cur = b, !.from = a.cur]]

SetVal(m, ref, x) == [m EXCEPT !.acts[Len(m.acts)].vals = (ref :> x) @@ @]
SetVals(m, i, xs) ==
  Through(LAMBDA G, k : SetVal(G, Result(i, k), IF k \in DOMAIN xs THEN xs[k] ELSE Junk),
          m, [k \in 1 .. NumRets(i) |-> k])

\* One instruction; in is the answer of the world.
Execute(P, m, i, in) ==
  LET a      == Top(m)
      F      == P.funcs[a.fn]
      Arg(k) == a.vals[i.a[k]]
      width  == GetBitWidth(Def(F, i.a[1][1]).ty)
      Is(x)  == SetVal(m, Result(i, 1), x)
      type   == Def(F, i.a[2][1]).ty
  IN  CASE i.op \in {"phi", "landing", "out", "barrier"} -> m
        [] i.op = "arg"    -> Is(a.args[i.v])
        [] i.op = "undef"  -> Is(Junk)
        [] i.op = "int"    -> Is(Num(i.v, GetBitWidth(i.ty)))
        [] i.op = "func"   -> Is(Ptr(FunName(i.v), 0))
        [] i.op = "block"  -> Is(Ptr(BlkName(i.v), 0))
        [] i.op = "extern" -> Is(Ptr(ExtName(i.v[1]), i.v[2]))
        [] i.op = "atom"   -> Is(Place(m, DataId(i.v[1]), i.v[2]))
        [] i.op = "copy"   -> Is(Arg(1))
        [] i.op = "frame"  -> Is(Place(m, FrameId(a.ix, i.v[1]), i.v[2]))
        [] i.op = "get"    -> Is(Ptr(StkName(a.ix), 0))
        [] i.op = "rdtsc"  -> Is(Num(in, GetBitWidth(i.ty)))
        [] i.op = "load"   ->
             IF WordAt(m, Arg(1), i.ty) THEN Is(LoadWord(m, Arg(1), i.ty)) ELSE Stop(m)
        [] i.op = "store"  ->
             IF /\ WordAt(m, Arg(1), type)
                /\ Arg(1).o[1] = "d" => ~P.data[Arg(1).o[2]].ro
               THEN StoreWord(m, Arg(1), Arg(2), type) ELSE Stop(m)
        [] i.op = "select" ->
             CASE IsJunk(Arg(1)) -> Is(Junk)
               [] IsNum(Arg(1)) /\ Arg(1).n = 0 -> Is(Arg(3))
               [] OTHER -> Is(Arg(2))
        [] i.op \in UnaryOps  -> Is(UnaryOp(m, i, Arg(1), width))
        [] i.op \in BinaryOps -> Is(BinaryOp(m, i, Arg(1), Arg(2), width))

\* The call of malloc: an object, or null.
Alloc(P, m, i, args, null) ==
  LET o == AllocId(Top(m).ix, i.id)
      x == IF null THEN Num(0, WordBits) ELSE Ptr(o, 0)
      n == args[1].n
  IN  IF o \in DOMAIN m.mem \/ ~IsNum(args[1]) THEN Stop(m)
      ELSE Then(AddObject(m, o, n, WordBytes, Words(n, Junk)), LAMBDA G :
             GoTo(P, SetVals(G, i, <<x>>), i.t[1]))

PopFrame(m) == [m EXCEPT !.acts = Front(@)]

\* The call of a function; a tail call takes the place of its caller.
CallFunction(P, E, m, i, null) ==
  LET callee == Top(m).vals[i.a[1]]
      args   == [k \in DOMAIN CallArgs(i) |-> Top(m).vals[CallArgs(i)[k]]]
      fn     == callee.o[2]
  IN  CASE callee.o[1] # "fun" \/ Len(m.acts) = MaxDepth -> Stop(m)
        [] fn = "malloc"       -> Alloc(P, m, i, args, null)
        [] fn = "free"         -> GoTo(P, m, i.t[1])
        [] i.op = "tcall"      -> EnterFunction(P, E, PopFrame(m), fn, args)
        [] OTHER               -> EnterFunction(P, E, m, fn, args)

\* The values returned are those of the call.
ReturnTo(P, m, xs) ==
  LET i == Terminator(P.funcs[Top(m).fn], Top(m).cur)
  IN  GoTo(P, SetVals(m, i, xs), i.t[1])

\* The end of the program, in its last block.
Exit(m) == Stop([m EXCEPT !.acts[Len(m.acts)].from = m.acts[Len(m.acts)].cur])

\* The landing pad of the first invoke up the stack receives the values.
RECURSIVE UnwindTo(_, _, _)
UnwindTo(P, m, xs) ==
  IF m.acts = <<>> THEN Stop(m)
  ELSE LET F == P.funcs[Top(m).fn]
           i == Terminator(F, Top(m).cur)
           pads == SelectSeq(F.body[i.t[2]], LAMBDA j : j.op = "landing")
       IN  IF i.op # "invoke" THEN UnwindTo(P, PopFrame(m), xs)
           ELSE Through(LAMBDA G, j : SetVals(G, j, xs), GoTo(P, m, i.t[2]), pads)

\* A terminator.
Leave(P, E, m, i, null) ==
  LET x(k) == Top(m).vals[i.a[k]]
      xs   == [k \in DOMAIN i.a |-> x(k)]
  IN  CASE i.op = "jmp" -> GoTo(P, m, i.t[1])
        [] i.op = "jc" ->
             IF IsJunk(x(1)) THEN Stop(m)
             ELSE GoTo(P, m, i.t[IF x(1) = Num(0, 1) THEN 2 ELSE 1])
        [] i.op = "switch" ->
             IF IsNum(x(1)) /\ x(1).n < Len(i.t) THEN GoTo(P, m, i.t[x(1).n + 1])
             ELSE Stop(m)
        [] IsCall(i) -> CallFunction(P, E, m, i, null)
        [] i.op = "ret"   ->
             IF Len(m.acts) = 1 THEN Exit(m) ELSE ReturnTo(P, PopFrame(m), xs)
        [] i.op = "raise" -> UnwindTo(P, PopFrame(m), xs)
        [] i.op = "trap"  -> Stop(m)

\* One block of the program.
ExecuteBlock(P, E, m, in, null) ==
  LET s == P.funcs[Top(m).fn].body[Top(m).cur]
  IN  Then(Through(LAMBDA G, i : IF G.on THEN Execute(P, G, i, in) ELSE G, m, Front(s)),
        LAMBDA G : IF G.on THEN Leave(P, E, G, Last(s), null) ELSE G)

\* The start of the program: the data objects, and the record of the boot
\* loader if it is asked for.
Start(P, E) ==
  LET m0 == [mem |-> <<>>, size |-> <<>>, align |-> <<>>, acts |-> <<>>,
             seen |-> {}, fresh |-> 0, on |-> TRUE]
      Data(m, d) == AddObject(m, DataId(d), DataSize(P.data[d].items), P.data[d].align,
                              ItemWords(P.data[d].items))
      At(k)  == Ptr(FrameId(1, k), 0)
      zero   == Num(0, WordBits)
      record == <<zero, zero, zero, At(2), At(3)>>
      Boot1(m) == AddObject(AddObject(AddObject(m,
                    FrameId(1, 1), 5 * WordBytes, WordBytes, record),
                    FrameId(1, 2), WordBytes, WordBytes, <<zero>>),
                    FrameId(1, 3), WordBytes, WordBytes, <<zero>>)
      data   == Through(Data, m0, InAnyOrder(DOMAIN P.data))
  IN  IF P.funcs[P.start].params = 0 THEN EnterFunction(P, E, data, P.start, <<>>)
      ELSE EnterFunction(P, E, Boot1(data), P.start, <<At(1)>>)

-----------------------------------------------------------------------------
\* A value of the evaluator stands for a value of the program.
Points(p, c) ==
  CASE c.o[1] = "fun" -> c.o[2] \in p.fun
    [] c.o[1] = "blk" -> c.o[2] \in p.blk
    [] c.o[1] = "ext" -> <<c.o[2], c.n>> \in p.ext \/ c.o[2] \in p.extr
    [] c.o[1] = "stk" -> c.o[2] \in p.stk
    [] OTHER          -> Covers(p, c.o, c.n)

Describes(v, c) ==
  CASE IsJunk(c)        -> TRUE
    [] v.k = "undef"    -> FALSE
    [] v.k = "scalar"   -> IsNum(c)
    [] v.k \in {"int", "float"} -> IsNum(c) /\ c.n = v.i
    [] v.k = "lb"       -> IsNum(c) /\ IsNonNegative(c.n, v.w) /\ c.n >= v.i
    [] v.k = "mask"     -> IsNum(c) /\ (c.n ^^ v.i) & v.m = 0
    [] v.k = "ptr"      -> ~IsNum(c) /\ Points(v.p, c)
    [] v.k = "nullable" -> c = Num(0, WordBits) \/ (~IsNum(c) /\ Points(v.p, c))
    [] v.k = "value"    -> IsNum(c) \/ Points(v.p, c)
=============================================================================
