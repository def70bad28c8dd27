--------------------------- MODULE SymbolicContext ---------------------------
(***************************************************************************)
(* The state of the symbolic pre-evaluator: the heap, the frames and the   *)
(* summary of all the values an instruction ever had                       *)
(* (src/passes/pre_eval/symbolic_context.cpp, symbolic_frame.cpp,          *)
(* symbolic_summary.cpp), and the over-approximation of code which is not  *)
(* evaluated (symbolic_approx.cpp, pointer_closure.cpp).                   *)
(*                                                                         *)
(* The state is a record                                                   *)
(*   objs  the objects, by name                                            *)
(*   frs   all the frames there ever were      act  those on the stack     *)
(*   sum   the summary                                                     *)
(*   ok    FALSE once an assertion or llvm_unreachable is reached          *)
(* and a frame                                                             *)
(*   fn, args, vals (values by instruction), cur (the block), valid        *)
(*   byp   the contexts saved for the nodes which were passed by           *)
(*   exec  the blocks executed                 cnt  how often each block   *)
(* A program P comes with the components P.dag and references P.refs of    *)
(* its functions.                                                          *)
(*                                                                         *)
(* The objects of the symbolic heap                                        *)
(* (src/passes/pre_eval/symbolic_object.cpp).                              *)
(*                                                                         *)
(* An object is a record: its size (NoSize if it is not known), alignment  *)
(* and whether it is read-only; whether its storage is accurate (one value *)
(* b[k] for each word of the object) or merged (acc = FALSE); and a, a     *)
(* value that stands for anything the object may hold.                     *)
(***************************************************************************)
EXTENDS SymbolicEval, ReferenceGraph

CONSTANT MaxBytes   \* the bytes of an object kept apart (256)

NoSize == -1

\* Clamp, and the buckets of BucketStorage: one more than the words.
Clamp(size) ==
  UMin(MaxBytes, ((size + WordBytes - 1) \div WordBytes) * WordBytes)
NumBuckets(size) == Clamp(size + WordBytes - 1) \div WordBytes

Buckets(size, v) == [k \in 1 .. NumBuckets(size) |-> v]

\* SymbolicObject::SymbolicObject.
NewObject(size, align, ro, zero) ==
  LET v == IF zero THEN Integer(0, WordBits) ELSE Scalar
  IN  [size |-> size, align |-> align, ro |-> ro, acc |-> size # NoSize,
       b |-> IF size # NoSize THEN Buckets(size, v) ELSE <<>>, a |-> v]

\* The bucket of an offset; the division rounds towards zero, and a negative
\* quotient is a large unsigned number.
Bucket(off) ==
  CASE off >= 0         -> off \div WordBytes + 1
    [] off > -WordBytes -> 1
    [] OTHER            -> 0
HasBucket(o, off) == Bucket(off) \in DOMAIN o.b

\* The bytes of a word: APInt::insertBits and extractBits.
Extract(x, k)    == (x \div 2^(k * ByteBits)) % 2^ByteBits
Insert(x, y, k)  == x + (y - Extract(x, k)) * 2^(k * ByteBits)

-----------------------------------------------------------------------------
(* Loads *)

\* BucketStorage::Read.
ReadNarrow(v, k) ==
  CASE k < 0 \/ v.k \in {"mask", "float"} -> Fail
    [] v.k \in {"undef", "scalar"}        -> v
    [] v.k = "int" -> Integer(Extract(v.i, k), ByteBits)
    [] OTHER       -> Scalar

ReadFloat(v) ==
  CASE v.k = "int"   -> Float(v.i)
    [] v.k = "value" -> Scalar
    [] OTHER         -> Fail

Read(o, off, t) ==
  LET v == o.b[Bucket(off)]
  IN  CASE t = "I8"  -> ReadNarrow(v, off - (Bucket(off) - 1) * WordBytes)
        [] t = "I64" -> IF off % WordBytes # 0 THEN Scalar ELSE v
        [] t = "F64" -> IF off % WordBytes # 0 THEN Fail ELSE ReadFloat(v)

\* SymbolicObject::Load and LoadImprecise.
Load(o, off, t) ==
  IF o.acc /\ HasBucket(o, off) THEN Read(o, off, t) ELSE Cast(o.a, t)
LoadImprecise(o, t) == Cast(o.a, t)

-----------------------------------------------------------------------------
(* Stores *)

\* BucketStorage::Write of a byte of a bucket.
WriteNarrow(old, v, k) ==
  CASE k < 0 \/ v.k \in {"undef", "float", "fail"} -> Fail
    [] v.k = "scalar" -> v
    [] v.k = "lb"     -> Scalar
    [] v.k = "mask"   -> IF old.k = "scalar" THEN Scalar ELSE Fail
    [] v.k = "int"    ->
         CASE old.k \in {"undef", "mask", "float"} -> Fail
           [] old.k = "int" -> Integer(Insert(old.i, v.i, k), old.w)
           [] OTHER         -> Scalar
    [] OTHER -> Merge(v, old)

\* BucketStorage::Write: the value of the bucket of an offset.  A word which
\* is not aligned is not written.
Write(o, off, v, t, precise) ==
  LET old == o.b[Bucket(off)]
  IN  Then(CASE t = "I8" -> WriteNarrow(old, v, off - (Bucket(off) - 1) * WordBytes)
             [] off % WordBytes # 0 -> old
             [] OTHER               -> v, LAMBDA new :
        IF new = old THEN old ELSE Assigned(IF precise THEN new ELSE Merge(new, old)))

\* BucketStorage::StorePrecise and StoreImprecise: whatever changes a bucket
\* is merged into the approximation; beyond the buckets, nothing else is.
StoreBucket(o, off, v, t, precise) ==
  LET k == Bucket(off)
  IN  Then(IF HasBucket(o, off) THEN [o.b EXCEPT ![k] = Write(o, off, v, t, precise)]
           ELSE o.b, LAMBDA new :
        IF HasBucket(o, off) /\ new = o.b THEN o
        ELSE [o EXCEPT !.b = new, !.a = Merge(@, v)])

\* MergedStorage::Store.
StoreMerged(o, v) == [o EXCEPT !.acc = FALSE, !.b = <<>>, !.a = Merge(@, v)]

\* SymbolicObject::Init, which ignores the read-only flag.
InitObject(o, off, v, t) ==
  IF o.acc THEN StoreBucket(o, off, v, t, TRUE) ELSE StoreMerged(o, v)

\* SymbolicObject::Store: a store to an exact place makes a merged object of
\* a known size accurate again.
Store(o, off, v, t) ==
  CASE o.ro                   -> o
    [] o.acc \/ o.size # NoSize ->
         StoreBucket(IF o.acc THEN o
                     ELSE [o EXCEPT !.acc = TRUE, !.b = Buckets(o.size, o.a)],
                     off, v, t, TRUE)
    [] OTHER                  -> StoreMerged(o, v)

\* SymbolicObject::StoreImprecise, at one of several offsets and anywhere.
StoreImpreciseAt(o, off, v, t) ==
  CASE o.ro  -> o
    [] o.acc -> StoreBucket(o, off, v, t, FALSE)
    [] OTHER -> StoreMerged(o, v)
StoreImprecise(o, v) == IF o.ro THEN o ELSE StoreMerged(o, v)

\* SymbolicObject::Merge.
MergeObjects(o, q) ==
  IF o.acc /\ q.acc
    THEN [o EXCEPT !.b = [k \in DOMAIN o.b |-> Merge(o.b[k], q.b[k])],
                   !.a = Merge(@, q.a)]
    ELSE StoreMerged(o, q.a)

\* An llvm_unreachable was met on the way to an object.
Broken(o) == o.a.k = "fail" \/ \E k \in DOMAIN o.b : o.b[k].k = "fail"

-----------------------------------------------------------------------------
CONSTANT MaxVisits   \* the times a block may be entered (256)

\* SymbolicHeap: the names of objects.
DataId(d)        == <<"d", d, 0>>
FrameId(f, k)    == <<"f", f, k>>
AllocId(f, site) == <<"a", f, site>>

NoBlock == 0

Crash(E)     == [E EXCEPT !.ok = FALSE]
Require(E, c) == IF c THEN E ELSE Crash(E)

\* SymbolicContext::GetActiveFrame.
ActiveIndex(E) == Last(E.act)
Active(E)      == E.frs[ActiveIndex(E)]

-----------------------------------------------------------------------------
(* Frames *)

\* SymbolicSummary::Map.
Map(sum, ref, v) ==
  (ref :> IF ref \in DOMAIN sum THEN Merge(sum[ref], v) ELSE v) @@ sum

\* SymbolicFrame::Set.
Set(E, f, ref, v) ==
  LET old == E.frs[f].vals
      new == IF ref \in DOMAIN old /\ old[ref] # v THEN Assigned(v) ELSE v
  IN  Then([E EXCEPT !.sum = Map(@, ref, v), !.frs[f].vals = (ref :> new) @@ @],
        LAMBDA G : Require(G, "fail" \notin {v.k, new.k, G.sum[ref].k}))

\* SymbolicFrame::Find: an assertion, for a value which was not computed.
Find(E, f, ref) ==
  IF ref \in DOMAIN E.frs[f].vals THEN E.frs[f].vals[ref] ELSE Fail

\* The constructor of a frame; a root frame has no function.
NewFrame(fn, block, args) ==
  [fn |-> fn, valid |-> TRUE, args |-> args, vals |-> <<>>, cur |-> block,
   byp |-> <<>>, exec |-> {block} \ {NoBlock}, cnt |-> <<>>]

\* SymbolicFrame::Leave and SymbolicContext::LeaveFrame, LeaveRoot.
LeaveFrame(E) ==
  [E EXCEPT !.frs[ActiveIndex(E)] =
              [@ EXCEPT !.valid = FALSE, !.cur = NoBlock, !.vals = <<>>,
                        !.byp = <<>>, !.cnt = <<>>],
            !.act = Front(@)]

\* SymbolicContext::EnterFrame.
EnterFrame(P, E, fn, args) ==
  LET F == P.funcs[fn]
      f == Len(E.frs) + 1
      objects == {FrameId(f, k) : k \in DOMAIN F.objs}
  IN  [E EXCEPT !.objs = [o \in objects |-> NewObject(F.objs[o[3]].size,
                                              F.objs[o[3]].align, FALSE, TRUE)] @@ @,
                !.frs  = Append(@, NewFrame(fn, EntryBlock(F), args)),
                !.act  = Append(@, f)]

EnterRoot(E, objects) ==
  LET f == Len(E.frs) + 1
  IN  [E EXCEPT !.objs = [o \in {FrameId(f, k) : k \in DOMAIN objects} |->
                            NewObject(objects[o[3]], WordBytes, FALSE, FALSE)] @@ @,
                !.frs  = Append(@, NewFrame("", NoBlock, <<>>)),
                !.act  = Append(@, f)]

\* SymbolicContext::HasFrame and GetFrames.
HasFrame(E, fn)  == \E k \in DOMAIN E.frs : E.frs[k].valid /\ E.frs[k].fn = fn
GetFrames(E, fn) == {k \in DOMAIN E.frs : E.frs[k].fn = fn}

\* No bound on the visits of a block (mutant).
NeverLimited(cnt, b) == [hit |-> FALSE, cnt |-> cnt]

\* SymbolicFrame::Limited: the counter grows whenever it is asked.
Limited(cnt, b) ==
  LET n == IF b \in DOMAIN cnt THEN cnt[b] ELSE 0
  IN  [hit |-> n > MaxVisits, cnt |-> (b :> n + 1) @@ cnt]

-----------------------------------------------------------------------------
(* Data objects *)

ItemSize(item) == CASE item[1] = "i8"    -> 1
                    [] item[1] = "space" -> item[2]
                    [] OTHER             -> WordBytes
DataSize(items) == FoldLeft(LAMBDA n, item : n + ItemSize(item), 0, items)

\* The data objects which the items of a data object refer to.
DataRefs(P, d) == {item[2] : item \in {x \in Range(P.data[d].items) : x[1] = "atom"}}

\* SymbolicContext::BuildObject, of a zeroed object: spaces are skipped.
BuildObject(data) ==
  LET ValueOf(item) ==
        CASE item[1] = "i8"   -> Integer(item[2], ByteBits)
          [] item[1] = "i64"  -> Integer(item[2], WordBits)
          [] item[1] = "atom" -> Pointer(ObjectAt(DataId(item[2]), item[3]))
          [] item[1] = "func" -> Pointer(FuncAt(item[2]))
          [] OTHER            -> Fail
      Item(s, item) ==
        [o |-> CASE item[1] = "space"   -> s.o
                 [] ValueOf(item) = Fail -> [s.o EXCEPT !.a = Fail]
                 [] OTHER -> InitObject(s.o, s.off, ValueOf(item),
                                        IF item[1] = "i8" THEN "I8" ELSE "I64"),
         off |-> s.off + ItemSize(item)]
  IN  Through(Item,
              [o |-> NewObject(DataSize(data.items), data.align, data.ro, TRUE),
               off |-> 0],
              data.items).o

\* SymbolicContext::Pointer and GetObject build an object, and those it
\* refers to, when it is first mentioned.
Mention(P, E, S) ==
  LET all == {DataId(d) : d \in Closure(LAMBDA d : DataRefs(P, d), S)}
  IN  Then([E EXCEPT !.objs = @ @@ [o \in all \ DOMAIN @ |->
                                      BuildObject(P.data[o[2]])]],
        LAMBDA G : Require(G, \A o \in all : ~Broken(G.objs[o])))

-----------------------------------------------------------------------------
(* Memory *)

\* The externs that StoreExtern and LoadExtern know, and the only one of
\* which an exact word is.
StoreRanges == {"_end", "caml__data_begin", "caml__data_end",
                "caml__code_begin", "caml__code_end", "caml__frametable"}
StoreExacts == {"_end", "_etext", "_stext", "_erodata", "_srodata",
                "caml__frametable", "caml__code_begin", "caml__code_end"}
LoadRanges  == {"_end", "caml__frametable", "caml__data_begin",
                "caml__code_begin", "caml__code_end"}
LoadExacts  == {"caml__frametable", "caml__code_begin", "caml__code_end"}

LoadExtern(e, off, t) ==
  CASE e \notin LoadExacts -> Fail
    [] e = "caml__frametable" /\ off = 0 -> LowerBoundedInteger(1, GetBitWidth(t))
    [] OTHER -> Scalar

\* The place of p in object o.
OffsetIn(p, o) == (CHOOSE x \in p.obj : x[1] = o)[2]

\* SymbolicContext::Store.
StoreTo(E, p, v, t) ==
  LET here == Objects(p.obj)
      New(o) == CASE o \in here -> IF Single(p) THEN Store(E.objs[o], OffsetIn(p, o), v, t)
                                   ELSE StoreImpreciseAt(E.objs[o], OffsetIn(p, o), v, t)
                  [] o \in p.rng -> StoreImprecise(E.objs[o], v)
                  [] OTHER       -> E.objs[o]
      known == /\ ObjectsOf(p) \subseteq DOMAIN E.objs
               /\ p.extr \subseteq StoreRanges
               /\ Objects(p.ext) \subseteq StoreExacts
               /\ Single(p) => p.ext = {} /\ p.fun = {} /\ p.blk = {} /\ p.stk = {}
               /\ p # NoAddress
  IN  IF ~known THEN Crash(E)
      ELSE Then([E EXCEPT !.objs = [o \in DOMAIN @ |-> New(o)]], LAMBDA G :
             Require(G, \A o \in ObjectsOf(p) : ~Broken(G.objs[o])))

\* SymbolicContext::Load.
LoadFrom(E, p, t) ==
  LET All(S, F(_)) == [k \in DOMAIN InAnyOrder(S) |-> F(InAnyOrder(S)[k])]
      vs == All(p.obj, LAMBDA x : Load(E.objs[x[1]], x[2], t))
              \o All(p.rng, LAMBDA o : LoadImprecise(E.objs[o], t))
              \o All(p.ext, LAMBDA x : LoadExtern(x[1], x[2], t))
              \o All(p.extr, LAMBDA e : IF e \in LoadRanges THEN Scalar ELSE Fail)
              \o (IF p.fun = {} /\ p.blk = {} /\ p.stk = {} THEN <<>> ELSE <<Scalar>>)
  IN  IF vs = <<>> \/ ~(ObjectsOf(p) \subseteq DOMAIN E.objs) THEN Fail
      ELSE Through(Merge, Head(vs), Tail(vs))

-----------------------------------------------------------------------------
(* Contexts which were saved *)

\* The copy of a context: what Merge uses of it.
Snapshot(E) == [objs |-> E.objs, vals |-> [k \in DOMAIN E.frs |-> E.frs[k].vals]]

\* Two functions joined where both are defined.
JoinBy(f, g, Join(_, _)) ==
  [x \in DOMAIN f \cup DOMAIN g |->
     IF x \notin DOMAIN g THEN f[x]
     ELSE IF x \notin DOMAIN f THEN g[x] ELSE Join(f[x], g[x])]

\* Only the values of the frames are joined, not the heap (mutant).
MergeFramesOnly(S, T) ==
  [objs |-> S.objs, vals |-> JoinBy(S.vals, T.vals, LAMBDA f, g : JoinBy(f, g, Merge))]

\* SymbolicContext::Merge and SymbolicFrame::Merge.
MergeSnapshots(S, T) ==
  [objs |-> JoinBy(S.objs, T.objs, MergeObjects),
   vals |-> JoinBy(S.vals, T.vals, LAMBDA f, g : JoinBy(f, g, Merge))]

MergeContext(E, S) ==
  Then(MergeSnapshots(Snapshot(E), S), LAMBDA M :
    Require([E EXCEPT !.objs = M.objs,
                      !.frs = [k \in DOMAIN @ |-> [@[k] EXCEPT !.vals = M.vals[k]]]],
            /\ \A o \in DOMAIN M.objs : ~Broken(M.objs[o])
            /\ \A k \in DOMAIN M.vals : \A r \in DOMAIN M.vals[k] :
                 M.vals[k][r].k # "fail"))

\* SymbolicFrame::Bypass.
Bypass(E, f, n) ==
  LET old == E.frs[f].byp
      S   == IF n \in DOMAIN old THEN MergeSnapshots(old[n], Snapshot(E))
             ELSE Snapshot(E)
  IN  [E EXCEPT !.frs[f].byp = (n :> S) @@ @]

\* SymbolicFrame::FindBypassed: the nodes between the saved contexts and n,
\* none if the result is false.
RECURSIVE FindBypassed(_, _, _)
FindBypassed(D, fr, n) ==
  CASE n \in DOMAIN fr.byp -> {n}
    [] Cardinality(n) = 1 /\ n \subseteq fr.exec -> {}
    [] OTHER ->
         Then(UNION {FindBypassed(D, fr, m) : m \in D.preds[n]}, LAMBDA S :
           IF S = {} THEN {} ELSE S \cup {n})

-----------------------------------------------------------------------------
(* Approximation *)

AllocWords == [caml_alloc1 |-> 2, caml_alloc2 |-> 3, caml_alloc3 |-> 4]
Allocations == {"malloc", "free", "realloc", "caml_alloc_shr",
                "caml_alloc_shr_aux", "caml_alloc_small_aux", "caml_allocN",
                "caml_alloc_custom_mem", "caml_gc_dispatch"} \cup DOMAIN AllocWords
IsAllocation(fn) == fn \in Allocations

\* SymbolicContext::Malloc: a site is met once in a frame.
Malloc(E, f, site, size) ==
  LET o == AllocId(f, site)
  IN  IF o \in DOMAIN E.objs THEN Crash(E)
      ELSE [E EXCEPT !.objs = (o :> NewObject(size, WordBytes, FALSE, TRUE)) @@ @]

\* What SymbolicApprox::ApproximateNodes may reach: closure.Add of the values,
\* and the references of the functions called.  The contents of the objects
\* are not followed: SymbolicObject::end is its begin.
Reaches(P, callees, anyCall, p) ==
  LET indirect == anyCall \/ \E g \in callees : P.refs[g].indirect
      funs == p.fun \cup UNION {P.refs[g].funcs : g \in callees}
  IN  Then([funs |-> funs,
            all  |-> callees \cup (IF indirect THEN Closure(LAMBDA g : P.refs[g].funcs, funs)
                                   ELSE {})], LAMBDA x :
        [funs    |-> x.funs,
         escapes |-> UNION {P.refs[g].escapes : g \in x.all},
         read    |-> UNION {P.refs[g].read : g \in x.all},
         written |-> UNION {P.refs[g].written : g \in x.all},
         raises  |-> \E g \in x.all : P.refs[g].raise])

\* SymbolicApprox::ApproximateNodes, PointerClosure::BuildTaint: everything
\* tainted may now hold anything that escapes.
ApproximateNodes(P, E, callees, anyCall, v) ==
  LET p == IF IsPointerLike(v) THEN v.p ELSE NoAddress
      Ids(S) == {DataId(d) : d \in S}
      Effect(r) ==
        LET q == AddStacks(AddFuncs(AddObjects(NoAddress, ObjectsOf(p) \cup Ids(r.escapes)),
                                    r.funs), p.stk)
        IN  [data    |-> r.escapes \cup r.read \cup r.written,
             tainted |-> ObjectsOf(p) \cup Ids(r.escapes \cup r.written),
             taint   |-> IF q = NoAddress THEN Scalar ELSE Value(q), raises |-> r.raises]
  IN  Then(Then(Reaches(P, callees, anyCall, p), Effect), LAMBDA x :
        [e |-> Then(Mention(P, E, x.data), LAMBDA G :
                 IF x.tainted = {} THEN G
                 ELSE StoreTo(G, AddObjects(NoAddress, x.tainted), x.taint, "I64")),
         v |-> v, taint |-> x.taint, raises |-> x.raises])

\* SymbolicApprox::Raise: the landing pads which the value names.
RaiseTo(P, E, v) ==
  LET blocks == IF IsPointerLike(v) THEN v.p.blk ELSE {}
      Pads(f) == {b \in Range(Targets(P.funcs[E.frs[f].fn], E.frs[f].cur)) : b \in blocks}
      places == {<<f, b>> \in Range(E.act) \X blocks :
                   E.frs[f].cur # NoBlock /\ b \in Pads(f)}
      Land(G, x) ==
        LET F    == P.funcs[E.frs[x[1]].fn]
            pads == SelectSeq(F.body[x[2]], LAMBDA i : i.op = "landing")
            refs == UNION {{Result(i, k) : k \in 1 .. i.v} : i \in Range(pads)}
        IN  Then(Through(LAMBDA H, ref : Set(H, x[1], ref, v), G, InAnyOrder(refs)),
              LAMBDA H : Bypass(H, x[1], P.dag[E.frs[x[1]].fn].of[x[2]]))
  IN  Through(Land, E, InAnyOrder(places))

\* SymbolicApprox::Resolve: a mov has its own value, even if it is not
\* executed; a copy, the one of all operands.
Resolve(P, E, f, i, v) ==
  Set(IF i.op = "atom" THEN Mention(P, E, {i.v[1]}) ELSE E, f, Result(i, 1),
      CASE i.op = "copy"   -> v
        [] i.op = "int"    -> IF i.ty = "F64" THEN Scalar ELSE Integer(i.v, GetBitWidth(i.ty))
        [] i.op = "atom"   -> Pointer(ObjectAt(DataId(i.v[1]), i.v[2]))
        [] i.op = "extern" -> Pointer(ExternAt(i.v[1], i.v[2]))
        [] i.op = "func"   -> Pointer(FuncAt(i.v))
        [] i.op = "block"  -> Pointer(BlockAt(i.v)))

Movs == {"copy", "int", "atom", "extern", "func", "block"}

\* SymbolicApprox::Approximate of nodes of a frame, after the contexts saved
\* for some of them are merged.
ApproximateBlocks(P, E, f, nodes, saved) ==
  LET F     == P.funcs[E.frs[f].fn]
      insts == UNION {Range(F.body[b]) : b \in UNION nodes}
      calls == {i \in insts : IsCall(i)}
      callees == UNION {DirectCallee(F, i) : i \in calls} \ Allocations
      anyCall == \E i \in calls : DirectCallee(F, i) = {}
      used  == UNION {Range(IF IsCall(i) THEN CallArgs(i) ELSE i.a) : i \in insts}
      Uses(G) == {G.frs[f].vals[r] : r \in used \cap DOMAIN G.frs[f].vals}
      Decayed(G) == Through(LUB, NoAddress,
                            InAnyOrder({Decay(v.p) : v \in {u \in Uses(G) : IsPointerLike(u)}}))
      Approx(G, i, v, taint) ==
        CASE i.op \in Movs                     -> Resolve(P, G, f, i, v)
          [] i.op \in {"xchg", "cmpxchg"}      -> Crash(G)
          [] OTHER -> Through(LAMBDA H, k : Set(H, f, Result(i, k), taint), G,
                              [k \in 1 .. NumRets(i) |-> k])
      order == FoldLeft(LAMBDA s, b : IF b \in UNION nodes THEN s \o F.body[b] ELSE s,
                        <<>>, F.order)
      AllUsed(G) == IF \E u \in Uses(G) : IsPointerLike(u) THEN Value(Decayed(G)) ELSE Scalar
  IN  Then(Then(Then(Then(Through(MergeContext, E, InAnyOrder(saved)), LAMBDA G :
        [e |-> G, v |-> AllUsed(G)]), LAMBDA x :
        ApproximateNodes(P, x.e, callees, anyCall, x.v)), LAMBDA r :
        [r EXCEPT !.e = Through(LAMBDA H, i : Approx(H, i, r.v, r.taint),
                                [@ EXCEPT !.frs[f].exec = @ \cup UNION nodes], order)]), LAMBDA r :
        IF r.raises THEN RaiseTo(P, r.e, r.v) ELSE r.e)

\* The nodes found to be passed by, with the contexts saved for them.
ApproximateBypassed(P, E, f, nodes) ==
  IF nodes = {} THEN E
  ELSE ApproximateBlocks(P, E, f, nodes,
         {E.frs[f].byp[n] : n \in nodes \cap DOMAIN E.frs[f].byp})

\* SymbolicApprox::ApproximateCall.
ApproximateCall(P, E, f, i) ==
  LET F == P.funcs[E.frs[f].fn]
      v == Through(LAMBDA x, r : Merge(x, Find(E, f, r)), Scalar, CallArgs(i))
  IN  IF v.k = "fail" THEN Crash(E)
      ELSE Then(Then(
             ApproximateNodes(P, E, DirectCallee(F, i), DirectCallee(F, i) = {}, v), LAMBDA r :
             [r EXCEPT !.e = Through(LAMBDA H, k : Set(H, f, Result(i, k), r.taint), @,
                                     [k \in 1 .. NumRets(i) |-> k])]), LAMBDA r :
             IF r.raises THEN RaiseTo(P, r.e, r.v) ELSE r.e)

\* The allocation functions: an object, and a pointer to it or null.
Allocate(E, f, i, size, k, pinned) ==
  LET v == Nullable(ObjectAt(AllocId(f, i.id), 0))
  IN  Set(Malloc(E, f, i.id, size), f, Result(i, k),
          IF pinned THEN Pin(v, f, Result(i, k)) ELSE v)

\* SymbolicApprox::Approximate of a call.
Approximate(P, E, f, i) ==
  LET F      == P.funcs[E.frs[f].fn]
      callee == DirectCallee(F, i)
      name   == CHOOSE g \in callee : TRUE
      args   == CallArgs(i)
      Arg(k) == Find(E, f, args[k])
      SizeOf(k, unit) == IF Arg(k).k = "int" THEN Arg(k).i * unit ELSE NoSize
      Shape(n, m) == Len(args) = n /\ NumRets(i) = m
      sub    == Def(F, args[2][1])
      count  == Def(F, sub.a[2][1])
      Two(size) == Allocate(Set(E, f, Result(i, 1), Arg(1)), f, i, size, 2, TRUE)
  IN  CASE callee = {} \/ ~IsAllocation(name) -> ApproximateCall(P, E, f, i)
        [] name \in {"free", "caml_gc_dispatch"} -> E
        [] name = "malloc" /\ Shape(1, 1) -> Allocate(E, f, i, SizeOf(1, 1), 1, TRUE)
        [] name = "realloc" /\ Shape(2, 1) -> Allocate(E, f, i, SizeOf(2, 1), 1, FALSE)
        [] name \in {"caml_alloc_small_aux", "caml_alloc_shr_aux"} /\ Len(args) >= 1
             /\ NumRets(i) = 1 -> Allocate(E, f, i, SizeOf(1, WordBytes), 1, TRUE)
        [] name = "caml_alloc_custom_mem" /\ Shape(3, 1) /\ Arg(2).k = "int" ->
             Allocate(E, f, i, SizeOf(2, 1), 1, FALSE)
        [] name \in DOMAIN AllocWords /\ Shape(2, 2) ->
             Two(AllocWords[name] * WordBytes)
        [] name = "caml_allocN" /\ Shape(2, 2) ->
             IF sub.op = "sub" /\ count.op = "int" THEN Two(count.v) ELSE Crash(E)
        [] OTHER -> Crash(E)
=============================================================================
