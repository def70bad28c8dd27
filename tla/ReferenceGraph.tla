--------------------------- MODULE ReferenceGraph ---------------------------
(***************************************************************************)
(* What a function may touch, directly or through the functions it calls   *)
(* (src/core/analysis/reference_graph.cpp, call_graph.cpp).  The offsets   *)
(* at which objects are read and written are left out: the pre-evaluator   *)
(* only looks at the objects.  Every data object has one atom.             *)
(*                                                                         *)
(* The strongly connected components of a function, as the symbolic        *)
(* pre-evaluator walks them (src/core/dag.cpp), and the programs it        *)
(* evaluates.                                                              *)
(*                                                                         *)
(* A function is a record: its blocks in order (the entry first), the      *)
(* instructions of each block, the sizes and alignments of its frame       *)
(* objects, whether it has a va_start, and whether it is an entry point.   *)
(* An instruction is a record: its name, unique in the program; its kind;  *)
(* its type; the values it uses, <<instruction, number of the result>>;    *)
(* the blocks it names; a literal.                                         *)
(***************************************************************************)
EXTENDS Strict

Terminator(F, b) == Last(F.body[b])
Targets(F, b)    == Terminator(F, b).t
EntryBlock(F)    == Head(F.order)
FuncInsts(F)     == UNION {Range(F.body[b]) : b \in Range(F.order)}

\* GetNumRets: the values a call returns, or a landing pad receives, are given
\* by its literal.
IsCall(i)     == i.op \in {"call", "invoke", "tcall"}
IsVoid(i)     == i.op \in {"store", "out", "jmp", "jc", "switch", "ret", "raise",
                           "trap", "barrier"}
NumRets(i)    == CASE IsVoid(i)                       -> 0
                   [] IsCall(i) \/ i.op = "landing"   -> i.v
                   [] OTHER                           -> 1
Result(i, k)  == <<i.id, k>>
CallArgs(i)   == Tail(i.a)

\* What S reaches by steps of Next.
RECURSIVE Closure(_, _)
Closure(Next(_), S) ==
  Then(S \cup UNION {Next(x) : x \in S}, LAMBDA T :
    IF T = S THEN S ELSE Closure(Next, T))

-----------------------------------------------------------------------------
\* The nodes of a function: what each block reaches, and the node of a block.
\* DAGBlock::Raises is only ever set to true: a node that does not raise has
\* whatever was in its memory, junk.
Components(F, after, of, junk) ==
  LET nodes  == Range(of)
      ends(n, ops) == \E b \in n : Terminator(F, b).op \in ops
      next == [n \in nodes |-> {of[c] : c \in UNION {Range(Targets(F, b)) : b \in n}} \ {n}]
      size(n) == FoldSet(LAMBDA b, s : s + Len(F.body[b]), 0, n)
      traps(n) == ends(n, {"trap"})
      first(n, m) == CHOOSE k \in 1 .. Len(F.order) * Len(F.order) :
        LET at == FoldLeft(LAMBDA s, b : IF b \in n THEN s \o Targets(F, b) ELSE s,
                           <<>>, F.order)
        IN  /\ k <= Len(at) /\ at[k] \in m
            /\ \A j \in 1 .. k - 1 : at[j] \notin m
      all(n) == UNION {of[c] : c \in UNION {after[b] : b \in n} \cup n}
      returns == [n \in nodes |-> ends(all(n), {"ret", "tcall"})]
      len[n \in nodes] ==
        LET more == {len[m] : m \in next[n]}
        IN  size(n) + (IF more = {} THEN 0 ELSE CHOOSE x \in more :
                                                  \A y \in more : x >= y)
      before(n, x, y, l) ==
        CASE returns[x] # returns[y] -> returns[x]
          [] traps(x) # traps(y)     -> ~traps(x)
          [] l[x] # l[y]             -> l[x] > l[y]
          [] OTHER                   -> first(n, x) < first(n, y)
  IN  Then([n \in nodes |-> len[n]], LAMBDA l :
        [nodes   |-> nodes,
         of      |-> of,
         succs   |-> [n \in nodes |->
                        SetToSortSeq(next[n], LAMBDA x, y : before(n, x, y, l))],
         preds   |-> [n \in nodes |-> {m \in nodes : n \in next[m]}],
         loop    |-> [n \in nodes |-> \E b \in n : b \in after[b]],
         returns |-> returns,
         raises  |-> [n \in nodes |-> junk \/ ends(n, {"raise"})],
         traps   |-> [n \in nodes |-> traps(n)]])

\* DAGFunc::DAGFunc.
BuildDAG(F, junk) ==
  LET reach == [b \in Range(F.order) |->
                  Closure(LAMBDA c : Range(Targets(F, c)), Range(Targets(F, b)))]
      Part(after) == [b \in {EntryBlock(F)} \cup after[EntryBlock(F)] |->
                        {b} \cup {c \in after[b] : b \in after[c]}]
  IN  Then(reach, LAMBDA after : Then(Part(after), LAMBDA of : Components(F, after, of, junk)))

\* DAGBlock::Exits.
Exits(D, n) == D.returns[n] \/ D.raises[n] \/ D.traps[n]

-----------------------------------------------------------------------------
FuncOf(P, x) ==
  CHOOSE f \in DOMAIN P.funcs : \E i \in FuncInsts(P.funcs[f]) : i.id = x
Def(F, x)   == CHOOSE i \in FuncInsts(F) : i.id = x
Users(F, x) == {i \in FuncInsts(F) : \E k \in DOMAIN i.a : i.a[k][1] = x}

\* CallSite::GetDirectCallee: the callee is the result of a mov.
DirectCallee(F, i) ==
  LET d == Def(F, i.a[1][1])
  IN  IF d.op = "func" THEN {d.v} ELSE {}

\* The callees of a node of the call graph, and CallGraph::Node::IsRecursive.
Callees(P, f) ==
  UNION {DirectCallee(P.funcs[f], i) : i \in {j \in FuncInsts(P.funcs[f]) : IsCall(j)}}
IsRecursive(P, f) == f \in Callees(P, f)

-----------------------------------------------------------------------------
\* HasIndirectUses of the mov of a function: a use which is not the callee of
\* a call, through any number of movs.
HasIndirectUses(F, x) ==
  LET copies == Closure(LAMBDA y : {i.id : i \in {j \in Users(F, y) : j.op = "copy"}},
                        {x})
  IN  \E y \in copies : \E i \in Users(F, y) :
        /\ i.op # "copy"
        /\ IsCall(i) => i.a[1][1] # y

\* Classify: the users of an address, by rounds of the queue.
Passes == {"atom", "copy", "add", "sub", "phi"}
RECURSIVE Rounds(_, _, _)
Rounds(F, front, seen) ==
  IF front = {} THEN <<>>
  ELSE Then({i.id : i \in UNION {Users(F, y) : y \in {z \in front : Def(F, z).op \in Passes}}}
              \ seen, LAMBDA next : <<front>> \o Rounds(F, next, seen \cup next))

\* What the users of the mov x of an atom do: [escapes, read, written].  A
\* store is looked at once, as a user of the value that was reached first: the
\* address it stores may go unnoticed.
Classify(F, x) ==
  Then(Rounds(F, {x}, {x}), LAMBDA rounds :
    LET users == UNION {{<<n, Def(F, y)>> : y \in rounds[n]} : n \in DOMAIN rounds}
        StoresItself(s) == \E y \in rounds[s[1] - 1] : s[2].a[2][1] = y
    IN  [escapes |-> \E s \in users :
                       \/ s[2].op \notin Passes \cup {"load", "store"}
                       \/ s[2].op = "store" /\ StoresItself(s),
         read    |-> \E s \in users : s[2].op = "load",
         written |-> \E s \in users : s[2].op = "store"])

\* ExtractReferences of a function alone.
OwnReferences(P, f) ==
  LET F     == P.funcs[f]
      atoms == {i \in FuncInsts(F) : i.op = "atom"}
      funcs == {i \in FuncInsts(F) : i.op = "func"}
      Data(cs, Q(_)) == {i.v[1] : i \in {j \in atoms : Q(cs[j.id])}}
  IN  Then([x \in {i.id : i \in atoms} |-> Classify(F, x)], LAMBDA cs :
        [indirect |-> \E i \in FuncInsts(F) : IsCall(i) /\ DirectCallee(F, i) = {},
         raise    |-> \E i \in FuncInsts(F) : i.op = "raise",
         funcs    |-> {i.v : i \in {j \in funcs : HasIndirectUses(F, j.id)}},
         escapes  |-> Data(cs, LAMBDA c : c.escapes),
         read     |-> Data(cs, LAMBDA c : ~c.escapes /\ c.read),
         written  |-> Data(cs, LAMBDA c : ~c.escapes /\ c.written)])

\* ReferenceGraph::Build and Node::Merge: a function has the references of
\* all those it reaches by direct calls.
References(P) ==
  LET reach == [f \in DOMAIN P.funcs |-> Closure(LAMBDA g : Callees(P, g), {f})]
  IN  Then([f \in DOMAIN P.funcs |-> OwnReferences(P, f)], LAMBDA own :
      Then(reach, LAMBDA all :
        [f \in DOMAIN P.funcs |->
          [indirect |-> \E g \in all[f] : own[g].indirect,
           raise    |-> \E g \in all[f] : own[g].raise,
           funcs    |-> UNION {own[g].funcs : g \in all[f]},
           escapes  |-> UNION {own[g].escapes : g \in all[f]},
           read     |-> UNION {own[g].read : g \in all[f]},
           written  |-> UNION {own[g].written : g \in all[f]}]]))
=============================================================================
