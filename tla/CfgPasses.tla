------------------------------ MODULE CfgPasses ------------------------------
(***************************************************************************)
(* The passes that edit the control-flow graph of a function:              *)
(* SimplifyCfg, block deduplication, dead code elimination, elimination of  *)
(* tail recursion and the rewriting of branches on undefined values.  Each  *)
(* operator takes a function and returns the function after the pass, with  *)
(* ch set when the pass reports a change.                                  *)
(***************************************************************************)
EXTENDS IR

CONSTANT NumParams    \* the parameters of the function

ASSUME NumParamsAssumption == NumParams \in Nat

-----------------------------------------------------------------------------
(* simplify_cfg.cpp *)

EliminateConditionalJumps(f) ==
  LET visit(g, b) ==
        LET jc == GetTerminator(g, b)
        IN  IF jc.op = "jc" /\ jc.t[1] = jc.t[2]
            THEN Changed(ReplaceTerminator(g, b, "jmp", <<>>, <<jc.t[1]>>))
            ELSE g
  IN  Through(visit, f, f.order)

\* A block of PHIs and a jump, whose PHIs only feed the PHIs of the target.
IsPhiBlock(f, b) ==
  LET body == f.body[b]
      term == GetTerminator(f, b)
  IN  /\ ~HasAddressTaken(f, b)
      /\ term.op = "jmp"
      /\ PredSize(f, term.t[1]) # 1
      /\ Len(body) > 1 /\ body[Len(body) - 1].op = "phi"
      /\ \A phi \in Range(Phis(f, b)) : \A u \in Users(f, phi.id) :
           u.op = "phi" /\ Parent(f, u.id) = term.t[1]

\* What a PHI of the continuation becomes when the block b goes away.
BypassBlock(f, b, phi) ==
  LET value == GetValue(phi, b)
      inner == {p \in Range(Phis(f, b)) : p.id = value}
      preds == InOrder(Predecessors(f, b))
      moved == IF inner = {}
               THEN Through(LAMBDA q, p : PhiAdd(q, p, value), phi, preds)
               ELSE LET ref == CHOOSE p \in inner : TRUE
                    IN  Through(LAMBDA q, k : PhiAdd(q, ref.t[k], ref.a[k]),
                                phi, [k \in DOMAIN ref.t |-> k])
  IN  PhiRemove(moved, b)

EliminatePhiBlocks(f) ==
  LET visit(g, b) ==
        IF ~IsPhiBlock(g, b) THEN g
        ELSE LET cont == GetTerminator(g, b).t[1]
             IN  Then(EditPhis(g, cont, LAMBDA phi : BypassBlock(g, b, phi)),
                      LAMBDA h : Then(ReplaceBlock(h, b, cont),
                                      LAMBDA r : Changed(EraseBlock(r, b))))
  IN  Through(visit, f, f.order)

\* FindThread follows empty blocks.  It remembers only where it started, so
\* that a cycle of empty blocks elsewhere is never left: ends is FALSE then.
RECURSIVE FindThread(_, _, _, _, _)
FindThread(f, start, prev, b, fuel) ==
  CASE fuel = 0 -> [to |-> b, phi |-> prev, ends |-> FALSE]
    [] fuel > 0 /\ b # start /\ Len(f.body[b]) = 1 /\ GetTerminator(f, b).op = "jmp"
                /\ Successors(f, b)[1] # b
         -> FindThread(f, start, b, Successors(f, b)[1], fuel - 1)
    [] OTHER -> [to |-> b, phi |-> prev, ends |-> TRUE]

Thread(f, b, target) == FindThread(f, b, b, target, Len(f.order) + 1)

\* (mutant) PHIs of the target learn of no new predecessor.
AddEdgeLost(f, b, pred, target) == f

\* AddEdge: PHIs of the target take the value of the block that was skipped.
AddEdge(f, b, pred, target) ==
  EditPhis(f, target, LAMBDA phi :
    IF ~HasValue(phi, b) /\ HasValue(phi, pred)
    THEN PhiAdd(phi, b, GetValue(phi, pred)) ELSE phi)

\* Both arms of a conditional jump end in the same block: it becomes a jump,
\* and the PHIs of the target select between the two values.
ThreadIntoSelects(f, b, cond, predT, predF, target) ==
  LET phis == Phis(f, target)
      jc   == GetTerminator(f, b).id
      select(g, phi) ==
        IF predT = predF
        THEN EditPhis(g, target, LAMBDA p :
               IF p.id = phi.id THEN PhiAdd(p, b, GetValue(p, predT)) ELSE p)
        ELSE Then(AddInst(g, b, jc, "sel",
                          <<cond, GetValue(phi, predT), GetValue(phi, predF)>>, <<>>, 0),
                  LAMBDA h : EditPhis(h, target, LAMBDA p :
                    IF p.id = phi.id THEN PhiAdd(p, b, g.next) ELSE p))
  IN  IF \E k \in DOMAIN phis : ~HasValue(phis[k], predT) \/ ~HasValue(phis[k], predF)
      THEN Fail(f)
      ELSE Then(Through(select, f, phis),
                LAMBDA g : ReplaceTerminator(g, b, "jmp", <<>>, <<target>>))

\* The conditional jump of b; T and F are where its targets lead.
ThreadCond(f, b) ==
  LET jc   == GetTerminator(f, b)
      bt   == jc.t[1]
      bf   == jc.t[2]
      T    == Thread(f, b, bt)
      F    == Thread(f, b, bf)
      cutT(g) == IF T.to # bt THEN RemoveEdge(g, b, bt) ELSE g
      cutF(g) == IF F.to # bf THEN RemoveEdge(g, b, bf) ELSE g
      addT(g) == IF T.to # bt THEN AddEdge(g, b, T.phi, T.to) ELSE g
      addF(g) == IF F.to # bf THEN AddEdge(g, b, F.phi, F.to) ELSE g
  IN  CASE ~T.ends \/ ~F.ends -> Fail(f)
        [] T.ends /\ F.ends /\ T.to = bt /\ F.to = bf -> f
        [] OTHER ->
             Then(cutF(cutT(f)), LAMBDA g : Changed(
               IF T.to # F.to
               THEN Then(addF(addT(g)), LAMBDA h :
                      ReplaceTerminator(h, b, "jc", jc.a, <<T.to, F.to>>))
               ELSE ThreadIntoSelects(g, b, jc.a[1], T.phi, F.phi, T.to)))

\* (mutant) A jump that leads nowhere else is made again.
ThreadJumpAgain(f, b) ==
  LET term == GetTerminator(f, b)
      old  == term.t[1]
      T    == Thread(f, b, old)
  IN  CASE ~T.ends -> Fail(f)
        [] T.ends /\ T.to = old -> Changed(f)
        [] OTHER ->
             Then(AddEdge(f, b, T.phi, T.to), LAMBDA g :
               Then(RemoveEdge(g, b, old), LAMBDA h :
                 Changed(ReplaceTerminator(h, b, term.op, term.a, <<T.to>>))))

\* The jump, or the call and its continuation, of b.
ThreadJump(f, b) ==
  LET term == GetTerminator(f, b)
      old  == term.t[1]
      T    == Thread(f, b, old)
  IN  CASE ~T.ends -> Fail(f)
        [] T.ends /\ T.to = old -> f
        [] OTHER ->
             Then(AddEdge(f, b, T.phi, T.to), LAMBDA g :
               Then(RemoveEdge(g, b, old), LAMBDA h :
                 Changed(ReplaceTerminator(h, b, term.op, term.a, <<T.to>>))))

ThreadJumps(f) ==
  LET visit(g, b) ==
        CASE GetTerminator(g, b).op = "jc" -> ThreadCond(g, b)
          [] GetTerminator(g, b).op \in {"jmp", "call"} -> ThreadJump(g, b)
          [] OTHER -> g
  IN  Through(visit, f, f.order)

\* A branch on a mov of a constant.  The address of a global is never zero.
FoldBranch(f, b) ==
  LET jc   == GetTerminator(f, b)
      cond == Def(f, jc.a[1])
      keep == IF cond.op = "int" /\ cond.v = 0 THEN 2 ELSE 1
  IN  IF cond.op \notin {"int", "glob", "baddr"} THEN f
      ELSE Then(RemoveEdge(f, b, jc.t[3 - keep]), LAMBDA g :
             Changed(ReplaceTerminator(g, b, "jmp", <<>>, <<jc.t[keep]>>)))

\* A switch on a constant: the edges to all other successors go, one by one.
FoldSwitch(f, b) ==
  LET sw  == GetTerminator(f, b)
      idx == Def(f, sw.a[1])
      out == idx.v >= Len(sw.t)
      cut(g, k) == IF k = idx.v + 1 THEN g ELSE RemoveEdge(g, b, sw.t[k])
  IN  IF idx.op # "int" THEN f
      ELSE Then(Through(cut, f, [k \in DOMAIN sw.t |-> k]), LAMBDA g :
             Changed(IF out THEN ReplaceTerminator(g, b, "trap", <<>>, <<>>)
                     ELSE ReplaceTerminator(g, b, "jmp", <<>>, <<sw.t[idx.v + 1]>>)))

FoldBranches(f) ==
  LET visit(g, b) ==
        CASE GetTerminator(g, b).op = "jc" -> FoldBranch(g, b)
          [] GetTerminator(g, b).op = "switch" -> FoldSwitch(g, b)
          [] OTHER -> g
  IN  Through(visit, f, f.order)

RemoveSinglePhis(f) ==
  LET visit(g, phi) ==
        LET now == Def(g, phi.id)
        IN  IF Len(now.a) # 1 THEN g
            ELSE Then(ReplaceUses(g, now.id, now.a[1]), LAMBDA h :
                   Changed(EraseInst(h, Parent(g, now.id), now.id)))
  IN  Through(visit, f, FlattenSeq([k \in DOMAIN f.order |-> Phis(f, f.order[k])]))

\* A block whose only predecessor jumps to it is appended to that predecessor.
MergeBlock(f, b) ==
  LET pred == CHOOSE p \in Predecessors(f, b) : TRUE
      phis == Phis(f, b)
      drop(g, phi) == ReplaceUses(g, phi.id, Def(g, phi.id).a[1])
  IN  IF \E k \in DOMAIN phis : phis[k].t # <<pred>> THEN Fail(f)
      ELSE Then(Through(drop, f, phis), LAMBDA g :
             Then([g EXCEPT !.body[pred] = Front(@) \o
                     SelectSeq(g.body[b], LAMBDA i : i.op # "phi")],
                  LAMBDA h : Then(ReplaceBlock(h, b, pred),
                                  LAMBDA r : Changed(EraseBlock(r, b)))))

MergeIntoPredecessor(f) ==
  LET visit(g, b) ==
        IF /\ PredSize(g, b) = 1
           /\ \A p \in Predecessors(g, b) : GetTerminator(g, p).op = "jmp"
           /\ ~HasAddressTaken(g, b)
        THEN MergeBlock(g, b) ELSE g
  IN  Through(visit, f, Tail(f.order))

SimplifyCfg(f) ==
  Then(EliminateConditionalJumps(f), LAMBDA f1 :
  Then(EliminatePhiBlocks(f1), LAMBDA f2 :
  Then(ThreadJumps(f2), LAMBDA f3 :
  Then(FoldBranches(f3), LAMBDA f4 :
  Then(RemoveUnreachable(f4), LAMBDA f5 :
  Then(RemoveSinglePhis(f5), LAMBDA f6 : MergeIntoPredecessor(f6)))))))

-----------------------------------------------------------------------------
(* dedup_block.cpp *)

\* InstCompare: operands must be defined at the same place of the two blocks;
\* an operand from elsewhere is never equal, not even to itself.
SameInst(f, b1, b2, k) ==
  LET i == f.body[b1][k]
      j == f.body[b2][k]
  IN  /\ i.op = j.op /\ i.v = j.v /\ i.t = j.t /\ Len(i.a) = Len(j.a)
      /\ \A n \in DOMAIN i.a : \E m \in 1 .. k - 1 :
           f.body[b1][m].id = i.a[n] /\ f.body[b2][m].id = j.a[n]

\* DedupBlockPass::IsEqual: the blocks match, and the PHIs that tell them
\* apart receive the same value, or corresponding ones, from both.
IsEqual(f, b1, b2) ==
  /\ Len(f.body[b1]) = Len(f.body[b2])
  /\ \A k \in DOMAIN f.body[b1] : SameInst(f, b1, b2, k)
  /\ \A phi \in {i \in Insts(f) : i.op = "phi" /\ HasValue(i, b1)} :
       /\ HasValue(phi, b2)
       /\ \/ GetValue(phi, b1) = GetValue(phi, b2)
          \/ \E k \in DOMAIN f.body[b1] :
               /\ f.body[b1][k].id = GetValue(phi, b1)
               /\ f.body[b2][k].id = GetValue(phi, b2)

\* b1 is replaced by b2.
MergeEqual(f, b1, b2) ==
  LET n == [k \in DOMAIN f.body[b1] |-> k]
      rename(g, k) == ReplaceUses(g, f.body[b1][k].id, f.body[b2][k].id)
  IN  Then(Through(LAMBDA g, c : RemoveEdge(g, b1, c), f, Successors(f, b1)),
           LAMBDA g : Then(Through(rename, g, n),
             LAMBDA h : Then(ReplaceBlock(h, b1, b2),
               LAMBDA r : Changed(EraseBlock(r, b1)))))

\* Blocks that form a component of their own, successors first; kept holds the
\* candidates seen so far, in order.
DedupBlock(f) ==
  LET single(b) == \A c \in Range(Successors(f, b)) \ {b} :
                     b \notin Reach(f, {c}, Len(f.order))
      visit(st, b) ==
        LET same == SelectSeq(st.kept, LAMBDA c : IsEqual(st.f, b, c))
        IN  IF same = <<>>
            THEN [st EXCEPT !.kept = Append(@, b)]
            ELSE [st EXCEPT !.f = MergeEqual(@, b, same[1])]
  IN  Through(visit, [f |-> f, kept |-> <<>>], SelectSeq(PostOrder(f), single)).f

-----------------------------------------------------------------------------
(* dead_code_elim.cpp *)

\* The roots of the post-dominator tree (LLVM): blocks without successors,
\* and for blocks that reach none, the last block of a search from them.
PostRoots(f) ==
  LET n == Len(f.order)
      exits == {b \in Blocks(f) : Successors(f, b) = <<>>}
      reaches(b, R) == Reach(f, {b}, n) \cap R # {}
      furthest(b) == CHOOSE c \in Reach(f, {b}, n) :
                       \A d \in Reach(f, {b}, n) : c >= d
      add(R, b) == IF reaches(b, R) THEN R ELSE R \cup {furthest(b)}
  IN  Through(add, exits, f.order)

\* The strict post-dominators of each block: all ways from b to a root pass
\* through them.
PostDominators(f) ==
  LET n == Len(f.order)
      roots == PostRoots(f)
      RECURSIVE Avoid(_, _, _)
      Avoid(d, S, k) ==
        IF k = 0 THEN S
        ELSE Then(S \cup (UNION {Range(Successors(f, c)) : c \in S} \ {d}),
                  LAMBDA T : IF T = S THEN S ELSE Avoid(d, T, k - 1))
  IN  [b \in Blocks(f) |->
         {d \in Blocks(f) \ {b} : Avoid(d, {b}, n) \cap roots = {}}]

\* The post-dominance frontier of b.
PostFrontier(f, pdom, b) ==
  {x \in Blocks(f) : /\ \E c \in Range(Successors(f, x)) : c = b \/ b \in pdom[c]
                     /\ b \notin pdom[x]}

\* One round of the work list: the operands of useful instructions, the
\* terminators of the blocks they name and of the frontier of their block.
RECURSIVE MarkUseful(_, _, _)
MarkUseful(f, front, S) ==
  LET used  == UNION {Range(i.a) : i \in S}
      named == UNION {Range(i.t) : i \in S}
      homes == {b \in Blocks(f) : Range(f.body[b]) \cap S # {}}
      ctrl  == named \cup UNION {front[b] : b \in homes}
  IN  Then(S \cup {i \in Insts(f) : i.id \in used}
             \cup {GetTerminator(f, b) : b \in ctrl},
           LAMBDA T : IF T = S THEN S ELSE MarkUseful(f, front, T))

DeadCodeElim(f) ==
  Then(PostDominators(f), LAMBDA pdom :
  Then([b \in Blocks(f) |-> PostFrontier(f, pdom, b)], LAMBDA front :
  Then(MarkUseful(f, front, {i \in Insts(f) : HasSideEffects(i)}), LAMBDA marked :
    LET useful == {b \in Blocks(f) : Range(f.body[b]) \cap marked # {}}
        \* The closest useful post-dominator, if any.
        targets(b) == {d \in pdom[b] \cap useful :
                         \A c \in (pdom[b] \cap useful) \ {d} : c \in pdom[d]}
        goto(b, i) == IF targets(b) = {}
                      THEN Inst(i.id, "trap", <<>>, <<>>, 0)
                      ELSE Inst(i.id, "jmp", <<>>, <<CHOOSE d \in targets(b) : TRUE>>, 0)
        branch(i) == i.op \in {"jmp", "jc", "switch"}
        sweep(b) == LET kept == SelectSeq(f.body[b], LAMBDA i : i \in marked \/ branch(i))
                    IN  [k \in DOMAIN kept |->
                           IF kept[k] \in marked THEN kept[k] ELSE goto(b, kept[k])]
    IN  Then([f EXCEPT !.body = [b \in DOMAIN @ |-> sweep(b)]], LAMBDA g :
          [g EXCEPT !.ch = @ \/ g.body # f.body]))))

-----------------------------------------------------------------------------
(* tail_rec_elim.cpp *)

\* Tail calls of the function to itself: the callee is a mov of its address.
SelfTailCalls(f) ==
  {i \in Insts(f) : i.op = "tcall" /\ Def(f, i.a[1]).op = "glob" /\ Def(f, i.a[1]).v = 0}

\* A new entry block holds the arguments; the old one starts with a PHI for
\* each, which takes its values from the header and from the tail calls.
AddHeader(f) ==
  LET entry  == Entry(f)
      header == Max(DOMAIN f.body) + 1
      param(g, k) ==
        Then(AddInst(g, header, Last(g.body[header]).id, "arg", <<>>, <<>>, k),
             LAMBDA h : AddPhi(h, entry, <<g.next>>, <<header>>))
  IN  Then([f EXCEPT !.order = <<header>> \o @,
                     !.body = (header :> <<Inst(f.next, "jmp", <<>>, <<entry>>, 0)>>) @@ @,
                     !.next = @ + 1],
           LAMBDA g : Through(param, g, [k \in 1 .. NumParams |-> k - 1]))

TailRecElim(f) ==
  LET calls == SelfTailCalls(f)
      olds  == {i \in Insts(f) : i.op = "arg"}
      entry == Entry(f)
      \* The PHI of parameter k: the last one was put in front.
      phi(g, k) == g.body[entry][NumParams - k].id
      loop(g, i) ==
        LET b == Parent(g, i.id)
        IN  Then([g EXCEPT !.body[entry] = [k \in DOMAIN @ |->
                    IF k > NumParams \/ NumParams - k + 2 > Len(i.a) THEN @[k]
                    ELSE PhiAdd(@[k], b, Def(g, i.id).a[NumParams - k + 2])]],
                 LAMBDA h : ReplaceTerminator(h, b, "jmp", <<>>, <<entry>>))
      forget(g, i) == Then(ReplaceUses(g, i.id, phi(g, i.v)), LAMBDA h :
                             EraseInst(h, Parent(g, i.id), i.id))
  IN  IF calls = {} THEN f
      ELSE Then(AddHeader(f), LAMBDA g :
             Then(Through(loop, g, SetToSeq(calls)), LAMBDA h :
               Changed(Through(forget, h, SetToSeq(olds)))))

-----------------------------------------------------------------------------
(* undef_elim.cpp *)

IsUndef(f, x) == Def(f, x).op = "undef"

\* A branch or a switch on an undefined value keeps one successor.
UndefBranch(f, b) ==
  LET term   == GetTerminator(f, b)
      choice == IF term.op = "jc" THEN term.t[2] ELSE term.t[1]
      cut(g, c) == IF c = choice /\ term.op = "switch" THEN g ELSE RemoveEdge(g, b, c)
      others == IF term.op = "jc" THEN <<term.t[1]>> ELSE term.t
  IN  IF term.op \in {"jc", "switch"} /\ IsUndef(f, term.a[1])
      THEN IF term.t = <<>>
           THEN Changed(ReplaceTerminator(f, b, "trap", <<>>, <<>>))
           ELSE Then(Through(cut, f, others), LAMBDA g :
                  Changed(ReplaceTerminator(g, b, "jmp", <<>>, <<choice>>)))
      ELSE f

\* Selects on an undefined condition take the second value; stores to an
\* undefined address go.
UndefInst(f, b, x) ==
  LET i == Def(f, x)
  IN  CASE i.op = "sel" /\ IsUndef(f, i.a[1]) ->
             Then(ReplaceUses(f, x, i.a[3]), LAMBDA g : Changed(EraseInst(g, b, x)))
        [] i.op = "store" /\ IsUndef(f, i.a[1]) -> Changed(EraseInst(f, b, x))
        [] OTHER -> f

UndefElim(f) ==
  LET visit(g, b) ==
        Then(Through(LAMBDA h, i : UndefInst(h, b, i.id), g, Front(g.body[b])),
             LAMBDA h : UndefBranch(h, b))
  IN  Through(visit, f, f.order)
=============================================================================
