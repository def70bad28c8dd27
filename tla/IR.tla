--------------------------------- MODULE IR ---------------------------------
(***************************************************************************)
(* The intermediate representation that the passes edit: a function is a   *)
(* list of blocks, a block a list of instructions, and an instruction      *)
(* refers to the instructions it uses and, for terminators and PHIs, to    *)
(* blocks.  Core code: block.cpp, func.cpp, insts/phi.cpp, value.h.        *)
(*                                                                         *)
(* A function is a record                                                  *)
(*   order  the blocks in the order of the function's list; the first is   *)
(*          the entry block                                                *)
(*   body   the instructions of each block                                 *)
(*   next   the next unused name of an instruction                         *)
(*   ch     what the running pass is about to return (changed)             *)
(*   ok     FALSE once an assertion or llvm_unreachable has been reached,   *)
(*          or a recursion of the code does not end                        *)
(* An instruction is a record: its name, its kind, the instructions it     *)
(* uses, the blocks it refers to, and a literal.                           *)
(***************************************************************************)
EXTENDS Strict

-----------------------------------------------------------------------------
(* Instructions and blocks *)

Inst(id, op, a, t, v) == [id |-> id, op |-> op, a |-> a, t |-> t, v |-> v]

Terminators == {"jmp", "jc", "switch", "ret", "trap", "call", "tcall"}

Blocks(f) == Range(f.order)
Entry(f)  == Head(f.order)
Insts(f)  == UNION {Range(f.body[b]) : b \in Blocks(f)}
Def(f, x) == CHOOSE i \in Insts(f) : i.id = x
Defined(f, x) == \E i \in Insts(f) : i.id = x

\* Inst::getParent.
Parent(f, x) ==
  CHOOSE b \in Blocks(f) : \E k \in DOMAIN f.body[b] : f.body[b][k].id = x

\* The place of an instruction in its block.
Place(f, b, x) == CHOOSE k \in DOMAIN f.body[b] : f.body[b][k].id = x

\* Block::GetTerminator, Block::successors (with repetitions).
GetTerminator(f, b) == f.body[b][Len(f.body[b])]
Successors(f, b)    == GetTerminator(f, b).t

\* Block::predecessors: one for each use of the block by a terminator, so
\* that a branch with two equal targets counts twice.
Predecessors(f, b) == {p \in Blocks(f) : b \in Range(Successors(f, p))}
PredSize(f, b) ==
  Cardinality(UNION {{<<p, k>> : k \in {i \in DOMAIN Successors(f, p) :
                                          Successors(f, p)[i] = b}} :
                       p \in Blocks(f)})

\* Block::phis.
Phis(f, b) == SelectSeq(f.body[b], LAMBDA i : i.op = "phi")

\* Block::HasAddressTaken: some mov holds the block.
HasAddressTaken(f, b) == \E i \in Insts(f) : i.op = "baddr" /\ i.t[1] = b

\* Value::users of an instruction.
Users(f, x) == {i \in Insts(f) : x \in Range(i.a)}

\* Inst::HasSideEffects and Inst::IsConstant (instructions.td): branches have
\* no effect of their own.
HasSideEffects(i) == i.op \in {"store", "ret", "trap", "call", "tcall"}
IsConstant(i)     == i.op \in {"int", "glob", "baddr", "undef", "arg"}

-----------------------------------------------------------------------------
(* Edits *)

Fail(f)    == [f EXCEPT !.ok = FALSE]
Changed(f) == [f EXCEPT !.ch = TRUE]

\* F applied to each instruction.
EditInsts(f, F(_)) ==
  [f EXCEPT !.body = [b \in DOMAIN f.body |->
                        [k \in DOMAIN f.body[b] |-> F(f.body[b][k])]]]

Subst(s, x, y) == [k \in DOMAIN s |-> IF s[k] = x THEN y ELSE s[k]]

\* Value::replaceAllUsesWith, of an instruction and of a block.
ReplaceUses(f, x, y) == EditInsts(f, LAMBDA i : [i EXCEPT !.a = Subst(i.a, x, y)])
ReplaceBlock(f, b, c) ==
  IF b = c THEN f ELSE EditInsts(f, LAMBDA i : [i EXCEPT !.t = Subst(i.t, b, c)])

\* Inst::eraseFromParent.
EraseInst(f, b, x) ==
  [f EXCEPT !.body[b] = SelectSeq(@, LAMBDA i : i.id # x)]

\* Block::AddInst before the instruction x of b; the new instruction gets the
\* next name.
AddInst(f, b, x, op, a, t, v) ==
  [f EXCEPT !.body[b] = InsertAt(@, Place(f, b, x), Inst(f.next, op, a, t, v)),
            !.next = @ + 1]

\* Block::AddPhi: in front of the block.
AddPhi(f, b, a, t) ==
  [f EXCEPT !.body[b] = <<Inst(f.next, "phi", a, t, 0)>> \o @, !.next = @ + 1]

\* A new terminator is added before the old one, takes over its uses and the
\* old one is erased.
ReplaceTerminator(f, b, op, a, t) ==
  LET old == GetTerminator(f, b).id
  IN  [f EXCEPT !.body[b] = Append(Front(@), Inst(old, op, a, t, 0))]

\* Block::eraseFromParent.
EraseBlock(f, b) ==
  [f EXCEPT !.order = SelectSeq(@, LAMBDA c : c # b),
            !.body  = [c \in DOMAIN @ \ {b} |-> @[c]]]

-----------------------------------------------------------------------------
(* PHIs (insts/phi.cpp): a holds the values, t the blocks they come from *)

HasValue(phi, b) == b \in Range(phi.t)
GetValue(phi, b) == phi.a[CHOOSE k \in DOMAIN phi.t : phi.t[k] = b]

\* PhiInst::Add overwrites the value of a block that is there already.
PhiAdd(phi, b, x) ==
  IF HasValue(phi, b)
  THEN [phi EXCEPT !.a = [k \in DOMAIN @ |-> IF phi.t[k] = b THEN x ELSE @[k]]]
  ELSE [phi EXCEPT !.a = Append(@, x), !.t = Append(@, b)]

\* PhiInst::Remove moves the last pair to the place of the removed one.
PhiRemove(phi, b) ==
  LET n == Len(phi.t)
      k == CHOOSE j \in 1 .. n : phi.t[j] = b
  IN  [phi EXCEPT !.a = Front(IF k = n THEN @ ELSE [@ EXCEPT ![k] = phi.a[n]]),
                  !.t = Front(IF k = n THEN @ ELSE [@ EXCEPT ![k] = phi.t[n]])]

\* F applied to the PHIs of a block.
EditPhis(f, b, F(_)) ==
  [f EXCEPT !.body[b] = [k \in DOMAIN @ |->
                           IF @[k].op = "phi" THEN F(@[k]) ELSE @[k]]]

\* for (auto &phi : b->phis()) phi.Remove(pred): PhiInst::Remove is
\* unreachable for a block that is not there.
RemoveEdge(f, pred, b) ==
  IF \E k \in DOMAIN Phis(f, b) : ~HasValue(Phis(f, b)[k], pred)
  THEN Fail(f)
  ELSE EditPhis(f, b, LAMBDA phi : PhiRemove(phi, pred))

-----------------------------------------------------------------------------
(* Traversals *)

\* The blocks that n steps from S reach.
RECURSIVE Reach(_, _, _)
Reach(f, S, n) ==
  IF n = 0 THEN S
  ELSE Then(S \cup UNION {Range(Successors(f, b)) : b \in S},
            LAMBDA T : IF T = S THEN S ELSE Reach(f, T, n - 1))

Reachable(f) == Reach(f, {Entry(f)}, Len(f.order))

\* Dominators (LLVM): b dominates c when no path from the entry to c avoids b.
Dominates(f, b, c) ==
  \/ b = c
  \/ c \notin Reachable(f)
  \/ b = Entry(f)
  \/ LET RECURSIVE Avoid(_, _)
         Avoid(S, n) ==
           IF n = 0 THEN S
           ELSE Then((S \cup UNION {Range(Successors(f, d)) : d \in S}) \ {b},
                     LAMBDA T : IF T = S THEN S ELSE Avoid(T, n - 1))
     IN  c \notin Avoid({Entry(f)}, Len(f.order))

\* The children of a block in the dominator tree.
DomChildren(f, b) ==
  LET dom == {c \in Reachable(f) \ {b} : Dominates(f, b, c)}
  IN  {c \in dom : \A d \in dom \ {c} : ~Dominates(f, d, c)}

\* Blocks in the order in which a depth-first search from the entry leaves
\* them (llvm::post_order, and the single-block components of scc_iterator).
PostOrder(f) ==
  LET RECURSIVE Visit(_, _)
      Visit(st, b) ==
        IF b \in st.seen THEN st
        ELSE Then(Through(Visit, [st EXCEPT !.seen = @ \cup {b}], Successors(f, b)),
                  LAMBDA done : [done EXCEPT !.out = Append(@, b)])
  IN  Visit([seen |-> {}, out |-> <<>>], Entry(f)).out

\* Func::RemoveUnreachable: first every PHI forgets the unreachable blocks,
\* then these are erased; a mov of the address of one becomes zero.
RemoveUnreachable(f) ==
  LET dead == SelectSeq(f.order, LAMBDA b : b \notin Reachable(f))
      forget(g, b) == Through(LAMBDA h, c : RemoveEdge(h, b, c), g,
                              InOrder(Range(Successors(g, b))))
      zero(i) == IF i.op = "baddr" /\ i.t[1] \in Range(dead)
                 THEN Inst(i.id, "int", <<>>, <<>>, 0) ELSE i
  IN  Then(Through(forget, f, dead), LAMBDA g :
        Then(EditInsts(g, zero), LAMBDA h :
          [h EXCEPT !.order = SelectSeq(@, LAMBDA b : b \notin Range(dead)),
                    !.body = [b \in DOMAIN @ \ Range(dead) |-> @[b]]]))
=============================================================================
