---------------------------- MODULE SymbolMerge ----------------------------
(***************************************************************************)
(* Merging the linked modules into one program: Linker::Merge and the      *)
(* symbol table of a Prog (Prog::insertGlobal, removeGlobalName), which    *)
(* every list of globals keeps up to date.  Each module holds at most one  *)
(* global per symbol and one reference to it; the use lists behind         *)
(* replaceAllUsesWith are the subject of UseList.                          *)
(***************************************************************************)
EXTENDS Naturals, FiniteSets

CONSTANTS
  NumModules,   \* modules are merged in the order of their numbers
  Names,        \* symbol names in the objects
  Null

ASSUME SymbolMergeAssumption ==
  /\ NumModules \in Nat \ {0}
  /\ IsFiniteSet(Names)
  /\ Null \notin (1 .. NumModules) \X Names

Modules == 1 .. NumModules
Ents    == Modules \X Names       \* globals, and the references to them

\* What a module has for a name: nothing, an undefined extern, an extern with a
\* value (an alias), or a definition of some visibility.
Forms == [kind : {"none", "extern", "alias"}, vis : {"global"}]
         \cup [kind : {"func", "atom"}, vis : {"local", "global", "weak"}]

\* A label is a name and, for a renamed local, the number after "$local".
Labels == Names \X (0 .. Cardinality(Ents))

VARIABLES
  form,     \* the input: Modules and Names to Forms
  merged,   \* globals that were handled
  st        \* the program under construction

vars == <<form, merged, st>>

IsExtern(e) == form[e].kind \in {"extern", "alias"}
HasValue(e) == form[e].kind = "alias"
IsLocal(e)  == form[e].vis = "local"
IsWeak(e)   == form[e].vis = "weak"
IsStrong(e) == form[e].kind \in {"func", "atom"} /\ form[e].vis = "global"

Present == {e \in Ents : form[e].kind # "none"}

-----------------------------------------------------------------------------
(* Prog                                                                    *)

\* e->replaceAllUsesWith(g).
ReplaceAllUses(s, e, g) ==
  [s EXCEPT !.bind = [r \in Ents |-> IF s.bind[r] = e THEN g ELSE s.bind[r]]]

\* The global is deleted, or dies with the module it stays in.
Discard(s, e) == [s EXCEPT !.gone = @ \cup {e}]

\* eraseFromParent: the list's traits take the name out of the table.
EraseFromParent(s, e) == Discard([s EXCEPT !.table[s.label[e]] = Null], e)

Enter(s, e) == [s EXCEPT !.table[s.label[e]] = e]

\* The first free "$localN", counting from one of the two static counters.
FreshNumber(s, n, from) ==
  CHOOSE k \in from .. Cardinality(Ents) :
    s.table[<<n, k>>] = Null /\ \A j \in from .. k - 1 : s.table[<<n, j>>] # Null

\* (mutant) The second counter does not look for a free name.
RenamePrevBlindly(s, prev) ==
  Enter([s EXCEPT !.label[prev] = <<prev[2], s.unique2>>, !.unique2 = @ + 1], prev)

RenameNew(s, g) ==
  LET k == FreshNumber(s, g[2], s.unique1)
  IN Enter([s EXCEPT !.label[g] = <<g[2], k>>, !.unique1 = k + 1], g)

RenamePrev(s, prev) ==
  LET k == FreshNumber(s, prev[2], s.unique2)
  IN Enter([s EXCEPT !.label[prev] = <<prev[2], k>>, !.unique2 = k + 1], prev)

\* (mutant) A weak definition is left in place.
InsertKeepsWeak(s, g) ==
  LET prev == s.table[s.label[g]]
  IN CASE prev = Null    -> Enter(s, g)
       [] IsExtern(prev) -> Enter(EraseFromParent(ReplaceAllUses(s, prev, g), prev), g)
       [] IsLocal(g)     -> RenameNew(s, g)
       [] IsLocal(prev)  -> RenamePrev(Enter(s, g), prev)
       [] IsWeak(prev)   -> Discard(ReplaceAllUses(s, g, prev), g)
       [] OTHER          -> [s EXCEPT !.fatal = TRUE]

\* (mutant) The uses of a replaced weak definition are forgotten.
InsertForgetsUses(s, g) ==
  LET prev == s.table[s.label[g]]
  IN CASE prev = Null    -> Enter(s, g)
       [] IsExtern(prev) -> Enter(EraseFromParent(ReplaceAllUses(s, prev, g), prev), g)
       [] IsLocal(g)     -> RenameNew(s, g)
       [] IsWeak(prev)   -> Enter(EraseFromParent(s, prev), g)
       [] IsLocal(prev)  -> RenamePrev(Enter(s, g), prev)
       [] OTHER          -> [s EXCEPT !.fatal = TRUE]

InsertGlobal(s, g) ==
  LET prev == s.table[s.label[g]]
  IN IF prev = Null THEN Enter(s, g)
     ELSE IF IsExtern(prev) THEN Enter(EraseFromParent(ReplaceAllUses(s, prev, g), prev), g)
     ELSE IF IsLocal(g) THEN RenameNew(s, g)
     ELSE IF IsWeak(prev) THEN Enter(EraseFromParent(ReplaceAllUses(s, prev, g), prev), g)
     ELSE IF IsLocal(prev) THEN RenamePrev(Enter(s, g), prev)
     ELSE [s EXCEPT !.fatal = TRUE]

-----------------------------------------------------------------------------
(* Linker::Merge                                                           *)

MergeExtern(s, e) ==
  LET g == s.table[s.label[e]]
  IN IF g = Null \/ IsLocal(g)
       THEN InsertGlobal(s, e)
       ELSE IF IsExtern(g) /\ (HasValue(g) => HasValue(e))
         THEN InsertGlobal(EraseFromParent(ReplaceAllUses(s, g, e), g), e)
         ELSE Discard(ReplaceAllUses(s, e, g), e)

MergeFunc(s, f) ==
  LET g == s.table[s.label[f]]
  IN IF IsWeak(f) /\ g # Null /\ ~IsExtern(g)
       THEN Discard(ReplaceAllUses(s, f, g), f)
       ELSE InsertGlobal(s, f)

\* Data segments are concatenated; each atom enters the table by itself.
MergeAtom(s, a) == InsertGlobal(s, a)

\* Within a module: externs, then functions, then data.
Stage(e) == IF IsExtern(e) THEN 1 ELSE IF form[e].kind = "func" THEN 2 ELSE 3

Before(d, e) == d[1] < e[1] \/ (d[1] = e[1] /\ Stage(d) < Stage(e))

Pending == Present \ merged

Merge(e) ==
  /\ ~st.fatal
  /\ e \in Pending
  /\ \A d \in Pending : ~Before(d, e)
  /\ st' = CASE IsExtern(e) -> MergeExtern(st, e)
             [] form[e].kind = "func" -> MergeFunc(st, e)
             [] form[e].kind = "atom" -> MergeAtom(st, e)
  /\ merged' = merged \cup {e}
  /\ UNCHANGED form

Done == (st.fatal \/ Pending = {}) /\ UNCHANGED vars

Init ==
  /\ form \in [Ents -> Forms]
  /\ merged = {}
  /\ st = [ table   |-> [l \in Labels |-> Null],
            label   |-> [e \in Ents |-> <<e[2], 0>>],
            bind    |-> [e \in Ents |-> e],
            gone    |-> {},
            unique1 |-> 1,
            unique2 |-> 1,
            fatal   |-> FALSE ]

Next == (\E e \in Ents : Merge(e)) \/ Done

Spec == Init /\ [][Next]_vars

-----------------------------------------------------------------------------
(* Properties                                                              *)

States ==
  [ table : [Labels -> Ents \cup {Null}], label : [Ents -> Labels], bind : [Ents -> Ents],
    gone : SUBSET Ents, unique1 : Nat, unique2 : Nat, fatal : BOOLEAN ]

\* The types of the program under construction; every reference is bound to a
\* global, and only globals that were handled are erased.
TypeOK ==
  /\ form \in [Ents -> Forms]
  /\ merged \subseteq Present
  /\ st \in States
  /\ st.gone \subseteq merged

Live == merged \ st.gone

\* The table and the globals agree through every replacement and renaming:
\* each global of the program is found under its own name, and each name in
\* the table belongs to a global of the program.
TableExact ==
  ~st.fatal =>
    /\ \A e \in Live : st.table[st.label[e]] = e
    /\ \A l \in Labels : st.table[l] # Null => st.table[l] \in Live /\ st.label[st.table[l]] = l

\* No reference is left on a global that was erased or left behind.
RefsAlive == \A r \in Present : st.bind[r] \notin st.gone

Rank(e) == CASE IsStrong(e) -> 3 [] IsWeak(e) -> 2 [] HasValue(e) -> 1 [] OTHER -> 0

\* Where no module has a local symbol of that name, all references to a name
\* end up on one global, and it is of the strongest kind any module offers
\* (definition, weak definition, alias, undefined), in whatever order they come.
StrongestPrevails ==
  ~st.fatal /\ Pending = {} =>
    \A n \in Names :
      LET Same == {e \in Present : e[2] = n}
      IN Same # {} /\ (\A e \in Same : ~IsLocal(e)) =>
           \E e \in Same : /\ \A r \in Same : st.bind[r] = e
                           /\ \A d \in Same : Rank(d) <= Rank(e)

=============================================================================
