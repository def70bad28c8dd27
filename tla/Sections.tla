------------------------------ MODULE Sections ------------------------------
(***************************************************************************)
(* The end of Linker::Link: a section whose __start_ and __stop_ symbols   *)
(* are both referenced has its objects concatenated into one.  The two     *)
(* loops walk intrusive lists while they take nodes out of them: such a    *)
(* list is a ring through its end, so that an iterator moved on from the   *)
(* end comes to the first node that is left.                               *)
(***************************************************************************)
EXTENDS Naturals, Sequences, SequencesExt

CONSTANTS
  MaxObjects,   \* bound: objects of the section
  MaxAtoms      \* bound: atoms of each

ASSUME SectionsAssumption ==
  /\ MaxObjects \in Nat \ {0}
  /\ MaxAtoms \in Nat \ {0}

\* An atom is a pair: the object it comes from and its position in it.
Atoms == (1 .. MaxObjects) \X (1 .. MaxAtoms)

VARIABLES
  shape,    \* the input: number of atoms of each object
  data,     \* the objects of the section, as sequences of atoms
  source,   \* the object being emptied
  object,   \* the atoms of the new object
  ot,       \* iterator over data; End is the end of the list
  at,       \* iterator over source
  pc        \* "outer", "inner", "done" or "fatal"

joinvars == <<shape, data, source, object, ot, at, pc>>

End == 0

\* The iterator after i in a list.
After(list, i) ==
  IF i = Len(list) THEN End ELSE i + 1

Begin(list) == After(list, End)

\* Where iterator i stands once the element at position j # i is gone.
Shifted(i, j) == IF i > j THEN i - 1 ELSE i

-----------------------------------------------------------------------------

Shapes == UNION {[1 .. n -> 0 .. MaxAtoms] : n \in 0 .. MaxObjects}

JoinInit ==
  /\ shape \in Shapes
  /\ data = [o \in DOMAIN shape |-> [k \in 1 .. shape[o] |-> <<o, k>>]]
  /\ object = <<>> /\ source = <<>>
  /\ ot = Begin(data) /\ at = End
  /\ pc = "outer"

\* Object *source = &*ot++, and the start of the inner loop.
OpenObject ==
  /\ pc = "outer" /\ ot # End
  /\ source' = data[ot]
  /\ at' = Begin(data[ot])
  /\ pc' = "inner"
  /\ UNCHANGED <<shape, data, object, ot>>

\* Atom *atom = &*at++; the atom changes lists; then ++at.
MoveAtom ==
  /\ pc = "inner" /\ at # End
  /\ LET rest == RemoveAt(source, at)
     IN /\ source' = rest
        /\ at' = After(rest, Shifted(After(source, at), at))
  /\ object' = Append(object, source[at])
  /\ UNCHANGED <<shape, data, ot, pc>>

\* (mutant) The object that was emptied stays in the section.
EraseObjectKeeps ==
  /\ pc = "inner" /\ at = End
  /\ data' = [data EXCEPT ![ot] = source]
  /\ ot' = After(data, After(data, ot))
  /\ source' = <<>>
  /\ pc' = "outer"
  /\ UNCHANGED <<shape, object, at>>

\* source->eraseFromParent() destroys the object and what is left in it; ++ot.
EraseObject ==
  /\ pc = "inner" /\ at = End
  /\ LET rest == RemoveAt(data, ot)
     IN /\ data' = rest
        /\ ot' = After(rest, Shifted(After(data, ot), ot))
  /\ source' = <<>>
  /\ pc' = "outer"
  /\ UNCHANGED <<shape, object, at>>

\* The new object joins the section; without an atom the start symbol has
\* nothing to stand for.  The end symbol becomes an atom behind the others.
JoinFinish ==
  /\ pc = "outer" /\ ot = End
  /\ pc' = IF object = <<>> THEN "fatal" ELSE "done"
  /\ UNCHANGED <<shape, data, source, object, ot, at>>

JoinStop == pc \in {"done", "fatal"} /\ UNCHANGED joinvars

JoinNext == OpenObject \/ MoveAtom \/ EraseObject \/ JoinFinish \/ JoinStop

JoinSpec == JoinInit /\ [][JoinNext]_joinvars

-----------------------------------------------------------------------------
(* Properties                                                              *)

\* The atoms of the input.
Input == {a \in Atoms : a[1] \in DOMAIN shape /\ a[2] \in 1 .. shape[a[1]]}

\* "Concatenate all items into a single object", linker.cpp:285: when the loops
\* are over and the new object joins the section, it has every atom.  It does
\* not hold: each loop moves its iterator on twice.
Concatenated == pc = "done" => ToSet(object) = Input

=============================================================================
