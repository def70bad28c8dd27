------------------------------ MODULE UseList ------------------------------
(***************************************************************************)
(* The def-use chains of the IR (core/use, core/user, core/value, and the  *)
(* overloads of core/inst).  Every Value heads an intrusive doubly-linked  *)
(* list of the Use slots that refer to it; every User owns an array of Use *)
(* slots.  All passes edit the program through these few operations, and   *)
(* many of them iterate over a list while they edit it.                    *)
(*                                                                         *)
(* Loops of the source (replaceAllUsesWith, resizeUses, ~User) take one    *)
(* step per iteration; "job" holds the local variables of the running loop *)
(* and no other operation starts before it ends.                           *)
(***************************************************************************)
EXTENDS Naturals, Sequences, Functions

CONSTANTS
  Values,     \* addresses of Value objects
  Users,      \* those that are also User objects
  Tags,       \* odd "pointers": virtual registers the parser stores in a Use
  Slots,      \* addresses of Use objects
  Null,       \* nullptr
  MaxIndex,   \* largest index of a returned sub-value (Ref::Index)
  MaxOps      \* bound: longest operand array of a user

ASSUME UseListAssumption ==
  /\ Users \subseteq Values
  /\ Tags \cap Values = {}
  /\ Null \notin Values \cup Tags \cup Slots
  /\ MaxIndex \in Nat
  /\ MaxOps \in Nat

VARIABLES
  heap,    \* the fields of all Use slots and the heads of all use lists
  user,    \* Use::user_, Null for memory that holds no Use
  ops,     \* User::uses_ and numOps_: the operand array of each user
  alive,   \* values constructed and not yet destroyed
  job      \* the loop that is running, or Idle

vars == <<heap, user, ops, alive, job>>

Indices == 0 .. MaxIndex

\* What a Use may hold: a value, a tagged virtual register, or null.
Targets == Values \cup Tags \cup {Null}

Heap == [ val   : [Slots -> Targets],          \* Use::val_ (the pointer)
          idx   : [Slots -> Indices],          \* Use::val_ (the index)
          next  : [Slots -> Slots \cup {Null}],
          prev  : [Slots -> Slots \cup {Null}],
          users : [Values -> Slots \cup {Null}] ]   \* Value::users_

Refs == [to : Targets, at : Indices]

Idle == [op |-> "idle"]

Resizes  == [op : {"resize"}, usr : Users, k : Nat \ {0}, fresh : Seq(Slots)]
Replaces == [op : {"replace"}, old : Values, repl : [Indices -> Refs],
             it : Slots \cup {Null}, dying : BOOLEAN]
Deletes  == [op : {"delete"}, old : Values, k : Nat \ {0}]

-----------------------------------------------------------------------------
(* Use                                                                     *)

\* (mutant) Remove that forgets to advance the head of the list.
RemoveKeepsHead(h, s) ==
  IF h.val[s] \notin Values
    THEN h
    ELSE [ val   |-> h.val,
           idx   |-> h.idx,
           next  |-> [x \in Slots |-> IF x = s THEN Null ELSE
                                      IF x = h.prev[s] THEN h.next[s] ELSE h.next[x]],
           prev  |-> [x \in Slots |-> IF x = s THEN Null ELSE
                                      IF x = h.next[s] THEN h.prev[s] ELSE h.prev[x]],
           users |-> h.users ]

\* Unlinks a slot; a null or tagged slot is on no list.
Remove(h, s) ==
  IF h.val[s] \notin Values
    THEN h
    ELSE LET n == h.next[s]
             p == h.prev[s]
         IN [ val   |-> h.val,
              idx   |-> h.idx,
              next  |-> [x \in Slots |-> IF x = s THEN Null ELSE
                                         IF x = p THEN n ELSE h.next[x]],
              prev  |-> [x \in Slots |-> IF x = s THEN Null ELSE
                                         IF x = n THEN p ELSE h.prev[x]],
              users |-> [v \in Values |-> IF v = h.val[s] /\ h.users[v] = s
                                            THEN n ELSE h.users[v]] ]

\* Points an unlinked slot at t and links it at the head of t's list.
Add(h, s, t, i) ==
  LET linked == t \in Values
  IN [ val   |-> [h.val EXCEPT ![s] = t],
       idx   |-> [h.idx EXCEPT ![s] = i],
       next  |-> IF linked THEN [h.next EXCEPT ![s] = h.users[t]] ELSE h.next,
       prev  |-> IF linked
                   THEN [x \in Slots |-> IF x = s THEN Null ELSE
                                         IF x = h.users[t] THEN s ELSE h.prev[x]]
                   ELSE h.prev,
       users |-> IF linked THEN [h.users EXCEPT ![t] = s] ELSE h.users ]

\* Use::operator=: Remove, overwrite val_, Add.
Assign(h, s, t, i) == Add(Remove(h, s), s, t, i)

-----------------------------------------------------------------------------
(* User                                                                    *)

Free == {s \in Slots : user[s] = Null}

\* A freshly allocated array of n distinct slots.
Arrays(n) == Injection(1 .. n, Free)

\* Destroyed Uses leave memory that holds no Use.
Release(h, S) ==
  [ val   |-> [s \in Slots |-> IF s \in S THEN Null ELSE h.val[s]],
    idx   |-> [s \in Slots |-> IF s \in S THEN 0 ELSE h.idx[s]],
    next  |-> h.next,
    prev  |-> h.prev,
    users |-> h.users ]

\* Value::Value, and User::User with its numOps null operands.
New(v, q) ==
  /\ job = Idle
  /\ v \notin alive
  /\ v \notin Users => q = <<>>
  /\ alive' = alive \cup {v}
  /\ user' = [s \in Slots |-> IF s \in Range(q) THEN v ELSE user[s]]
  /\ ops' = IF v \in Users THEN [ops EXCEPT ![v] = q] ELSE ops
  /\ UNCHANGED <<heap, job>>

\* User::Set: stores a reference in operand k through Use::operator=.
Set(u, k, t, i) ==
  /\ job = Idle
  /\ u \in alive
  /\ k \in DOMAIN ops[u]
  /\ heap' = Assign(heap, ops[u][k], t, i)
  /\ UNCHANGED <<user, ops, alive, job>>

\* User::resizeUses: allocates the new array.
ResizeBegin(u, q) ==
  /\ job = Idle
  /\ u \in alive
  /\ job' = [op |-> "resize", usr |-> u, k |-> 1, fresh |-> q]
  /\ user' = [s \in Slots |-> IF s \in Range(q) THEN u ELSE user[s]]
  /\ UNCHANGED <<heap, ops, alive>>

\* One iteration of the transfer loop: the old slot is unlinked and, if it
\* still fits, a Use of the same reference is constructed in the new array.
ResizeStep ==
  /\ job.op = "resize"
  /\ job.k <= Len(ops[job.usr])
  /\ LET s == ops[job.usr][job.k]
         h == Release(Remove(heap, s), {s})
     IN /\ heap' = IF job.k <= Len(job.fresh)
                     THEN Add(h, job.fresh[job.k], heap.val[s], heap.idx[s])
                     ELSE h
        /\ user' = [user EXCEPT ![s] = Null]
  /\ job' = [job EXCEPT !.k = @ + 1]
  /\ UNCHANGED <<ops, alive>>

\* Switches to the new array.
ResizeEnd ==
  /\ job.op = "resize"
  /\ job.k > Len(ops[job.usr])
  /\ ops' = [ops EXCEPT ![job.usr] = job.fresh]
  /\ job' = Idle
  /\ UNCHANGED <<heap, user, alive>>

-----------------------------------------------------------------------------
(* Value and Inst: replaceAllUsesWith and the destructors                  *)

\* The reference each overload stores in place of sub-value i.
ReplaceByRef(t, k)    == [i \in Indices |-> [to |-> t, at |-> k]]
ReplaceKeepIndex(t)   == [i \in Indices |-> [to |-> t, at |-> i]]
ReplaceByArray(v, S, t, k) ==
  [i \in Indices |-> IF i \in S THEN [to |-> t, at |-> k] ELSE [to |-> v, at |-> i]]

\* it = use_begin().
ReplaceBegin(v, repl) ==
  /\ job = Idle
  /\ v \in alive
  /\ job' = [op |-> "replace", old |-> v, repl |-> repl,
             it |-> heap.users[v], dying |-> FALSE]
  /\ UNCHANGED <<heap, user, ops, alive>>

\* (mutant) use = *it; use = v; ++it.
ReplaceStepLate ==
  /\ job.op = "replace"
  /\ job.it # Null
  /\ LET r == job.repl[heap.idx[job.it]]
     IN heap' = Assign(heap, job.it, r.to, r.at)
  /\ job' = [job EXCEPT !.it = heap'.next[job.it]]
  /\ UNCHANGED <<user, ops, alive>>

\* use = *it; ++it; use = v.
ReplaceStep ==
  /\ job.op = "replace"
  /\ job.it # Null
  /\ LET r == job.repl[heap.idx[job.it]]
     IN heap' = Assign(heap, job.it, r.to, r.at)
  /\ job' = [job EXCEPT !.it = heap.next[job.it]]
  /\ UNCHANGED <<user, ops, alive>>

ReplaceEnd ==
  /\ job.op = "replace"
  /\ job.it = Null
  /\ alive' = IF job.dying THEN alive \ {job.old} ELSE alive
  /\ job' = Idle
  /\ UNCHANGED <<heap, user, ops>>

\* (mutant) The loop over the operands starts one too early.
DeleteBeginEarly(v) ==
  /\ job = Idle
  /\ v \in alive
  /\ job' = [op |-> "delete", old |-> v, k |-> 0]
  /\ UNCHANGED <<heap, user, ops, alive>>

\* ~User runs first, for a value that is a user.
DeleteBegin(v) ==
  /\ job = Idle
  /\ v \in alive
  /\ job' = [op |-> "delete", old |-> v, k |-> 1]
  /\ UNCHANGED <<heap, user, ops, alive>>

\* ~User: uses_[i] = nullptr.
DeleteStep ==
  /\ job.op = "delete"
  /\ job.old \in Users
  /\ job.k <= Len(ops[job.old])
  /\ heap' = Assign(heap, ops[job.old][job.k], Null, 0)
  /\ job' = [job EXCEPT !.k = @ + 1]
  /\ UNCHANGED <<user, ops, alive>>

\* (mutant) ~Value without replaceAllUsesWith(nullptr).
DeleteEndNoReplace ==
  /\ job.op = "delete"
  /\ job.old \in Users => job.k > Len(ops[job.old])
  /\ user' = [s \in Slots |-> IF user[s] = job.old THEN Null ELSE user[s]]
  /\ ops' = IF job.old \in Users THEN [ops EXCEPT ![job.old] = <<>>] ELSE ops
  /\ job' = Idle
  /\ alive' = alive \ {job.old}
  /\ UNCHANGED heap

\* free(uses_), then ~Value: replaceAllUsesWith(nullptr).
DeleteEnd ==
  /\ job.op = "delete"
  /\ job.old \in Users => job.k > Len(ops[job.old])
  /\ user' = [s \in Slots |-> IF user[s] = job.old THEN Null ELSE user[s]]
  /\ ops' = IF job.old \in Users THEN [ops EXCEPT ![job.old] = <<>>] ELSE ops
  /\ job' = [op |-> "replace", old |-> job.old, repl |-> ReplaceByRef(Null, 0),
             it |-> heap.users[job.old], dying |-> TRUE]
  /\ UNCHANGED <<heap, alive>>

-----------------------------------------------------------------------------

Init ==
  /\ heap = [ val   |-> [s \in Slots |-> Null],
              idx   |-> [s \in Slots |-> 0],
              next  |-> [s \in Slots |-> Null],
              prev  |-> [s \in Slots |-> Null],
              users |-> [v \in Values |-> Null] ]
  /\ user = [s \in Slots |-> Null]
  /\ ops = [u \in Users |-> <<>>]
  /\ alive = {}
  /\ job = Idle

\* Callers store references to values that exist.
Storable == alive \cup Tags \cup {Null}

Next ==
  \/ \E v \in Values, n \in 0 .. MaxOps : \E q \in Arrays(n) : New(v, q)
  \/ \E u \in Users, k \in 1 .. MaxOps, t \in Storable, i \in Indices : Set(u, k, t, i)
  \/ \E u \in Users, n \in 0 .. MaxOps : \E q \in Arrays(n) : ResizeBegin(u, q)
  \/ ResizeStep
  \/ ResizeEnd
  \/ \E v \in Values, t \in alive \cup {Null}, k \in Indices :
       ReplaceBegin(v, ReplaceByRef(t, k))
  \/ \E v \in Values, t \in alive \cup {Null} : ReplaceBegin(v, ReplaceKeepIndex(t))
  \/ \E v \in Values, t \in alive, k \in Indices, S \in SUBSET Indices :
       t # v /\ ReplaceBegin(v, ReplaceByArray(v, S, t, k))
  \/ ReplaceStep
  \/ ReplaceEnd
  \/ \E v \in Values : DeleteBegin(v)
  \/ DeleteStep
  \/ DeleteEnd

Loop == ResizeStep \/ ResizeEnd \/ ReplaceStep \/ ReplaceEnd \/ DeleteStep \/ DeleteEnd

\* Once started, a loop of the source runs to its end.
Spec == Init /\ [][Next]_vars /\ WF_vars(Loop)

-----------------------------------------------------------------------------
(* Properties                                                              *)

TypeOK ==
  /\ heap \in Heap
  /\ user \in [Slots -> Users \cup {Null}]
  /\ ops \in [Users -> Seq(Slots)]
  /\ alive \subseteq Values
  /\ job \in {Idle} \cup Resizes \cup Replaces \cup Deletes

Uses(v) == {s \in Slots : heap.val[s] = v}

\* Closed under next: where iterating a use list from a slot of S can lead.
Closed(S) == \A s \in S : heap.next[s] \in S \cup {Null}

\* The two directions of the lists agree with each other and with the heads:
\* what Remove relies on to unlink a slot without walking the list.
Linkage ==
  /\ \A s \in Slots : heap.val[s] \in Values =>
       /\ heap.next[s] # Null =>
            heap.val[heap.next[s]] = heap.val[s] /\ heap.prev[heap.next[s]] = s
       /\ heap.prev[s] # Null =>
            heap.val[heap.prev[s]] = heap.val[s] /\ heap.next[heap.prev[s]] = s
       /\ heap.prev[s] = Null <=> heap.users[heap.val[s]] = s
  /\ \A s \in Slots : heap.val[s] \notin Values => heap.next[s] = Null /\ heap.prev[s] = Null
  /\ \A v \in Values : heap.users[v] # Null => heap.val[heap.users[v]] = v

\* The list of v only runs through slots of v, and whatever set of slots a
\* walk from its head stays in holds all of them.
WalksExact ==
  \A v \in Values :
    /\ heap.users[v] \in Uses(v) \cup {Null}
    /\ \A s \in Uses(v) : heap.next[s] \in Uses(v) \cup {Null}
    /\ \A S \in SUBSET Slots :
         Closed(S) /\ heap.users[v] \in S \cup {Null} => Uses(v) \subseteq S

\* A walk of v's use list (use_iterator) visits every slot that refers to v
\* and no other, each of them once, whatever sequence of edits came before.
ListsExact == Linkage /\ WalksExact

\* Nothing refers to a destroyed value, and no list runs through memory that
\* holds no Use (a freed operand array).
NullAfterFree ==
  \A s \in Slots :
    /\ heap.val[s] \in alive \cup Tags \cup {Null}
    /\ user[s] = Null => heap.val[s] = Null

\* The slots user u owns: its operand array and, while resizeUses runs, the
\* part of the old array not yet transferred and the whole new one.
Owned(u) ==
  IF job.op = "resize" /\ job.usr = u
    THEN Range(job.fresh) \cup {ops[u][j] : j \in job.k .. Len(ops[u])}
    ELSE Range(ops[u])

\* Use::getUser answers the user whose array holds the slot; an array that is
\* given back takes its slots with it.
UserExact == \A u \in Users : {s \in Slots : user[s] = u} = Owned(u)

\* Destroying a value or giving back an array leaves no pointer behind: neither
\* from a use to the value nor from a list to the array.
NoDangling == NullAfterFree /\ UserExact

\* When replaceAllUsesWith has walked the list, what still refers to the old
\* value is what the replacement itself put there: no use was skipped although
\* the walk edits the list it is on.
ReplaceComplete ==
  job.op = "replace" /\ job.it = Null =>
    \A s \in Uses(job.old) :
      \E i \in Indices : job.repl[i] = [to |-> job.old, at |-> heap.idx[s]]

\* Every walk over a use list or an operand array ends, although the loop
\* moves the very slots it is visiting (replacing a value by itself included).
LoopsEnd == job.op # "idle" ~> job.op = "idle"

=============================================================================
