--------------------------- MODULE UseListProofs ---------------------------
(***************************************************************************)
(* Proofs about the def-use chains, for any number of values and slots.    *)
(***************************************************************************)
EXTENDS UseList, TLAPS

\* Remove keeps the shape of the heap.
LEMMA RemoveType ==
  ASSUME NEW h \in Heap, NEW s \in Slots
  PROVE  Remove(h, s) \in Heap
BY UseListAssumption DEF Remove, Heap, Targets

\* Add keeps the shape of the heap.
LEMMA AddType ==
  ASSUME NEW h \in Heap, NEW s \in Slots, NEW t \in Targets, NEW i \in Indices
  PROVE  Add(h, s, t, i) \in Heap
BY UseListAssumption DEF Add, Heap, Targets

LEMMA ReleaseType ==
  ASSUME NEW h \in Heap, NEW S \in SUBSET Slots
  PROVE  Release(h, S) \in Heap
BY UseListAssumption DEF Release, Heap, Targets, Indices

LEMMA AssignType ==
  ASSUME NEW h \in Heap, NEW s \in Slots, NEW t \in Targets, NEW i \in Indices
  PROVE  Assign(h, s, t, i) \in Heap
BY RemoveType, AddType DEF Assign

\* The type invariant is preserved by every operation on the chains.
LEMMA TypeStep == TypeOK /\ [Next]_vars => TypeOK'
<1> SUFFICES ASSUME TypeOK, [Next]_vars PROVE TypeOK'
  OBVIOUS
<1> USE UseListAssumption
<1>0. Null \in Targets /\ Values \subseteq Targets /\ Tags \subseteq Targets /\ 0 \in Indices
  BY DEF Targets, Indices
<1>1. ASSUME NEW v \in Values, NEW n \in 0 .. MaxOps, NEW q \in Arrays(n), New(v, q)
      PROVE  TypeOK'
  <2>1. q \in Seq(Slots)
    BY DEF Arrays, Injection, Free
  <2>2. v \notin Users => Range(q) = {}
    BY <1>1 DEF New, Range
  <2>3. user' \in [Slots -> Users \cup {Null}]
    BY <1>1, <2>2 DEF New, TypeOK
  <2> QED BY <1>1, <2>1, <2>3 DEF New, TypeOK
<1>2. ASSUME NEW u \in Users, NEW k \in 1 .. MaxOps, NEW t \in Storable,
             NEW i \in Indices, Set(u, k, t, i)
      PROVE  TypeOK'
  <2>1. t \in Targets /\ ops[u][k] \in Slots
    BY <1>2 DEF Storable, TypeOK, Targets, Set
  <2>2. heap' \in Heap
    BY <1>2, <2>1, AssignType DEF Set, TypeOK
  <2> QED BY <1>2, <2>2 DEF Set, TypeOK
<1>3. ASSUME NEW u \in Users, NEW n \in 0 .. MaxOps, NEW q \in Arrays(n), ResizeBegin(u, q)
      PROVE  TypeOK'
  <2>1. q \in Seq(Slots)
    BY DEF Arrays, Injection, Free
  <2>2. job' \in Resizes
    BY <1>3, <2>1 DEF ResizeBegin, Resizes
  <2> QED BY <1>3, <2>2 DEF ResizeBegin, TypeOK, Range, Arrays, Injection, Free
<1>4. ASSUME ResizeStep PROVE TypeOK'
  <2>1. job \in Resizes
    BY <1>4 DEF ResizeStep, TypeOK, Idle, Replaces, Deletes
  <2> DEFINE s == ops[job.usr][job.k]
             h == Release(Remove(heap, s), {s})
  <2>2. s \in Slots /\ heap.val[s] \in Targets /\ heap.idx[s] \in Indices
    BY <1>4, <2>1 DEF ResizeStep, Resizes, TypeOK, Heap
  <2>3. h \in Heap
    BY <2>2, RemoveType, ReleaseType DEF TypeOK
  <2>4. job.k <= Len(job.fresh) => job.fresh[job.k] \in Slots
    BY <2>1 DEF Resizes
  <2> HIDE DEF s, h
  <2>5. heap' \in Heap
    BY <1>4, <2>2, <2>3, <2>4, AddType DEF ResizeStep, s, h
  <2>6. job' \in Resizes
    BY <1>4, <2>1 DEF ResizeStep, Resizes
  <2> QED BY <1>4, <2>5, <2>6 DEF ResizeStep, TypeOK
<1>5. ASSUME ResizeEnd PROVE TypeOK'
  <2>1. job \in Resizes
    BY <1>5 DEF ResizeEnd, TypeOK, Idle, Replaces, Deletes
  <2> QED BY <1>5, <2>1 DEF ResizeEnd, TypeOK, Resizes
<1>6. ASSUME NEW v \in Values, NEW r \in [Indices -> Refs], ReplaceBegin(v, r)
      PROVE  TypeOK'
  <2>1. job' \in Replaces
    BY <1>6 DEF ReplaceBegin, Replaces, TypeOK, Heap
  <2> QED BY <1>6, <2>1 DEF ReplaceBegin, TypeOK
<1>7. ASSUME ReplaceStep PROVE TypeOK'
  <2>1. job \in Replaces
    BY <1>7 DEF ReplaceStep, TypeOK, Idle, Resizes, Deletes
  <2>2. job.it \in Slots /\ heap.idx[job.it] \in Indices
    BY <1>7, <2>1 DEF ReplaceStep, Replaces, TypeOK, Heap
  <2>3. job.repl[heap.idx[job.it]] \in Refs
    BY <2>1, <2>2 DEF Replaces
  <2>4. heap' \in Heap
    BY <1>7, <2>2, <2>3, AssignType DEF ReplaceStep, Refs, TypeOK
  <2>5. job' \in Replaces
    BY <1>7, <2>1, <2>2 DEF ReplaceStep, Replaces, TypeOK, Heap
  <2> QED BY <1>7, <2>4, <2>5 DEF ReplaceStep, TypeOK
<1>8. ASSUME ReplaceEnd PROVE TypeOK'
  BY <1>8 DEF ReplaceEnd, TypeOK
<1>9. ASSUME NEW v \in Values, DeleteBegin(v) PROVE TypeOK'
  BY <1>9 DEF DeleteBegin, TypeOK, Deletes
<1>10. ASSUME DeleteStep PROVE TypeOK'
  <2>1. job \in Deletes
    BY <1>10 DEF DeleteStep, TypeOK, Idle, Resizes, Replaces
  <2>2. ops[job.old][job.k] \in Slots
    BY <1>10, <2>1 DEF DeleteStep, Deletes, TypeOK
  <2>3. heap' \in Heap
    BY <1>10, <1>0, <2>2, AssignType DEF DeleteStep, TypeOK
  <2>4. job' \in Deletes
    BY <1>10, <2>1 DEF DeleteStep, Deletes
  <2> QED BY <1>10, <2>3, <2>4 DEF DeleteStep, TypeOK
<1>11. ASSUME DeleteEnd PROVE TypeOK'
  <2>1. job \in Deletes
    BY <1>11 DEF DeleteEnd, TypeOK, Idle, Resizes, Replaces
  <2>2. ReplaceByRef(Null, 0) \in [Indices -> Refs]
    BY <1>0 DEF ReplaceByRef, Refs
  <2>3. job' \in Replaces
    BY <1>11, <2>1, <2>2 DEF DeleteEnd, Deletes, Replaces, TypeOK, Heap
  <2> QED BY <1>11, <2>3 DEF DeleteEnd, TypeOK
<1>12. CASE UNCHANGED vars
  BY <1>12 DEF vars, TypeOK
<1>13. \A t \in Targets, k \in Indices : ReplaceByRef(t, k) \in [Indices -> Refs]
  BY DEF ReplaceByRef, Refs
<1>14. \A t \in Targets : ReplaceKeepIndex(t) \in [Indices -> Refs]
  BY DEF ReplaceKeepIndex, Refs
<1>15. \A v \in Values, t \in Targets, k \in Indices, S \in SUBSET Indices :
         ReplaceByArray(v, S, t, k) \in [Indices -> Refs]
  BY <1>0 DEF ReplaceByArray, Refs
<1>16. alive \cup {Null} \subseteq Targets /\ alive \subseteq Targets
  BY <1>0 DEF TypeOK
<1> QED
  BY <1>1, <1>2, <1>3, <1>4, <1>5, <1>6, <1>7, <1>8, <1>9, <1>10, <1>11, <1>12,
     <1>13, <1>14, <1>15, <1>16 DEF Next

\* Every state of the chains is well typed.
THEOREM UseListType == Spec => []TypeOK
<1>1. Init => TypeOK
  BY UseListAssumption DEF Init, TypeOK, Heap, Targets, Indices
<1>2. QED
  BY <1>1, TypeStep, PTL DEF Spec

-----------------------------------------------------------------------------
(* The lists of a heap *)

UsesOf(h, v) == {s \in Slots : h.val[s] = v}

ClosedOf(h, S) == \A s \in S : h.next[s] \in S \cup {Null}

\* Linkage and WalksExact, of any heap.
LinkageOf(h) ==
  /\ \A s \in Slots : h.val[s] \in Values =>
       /\ h.next[s] # Null => h.val[h.next[s]] = h.val[s] /\ h.prev[h.next[s]] = s
       /\ h.prev[s] # Null => h.val[h.prev[s]] = h.val[s] /\ h.next[h.prev[s]] = s
       /\ h.prev[s] = Null <=> h.users[h.val[s]] = s
  /\ \A s \in Slots : h.val[s] \notin Values => h.next[s] = Null /\ h.prev[s] = Null
  /\ \A v \in Values : h.users[v] # Null => h.val[h.users[v]] = v

WalksOf(h, v) ==
  \A S \in SUBSET Slots :
    ClosedOf(h, S) /\ h.users[v] \in S \cup {Null} => UsesOf(h, v) \subseteq S

Lists(h) == h \in Heap /\ LinkageOf(h) /\ \A v \in Values : WalksOf(h, v)

\* A slot taken off its list, with nothing in it.
Unlink(h, s) == Release(Remove(h, s), {s})

LEMMA UnlinkFields ==
  ASSUME NEW h \in Heap, LinkageOf(h), NEW s \in Slots
  PROVE  LET u == Unlink(h, s)
         IN  /\ u \in Heap
             /\ \A x \in Slots :
                  /\ u.val[x] = IF x = s THEN Null ELSE h.val[x]
                  /\ u.idx[x] = IF x = s THEN 0 ELSE h.idx[x]
                  /\ u.next[x] = IF x = s THEN Null ELSE
                                 IF x = h.prev[s] THEN h.next[s] ELSE h.next[x]
                  /\ u.prev[x] = IF x = s THEN Null ELSE
                                 IF x = h.next[s] THEN h.prev[s] ELSE h.prev[x]
             /\ \A v \in Values : u.users[v] = IF h.users[v] = s THEN h.next[s] ELSE h.users[v]
<1>1. Unlink(h, s) \in Heap
  BY RemoveType, ReleaseType DEF Unlink
<1>2. CASE h.val[s] \in Values
  BY <1>1, <1>2, UseListAssumption DEF Unlink, Release, Remove, Heap, LinkageOf
<1>3. CASE h.val[s] \notin Values
  BY <1>1, <1>3, UseListAssumption DEF Unlink, Release, Remove, Heap, LinkageOf
<1>4. QED
  BY <1>2, <1>3

LEMMA AddFields ==
  ASSUME NEW h \in Heap, NEW s \in Slots, NEW t \in Targets, NEW i \in Indices
  PROVE  LET u == Add(h, s, t, i)
         IN  /\ u \in Heap
             /\ \A x \in Slots :
                  /\ u.val[x] = IF x = s THEN t ELSE h.val[x]
                  /\ u.idx[x] = IF x = s THEN i ELSE h.idx[x]
                  /\ t \notin Values => u.next[x] = h.next[x] /\ u.prev[x] = h.prev[x]
                  /\ t \in Values =>
                       /\ u.next[x] = IF x = s THEN h.users[t] ELSE h.next[x]
                       /\ u.prev[x] = IF x = s THEN Null ELSE
                                      IF x = h.users[t] THEN s ELSE h.prev[x]
             /\ \A v \in Values : u.users[v] = IF v = t THEN s ELSE h.users[v]
<1>1. Add(h, s, t, i) \in Heap
  BY AddType
<1>2. QED
  BY <1>1 DEF Add, Heap

LEMMA AssignFields ==
  ASSUME NEW h \in Heap, LinkageOf(h), NEW s \in Slots, NEW t \in Targets, NEW i \in Indices
  PROVE  Assign(h, s, t, i) = Add(Unlink(h, s), s, t, i)
<1>1. CASE h.val[s] \in Values
  BY <1>1, UseListAssumption DEF Assign, Add, Unlink, Release, Remove, Heap
<1>2. CASE h.val[s] \notin Values
  BY <1>2, UseListAssumption DEF Assign, Add, Unlink, Release, Remove, Heap
<1>3. QED
  BY <1>1, <1>2

\* Slots are only linked to slots.
LEMMA NextType ==
  ASSUME NEW h, Lists(h), NEW s \in Slots
  PROVE  /\ h.next[s] \in Slots \cup {Null} /\ h.prev[s] \in Slots \cup {Null}
         /\ h.val[s] \in Targets /\ h.idx[s] \in Indices
         /\ \A v \in Values : h.users[v] \in Slots \cup {Null}
BY DEF Lists, Heap

\* A list of uses does not run in a circle.
LEMMA NoSelf ==
  ASSUME NEW h, Lists(h), NEW s \in Slots
  PROVE  h.next[s] # s
<1> SUFFICES ASSUME h.next[s] = s PROVE FALSE
  OBVIOUS
<1>1. h.val[s] \in Values /\ h.prev[s] = s /\ h.users[h.val[s]] # s
  BY UseListAssumption DEF Lists, LinkageOf
<1> DEFINE v == h.val[s]
           S == UsesOf(h, v) \ {s}
<1>2. ClosedOf(h, S)
  <2> SUFFICES ASSUME NEW x \in S PROVE h.next[x] \in S \cup {Null}
    BY DEF ClosedOf
  <2>1. x \in Slots /\ h.val[x] = v /\ x # s /\ h.next[x] \in Slots \cup {Null}
    BY NextType DEF UsesOf
  <2>2. h.next[x] # Null => h.val[h.next[x]] = v /\ h.prev[h.next[x]] = x
    BY <1>1, <2>1 DEF Lists, LinkageOf
  <2>3. QED
    BY <1>1, <2>1, <2>2 DEF UsesOf
<1>3. h.users[v] \in S \cup {Null}
  BY <1>1, NextType DEF Lists, LinkageOf, UsesOf
<1>4. UsesOf(h, v) \subseteq S
  BY <1>1, <1>2, <1>3 DEF Lists, WalksOf, UsesOf
<1>5. QED
  BY <1>4 DEF UsesOf

LEMMA UnlinkLinkage ==
  ASSUME NEW h, Lists(h), NEW s \in Slots
  PROVE  LinkageOf(Unlink(h, s))
<1> DEFINE n == h.next[s]
           p == h.prev[s]
<1>1. PICK u : u = Unlink(h, s)
  OBVIOUS
<1>2. /\ u \in Heap
      /\ \A x \in Slots :
           /\ u.val[x] = IF x = s THEN Null ELSE h.val[x]
           /\ u.next[x] = IF x = s THEN Null ELSE IF x = p THEN n ELSE h.next[x]
           /\ u.prev[x] = IF x = s THEN Null ELSE IF x = n THEN p ELSE h.prev[x]
      /\ \A v \in Values : u.users[v] = IF h.users[v] = s THEN n ELSE h.users[v]
  BY <1>1, UnlinkFields DEF Lists
<1>3. /\ n \in Slots \cup {Null} /\ p \in Slots \cup {Null} /\ n # s
      /\ \A x \in Slots : h.next[x] \in Slots \cup {Null} /\ h.prev[x] \in Slots \cup {Null}
      /\ \A v \in Values : h.users[v] \in Slots \cup {Null}
  BY NextType, NoSelf
<1>4. LinkageOf(h) /\ Null \notin Slots /\ Null \notin Values
  BY UseListAssumption DEF Lists
<1>5. ASSUME NEW x \in Slots, u.val[x] \in Values
      PROVE  /\ u.next[x] # Null => u.val[u.next[x]] = u.val[x] /\ u.prev[u.next[x]] = x
             /\ u.prev[x] # Null => u.val[u.prev[x]] = u.val[x] /\ u.next[u.prev[x]] = x
             /\ u.prev[x] = Null <=> u.users[u.val[x]] = x
  <2>1. x # s /\ u.val[x] = h.val[x] /\ h.val[x] \in Values
    BY <1>2, <1>4, <1>5
  <2>2. u.next[x] # Null => u.val[u.next[x]] = u.val[x] /\ u.prev[u.next[x]] = x
    BY <1>2, <1>3, <1>4, <2>1 DEF LinkageOf
  <2>3. u.prev[x] # Null => u.val[u.prev[x]] = u.val[x] /\ u.next[u.prev[x]] = x
    BY <1>2, <1>3, <1>4, <2>1 DEF LinkageOf
  <2>4. u.prev[x] = Null <=> u.users[u.val[x]] = x
    BY <1>2, <1>3, <1>4, <2>1 DEF LinkageOf
  <2>5. QED
    BY <2>2, <2>3, <2>4
<1>6. ASSUME NEW x \in Slots, u.val[x] \notin Values
      PROVE  u.next[x] = Null /\ u.prev[x] = Null
  BY <1>2, <1>3, <1>4, <1>6 DEF LinkageOf
<1>7. ASSUME NEW v \in Values, u.users[v] # Null
      PROVE  u.val[u.users[v]] = v
  BY <1>2, <1>3, <1>4, <1>7 DEF LinkageOf
<1>8. QED
  BY <1>1, <1>5, <1>6, <1>7 DEF LinkageOf

\* Taking a slot out leaves the rest of its list within reach.
LEMMA UnlinkWalks ==
  ASSUME NEW h, Lists(h), NEW s \in Slots, NEW v \in Values
  PROVE  WalksOf(Unlink(h, s), v)
<1> DEFINE n == h.next[s]
           p == h.prev[s]
<1>1. PICK u : u = Unlink(h, s)
  OBVIOUS
<1>2. /\ \A x \in Slots :
           /\ u.val[x] = IF x = s THEN Null ELSE h.val[x]
           /\ u.next[x] = IF x = s THEN Null ELSE IF x = p THEN n ELSE h.next[x]
      /\ u.users[v] = IF h.users[v] = s THEN n ELSE h.users[v]
  BY <1>1, UnlinkFields DEF Lists
<1>3. /\ n \in Slots \cup {Null} /\ p \in Slots \cup {Null} /\ n # s
      /\ \A x \in Slots : h.next[x] \in Slots \cup {Null} /\ h.prev[x] \in Slots \cup {Null}
      /\ h.users[v] \in Slots \cup {Null}
  BY NextType, NoSelf
<1>4. LinkageOf(h) /\ WalksOf(h, v) /\ Null \notin Slots /\ Null \notin Values
  BY UseListAssumption DEF Lists
<1> SUFFICES ASSUME NEW S \in SUBSET Slots, ClosedOf(u, S), u.users[v] \in S \cup {Null}
             PROVE  UsesOf(u, v) \subseteq S
  BY <1>1 DEF WalksOf
<1> DEFINE T == (S \cap UsesOf(h, v)) \ {s}
<1>5. UsesOf(u, v) = UsesOf(h, v) \ {s} /\ UsesOf(h, v) \subseteq Slots
  BY <1>2, <1>4 DEF UsesOf
<1>6. \A x \in T : /\ h.next[x] \in UsesOf(h, v) \cup {Null}
                   /\ h.next[x] = s => x = p
                   /\ x # p => h.next[x] \in T \cup {Null}
                   /\ x = p => n \in S \cup {Null}
  <2> SUFFICES ASSUME NEW x \in T
               PROVE  /\ h.next[x] \in UsesOf(h, v) \cup {Null}
                      /\ h.next[x] = s => x = p
                      /\ x # p => h.next[x] \in T \cup {Null}
                      /\ x = p => n \in S \cup {Null}
    OBVIOUS
  <2>1. x \in Slots /\ x # s /\ h.val[x] = v /\ u.next[x] \in S \cup {Null}
    BY DEF UsesOf, ClosedOf
  <2>2. h.next[x] \in UsesOf(h, v) \cup {Null} /\ (h.next[x] = s => x = p)
    BY <1>3, <1>4, <2>1 DEF LinkageOf, UsesOf
  <2>3. QED
    BY <1>2, <2>1, <2>2
<1>7. CASE s \notin UsesOf(h, v)
  <2>1. ClosedOf(h, T)
    <3>1. p \notin T /\ s \notin UsesOf(h, v)
      BY <1>3, <1>4, <1>7 DEF LinkageOf, UsesOf
    <3>2. QED
      BY <1>6, <3>1 DEF ClosedOf
  <2>2. h.users[v] \in T \cup {Null}
    BY <1>2, <1>3, <1>4, <1>7 DEF LinkageOf, UsesOf
  <2>3. QED
    BY <1>4, <1>5, <2>1, <2>2 DEF WalksOf
<1>8. CASE s \in UsesOf(h, v)
  <2>1. n \in S \cup {Null}
    <3> SUFFICES ASSUME n \notin S \cup {Null} PROVE FALSE
      OBVIOUS
    <3>1. ClosedOf(h, T)
      BY <1>6 DEF ClosedOf
    <3>2. h.users[v] # s /\ h.users[v] \in T \cup {Null}
      BY <1>2, <1>3, <1>4, <1>8 DEF LinkageOf, UsesOf
    <3>3. UsesOf(h, v) \subseteq T
      BY <1>4, <1>5, <3>1, <3>2 DEF WalksOf
    <3>4. QED
      BY <1>8, <3>3
  <2>2. ClosedOf(h, T \cup {s})
    <3>1. n \in T \cup {Null}
      BY <1>3, <1>4, <1>8, <2>1 DEF LinkageOf, UsesOf
    <3>2. \A x \in T : h.next[x] \in T \cup {s, Null}
      <4>1. p \in T => h.next[p] = s
        BY <1>3, <1>4, <1>8 DEF LinkageOf, UsesOf
      <4>2. QED
        BY <1>6, <4>1
    <3>3. QED
      BY <3>1, <3>2 DEF ClosedOf
  <2>3. h.users[v] \in T \cup {s, Null}
    BY <1>2, <1>3, <1>4 DEF LinkageOf, UsesOf
  <2>4. UsesOf(h, v) \subseteq T \cup {s}
    <3>1. T \cup {s} \in SUBSET Slots
      OBVIOUS
    <3>2. QED
      BY <1>4, <2>2, <2>3, <3>1 DEF WalksOf
  <2>5. QED
    BY <1>5, <2>4
<1>9. QED
  BY <1>7, <1>8

LEMMA UnlinkLists ==
  ASSUME NEW h, Lists(h), NEW s \in Slots
  PROVE  Lists(Unlink(h, s)) /\ Unlink(h, s).val[s] = Null
BY UnlinkLinkage, UnlinkWalks, UnlinkFields DEF Lists

\* Add links a slot that is on no list.
LEMMA AddLists ==
  ASSUME NEW h, Lists(h), NEW s \in Slots, h.val[s] \notin Values,
         NEW t \in Targets, NEW i \in Indices
  PROVE  Lists(Add(h, s, t, i))
<1>1. PICK u : u = Add(h, s, t, i)
  OBVIOUS
<1>2. /\ u \in Heap
      /\ \A x \in Slots :
           /\ u.val[x] = IF x = s THEN t ELSE h.val[x]
           /\ t \notin Values => u.next[x] = h.next[x] /\ u.prev[x] = h.prev[x]
           /\ t \in Values => /\ u.next[x] = IF x = s THEN h.users[t] ELSE h.next[x]
                              /\ u.prev[x] = IF x = s THEN Null ELSE
                                             IF x = h.users[t] THEN s ELSE h.prev[x]
      /\ \A v \in Values : u.users[v] = IF v = t THEN s ELSE h.users[v]
  BY <1>1, AddFields DEF Lists
<1>3. /\ \A x \in Slots : h.next[x] \in Slots \cup {Null} /\ h.prev[x] \in Slots \cup {Null}
      /\ \A v \in Values : h.users[v] \in Slots \cup {Null}
  BY NextType
<1>4. LinkageOf(h) /\ Null \notin Slots /\ Null \notin Values
      /\ h.next[s] = Null /\ h.prev[s] = Null
  BY UseListAssumption DEF Lists, LinkageOf
<1>5. LinkageOf(u)
  <2>1. CASE t \in Values
    <3>1. ASSUME NEW x \in Slots, u.val[x] \in Values
          PROVE  /\ u.next[x] # Null => u.val[u.next[x]] = u.val[x] /\ u.prev[u.next[x]] = x
                 /\ u.prev[x] # Null => u.val[u.prev[x]] = u.val[x] /\ u.next[u.prev[x]] = x
                 /\ u.prev[x] = Null <=> u.users[u.val[x]] = x
      <4>1. CASE x = s
        BY <1>2, <1>3, <1>4, <2>1, <4>1 DEF LinkageOf
      <4>2. CASE x # s
        <5>1. u.next[x] # Null => u.val[u.next[x]] = u.val[x] /\ u.prev[u.next[x]] = x
          BY <1>2, <1>3, <1>4, <2>1, <3>1, <4>2 DEF LinkageOf
        <5>2. u.prev[x] # Null => u.val[u.prev[x]] = u.val[x] /\ u.next[u.prev[x]] = x
          BY <1>2, <1>3, <1>4, <2>1, <3>1, <4>2 DEF LinkageOf
        <5>3. u.prev[x] = Null <=> u.users[u.val[x]] = x
          BY <1>2, <1>3, <1>4, <2>1, <3>1, <4>2 DEF LinkageOf
        <5>4. QED
          BY <5>1, <5>2, <5>3
      <4>3. QED
        BY <4>1, <4>2
    <3>2. ASSUME NEW x \in Slots, u.val[x] \notin Values
          PROVE  u.next[x] = Null /\ u.prev[x] = Null
      BY <1>2, <1>3, <1>4, <2>1, <3>2 DEF LinkageOf
    <3>3. ASSUME NEW v \in Values, u.users[v] # Null
          PROVE  u.val[u.users[v]] = v
      BY <1>2, <1>3, <1>4, <2>1, <3>3 DEF LinkageOf
    <3>4. QED
      BY <3>1, <3>2, <3>3 DEF LinkageOf
  <2>2. CASE t \notin Values
    BY <1>2, <1>3, <1>4, <2>2 DEF LinkageOf
  <2>3. QED
    BY <2>1, <2>2
<1>6. ASSUME NEW v \in Values PROVE WalksOf(u, v)
  <2> SUFFICES ASSUME NEW S \in SUBSET Slots, ClosedOf(u, S), u.users[v] \in S \cup {Null}
               PROVE  UsesOf(u, v) \subseteq S
    BY DEF WalksOf
  <2>1. ClosedOf(h, S)
    BY <1>2, <1>4 DEF ClosedOf
  <2>2. h.users[v] \in S \cup {Null} /\ (v = t => s \in S)
    BY <1>2, <1>4 DEF ClosedOf
  <2>3. UsesOf(h, v) \subseteq S
    BY <2>1, <2>2 DEF Lists, WalksOf
  <2>4. QED
    BY <1>2, <2>2, <2>3 DEF UsesOf
<1>7. QED
  BY <1>1, <1>2, <1>5, <1>6 DEF Lists

-----------------------------------------------------------------------------
(* The inductive invariant *)

\* The operand arrays hold different slots, and only live users have any.
OpsInv == \A u \in Users : IsInjective(ops[u]) /\ (u \notin alive => ops[u] = <<>>)

\* While resizeUses runs: the new array is disjoint from what is left of the old
\* one, and empty where nothing was transferred yet.
ResizeInv ==
  job.op = "resize" =>
    /\ job.usr \in alive
    /\ IsInjective(job.fresh)
    /\ \A i \in DOMAIN job.fresh, j \in DOMAIN ops[job.usr] :
         job.k <= j => job.fresh[i] # ops[job.usr][j]
    /\ \A i \in DOMAIN job.fresh : job.k <= i => heap.val[job.fresh[i]] = Null

\* The replacement itself has put this use of the old value there.
Stays(s) == \E i \in Indices : job.repl[i] = [to |-> job.old, at |-> heap.idx[s]]

\* Whatever the rest of the walk does not come to was visited.
Walking ==
  \A S \in SUBSET Slots :
    Closed(S) /\ job.it \in S \cup {Null} => \A s \in Uses(job.old) \ S : Stays(s)

\* While replaceAllUsesWith runs: the iterator is on the list of the old value.
ReplaceInv ==
  job.op = "replace" =>
    /\ job.old \in alive
    /\ \A i \in Indices : job.repl[i].to \in alive \cup {Null}
    /\ job.it \in Uses(job.old) \cup {Null}
    /\ Walking
    /\ job.dying => /\ \A i \in Indices : job.repl[i].to = Null
                    /\ job.old \in Users => ops[job.old] = <<>>

\* While ~User runs: the operands it has passed are null.
DeleteInv ==
  job.op = "delete" =>
    /\ job.old \in alive
    /\ job.old \in Users =>
         \A j \in DOMAIN ops[job.old] : j < job.k => heap.val[ops[job.old][j]] = Null

IInv ==
  /\ TypeOK /\ Lists(heap) /\ NullAfterFree /\ UserExact
  /\ OpsInv /\ ResizeInv /\ ReplaceInv /\ DeleteInv

\* Everything but the types.
Chains ==
  Lists(heap) /\ NullAfterFree /\ UserExact /\ OpsInv /\ ResizeInv /\ ReplaceInv /\ DeleteInv

LEMMA AssignLists ==
  ASSUME NEW h, Lists(h), NEW s \in Slots, NEW t \in Targets, NEW i \in Indices
  PROVE  LET u == Assign(h, s, t, i)
         IN  /\ Lists(u)
             /\ \A x \in Slots : /\ u.val[x] = IF x = s THEN t ELSE h.val[x]
                                 /\ u.idx[x] = IF x = s THEN i ELSE h.idx[x]
<1>1. PICK w : w = Unlink(h, s)
  OBVIOUS
<1>2. /\ Lists(w) /\ w.val[s] = Null
      /\ \A x \in Slots : x # s => w.val[x] = h.val[x] /\ w.idx[x] = h.idx[x]
  BY <1>1, UnlinkLists, UnlinkFields DEF Lists
<1>3. PICK u : u = Add(w, s, t, i)
  OBVIOUS
<1>4. u = Assign(h, s, t, i)
  BY <1>1, <1>3, AssignFields DEF Lists
<1>5. Lists(u)
  BY <1>2, <1>3, AddLists, UseListAssumption
<1>6. \A x \in Slots : /\ u.val[x] = IF x = s THEN t ELSE w.val[x]
                       /\ u.idx[x] = IF x = s THEN i ELSE w.idx[x]
  BY <1>2, <1>3, AddFields DEF Lists
<1>7. QED
  BY <1>2, <1>4, <1>5, <1>6

\* The kinds of loops are told apart by their name.
LEMMA JobKinds ==
  ASSUME TypeOK
  PROVE  /\ job = Idle <=> job.op = "idle"
         /\ job.op = "resize" => job \in Resizes
         /\ job.op = "replace" => job \in Replaces
         /\ job.op = "delete" => job \in Deletes
BY DEF TypeOK, Idle, Resizes, Replaces, Deletes

LEMMA NewStep ==
  ASSUME IInv, NEW v \in Values, NEW n \in 0 .. MaxOps, NEW q \in Arrays(n), New(v, q)
  PROVE  Chains'
<1>1. /\ q \in [1 .. n -> Free] /\ IsInjective(q) /\ Range(q) \subseteq Free
      /\ q \in Seq(Slots) /\ n \in Nat
  BY UseListAssumption DEF Arrays, Injection, Free, Range
<1>2. /\ heap' = heap /\ job' = job /\ job.op = "idle" /\ v \notin alive
      /\ alive' = alive \cup {v}
      /\ user' = [s \in Slots |-> IF s \in Range(q) THEN v ELSE user[s]]
      /\ ops' = IF v \in Users THEN [ops EXCEPT ![v] = q] ELSE ops
      /\ v \notin Users => Range(q) = {}
  BY DEF New, Idle, Range
<1>3. TypeOK /\ NullAfterFree /\ UserExact /\ OpsInv /\ Lists(heap)
  BY DEF IInv
<1>4. NullAfterFree'
  BY <1>2, <1>3, UseListAssumption DEF NullAfterFree
<1>5. OpsInv'
  BY <1>1, <1>2, <1>3 DEF OpsInv, TypeOK
<1>6. UserExact'
  <2> SUFFICES ASSUME NEW u \in Users
               PROVE  {s \in Slots : user'[s] = u} = Range(ops'[u])
    BY <1>2 DEF UserExact, Owned
  <2>1. {s \in Slots : user[s] = u} = Range(ops[u])
    BY <1>2, <1>3 DEF UserExact, Owned
  <2>2. u \notin alive => Range(ops[u]) = {}
    BY <1>3 DEF OpsInv, Range
  <2>3. CASE u = v
    <3>1. {s \in Slots : user'[s] = u} = Range(q)
      BY <1>1, <1>2, <2>1, <2>2, <2>3, UseListAssumption DEF Free
    <3>2. ops'[u] = q
      BY <1>2, <1>3, <2>3 DEF TypeOK
    <3>3. QED
      BY <3>1, <3>2
  <2>4. CASE u # v
    <3>1. {s \in Slots : user'[s] = u} = {s \in Slots : user[s] = u}
      BY <1>1, <1>2, <2>4, UseListAssumption DEF Free
    <3>2. ops'[u] = ops[u]
      BY <1>2, <1>3, <2>4 DEF TypeOK
    <3>3. QED
      BY <2>1, <3>1, <3>2
  <2>5. QED
    BY <2>3, <2>4
<1>7. QED
  BY <1>2, <1>3, <1>4, <1>5, <1>6 DEF Chains, ResizeInv, ReplaceInv, DeleteInv

\* The slot an operand is in has an owner.
LEMMA SlotOwned ==
  ASSUME TypeOK, UserExact, job.op # "resize", NEW u \in Users, NEW k \in DOMAIN ops[u]
  PROVE  ops[u][k] \in Slots /\ user[ops[u][k]] = u
BY DEF TypeOK, UserExact, Owned, Range

\* Storing a reference to a live value in a slot that has an owner.
LEMMA StoreStep ==
  ASSUME TypeOK, NullAfterFree, Lists(heap),
         NEW s \in Slots, user[s] # Null, NEW t \in Storable, NEW i \in Indices,
         heap' = Assign(heap, s, t, i), UNCHANGED <<alive, user>>
  PROVE  NullAfterFree' /\ Lists(heap')
<1>1. t \in Targets
  BY DEF TypeOK, Storable, Targets
<1>2. /\ Lists(heap')
      /\ \A x \in Slots : heap'.val[x] = IF x = s THEN t ELSE heap.val[x]
  BY <1>1, AssignLists
<1>3. QED
  BY <1>2 DEF NullAfterFree, Storable

LEMMA SetStep ==
  ASSUME IInv, NEW u \in Users, NEW k \in 1 .. MaxOps, NEW t \in Storable,
         NEW i \in Indices, Set(u, k, t, i)
  PROVE  Chains'
<1>1. /\ heap' = Assign(heap, ops[u][k], t, i) /\ job' = job /\ job.op = "idle"
      /\ user' = user /\ ops' = ops /\ alive' = alive /\ k \in DOMAIN ops[u]
  BY DEF Set, Idle
<1>2. TypeOK /\ NullAfterFree /\ UserExact /\ OpsInv /\ Lists(heap)
  BY DEF IInv
<1>3. ops[u][k] \in Slots /\ user[ops[u][k]] # Null
  BY <1>1, <1>2, SlotOwned, UseListAssumption
<1>4. NullAfterFree' /\ Lists(heap')
  BY <1>1, <1>2, <1>3, StoreStep
<1>5. QED
  BY <1>1, <1>2, <1>4
     DEF Chains, UserExact, Owned, OpsInv, ResizeInv, ReplaceInv, DeleteInv

LEMMA ResizeBeginStep ==
  ASSUME IInv, NEW u \in Users, NEW n \in 0 .. MaxOps, NEW q \in Arrays(n), ResizeBegin(u, q)
  PROVE  Chains'
<1>1. /\ q \in [1 .. n -> Free] /\ IsInjective(q) /\ Range(q) \subseteq Free
      /\ q \in Seq(Slots) /\ n \in Nat
  BY UseListAssumption DEF Arrays, Injection, Free, Range
<1>2. /\ heap' = heap /\ job.op = "idle" /\ u \in alive /\ alive' = alive /\ ops' = ops
      /\ user' = [s \in Slots |-> IF s \in Range(q) THEN u ELSE user[s]]
      /\ job'.op = "resize" /\ job'.usr = u /\ job'.k = 1 /\ job'.fresh = q
  BY DEF ResizeBegin, Idle
<1>3. TypeOK /\ NullAfterFree /\ UserExact /\ OpsInv /\ Lists(heap)
  BY DEF IInv
<1>4. NullAfterFree'
  BY <1>2, <1>3, UseListAssumption DEF NullAfterFree
<1>5. \A x \in Users : {s \in Slots : user[s] = x} = Range(ops[x])
  BY <1>2, <1>3 DEF UserExact, Owned
<1>6. UserExact'
  <2> SUFFICES ASSUME NEW x \in Users
               PROVE  {s \in Slots : user'[s] = x} = Owned(x)'
    BY DEF UserExact
  <2>1. CASE x = u
    <3>1. Owned(x)' = Range(q) \cup {ops[u][j] : j \in 1 .. Len(ops[u])}
      BY <1>2, <2>1 DEF Owned
    <3>2. {ops[u][j] : j \in 1 .. Len(ops[u])} = Range(ops[u])
      BY <1>3 DEF TypeOK, Range
    <3>3. {s \in Slots : user'[s] = x} = Range(q) \cup {s \in Slots : user[s] = u}
      BY <1>1, <1>2, <2>1 DEF Free
    <3>4. QED
      BY <1>5, <3>1, <3>2, <3>3
  <2>2. CASE x # u
    <3>1. Owned(x)' = Range(ops[x])
      BY <1>2, <2>2 DEF Owned
    <3>2. {s \in Slots : user'[s] = x} = {s \in Slots : user[s] = x}
      BY <1>1, <1>2, <2>2, UseListAssumption DEF Free
    <3>3. QED
      BY <1>5, <3>1, <3>2
  <2>3. QED
    BY <2>1, <2>2
<1>7. ResizeInv'
  <2>1. \A i \in DOMAIN q : q[i] \in Free /\ heap.val[q[i]] = Null
    BY <1>1, <1>3 DEF NullAfterFree, Free
  <2>2. \A i \in DOMAIN q, j \in DOMAIN ops[u] : q[i] # ops[u][j]
    BY <1>1, <1>2, <1>3, SlotOwned, UseListAssumption DEF Free
  <2>3. QED
    BY <1>1, <1>2, <2>1, <2>2 DEF ResizeInv
<1>8. QED
  BY <1>2, <1>3, <1>4, <1>6, <1>7 DEF Chains, OpsInv, ReplaceInv, DeleteInv

\* One iteration of resizeUses moves what is in the old slot s to the new slot.
LEMMA ResizeStepStep ==
  ASSUME IInv, ResizeStep
  PROVE  Chains'
<1>0. PICK u, k, fresh, s : u = job.usr /\ k = job.k /\ fresh = job.fresh /\ s = ops[u][k]
  OBVIOUS
<1>1. /\ TypeOK /\ NullAfterFree /\ UserExact /\ OpsInv /\ Lists(heap)
      /\ ResizeInv /\ job.op = "resize"
  BY DEF IInv, ResizeStep
<1>2. /\ job \in Resizes /\ u \in Users /\ k \in Nat \ {0} /\ fresh \in Seq(Slots)
      /\ ops[u] \in Seq(Slots)
  BY <1>0, <1>1, JobKinds DEF Resizes, TypeOK
<1>3. /\ k <= Len(ops[u]) /\ k \in DOMAIN ops[u] /\ s \in Slots
      /\ alive' = alive /\ ops' = ops /\ user' = [user EXCEPT ![s] = Null]
      /\ job'.op = "resize" /\ job'.usr = u /\ job'.k = k + 1 /\ job'.fresh = fresh
  BY <1>0, <1>1, <1>2 DEF ResizeStep, Resizes
<1>4. PICK h : h = Unlink(heap, s)
  OBVIOUS
<1>5. Lists(h) /\ \A x \in Slots : h.val[x] = IF x = s THEN Null ELSE heap.val[x]
  BY <1>1, <1>3, <1>4, UnlinkLists, UnlinkFields DEF Lists
<1>6. heap.val[s] \in Targets /\ heap.idx[s] \in Indices
  BY <1>1, <1>3, NextType
<1>7. heap' = IF k <= Len(fresh) THEN Add(h, fresh[k], heap.val[s], heap.idx[s]) ELSE h
  BY <1>0, <1>4 DEF ResizeStep, Unlink
<1>8. \A i \in DOMAIN fresh :
        /\ fresh[i] \in Slots /\ fresh[i] # s
        /\ k <= i => heap.val[fresh[i]] = Null
        /\ i # k /\ k \in DOMAIN fresh => fresh[i] # fresh[k]
  <2>1. \A i \in DOMAIN fresh : fresh[i] \in Slots
    BY <1>2
  <2>2. \A i \in DOMAIN fresh : fresh[i] # s /\ (k <= i => heap.val[fresh[i]] = Null)
    BY <1>0, <1>1, <1>2, <1>3 DEF ResizeInv
  <2>3. \A i \in DOMAIN fresh : i # k /\ k \in DOMAIN fresh => fresh[i] # fresh[k]
    BY <1>0, <1>1 DEF ResizeInv, IsInjective
  <2>4. QED
    BY <2>1, <2>2, <2>3
<1>9. /\ Lists(heap')
      /\ \A x \in Slots : heap'.val[x] = IF x = s THEN Null
                                         ELSE IF k <= Len(fresh) /\ x = fresh[k] THEN heap.val[s]
                                         ELSE heap.val[x]
  <2>1. CASE k <= Len(fresh)
    <3>1. k \in DOMAIN fresh /\ fresh[k] \in Slots /\ fresh[k] # s /\ h.val[fresh[k]] \notin Values
      BY <1>2, <1>5, <1>8, <2>1, UseListAssumption
    <3>2. heap' = Add(h, fresh[k], heap.val[s], heap.idx[s])
      BY <1>7, <2>1
    <3>3. Lists(heap')
      BY <1>5, <1>6, <3>1, <3>2, AddLists
    <3>4. \A x \in Slots : heap'.val[x] = IF x = fresh[k] THEN heap.val[s] ELSE h.val[x]
      BY <1>5, <1>6, <3>1, <3>2, AddFields DEF Lists
    <3>5. QED
      BY <1>5, <2>1, <3>1, <3>3, <3>4
  <2>2. CASE ~(k <= Len(fresh))
    BY <1>5, <1>7, <2>2
  <2>3. QED
    BY <2>1, <2>2
<1> DEFINE Left(m) == {ops[u][j] : j \in m .. Len(ops[u])}
<1>10. /\ Left(k) = {s} \cup Left(k + 1) /\ s \notin Left(k + 1)
       /\ s \notin Range(fresh)
  <2>1. s = ops[u][k] /\ DOMAIN ops[u] = 1 .. Len(ops[u]) /\ Len(ops[u]) \in Nat
    BY <1>0, <1>2
  <2>2. \A j \in DOMAIN ops[u] : j # k => ops[u][j] # s
    BY <1>1, <1>2, <1>3, <2>1 DEF OpsInv, IsInjective
  <2>3. \A j : j \in k .. Len(ops[u]) <=> j = k \/ j \in k + 1 .. Len(ops[u])
    BY <1>2, <1>3, <2>1
  <2>4. \A j \in k + 1 .. Len(ops[u]) : j \in DOMAIN ops[u] /\ j # k
    BY <1>2, <2>1
  <2>5. s \notin Left(k + 1)
    BY <2>2, <2>4
  <2>6. Left(k) = {s} \cup Left(k + 1)
    BY <2>1, <2>3
  <2>7. s \notin Range(fresh)
    BY <1>8 DEF Range
  <2>8. QED
    BY <2>5, <2>6, <2>7
<1>11. Owned(u) = Range(fresh) \cup Left(k) /\ Owned(u)' = Range(fresh) \cup Left(k + 1)
  BY <1>0, <1>1, <1>3 DEF Owned
<1> HIDE DEF Left
<1>12. user[s] = u /\ user \in [Slots -> Users \cup {Null}]
  BY <1>1, <1>2, <1>3, <1>10, <1>11 DEF UserExact, TypeOK
<1>13. UserExact'
  <2> SUFFICES ASSUME NEW x \in Users
               PROVE  {y \in Slots : user'[y] = x} = Owned(x)'
    BY DEF UserExact
  <2>1. {y \in Slots : user[y] = x} = Owned(x)
    BY <1>1 DEF UserExact
  <2>2. {y \in Slots : user'[y] = x} = {y \in Slots : user[y] = x} \ {s}
    BY <1>3, <1>12, UseListAssumption
  <2>3. CASE x = u
    BY <1>10, <1>11, <2>1, <2>2, <2>3
  <2>4. CASE x # u
    <3>1. Owned(x) = Owned(x)'
      BY <1>0, <1>1, <1>3, <2>4 DEF Owned
    <3>2. s \notin Owned(x)
      BY <1>12, <2>1, <2>4
    <3>3. QED
      BY <2>1, <2>2, <3>1, <3>2
  <2>5. QED
    BY <2>3, <2>4
<1>14. NullAfterFree'
  <2>1. k <= Len(fresh) => fresh[k] \in Owned(u) /\ fresh[k] \in Slots
    BY <1>2, <1>8, <1>11 DEF Range
  <2>2. k <= Len(fresh) => user[fresh[k]] = u
    BY <1>1, <1>2, <2>1 DEF UserExact
  <2>3. ASSUME NEW x \in Slots
        PROVE  /\ heap'.val[x] \in alive' \cup Tags \cup {Null}
               /\ user'[x] = Null => heap'.val[x] = Null
    BY <1>1, <1>2, <1>3, <1>9, <1>12, <2>2, UseListAssumption DEF NullAfterFree
  <2>4. QED
    BY <2>3 DEF NullAfterFree
<1>15. ResizeInv'
  <2>1. \A i \in DOMAIN fresh : k + 1 <= i => heap'.val[fresh[i]] = Null
    <3> SUFFICES ASSUME NEW i \in DOMAIN fresh, k + 1 <= i
                 PROVE  heap'.val[fresh[i]] = Null
      OBVIOUS
    <3>1. i \in Nat /\ k <= i /\ i # k
      BY <1>2
    <3>2. fresh[i] \in Slots /\ fresh[i] # s /\ heap.val[fresh[i]] = Null
      BY <1>8, <3>1
    <3>3. k <= Len(fresh) => fresh[i] # fresh[k]
      BY <1>2, <1>8, <3>1
    <3>4. QED
      BY <1>9, <3>2, <3>3
  <2>2. \A i \in DOMAIN fresh, j \in DOMAIN ops[u] : k + 1 <= j => fresh[i] # ops[u][j]
    BY <1>0, <1>1, <1>2 DEF ResizeInv
  <2>3. u \in alive /\ IsInjective(fresh)
    BY <1>0, <1>1 DEF ResizeInv
  <2>4. QED
    BY <1>3, <2>1, <2>2, <2>3 DEF ResizeInv
<1>16. QED
  BY <1>1, <1>3, <1>9, <1>13, <1>14, <1>15 DEF Chains, OpsInv, ReplaceInv, DeleteInv

LEMMA ResizeEndStep ==
  ASSUME IInv, ResizeEnd
  PROVE  Chains'
<1>0. PICK u, fresh : u = job.usr /\ fresh = job.fresh
  OBVIOUS
<1>1. /\ TypeOK /\ NullAfterFree /\ UserExact /\ OpsInv /\ Lists(heap)
      /\ ResizeInv /\ job.op = "resize"
  BY DEF IInv, ResizeEnd
<1>2. /\ job \in Resizes /\ u \in Users /\ job.k \in Nat \ {0} /\ fresh \in Seq(Slots)
      /\ ops[u] \in Seq(Slots)
  BY <1>0, <1>1, JobKinds DEF Resizes, TypeOK
<1>3. /\ job.k > Len(ops[u]) /\ heap' = heap /\ user' = user /\ alive' = alive
      /\ ops' = [ops EXCEPT ![u] = fresh] /\ job'.op = "idle"
  BY <1>0 DEF ResizeEnd, Idle
<1>4. ops'[u] = fresh /\ \A x \in Users \ {u} : ops'[x] = ops[x]
  BY <1>1, <1>2, <1>3 DEF TypeOK
<1>5. \A x \in Users : Owned(x)' = Owned(x)
  <2>1. {ops[u][j] : j \in job.k .. Len(ops[u])} = {}
    BY <1>0, <1>2, <1>3
  <2>2. Owned(u) = Range(fresh)
    BY <1>0, <1>1, <2>1 DEF Owned
  <2>3. \A x \in Users : Owned(x)' = Range(ops'[x])
    BY <1>3 DEF Owned
  <2>4. \A x \in Users \ {u} : Owned(x) = Range(ops[x])
    BY <1>0 DEF Owned
  <2>5. QED
    BY <1>4, <2>2, <2>3, <2>4
<1>6. UserExact' /\ NullAfterFree'
  BY <1>1, <1>3, <1>5 DEF UserExact, NullAfterFree
<1>7. OpsInv'
  BY <1>0, <1>1, <1>3, <1>4 DEF OpsInv, ResizeInv
<1>8. QED
  BY <1>1, <1>3, <1>6, <1>7 DEF Chains, ResizeInv, ReplaceInv, DeleteInv

\* The start of a walk: the head of the list leads to every use.
LEMMA WalkStarts ==
  ASSUME Lists(heap), NEW v \in Values, job'.old = v, job'.it = heap.users[v],
         UNCHANGED heap
  PROVE  Walking' /\ job'.it \in Uses(v)' \cup {Null}
<1>1. WalksOf(heap, v) /\ UsesOf(heap, v) = Uses(v) /\ Uses(v)' = Uses(v)
  BY DEF Lists, UsesOf, Uses
<1>2. ASSUME NEW S \in SUBSET Slots, Closed(S)', job'.it \in S \cup {Null}
      PROVE  Uses(v) \ S = {}
  BY <1>1, <1>2 DEF WalksOf, Closed, ClosedOf
<1>3. Uses(job.old)' = Uses(v)
  BY <1>1 DEF Uses
<1>4. heap.users[v] \in Slots \cup {Null} /\ (heap.users[v] # Null => heap.val[heap.users[v]] = v)
  BY NextType DEF Lists, LinkageOf, Heap
<1>5. job'.it \in Uses(v) \cup {Null}
  BY <1>4 DEF Uses
<1>6. Walking'
  BY <1>2, <1>3 DEF Walking
<1>7. QED
  BY <1>1, <1>5, <1>6

LEMMA ReplaceBeginStep ==
  ASSUME IInv, NEW v \in Values, NEW r \in [Indices -> Refs],
         \A i \in Indices : r[i].to \in alive \cup {Null}, ReplaceBegin(v, r)
  PROVE  Chains'
<1>1. TypeOK /\ NullAfterFree /\ UserExact /\ OpsInv /\ Lists(heap)
  BY DEF IInv
<1>2. /\ UNCHANGED <<heap, user, ops, alive>> /\ v \in alive /\ job.op = "idle"
      /\ job'.op = "replace" /\ job'.old = v /\ job'.repl = r /\ job'.it = heap.users[v]
      /\ job'.dying = FALSE
  BY DEF ReplaceBegin, Idle
<1>3. Walking' /\ job'.it \in Uses(v)' \cup {Null}
  BY <1>1, <1>2, WalkStarts
<1>4. Uses(job.old)' = Uses(v)'
  BY <1>2 DEF Uses
<1>5. ReplaceInv'
  BY <1>2, <1>3, <1>4 DEF ReplaceInv
<1>6. QED
  BY <1>1, <1>2, <1>5
     DEF Chains, NullAfterFree, UserExact, Owned, OpsInv, ResizeInv, DeleteInv

\* One iteration of replaceAllUsesWith: the use under the iterator is done with,
\* and what the iterator led to before, it or the use at hand leads to now.
LEMMA ReplaceStepStep ==
  ASSUME IInv, ReplaceStep
  PROVE  Chains'
<1>0. PICK v, it, n, r : /\ v = job.old /\ it = job.it /\ n = heap.next[it]
                         /\ r = job.repl[heap.idx[it]]
  OBVIOUS
<1>1. /\ TypeOK /\ NullAfterFree /\ UserExact /\ OpsInv /\ Lists(heap)
      /\ ReplaceInv /\ job.op = "replace" /\ it # Null
  BY <1>0 DEF IInv, ReplaceStep
<1>2. /\ job \in Replaces /\ v \in Values /\ v \in alive /\ it \in Slots /\ heap.val[it] = v
      /\ it \in Uses(v)
  BY <1>0, <1>1, JobKinds DEF Replaces, ReplaceInv, Uses
<1>3. /\ heap.idx[it] \in Indices /\ n \in Slots \cup {Null} /\ n # it
      /\ n # Null => heap.val[n] = v
      /\ heap.prev[it] # Null => heap.next[heap.prev[it]] = it
      /\ heap.prev[it] \in Slots \cup {Null}
  <2>1. heap.idx[it] \in Indices /\ n \in Slots \cup {Null} /\ heap.prev[it] \in Slots \cup {Null}
    BY <1>0, <1>1, <1>2, NextType
  <2>2. n # it
    BY <1>0, <1>1, <1>2, NoSelf
  <2>3. QED
    BY <1>0, <1>1, <1>2, <2>1, <2>2 DEF Lists, LinkageOf
<1>4. r \in Refs /\ r.to \in Storable /\ r.to \in Targets /\ r.at \in Indices /\ job.repl \in [Indices -> Refs]
  BY <1>0, <1>1, <1>2, <1>3 DEF Replaces, ReplaceInv, Refs, Storable
<1>5. /\ heap' = Assign(heap, it, r.to, r.at) /\ UNCHANGED <<user, ops, alive>>
      /\ job'.op = "replace" /\ job'.old = v /\ job'.repl = job.repl /\ job'.it = n
      /\ job'.dying = job.dying
  BY <1>0, <1>2 DEF ReplaceStep, Replaces
<1>6. /\ Lists(heap')
      /\ \A x \in Slots : /\ heap'.val[x] = IF x = it THEN r.to ELSE heap.val[x]
                          /\ heap'.idx[x] = IF x = it THEN r.at ELSE heap.idx[x]
  BY <1>1, <1>2, <1>4, <1>5, AssignLists
<1>7. NullAfterFree'
  <2>1. user[it] # Null
    BY <1>1, <1>2, UseListAssumption DEF NullAfterFree
  <2>2. QED
    BY <1>1, <1>2, <1>4, <1>5, <2>1, StoreStep
<1>8. \A x \in Slots \ {it} :
        heap'.next[x] = IF x = heap.prev[it] THEN n ELSE heap.next[x]
  <2>1. PICK w : w = Unlink(heap, it)
    OBVIOUS
  <2>2. /\ w \in Heap
        /\ \A x \in Slots \ {it} : w.next[x] = IF x = heap.prev[it] THEN n ELSE heap.next[x]
    BY <1>0, <1>1, <1>2, <2>1, UnlinkFields DEF Lists
  <2>3. heap' = Add(w, it, r.to, r.at)
    BY <1>1, <1>2, <1>4, <1>5, <2>1, AssignFields DEF Lists
  <2>4. \A x \in Slots \ {it} : heap'.next[x] = w.next[x]
    BY <1>2, <1>4, <2>2, <2>3, AddFields
  <2>5. QED
    BY <2>2, <2>4
<1>9. n \in Uses(v)' \cup {Null}
  BY <1>3, <1>6 DEF Uses
<1>10. ASSUME NEW S \in SUBSET Slots, Closed(S)', n \in S \cup {Null},
              NEW x \in Uses(v)', x \notin S
       PROVE  \E i \in Indices : job.repl[i] = [to |-> v, at |-> heap'.idx[x]]
  <2>1. CASE x = it
    <3>1. r.to = v /\ r = [to |-> v, at |-> heap'.idx[x]]
      BY <1>2, <1>4, <1>6, <1>10, <2>1 DEF Uses, Refs
    <3>2. QED
      BY <1>0, <1>3, <3>1
  <2>2. CASE x # it
    <3> DEFINE T == (S \cap Uses(v)) \cup {it}
    <3>1. T \subseteq Slots /\ x \in Uses(v) /\ x \notin T /\ heap'.idx[x] = heap.idx[x]
      BY <1>2, <1>6, <1>10, <2>2 DEF Uses
    <3>2. Closed(T)
      <4>1. heap.next[it] \in T \cup {Null}
        BY <1>0, <1>3, <1>10 DEF Uses
      <4>2. ASSUME NEW y \in S \cap Uses(v), y # it
            PROVE  heap.next[y] \in T \cup {Null}
        <5>1. y \in Slots /\ heap.val[y] = v /\ heap'.next[y] \in S \cup {Null}
          BY <1>10, <4>2 DEF Uses, Closed
        <5>2. heap.next[y] \in Uses(v) \cup {Null}
          BY <1>1, <1>2, <5>1, NextType DEF Lists, LinkageOf, Uses
        <5>3. CASE y = heap.prev[it]
          BY <1>3, <5>1, <5>3, UseListAssumption
        <5>4. CASE y # heap.prev[it]
          BY <1>8, <4>2, <5>1, <5>2, <5>4
        <5>5. QED
          BY <5>3, <5>4
      <4>3. QED
        BY <4>1, <4>2 DEF Closed
    <3>3. Stays(x)
      BY <1>0, <1>1, <3>1, <3>2 DEF ReplaceInv, Walking
    <3>4. QED
      BY <1>0, <3>1, <3>3 DEF Stays
  <2>3. QED
    BY <2>1, <2>2
<1>11. Walking'
  <2>1. Uses(job.old)' = Uses(v)'
    BY <1>5 DEF Uses
  <2>2. ASSUME NEW S \in SUBSET Slots, Closed(S)', n \in S \cup {Null}, NEW x \in Uses(v)' \ S
        PROVE  Stays(x)'
    <3>1. \E i \in Indices : job.repl[i] = [to |-> v, at |-> heap'.idx[x]]
      BY <1>10, <2>2
    <3>2. QED
      BY <1>5, <3>1 DEF Stays
  <2>3. QED
    BY <1>5, <2>1, <2>2 DEF Walking
<1>12. ReplaceInv'
  <2>1. Uses(job.old)' = Uses(v)'
    BY <1>5 DEF Uses
  <2>2. QED
    BY <1>0, <1>1, <1>5, <1>9, <1>11, <2>1 DEF ReplaceInv
<1>13. QED
  BY <1>1, <1>5, <1>6, <1>7, <1>12
     DEF Chains, UserExact, Owned, OpsInv, ResizeInv, DeleteInv

LEMMA WalkDone ==
  ASSUME ReplaceInv, job.op = "replace", job.it = Null
  PROVE  \A s \in Uses(job.old) : Stays(s)
<1>1. Closed({}) /\ {} \in SUBSET Slots
  BY DEF Closed
<1>2. QED
  BY <1>1 DEF ReplaceInv, Walking

LEMMA ReplaceEndStep ==
  ASSUME IInv, ReplaceEnd
  PROVE  Chains'
<1>1. /\ TypeOK /\ NullAfterFree /\ UserExact /\ OpsInv /\ Lists(heap)
      /\ ReplaceInv /\ job.op = "replace" /\ job.it = Null
  BY DEF IInv, ReplaceEnd
<1>2. /\ UNCHANGED <<heap, user, ops>> /\ job'.op = "idle"
      /\ alive' = IF job.dying THEN alive \ {job.old} ELSE alive
  BY DEF ReplaceEnd, Idle
<1>3. job \in Replaces /\ job.old \in Values
  BY <1>1, JobKinds DEF Replaces
<1>4. job.dying => Uses(job.old) = {}
  <2> SUFFICES ASSUME job.dying, NEW s \in Uses(job.old) PROVE FALSE
    OBVIOUS
  <2>1. PICK i \in Indices : job.repl[i] = [to |-> job.old, at |-> heap.idx[s]]
    BY <1>1, WalkDone DEF Stays
  <2>2. job.repl[i].to = Null
    BY <1>1 DEF ReplaceInv
  <2>3. QED
    BY <1>3, <2>1, <2>2, UseListAssumption
<1>5. NullAfterFree'
  BY <1>1, <1>2, <1>4 DEF NullAfterFree, Uses
<1>6. OpsInv'
  BY <1>1, <1>2 DEF OpsInv, ReplaceInv
<1>7. UserExact'
  BY <1>1, <1>2 DEF UserExact, Owned
<1>8. QED
  BY <1>1, <1>2, <1>5, <1>6, <1>7 DEF Chains, ResizeInv, ReplaceInv, DeleteInv

LEMMA DeleteBeginStep ==
  ASSUME IInv, NEW v \in Values, DeleteBegin(v)
  PROVE  Chains'
<1>1. TypeOK /\ NullAfterFree /\ UserExact /\ OpsInv /\ Lists(heap)
  BY DEF IInv
<1>2. /\ UNCHANGED <<heap, user, ops, alive>> /\ job.op = "idle" /\ v \in alive
      /\ job'.op = "delete" /\ job'.old = v /\ job'.k = 1
  BY DEF DeleteBegin, Idle
<1>3. DeleteInv'
  <2>1. v \in Users => \A j \in DOMAIN ops[v] : ~(j < 1)
    BY <1>1 DEF TypeOK
  <2>2. QED
    BY <1>2, <2>1 DEF DeleteInv
<1>4. QED
  BY <1>1, <1>2, <1>3
     DEF Chains, NullAfterFree, UserExact, Owned, OpsInv, ResizeInv, ReplaceInv

LEMMA DeleteStepStep ==
  ASSUME IInv, DeleteStep
  PROVE  Chains'
<1>0. PICK v, k, s : v = job.old /\ k = job.k /\ s = ops[v][k]
  OBVIOUS
<1>1. /\ TypeOK /\ NullAfterFree /\ UserExact /\ OpsInv /\ Lists(heap)
      /\ DeleteInv /\ job.op = "delete" /\ v \in Users
  BY <1>0 DEF IInv, DeleteStep
<1>2. job \in Deletes /\ k \in Nat \ {0} /\ ops[v] \in Seq(Slots)
  BY <1>0, <1>1, JobKinds DEF Deletes, TypeOK
<1>3. /\ heap' = Assign(heap, s, Null, 0) /\ UNCHANGED <<user, ops, alive>>
      /\ job'.op = "delete" /\ job'.old = v /\ job'.k = k + 1 /\ k \in DOMAIN ops[v]
  BY <1>0, <1>2 DEF DeleteStep, Deletes
<1>4. s \in Slots /\ user[s] = v /\ Null \in Storable /\ 0 \in Indices /\ Null \in Targets
  BY <1>0, <1>1, <1>3, SlotOwned, UseListAssumption DEF Storable, Indices, Targets
<1>5. NullAfterFree' /\ Lists(heap')
  BY <1>1, <1>3, <1>4, StoreStep, UseListAssumption
<1>6. \A x \in Slots : heap'.val[x] = IF x = s THEN Null ELSE heap.val[x]
  BY <1>1, <1>3, <1>4, AssignLists
<1>7. DeleteInv'
  <2>1. \A j \in DOMAIN ops[v] : j < k + 1 => heap'.val[ops[v][j]] = Null
    BY <1>0, <1>1, <1>2, <1>6 DEF DeleteInv
  <2>2. QED
    BY <1>0, <1>1, <1>3, <2>1 DEF DeleteInv
<1>8. QED
  BY <1>1, <1>3, <1>5, <1>7 DEF Chains, UserExact, Owned, OpsInv, ResizeInv, ReplaceInv

\* ~User ends and ~Value begins: the freed slots hold nothing any more.
LEMMA DeleteEndStep ==
  ASSUME IInv, DeleteEnd
  PROVE  Chains'
<1>0. PICK v : v = job.old
  OBVIOUS
<1>1. /\ TypeOK /\ NullAfterFree /\ UserExact /\ OpsInv /\ Lists(heap)
      /\ DeleteInv /\ job.op = "delete"
  BY DEF IInv, DeleteEnd
<1>2. job \in Deletes /\ v \in Values /\ v \in alive /\ job.k \in Nat
  BY <1>0, <1>1, JobKinds DEF Deletes, DeleteInv
<1>3. /\ v \in Users => job.k > Len(ops[v])
      /\ user' = [s \in Slots |-> IF user[s] = v THEN Null ELSE user[s]]
      /\ ops' = IF v \in Users THEN [ops EXCEPT ![v] = <<>>] ELSE ops
      /\ UNCHANGED <<heap, alive>>
      /\ job'.op = "replace" /\ job'.old = v /\ job'.repl = ReplaceByRef(Null, 0)
      /\ job'.it = heap.users[v] /\ job'.dying = TRUE
  BY <1>0 DEF DeleteEnd
<1>4. \A u \in Users : {s \in Slots : user[s] = u} = Range(ops[u])
  BY <1>1 DEF UserExact, Owned
<1>5. \A s \in Slots : user[s] = v => heap.val[s] = Null
  <2> SUFFICES ASSUME NEW s \in Slots, user[s] = v PROVE heap.val[s] = Null
    OBVIOUS
  <2>1. v \in Users
    BY <1>1, <1>2, UseListAssumption DEF TypeOK
  <2>2. PICK j \in DOMAIN ops[v] : s = ops[v][j]
    BY <1>4, <2>1 DEF Range
  <2>3. j < job.k
    BY <1>1, <1>2, <1>3, <2>1 DEF TypeOK
  <2>4. QED
    BY <1>0, <1>1, <2>1, <2>2, <2>3 DEF DeleteInv
<1>6. NullAfterFree'
  BY <1>1, <1>3, <1>5 DEF NullAfterFree
<1>7. OpsInv' /\ (v \in Users => ops'[v] = <<>>)
  BY <1>1, <1>3 DEF OpsInv, TypeOK, IsInjective
<1>8. UserExact'
  <2> SUFFICES ASSUME NEW u \in Users
               PROVE  {s \in Slots : user'[s] = u} = Range(ops'[u])
    BY <1>3 DEF UserExact, Owned
  <2>1. CASE u = v
    <3>1. {s \in Slots : user'[s] = u} = {}
      BY <1>2, <1>3, <2>1, UseListAssumption
    <3>2. Range(ops'[u]) = {}
      BY <1>7, <2>1 DEF Range
    <3>3. QED
      BY <3>1, <3>2
  <2>2. CASE u # v
    <3>1. ops'[u] = ops[u]
      BY <1>1, <1>3, <2>2 DEF TypeOK
    <3>2. {s \in Slots : user'[s] = u} = {s \in Slots : user[s] = u}
      BY <1>3, <2>2, UseListAssumption
    <3>3. QED
      BY <1>4, <3>1, <3>2
  <2>3. QED
    BY <2>1, <2>2
<1>9. ReplaceInv'
  <2>1. Walking' /\ job'.it \in Uses(v)' \cup {Null}
    BY <1>1, <1>2, <1>3, WalkStarts
  <2>2. Uses(job.old)' = Uses(v)'
    BY <1>3 DEF Uses
  <2>3. \A i \in Indices : job'.repl[i].to = Null
    BY <1>3 DEF ReplaceByRef
  <2>4. QED
    BY <1>2, <1>3, <1>7, <2>1, <2>2, <2>3 DEF ReplaceInv
<1>10. QED
  BY <1>1, <1>3, <1>6, <1>7, <1>8, <1>9 DEF Chains, ResizeInv, DeleteInv

\* What the three overloads of replaceAllUsesWith store exists.
LEMMA ReplacementsLive ==
  ASSUME TypeOK
  PROVE  /\ \A t \in alive \cup {Null}, k \in Indices :
              /\ ReplaceByRef(t, k) \in [Indices -> Refs]
              /\ \A i \in Indices : ReplaceByRef(t, k)[i].to \in alive \cup {Null}
         /\ \A t \in alive \cup {Null} :
              /\ ReplaceKeepIndex(t) \in [Indices -> Refs]
              /\ \A i \in Indices : ReplaceKeepIndex(t)[i].to \in alive \cup {Null}
         /\ \A v \in alive, t \in alive, k \in Indices, S \in SUBSET Indices :
              /\ ReplaceByArray(v, S, t, k) \in [Indices -> Refs]
              /\ \A i \in Indices : ReplaceByArray(v, S, t, k)[i].to \in alive \cup {Null}
<1>1. alive \cup {Null} \subseteq Targets
  BY DEF TypeOK, Targets
<1>2. QED
  BY <1>1 DEF ReplaceByRef, ReplaceKeepIndex, ReplaceByArray, Refs

LEMMA StepInv == IInv /\ [Next]_vars => IInv'
<1> SUFFICES ASSUME IInv, [Next]_vars PROVE IInv'
  OBVIOUS
<1>1. TypeOK /\ TypeOK'
  BY TypeStep DEF IInv
<1> SUFFICES Chains'
  BY <1>1 DEF IInv, Chains
<1>2. CASE UNCHANGED vars
  <2>1. UNCHANGED <<heap, user, ops, alive, job>>
    BY <1>2 DEF vars
  <2>2. NullAfterFree' /\ UserExact' /\ OpsInv' /\ Lists(heap')
    BY <2>1 DEF IInv, NullAfterFree, UserExact, Owned, OpsInv
  <2>3. ResizeInv' /\ DeleteInv'
    BY <2>1 DEF IInv, ResizeInv, DeleteInv
  <2>4. Walking => Walking'
    BY <2>1 DEF Walking, Closed, Uses, Stays
  <2>5. ReplaceInv'
    BY <2>1, <2>4 DEF IInv, ReplaceInv, Uses
  <2>6. QED
    BY <2>2, <2>3, <2>5 DEF Chains
<1>3. ASSUME NEW v \in Values, NEW t \in alive \cup {Null}, NEW k \in Indices,
             ReplaceBegin(v, ReplaceByRef(t, k))
      PROVE  Chains'
  BY <1>1, <1>3, ReplacementsLive, ReplaceBeginStep
<1>4. ASSUME NEW v \in Values, NEW t \in alive \cup {Null},
             ReplaceBegin(v, ReplaceKeepIndex(t))
      PROVE  Chains'
  BY <1>1, <1>4, ReplacementsLive, ReplaceBeginStep
<1>5. ASSUME NEW v \in Values, NEW t \in alive, NEW k \in Indices, NEW S \in SUBSET Indices,
             ReplaceBegin(v, ReplaceByArray(v, S, t, k))
      PROVE  Chains'
  <2>1. v \in alive
    BY <1>5 DEF ReplaceBegin
  <2>2. QED
    BY <1>1, <1>5, <2>1, ReplacementsLive, ReplaceBeginStep
<1>6. CASE Next
  BY <1>3, <1>4, <1>5, <1>6, NewStep, SetStep, ResizeBeginStep, ResizeStepStep, ResizeEndStep,
     ReplaceStepStep, ReplaceEndStep, DeleteBeginStep, DeleteStepStep, DeleteEndStep
     DEF Next
<1>7. QED
  BY <1>2, <1>6

LEMMA InitInv == Init => IInv
<1> SUFFICES ASSUME Init PROVE IInv
  OBVIOUS
<1> USE UseListAssumption
<1>1. TypeOK
  BY DEF Init, TypeOK, Heap, Targets, Indices
<1>2. /\ job.op = "idle" /\ alive = {} /\ \A u \in Users : ops[u] = <<>>
      /\ \A s \in Slots : /\ heap.val[s] = Null /\ heap.next[s] = Null /\ heap.prev[s] = Null
                          /\ user[s] = Null
      /\ \A v \in Values : heap.users[v] = Null
  BY DEF Init, Idle
<1>3. Lists(heap)
  BY <1>1, <1>2 DEF Lists, LinkageOf, WalksOf, UsesOf, TypeOK
<1>4. NullAfterFree /\ OpsInv
  BY <1>2 DEF NullAfterFree, OpsInv, IsInjective
<1>5. UserExact
  BY <1>2 DEF UserExact, Owned, Range
<1>6. QED
  BY <1>1, <1>2, <1>3, <1>4, <1>5 DEF IInv, ResizeInv, ReplaceInv, DeleteInv

LEMMA Inductive == Spec => []IInv
  BY InitInv, StepInv, PTL DEF Spec

\* Whatever edits came before, the use list of a value holds exactly the slots
\* that refer to it, linked consistently in both directions: a walk with
\* use_iterator misses none of them.
THEOREM ListsCorrect == Spec => []ListsExact
<1>1. ASSUME IInv PROVE ListsExact
  <2>1. Lists(heap) /\ Linkage
    BY <1>1 DEF IInv, Lists, LinkageOf, Linkage
  <2>2. ASSUME NEW v \in Values
        PROVE  /\ heap.users[v] \in Uses(v) \cup {Null}
               /\ \A s \in Uses(v) : heap.next[s] \in Uses(v) \cup {Null}
               /\ \A S \in SUBSET Slots :
                    Closed(S) /\ heap.users[v] \in S \cup {Null} => Uses(v) \subseteq S
    <3>1. heap.users[v] \in Uses(v) \cup {Null}
      BY <2>1 DEF Lists, Heap, Linkage, Uses
    <3>2. \A s \in Uses(v) : heap.next[s] \in Uses(v) \cup {Null}
      BY <2>1 DEF Lists, Heap, Linkage, Uses
    <3>3. WalksOf(heap, v)
      BY <2>1 DEF Lists
    <3>4. QED
      BY <3>1, <3>2, <3>3 DEF WalksOf, Closed, ClosedOf, Uses, UsesOf
  <2>3. QED
    BY <2>1, <2>2 DEF ListsExact, WalksExact
<1>2. QED
  BY <1>1, Inductive, PTL

\* Destroying a value or giving back an operand array leaves no pointer to it,
\* and every slot is known to the user whose array it is in.
THEOREM NoDanglingUse == Spec => []NoDangling
<1>1. IInv => NoDangling
  BY DEF IInv, NoDangling
<1>2. QED
  BY <1>1, Inductive, PTL

\* replaceAllUsesWith skips no use, although it takes the slots off the list it
\* is walking, and may put them back at its head.
THEOREM ReplaceMissesNone == Spec => []ReplaceComplete
<1>1. IInv => ReplaceComplete
  BY WalkDone DEF IInv, ReplaceComplete, Stays
<1>2. QED
  BY <1>1, Inductive, PTL

=============================================================================
