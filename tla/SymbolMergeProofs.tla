------------------------- MODULE SymbolMergeProofs -------------------------
(***************************************************************************)
(* Merging modules, for any number of modules and names: the symbol table   *)
(* is exact, no reference is left on a global that is gone, the numbers     *)
(* that make local names unique never run out, and the strongest definition *)
(* of a name prevails.                                                     *)
(***************************************************************************)
EXTENDS SymbolMerge, FiniteSetTheorems, WellFoundedInduction, TLAPS

\* What the table, the labels and the references must satisfy while the globals
\* of L are in the program.  The numbers below the two counters are all taken:
\* that is why FreshNumber finds one among as many numbers as there are globals.
Held(s, j) == \E e \in Ents : s.label[e][2] = j

Good(s, L) ==
  /\ s \in States /\ ~s.fatal
  /\ L \subseteq Ents /\ s.gone \cap L = {}
  /\ \A e \in L : s.table[s.label[e]] = e
  /\ \A l \in Labels : s.table[l] # Null => s.table[l] \in L /\ s.label[s.table[l]] = l
  /\ \A e \in Ents : s.label[e][1] = e[2]
  /\ \A j \in 1 .. s.unique1 - 1 : Held(s, j)
  /\ \A j \in 1 .. s.unique2 - 1 : Held(s, j)
  /\ \A r \in Ents : s.bind[r] \notin s.gone
  /\ s.unique1 > 0 /\ s.unique2 > 0

LEMMA EntsFacts ==
  /\ IsFiniteSet(Ents)
  /\ Cardinality(Ents) \in Nat
  /\ Null \notin Ents
  /\ \A e \in Ents : e[1] \in Modules /\ e[2] \in Names
  /\ \A n \in Names, k \in 0 .. Cardinality(Ents) :
       <<n, k>> \in Labels /\ <<n, k>>[1] = n /\ <<n, k>>[2] = k
<1>1. IsFiniteSet(Modules)
  BY SymbolMergeAssumption, FS_Interval DEF Modules
<1>2. IsFiniteSet(Ents)
  BY <1>1, SymbolMergeAssumption, FS_Product DEF Ents
<1>3. Cardinality(Ents) \in Nat
  BY <1>2, FS_CardinalityType
<1>4. Null \notin Ents
  BY SymbolMergeAssumption DEF Ents, Modules
<1>5. QED
  BY <1>2, <1>3, <1>4 DEF Ents, Labels

\* A non-empty set of numbers has a least one.
LEMMA Least ==
  ASSUME NEW S \in SUBSET Nat, S # {}
  PROVE  \E m \in S : \A k \in S : m <= k
<1>1. PICK m \in S : \A k \in S : ~(<<k, m>> \in OpToRel(<, Nat))
  BY NatLessThanWellFounded, WFMin
<1>2. \A k \in S : ~(k < m)
  BY <1>1 DEF OpToRel
<1>3. QED
  BY <1>2

\* A global without a number leaves one of the numbers up to the number of
\* globals unused.
LEMMA NumberLeft ==
  ASSUME NEW s \in States, NEW g \in Ents, s.label[g][2] = 0
  PROVE  \E j \in 1 .. Cardinality(Ents) : ~Held(s, j)
<1> DEFINE C == Cardinality(Ents)
           Rest == Ents \ {g}
           f == [j \in 1 .. C |-> CHOOSE e \in Rest : s.label[e][2] = j]
<1> SUFFICES ASSUME \A j \in 1 .. C : Held(s, j)
             PROVE  FALSE
  OBVIOUS
<1>1. C \in Nat /\ IsFiniteSet(Rest) /\ Cardinality(Rest) = C - 1
  BY EntsFacts, FS_RemoveElement
<1>2. \A j \in 1 .. C : \E e \in Rest : s.label[e][2] = j
  BY <1>1 DEF Held
<1>3. \A j \in 1 .. C : f[j] \in Rest /\ s.label[f[j]][2] = j
  BY <1>2
<1>4. f \in Injection(1 .. C, Rest)
  BY <1>3 DEF Injection, IsInjective
<1>5. Cardinality(1 .. C) = C
  BY <1>1, FS_Interval
<1>6. C <= C - 1
  BY <1>1, <1>4, <1>5, FS_Injection
<1>7. QED
  BY <1>1, <1>6

\* FreshNumber finds a free label, and passes only numbers that are taken.
LEMMA FreshFound ==
  ASSUME NEW s \in States, NEW n \in Names, NEW from \in Nat, from > 0,
         NEW g \in Ents, s.label[g][2] = 0,
         \A j \in 1 .. from - 1 : Held(s, j),
         \A l \in Labels : l[2] # 0 /\ s.table[l] # Null =>
           s.table[l] \in Ents /\ s.label[s.table[l]] = l
  PROVE  LET k == FreshNumber(s, n, from)
         IN  /\ k \in 1 .. Cardinality(Ents) /\ k >= from
             /\ s.table[<<n, k>>] = Null
             /\ \A j \in 1 .. k - 1 : Held(s, j)
<1> DEFINE C == Cardinality(Ents)
           Free == {k \in from .. C : s.table[<<n, k>>] = Null}
           Fresh(k) == s.table[<<n, k>>] = Null /\ \A j \in from .. k - 1 : s.table[<<n, j>>] # Null
<1>1. C \in Nat
  BY EntsFacts
<1>2. PICK j0 \in 1 .. C : ~Held(s, j0)
  BY NumberLeft
<1>3. j0 \in from .. C
  BY <1>1, <1>2
<1>4. \A j \in 1 .. C : s.table[<<n, j>>] # Null => Held(s, j)
  BY <1>1, EntsFacts DEF Held
<1>5. j0 \in Free
  BY <1>2, <1>3, <1>4
<1>6. PICK m \in Free : \A k \in Free : m <= k
  <2>1. Free \in SUBSET Nat
    BY <1>1
  <2>2. QED
    BY <1>5, <2>1, Least
<1>7. m \in from .. C /\ Fresh(m)
  BY <1>1, <1>6
<1>8. \E k \in from .. C : Fresh(k)
  BY <1>7
<1> DEFINE k == FreshNumber(s, n, from)
<1>9. k \in from .. C /\ Fresh(k)
  BY <1>8 DEF FreshNumber
<1>10. \A j \in 1 .. k - 1 : Held(s, j)
  <2> SUFFICES ASSUME NEW j \in 1 .. k - 1
               PROVE  Held(s, j)
    OBVIOUS
  <2>1. k \in Nat /\ k <= C
    BY <1>1, <1>9
  <2>2. CASE j < from
    BY <2>1, <2>2
  <2>3. CASE j >= from
    <3>1. j \in from .. k - 1 /\ j \in 1 .. C
      BY <1>1, <2>1, <2>3
    <3>2. QED
      BY <3>1, <1>4, <1>9
  <2>4. QED
    BY <2>1, <2>2, <2>3
<1>11. QED
  BY <1>1, <1>9, <1>10

-----------------------------------------------------------------------------
(* The operations of Prog *)

Redirect(s, e, g) == [r \in Ents |-> IF s.bind[r] = e THEN g ELSE s.bind[r]]

LEMMA EnterFields ==
  ASSUME NEW s \in States, NEW g \in Ents
  PROVE  /\ Enter(s, g) \in States
         /\ Enter(s, g).table = [s.table EXCEPT ![s.label[g]] = g]
         /\ Enter(s, g).label = s.label /\ Enter(s, g).bind = s.bind
         /\ Enter(s, g).gone = s.gone /\ Enter(s, g).fatal = s.fatal
         /\ Enter(s, g).unique1 = s.unique1 /\ Enter(s, g).unique2 = s.unique2
BY DEF Enter, States

\* A global that gives way to another: its uses are redirected, it is erased.
GivesWay(s, prev, g) == EraseFromParent(ReplaceAllUses(s, prev, g), prev)

LEMMA GivesWayFields ==
  ASSUME NEW s \in States, NEW prev \in Ents, NEW g \in Ents
  PROVE  LET t == GivesWay(s, prev, g)
         IN  /\ t \in States
             /\ t.table = [s.table EXCEPT ![s.label[prev]] = Null]
             /\ t.label = s.label /\ t.bind = Redirect(s, prev, g)
             /\ t.gone = s.gone \cup {prev} /\ t.fatal = s.fatal
             /\ t.unique1 = s.unique1 /\ t.unique2 = s.unique2
<1> DEFINE b == Redirect(s, prev, g)
           u == [s EXCEPT !.bind = b]
           tb == [u.table EXCEPT ![u.label[prev]] = Null]
           v == [u EXCEPT !.table = tb]
<1>1. b \in [Ents -> Ents]
  BY DEF Redirect, States
<1>2. u \in States /\ u.table = s.table /\ u.label = s.label /\ u.bind = b /\ u.gone = s.gone
      /\ u.fatal = s.fatal /\ u.unique1 = s.unique1 /\ u.unique2 = s.unique2
  BY <1>1 DEF States
<1> HIDE DEF b, u
<1>3. tb \in [Labels -> Ents \cup {Null}]
  BY <1>2 DEF States
<1> HIDE DEF tb
<1>4. v \in States /\ v.table = tb /\ v.label = u.label /\ v.bind = u.bind /\ v.gone = u.gone
      /\ v.fatal = u.fatal /\ v.unique1 = u.unique1 /\ v.unique2 = u.unique2
  BY <1>2, <1>3 DEF States
<1>5. GivesWay(s, prev, g) = [v EXCEPT !.gone = @ \cup {prev}]
  BY DEF GivesWay, EraseFromParent, Discard, ReplaceAllUses, Redirect, b, u, tb
<1> HIDE DEF v
<1> DEFINE t == [v EXCEPT !.gone = @ \cup {prev}]
<1>6. t \in States /\ t.table = v.table /\ t.label = v.label /\ t.bind = v.bind
      /\ t.gone = v.gone \cup {prev}
      /\ t.fatal = v.fatal /\ t.unique1 = v.unique1 /\ t.unique2 = v.unique2
  BY <1>4 DEF States
<1> HIDE DEF t
<1>7. QED
  BY <1>2, <1>4, <1>5, <1>6 DEF b, tb, t

LEMMA DiscardFields ==
  ASSUME NEW s \in States, NEW e \in Ents, NEW g \in Ents
  PROVE  LET t == Discard(ReplaceAllUses(s, e, g), e)
         IN  /\ t \in States
             /\ t.table = s.table /\ t.label = s.label /\ t.bind = Redirect(s, e, g)
             /\ t.gone = s.gone \cup {e} /\ t.fatal = s.fatal
             /\ t.unique1 = s.unique1 /\ t.unique2 = s.unique2
<1>1. Redirect(s, e, g) \in [Ents -> Ents]
  BY DEF Redirect, States
<1> DEFINE u == [s EXCEPT !.bind = Redirect(s, e, g)]
           t == [u EXCEPT !.gone = @ \cup {e}]
<1>2. Discard(ReplaceAllUses(s, e, g), e) = t
  BY DEF Discard, ReplaceAllUses, Redirect
<1>3. u \in States /\ u.table = s.table /\ u.label = s.label /\ u.bind = Redirect(s, e, g)
      /\ u.gone = s.gone /\ u.fatal = s.fatal
      /\ u.unique1 = s.unique1 /\ u.unique2 = s.unique2
  BY <1>1 DEF States
<1> HIDE DEF u
<1>4. t \in States /\ t.table = u.table /\ t.label = u.label /\ t.bind = u.bind
      /\ t.gone = u.gone \cup {e} /\ t.fatal = u.fatal
      /\ t.unique1 = u.unique1 /\ t.unique2 = u.unique2
  BY <1>3 DEF States
<1> HIDE DEF t
<1>5. QED
  BY <1>2, <1>3, <1>4

\* A global that is not in the program enters it under a name that is free.
LEMMA EnterGood ==
  ASSUME NEW s, NEW L, Good(s, L),
         NEW g \in Ents \ L, g \notin s.gone, s.table[s.label[g]] = Null
  PROVE  Good(Enter(s, g), L \cup {g})
<1> DEFINE t == Enter(s, g)
<1>1. /\ s \in States /\ t \in States
      /\ t.table = [s.table EXCEPT ![s.label[g]] = g]
      /\ t.label = s.label /\ t.bind = s.bind /\ t.gone = s.gone /\ t.fatal = s.fatal
      /\ t.unique1 = s.unique1 /\ t.unique2 = s.unique2
  BY EnterFields DEF Good
<1>2. s.table \in [Labels -> Ents \cup {Null}] /\ s.label \in [Ents -> Labels] /\ Null \notin Ents
  BY EntsFacts DEF Good, States
<1> HIDE DEF t
<1>3. \A e \in L \cup {g} : t.table[t.label[e]] = e
  BY <1>1, <1>2 DEF Good
<1>4. \A l \in Labels : t.table[l] # Null => t.table[l] \in L \cup {g} /\ t.label[t.table[l]] = l
  BY <1>1, <1>2 DEF Good
<1>5. \A j : Held(t, j) <=> Held(s, j)
  BY <1>1 DEF Held
<1>6. QED
  BY <1>1, <1>3, <1>4, <1>5 DEF Good, t

\* A global of the program gives way to one that is not gone.
LEMMA GivesWayGood ==
  ASSUME NEW s, NEW L, Good(s, L),
         NEW prev \in L, NEW g \in Ents, g # prev, g \notin s.gone
  PROVE  Good(GivesWay(s, prev, g), L \ {prev})
<1> DEFINE t == GivesWay(s, prev, g)
<1>0. prev \in Ents /\ s \in States
  BY DEF Good
<1>1. /\ s \in States /\ t \in States
      /\ t.table = [s.table EXCEPT ![s.label[prev]] = Null]
      /\ t.label = s.label /\ t.bind = Redirect(s, prev, g)
      /\ t.gone = s.gone \cup {prev} /\ t.fatal = s.fatal
      /\ t.unique1 = s.unique1 /\ t.unique2 = s.unique2
  BY <1>0, GivesWayFields
<1>2. s.table \in [Labels -> Ents \cup {Null}] /\ s.label \in [Ents -> Labels] /\ Null \notin Ents
  BY EntsFacts DEF Good, States
<1> HIDE DEF t
<1>3. \A e \in L \ {prev} : t.table[t.label[e]] = e
  BY <1>1, <1>2 DEF Good
<1>4. \A l \in Labels : t.table[l] # Null => t.table[l] \in L \ {prev} /\ t.label[t.table[l]] = l
  BY <1>0, <1>1, <1>2 DEF Good
<1>5. \A j : Held(t, j) <=> Held(s, j)
  BY <1>1 DEF Held
<1>6. \A r \in Ents : t.bind[r] \notin t.gone
  BY <1>1 DEF Good, Redirect
<1>7. QED
  BY <1>1, <1>3, <1>4, <1>5, <1>6 DEF Good, t

\* A global outside the program is left behind in favour of one inside.
LEMMA DiscardGood ==
  ASSUME NEW s, NEW L, Good(s, L), NEW g \in L, NEW e \in Ents \ L
  PROVE  Good(Discard(ReplaceAllUses(s, e, g), e), L)
<1> DEFINE t == Discard(ReplaceAllUses(s, e, g), e)
<1>0. g \in Ents /\ g \notin s.gone /\ s \in States
  BY DEF Good
<1>1. /\ t \in States
      /\ t.table = s.table /\ t.label = s.label /\ t.bind = Redirect(s, e, g)
      /\ t.gone = s.gone \cup {e} /\ t.fatal = s.fatal
      /\ t.unique1 = s.unique1 /\ t.unique2 = s.unique2
  BY <1>0, DiscardFields
<1> HIDE DEF t
<1>2. \A j : Held(t, j) <=> Held(s, j)
  BY <1>1 DEF Held
<1>3. \A r \in Ents : t.bind[r] \notin t.gone
  BY <1>0, <1>1 DEF Good, Redirect
<1>4. QED
  BY <1>1, <1>2, <1>3 DEF Good, t

\* A global takes the label <<its name, k>>; c1 and c2 are the counters after it.
Renamed(s, g, k, c1, c2) ==
  [s EXCEPT !.label = [@ EXCEPT ![g] = <<g[2], k>>],
            !.table = [@ EXCEPT ![<<g[2], k>>] = g],
            !.unique1 = c1, !.unique2 = c2]

Numbers(s, g, l, c1, c2, t) ==
  /\ t \in States
  /\ t.table = [s.table EXCEPT ![l] = g]
  /\ t.label = [s.label EXCEPT ![g] = l]
  /\ t.bind = s.bind /\ t.gone = s.gone /\ t.fatal = s.fatal
  /\ t.unique1 = c1 /\ t.unique2 = c2

LEMMA RenamedFields ==
  ASSUME NEW s \in States, NEW g \in Ents, NEW k \in 1 .. Cardinality(Ents),
         NEW c1, c1 \in Nat, NEW c2, c2 \in Nat, NEW t, t = Renamed(s, g, k, c1, c2)
  PROVE  Numbers(s, g, <<g[2], k>>, c1, c2, t)
<1>1. <<g[2], k>> \in Labels
  BY EntsFacts
<1> DEFINE lb == [s.label EXCEPT ![g] = <<g[2], k>>]
           tb == [s.table EXCEPT ![<<g[2], k>>] = g]
<1>2. lb \in [Ents -> Labels] /\ tb \in [Labels -> Ents \cup {Null}]
  BY <1>1 DEF States
<1> HIDE DEF lb, tb
<1>3. Renamed(s, g, k, c1, c2)
        = [s EXCEPT !.label = lb, !.table = tb, !.unique1 = c1, !.unique2 = c2]
  BY DEF Renamed, lb, tb, States
<1>4. Renamed(s, g, k, c1, c2) \in States
  BY <1>2, <1>3 DEF States
<1>5. QED
  BY <1>3, <1>4 DEF Numbers, States, lb, tb

\* The globals of L are in the program, and g among them has no number and is
\* not in the table.
Unlisted(s, L, g) ==
  /\ s \in States /\ ~s.fatal /\ L \subseteq Ents /\ s.gone \cap L = {}
  /\ g \in L /\ s.label[g] = <<g[2], 0>>
  /\ \A e \in L \ {g} : s.table[s.label[e]] = e
  /\ \A l \in Labels : s.table[l] # Null =>
       s.table[l] \in L \ {g} /\ s.label[s.table[l]] = l
  /\ \A e \in Ents : s.label[e][1] = e[2]
  /\ \A r \in Ents : s.bind[r] \notin s.gone
  /\ s.unique1 > 0 /\ s.unique2 > 0
  /\ \A j \in 1 .. s.unique1 - 1 : Held(s, j)
  /\ \A j \in 1 .. s.unique2 - 1 : Held(s, j)

\* Such a global takes a number nobody has.
LEMMA RenamedGood ==
  ASSUME NEW s, NEW L, NEW g, Unlisted(s, L, g),
         NEW k \in 1 .. Cardinality(Ents), s.table[<<g[2], k>>] = Null,
         NEW c1 \in Nat \ {0}, NEW c2 \in Nat \ {0},
         \A j \in 1 .. c1 - 1 : j = k \/ Held(s, j),
         \A j \in 1 .. c2 - 1 : j = k \/ Held(s, j)
  PROVE  Good(Renamed(s, g, k, c1, c2), L)
<1> USE DEF Unlisted
<1> DEFINE t == Renamed(s, g, k, c1, c2)
           l0 == <<g[2], k>>
<1>1. /\ t \in States
      /\ t.table = [s.table EXCEPT ![l0] = g]
      /\ t.label = [s.label EXCEPT ![g] = l0]
      /\ t.bind = s.bind /\ t.gone = s.gone /\ t.fatal = s.fatal
      /\ t.unique1 = c1 /\ t.unique2 = c2
  <2>1. c1 \in Nat /\ c2 \in Nat /\ s \in States /\ g \in Ents
    OBVIOUS
  <2>2. Numbers(s, g, l0, c1, c2, t)
    BY <2>1, RenamedFields
  <2>3. QED
    BY <2>2 DEF Numbers
<1>2. s.table \in [Labels -> Ents \cup {Null}] /\ s.label \in [Ents -> Labels] /\ Null \notin Ents
  BY EntsFacts DEF States
<1>3. l0 \in Labels /\ l0[1] = g[2] /\ l0[2] = k /\ s.label[g][2] = 0
  BY EntsFacts
<1> HIDE DEF t, l0
<1>4. \A e \in L : t.table[t.label[e]] = e
  BY <1>1, <1>2, <1>3 DEF l0
<1>5. \A l \in Labels : t.table[l] # Null => t.table[l] \in L /\ t.label[t.table[l]] = l
  BY <1>1, <1>2, <1>3
<1>6. \A e \in Ents : t.label[e][1] = e[2]
  BY <1>1, <1>2, <1>3
<1>7. \A j \in Nat : j # 0 /\ Held(s, j) => Held(t, j)
  BY <1>1, <1>2, <1>3 DEF Held
<1>8. Held(t, k)
  BY <1>1, <1>2, <1>3 DEF Held
<1>9. /\ \A j \in 1 .. c1 - 1 : Held(t, j)
      /\ \A j \in 1 .. c2 - 1 : Held(t, j)
  BY <1>7, <1>8
<1>10. QED
  BY <1>1, <1>4, <1>5, <1>6, <1>9 DEF Good, t

\* No reference moves, and what the table has for other names stays.
Apart(s, n, t) == t.bind = s.bind /\ \A l \in Labels : l[1] # n => t.table[l] = s.table[l]

\* A local global that comes to a taken name is renamed.
LEMMA RenameNewGood ==
  ASSUME NEW s, NEW L, Good(s, L),
         NEW g \in Ents \ L, g \notin s.gone, s.label[g] = <<g[2], 0>>
  PROVE  LET t == RenameNew(s, g)
         IN  /\ Good(t, L \cup {g})
             /\ t.gone = s.gone /\ Apart(s, g[2], t)
             /\ \A e \in Ents \ {g} : t.label[e] = s.label[e]
<1> DEFINE k == FreshNumber(s, g[2], s.unique1)
           c == k + 1
           t == Renamed(s, g, k, c, s.unique2)
<1>1. s \in States /\ s.unique1 \in Nat \ {0} /\ s.unique2 \in Nat \ {0} /\ g[2] \in Names
  BY EntsFacts DEF Good, States
<1>2. s.label[g][2] = 0
  OBVIOUS
<1>3. /\ k \in 1 .. Cardinality(Ents) /\ s.table[<<g[2], k>>] = Null
      /\ \A j \in 1 .. k - 1 : Held(s, j)
  <2>1. /\ \A j \in 1 .. s.unique1 - 1 : Held(s, j)
        /\ \A l \in Labels : l[2] # 0 /\ s.table[l] # Null =>
             s.table[l] \in Ents /\ s.label[s.table[l]] = l
    BY DEF Good
  <2>2. QED
    BY <1>1, <1>2, <2>1, FreshFound
<1>4. RenameNew(s, g) = t
  BY <1>1 DEF RenameNew, Enter, Renamed, States
<1> HIDE DEF k
<1>5. k \in Nat /\ c \in Nat \ {0}
  BY <1>3, EntsFacts
<1>6. \A j \in 1 .. c - 1 : j = k \/ Held(s, j)
  BY <1>3, <1>5
<1> HIDE DEF c
<1>7. \A j \in 1 .. s.unique2 - 1 : j = k \/ Held(s, j)
  BY DEF Good
<1>8. Good(t, L \cup {g})
  <2>1. Unlisted(s, L \cup {g}, g)
    BY DEF Good, Unlisted
  <2>2. QED
    BY <1>1, <1>3, <1>5, <1>6, <1>7, <2>1, RenamedGood
<1>9. /\ t.table = [s.table EXCEPT ![<<g[2], k>>] = g]
      /\ t.label = [s.label EXCEPT ![g] = <<g[2], k>>]
      /\ t.bind = s.bind /\ t.gone = s.gone
  <2>1. PICK d : d = s.unique2 /\ d \in Nat
    BY <1>1
  <2>2. PICK b : b = c /\ b \in Nat
    BY <1>5
  <2>3. t = Renamed(s, g, k, b, d)
    BY <2>1, <2>2
  <2> HIDE DEF t
  <2>4. Numbers(s, g, <<g[2], k>>, b, d, t)
    BY <1>1, <1>3, <2>1, <2>2, <2>3, RenamedFields
  <2>5. QED
    BY <2>4 DEF Numbers
<1>10. Apart(s, g[2], t)
  BY <1>1, <1>9 DEF Apart, States
<1> HIDE DEF t
<1>11. QED
  BY <1>1, <1>4, <1>8, <1>9, <1>10 DEF States

LEMMA RenamePrevRecord ==
  ASSUME NEW s \in States, NEW g \in Ents, NEW k \in Nat, NEW c \in Nat, c = k + 1
  PROVE  Enter([s EXCEPT !.label[g] = <<g[2], k>>, !.unique2 = k + 1], g)
           = Renamed(s, g, k, s.unique1, c)
BY DEF Enter, Renamed, States

\* RenamePrev, once the label of the global belongs to another.
LEMMA RenamePrevOf ==
  ASSUME NEW s, NEW L, NEW g, Unlisted(s, L, g)
  PROVE  LET t == RenamePrev(s, g)
         IN  /\ Good(t, L)
             /\ t.gone = s.gone /\ t.bind = s.bind
             /\ \A e \in Ents \ {g} : t.label[e] = s.label[e]
             /\ \A l \in Labels : l[1] # g[2] => t.table[l] = s.table[l]
<1> DEFINE k == FreshNumber(s, g[2], s.unique2)
           c == k + 1
           t == Renamed(s, g, k, s.unique1, c)
<1>1. /\ s.unique1 \in Nat \ {0} /\ s.unique2 \in Nat \ {0} /\ g[2] \in Names /\ g \in Ents
      /\ s \in States
  BY EntsFacts DEF States, Unlisted
<1>2. /\ s.label[g][2] = 0
      /\ \A j \in 1 .. s.unique2 - 1 : Held(s, j)
      /\ \A j \in 1 .. s.unique1 - 1 : Held(s, j)
      /\ \A l \in Labels : l[2] # 0 /\ s.table[l] # Null =>
           s.table[l] \in Ents /\ s.label[s.table[l]] = l
  BY DEF Unlisted
<1>3. /\ k \in 1 .. Cardinality(Ents) /\ s.table[<<g[2], k>>] = Null
      /\ \A j \in 1 .. k - 1 : Held(s, j)
  BY <1>1, <1>2, FreshFound
<1> HIDE DEF k
<1>5. k \in Nat /\ c \in Nat \ {0}
  BY <1>3, EntsFacts
<1>4. RenamePrev(s, g) = t
  BY <1>1, <1>5, RenamePrevRecord DEF RenamePrev, k
<1>6. \A j \in 1 .. c - 1 : j = k \/ Held(s, j)
  BY <1>3, <1>5
<1> HIDE DEF c
<1>7. Good(t, L)
  BY <1>1, <1>2, <1>3, <1>5, <1>6, RenamedGood
<1>8. /\ t.table = [s.table EXCEPT ![<<g[2], k>>] = g]
      /\ t.label = [s.label EXCEPT ![g] = <<g[2], k>>]
      /\ t.bind = s.bind /\ t.gone = s.gone
  <2>1. PICK d : d = s.unique1 /\ d \in Nat
    BY <1>1
  <2>2. PICK b : b = c /\ b \in Nat
    BY <1>5
  <2>3. t = Renamed(s, g, k, d, b)
    BY <2>1, <2>2
  <2> HIDE DEF t
  <2>4. Numbers(s, g, <<g[2], k>>, d, b, t)
    BY <1>1, <1>3, <2>1, <2>2, <2>3, RenamedFields
  <2>5. QED
    BY <2>4 DEF Numbers
<1>9. QED
  BY <1>1, <1>4, <1>7, <1>8 DEF States

\* A local global whose name is taken over is renamed.
LEMMA RenamePrevGood ==
  ASSUME NEW s, NEW L, Good(s, L),
         NEW g \in Ents \ L, g \notin s.gone, s.label[g] = <<g[2], 0>>,
         NEW prev \in L, s.table[s.label[g]] = prev
  PROVE  LET t == RenamePrev(Enter(s, g), prev)
         IN  /\ Good(t, L \cup {g})
             /\ t.gone = s.gone /\ Apart(s, g[2], t)
             /\ \A e \in Ents \ {prev} : t.label[e] = s.label[e]
<1> DEFINE M == L \cup {g}
<1>1. /\ s \in States /\ prev \in Ents /\ prev # g /\ s.label[g] \in Labels
      /\ s.unique1 \in Nat \ {0} /\ s.unique2 \in Nat \ {0}
  BY EntsFacts DEF Good, States
<1>2. s.label[prev] = s.label[g] /\ prev[2] = g[2]
  <2>1. s.label[prev] = s.label[g]
    BY <1>1, EntsFacts DEF Good
  <2>2. s.label[prev][1] = prev[2] /\ s.label[g][1] = g[2]
    BY <1>1 DEF Good
  <2>3. QED
    BY <2>1, <2>2
<1>3. PICK u \in States : u = Enter(s, g)
  BY <1>1, EnterFields
<1>4. /\ u.table = [s.table EXCEPT ![s.label[g]] = g]
      /\ u.label = s.label /\ u.bind = s.bind /\ u.gone = s.gone /\ u.fatal = s.fatal
      /\ u.unique1 = s.unique1 /\ u.unique2 = s.unique2
  BY <1>1, <1>3, EnterFields
<1>5. s.table \in [Labels -> Ents \cup {Null}] /\ s.label \in [Ents -> Labels] /\ Null \notin Ents
  BY EntsFacts DEF Good, States
<1>6. Unlisted(u, M, prev)
  <2>1. \A e \in M \ {prev} : u.table[u.label[e]] = e
    BY <1>1, <1>4, <1>5 DEF Good
  <2>2. \A l \in Labels : u.table[l] # Null =>
          u.table[l] \in M \ {prev} /\ u.label[u.table[l]] = l
    BY <1>1, <1>2, <1>4, <1>5 DEF Good
  <2>3. \A j : Held(u, j) <=> Held(s, j)
    BY <1>4 DEF Held
  <2>4. QED
    BY <1>1, <1>2, <1>4, <2>1, <2>2, <2>3 DEF Good, Unlisted
<1> DEFINE t == RenamePrev(u, prev)
<1>10. /\ Good(t, M)
       /\ t.gone = u.gone /\ t.bind = u.bind
       /\ \A e \in Ents \ {prev} : t.label[e] = u.label[e]
       /\ \A l \in Labels : l[1] # prev[2] => t.table[l] = u.table[l]
  BY <1>6, RenamePrevOf
<1> HIDE DEF t
<1>11. \A l \in Labels : l[1] # g[2] => t.table[l] = s.table[l]
  <2>1. s.label[g][1] = g[2]
    BY <1>1 DEF Good
  <2>2. QED
    BY <1>2, <1>4, <1>5, <1>10, <2>1
<1>12. Apart(s, g[2], t)
  BY <1>4, <1>10, <1>11 DEF Apart
<1>13. QED
  BY <1>3, <1>4, <1>10, <1>12 DEF M, t

-----------------------------------------------------------------------------
(* A global comes to the program *)

\* The five things that may happen to a global e that comes to state s, where w
\* is what the table has for its name: it enters the table, it replaces w, it is
\* dropped in favour of w, one of the two is renamed, or the merge fails.
Enters(s, e, t) == s.table[s.label[e]] = Null /\ t = Enter(s, e)

Replaces(s, e, w, t) ==
  /\ t = Enter(GivesWay(s, w, e), e)
  /\ \/ IsExtern(w) /\ (IsExtern(e) => (HasValue(w) => HasValue(e)))
     \/ IsWeak(w) /\ ~IsExtern(e) /\ ~IsLocal(e)

Yields(s, e, w, t) ==
  /\ t = Discard(ReplaceAllUses(s, e, w), e)
  /\ \/ IsExtern(e) /\ ~IsLocal(w) /\ ~IsExtern(w)
     \/ IsExtern(e) /\ HasValue(w) /\ ~HasValue(e)
     \/ IsWeak(e) /\ ~IsExtern(w)

Renames(s, e, w, t) ==
  \/ IsLocal(e) /\ t = RenameNew(s, e)
  \/ IsLocal(w) /\ t = RenamePrev(Enter(s, e), w)

Fails(s, t) == t = [s EXCEPT !.fatal = TRUE]

Comes(s, e, t) ==
  LET w == s.table[s.label[e]]
  IN  \/ Enters(s, e, t)
      \/ w # Null /\ (Replaces(s, e, w, t) \/ Yields(s, e, w, t) \/ Renames(s, e, w, t))
      \/ Fails(s, t)

LEMMA FormFacts ==
  ASSUME TypeOK
  PROVE  \A e \in Ents : /\ IsExtern(e) => ~IsLocal(e) /\ ~IsWeak(e)
                         /\ HasValue(e) => IsExtern(e)
                         /\ IsLocal(e) => ~IsWeak(e)
                         /\ e \in Present => IsExtern(e) \/ IsStrong(e) \/ IsWeak(e) \/ IsLocal(e)
BY DEF TypeOK, Forms, IsExtern, IsLocal, IsWeak, HasValue, IsStrong, Present

LEMMA InsertComes ==
  ASSUME TypeOK, NEW s, NEW e \in Ents, ~IsExtern(e)
  PROVE  Comes(s, e, InsertGlobal(s, e))
BY DEF InsertGlobal, Comes, Enters, Replaces, Renames, Fails, GivesWay

\* An extern that replaces another enters the table at once.
LEMMA ExternComes ==
  ASSUME TypeOK, NEW s, NEW L, Good(s, L), NEW e \in Ents \ L, IsExtern(e)
  PROVE  Comes(s, e, MergeExtern(s, e))
<1> DEFINE w == s.table[s.label[e]]
<1>1. s \in States /\ s.label[e] \in Labels
  BY DEF Good, States
<1>2. CASE w = Null
  BY <1>2 DEF MergeExtern, InsertGlobal, Comes, Enters
<1>3. CASE w # Null
  <2>1. w \in L /\ w \in Ents /\ s.label[w] = s.label[e]
    BY <1>1, <1>3 DEF Good
  <2>2. CASE IsLocal(w)
    BY <1>3, <2>1, <2>2, FormFacts DEF MergeExtern, InsertGlobal, Comes, Renames
  <2>3. CASE ~IsLocal(w) /\ IsExtern(w) /\ (HasValue(w) => HasValue(e))
    <3> DEFINE u == GivesWay(s, w, e)
    <3>1. u.table = [s.table EXCEPT ![s.label[w]] = Null] /\ u.label = s.label
      BY <1>1, <2>1, GivesWayFields
    <3>2. u.table[u.label[e]] = Null
      BY <1>1, <2>1, <3>1 DEF States
    <3>3. MergeExtern(s, e) = InsertGlobal(u, e)
      BY <1>3, <2>3 DEF MergeExtern, GivesWay
    <3>4. InsertGlobal(u, e) = Enter(u, e)
      BY <3>2 DEF InsertGlobal
    <3>5. QED
      BY <1>3, <2>3, <3>3, <3>4 DEF Comes, Replaces
  <2>4. CASE ~IsLocal(w) /\ ~(IsExtern(w) /\ (HasValue(w) => HasValue(e)))
    BY <1>3, <2>4 DEF MergeExtern, Comes, Yields
  <2>5. QED
    BY <2>2, <2>3, <2>4
<1>4. QED
  BY <1>2, <1>3

LEMMA FuncComes ==
  ASSUME TypeOK, NEW s, NEW e \in Ents, ~IsExtern(e)
  PROVE  Comes(s, e, MergeFunc(s, e))
BY InsertComes DEF MergeFunc, Comes, Yields

LEMMA MergeComes ==
  ASSUME TypeOK, NEW L, Good(st, L), NEW e \in Ents \ L, Merge(e)
  PROVE  Comes(st, e, st')
<1>1. form[e].kind \in {"extern", "alias", "func", "atom"}
  BY DEF Merge, Pending, Present, TypeOK, Forms
<1>2. CASE IsExtern(e)
  <2>1. st' = MergeExtern(st, e)
    BY <1>2 DEF Merge, IsExtern
  <2>2. QED
    BY <1>2, <2>1, ExternComes
<1>3. CASE form[e].kind = "func"
  <2>1. ~IsExtern(e) /\ st' = MergeFunc(st, e)
    BY <1>3 DEF Merge, IsExtern
  <2>2. QED
    BY <2>1, FuncComes
<1>4. CASE form[e].kind = "atom"
  <2>1. ~IsExtern(e) /\ st' = InsertGlobal(st, e)
    BY <1>4 DEF Merge, IsExtern, MergeAtom
  <2>2. QED
    BY <2>1, InsertComes
<1>5. QED
  BY <1>1, <1>2, <1>3, <1>4 DEF IsExtern

\* Where the merge does not fail, the program is as it should be, with e and
\* without what was dropped; the labels of globals to come are untouched.
LEMMA ComesGood ==
  ASSUME NEW s, NEW L, Good(s, L),
         NEW e \in Ents \ L, e \notin s.gone, s.label[e] = <<e[2], 0>>,
         NEW t, Comes(s, e, t), ~Fails(s, t)
  PROVE  /\ Good(t, (L \cup {e}) \ t.gone)
         /\ s.gone \subseteq t.gone /\ t.gone \subseteq s.gone \cup L \cup {e}
         /\ \A d \in Ents \ (L \cup {e}) : t.label[d] = s.label[d]
<1> DEFINE w == s.table[s.label[e]]
           M == (L \cup {e}) \ t.gone
<1>1. s \in States /\ s.label[e] \in Labels /\ L \subseteq Ents /\ s.gone \cap L = {}
  BY DEF Good, States
<1>2. CASE Enters(s, e, t)
  <2>1. Good(t, L \cup {e})
    BY <1>2, EnterGood DEF Enters
  <2>2. t.gone = s.gone /\ t.label = s.label
    BY <1>1, <1>2, EnterFields DEF Enters
  <2>3. M = L \cup {e}
    BY <1>1, <2>2
  <2>4. QED
    BY <2>1, <2>2, <2>3
<1>3. ASSUME w # Null
      PROVE  w \in L /\ s.label[w] = s.label[e] /\ w \in Ents /\ w # e
  BY <1>1, <1>3 DEF Good
<1>4. CASE w # Null /\ Replaces(s, e, w, t)
  <2> DEFINE u == GivesWay(s, w, e)
  <2>1. w \in L /\ w \in Ents /\ w # e /\ s.label[w] = s.label[e] /\ w \notin s.gone
    BY <1>1, <1>3, <1>4
  <2>2. /\ u \in States /\ u.table = [s.table EXCEPT ![s.label[w]] = Null] /\ u.label = s.label
        /\ u.gone = s.gone \cup {w}
    BY <1>1, <2>1, GivesWayFields
  <2>3. Good(u, L \ {w})
    BY <2>1, GivesWayGood
  <2>4. u.table[u.label[e]] = Null /\ e \notin u.gone
    BY <1>1, <2>1, <2>2 DEF States
  <2> HIDE DEF u
  <2>5. t = Enter(u, e)
    BY <1>4 DEF Replaces, u
  <2>6. Good(t, (L \ {w}) \cup {e})
    BY <2>3, <2>4, <2>5, EnterGood
  <2>7. t.gone = s.gone \cup {w} /\ t.label = s.label
    BY <2>2, <2>5, EnterFields
  <2>8. M = (L \ {w}) \cup {e}
    BY <1>1, <2>1, <2>7
  <2>9. QED
    BY <2>1, <2>6, <2>7, <2>8
<1>5. CASE w # Null /\ Yields(s, e, w, t)
  <2>1. w \in L /\ w \in Ents /\ t = Discard(ReplaceAllUses(s, e, w), e)
    BY <1>3, <1>5 DEF Yields
  <2>2. Good(t, L)
    BY <2>1, DiscardGood
  <2>3. t.gone = s.gone \cup {e} /\ t.label = s.label
    BY <1>1, <2>1, DiscardFields
  <2>4. M = L
    BY <1>1, <2>3
  <2>5. QED
    BY <2>2, <2>3, <2>4
<1>6. CASE w # Null /\ Renames(s, e, w, t)
  <2>1. w \in L /\ w \in Ents
    BY <1>3, <1>6
  <2>2. /\ Good(t, L \cup {e}) /\ t.gone = s.gone
        /\ \A d \in Ents \ (L \cup {e}) : t.label[d] = s.label[d]
    <3>1. CASE t = RenameNew(s, e)
      BY <3>1, RenameNewGood
    <3>2. CASE t = RenamePrev(Enter(s, e), w)
      BY <2>1, <3>2, RenamePrevGood
    <3>3. QED
      BY <1>6, <3>1, <3>2 DEF Renames
  <2>3. M = L \cup {e}
    BY <1>1, <2>2
  <2>4. QED
    BY <2>2, <2>3
<1>7. QED
  BY <1>2, <1>4, <1>5, <1>6 DEF Comes

-----------------------------------------------------------------------------
(* The table and the references *)

Inv ==
  /\ TypeOK
  /\ ~st.fatal => Good(st, Live)
  /\ \A r \in Ents : st.bind[r] \notin st.gone
  /\ \A e \in Ents \ merged : st.label[e] = <<e[2], 0>>

LEMMA InitInv == Init => Inv
<1> SUFFICES ASSUME Init PROVE Inv
  OBVIOUS
<1>1. \A e \in Ents : <<e[2], 0>> \in Labels /\ <<e[2], 0>>[1] = e[2]
  BY EntsFacts
<1>2. st \in States /\ st.table = [l \in Labels |-> Null] /\ st.label = [e \in Ents |-> <<e[2], 0>>]
      /\ st.bind = [e \in Ents |-> e] /\ st.gone = {} /\ st.unique1 = 1 /\ st.unique2 = 1
      /\ st.fatal = FALSE
  BY <1>1 DEF Init, States
<1>3. merged = {} /\ form \in [Ents -> Forms]
  BY DEF Init
<1>4. Good(st, Live)
  BY <1>1, <1>2, <1>3 DEF Good, Live
<1>5. QED
  BY <1>2, <1>3, <1>4 DEF Inv, TypeOK

LEMMA StepInv ==
  ASSUME Inv, NEW e \in Ents, Merge(e)
  PROVE  Inv'
<1>1. TypeOK /\ ~st.fatal /\ e \in Present /\ e \notin merged /\ merged' = merged \cup {e} /\ form' = form
  BY DEF Inv, Merge, Pending
<1>2. Good(st, Live) /\ e \notin Live /\ e \notin st.gone /\ st.label[e] = <<e[2], 0>>
  BY <1>1 DEF Inv, Live, TypeOK
<1>3. Comes(st, e, st')
  BY <1>1, <1>2, MergeComes
<1>4. Present' = Present
  BY <1>1 DEF Present
<1>5. CASE Fails(st, st')
  <2>1. st' \in States /\ st'.fatal /\ st'.gone = st.gone /\ st'.bind = st.bind /\ st'.label = st.label
    BY <1>1, <1>5 DEF Fails, TypeOK, States
  <2>2. QED
    BY <1>1, <1>4, <2>1 DEF Inv, TypeOK
<1>6. CASE ~Fails(st, st')
  <2>1. /\ Good(st', (Live \cup {e}) \ st'.gone)
        /\ st.gone \subseteq st'.gone /\ st'.gone \subseteq st.gone \cup Live \cup {e}
        /\ \A d \in Ents \ (Live \cup {e}) : st'.label[d] = st.label[d]
    BY <1>2, <1>3, <1>6, ComesGood
  <2>2. Live' = (Live \cup {e}) \ st'.gone
    BY <1>1, <1>2, <2>1 DEF Live
  <2>3. TypeOK'
    BY <1>1, <1>4, <2>1 DEF TypeOK, Good, Live
  <2>4. \A d \in Ents \ merged' : st'.label[d] = <<d[2], 0>>
    BY <1>1, <2>1 DEF Inv, Live
  <2>5. QED
    BY <2>1, <2>2, <2>3, <2>4 DEF Inv, Good
<1>7. QED
  BY <1>5, <1>6

LEMMA InvInductive == Spec => []Inv
<1>1. Inv /\ [Next]_vars => Inv'
  <2> SUFFICES ASSUME Inv, [Next]_vars PROVE Inv'
    OBVIOUS
  <2>1. CASE UNCHANGED vars
    BY <2>1 DEF vars, Inv, TypeOK, Present, Good, Live, Held
  <2>2. QED
    BY <2>1, StepInv DEF Next, Done
<1>2. QED
  BY <1>1, InitInv, PTL DEF Spec

\* The state keeps its types: the numbers after "$local" stay within the number
\* of globals, so that the search for a free one always ends.
THEOREM MergeType == Spec => []TypeOK
BY InvInductive, PTL DEF Inv

\* However many modules are merged, insertGlobal and Merge keep the symbol table
\* and the globals in agreement.
THEOREM TableCorrect == Spec => []TableExact
<1>1. Inv => TableExact
  BY DEF Inv, Good, TableExact
<1>2. QED
  BY <1>1, InvInductive, PTL

\* No order of replacements leaves a reference on a global that is gone.
THEOREM RefsCorrect == Spec => []RefsAlive
<1>1. Inv => RefsAlive
  BY DEF Inv, RefsAlive, Present
<1>2. QED
  BY <1>1, InvInductive, PTL

-----------------------------------------------------------------------------
(* The strongest definition *)

Same(n) == {e \in Present : e[2] = n}

\* For a name without local symbols: what the table has for the name is the
\* strongest of the globals that came so far and all their references are on
\* it; the references of those to come are still on themselves.
Leads(n) ==
  LET w == st.table[<<n, 0>>]
  IN  ~st.fatal /\ (\A e \in Same(n) : ~IsLocal(e)) =>
        /\ \A r \in Same(n) \ merged : st.bind[r] = r
        /\ \A r \in Same(n) \cap merged : w # Null /\ st.bind[r] = w /\ Rank(r) <= Rank(w)

\* What the table has for a name is a global of that name.
LEMMA LeaderFacts ==
  ASSUME Inv, ~st.fatal, NEW n \in Names, st.table[<<n, 0>>] # Null
  PROVE  LET w == st.table[<<n, 0>>]
         IN  w \in Live /\ w \in Same(n) /\ w \in merged /\ st.label[w] = <<n, 0>>
<1>1. <<n, 0>> \in Labels /\ <<n, 0>>[1] = n
  BY EntsFacts
<1>2. Good(st, Live) /\ TypeOK
  BY DEF Inv
<1>3. QED
  BY <1>1, <1>2 DEF Good, Live, TypeOK, Same, Present

\* The order in which kinds prevail: a global that replaces another is no
\* weaker, one that yields no stronger.
LEMMA RankOrder ==
  ASSUME TypeOK, NEW e \in Present, NEW w \in Present, ~IsLocal(e), ~IsLocal(w), NEW s, NEW t
  PROVE  /\ Rank(e) \in Nat /\ Rank(w) \in Nat
         /\ Replaces(s, e, w, t) => Rank(w) <= Rank(e)
         /\ Yields(s, e, w, t) => Rank(e) <= Rank(w)
<1>1. \A d \in {e, w} : d \in Ents /\ d \in Present /\ ~IsLocal(d)
  BY DEF Present
<1>2. \A d \in {e, w} :
        \/ IsStrong(d) /\ ~IsWeak(d) /\ ~IsExtern(d) /\ Rank(d) = 3
        \/ ~IsStrong(d) /\ IsWeak(d) /\ ~IsExtern(d) /\ Rank(d) = 2
        \/ ~IsStrong(d) /\ ~IsWeak(d) /\ IsExtern(d) /\ HasValue(d) /\ Rank(d) = 1
        \/ ~IsStrong(d) /\ ~IsWeak(d) /\ IsExtern(d) /\ ~HasValue(d) /\ Rank(d) = 0
  <2> SUFFICES ASSUME NEW d \in Ents, d \in Present, ~IsLocal(d)
               PROVE  \/ IsStrong(d) /\ ~IsWeak(d) /\ ~IsExtern(d) /\ Rank(d) = 3
                      \/ ~IsStrong(d) /\ IsWeak(d) /\ ~IsExtern(d) /\ Rank(d) = 2
                      \/ ~IsStrong(d) /\ ~IsWeak(d) /\ IsExtern(d) /\ HasValue(d) /\ Rank(d) = 1
                      \/ ~IsStrong(d) /\ ~IsWeak(d) /\ IsExtern(d) /\ ~HasValue(d) /\ Rank(d) = 0
    BY <1>1
  <2>1. \/ IsStrong(d) /\ ~IsWeak(d) /\ ~IsExtern(d) /\ ~HasValue(d)
        \/ ~IsStrong(d) /\ IsWeak(d) /\ ~IsExtern(d) /\ ~HasValue(d)
        \/ ~IsStrong(d) /\ ~IsWeak(d) /\ IsExtern(d)
    BY DEF TypeOK, Forms, IsExtern, IsLocal, IsWeak, HasValue, IsStrong, Present
  <2>2. QED
    BY <2>1 DEF Rank
<1>3. QED
  BY <1>1, <1>2, FormFacts DEF Replaces, Yields

\* A renaming moves no reference and leaves the other names alone.
LEMMA RenamesApart ==
  ASSUME NEW s, NEW L, Good(s, L),
         NEW e \in Ents \ L, e \notin s.gone, s.label[e] = <<e[2], 0>>,
         NEW w \in L, s.table[s.label[e]] = w, NEW t, Renames(s, e, w, t)
  PROVE  Apart(s, e[2], t)
<1>1. CASE t = RenameNew(s, e)
  BY <1>1, RenameNewGood
<1>2. CASE t = RenamePrev(Enter(s, e), w)
  BY <1>2, RenamePrevGood
<1>3. QED
  BY <1>1, <1>2 DEF Renames

LEMMA LeadsStep ==
  ASSUME Inv, NEW n \in Names, Leads(n), NEW e \in Ents, Merge(e)
  PROVE  Leads(n)'
<1>1. /\ TypeOK /\ ~st.fatal /\ e \in Present /\ e \notin merged
      /\ merged' = merged \cup {e} /\ form' = form
  BY DEF Inv, Merge, Pending
<1>2. /\ Good(st, Live) /\ e \notin Live /\ e \notin st.gone /\ st.label[e] = <<e[2], 0>>
      /\ st \in States /\ merged \subseteq Present
  BY <1>1 DEF Inv, Live, TypeOK
<1>3. Comes(st, e, st')
  BY <1>1, <1>2, MergeComes
<1>4. /\ Same(n)' = Same(n) /\ \A d : Rank(d)' = Rank(d)
      /\ (\A d \in Same(n) : ~IsLocal(d))' <=> \A d \in Same(n) : ~IsLocal(d)
  BY <1>1 DEF Same, Present, Rank, IsStrong, IsWeak, HasValue, IsLocal
<1> DEFINE w == st.table[<<n, 0>>]
           v == st.table[st.label[e]]
<1>5. <<n, 0>> \in Labels /\ <<n, 0>>[1] = n /\ e[2] \in Names
      /\ <<e[2], 0>> \in Labels /\ <<e[2], 0>>[1] = e[2]
  BY EntsFacts
<1>6. v # Null => v \in Live /\ v \in Same(e[2]) /\ v \in merged /\ st.label[v] = st.label[e]
  BY <1>1, <1>2, <1>5, LeaderFacts
<1>7. w # Null => w \in Same(n) /\ w \in merged
  BY <1>1, LeaderFacts
<1> SUFFICES ASSUME ~st'.fatal, \A d \in Same(n) : ~IsLocal(d)
             PROVE  /\ \A r \in Same(n) \ merged' : st'.bind[r] = r
                    /\ \A r \in Same(n) \cap merged' :
                         /\ st'.table[<<n, 0>>] # Null /\ st'.bind[r] = st'.table[<<n, 0>>]
                         /\ Rank(r) <= Rank(st'.table[<<n, 0>>])
  BY <1>4 DEF Leads
<1>8. /\ \A r \in Same(n) \ merged : st.bind[r] = r
      /\ \A r \in Same(n) \cap merged : w # Null /\ st.bind[r] = w /\ Rank(r) <= Rank(w)
  BY <1>1 DEF Leads
<1>9. ~Fails(st, st')
  BY <1>2 DEF Fails, States
<1>10. \A r \in Same(n) : r \in Ents /\ r \in Present /\ r[2] = n
  BY DEF Same, Present
<1>11. CASE e[2] # n
  <2>1. Same(n) \cap merged' = Same(n) \cap merged /\ Same(n) \ merged' = Same(n) \ merged
    BY <1>1, <1>11 DEF Same
  <2>2. \A r \in Same(n) : st.bind[r] # e /\ (v # Null => st.bind[r] # v)
    BY <1>6, <1>7, <1>8, <1>10, <1>11 DEF Same
  <2>3. st'.table[<<n, 0>>] = w /\ \A r \in Same(n) : st'.bind[r] = st.bind[r]
    <3>1. CASE Enters(st, e, st')
      <4>1. st'.table = [st.table EXCEPT ![st.label[e]] = e] /\ st'.bind = st.bind
        BY <1>2, <3>1, EnterFields DEF Enters
      <4>2. QED
        BY <1>2, <1>5, <1>11, <4>1 DEF States
    <3>2. CASE v # Null /\ Replaces(st, e, v, st')
      <4> DEFINE u == GivesWay(st, v, e)
      <4>1. v \in Ents
        BY <1>6, <3>2 DEF Same, Present
      <4>2. /\ u \in States /\ u.table = [st.table EXCEPT ![st.label[v]] = Null]
            /\ u.label = st.label /\ u.bind = Redirect(st, v, e)
        BY <1>2, <4>1, GivesWayFields
      <4> HIDE DEF u
      <4>3. st'.table = [u.table EXCEPT ![u.label[e]] = e] /\ st'.bind = u.bind
        BY <3>2, <4>2, EnterFields DEF Replaces, u
      <4>4. st'.table[<<n, 0>>] = w
        BY <1>2, <1>5, <1>6, <1>11, <3>2, <4>2, <4>3 DEF States
      <4>5. QED
        BY <1>10, <2>2, <3>2, <4>2, <4>3, <4>4 DEF Redirect
    <3>3. CASE v # Null /\ Yields(st, e, v, st')
      <4>1. v \in Ents
        BY <1>6, <3>3 DEF Same, Present
      <4>2. st'.table = st.table /\ st'.bind = Redirect(st, e, v)
        BY <1>2, <3>3, <4>1, DiscardFields DEF Yields
      <4>3. QED
        BY <1>10, <2>2, <4>2 DEF Redirect
    <3>4. CASE v # Null /\ Renames(st, e, v, st')
      <4>1. /\ st'.bind = st.bind
            /\ \A l \in Labels : l[1] # e[2] => st'.table[l] = st.table[l]
        BY <1>2, <1>6, <3>4, RenamesApart DEF Apart
      <4>2. QED
        BY <1>5, <1>11, <4>1
    <3>5. QED
      BY <1>3, <1>9, <3>1, <3>2, <3>3, <3>4 DEF Comes
  <2>4. QED
    BY <1>8, <2>1, <2>3
<1>12. CASE e[2] = n
  <2>1. e \in Same(n) /\ v = w /\ ~IsLocal(e) /\ st.bind[e] = e
    BY <1>1, <1>2, <1>8, <1>12 DEF Same
  <2>2. Same(n) \cap merged' = (Same(n) \cap merged) \cup {e}
        /\ Same(n) \ merged' = (Same(n) \ merged) \ {e}
    BY <1>1, <2>1
  <2>3. Rank(e) \in Nat
    BY <1>1, <2>1, RankOrder
  <2>4. CASE Enters(st, e, st')
    <3>1. st'.table = [st.table EXCEPT ![st.label[e]] = e] /\ st'.bind = st.bind /\ w = Null
      BY <1>2, <2>1, <2>4, EnterFields DEF Enters
    <3>2. st'.table[<<n, 0>>] = e
      BY <1>2, <1>5, <1>12, <3>1 DEF States
    <3>3. Same(n) \cap merged' = {e}
      BY <1>8, <2>2, <3>1
    <3>4. QED
      BY <1>8, <2>1, <2>2, <2>3, <3>1, <3>2, <3>3, EntsFacts
  <2>5. CASE w # Null /\ Replaces(st, e, w, st')
    <3> DEFINE u == GivesWay(st, w, e)
    <3>1. w \in Ents /\ w \in Present /\ ~IsLocal(w) /\ w \in merged /\ st.label[w] = <<n, 0>>
      BY <1>1, <1>7, <1>10, <2>5, LeaderFacts
    <3>2. /\ u \in States /\ u.table = [st.table EXCEPT ![st.label[w]] = Null]
          /\ u.label = st.label /\ u.bind = Redirect(st, w, e)
      BY <1>2, <3>1, GivesWayFields
    <3> HIDE DEF u
    <3>3. st'.table = [u.table EXCEPT ![u.label[e]] = e] /\ st'.bind = u.bind
      BY <2>5, <3>2, EnterFields DEF Replaces, u
    <3>4. st'.table[<<n, 0>>] = e
      BY <1>2, <1>5, <1>12, <3>2, <3>3 DEF States
    <3>5. Rank(w) <= Rank(e) /\ Rank(w) \in Nat
      BY <1>1, <2>1, <2>5, <3>1, RankOrder
    <3>6. \A r \in Same(n) \cap merged : Rank(r) \in Nat
      BY <1>1, <1>10, <3>1, RankOrder
    <3>7. \A r \in Same(n) \ merged' : st'.bind[r] = r
      BY <1>1, <1>8, <1>10, <2>2, <3>1, <3>2, <3>3 DEF Redirect
    <3>8. \A r \in Same(n) \cap merged' : st'.bind[r] = e
      BY <1>8, <1>10, <2>1, <2>2, <3>2, <3>3 DEF Redirect
    <3>9. \A r \in Same(n) \cap merged' : Rank(r) <= Rank(e)
      BY <1>8, <2>2, <2>3, <3>5, <3>6
    <3>10. QED
      BY <3>4, <3>7, <3>8, <3>9, EntsFacts
  <2>6. CASE w # Null /\ Yields(st, e, w, st')
    <3>1. w \in Ents /\ w \in Present /\ ~IsLocal(w) /\ w \in merged
      BY <1>1, <1>7, <1>10, <2>6, LeaderFacts
    <3>2. st'.table = st.table /\ st'.bind = Redirect(st, e, w)
      BY <1>2, <2>6, <3>1, DiscardFields DEF Yields
    <3>3. Rank(e) <= Rank(w)
      BY <1>1, <2>1, <2>6, <3>1, RankOrder
    <3>4. QED
      BY <1>1, <1>8, <1>10, <2>1, <2>2, <2>6, <3>1, <3>2, <3>3 DEF Redirect
  <2>7. CASE w # Null /\ Renames(st, e, w, st')
    BY <1>7, <2>1, <2>7 DEF Renames
  <2>8. QED
    BY <1>3, <1>9, <2>1, <2>4, <2>5, <2>6, <2>7 DEF Comes
<1>13. QED
  BY <1>11, <1>12

\* Whatever the number and the order of the modules, a name without local symbols
\* ends up, for all the references of all the modules, on one global of the
\* strongest kind.
THEOREM StrongestCorrect == Spec => []StrongestPrevails
<1> DEFINE Lead == \A n \in Names : Leads(n)
<1>1. Init => Lead
  BY DEF Init, Leads, Same, Present
<1>2. Inv /\ Lead /\ [Next]_vars => Lead'
  <2> SUFFICES ASSUME Inv, Lead, [Next]_vars, NEW n \in Names
               PROVE  Leads(n)'
    OBVIOUS
  <2>1. CASE UNCHANGED vars
    BY <2>1 DEF vars, Leads, Same, Present, Rank, IsStrong, IsWeak, HasValue, IsLocal
  <2>2. QED
    BY <2>1, LeadsStep DEF Next, Done
<1>3. Inv /\ Lead => StrongestPrevails
  <2> SUFFICES ASSUME Inv, Lead, ~st.fatal, Pending = {}, NEW n \in Names,
                      Same(n) # {}, \A e \in Same(n) : ~IsLocal(e)
               PROVE  \E e \in Same(n) : /\ \A r \in Same(n) : st.bind[r] = e
                                         /\ \A d \in Same(n) : Rank(d) <= Rank(e)
    BY DEF StrongestPrevails, Same
  <2>1. Same(n) \cap merged = Same(n)
    BY DEF Pending, Same
  <2>2. Leads(n)
    OBVIOUS
  <2>3. st.table[<<n, 0>>] # Null
    BY <2>1, <2>2 DEF Leads
  <2>4. st.table[<<n, 0>>] \in Same(n)
    BY <2>3, LeaderFacts
  <2>5. QED
    BY <2>1, <2>2, <2>4 DEF Leads
<1>4. QED
  BY <1>1, <1>2, <1>3, InvInductive, PTL DEF Spec

=============================================================================
