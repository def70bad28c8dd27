-------------------------- MODULE ConstraintSolver --------------------------
(***************************************************************************)
(* The points-to solver behind the PTA pass: a graph of set nodes and      *)
(* dereference nodes, a work queue, and three ways of merging set nodes:   *)
(* strongly connected components before solving, cycles found while        *)
(* solving (nodes with equal sets), and the pointees of a node whose       *)
(* dereference lies on a cycle (the "collapse" map).  One step of Solve    *)
(* handles one node of the queue.  Find compresses paths, which no caller  *)
(* sees: rep maps a node straight to its representative.                   *)
(***************************************************************************)
EXTENDS Naturals, Sequences, FiniteSets, SequencesExt, FiniteSetsExt, Strict

CONSTANTS
  NumVars,          \* roots that the constraints are about
  Items,            \* functions and externs, which a set may hold
  Starts,           \* what the variables may hold to begin with: items and nodes,
                    \* as sets of pairs
  Constraints,      \* what the clients may ask for, as records
  MaxConstraints,   \* bound: constraints added over all rounds
  MaxDerefs         \* bound: dereference nodes

None == 0           \* a null pointer

ASSUME SolverAssumption ==
  /\ NumVars \in Nat \ {0}
  /\ MaxConstraints \in Nat
  /\ MaxDerefs \in Nat

Vars   == 1 .. NumVars
Sets   == 1 .. NumVars + MaxDerefs      \* IDs of set nodes
Derefs == 1 .. MaxDerefs

\* What relation R relates i to.
Image(R, i) == {p[2] : p \in {q \in R : q[1] = i}}

\* The set that holds what is loaded through dereference node d.
Contents(d) == NumVars + d

VARIABLES
  g,          \* the graph
  queue,      \* IDs of set nodes: first in, first out, without duplicates
  collapse,   \* dereference node to a set node of its cycle
  visited,    \* pairs of nodes that were tried as part of a cycle
  start,      \* what the variables were created with
  prog,       \* the constraints asked for so far
  solving     \* Solve is running

vars == <<g, queue, collapse, visited, start, prog, solving>>

-----------------------------------------------------------------------------
(* Graph                                                                   *)

Find(gr, i) == gr.rep[i]
Alive(gr, i) == gr.rep[i] = i

\* Graph::Replace on dereference nodes: what was tied to a is tied to b.
ReplaceDeref(gr, a, b) ==
  LET stores == {Find(gr, i) : i \in gr.ins[a]}
  IN [gr EXCEPT !.derefs = [i \in Sets |-> IF i \in stores THEN (@[i] \ {a}) \cup {b} ELSE @[i]],
                !.ins[b] = @ \cup gr.ins[a],
                !.outs[b] = @ \cup gr.outs[a]]

\* The dereference node of l passes to w.
TakeDeref(gr, l, w) ==
  IF gr.deref[l] = None
    THEN gr
    ELSE IF gr.deref[w] = None
      THEN [gr EXCEPT !.deref[w] = gr.deref[l], !.deref[l] = None]
      ELSE [ReplaceDeref(gr, gr.deref[l], gr.deref[w]) EXCEPT !.deref[l] = None]

\* Set node l becomes part of w.
Absorb(gr, l, w) ==
  TakeDeref([gr EXCEPT !.rep = [i \in Sets |-> IF @[i] = l THEN w ELSE @[i]],
                       !.items[w] = @ \cup gr.items[l],
                       !.nodes[w] = @ \cup gr.nodes[l],
                       !.sets[w] = @ \cup gr.sets[l],
                       !.derefs[w] = @ \cup gr.derefs[l]],
            l, w)

\* Graph::Union; the united node is the representative of b.
Union(gr, a, b) ==
  IF a = None \/ a = b
    THEN gr
    ELSE IF gr.rank[a] < gr.rank[b]
      THEN Absorb(gr, a, b)
      ELSE Absorb([gr EXCEPT !.rank[a] = IF gr.rank[b] = @ THEN @ + 1 ELSE @], b, a)

\* Union of several nodes, one after the other.
UnionAll(gr, S) ==
  LET seq == InOrder(S)
  IN FoldLeft(LAMBDA h, i : Union(h, Find(h, seq[1]), Find(h, i)), gr, seq)

Push(q, i) == IF Contains(q, i) THEN q ELSE Append(q, i)

-----------------------------------------------------------------------------
(* SCCSolver, by what it computes.  A node of the search is a set node or, *)
(* above all sets, a dereference node.                                     *)

Nodes == 1 .. Cardinality(Sets) + MaxDerefs
OfDeref(d) == Cardinality(Sets) + d

SetSuccessors(gr, a) == {Find(gr, i) : i \in gr.sets[a]}

FullSuccessors(gr, a) ==
  IF a \in Sets
    THEN IF Alive(gr, a) THEN SetSuccessors(gr, a) \cup {OfDeref(d) : d \in gr.derefs[a]} ELSE {}
    ELSE {Find(gr, i) : i \in gr.outs[a - Cardinality(Sets)]}

\* What can be reached in one step or more, by doubling the length of paths.
Double(R) == [a \in DOMAIN R |-> R[a] \cup UNION {R[b] : b \in R[a]}]
Doublings == CHOOSE k \in 0 .. 10 : 2^k >= Cardinality(Nodes)

Closure(S, Successors(_)) ==
  FoldLeft(LAMBDA R, k : Then(R, Double), [a \in S |-> Successors(a)],
           [k \in 1 .. Doublings |-> k])

\* The components with two nodes or more, given what every node reaches.
Components(reach) ==
  {{b \in reach[a] : a \in reach[b]} : a \in {n \in DOMAIN reach : n \in reach[n]}} \ {{a} : a \in DOMAIN reach}

\* Full: over the whole graph.
Full(gr) == Then(Closure(Nodes, LAMBDA a : FullSuccessors(gr, a)), Components)

\* Single: among the set nodes that can be reached from one.
Single(gr, from) ==
  Then(Closure(Sets, LAMBDA a : SetSuccessors(gr, a)),
       LAMBDA reach : {C \in Components(reach) : from \in C \/ C \cap reach[from] # {}})

-----------------------------------------------------------------------------
(* Building constraints                                                    *)

\* A node that constraints are about: a set, or what the set p points to.
SetNode(i)   == [deref |-> FALSE, id |-> i]
DerefNode(p) == [deref |-> TRUE, id |-> p]

\* The graph, the queue and the constraints so far, while constraints are added.
Building(gr, q, cs) == [g |-> gr, q |-> q, cs |-> cs]

\* The set that a set node stands for, and the one that a dereference was loaded
\* into.
SetOf(gr, n) == IF n.deref THEN Contents(gr.deref[Find(gr, n.id)]) ELSE n.id

\* Load: the dereference of a node, with a set for its contents if it is new.
\* The next free ID is the number of nodes that exist.
Loaded(b, n) == DerefNode(SetOf(b.g, n))

Load(b, n) ==
  LET p == Find(b.g, SetOf(b.g, n))
      d == b.g.used + 1
  IN IF b.g.deref[p] # None
       THEN b
       ELSE [b EXCEPT !.g.deref[p] = d, !.g.outs[d] = {Contents(d)}, !.g.used = d,
                      !.q = Push(@, p),
                      !.cs = @ \cup {[op |-> "load", from |-> SetOf(b.g, n), to |-> Contents(d)]}]

AddDeref(gr, from, d) ==
  IF d \in gr.derefs[from]
    THEN gr
    ELSE [gr EXCEPT !.derefs[from] = @ \cup {d}, !.ins[d] = @ \cup {from}]

Kind(x, y) ==
  CASE ~x.deref /\ ~y.deref -> "copy"
    [] ~x.deref /\ y.deref  -> "store"
    [] x.deref /\ ~y.deref  -> "load"
    [] OTHER                -> "move"

\* What is in node x is in node y.
Subset(b, x, y) ==
  LET from == Find(b.g, x.id)
      to   == Find(b.g, y.id)
      d    == b.g.deref[to]
      c    == [b EXCEPT !.q = IF y.deref THEN Push(Push(@, from), to) ELSE Push(@, from),
                        !.cs = @ \cup {[op |-> Kind(x, y), from |-> x.id, to |-> y.id]}]
  IN CASE Kind(x, y) = "copy"  -> [c EXCEPT !.g.sets[from] = @ \cup {to}]
       [] Kind(x, y) = "store" -> [c EXCEPT !.g = AddDeref(@, from, d)]
       [] Kind(x, y) = "load"  -> [c EXCEPT !.g.outs[b.g.deref[from]] = @ \cup {to}]
       [] Kind(x, y) = "move"  -> [c EXCEPT !.g = AddDeref(@, Find(@, SetOf(@, x)), d)]

\* Store(ptr, val)
Store(b, p, v) == Subset(Load(b, p), v, Loaded(b, p))

\* A constraint as a client asks for it.
Ask(b, c) ==
  LET f == SetNode(c.from)
      t == SetNode(c.to)
      l == Load(b, f)
  IN CASE c.op = "copy"  -> Subset(b, f, t)
       [] c.op = "store" -> Store(b, t, f)
       [] c.op = "load"  -> Subset(l, Loaded(b, f), t)
       [] c.op = "move"  -> Store(l, t, Loaded(b, f))

Pointers(c) == (IF c.op \in {"load", "move"} THEN {Find(g, c.from)} ELSE {})
               \cup (IF c.op \in {"store", "move"} THEN {Find(g, c.to)} ELSE {})
CanLoad(gr, c) == gr.used + Cardinality({i \in Pointers(c) : gr.deref[i] = None}) <= MaxDerefs

Constrain(c) ==
  /\ ~solving
  /\ Cardinality(prog) < MaxConstraints
  /\ c \in Constraints \ prog
  /\ CanLoad(g, c)
  /\ \E b \in {Ask(Building(g, queue, prog), c)} : g' = b.g /\ queue' = b.q
  /\ prog' = prog \cup {c}
  /\ UNCHANGED <<collapse, visited, start, solving>>

-----------------------------------------------------------------------------
(* Solve                                                                   *)

\* Components are merged and queued; the dereferences in them are remembered.
\* The order of the components is left open.
Start ==
  /\ ~solving
  /\ LET comps == Full(g)
         merged == FoldLeft(LAMBDA h, C : UnionAll(h, C \cap Sets), g, SetToSeq(comps))
         Home(C) == Find(merged, CHOOSE i \in C \cap Sets : TRUE)
     IN \E order \in SetToSeqs(comps) :
          /\ g' = merged
          /\ queue' = FoldLeft(LAMBDA q, C : Push(q, Home(C)), queue, order)
          /\ collapse' = [d \in Derefs |->
               IF \E C \in comps : OfDeref(d) \in C
                 THEN Home(CHOOSE C \in comps : OfDeref(d) \in C)
                 ELSE None]
  /\ visited' = {}
  /\ solving' = TRUE
  /\ UNCHANGED <<start, prog>>

\* The part of the graph, the queue and the visited pairs a step works on.
State(gr, q, v) == [g |-> gr, q |-> q, visited |-> v]

\* Pointees of a node whose dereference is on a cycle are merged with the node
\* of the cycle.  If from is one of them and loses its identity, the united
\* node is queued and from is done.
Collapse(s, from) ==
  LET home  == Find(s.g, collapse[s.g.deref[from]])
      ids   == InOrder(s.g.nodes[from])
      first == IF home = from THEN None ELSE home
      Join(x, i) ==
        LET v == Find(x.g, i)
            h == Union(x.g, x.united, v)
        IN IF v = from THEN x ELSE [g |-> h, united |-> Find(h, v)]
      x     == FoldLeft(Join, [g |-> s.g, united |-> first], ids)
      self  == home = from \/ \E i \in ToSet(ids) : Find(x.g, i) = from
      h     == Union(x.g, x.united, from)
  IN IF ~self
       THEN State(x.g, s.q, s.visited)
       ELSE IF Alive(h, from)
         THEN State(h, s.q, s.visited)
         ELSE State(h, Push(s.q, Find(h, from)), s.visited)

\* (mutant) The source is queued for an edge that exists, too.
AddEdgeAlways(s, e) ==
  State([s.g EXCEPT !.sets[e[1]] = @ \cup {e[2]}], Push(s.q, e[1]), s.visited)

\* One edge more; its source is queued if the edge is new.
AddEdge(s, e) ==
  IF e[2] \in s.g.sets[e[1]]
    THEN s
    ELSE State([s.g EXCEPT !.sets[e[1]] = @ \cup {e[2]}], Push(s.q, e[1]), s.visited)

\* Loads and stores through from get edges from and to all of its pointees;
\* the sets are left with representatives only.
AddEdges(s, from) ==
  LET gr == s.g
      d  == gr.deref[from]
      Reps(S) == {Find(gr, i) : i \in S}
      Each(S, Op(_)) == LET seq == InOrder(S) IN [k \in DOMAIN seq |-> Op(Find(gr, seq[k]))]
      EdgesOf(v) == Each(gr.ins[d], LAMBDA i : <<i, v>>) \o Each(gr.outs[d], LAMBDA i : <<v, i>>)
      t == FoldLeft(AddEdge, s, FlattenSeq(Each(gr.nodes[from], EdgesOf)))
  IN State([t.g EXCEPT !.nodes[from] = Reps(@), !.ins[d] = Reps(@), !.outs[d] = Reps(@)],
           t.q, t.visited)

\* (mutant) A node whose set grows is not queued.
SendSilently(s, from, to) ==
  State([s.g EXCEPT !.items[to] = @ \cup s.g.items[from], !.nodes[to] = @ \cup s.g.nodes[from]],
        s.q, s.visited)

\* from->Propagate(to).
Send(s, from, to) ==
  LET h == [s.g EXCEPT !.items[to] = @ \cup s.g.items[from], !.nodes[to] = @ \cup s.g.nodes[from]]
  IN State(h, IF h = s.g THEN s.q ELSE Push(s.q, to), s.visited)

Equals(gr, a, b) == gr.items[a] = gr.items[b] /\ gr.nodes[a] = gr.nodes[b]

\* The set of from goes along its edges.  A target that has an equal set, for
\* the first time, makes from a candidate for a cycle.
Propagate(s, from) ==
  LET seq == InOrder(s.g.sets[from])
      Along(x, i) ==
        LET to  == Find(s.g, i)
            new == Equals(x.state.g, from, to) /\ <<from, to>> \notin x.state.visited
            sent == Send(x.state, from, to)
        IN IF to = from
             THEN x
             ELSE [state |-> IF new THEN [sent EXCEPT !.visited = @ \cup {<<from, to>>}] ELSE sent,
                   candidate |-> x.candidate \/ new]
      t == FoldLeft(Along, [state |-> s, candidate |-> FALSE], seq)
  IN [t EXCEPT !.state.g.sets[from] = {Find(s.g, i) : i \in @}]

\* (mutant) All nodes that can be reached are merged.
MergeReachable(s, from) ==
  LET R == {from} \cup SetSuccessors(s.g, from)
      h == UnionAll(s.g, R)
  IN State(h, Push(s.q, Find(h, from)), s.visited)

\* Cycles that can be reached from the node are merged and queued.
MergeCycles(s, from) ==
  FoldLeft(LAMBDA x, C : LET h == UnionAll(x.g, C)
                         IN State(h, Push(x.q, Find(h, CHOOSE i \in C : TRUE)), x.visited),
           s, SetToSeq(Single(s.g, from)))

\* One node of the queue, if it still exists.
Handle(s, from) ==
  LET d == s.g.deref[from]
      t == IF d # None /\ collapse[d] # None THEN Collapse(s, from) ELSE s
      u == IF d # None THEN AddEdges(t, from) ELSE t
      p == Propagate(u, from)
  IN IF ~Alive(s.g, from)
       THEN s
       ELSE IF ~Alive(t.g, from)
         THEN t
         ELSE IF p.candidate THEN MergeCycles(p.state, from) ELSE p.state

Pop ==
  /\ solving /\ queue # <<>>
  /\ \E t \in {Handle(State(g, Tail(queue), visited), Head(queue))} :
       g' = t.g /\ queue' = t.q /\ visited' = t.visited
  /\ UNCHANGED <<collapse, start, prog, solving>>

\* Solve returns; its maps go with it.
Return ==
  /\ solving /\ queue = <<>>
  /\ solving' = FALSE
  /\ collapse' = [d \in Derefs |-> None]
  /\ visited' = {}
  /\ UNCHANGED <<g, queue, start, prog>>

\* The graph in which the first n sets exist and hold their own items and nodes
\* (Set, AddFunc, AddExtern, AddNode).
Graph(n, st) ==
  [rep    |-> [i \in Sets |-> i],
   rank   |-> [i \in Sets |-> 0],
   items  |-> [i \in Sets |-> Image(st.items, i)],
   nodes  |-> [i \in Sets |-> Image(st.nodes, i)],
   sets   |-> [i \in Sets |-> {}],
   deref  |-> [i \in Sets |-> None],
   derefs |-> [i \in Sets |-> {}],
   ins    |-> [d \in Derefs |-> {}],
   outs   |-> [d \in Derefs |-> {}],
   vars   |-> n,
   used   |-> 0]

\* Constraints of any client: a variable that no constraint names is one that is
\* created later.
Init ==
  /\ start \in Starts
  /\ g = Graph(NumVars, start)
  /\ queue = <<>>
  /\ collapse = [d \in Derefs |-> None]
  /\ visited = {}
  /\ prog = {}
  /\ solving = FALSE

Next == (\E c \in Constraints : Constrain(c)) \/ Start \/ Pop \/ Return

\* Solve runs to its end.  While it does, a step is possible and no step leaves
\* everything unchanged, so this is weak fairness of Pop and Return, written out.
Fairness == []<>(~solving) \/ []<><<solving>>_vars

Spec == Init /\ [][Next]_vars /\ Fairness

-----------------------------------------------------------------------------
(* Properties                                                              *)

\* The types of the graph and the solver's maps; the queue holds no ID twice.
TypeOK ==
  /\ g.rep \in [Sets -> Sets]
  /\ g.items \in [Sets -> SUBSET Items]
  /\ g.nodes \in [Sets -> SUBSET Sets]
  /\ g.sets \in [Sets -> SUBSET Sets]
  /\ g.deref \in [Sets -> Derefs \cup {None}]
  /\ g.derefs \in [Sets -> SUBSET Derefs]
  /\ g.ins \in [Derefs -> SUBSET Sets]
  /\ g.outs \in [Derefs -> SUBSET Sets]
  /\ g.used \in 0 .. MaxDerefs
  /\ queue \in Seq(Sets) /\ IsInjective(queue)
  /\ collapse \in [Derefs -> Sets \cup {None}]

\* What the analysis says a variable points to, merged nodes taken as one.
ItemsOf(i)  == g.items[Find(g, i)]
PointsTo(i) == {Find(g, n) : n \in g.nodes[Find(g, i)]}
Within(a, b) == ItemsOf(a) \subseteq ItemsOf(b) /\ PointsTo(a) \subseteq PointsTo(b)

Satisfied(c) ==
  CASE c.op = "copy"  -> Within(c.from, c.to)
    [] c.op = "load"  -> \A n \in PointsTo(c.from) : Within(n, c.to)
    [] c.op = "store" -> \A n \in PointsTo(c.to) : Within(c.from, n)
    [] c.op = "move"  -> \A n \in PointsTo(c.from), m \in PointsTo(c.to) : Within(n, m)

AtRest == solving /\ queue = <<>>

\* When the queue is empty, every constraint of this and of earlier rounds is
\* satisfied, whichever nodes were merged, if no dereference was on a cycle.
FixpointUncollapsed ==
  AtRest /\ (\A d \in Derefs : collapse[d] = None) => \A c \in prog : Satisfied(c)

\* The least solution: the facts <<v, x>> and <<v, n>> that v holds item x or
\* points to n, by rounds of the constraints over all variables.  (Were the
\* rounds too few, the solver would seem to find too much.)
Flows(m) ==
  UNION {CASE c.op = "copy"  -> {<<c.from, c.to>>}
           [] c.op = "load"  -> Image(m.nodes, c.from) \X {c.to}
           [] c.op = "store" -> {c.from} \X Image(m.nodes, c.to)
           [] c.op = "move"  -> Image(m.nodes, c.from) \X Image(m.nodes, c.to)
           : c \in prog}

Carry(facts, flows) ==
  facts \cup {<<x[1][2], x[2][2]>> : x \in {y \in flows \X facts : y[1][1] = y[2][1]}}

Round(m) == [items |-> Carry(m.items, Flows(m)), nodes |-> Carry(m.nodes, Flows(m))]

Least == FoldLeft(LAMBDA m, k : Then(m, Round), start, [k \in 1 .. NumVars |-> k])

\* Merging nodes costs no precision: no variable points to more than in the
\* least solution of the constraints.
Precise ==
  AtRest =>
    LET least == Least
    IN \A v \in Vars :
         /\ \A x \in ItemsOf(v) : <<v, x>> \in least.items
         /\ PointsTo(v) \subseteq {Find(g, n) : n \in Image(least.nodes, v)}

\* Solve returns: edges that are found again, merged nodes and cycles do not keep
\* the queue filled.
Terminates == solving ~> ~solving

=============================================================================
