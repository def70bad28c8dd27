----------------------------- MODULE PassManager -----------------------------
(***************************************************************************)
(* PassManager::Run of core/pass_manager.cpp: a pipeline of groups of       *)
(* passes.  A group that repeats starts over as long as one of its passes   *)
(* reported a change.  Results of analyses are kept until a pass reports a  *)
(* change.                                                                 *)
(***************************************************************************)
EXTENDS Naturals, Sequences, SequenceTheorems, TLAPS

CONSTANTS
  Sources,          \* the programs to optimise
  Pipelines,        \* sequences of groups [passes, repeat]
  Analyses,         \* the passes with an ID, whose results are kept
  Disabled,         \* the passes named in LLIR_OPT_DISABLED
  Silent,           \* passes that may edit the program and report no change
  RunPass(_, _),    \* pass, program |-> [prog, changed]
  Means(_),         \* what a program does
  MayReplace(_, _)  \* (new, old): behaviour new may stand for old

ASSUME PassManagerAssumption ==
  Pipelines \subseteq Seq([passes : Seq(STRING), repeat : BOOLEAN])

VARIABLES
  prog,      \* the program
  groups,    \* groups_
  at,        \* the group and the pass about to run
  changed,   \* changed: some pass of this round reported a change
  analyses,  \* analyses_: for each result that is kept, the program it is about
  dirty,     \* a pass edited the program without a report since the last clear
  source,    \* what the source program does
  done       \* PassManager::Run has returned

vars == <<prog, groups, at, changed, analyses, dirty, source, done>>

Group == groups[at[1]]
Pass  == Group.passes[at[2]]

Empty == [a \in {} |-> prog]

Init ==
  /\ prog \in Sources
  /\ groups \in Pipelines
  /\ at = <<1, 1>>
  /\ changed = FALSE
  /\ analyses = Empty
  /\ dirty = FALSE
  /\ source = Means(prog)
  /\ done = FALSE

\* (mutant) The cache is only emptied when a repeating group changed something.
RecordKeeps(p, r) ==
  IF r.changed /\ Group.repeat THEN Empty
  ELSE IF p \in Analyses
  THEN [a \in DOMAIN analyses \cup {p} |->
          IF a \in DOMAIN analyses THEN analyses[a] ELSE r.prog]
  ELSE analyses

\* The result of an analysis is recorded unless there is one, and the cache is
\* emptied when the pass reported a change.
Record(p, r) ==
  IF r.changed THEN Empty
  ELSE IF p \in Analyses
  THEN [a \in DOMAIN analyses \cup {p} |->
          IF a \in DOMAIN analyses THEN analyses[a] ELSE r.prog]
  ELSE analyses

InRound == at[1] <= Len(groups) /\ at[2] <= Len(Group.passes)

\* A disabled pass does nothing.
SkipPass ==
  /\ InRound
  /\ Pass \in Disabled
  /\ at' = [at EXCEPT ![2] = @ + 1]
  /\ UNCHANGED <<prog, groups, changed, analyses, dirty, source, done>>

Run ==
  /\ InRound
  /\ Pass \notin Disabled
  /\ \E r \in {RunPass(Pass, prog)} :
       /\ prog' = r.prog
       /\ changed' = (changed \/ r.changed)
       /\ analyses' = Record(Pass, r)
       /\ dirty' = (~r.changed /\ (dirty \/ r.prog # prog))
  /\ at' = [at EXCEPT ![2] = @ + 1]
  /\ UNCHANGED <<groups, source, done>>

\* while (group.Repeat && changed).
EndRound ==
  /\ at[1] <= Len(groups) /\ at[2] > Len(Group.passes)
  /\ at' = IF Group.repeat /\ changed THEN <<at[1], 1>> ELSE <<at[1] + 1, 1>>
  /\ changed' = FALSE
  /\ UNCHANGED <<prog, groups, analyses, dirty, source, done>>

Return ==
  /\ at[1] > Len(groups) /\ ~done
  /\ done' = TRUE
  /\ UNCHANGED <<prog, groups, at, changed, analyses, dirty, source>>

Next == SkipPass \/ Run \/ EndRound \/ Return

\* Weak fairness of Next, spelled out: a step is possible until Run returns,
\* and every step moves on.
Moves == at' # at \/ done' # done
Fairness == []<>done \/ []<><<Moves>>_<<at, done>>

Spec == Init /\ [][Next]_vars /\ Fairness

-----------------------------------------------------------------------------
(* Properties *)

\* A result that getAnalysis returns is about the present program, unless a pass
\* has edited the program without reporting it: pass_manager.cpp clears the
\* cache on reports only.
AnalysesFresh == \A a \in DOMAIN analyses : analyses[a] = prog \/ dirty

\* A pass that edits the program reports a change: on this rest both the cache
\* and the repetition of groups.  The passes of Silent break the rule.
ReportsEdits ==
  [][prog' # prog => Pass \in Silent \/ changed']_vars

\* The optimiser implements Compiler: after every pass the program may stand
\* for the source program.
Promise == INSTANCE Compiler WITH target <- Means(prog)
Implements == Promise!Safety

\* Groups that repeat until no pass reports a change come to an end.
GroupsEnd == <>done

-----------------------------------------------------------------------------
(* Proofs *)

\* Once Run has returned, no pass is left.
Position ==
  /\ at \in (Nat \ {0}) \X (Nat \ {0})
  /\ groups \in Seq([passes : Seq(STRING), repeat : BOOLEAN])
  /\ done => at[1] > Len(groups)

LEMMA PositionStep == Position /\ [Next]_vars => Position'
<1> SUFFICES ASSUME Position, [Next]_vars PROVE Position'
  OBVIOUS
<1>1. CASE SkipPass
  BY <1>1 DEF SkipPass, InRound, Position
<1>2. CASE Run
  BY <1>2 DEF Run, InRound, Position
<1>3. CASE EndRound
  BY <1>3 DEF EndRound, Position
<1>4. CASE Return
  BY <1>4 DEF Return, Position
<1>5. CASE UNCHANGED vars
  BY <1>5 DEF vars, Position
<1>6. QED
  BY <1>1, <1>2, <1>3, <1>4, <1>5 DEF Next

LEMMA PositionInv == Spec => []Position
<1>1. Init => Position
  BY PassManagerAssumption DEF Init, Position
<1>2. QED
  BY <1>1, PositionStep, PTL DEF Spec

\* Only Run changes the program or the cache.
LEMMA StepKinds ==
  ASSUME [Next]_vars
  PROVE  Run \/ UNCHANGED <<prog, analyses, dirty, source>>
BY DEF Next, SkipPass, EndRound, Return, vars

LEMMA FreshStep == AnalysesFresh /\ [Next]_vars => AnalysesFresh'
<1> SUFFICES ASSUME AnalysesFresh, [Next]_vars PROVE AnalysesFresh'
  OBVIOUS
<1>1. CASE Run
  <2>1. PICK p, r : /\ prog' = r.prog /\ analyses' = Record(p, r)
                    /\ dirty' = (~r.changed /\ (dirty \/ r.prog # prog))
    BY <1>1 DEF Run
  <2>2. CASE r.changed
    BY <2>1, <2>2 DEF Record, Empty, AnalysesFresh
  <2>3. CASE ~r.changed
    BY <2>1, <2>3 DEF Record, AnalysesFresh
  <2>4. QED
    BY <2>2, <2>3
<1>2. CASE UNCHANGED <<prog, analyses, dirty, source>>
  BY <1>2 DEF AnalysesFresh
<1>3. QED
  BY <1>1, <1>2, StepKinds

\* Whatever the passes do, in whatever pipeline: a kept result is about the
\* present program unless a pass edited it without a report.
THEOREM CacheFresh == Spec => []AnalysesFresh
<1>1. Init => AnalysesFresh
  BY DEF Init, Empty, AnalysesFresh
<1>2. QED
  BY <1>1, FreshStep, PTL DEF Spec

LEMMA PassName ==
  ASSUME Position, InRound
  PROVE  Pass \in STRING
<1>1. PICK i, j \in Nat \ {0} : i = at[1] /\ j = at[2]
  BY DEF Position
<1>2. PICK g : g = groups[i]
  OBVIOUS
<1>3. Group = g /\ i \in 1 .. Len(groups) /\ j <= Len(g.passes)
  BY <1>1, <1>2 DEF Position, InRound, Group
<1>4. g \in [passes : Seq(STRING), repeat : BOOLEAN]
  BY <1>2, <1>3, ElementOfSeq DEF Position
<1>5. PICK q \in Seq(STRING) : q = g.passes
  BY <1>4
<1>6. Pass = q[j] /\ j \in 1 .. Len(q)
  BY <1>1, <1>3, <1>5 DEF Pass
<1>7. QED
  BY <1>5, <1>6, ElementOfSeq

\* The manager adds no error of its own: when each enabled pass turns a program
\* of some class into one of that class that may stand for it, and to stand for
\* is a preorder, then whatever the pipeline, the repetitions and the disabled
\* passes, the optimiser implements Compiler.
THEOREM PassesCompose ==
  ASSUME NEW Class, Sources \subseteq Class,
         \A p \in STRING \ Disabled, x \in Class :
           RunPass(p, x).prog \in Class /\ MayReplace(Means(RunPass(p, x).prog), Means(x)),
         \A b : MayReplace(b, b),
         \A b, c, d : MayReplace(b, c) /\ MayReplace(c, d) => MayReplace(b, d)
  PROVE  Spec => Implements
<1> DEFINE Stands == prog \in Class /\ MayReplace(Means(prog), source)
<1>1. Init => Stands
  BY DEF Init
<1>2. Position /\ Stands /\ [Next]_vars => Stands'
  <2> SUFFICES ASSUME Position, Stands, [Next]_vars PROVE Stands'
    OBVIOUS
  <2>1. CASE Run
    <3>1. PICK p \in STRING \ Disabled : prog' = RunPass(p, prog).prog /\ source' = source
      BY <2>1, PassName DEF Run
    <3>2. QED
      BY <3>1
  <2>2. CASE UNCHANGED <<prog, analyses, dirty, source>>
    BY <2>2
  <2>3. QED
    BY <2>1, <2>2, StepKinds
<1>3. Init => Promise!Start
  BY DEF Init, Promise!Start
<1>4. Position /\ Stands /\ Stands' /\ [Next]_vars
        => [Promise!Rewrite \/ Promise!Deliver]_(Promise!compilerVars)
  <2> SUFFICES ASSUME Position, Stands', [Next]_vars
               PROVE  [Promise!Rewrite \/ Promise!Deliver]_(Promise!compilerVars)
    OBVIOUS
  <2>1. CASE Run
    <3>1. ~done /\ UNCHANGED <<source, done>>
      BY <2>1 DEF Run, InRound, Position
    <3>2. QED
      BY <3>1 DEF Promise!Rewrite
  <2>2. CASE Return
    BY <2>2 DEF Return, Promise!Deliver
  <2>3. CASE UNCHANGED <<prog, source, done>>
    BY <2>3 DEF Promise!compilerVars
  <2>4. QED
    BY <2>1, <2>2, <2>3 DEF Next, SkipPass, EndRound, vars
<1> HIDE DEF Stands
<1>5. QED
  BY <1>1, <1>2, <1>3, <1>4, PositionInv, PTL DEF Spec, Implements, Promise!Safety

=============================================================================
