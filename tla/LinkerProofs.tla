---------------------------- MODULE LinkerProofs ----------------------------
(***************************************************************************)
(* What holds of symbol resolution for any units, archives and command     *)
(* lines: the types, the bookkeeping of the symbols, and that LinkGroup    *)
(* stops only when no member left defines a missing symbol.  Then the end  *)
(* of Link: the concatenation of a section, for any number of objects and  *)
(* atoms.                                                                  *)
(***************************************************************************)
EXTENDS Linker, Sections, SequenceTheorems, TLAPS

\* Erase takes the i-th unit out of a list.
LEMMA EraseType ==
  ASSUME NEW S, NEW list \in Seq(S), NEW i \in 1 .. Len(list)
  PROVE  /\ Erase(list, i) \in Seq(S)
         /\ Len(Erase(list, i)) = Len(list) - 1
         /\ \A j \in 1 .. i - 1 : Erase(list, i)[j] = list[j]
<1>1. Len(list) - 1 \in Nat
  OBVIOUS
<1>2. Erase(list, i) \in [1 .. Len(list) - 1 -> S]
  BY DEF Erase
<1>3. QED
  BY <1>1, <1>2 DEF Erase

\* The state of the linker after a unit was resolved, whatever the unresolved
\* symbols it started from.
LEMMA ResolveType ==
  ASSUME TypeOK, NEW u \in Units, NEW unres \in SUBSET Symbols, Resolve(u, unres)
  PROVE  /\ units' \in Seq(Units)
         /\ unresolved' \subseteq Symbols
         /\ resolved' \subseteq Symbols
         /\ Linked' = Linked \cup {u}
<1>1. Defs[u] \subseteq Symbols /\ Undefs[u] \subseteq Symbols
  BY LinkerAssumption
<1>2. units' \in Seq(Units)
  BY DEF Resolve, TypeOK
<1>3. Linked' = Linked \cup {u}
  <2>1. units \in Seq(Units) /\ units' = Append(units, u)
    BY DEF TypeOK, Resolve
  <2>2. DOMAIN units' = DOMAIN units \cup {Len(units) + 1}
    BY <2>1
  <2>3. \A i \in DOMAIN units : units'[i] = units[i]
    BY <2>1
  <2>4. units'[Len(units) + 1] = u
    BY <2>1
  <2>5. QED
    BY <2>2, <2>3, <2>4, Zenon DEF Linked
<1>4. unresolved' \subseteq Symbols /\ resolved' \subseteq Symbols
  BY <1>1 DEF Resolve, TypeOK
<1>5. QED
  BY <1>2, <1>3, <1>4

LEMMA InitialiseLTOType ==
  ASSUME TypeOK
  PROVE  InitialiseLTO \in SUBSET Symbols
BY LinkerAssumption DEF TypeOK, InitialiseLTO

\* The unresolved symbols before Resolve, as LinkObject and LinkGroup pass them.
Before(u) == IF Kind[u] = "BITCODE" THEN InitialiseLTO ELSE unresolved

\* A step that links a unit.
Links(u) ==
  /\ Kind[u] # "DATA"
  /\ Resolve(u, Before(u))
  /\ lto' = (lto \/ Kind[u] = "BITCODE")
  /\ linked' \in {linked, linked \cup {Name[u]}}

\* A step that only asks for more symbols.
Asks ==
  /\ unresolved \subseteq unresolved' /\ unresolved' \subseteq Symbols
  /\ \/ lto' = lto
     \/ lto' /\ Builtins \subseteq unresolved'
  /\ UNCHANGED <<units, resolved, linked>>

\* LinkObject links the unit, or leaves the linker alone.
LEMMA LinkObjectStep ==
  ASSUME TypeOK, NEW u \in Units, LinkObject(u)
  PROVE  UNCHANGED linkvars \/ Links(u)
<1>1. CASE LinkProgram(u)
  BY <1>1 DEF LinkProgram, Links, Before, TypeOK
<1>2. CASE LinkBitcode(u)
  BY <1>2 DEF LinkBitcode, Links, Before, TypeOK
<1>3. QED
  BY <1>1, <1>2 DEF LinkObject

\* What a step does to the sets of the linker, of all the options and of
\* LinkGroup: three cases are all there are.
LEMMA LinkStep ==
  ASSUME TypeOK, Next
  PROVE  UNCHANGED linkvars \/ Asks \/ \E u \in Units : Links(u)
<1>1. ASSUME NEW u \in Units, ObjectArg(u)
      PROVE  UNCHANGED linkvars \/ Links(u)
  BY <1>1, LinkObjectStep DEF ObjectArg
<1>2. ASSUME NEW sym \in Symbols, UndefinedArg(sym)
      PROVE  Asks
  BY <1>2 DEF UndefinedArg, LinkUndefined, Asks, TypeOK
<1>3. CASE WholeStep
  <2>1. scan.list[scan.it] \in Units
    BY <1>3 DEF WholeStep, TypeOK, Scans
  <2>2. QED
    BY <1>3, <2>1, LinkObjectStep DEF WholeStep
<1>4. CASE Merge
  <2>1. scan.list[scan.it] \in Units
    BY <1>4 DEF Merge, TypeOK, Scans
  <2>2. Links(scan.list[scan.it])
    BY <1>4, Zenon DEF Merge, Links, Before
  <2>3. QED
    BY <2>1, <2>2
<1>5. CASE Drop
  BY <1>5, InitialiseLTOType DEF Drop, Asks, InitialiseLTO, TypeOK
<1>6. QED
  BY <1>1, <1>2, <1>3, <1>4, <1>5
     DEF Next, SearchArchive, GroupArchive, WholeArchive, WholeEnd, BadArg, ToggleWhole,
         StartGroup, EndGroup, Skip, Again, EndScan, Finish, Stop, vars

-----------------------------------------------------------------------------
(* Types *)

LEMMA LinkType ==
  ASSUME TypeOK, Next
  PROVE  /\ units' \in Seq(Units)
         /\ unresolved' \subseteq Symbols
         /\ resolved' \subseteq Symbols
         /\ linked' \subseteq {Name[u] : u \in Units}
         /\ lto' \in BOOLEAN
<1>1. CASE UNCHANGED linkvars
  BY <1>1 DEF linkvars, TypeOK
<1>2. CASE Asks
  BY <1>2 DEF Asks, TypeOK
<1>3. ASSUME NEW u \in Units, Links(u)
      PROVE  /\ units' \in Seq(Units)
             /\ unresolved' \subseteq Symbols
             /\ resolved' \subseteq Symbols
             /\ linked' \subseteq {Name[v] : v \in Units}
             /\ lto' \in BOOLEAN
  <2>1. Before(u) \in SUBSET Symbols
    BY InitialiseLTOType DEF Before, TypeOK
  <2>2. QED
    BY <1>3, <2>1, ResolveType DEF Links, TypeOK
<1>4. QED
  BY <1>1, <1>2, <1>3, LinkStep

\* The types of the driver's own variables.
DriverOK ==
  /\ whole \in BOOLEAN
  /\ open \in BOOLEAN
  /\ args \in 0 .. MaxArgs
  /\ phase \in {"args", "scan", "whole", "failed", "done"}
  /\ group \in Seq(Units)

LEMMA DriverType ==
  ASSUME TypeOK, Next
  PROVE  DriverOK'
<1>1. DriverOK
  BY DEF TypeOK, DriverOK
<1>2. NextArg => args' \in 0 .. MaxArgs
  BY <1>1, LinkerAssumption DEF NextArg, DriverOK
<1>3. CASE \E ar \in Archives : GroupArchive(ar)
  <2>1. PICK ar \in Archives : GroupArchive(ar)
    BY <1>3
  <2>2. ar \in Seq(Units)
    BY LinkerAssumption
  <2>3. QED
    BY <1>1, <1>2, <2>1, <2>2 DEF GroupArchive, DriverOK
<1> <<>> \in Seq(Units)
  OBVIOUS
<1>4. CASE StartGroup
  BY <1>1, <1>2, <1>4 DEF StartGroup, DriverOK
<1>5. CASE EndGroup
  BY <1>1, <1>2, <1>5 DEF EndGroup, LinkGroup, DriverOK
<1>6. CASE BadArg
  BY <1>1, <1>2, <1>6 DEF BadArg, DriverOK, drvvars
<1>7. CASE ToggleWhole
  BY <1>1, <1>2, <1>7 DEF ToggleWhole, DriverOK, drvvars
<1>8. CASE \/ \E u \in Units : ObjectArg(u)
           \/ \E sym \in Symbols : UndefinedArg(sym)
  BY <1>1, <1>2, <1>8 DEF ObjectArg, UndefinedArg, DriverOK, drvvars
<1>9. CASE \E ar \in Archives : SearchArchive(ar) \/ WholeArchive(ar)
  BY <1>1, <1>2, <1>9 DEF SearchArchive, WholeArchive, LinkGroup, DriverOK, drvvars
<1>10. CASE WholeStep \/ WholeEnd \/ Skip \/ Merge \/ Drop \/ Again \/ EndScan
  BY <1>1, <1>10 DEF WholeStep, WholeEnd, Skip, Merge, Drop, Again, EndScan, DriverOK, drvvars
<1>11. CASE Finish \/ Stop
  BY <1>1, <1>11 DEF Finish, Stop, DriverOK, vars, drvvars
<1>12. QED
  BY <1>3, <1>4, <1>5, <1>6, <1>7, <1>8, <1>9, <1>10, <1>11 DEF Next

LEMMA TypeStep ==
  ASSUME TypeOK, [Next]_vars
  PROVE  TypeOK'
<1>1. CASE UNCHANGED vars
  BY <1>1 DEF vars, linkvars, drvvars, TypeOK, Scans
<1>2. CASE Next
  <2>1. DriverOK'
    BY <1>2, DriverType
  <2>2. scan' \in Scans /\ scan'.it <= Len(scan'.list) + 1
    <3>1. scan \in Scans /\ group \in Seq(Units) /\ scan.it <= Len(scan.list) + 1
      BY DEF TypeOK
    <3>2. ASSUME NEW list \in Seq(Units), NEW b \in BOOLEAN
          PROVE  LET s == [list |-> list, it |-> 1, progress |-> b]
                 IN  s \in Scans /\ s.it <= Len(s.list) + 1
      BY DEF Scans
    <3>3. NoScan \in Scans /\ NoScan.it <= Len(NoScan.list) + 1
      BY DEF NoScan, Scans
    <3>4. CASE Merge \/ Drop
      <4>1. scan.list \in Seq(Units) /\ scan.it \in 1 .. Len(scan.list)
        BY <3>1, <3>4 DEF Merge, Drop, Scans
      <4>2. PICK b \in BOOLEAN :
              scan' = [list |-> Erase(scan.list, scan.it), it |-> scan.it, progress |-> b]
        BY <3>1, <3>4 DEF Merge, Drop, Scans
      <4>3. QED
        BY <4>1, <4>2, EraseType DEF Scans
    <3>5. CASE Skip
      BY <3>1, <3>5 DEF Skip, Scans
    <3>6. CASE WholeStep
      BY <3>1, <3>6 DEF WholeStep, Scans
    <3>7. CASE Again
      BY <3>1, <3>7 DEF Again, Scans
    <3>8. CASE EndScan \/ WholeEnd
      BY <3>3, <3>8 DEF EndScan, WholeEnd
    <3>9. CASE \E ar \in Archives : SearchArchive(ar) \/ WholeArchive(ar)
      <4>1. PICK ar \in Archives : scan' = [list |-> ar, it |-> 1, progress |-> FALSE]
        BY <3>9 DEF SearchArchive, WholeArchive, LinkGroup
      <4>2. QED
        BY <4>1, <3>2, LinkerAssumption
    <3>10. CASE EndGroup
      <4>1. scan' = scan \/ scan' = [list |-> group, it |-> 1, progress |-> FALSE]
        BY <3>10 DEF EndGroup, LinkGroup
      <4>2. QED
        BY <4>1, <3>1, <3>2
    <3>11. QED
      BY <1>2, <3>1, <3>4, <3>5, <3>6, <3>7, <3>8, <3>9, <3>10
         DEF Next, ObjectArg, UndefinedArg, GroupArchive, BadArg, ToggleWhole, StartGroup, Finish,
             Stop, vars
  <2>4. QED
    BY <1>2, <2>1, <2>2, LinkType DEF TypeOK, DriverOK
<1>3. QED
  BY <1>1, <1>2

\* The sets, the lists and the iterator of LinkGroup keep their types; the
\* iterator never passes the end of a list that shrinks while it is walked.
THEOREM LinkerType == Spec => []TypeOK
<1>1. Init => TypeOK
  <2> SUFFICES ASSUME Init PROVE TypeOK
    OBVIOUS
  <2>1. <<>> \in Seq(Units)
    OBVIOUS
  <2>2. scan \in Scans /\ scan.it <= Len(scan.list) + 1
    BY <2>1 DEF Init, NoScan, Scans
  <2>3. args \in 0 .. MaxArgs
    BY LinkerAssumption DEF Init
  <2>4. QED
    BY <2>1, <2>2, <2>3 DEF Init, TypeOK
<1>2. TypeOK /\ [Next]_vars => TypeOK'
  BY TypeStep
<1>3. QED
  BY <1>1, <1>2, PTL DEF Spec

-----------------------------------------------------------------------------
(* The bookkeeping of symbols *)

\* The inductive form of BookkeepingExact.  lto_ stands between the bitcode and
\* the symbols it may need: it is set before the first bitcode file is
\* resolved, and from then on those symbols are resolved or missing.
BookInv ==
  /\ resolved = UNION {Defs[u] : u \in Linked}
  /\ \A u \in Linked : Undefs[u] \subseteq resolved \cup unresolved
  /\ \A u \in Linked : Kind[u] = "BITCODE" => lto
  /\ lto => Builtins \subseteq resolved \cup unresolved
  /\ \A u \in Linked : Kind[u] # "DATA"
  /\ linked \subseteq {Name[u] : u \in Linked}

LEMMA BookStep ==
  ASSUME TypeOK, BookInv, [Next]_vars
  PROVE  BookInv'
<1>1. CASE UNCHANGED linkvars
  BY <1>1 DEF linkvars, BookInv, Linked
<1>2. CASE Asks
  <2>1. Linked' = Linked
    BY <1>2 DEF Asks, Linked
  <2>2. QED
    BY <1>2, <2>1 DEF Asks, BookInv
<1>3. ASSUME NEW u \in Units, Links(u)
      PROVE  BookInv'
  <2>1. Before(u) \in SUBSET Symbols
    BY InitialiseLTOType DEF Before, TypeOK
  <2>2. Linked' = Linked \cup {u} /\ Resolve(u, Before(u))
    BY <1>3, <2>1, ResolveType DEF Links
  <2>3. resolved' = resolved \cup Defs[u]
    BY <2>2 DEF Resolve
  <2>4. unresolved \subseteq Before(u)
    BY DEF Before, InitialiseLTO
  <2>5. Before(u) \subseteq resolved' \cup unresolved'
    BY <2>2 DEF Resolve
  <2>6. Undefs[u] \subseteq resolved' \cup unresolved'
    BY <2>2 DEF Resolve
  <2>7. resolved' = UNION {Defs[v] : v \in Linked'}
    BY <2>2, <2>3 DEF BookInv
  <2>8. \A v \in Linked' : Undefs[v] \subseteq resolved' \cup unresolved'
    BY <2>2, <2>3, <2>4, <2>5, <2>6 DEF BookInv
  <2>9. lto' => Builtins \subseteq resolved' \cup unresolved'
    <3>1. CASE lto
      BY <3>1, <2>3, <2>4, <2>5 DEF BookInv
    <3>2. CASE ~lto /\ Kind[u] = "BITCODE"
      BY <3>2, <2>5 DEF Before, InitialiseLTO
    <3>3. QED
      BY <1>3, <3>1, <3>2 DEF Links
  <2>10. linked' \subseteq {Name[v] : v \in Linked'}
    BY <1>3, <2>2 DEF Links, BookInv
  <2>11. \A v \in Linked' : (Kind[v] = "BITCODE" => lto') /\ Kind[v] # "DATA"
    BY <1>3, <2>2 DEF Links, BookInv
  <2>12. QED
    BY <2>7, <2>8, <2>9, <2>10, <2>11 DEF BookInv
<1>4. CASE UNCHANGED vars
  BY <1>1, <1>4 DEF vars
<1>5. QED
  BY <1>1, <1>2, <1>3, <1>4, LinkStep

LEMMA BookInductive == Spec => [](TypeOK /\ BookInv)
<1>1. Init => BookInv
  BY DEF Init, BookInv, Linked
<1>2. TypeOK /\ BookInv /\ [Next]_vars => BookInv'
  BY BookStep
<1>3. QED
  BY <1>1, <1>2, LinkerType, PTL DEF Spec

\* Whatever is linked, and in whatever order, Resolve, InitialiseLTO and
\* LinkUndefined together keep resolved_ and unresolved_ in agreement with the
\* units.
THEOREM Bookkeeping == Spec => []BookkeepingExact
<1>1. BookInv => BookkeepingExact
  BY DEF BookInv, BookkeepingExact
<1>2. QED
  BY <1>1, BookInductive, PTL

-----------------------------------------------------------------------------
(* LinkGroup *)

\* No bitcode file has the name of a program.  Where one has, LinkGroup drops
\* the bitcode member after InitialiseLTO has asked for more symbols, and does
\* not look for them in the members it has passed.
KindsApart ==
  \A u, v \in Units : Kind[u] = "BITCODE" /\ Kind[v] = "LLIR" => Name[u] # Name[v]

\* In a pass that has linked nothing yet, the members passed by define nothing
\* that is missing.
PassClosed ==
  phase = "scan" /\ ~scan.progress =>
    \A i \in 1 .. scan.it - 1 : Defs[scan.list[i]] \cap unresolved = {}

LEMMA PassStep ==
  ASSUME KindsApart, TypeOK, BookInv, PassClosed, [Next]_vars
  PROVE  PassClosed'
<1> SUFFICES ASSUME phase' = "scan", ~scan'.progress,
                    NEW i \in 1 .. scan'.it - 1
             PROVE  Defs[scan'.list[i]] \cap unresolved' = {}
  BY DEF PassClosed
<1>1. scan.list \in Seq(Units) /\ scan.it \in Nat /\ scan.progress \in BOOLEAN
  BY DEF TypeOK, Scans
<1>2. CASE Skip
  <2>1. i \in 1 .. scan.it /\ scan'.list = scan.list /\ unresolved' = unresolved
    BY <1>1, <1>2 DEF Skip, linkvars
  <2>2. phase = "scan" /\ ~scan.progress /\ ~Resolves(scan.list[scan.it])
    BY <1>1, <1>2 DEF Skip
  <2>3. QED
    BY <1>1, <2>1, <2>2 DEF PassClosed, Resolves
<1>3. CASE Merge
  BY <1>3 DEF Merge
<1>4. CASE Drop
  <2>1. phase = "scan" /\ scan.it \in 1 .. Len(scan.list)
    BY <1>1, <1>4 DEF Drop, TypeOK, Scans
  <2>2. /\ scan'.list = Erase(scan.list, scan.it)
        /\ scan'.it = scan.it
        /\ ~scan.progress
    BY <1>4 DEF Drop
  <2>3. scan'.list[i] = scan.list[i]
    BY <1>1, <2>1, <2>2, EraseType
  <2>4. unresolved' = unresolved
    <3> DEFINE u == scan.list[scan.it]
    <3>1. u \in Units
      BY <1>1, <2>1
    <3>2. CASE Kind[u] = "BITCODE"
      <4>1. Name[u] \in linked
        BY <1>4, <3>2 DEF Drop
      <4>2. PICK v \in Linked : Name[v] = Name[u]
        BY <4>1 DEF BookInv
      <4>3. v \in Units /\ Kind[v] # "DATA"
        BY DEF Linked, TypeOK, BookInv
      <4>4. Kind[v] = "BITCODE"
        BY <3>1, <3>2, <4>2, <4>3, LinkerAssumption DEF KindsApart
      <4>5. lto
        BY <4>4 DEF BookInv
      <4>6. QED
        BY <1>4, <4>5 DEF Drop, InitialiseLTO
    <3>3. CASE Kind[u] # "BITCODE"
      BY <1>4, <3>3 DEF Drop
    <3>4. QED
      BY <3>2, <3>3
  <2>5. QED
    BY <2>1, <2>2, <2>3, <2>4 DEF PassClosed
<1>5. CASE Again
  BY <1>5 DEF Again
<1>6. CASE \E ar \in Archives : SearchArchive(ar)
  BY <1>6 DEF SearchArchive, LinkGroup
<1>7. CASE EndGroup
  BY <1>7 DEF EndGroup, LinkGroup
<1>8. CASE phase' # "scan"
  BY <1>8
<1>9. CASE UNCHANGED vars
  BY <1>9 DEF vars, linkvars, PassClosed
<1>10. Next => \/ Skip \/ Merge \/ Drop \/ Again \/ EndGroup \/ phase' # "scan" \/ UNCHANGED vars
               \/ \E ar \in Archives : SearchArchive(ar)
  BY DEF Next, ObjectArg, UndefinedArg, GroupArchive, WholeArchive, NextArg, BadArg, ToggleWhole,
         StartGroup, WholeStep, WholeEnd, EndScan, Finish, Stop
<1>11. QED
  BY <1>2, <1>3, <1>4, <1>5, <1>6, <1>7, <1>8, <1>9, <1>10

\* When LinkGroup returns, no member that it leaves behind would resolve a
\* missing symbol, in whatever order members need each other.
THEOREM GroupsClosed ==
  ASSUME KindsApart
  PROVE  Spec => GroupClosed
<1> DEFINE Closed ==
      phase = "scan" /\ phase' = "args" =>
        \A i \in DOMAIN scan.list : Defs[scan.list[i]] \cap unresolved' = {}
<1>1. Init => PassClosed
  BY DEF Init, PassClosed, NoScan
<1>2. TypeOK /\ BookInv /\ PassClosed /\ [Next]_vars => PassClosed'
  BY PassStep
<1>3. TypeOK /\ PassClosed /\ [Next]_vars => [Closed]_vars
  <2> SUFFICES ASSUME TypeOK, PassClosed, Next, phase = "scan", phase' = "args"
               PROVE  \A i \in DOMAIN scan.list : Defs[scan.list[i]] \cap unresolved' = {}
    OBVIOUS
  <2>1. EndScan
    BY DEF Next, ObjectArg, UndefinedArg, SearchArchive, GroupArchive, WholeArchive, NextArg,
           BadArg, ToggleWhole, StartGroup, EndGroup, WholeStep, WholeEnd, Skip, Merge, Drop,
           Again, Finish, Stop, vars
  <2>2. scan.list \in Seq(Units) /\ scan.it \in Nat /\ scan.it > Len(scan.list)
    BY <2>1 DEF EndScan, TypeOK, Scans
  <2>3. \A i \in DOMAIN scan.list : i \in 1 .. scan.it - 1
    BY <2>2
  <2>4. QED
    BY <2>1, <2>3 DEF EndScan, PassClosed, linkvars
<1>4. QED
  BY <1>1, <1>2, <1>3, BookInductive, PTL DEF Spec, GroupClosed

-----------------------------------------------------------------------------
(* The end of Link: the concatenation of a section                         *)

Even(n) == \E h \in Nat : n = 2 * h
Odd(n)  == \E h \in Nat : n = 2 * h + 1

\* The last object of an even number, and the last atom of an even number.
LeftBehind(o, k) ==
  \/ Even(Len(shape)) /\ o = Len(shape)
  \/ Even(shape[o]) /\ k = shape[o]

\* Such an object has an atom.
Loses == \E o \in DOMAIN shape : \E k \in 1 .. shape[o] : LeftBehind(o, k)

WholeObject(o) == [k \in 1 .. shape[o] |-> <<o, k>>]

\* The j-th object of what is left of the section is untouched, and not the one
\* that is left behind unless it is the last.
Untouched(j, o) ==
  /\ data[j] = WholeObject(o)
  /\ Even(Len(shape)) /\ j < Len(data) => o # Len(shape)

\* An iterator of a walk that began with an even number of elements stays an odd
\* distance from the last one: removing one and moving on twice keeps it so.
DataLeft ==
  /\ shape \in Shapes
  /\ data \in Seq(Seq(Atoms))
  /\ ot \in 0 .. Len(data)
  /\ \A j \in 1 .. Len(data) : \E o \in DOMAIN shape : Untouched(j, o)
  /\ Even(Len(shape)) /\ ot # End => Odd(Len(data) - ot)

\* What is left of object o, which is being emptied.
SourceLeft(o) ==
  /\ source \in Seq(Atoms)
  /\ at \in 0 .. Len(source)
  /\ Even(Len(shape)) => o # Len(shape)
  /\ \A j \in 1 .. Len(source) : source[j][1] = o
  /\ Even(shape[o]) =>
       /\ \A j \in 1 .. Len(source) - 1 : source[j][2] # shape[o]
       /\ at # End => Odd(Len(source) - at)

LossInv ==
  /\ DataLeft
  /\ pc = "inner" => ot # End /\ \E o \in DOMAIN shape : SourceLeft(o)
  /\ object \in Seq(Atoms)
  /\ \A j \in 1 .. Len(object) : ~LeftBehind(object[j][1], object[j][2])

-----------------------------------------------------------------------------
(* The walks                                                               *)

\* RemoveAt closes the gap.
LEMMA RemoveAtFacts ==
  ASSUME NEW S, NEW s \in Seq(S), NEW i \in 1 .. Len(s)
  PROVE  LET r == RemoveAt(s, i)
         IN  /\ r \in Seq(S) /\ Len(r) = Len(s) - 1
             /\ \A j \in 1 .. Len(r) : r[j] = IF j < i THEN s[j] ELSE s[j + 1]
<1> DEFINE a == SubSeq(s, 1, i - 1)
           b == SubSeq(s, i + 1, Len(s))
<1>1. Len(s) \in Nat /\ i \in Nat /\ i <= Len(s) /\ 1 <= i
  OBVIOUS
<1>2. /\ a \in Seq(S) /\ Len(a) = i - 1
      /\ \A j \in 1 .. i - 1 : a[j] = s[j]
  BY <1>1
<1>3. /\ b \in Seq(S) /\ Len(b) = Len(s) - i
      /\ \A j \in 1 .. Len(s) - i : b[j] = s[i + j]
  BY <1>1
<1> HIDE DEF a, b
<1>4. PICK r : r = a \o b /\ r = RemoveAt(s, i)
  BY DEF RemoveAt, a, b
<1>5. /\ r \in Seq(S) /\ Len(r) = Len(s) - 1
      /\ \A j \in 1 .. Len(r) : r[j] = IF j <= Len(a) THEN a[j] ELSE b[j - Len(a)]
  <2>1. /\ r \in Seq(S) /\ Len(r) = Len(a) + Len(b)
        /\ \A j \in 1 .. Len(a) + Len(b) : r[j] = IF j <= Len(a) THEN a[j] ELSE b[j - Len(a)]
    <3>1. PICK m \in Seq(S), n \in Seq(S) : m = a /\ n = b
      BY <1>2, <1>3
    <3>2. r = m \o n
      BY <1>4, <3>1
    <3>3. /\ r \in Seq(S) /\ Len(r) = Len(m) + Len(n)
          /\ \A j \in 1 .. Len(m) + Len(n) : r[j] = IF j <= Len(m) THEN m[j] ELSE n[j - Len(m)]
      BY <3>2, ConcatProperties
    <3>4. QED
      BY <3>1, <3>3
  <2>2. Len(a) + Len(b) = Len(s) - 1
    BY <1>1, <1>2, <1>3
  <2>3. QED
    BY <2>1, <2>2
<1>6. ASSUME NEW j \in 1 .. Len(r) PROVE r[j] = IF j < i THEN s[j] ELSE s[j + 1]
  <2>1. CASE j < i
    BY <1>1, <1>2, <1>5, <2>1
  <2>2. CASE i <= j
    <3>1. j - Len(a) \in 1 .. Len(s) - i /\ i + (j - Len(a)) = j + 1
      BY <1>1, <1>2, <1>5, <2>2
    <3>2. r[j] = b[j - Len(a)] /\ b[j - Len(a)] = s[i + (j - Len(a))]
      BY <1>1, <1>2, <1>3, <1>5, <2>2, <3>1
    <3>3. QED
      BY <1>1, <2>2, <3>1, <3>2
  <2>3. QED
    BY <1>1, <1>5, <2>1, <2>2
<1>7. QED
  BY <1>4, <1>5, <1>6

\* Both loops: after the element at i was taken out, the iterator is in the list.
LEMMA Advance ==
  ASSUME NEW n \in Nat, NEW i \in 1 .. n, NEW list, NEW rest,
         Len(list) = n, Len(rest) = n - 1
  PROVE  After(rest, Shifted(After(list, i), i)) \in 0 .. Len(rest)
BY DEF After, Shifted, End

\* An odd distance from the last element stays odd, or the walk is over.
LEMMA AdvanceOdd ==
  ASSUME NEW n \in Nat, NEW i \in 1 .. n, NEW list, NEW rest,
         Len(list) = n, Len(rest) = n - 1, Odd(n - i)
  PROVE  LET j == After(rest, Shifted(After(list, i), i))
         IN  j # End => Odd(Len(rest) - j)
<1>1. PICK h \in Nat : n - i = 2 * h + 1
  BY DEF Odd
<1>2. i < n /\ Shifted(After(list, i), i) = i
  BY <1>1 DEF After, Shifted
<1>3. CASE i = n - 1
  BY <1>2, <1>3 DEF After
<1>4. CASE i # n - 1
  <2>1. After(rest, i) = i + 1
    BY <1>4 DEF After
  <2>2. h - 1 \in Nat /\ (n - 1) - (i + 1) = 2 * (h - 1) + 1
    BY <1>1, <1>4
  <2>3. QED
    BY <1>2, <2>1, <2>2 DEF Odd
<1>5. QED
  BY <1>3, <1>4

\* A walk over an even number of elements starts an odd distance from the last.
LEMMA BeginOdd ==
  ASSUME NEW list, Len(list) \in Nat, Even(Len(list)), Begin(list) # End
  PROVE  Odd(Len(list) - Begin(list))
<1>1. PICK h \in Nat : Len(list) = 2 * h
  BY DEF Even
<1>2. Begin(list) = 1 /\ Len(list) # 0
  BY DEF Begin, After, End
<1>3. h - 1 \in Nat /\ Len(list) - 1 = 2 * (h - 1) + 1
  BY <1>1, <1>2
<1>4. QED
  BY <1>2, <1>3 DEF Odd

\* The input is a sequence of numbers of atoms.
LEMMA ShapeFacts ==
  ASSUME shape \in Shapes
  PROVE  /\ Len(shape) \in 0 .. MaxObjects /\ DOMAIN shape = 1 .. Len(shape)
         /\ \A o \in DOMAIN shape : shape[o] \in 0 .. MaxAtoms
         /\ \A o \in DOMAIN shape : o \in 1 .. MaxObjects
<1>1. PICK n \in 0 .. MaxObjects : shape \in [1 .. n -> 0 .. MaxAtoms]
  BY DEF Shapes
<1>2. n \in Nat /\ n <= MaxObjects
  BY <1>1, SectionsAssumption
<1>3. Len(shape) = n /\ DOMAIN shape = 1 .. n
  BY <1>1, <1>2
<1>4. QED
  BY <1>1, <1>2, <1>3, SectionsAssumption

LEMMA WholeFacts ==
  ASSUME shape \in Shapes, NEW o \in DOMAIN shape
  PROVE  /\ WholeObject(o) \in Seq(Atoms) /\ Len(WholeObject(o)) = shape[o]
         /\ \A k \in 1 .. shape[o] : WholeObject(o)[k][1] = o /\ WholeObject(o)[k][2] = k
<1>1. shape[o] \in Nat /\ shape[o] <= MaxAtoms /\ o \in 1 .. MaxObjects
  BY ShapeFacts, SectionsAssumption
<1>2. ASSUME NEW k \in 1 .. shape[o]
      PROVE  <<o, k>> \in Atoms /\ <<o, k>>[1] = o /\ <<o, k>>[2] = k
  BY <1>1, SectionsAssumption DEF Atoms
<1>3. WholeObject(o) \in [1 .. shape[o] -> Atoms]
  BY <1>2 DEF WholeObject
<1>4. QED
  BY <1>1, <1>2, <1>3 DEF WholeObject

-----------------------------------------------------------------------------
(* The inductive invariant of the concatenation                            *)

LEMMA InitLoss ==
  ASSUME JoinInit
  PROVE  LossInv
<1>1. /\ shape \in Shapes /\ pc = "outer" /\ object = <<>> /\ ot = Begin(data)
      /\ data = [o \in DOMAIN shape |-> WholeObject(o)]
  BY DEF JoinInit, WholeObject
<1>2. PICK n \in Nat : n = Len(shape) /\ DOMAIN shape = 1 .. n
  <2>1. Len(shape) \in 0 .. MaxObjects /\ DOMAIN shape = 1 .. Len(shape)
    BY <1>1, ShapeFacts
  <2>2. Len(shape) \in Nat
    BY <2>1, SectionsAssumption
  <2>3. QED
    BY <2>1, <2>2
<1>3. data \in Seq(Seq(Atoms)) /\ Len(data) = n
  <2>1. data \in [1 .. n -> Seq(Atoms)]
    BY <1>1, <1>2, WholeFacts
  <2>2. QED
    BY <1>2, <2>1
<1>4. ASSUME NEW j \in 1 .. Len(data) PROVE Untouched(j, j) /\ j \in DOMAIN shape
  BY <1>1, <1>2, <1>3 DEF Untouched
<1>5. ot \in 0 .. Len(data)
  BY <1>1, <1>3 DEF Begin, After, End
<1>6. Even(Len(shape)) /\ ot # End => Odd(Len(data) - ot)
  BY <1>1, <1>2, <1>3, BeginOdd
<1>7. DataLeft
  BY <1>1, <1>3, <1>4, <1>5, <1>6 DEF DataLeft
<1>8. object \in Seq(Atoms) /\ Len(object) = 0
  BY <1>1
<1>9. QED
  BY <1>1, <1>7, <1>8 DEF LossInv

LEMMA OpenObjectStep ==
  ASSUME LossInv, OpenObject
  PROVE  LossInv'
<1>1. /\ pc = "outer" /\ ot # End /\ source' = data[ot] /\ pc' = "inner"
      /\ at' = Begin(data[ot]) /\ UNCHANGED <<shape, data, object, ot>>
  BY DEF OpenObject
<1>2. /\ shape \in Shapes /\ data \in Seq(Seq(Atoms)) /\ ot \in 1 .. Len(data)
      /\ Even(Len(shape)) => Odd(Len(data) - ot)
  BY <1>1 DEF LossInv, DataLeft, End
<1>3. PICK o \in DOMAIN shape : Untouched(ot, o)
  BY <1>2 DEF LossInv, DataLeft
<1>4. source' = WholeObject(o) /\ at' = Begin(WholeObject(o))
  BY <1>1, <1>3 DEF Untouched
<1>5. shape[o] \in Nat
  BY <1>2, ShapeFacts, SectionsAssumption
<1>6. /\ source' \in Seq(Atoms) /\ Len(source') = shape[o]
      /\ \A k \in 1 .. shape[o] : source'[k][1] = o /\ source'[k][2] = k
  BY <1>2, <1>4, WholeFacts
<1>7. at' \in 0 .. Len(source')
  BY <1>4, <1>5, <1>6 DEF Begin, After, End
<1>8. Even(Len(shape)) => o # Len(shape)
  <2>1. ASSUME Odd(Len(data) - ot) PROVE ot < Len(data)
    BY <1>2, <2>1 DEF Odd
  <2>2. QED
    BY <1>2, <1>3, <2>1 DEF Untouched
<1>9. ASSUME Even(shape[o]), at' # End PROVE Odd(Len(source') - at')
  BY <1>4, <1>5, <1>6, <1>9, BeginOdd
<1>10. SourceLeft(o)'
  BY <1>1, <1>5, <1>6, <1>7, <1>8, <1>9 DEF SourceLeft
<1>11. DataLeft'
  BY <1>1 DEF LossInv, DataLeft, Untouched, WholeObject
<1>12. (\A j \in 1 .. Len(object) : ~LeftBehind(object[j][1], object[j][2]))'
  BY <1>1 DEF LossInv, LeftBehind
<1>13. QED
  BY <1>1, <1>3, <1>10, <1>11, <1>12 DEF LossInv

\* The atom that is moved is neither the last of an even number nor from the
\* last of an even number of objects.
LEMMA MoveAtomStep ==
  ASSUME LossInv, MoveAtom
  PROVE  LossInv'
<1>1. /\ pc = "inner" /\ at # End /\ source' = RemoveAt(source, at)
      /\ at' = After(source', Shifted(After(source, at), at))
      /\ object' = Append(object, source[at]) /\ UNCHANGED <<shape, data, ot, pc>>
  BY DEF MoveAtom
<1>2. PICK o \in DOMAIN shape : SourceLeft(o)
  BY <1>1 DEF LossInv
<1>3. source \in Seq(Atoms) /\ Len(source) \in Nat /\ at \in 1 .. Len(source)
  BY <1>1, <1>2 DEF SourceLeft, End
<1>4. /\ source' \in Seq(Atoms) /\ Len(source') = Len(source) - 1
      /\ \A j \in 1 .. Len(source') : source'[j] = IF j < at THEN source[j] ELSE source[j + 1]
  BY <1>1, <1>3, RemoveAtFacts
<1>5. at' \in 0 .. Len(source')
  BY <1>1, <1>3, <1>4, Advance
<1>6. \A j \in 1 .. Len(source') : source'[j][1] = o
  BY <1>2, <1>3, <1>4 DEF SourceLeft
<1>7. ASSUME Even(shape[o])
      PROVE  /\ \A j \in 1 .. Len(source') - 1 : source'[j][2] # shape[o]
             /\ at' # End => Odd(Len(source') - at')
             /\ source[at][2] # shape[o]
  <2>1. /\ \A j \in 1 .. Len(source) - 1 : source[j][2] # shape[o]
        /\ Odd(Len(source) - at)
    BY <1>1, <1>2, <1>7 DEF SourceLeft
  <2>2. at \in 1 .. Len(source) - 1
    BY <1>3, <2>1 DEF Odd
  <2>3. \A j \in 1 .. Len(source') - 1 : source'[j][2] # shape[o]
    BY <1>3, <1>4, <2>1
  <2>4. at' # End => Odd(Len(source') - at')
    BY <1>1, <1>3, <1>4, <2>1, AdvanceOdd
  <2>5. QED
    BY <2>1, <2>2, <2>3, <2>4
<1>8. SourceLeft(o)'
  BY <1>1, <1>2, <1>4, <1>5, <1>6, <1>7 DEF SourceLeft
<1>9. source[at] \in Atoms /\ ~LeftBehind(source[at][1], source[at][2])
  BY <1>2, <1>3, <1>7 DEF SourceLeft, LeftBehind
<1>10. object' \in Seq(Atoms) /\ \A j \in 1 .. Len(object') :
         ~LeftBehind(object'[j][1], object'[j][2])
  <2>1. PICK a \in Atoms : a = source[at] /\ object' = Append(object, a)
    BY <1>1, <1>9
  <2>2. /\ object' \in Seq(Atoms) /\ Len(object') = Len(object) + 1
        /\ \A j \in 1 .. Len(object) : object'[j] = object[j]
        /\ object'[Len(object) + 1] = a /\ Len(object) \in Nat
    BY <2>1, AppendProperties DEF LossInv
  <2>3. ASSUME NEW j \in 1 .. Len(object') PROVE ~LeftBehind(object'[j][1], object'[j][2])
    BY <1>9, <2>1, <2>2 DEF LossInv
  <2>4. QED
    BY <2>2, <2>3
<1>11. (\A j \in 1 .. Len(object) : ~LeftBehind(object[j][1], object[j][2]))'
  BY <1>1, <1>10 DEF LeftBehind
<1>12. DataLeft'
  BY <1>1 DEF LossInv, DataLeft, Untouched, WholeObject
<1>13. QED
  BY <1>1, <1>2, <1>8, <1>10, <1>11, <1>12 DEF LossInv

\* The object that is erased is not the last of an even number.
LEMMA EraseObjectStep ==
  ASSUME LossInv, EraseObject
  PROVE  LossInv'
<1>1. /\ pc = "inner" /\ data' = RemoveAt(data, ot)
      /\ ot' = After(data', Shifted(After(data, ot), ot))
      /\ pc' = "outer" /\ UNCHANGED <<shape, object>>
  BY DEF EraseObject
<1>2. data \in Seq(Seq(Atoms)) /\ Len(data) \in Nat /\ ot \in 1 .. Len(data) /\ ot # End
  BY <1>1 DEF LossInv, DataLeft, End
<1>3. /\ data' \in Seq(Seq(Atoms)) /\ Len(data') = Len(data) - 1
      /\ \A j \in 1 .. Len(data') : data'[j] = IF j < ot THEN data[j] ELSE data[j + 1]
  BY <1>1, <1>2, RemoveAtFacts
<1>4. ot' \in 0 .. Len(data')
  BY <1>1, <1>2, <1>3, Advance
<1>5. ASSUME Even(Len(shape)), ot' # End PROVE Odd(Len(data') - ot')
  <2>1. Odd(Len(data) - ot)
    BY <1>2, <1>5 DEF LossInv, DataLeft
  <2>2. QED
    BY <1>1, <1>2, <1>3, <1>5, <2>1, AdvanceOdd
<1>6. ASSUME NEW j \in 1 .. Len(data') PROVE \E o \in DOMAIN shape : Untouched(j, o)'
  <2>1. PICK i \in 1 .. Len(data) : /\ data'[j] = data[i]
                                    /\ j < Len(data') => i < Len(data)
    <3>1. j \in Nat /\ j >= 1 /\ j + 1 <= Len(data)
      BY <1>2, <1>3
    <3>2. CASE j < ot
      <4>1. data'[j] = data[j] /\ j \in 1 .. Len(data)
        BY <1>2, <1>3, <3>1, <3>2
      <4>2. j < Len(data') => j < Len(data)
        BY <1>2, <1>3, <3>1
      <4>3. QED
        BY <4>1, <4>2
    <3>3. CASE ~(j < ot)
      <4>1. data'[j] = data[j + 1] /\ j + 1 \in 1 .. Len(data)
        BY <1>2, <1>3, <3>1, <3>3
      <4>2. j < Len(data') => j + 1 < Len(data)
        BY <1>2, <1>3, <3>1
      <4>3. QED
        BY <4>1, <4>2
    <3>4. QED
      BY <3>2, <3>3
  <2>2. PICK o \in DOMAIN shape : Untouched(i, o)
    BY DEF LossInv, DataLeft
  <2>3. Untouched(j, o)'
    BY <1>1, <2>1, <2>2 DEF Untouched, WholeObject
  <2>4. QED
    BY <2>3
<1>7. DataLeft'
  BY <1>1, <1>3, <1>4, <1>5, <1>6 DEF LossInv, DataLeft
<1>8. QED
  BY <1>1, <1>7 DEF LossInv, LeftBehind

LEMMA StepLoss ==
  ASSUME LossInv, [JoinNext]_joinvars
  PROVE  LossInv'
<1>1. ASSUME UNCHANGED <<shape, data, source, object, ot, at>>, pc' = "inner" => pc = "inner"
      PROVE  LossInv'
  BY <1>1 DEF LossInv, DataLeft, SourceLeft, Untouched, WholeObject, LeftBehind
<1>2. CASE JoinFinish \/ JoinStop \/ UNCHANGED joinvars
  BY <1>1, <1>2 DEF JoinFinish, JoinStop, joinvars
<1>3. QED
  BY <1>2, OpenObjectStep, MoveAtomStep, EraseObjectStep DEF JoinNext

\* For any number of objects and atoms: wherever the section has an even number
\* of objects, the last of them with an atom, or an object with an even number
\* of atoms, the new object ends up without some atom.  Either walk steps over
\* its last element, however often the iterator comes round.
THEOREM EvenWalksLose == JoinSpec => [](pc = "done" /\ Loses => ~Concatenated)
<1>1. ASSUME LossInv, pc = "done", Loses
      PROVE  ~Concatenated
  <2>1. PICK o \in DOMAIN shape : \E k \in 1 .. shape[o] : LeftBehind(o, k)
    BY <1>1 DEF Loses
  <2>2. PICK k \in 1 .. shape[o] : LeftBehind(o, k)
    BY <2>1
  <2>3. PICK a \in Input : a[1] = o /\ a[2] = k
    <3>1. shape[o] \in 0 .. MaxAtoms /\ o \in 1 .. MaxObjects
      BY <1>1, ShapeFacts DEF LossInv, DataLeft
    <3>2. k \in 1 .. MaxAtoms
      BY <3>1, SectionsAssumption
    <3>3. PICK a : a = <<o, k>>
      OBVIOUS
    <3>4. a \in Atoms /\ a[1] = o /\ a[2] = k
      BY <3>1, <3>2, <3>3 DEF Atoms
    <3>5. QED
      BY <3>4 DEF Input
  <2>4. a \notin ToSet(object)
    BY <1>1, <2>2, <2>3 DEF LossInv, ToSet
  <2>5. QED
    BY <1>1, <2>3, <2>4 DEF Concatenated
<1>2. JoinInit => LossInv
  BY InitLoss
<1>3. LossInv /\ [JoinNext]_joinvars => LossInv'
  BY StepLoss
<1>4. QED
  BY <1>1, <1>2, <1>3, PTL DEF JoinSpec

=============================================================================
