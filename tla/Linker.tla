------------------------------- MODULE Linker -------------------------------
(***************************************************************************)
(* Symbol resolution of llir-ld: the option loop of Driver::Link and the   *)
(* Linker it drives.  Objects named on the command line are linked as they *)
(* come; members of an archive (or of a --start-group ... --end-group list *)
(* of archives) only if they define a symbol that is missing, pass after   *)
(* pass until a pass links nothing.  LinkGroup takes one step per member.  *)
(***************************************************************************)
EXTENDS Naturals, Sequences, FiniteSets

CONSTANTS
  Units,       \* the objects: files, or members of archives
  Kind,        \* Unit::Kind of each: "LLIR", "BITCODE" or "DATA"
  Name,        \* the name of the program or of the bitcode file
  Defs,        \* non-local symbols the unit defines
  Aliases,     \* those of them that a program defines as an extern with a value
  Undefs,      \* symbols it refers to and does not define
  Archives,    \* the archives, as sequences of units
  Symbols,
  Builtins,    \* what LTO may introduce calls to: memmove, memcpy
  MaxArgs      \* bound: options that change the linker's state

ASSUME LinkerAssumption ==
  /\ Kind \in [Units -> {"LLIR", "BITCODE", "DATA"}]
  /\ Defs \in [Units -> SUBSET Symbols]
  /\ Undefs \in [Units -> SUBSET Symbols]
  /\ Aliases \in [Units -> SUBSET Symbols]
  /\ \A u \in Units : Aliases[u] \subseteq Defs[u]
  /\ \A u \in Units : Defs[u] \cap Undefs[u] = {}
  /\ Archives \subseteq Seq(Units)
  /\ Builtins \subseteq Symbols
  /\ MaxArgs \in Nat

VARIABLES
  units,        \* units_: what will be merged, in order
  unresolved,   \* unresolved_
  resolved,     \* resolved_
  linked,       \* linked_: names of programs that were linked
  lto,          \* lto_
  whole,        \* --whole-archive is in force
  group,        \* the list collected since --start-group
  open,         \* a --start-group is open
  scan,         \* the list being linked, the iterator and LinkGroup's flag
  args,         \* options processed
  phase         \* "args", "scan", "whole", "failed" (an error) or "done"

linkvars == <<units, unresolved, resolved, linked, lto>>
drvvars  == <<whole, group, open>>
vars == <<linkvars, drvvars, scan, args, phase>>

NoScan == [list |-> <<>>, it |-> 1, progress |-> FALSE]

\* The list without its i-th unit.
Erase(list, i) == [j \in 1 .. Len(list) - 1 |-> IF j < i THEN list[j] ELSE list[j + 1]]

-----------------------------------------------------------------------------
(* Linker                                                                  *)

\* The symbols that are unresolved once LTO was initialised.
InitialiseLTO == IF lto THEN unresolved ELSE unresolved \cup Builtins

\* Linker::Resolves.
Resolves(u) == Defs[u] \cap unresolved # {}

\* (mutant) Records what the unit defines and forgets what it needs.
ResolveDefsOnly(u, unres) ==
  /\ resolved' = resolved \cup Defs[u]
  /\ unresolved' = unres \ Defs[u]
  /\ units' = Append(units, u)

\* Linker::Resolve on a unit, given the unresolved symbols, and its transfer
\* to units_: externs first, then definitions.  An extern, with a value or
\* without, is passed over if its name is resolved already.
Resolve(u, unres) ==
  /\ resolved' = resolved \cup Defs[u]
  /\ unresolved' = (unres \cup (Undefs[u] \ resolved)) \ (Defs[u] \ (Aliases[u] \cap resolved))
  /\ units' = Append(units, u)

LinkUndefined(sym) ==
  /\ unresolved' = unresolved \cup {sym}
  /\ UNCHANGED <<units, resolved, linked, lto>>

\* LinkObject for a program: linked once.
LinkProgram(u) ==
  /\ Kind[u] = "LLIR"
  /\ IF Name[u] \in linked
       THEN UNCHANGED linkvars
       ELSE Resolve(u, unresolved) /\ linked' = linked \cup {Name[u]} /\ UNCHANGED lto

\* LinkObject for bitcode.
LinkBitcode(u) ==
  /\ Kind[u] = "BITCODE"
  /\ Resolve(u, InitialiseLTO)
  /\ lto' = TRUE
  /\ UNCHANGED linked

LinkObject(u) == LinkProgram(u) \/ LinkBitcode(u)

-----------------------------------------------------------------------------
(* LinkGroup                                                               *)

LinkGroup(list) ==
  /\ scan' = [list |-> list, it |-> 1, progress |-> FALSE]
  /\ phase' = "scan"

\* A member that defines nothing missing stays in the list.
Skip ==
  /\ phase = "scan" /\ scan.it <= Len(scan.list)
  /\ LET u == scan.list[scan.it]
     IN Kind[u] # "DATA" /\ ~Resolves(u)
  /\ scan' = [list |-> scan.list, it |-> scan.it + 1, progress |-> scan.progress]
  /\ UNCHANGED <<linkvars, drvvars, args, phase>>

\* (mutant) The pass that links a member is taken for the last one.
MergeNoProgress ==
  /\ phase = "scan" /\ scan.it <= Len(scan.list)
  /\ LET u == scan.list[scan.it]
     IN /\ Kind[u] # "DATA" /\ Resolves(u)
        /\ Name[u] \notin linked
        /\ Resolve(u, IF Kind[u] = "BITCODE" THEN InitialiseLTO ELSE unresolved)
        /\ linked' = linked \cup {Name[u]}
        /\ lto' = (lto \/ Kind[u] = "BITCODE")
        /\ scan' = [list |-> Erase(scan.list, scan.it), it |-> scan.it,
                    progress |-> scan.progress]
  /\ UNCHANGED <<drvvars, args, phase>>

\* A member that defines a missing symbol is merged and leaves the list.
Merge ==
  /\ phase = "scan" /\ scan.it <= Len(scan.list)
  /\ LET u == scan.list[scan.it]
     IN /\ Kind[u] # "DATA" /\ Resolves(u)
        /\ Name[u] \notin linked
        /\ Resolve(u, IF Kind[u] = "BITCODE" THEN InitialiseLTO ELSE unresolved)
        /\ linked' = linked \cup {Name[u]}
        /\ lto' = (lto \/ Kind[u] = "BITCODE")
        /\ scan' = [list |-> Erase(scan.list, scan.it), it |-> scan.it, progress |-> TRUE]
  /\ UNCHANGED <<drvvars, args, phase>>

\* One whose name was linked before, or plain data, only leaves the list.
Drop ==
  /\ phase = "scan" /\ scan.it <= Len(scan.list)
  /\ LET u == scan.list[scan.it]
     IN /\ Kind[u] = "DATA" \/ (Resolves(u) /\ Name[u] \in linked)
        /\ unresolved' = IF Kind[u] = "BITCODE" THEN InitialiseLTO ELSE unresolved
        /\ lto' = (lto \/ Kind[u] = "BITCODE")
  /\ scan' = [list |-> Erase(scan.list, scan.it), it |-> scan.it, progress |-> scan.progress]
  /\ UNCHANGED <<units, resolved, linked, drvvars, args, phase>>

\* (mutant) progress is not reset.
AgainStuck ==
  /\ phase = "scan" /\ scan.it > Len(scan.list) /\ scan.progress
  /\ scan' = [list |-> scan.list, it |-> 1, progress |-> TRUE]
  /\ UNCHANGED <<linkvars, drvvars, args, phase>>

\* while (progress).
Again ==
  /\ phase = "scan" /\ scan.it > Len(scan.list) /\ scan.progress
  /\ scan' = [list |-> scan.list, it |-> 1, progress |-> FALSE]
  /\ UNCHANGED <<linkvars, drvvars, args, phase>>

EndScan ==
  /\ phase = "scan" /\ scan.it > Len(scan.list) /\ ~scan.progress
  /\ scan' = NoScan
  /\ phase' = "args"
  /\ UNCHANGED <<linkvars, drvvars, args>>

-----------------------------------------------------------------------------
(* Driver::Link                                                            *)

NextArg == phase = "args" /\ args < MaxArgs /\ args' = args + 1

\* An object on the command line.
ObjectArg(u) ==
  /\ NextArg
  /\ LinkObject(u)
  /\ UNCHANGED <<drvvars, scan, phase>>

\* -u
UndefinedArg(sym) ==
  /\ NextArg
  /\ LinkUndefined(sym)
  /\ UNCHANGED <<drvvars, scan, phase>>

\* An archive outside of a group: searched on the spot.
SearchArchive(ar) ==
  /\ NextArg
  /\ ~whole /\ ~open
  /\ LinkGroup(ar)
  /\ UNCHANGED <<linkvars, drvvars>>

\* An archive inside a group: kept for --end-group.
GroupArchive(ar) ==
  /\ NextArg
  /\ ~whole /\ open
  /\ \A i \in DOMAIN ar : Kind[ar[i]] # "DATA"   \* Unit(Unit &&) has no such case
  /\ group' = group \o ar
  /\ UNCHANGED <<linkvars, whole, open, scan, phase>>

\* --whole-archive: every member is an object, also inside a group.
WholeArchive(ar) ==
  /\ NextArg
  /\ whole
  /\ \A i \in DOMAIN ar : Kind[ar[i]] # "DATA"
  /\ scan' = [list |-> ar, it |-> 1, progress |-> FALSE]
  /\ phase' = "whole"
  /\ UNCHANGED <<linkvars, drvvars>>

WholeStep ==
  /\ phase = "whole"
  /\ scan.it <= Len(scan.list)
  /\ LinkObject(scan.list[scan.it])
  /\ scan' = [list |-> scan.list, it |-> scan.it + 1, progress |-> FALSE]
  /\ UNCHANGED <<drvvars, args, phase>>

WholeEnd ==
  /\ phase = "whole"
  /\ scan.it > Len(scan.list)
  /\ scan' = NoScan
  /\ phase' = "args"
  /\ UNCHANGED <<linkvars, drvvars, args>>

\* A file that cannot be read, or a library that is not found.
BadArg ==
  /\ NextArg
  /\ phase' = "failed"
  /\ UNCHANGED <<linkvars, drvvars, scan>>

\* --whole-archive or --no-whole-archive.
ToggleWhole ==
  /\ NextArg
  /\ whole' = ~whole
  /\ UNCHANGED <<linkvars, group, open, scan, phase>>

StartGroup ==
  /\ NextArg
  /\ IF open THEN phase' = "failed" /\ UNCHANGED <<group, open>>
             ELSE open' = TRUE /\ group' = <<>> /\ UNCHANGED phase
  /\ UNCHANGED <<linkvars, whole, scan>>

EndGroup ==
  /\ NextArg
  /\ IF open THEN LinkGroup(group) ELSE phase' = "failed" /\ UNCHANGED scan
  /\ open' = FALSE
  /\ group' = <<>>
  /\ UNCHANGED <<linkvars, whole>>

\* The end of the command line.
Finish ==
  /\ phase = "args"
  /\ phase' = IF open THEN "failed" ELSE "done"
  /\ UNCHANGED <<linkvars, drvvars, scan, args>>

Stop == phase \in {"failed", "done"} /\ UNCHANGED vars

Init ==
  /\ units = <<>> /\ unresolved = {} /\ resolved = {} /\ linked = {} /\ lto = FALSE
  /\ whole = FALSE /\ group = <<>> /\ open = FALSE
  /\ scan = NoScan
  /\ args = 0
  /\ phase = "args"

Scan == Skip \/ Merge \/ Drop \/ Again \/ EndScan \/ WholeStep \/ WholeEnd

Next ==
  \/ \E u \in Units : ObjectArg(u)
  \/ \E sym \in Symbols : UndefinedArg(sym)
  \/ \E ar \in Archives : SearchArchive(ar)
  \/ \E ar \in Archives : GroupArchive(ar)
  \/ \E ar \in Archives : WholeArchive(ar)
  \/ WholeStep
  \/ WholeEnd
  \/ BadArg
  \/ ToggleWhole
  \/ StartGroup
  \/ EndGroup
  \/ Skip
  \/ Merge
  \/ Drop
  \/ Again
  \/ EndScan
  \/ Finish
  \/ Stop

\* The loops of LinkGroup run to their end.
Spec == Init /\ [][Next]_vars /\ WF_vars(Scan)

-----------------------------------------------------------------------------
(* Properties                                                              *)

Linked == {units[i] : i \in DOMAIN units}

Scans == [list : Seq(Units), it : Nat \ {0}, progress : BOOLEAN]

\* The types of the linker's and the driver's state; in particular a list that
\* LinkGroup edits stays a sequence and its iterator a position.
TypeOK ==
  /\ units \in Seq(Units)
  /\ unresolved \subseteq Symbols
  /\ resolved \subseteq Symbols
  /\ linked \subseteq {Name[u] : u \in Units}
  /\ lto \in BOOLEAN
  /\ whole \in BOOLEAN
  /\ open \in BOOLEAN
  /\ group \in Seq(Units)
  /\ scan \in Scans /\ scan.it <= Len(scan.list) + 1
  /\ args \in 0 .. MaxArgs
  /\ phase \in {"args", "scan", "whole", "failed", "done"}

\* resolved_ and unresolved_, kept up to date symbol by symbol, agree with what
\* was linked: a symbol counts as resolved exactly when a linked unit defines
\* it, and whatever a linked unit needs is one or the other, what LTO may add to
\* bitcode included.
BookkeepingExact ==
  /\ resolved = UNION {Defs[u] : u \in Linked}
  /\ \A u \in Linked : Undefs[u] \subseteq resolved \cup unresolved
  /\ \A u \in Linked : Kind[u] = "BITCODE" => Builtins \subseteq resolved \cup unresolved

\* "... as long as progress can be made": when LinkGroup returns, no member left
\* in the list defines a missing symbol, also one that a later member needed.
GroupClosed ==
  [][phase = "scan" /\ phase' = "args" =>
       \A i \in DOMAIN scan.list : Defs[scan.list[i]] \cap unresolved' = {}]_vars

\* LinkGroup ends, for members that need each other too.
ScansEnd == phase \in {"scan", "whole"} ~> phase = "args"

=============================================================================
