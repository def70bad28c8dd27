------------------------------ MODULE MCLinker ------------------------------
EXTENDS Linker, Sections

(* main needs f; the members of the archives need each other in a circle,  *)
(* libc holds memcpy and f twice, and one member is LLVM bitcode.          *)

MCUnits == {"main", "a", "b", "bc", "libc", "blob"}

MCKind ==
  [u \in MCUnits |-> CASE u = "bc" -> "BITCODE" [] u = "blob" -> "DATA" [] OTHER -> "LLIR"]

MCName == [u \in MCUnits |-> u]

MCDefs ==
  [u \in MCUnits |->
     CASE u = "main" -> {"m"}
       [] u = "a"    -> {"f"}
       [] u = "b"    -> {"g"}
       [] u = "bc"   -> {"h"}
       [] u = "libc" -> {"f", "memcpy"}
       [] OTHER      -> {}]

\* libc exports f as an alias.
MCAliases == [u \in MCUnits |-> IF u = "libc" THEN {"f"} ELSE {}]

MCUndefs ==
  [u \in MCUnits |->
     CASE u = "main" -> {"f"}
       [] u = "a"    -> {"g"}
       [] u = "b"    -> {"f", "h"}
       [] u = "bc"   -> {"g"}
       [] OTHER      -> {}]

MCArchives == { <<"bc", "b", "a">>, <<"libc", "blob">>, <<"libc", "b">> }

MCSymbols == {"m", "f", "g", "h", "memcpy"}

-----------------------------------------------------------------------------
(* The linker from the command line to the end of Link.  The options know  *)
(* nothing of the section: only the empty command line is followed by any  *)
(* section, the others by the empty one.                                   *)

LinkInit == Init /\ JoinInit

Options ==
  /\ Next
  /\ shape # <<>> => args = 0 /\ phase' = "done"
  /\ UNCHANGED joinvars

\* Link concatenates the section when all options are done.
Concatenate ==
  /\ phase = "done"
  /\ JoinNext
  /\ UNCHANGED vars

LinkNext == Options \/ Concatenate

\* Both are loops of sequential code.
LinkSpec ==
  /\ LinkInit /\ [][LinkNext]_<<vars, joinvars>>
  /\ WF_<<vars, joinvars>>(Scan /\ UNCHANGED joinvars)
  /\ WF_<<vars, joinvars>>(Concatenate)

\* Link ends: an iterator that is moved on from the end of its list starts again
\* with what the walk has skipped so far, but the list has become shorter.
WalksEnd == phase = "done" ~> pc \in {"done", "fatal"}

=============================================================================
