---------------------------- MODULE MCJobRunner ----------------------------
EXTENDS JobRunner

CONSTANT Helper   \* a symbol the clean-up passes remove with any other

\* Deleting any other symbol leaves the helper dead: distinct sets tie.
MCSize ==
  [D \in Deletions |->
     Cardinality(Symbols) - Cardinality(IF D = {} THEN D ELSE D \cup {Helper})]

=============================================================================
