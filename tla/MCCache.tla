------------------------------ MODULE MCCache ------------------------------
(***************************************************************************)
(* Small instances of Cache for TLC.                                       *)
(***************************************************************************)
EXTENDS Cache, TLC

Symmetric ==
    Permutations(Handles) \cup Permutations(Keys) \cup Permutations(Modules)
        \cup Permutations(Values)
=============================================================================
