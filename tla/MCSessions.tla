------------------------------ MODULE MCSessions ------------------------------
(* Small instances of Sessions: everything in them is interchangeable. *)
EXTENDS Sessions, TLC

Symmetry == Permutations(Ids) \cup Permutations(Identities)
            \cup Permutations(Requests) \cup Permutations(Workers)
=============================================================================
