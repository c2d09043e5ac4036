---------------------------- MODULE MCSoulStore ----------------------------
(***************************************************************************)
(* Small instances of SoulStore.  Connections are interchangeable; agents  *)
(* and keys are not, since ORDER BY tells them apart, nor are subscribers, *)
(* since FewRows does.                                                     *)
(***************************************************************************)
EXTENDS SoulStore, TLC

ConnSymmetry == Permutations(Conns)

EveryRow == Rows
SoulRows == {r \in Rows : r.scope = SoulScope}

\* A reader subscribed to a key and to the soul, and another subscriber of
\* the soul.
FewRows ==
    LET one == CHOOSE s \in Readers : s # NoReader
    IN  {r \in Rows : r.scope = SoulScope \/ (r.who = one /\ r.scope = 1)}
=============================================================================
