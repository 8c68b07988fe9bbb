----------------------------- MODULE MCEntryLog -----------------------------
EXTENDS EntryLog, TLC

CONSTANTS p1, p2, r1, u1, u2, i1, i2, s1, s2

\* Two keys of two users; one reader that may see both.
MCUserOf == (p1 :> u1) @@ (p2 :> u2)
MCScopeAll == r1 :> {u1, u2}

\* Every batch of up to MaxBatch entries; and two that insert the same ids in
\* opposite orders, one of them with other content.
MCAllBatches == UNION {[1..n -> Item] : n \in 0..MaxBatch}
MCCrossing ==
  LET e1 == [id |-> i1, sha |-> s1]
      e2 == [id |-> i2, sha |-> s1]
      x2 == [id |-> i2, sha |-> s2]
  IN {<<e1, e2>>, <<x2, e1>>}

Symmetry == Permutations(Ids) \cup Permutations(Shas)
=============================================================================
