--------------------------- MODULE MCCredentials ---------------------------
(* Small instances of Credentials. *)
EXTENDS Credentials, TLC

CONSTANTS a1, a2, r1, r2

MCScenarios ==
  {{"login", "password", "reset"}, {"login", "version", "reset"}, {"reset", "change"},
   {"reauth", "version", "change"}, {"verify", "reset", "admin"},
   {"handoff", "version", "admin"}}

Symmetry == Permutations(Requests)
=============================================================================
