------------------------------ MODULE MCSignIn ------------------------------
(* Small instances of SignIn. *)
EXTENDS SignIn, TLC

CONSTANTS e1, e2, c1, c2, r1, r2

Uses == {"link", "right", "wrong"}
MCScenarios ==
  {[do |-> Uses \cup {"device", "poll", "admin"}, by |-> {e1}, mails |-> 2],
   [do |-> {"device", "link"}, by |-> {e1}, mails |-> 3],
   [do |-> {"device", "web", "link"}, by |-> {e1}, mails |-> 2],
   [do |-> {"device", "link"}, by |-> {e1, e2}, mails |-> 2],
   [do |-> {"web", "admin", "link", "wrong"}, by |-> {e1}, mails |-> 2]}

\* A mail answered after its code has gone; two devices of one account.
MCViolations == {[do |-> {"device", "link"}, by |-> {e1}, mails |-> 2]}

\* Locks taken in both orders; owners who lose their right to a key.
MCDevice == {[do |-> {"device", "poll", "link"}, by |-> {e1}, mails |-> 2],
             [do |-> {"device", "poll", "link", "admin"}, by |-> {e1}, mails |-> 1]}

Symmetry == Permutations({r1, r2})
=============================================================================
