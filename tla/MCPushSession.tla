--------------------------- MODULE MCPushSession ---------------------------
(* Small worlds of clients for PushSession. *)
EXTENDS PushSession, TLC

CONSTANTS k1, k2, k3, i1, i2, sA, sB, b1, b2, b3, r1, r2

Ask(key, ik, sid, first, content) ==
  [key |-> key, ik |-> ik, sid |-> sid, first |-> first, content |-> content,
   total |-> 2]

\* A push of a client that does not know yet how many batches there will be.
AskOpen(key, ik, sid, first, content) ==
  [Ask(key, ik, sid, first, content) EXCEPT !.total = 0]

At(user, device) == [user |-> user, device |-> device]

\* Two users of one machine.  The first uploads two batches, in a session whose
\* id it is given or chooses, repeats each under its idempotency key, reuses a
\* key for other content, and starts again in another session; the other tries
\* that session.
MCTwoUsers == k1 :> At("ann", "mac") @@ k2 :> At("bob", "mac")
MCRetries ==
  {Ask(k1, i1, NoSid, TRUE, b1), Ask(k1, i1, sA, TRUE, b1),
   Ask(k1, i2, sA, FALSE, b2), Ask(k1, i1, sA, FALSE, b3),
   Ask(k1, i2, sB, TRUE, b2), Ask(k2, i1, sA, TRUE, b1)}

\* The first of two devices has two keys: it sends a batch again and again
\* without an idempotency key, not knowing yet how many there will be, and starts
\* again under the other key; the second device sends batches to the session, or
\* starts it under the same id.
MCOneOfTwo ==
  k1 :> At("ann", "mac") @@ k2 :> At("ann", "mac") @@ k3 :> At("ann", "pc")
MCContended ==
  {AskOpen(k1, NoIk, sA, TRUE, b1), Ask(k2, i1, sB, TRUE, b1),
   Ask(k3, i1, sA, TRUE, b2)}

Symmetry == Permutations({r1, r2})
=============================================================================
