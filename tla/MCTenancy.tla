----------------------------- MODULE MCTenancy -----------------------------
(* Small tenants for Tenancy. *)
EXTENDS Tenancy, TLC

CONSTANTS a, b, c, k1, k2, k3, k4, k5, k6, r1, r2, w1

Ask(kind, key, target) == [kind |-> kind, key |-> key, target |-> target]

\* Two owners, one of them with two keys, and a user who is not an owner.
MCFirstKeys == k1 :> a @@ k2 :> a @@ k3 :> b @@ k4 :> c
MCAsks ==
  {Ask("push", k3, k3), Ask("create", k2, k2), Ask("revoke", k1, k2),
   Ask("rotate", k1, k2), Ask("rotate", k2, k2), Ask("delete", k1, k1),
   Ask("delete", k2, k2), Ask("delete", k3, k3), Ask("delete", k4, k4)}
=============================================================================
