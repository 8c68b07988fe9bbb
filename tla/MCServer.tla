------------------------------ MODULE MCServer ------------------------------
(* Parts of the server that share no state, on small instances.  A behaviour *)
(* is one of one part; the others stay as they start.                        *)
EXTENDS AuthMail, TenantSync, Projects, RateLimits, TLC

CONSTANTS l1, d1, w1, w2, r1, r2, p1, p2

VARIABLE part

\* Two users of three devices, pushed from two processes; two devices have no
\* entries or share a process.
MCAsk(user, machine, proc, full) ==
  [user |-> user, machine |-> machine, proc |-> proc, entries |-> full]
MCAsks ==
  {MCAsk("ann", "mac", p1, TRUE), MCAsk("ann", "pc", p1, TRUE),
   MCAsk("ann", "tv", p2, FALSE), MCAsk("bob", "mac", p2, TRUE)}

\* An older client's project without a key, its newer form, a push without it,
\* another user's clone, and a worktree of the first user's, with a bad entry or not.
MCBatch(user, given, pid, name, origin, ident, tid, file) ==
  [user |-> user, given |-> given, pid |-> pid, name |-> name, origin |-> origin,
   ident |-> ident, key |-> Nil, valid |-> TRUE, tid |-> tid, file |-> file]
MCBadBatch(b) == [b EXCEPT !.valid = FALSE]
MCBatches ==
  {MCBatch("ann", TRUE,  "a", "work", Nil,   Nil, "t1", "log"),
   MCBatch("ann", TRUE,  "a", "work", "org", "i", "t1", "log"),
   MCBatch("ann", FALSE, "a", "work", Nil,   Nil, "t2", "log"),
   MCBatch("bob", TRUE,  "b", "home", "org", "j", "t3", "log"),
   MCBatch("ann", TRUE,  "c", "work", Nil,   "i", "t4", "log"),
   MCBadBatch(MCBatch("ann", TRUE,  "c", "work", Nil,   "i", "t4", "log"))}
MCValues ==
  {Nil, "ann", "bob", "a", "b", "c", "work", "home", "org", "i", "j",
   "t1", "t2", "t3", "t4", "log"}
MCLists == {{Nil}, {"work"}}

\* Two endpoints behind a proxy, and two without.
MCCall(path, peer) ==
  [path |-> path, method |-> "POST", peer |-> peer, says |-> "x",
   tenant |-> "t", key |-> "k"]
MCCalls == {MCCall("otp", "lb"), MCCall("key", "lb"),
            MCCall("sync", "y"), MCCall("search", "y")}
MCLimit == [auth |-> 2, unauth |-> 1, sync |-> 2, search |-> 0]

\* The requests of a part are alike.  The temporal property is about the mails'
\* part alone, which has none of them: no two of its states are identified.
Symmetry == Permutations({r1, r2})

Init ==
  /\ MailInit /\ SyncInit /\ ProjectsInit /\ RateInit
  /\ part \in {"mail", "sync", "projects", "limits"}
  /\ part # "sync" => migrated
  /\ part # "projects" => allowlist = {Nil}

Next ==
  /\ \/ /\ part = "mail" /\ MailNext
        /\ UNCHANGED <<syncVars, projectVars, limitVars>>
     \/ /\ part = "sync" /\ SyncNext
        /\ UNCHANGED <<mailVars, projectVars, limitVars>>
     \/ /\ part = "projects" /\ ProjectsNext
        /\ UNCHANGED <<mailVars, syncVars, limitVars>>
     \/ /\ part = "limits" /\ RateNext
        /\ UNCHANGED <<mailVars, syncVars, projectVars>>
  /\ UNCHANGED part

vars == <<mailVars, syncVars, projectVars, limitVars, part>>
Spec == Init /\ [][Next]_vars /\ MailFairness
=============================================================================
