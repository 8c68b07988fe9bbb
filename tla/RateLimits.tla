----------------------------- MODULE RateLimits -----------------------------
(***************************************************************************)
(* The rate limiters: sliding windows in a process's memory, one log of     *)
(* times for each limiter and each of its keys.  A request passes the        *)
(* limiters of its route one after the other.  Each check is atomic: the     *)
(* event loop switches between requests only where one is passed on.         *)
(***************************************************************************)
EXTENDS Naturals, FiniteSets, Sequences

CONSTANTS
  Callers,    \* requests in flight at once
  Calls,      \* what clients ask: path, method, peer, says, tenant, key
  Limit,      \* the limit of each limiter; 0 is none
  Proxies,    \* peers that are believed when they tell the client's address
  Window,     \* WINDOW_SECONDS, in ticks
  PruneEvery, \* _PRUNE_INTERVAL, in ticks
  MaxTime,    \* bound
  MaxCalls    \* bound: requests in a behaviour

Limiters == {"auth", "unauth", "sync", "search"}

ASSUME RateAssumption ==
  /\ Limit \in [Limiters -> Nat]
  /\ Window \in Nat \ {0} /\ PruneEvery \in Nat

-----------------------------------------------------------------------------
(* Routes and keys *)

\* AuthRateLimitMiddleware limits /api/v1/auth but for its device endpoints.
AuthLimited(c) == c.path \in {"key", "otp"} /\ c.method # "GET"

\* UnauthRateLimitMiddleware limits the endpoints of its table.
UnauthLimited(c) == c.path \in {"login", "otp", "device"} /\ c.method = "POST"

\* The limiters of a route, from the outermost middleware inwards.
Route(c) ==
  (IF AuthLimited(c) THEN <<"auth">> ELSE <<>>) \o
  (IF UnauthLimited(c) THEN <<"unauth">> ELSE <<>>) \o
  (IF c.path \in {"sync", "search"} THEN <<c.path>> ELSE <<>>)

\* The address of the client: as a proxy says, when the peer is one and says.
ClientIp(c) == IF c.peer \in Proxies /\ c.says # "" THEN c.says ELSE c.peer

\* The peer; the client and the endpoint; the tenant; the API key.
KeyOf(l, c) ==
  CASE l = "auth"   -> <<l, c.peer>>
    [] l = "unauth" -> <<l, ClientIp(c), c.path>>
    [] l = "sync"   -> <<l, c.tenant>>
    [] OTHER        -> <<l, c.key>>

Keys == UNION {{KeyOf(l, c) : c \in Calls} : l \in Limiters}

\* The sync and the search limiter are pruned together.
Store(l) == IF l = "search" THEN "sync" ELSE l

VARIABLES
  clock,
  log,    \* the requests of each key: the time, and the how-manieth of that time
  pruned, \* when each store was pruned last
  todo,   \* the limiters each request has yet to pass, and what it asks
  passed, \* history: the requests of each key let by within the window, likewise
  made

limitVars == <<clock, log, pruned, todo, passed, made>>

RateInit ==
  /\ clock = Window /\ made = 0
  /\ log = [k \in Keys |-> {}]
  /\ passed = [k \in Keys |-> {}]
  /\ pruned = [l \in {"auth", "unauth", "sync"} |-> 0]
  /\ todo = [r \in Callers |-> <<>>]

-----------------------------------------------------------------------------
(* A check *)

\* Mutant of Recent: the window is a tick too short.
RecentShort(times) == {e \in times : e[1] + Window > clock + 1}
Recent(times) == {e \in times : e[1] + Window > clock}

Logged(times) ==
  times \cup {<<clock, Cardinality({e \in times : e[1] = clock}) + 1>>}

\* Every limiter prunes its store now and then, all keys at once.
Pruned(l) ==
  IF clock < pruned[Store(l)] + PruneEvery THEN log
  ELSE [k \in Keys |-> IF Store(k[1]) = Store(l) THEN Recent(log[k]) ELSE log[k]]

Stamp(l) ==
  pruned' = IF clock < pruned[Store(l)] + PruneEvery THEN pruned
            ELSE [pruned EXCEPT ![Store(l)] = clock]

Full(l, k) == Limit[l] > 0 /\ Cardinality(Recent(log[k])) >= Limit[l]

Refuse(r) == todo' = [todo EXCEPT ![r] = <<>>] /\ UNCHANGED passed
Admit(r, k) ==
  /\ todo' = [todo EXCEPT ![r] = Tail(@)]
  /\ passed' = [passed EXCEPT ![k] = Logged(@)]

\* The request is recorded, unless it is refused.
Count(r, l, k) ==
  /\ Stamp(l)
  /\ \/ Full(l, k) /\ log' = [Pruned(l) EXCEPT ![k] = Recent(@)] /\ Refuse(r)
     \/ /\ ~Full(l, k) /\ Admit(r, k)
        /\ log' = [Pruned(l) EXCEPT ![k] = Logged(Recent(@))]

Skip(r, k) == Admit(r, k) /\ UNCHANGED <<log, pruned>>

Facing(r, ls) == todo[r] # <<>> /\ Head(todo[r])[1] \in ls
SameTime == UNCHANGED <<clock, made>>

Call(r, c) ==
  /\ todo[r] = <<>> /\ made < MaxCalls
  /\ todo' = [todo EXCEPT ![r] = [i \in DOMAIN Route(c) |-> KeyOf(Route(c)[i], c)]]
  /\ made' = made + 1
  /\ UNCHANGED <<clock, log, pruned, passed>>

\* Without a limit it keeps its log all the same.
PassAuth(r) ==
  /\ Facing(r, {"auth"})
  /\ Count(r, "auth", Head(todo[r]))
  /\ SameTime

PassUnauth(r) ==
  /\ Facing(r, {"unauth"})
  /\ IF Limit["unauth"] = 0 THEN Skip(r, Head(todo[r]))
     ELSE Count(r, "unauth", Head(todo[r]))
  /\ SameTime

PassEndpoint(r) ==
  /\ Facing(r, {"sync", "search"})
  /\ LET k == Head(todo[r])
     IN IF Limit[k[1]] = 0 THEN Skip(r, k) ELSE Count(r, k[1], k)
  /\ SameTime

Tick ==
  /\ clock < MaxTime
  /\ clock' = clock + 1
  /\ passed' = [k \in Keys |-> {e \in passed[k] : e[1] + Window > clock'}]
  /\ UNCHANGED <<log, pruned, todo, made>>

RateNext ==
  \/ \E r \in Callers :
       \/ \E c \in Calls : Call(r, c)
       \/ PassAuth(r) \/ PassUnauth(r) \/ PassEndpoint(r)
  \/ Tick

RateSpec == RateInit /\ [][RateNext]_limitVars

-----------------------------------------------------------------------------
\* No span of a window's length sees more requests of a key pass than its limit,
\* however requests interleave and whenever the stores are pruned.
WindowHolds ==
  \A k \in Keys : Limit[k[1]] > 0 => Cardinality(passed[k]) <= Limit[k[1]]
=============================================================================
