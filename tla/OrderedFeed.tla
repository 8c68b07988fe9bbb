---------------------------- MODULE OrderedFeed ----------------------------
(***************************************************************************)
(* What a tenant's entry log promises to the clients that pull it: a feed   *)
(* of numbered rows that is only ever extended beyond what any reader has   *)
(* been offered, so that a cursor is all a reader has to remember.  Rows    *)
(* may be dropped at any time.  Nothing is said of pushes, transactions or  *)
(* locks.                                                                   *)
(***************************************************************************)
EXTENDS Naturals

CONSTANTS Readers, Users, Items, Scope

Row == [seq : Nat \ {0}, item : Items, by : Users]

VARIABLES
  feed,   \* the rows readers can be offered
  offer,  \* the page on its way to a reader and the cursor it carries, if any
  cur,    \* each reader's cursor
  got     \* what each reader has received

vars == <<feed, offer, cur, got>>

Nothing  == [sent |-> FALSE, rows |-> {}, upto |-> 0]

TypeOK ==
  /\ feed \subseteq Row
  /\ offer \in [Readers -> [sent : BOOLEAN, rows : SUBSET Row, upto : Nat]]
  /\ cur \in [Readers -> Nat]
  /\ got \in [Readers -> SUBSET Row]

Init ==
  /\ feed = {}
  /\ offer = [r \in Readers |-> Nothing]
  /\ cur = [r \in Readers |-> 0]
  /\ got = [r \in Readers |-> {}]

\* Rows are added ahead of every cursor a reader has or is being given; others
\* may go.
Publish ==
  /\ \A row \in feed' \ feed :
       /\ row \in Row
       /\ \A r \in Readers :
            /\ row.seq > cur[r]
            /\ offer[r].sent => row.seq > offer[r].upto
  /\ UNCHANGED <<offer, cur, got>>

\* The rows in r's scope between its cursor and position n.
Between(r, n) ==
  {row \in feed : row.by \in Scope[r] /\ cur[r] < row.seq /\ row.seq <= n}

\* A reader is offered everything in its scope up to some position n.
Offer(r) ==
  LET n == offer'[r].upto
  IN /\ ~offer[r].sent
     /\ n \in Nat /\ n >= cur[r]
     /\ offer' = [offer EXCEPT ![r] = [sent |-> TRUE, rows |-> Between(r, n),
                                       upto |-> n]]
     /\ UNCHANGED <<feed, cur, got>>

Take(r) ==
  /\ offer[r].sent
  /\ cur' = [cur EXCEPT ![r] = offer[r].upto]
  /\ got' = [got EXCEPT ![r] = @ \cup offer[r].rows]
  /\ offer' = [offer EXCEPT ![r] = Nothing]
  /\ UNCHANGED feed

\* The offer is lost.
Miss(r) ==
  /\ offer[r].sent
  /\ offer' = [offer EXCEPT ![r] = Nothing]
  /\ UNCHANGED <<feed, cur, got>>

Next == Publish \/ \E r \in Readers : Offer(r) \/ Take(r) \/ Miss(r)

Spec == Init /\ [][Next]_vars

\* A row at or below a reader's cursor and in its scope has been received.
NothingMissed ==
  \A r \in Readers : \A row \in feed :
    row.seq <= cur[r] /\ row.by \in Scope[r] => row \in got[r]
=============================================================================
