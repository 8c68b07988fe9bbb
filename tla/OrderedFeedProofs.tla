-------------------------- MODULE OrderedFeedProofs --------------------------
(***************************************************************************)
(* The feed never lets a reader miss a row.                                 *)
(***************************************************************************)
EXTENDS OrderedFeed, TLAPS

\* A pending offer holds every row of the reader's scope between its cursor
\* and the position it carries.
OfferComplete ==
  \A r \in Readers :
    offer[r].sent => Between(r, offer[r].upto) \subseteq offer[r].rows

IInv == TypeOK /\ OfferComplete /\ NothingMissed

LEMMA InitIInv == Init => IInv
  BY DEF Init, IInv, TypeOK, OfferComplete, NothingMissed, Nothing

LEMMA PublishIInv ==
  ASSUME IInv, Publish
  PROVE  IInv'
<1>1. TypeOK'
  BY DEF IInv, TypeOK, Publish
<1>2. ASSUME NEW r \in Readers, NEW row \in feed'
      PROVE  \/ row \in feed
             \/ /\ row.seq > cur[r]
                /\ offer[r].sent => row.seq > offer[r].upto
  BY DEF Publish
<1>3. \A row \in feed' : row.seq \in Nat
  BY <1>1 DEF TypeOK, Row
<1>4. UNCHANGED <<offer, cur, got>>
  BY DEF Publish
<1>5. OfferComplete'
  <2> SUFFICES ASSUME NEW r \in Readers, offer'[r].sent,
                      NEW row \in Between(r, offer[r].upto)'
               PROVE  row \in offer[r].rows
    BY <1>4 DEF OfferComplete
  <2>1. row \in feed' /\ row.by \in Scope[r] /\ cur[r] < row.seq
        /\ row.seq <= offer[r].upto
    BY <1>4 DEF Between
  <2>2. offer[r].upto \in Nat
    BY DEF IInv, TypeOK
  <2>3. row \in feed
    BY <1>2, <1>3, <1>4, <2>1, <2>2
  <2> QED
    BY <1>4, <2>1, <2>3 DEF IInv, OfferComplete, Between
<1>6. NothingMissed'
  BY <1>2, <1>3, <1>4 DEF IInv, TypeOK, NothingMissed
<1> QED
  BY <1>1, <1>5, <1>6 DEF IInv

LEMMA OfferIInv ==
  ASSUME IInv, NEW r \in Readers, Offer(r)
  PROVE  IInv'
<1>1. PICK n \in Nat :
        /\ offer' = [offer EXCEPT ![r] =
                       [sent |-> TRUE, rows |-> Between(r, n), upto |-> n]]
        /\ UNCHANGED <<feed, cur, got>>
  BY DEF Offer
<1>2. Between(r, n) \subseteq feed
  BY DEF Between
<1>3. TypeOK'
  BY <1>1, <1>2 DEF IInv, TypeOK
<1>4. OfferComplete'
  BY <1>1 DEF IInv, TypeOK, OfferComplete, Between
<1>5. NothingMissed'
  BY <1>1 DEF IInv, NothingMissed
<1> QED
  BY <1>3, <1>4, <1>5 DEF IInv

LEMMA TakeIInv ==
  ASSUME IInv, NEW r \in Readers, Take(r)
  PROVE  IInv'
<1>1. TypeOK'
  BY DEF IInv, TypeOK, Take, Nothing
<1>2. OfferComplete'
  BY DEF IInv, TypeOK, OfferComplete, Between, Take, Nothing
<1>3. ASSUME NEW row \in feed, row.seq <= offer[r].upto, row.by \in Scope[r]
      PROVE  row \in got[r] \cup offer[r].rows
  <2>1. row.seq \in Nat /\ cur[r] \in Nat
    BY DEF IInv, TypeOK, Row
  <2>2. CASE row.seq <= cur[r]
    BY <1>3, <2>2 DEF IInv, NothingMissed
  <2>3. CASE cur[r] < row.seq
    BY <1>3, <2>3 DEF IInv, OfferComplete, Between, Take
  <2> QED
    BY <2>1, <2>2, <2>3
<1>4. NothingMissed'
  BY <1>3 DEF IInv, TypeOK, NothingMissed, Take
<1> QED
  BY <1>1, <1>2, <1>4 DEF IInv

LEMMA MissIInv ==
  ASSUME IInv, NEW r \in Readers, Miss(r)
  PROVE  IInv'
  BY DEF IInv, TypeOK, OfferComplete, NothingMissed, Between, Miss, Nothing

LEMMA NextIInv == IInv /\ [Next]_vars => IInv'
<1> SUFFICES ASSUME IInv, [Next]_vars
             PROVE  IInv'
  OBVIOUS
<1>1. CASE Publish
  BY <1>1, PublishIInv
<1>2. ASSUME NEW r \in Readers, Offer(r) \/ Take(r) \/ Miss(r)
      PROVE  IInv'
  BY <1>2, OfferIInv, TakeIInv, MissIInv
<1>3. CASE UNCHANGED vars
  BY <1>3 DEF vars, IInv, TypeOK, OfferComplete, NothingMissed, Between
<1> QED
  BY <1>1, <1>2, <1>3 DEF Next

\* A reader that follows its cursor has received every row in its scope at or
\* below it: for any set of readers, any scopes and any rows.
THEOREM FeedComplete == Spec => []NothingMissed
<1>1. IInv => NothingMissed
  BY DEF IInv
<1> QED
  BY <1>1, InitIInv, NextIInv, PTL DEF Spec
=============================================================================
