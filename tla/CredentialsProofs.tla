------------------------- MODULE CredentialsProofs -------------------------
(* Proofs about Credentials, for every value of its constants.                *)
EXTENDS Credentials, TLAPS

-----------------------------------------------------------------------------
(* The invariant *)

Mailed == {"reset", "change", "verify"}

Tx == [pc : {"stamp", "lock", "issue", "consume", "read", "write", "settle", "handoff", "enter"},
       form : Kinds \cup Forms, link : Nat, keep : Nat, a : Account, mail : Addresses,
       kill : SUBSET Nat]

\* A request at x acts for the link that it followed.
Serving(x) == x.pc \in {"read", "enter"} \/ (x.pc \in {"write", "settle"} /\ x.link # 0)

\* What the place where a request is says of its form.
Placed(x) ==
  /\ x.link \in 0..Len(link) /\ x.keep \in 0..Len(sess)
  /\ x.form = "reset" => x.keep = 0
  /\ x.pc \in {"lock", "issue"} => x.form \in Mailed
  /\ x.pc = "consume" => x.form \in Mailed
  /\ x.pc = "read" => x.form \in Mailed
  /\ x.pc = "write" => x.form \in Mailed \cup {"login", "password", "version"}
  /\ x.pc = "settle" => x.form \in {"password", "version", "reset", "change"}
  /\ x.pc \in {"consume", "read", "handoff", "enter"} => x.link # 0
  /\ x.pc \in {"write", "settle"} /\ x.form \in Mailed => x.link # 0
  /\ x.pc = "stamp" => x.keep # 0

\* What a request that is at x relies on, while it holds the locks h.
Relies(x, h) ==
  x # Idle =>
    /\ x \in Tx /\ Placed(x)
    /\ Serving(x) => /\ <<"link", x.link>> \in h
                     /\ ~link[x.link].used /\ link[x.link].done = 0
    /\ x.link # 0 /\ x.pc \in {"consume", "read", "write", "settle"} =>
         link[x.link].kind # "handoff"
    /\ x.pc \in {"settle", "enter"} => <<"account">> \in h
    /\ x.pc = "enter" => <<"key">> \in h /\ key = "live"
    /\ x.pc = "settle" /\ x.form # "change" =>
         \A s \in DOMAIN sess : sess[s].dead \/ s \in x.kill \/ s = x.keep

Shape == tx = [r \in Requests |-> tx[r]] /\ held = [r \in Requests |-> held[r]]

\* No lock is held by two requests.
Apart == \A q, r \in Requests : q # r => held[q] \cap held[r] = {}

LinkOK(i) == link[i].done <= 1 /\ (link[i].done = 1 => link[i].used)

Data ==
  /\ acct \in Account
  /\ sess \in Seq(Session)
  /\ link \in Seq(Link)
  /\ key \in {"live", "revoked"}
  /\ last \in Nat
  /\ \A i \in DOMAIN link : LinkOK(i)

CredentialsInv ==
  /\ Data /\ Shape /\ Apart
  /\ \A r \in Requests : Relies(tx[r], held[r])

\* What a step may do to the data on which request q relies.
SparesSessions(q) ==
  /\ Len(sess) <= Len(sess')
  /\ <<"account">> \in held[q] => Len(sess') = Len(sess)
  /\ \A s \in DOMAIN sess : sess'[s].sv = sess[s].sv /\ (sess[s].dead => sess'[s].dead)

SparesLinks(q) ==
  /\ Len(link) <= Len(link')
  /\ \A i \in DOMAIN link :
       /\ link'[i].kind = link[i].kind
       /\ <<"link", i>> \in held[q] =>
            (link'[i].used => link[i].used) /\ link'[i].done = link[i].done

Spares(q) ==
  /\ SparesSessions(q) /\ SparesLinks(q)
  /\ <<"key">> \in held[q] => key' = key

-----------------------------------------------------------------------------
(* A request's step and the others *)

LEMMA Entering ==
  ASSUME CredentialsInv, NEW r \in Requests, tx[r].pc # "idle"
  PROVE  /\ tx[r] # Idle /\ tx[r] \in Tx /\ Placed(tx[r]) /\ Relies(tx[r], held[r])
         /\ acct \in Account /\ sess \in Seq(Session) /\ link \in Seq(Link) /\ last \in Nat
         /\ tx[r].link \in Nat /\ tx[r].keep \in Nat /\ tx[r].a \in Account
         /\ tx[r].mail \in Addresses
<1>1. tx[r] # Idle
  BY DEF Idle
<1>2. Relies(tx[r], held[r])
  BY DEF CredentialsInv
<1>3. tx[r] \in Tx /\ Placed(tx[r])
  BY <1>1, <1>2 DEF Relies
<1>4. /\ tx[r].link \in Nat /\ tx[r].keep \in Nat /\ tx[r].a \in Account
      /\ tx[r].mail \in Addresses
  BY <1>3 DEF Tx
<1> QED
  BY <1>1, <1>2, <1>3, <1>4 DEF CredentialsInv, Data

LEMMA StillPlaced ==
  ASSUME Data, Data', NEW x, Placed(x), Len(sess) <= Len(sess'), Len(link) <= Len(link')
  PROVE  Placed(x)'
<1>1. 0..Len(link) \subseteq 0..Len(link') /\ 0..Len(sess) \subseteq 0..Len(sess')
  BY DEF Data
<1> QED
  BY <1>1, Zenon DEF Placed

LEMMA StillRelies ==
  ASSUME Data, Data', NEW q \in Requests, Relies(tx[q], held[q]), Spares(q),
         tx'[q] = tx[q], held'[q] = held[q]
  PROVE  Relies(tx[q], held[q])'
<1> DEFINE x == tx[q]
<1> SUFFICES ASSUME x # Idle
             PROVE  Relies(x, held[q])'
  BY DEF Relies
<1>1. x \in Tx /\ Placed(x)
  BY DEF Relies
<1>2. Placed(x)'
  <2>1. Placed(x) /\ Len(sess) <= Len(sess') /\ Len(link) <= Len(link')
    BY <1>1 DEF Spares, SparesSessions, SparesLinks
  <2>2. PICK y : y = x
    OBVIOUS
  <2>3. Placed(y)'
    BY <2>1, <2>2, StillPlaced
  <2> QED
    BY <2>2, <2>3 DEF Placed
<1>3. /\ x.link \in 0..Len(link) /\ x.keep \in 0..Len(sess)
      /\ x.link # 0 => x.link \in DOMAIN link
  BY <1>1 DEF Placed, Data
<1>4. x.pc \in {"read", "enter"} => x.link # 0
  BY <1>1 DEF Placed
<1>5. Serving(x) => /\ <<"link", x.link>> \in held[q]
                    /\ ~link'[x.link].used /\ link'[x.link].done = 0
  BY <1>3, <1>4 DEF Relies, Spares, SparesLinks, Serving
<1>6. x.link # 0 /\ x.pc \in {"consume", "read", "write", "settle"} =>
        link'[x.link].kind # "handoff"
  BY <1>3 DEF Relies, Spares, SparesLinks
<1>7. x.pc \in {"settle", "enter"} => <<"account">> \in held[q]
  BY DEF Relies
<1>8. x.pc = "enter" => <<"key">> \in held[q] /\ key' = "live"
  BY DEF Relies, Spares
<1>9. ASSUME x.pc = "settle", x.form # "change"
      PROVE  \A s \in DOMAIN sess' : sess'[s].dead \/ s \in x.kill \/ s = x.keep
  <2>1. DOMAIN sess' = DOMAIN sess
    BY <1>7, <1>9 DEF Spares, SparesSessions, Data
  <2>2. \A s \in DOMAIN sess : sess[s].dead \/ s \in x.kill \/ s = x.keep
    BY <1>9 DEF Relies
  <2> QED
    BY <2>1, <2>2 DEF Spares, SparesSessions
<1> QED
  BY <1>1, <1>2, <1>5, <1>6, <1>7, <1>8, <1>9, Zenon DEF Relies, Serving

LEMMA IdleRelies ==
  ASSUME NEW h
  PROVE  Relies(Idle, h)
BY DEF Relies

\* A request ends, and what it wrote spares what the others rely on.
LEMMA EndKeeps ==
  ASSUME CredentialsInv, NEW r \in Requests, End(r), Data',
         \A q \in Requests \ {r} : Spares(q)
  PROVE  CredentialsInv'
<1>1. Shape' /\ tx'[r] = Idle /\ held'[r] = {}
  BY DEF End, CredentialsInv, Shape
<1>2. \A q \in Requests \ {r} : tx'[q] = tx[q] /\ held'[q] = held[q]
  BY DEF End, CredentialsInv, Shape
<1>3. Apart'
  BY <1>1, <1>2 DEF CredentialsInv, Apart
<1>4. Relies(tx[r], held[r])'
  BY <1>1 DEF Relies
<1>5. \A q \in Requests \ {r} : Relies(tx[q], held[q])'
  BY <1>2, StillRelies DEF CredentialsInv
<1> QED
  BY <1>1, <1>3, <1>4, <1>5 DEF CredentialsInv

LEMMA KeepSpares ==
  ASSUME CredentialsInv, Keep, NEW q
  PROVE  Data' /\ Spares(q)
<1>1. Len(link) \in Nat /\ Len(sess) \in Nat
  BY DEF CredentialsInv, Data
<1> QED
  BY <1>1 DEF CredentialsInv, Keep, Data, LinkOK, Spares, SparesSessions, SparesLinks

LEMMA EndOnly ==
  ASSUME CredentialsInv, NEW r \in Requests, End(r), Keep
  PROVE  CredentialsInv'
BY EndKeeps, KeepSpares

\* A request goes on to x, with the locks it needed; what it wrote spares the
\* others.
LEMMA TakeKeeps ==
  ASSUME CredentialsInv, NEW r \in Requests, NEW pc, At(r, pc), NEW x, Take(r, x),
         Keep, Relies(x, held[r] \cup Need(r))
  PROVE  CredentialsInv'
<1>1. Shape' /\ tx'[r] = x /\ held'[r] = held[r] \cup Need(r)
  BY DEF Take, CredentialsInv, Shape
<1>2. \A q \in Requests \ {r} : tx'[q] = tx[q] /\ held'[q] = held[q]
  BY DEF Take, CredentialsInv, Shape
<1>3. Apart'
  <2>1. \A q \in Requests \ {r} : Need(r) \cap held[q] = {}
    BY DEF At, Blocks
  <2> QED
    BY <1>1, <1>2, <2>1 DEF CredentialsInv, Apart
<1>4. Relies(tx[r], held[r])'
  BY <1>1 DEF Relies, Placed, Serving, Keep
<1>5. Data' /\ \A q \in Requests : Spares(q)
  BY KeepSpares
<1>6. \A q \in Requests \ {r} : Relies(tx[q], held[q])'
  BY <1>2, <1>5, StillRelies DEF CredentialsInv
<1> QED
  BY <1>1, <1>3, <1>4, <1>5, <1>6 DEF CredentialsInv

\* A request begins at x.
LEMMA BeginKeeps ==
  ASSUME CredentialsInv, NEW r \in Requests, NEW x, tx' = [tx EXCEPT ![r] = x],
         UNCHANGED <<acct, sess, link, key, held, last, asks>>, Relies(x, held[r])
  PROVE  CredentialsInv'
<1>1. Shape' /\ tx'[r] = x /\ held' = held
  BY DEF CredentialsInv, Shape
<1>2. \A q \in Requests \ {r} : tx'[q] = tx[q]
  BY DEF CredentialsInv, Shape
<1>3. Relies(tx[r], held[r])'
  BY <1>1 DEF Relies, Placed, Serving
<1>4. Data' /\ \A q \in Requests : Spares(q)
  <2>1. Len(link) \in Nat /\ Len(sess) \in Nat
    BY DEF CredentialsInv, Data
  <2> QED
    BY <2>1 DEF CredentialsInv, Data, LinkOK, Spares, SparesSessions, SparesLinks
<1>5. \A q \in Requests \ {r} : Relies(tx[q], held[q])'
  BY <1>1, <1>2, <1>4, StillRelies DEF CredentialsInv
<1> QED
  BY <1>1, <1>3, <1>4, <1>5 DEF CredentialsInv, Apart

\* Something else happens to the data.
LEMMA OutsideKeeps ==
  ASSUME CredentialsInv, tx' = tx, held' = held, Data', \A q \in Requests : Spares(q)
  PROVE  CredentialsInv'
<1>1. \A q \in Requests : Relies(tx[q], held[q])'
  BY StillRelies DEF CredentialsInv
<1> QED
  BY <1>1 DEF CredentialsInv, Shape, Apart

-----------------------------------------------------------------------------
(* Requests begin *)

\* A request as it begins.
Start(pc, form, i, keep, m) ==
  [pc |-> pc, form |-> form, link |-> i, keep |-> keep, a |-> acct, mail |-> m, kill |-> {}]

\* A request that begins relies on little: it has served for nothing yet.
LEMMA StartKeeps ==
  ASSUME CredentialsInv, NEW r \in Requests, NEW form \in Kinds \cup Forms,
         NEW pc \in {"stamp", "lock", "consume", "write", "handoff"},
         NEW i \in 0..Len(link), NEW keep \in 0..Len(sess), NEW m \in Addresses,
         pc = "stamp" => keep # 0, form = "reset" => keep = 0,
         pc \in {"lock", "consume"} => form \in Mailed,
         pc \in {"consume", "handoff"} => i # 0,
         pc = "consume" => link[i].kind # "handoff",
         pc = "write" => form \in {"login", "password", "version"} /\ i = 0,
         tx' = [tx EXCEPT ![r] = Start(pc, form, i, keep, m)],
         UNCHANGED <<acct, sess, link, key, held, last, asks>>
  PROVE  CredentialsInv'
<1> DEFINE x == Start(pc, form, i, keep, m)
<1>1. acct \in Account /\ Len(link) \in Nat /\ Len(sess) \in Nat
  BY DEF CredentialsInv, Data
<1>2. i \in Nat /\ keep \in Nat
  BY <1>1
<1>3. x \in Tx
  BY <1>1, <1>2 DEF Tx, Start
<1>4. x.pc = pc /\ x.form = form /\ x.link = i /\ x.keep = keep /\ x.a = acct
  BY DEF Start
<1> HIDE DEF x
<1>5. Placed(x)
  BY <1>4 DEF Placed, Mailed, Kinds, Forms
<1>6. ~Serving(x)
  BY <1>4 DEF Serving
<1>7. Relies(x, held[r])
  BY <1>3, <1>4, <1>5, <1>6 DEF Relies
<1> QED
  BY <1>7, BeginKeeps DEF x

LEMMA Beginning ==
  ASSUME CredentialsInv
  PROVE  /\ 0 \in 0..Len(sess) /\ 0 \in 0..Len(link) /\ acct.mail \in Addresses
         /\ DOMAIN sess = 1..Len(sess) /\ DOMAIN link = 1..Len(link)
         /\ Len(sess) \in Nat /\ Len(link) \in Nat
         /\ \A i \in DOMAIN link : link[i].kind \in Kinds
<1>1. acct \in Account /\ Len(link) \in Nat /\ Len(sess) \in Nat
  BY DEF CredentialsInv, Data
<1>2. \A i \in DOMAIN link : link[i] \in Link
  BY DEF CredentialsInv, Data
<1> QED
  BY <1>1, <1>2 DEF Account, Link, CredentialsInv, Data

LEMMA Begun ==
  ASSUME NEW r, NEW pc, NEW form, NEW i, NEW keep, Begin(r, pc, form, i, keep)
  PROVE  /\ tx' = [tx EXCEPT ![r] = Start(pc, form, i, keep, acct.mail)]
         /\ UNCHANGED <<acct, sess, link, key, held, last, asks>>
BY DEF Begin, Start

LEMMA BeginsKeep ==
  ASSUME CredentialsInv, NEW r \in Requests, Login(r) \/ RequestReset(r) \/ RequestVerify(r)
  PROVE  CredentialsInv'
<1>1. CASE Login(r)
  <2>1. Begin(r, "write", "login", 0, 0)
    BY <1>1 DEF Login
  <2>2. "login" \in Kinds \cup Forms
    BY DEF Forms
  <2> QED
    BY <2>1, <2>2, Begun, Beginning, StartKeeps
<1>2. CASE RequestReset(r)
  <2>1. Begin(r, "lock", "reset", 0, 0)
    BY <1>2 DEF RequestReset
  <2>2. "reset" \in Kinds \cup Forms /\ "reset" \in Mailed
    BY DEF Kinds, Mailed
  <2> QED
    BY <2>1, <2>2, Begun, Beginning, StartKeeps
<1>3. CASE RequestVerify(r)
  <2>1. Begin(r, "lock", "verify", 0, 0)
    BY <1>3 DEF RequestVerify
  <2>2. "verify" \in Kinds \cup Forms /\ "verify" \in Mailed
    BY DEF Kinds, Mailed
  <2> QED
    BY <2>1, <2>2, Begun, Beginning, StartKeeps
<1> QED
  BY <1>1, <1>2, <1>3

LEMMA BeginsWithSessionKeep ==
  ASSUME CredentialsInv, NEW r \in Requests, NEW s \in DOMAIN sess,
         ChangePassword(r, s) \/ SetPassword(r, s) \/ Reauth(r, s)
  PROVE  CredentialsInv'
<1>1. s \in 0..Len(sess) /\ s # 0
  BY Beginning
<1>2. CASE ChangePassword(r, s)
  <2>1. Begin(r, "write", "password", 0, s)
    BY <1>2 DEF ChangePassword
  <2>2. "password" \in Kinds \cup Forms
    BY DEF Forms
  <2> QED
    BY <1>1, <2>1, <2>2, Begun, Beginning, StartKeeps
<1>3. CASE SetPassword(r, s)
  <2>1. Begin(r, "write", "version", 0, s)
    BY <1>3 DEF SetPassword
  <2>2. "version" \in Kinds \cup Forms
    BY DEF Forms
  <2> QED
    BY <1>1, <2>1, <2>2, Begun, Beginning, StartKeeps
<1>4. CASE Reauth(r, s)
  <2>1. Begin(r, "stamp", "reauth", 0, s)
    BY <1>4 DEF Reauth
  <2>2. "reauth" \in Kinds \cup Forms
    BY DEF Forms
  <2> QED
    BY <1>1, <2>1, <2>2, Begun, Beginning, StartKeeps
<1> QED
  BY <1>2, <1>3, <1>4

LEMMA RequestChangeKeeps ==
  ASSUME CredentialsInv, NEW r \in Requests, NEW s \in DOMAIN sess, NEW m \in Addresses,
         RequestChange(r, s, m)
  PROVE  CredentialsInv'
<1>1. s \in 0..Len(sess)
  BY Beginning
<1>2. "change" \in Kinds \cup Forms /\ "change" \in Mailed
  BY DEF Kinds, Mailed
<1>3. tx' = [tx EXCEPT ![r] = Start("lock", "change", 0, s, m)]
      /\ UNCHANGED <<acct, sess, link, key, held, last, asks>>
  BY DEF RequestChange, Start
<1> QED
  BY <1>1, <1>2, <1>3, Beginning, StartKeeps

LEMMA FollowsKeep ==
  ASSUME CredentialsInv, NEW r \in Requests, NEW i \in DOMAIN link,
         UseLink(r, i) \/ FollowHandoff(r, i)
  PROVE  CredentialsInv'
<1>1. i \in 0..Len(link) /\ i # 0 /\ link[i].kind \in Kinds
  BY Beginning
<1>2. CASE UseLink(r, i)
  <2> DEFINE k == link[i].kind
  <2>1. Begin(r, "consume", k, i, 0) /\ k # "handoff"
    BY <1>2 DEF UseLink
  <2>2. k \in Kinds \cup Forms /\ k \in Mailed
    BY <1>1, <2>1 DEF Kinds, Mailed
  <2> QED
    BY <1>1, <2>1, <2>2, Begun, Beginning, StartKeeps
<1>3. CASE FollowHandoff(r, i)
  <2>1. Begin(r, "handoff", "handoff", i, 0)
    BY <1>3 DEF FollowHandoff
  <2>2. "handoff" \in Kinds \cup Forms
    BY DEF Kinds
  <2> QED
    BY <1>1, <2>1, <2>2, Begun, Beginning, StartKeeps
<1> QED
  BY <1>2, <1>3

-----------------------------------------------------------------------------
(* The steps that only lead a request on *)

\* The place that request x has comes to: it keeps what it relied on.
LEMMA Moved ==
  ASSUME NEW x \in Tx,
         NEW pc \in {"stamp", "lock", "issue", "consume", "read", "write", "settle",
                     "handoff", "enter"}
  PROVE  /\ [x EXCEPT !.pc = pc] \in Tx
         /\ [x EXCEPT !.pc = pc].pc = pc
         /\ [x EXCEPT !.pc = pc].form = x.form /\ [x EXCEPT !.pc = pc].link = x.link
         /\ [x EXCEPT !.pc = pc].keep = x.keep /\ [x EXCEPT !.pc = pc].a = x.a
         /\ [x EXCEPT !.pc = pc].kill = x.kill
BY DEF Tx

LEMMA EndsKeep ==
  ASSUME CredentialsInv, NEW r \in Requests, AbortDeadlock(r) \/ Crash(r)
  PROVE  CredentialsInv'
BY EndOnly DEF AbortDeadlock, Crash

LEMMA LockIssueKeeps ==
  ASSUME CredentialsInv, NEW r \in Requests, LockIssue(r)
  PROVE  CredentialsInv'
<1>1. At(r, "lock") /\ Keep /\ (End(r) \/ Go(r, "issue")) /\ tx[r].pc = "lock"
  BY DEF LockIssue, At
<1>2. CASE Go(r, "issue")
  <2> DEFINE y == [tx[r] EXCEPT !.pc = "issue"]
  <2>1. y \in Tx /\ y.pc = "issue" /\ y.form = tx[r].form /\ y.link = tx[r].link
        /\ y.keep = tx[r].keep
    BY <1>1, Entering, Moved
  <2>2. Placed(tx[r])
    BY <1>1, Entering
  <2>3. Take(r, y)
    BY <1>2 DEF Go
  <2> HIDE DEF y
  <2>4. Placed(y)
    BY <1>1, <2>1, <2>2 DEF Placed, Mailed
  <2>5. Relies(y, held[r] \cup Need(r))
    BY <2>1, <2>4 DEF Relies, Serving
  <2> QED
    BY <1>1, <2>3, <2>5, TakeKeeps
<1> QED
  BY <1>1, <1>2, EndOnly

LEMMA ConsumeKeeps ==
  ASSUME CredentialsInv, NEW r \in Requests, Consume(r)
  PROVE  CredentialsInv'
<1>1. At(r, "consume") /\ Keep /\ tx[r].pc = "consume"
  BY DEF Consume, At
<1>2. CASE ~Valid(tx[r].link)
  BY <1>1, <1>2, EndOnly DEF Consume
<1>3. CASE Valid(tx[r].link)
  <2> DEFINE y == [tx[r] EXCEPT !.pc = "read"]
  <2>1. y \in Tx /\ y.pc = "read" /\ y.form = tx[r].form /\ y.link = tx[r].link
        /\ y.keep = tx[r].keep
    BY <1>1, Entering, Moved
  <2>2. Placed(tx[r]) /\ Relies(tx[r], held[r]) /\ tx[r] # Idle
    BY <1>1, Entering
  <2>3. Take(r, y)
    BY <1>3 DEF Consume, Go
  <2>4. <<"link", tx[r].link>> \in Need(r)
    BY <1>1 DEF Need
  <2>5. tx[r].link \in DOMAIN link /\ link[tx[r].link] \in Link
    BY <1>1, <2>2, Beginning DEF Placed, CredentialsInv, Data
  <2>6. ~link[tx[r].link].used /\ link[tx[r].link].done = 0
    <3>1. LinkOK(tx[r].link) /\ link[tx[r].link].done \in Nat
      BY <2>5 DEF CredentialsInv, Data, Link
    <3> QED
      BY <1>3, <3>1 DEF Valid, LinkOK
  <2>7. link[tx[r].link].kind # "handoff"
    BY <1>1, <2>2 DEF Relies, Placed
  <2> HIDE DEF y
  <2>8. Placed(y)
    BY <1>1, <2>1, <2>2 DEF Placed, Mailed
  <2>9. Relies(y, held[r] \cup Need(r))
    BY <2>1, <2>4, <2>6, <2>7, <2>8 DEF Relies, Serving
  <2> QED
    BY <1>1, <2>3, <2>9, TakeKeeps
<1> QED
  BY <1>2, <1>3

LEMMA WriteAccountKeeps ==
  ASSUME CredentialsInv, NEW r \in Requests, WriteAccount(r)
  PROVE  CredentialsInv'
<1> DEFINE kill == IF tx[r].form = "change" THEN {}
                   ELSE {s \in DOMAIN sess : ~sess[s].dead /\ s # tx[r].keep}
           y == [tx[r] EXCEPT !.pc = "settle", !.kill = kill]
<1>1. At(r, "write") /\ tx[r].pc = "write" /\ Keep /\ Take(r, y)
      /\ tx[r].form \in {"password", "version", "reset", "change"}
  BY DEF WriteAccount, At
<1>2. tx[r] \in Tx /\ Placed(tx[r]) /\ Relies(tx[r], held[r]) /\ tx[r] # Idle
  BY <1>1, Entering
<1>3. kill \in SUBSET Nat
  BY DEF CredentialsInv, Data
<1>4. tx[r].form # "change" =>
        \A s \in DOMAIN sess : sess[s].dead \/ s \in kill \/ s = tx[r].keep
  OBVIOUS
<1> HIDE DEF kill
<1>5. y \in Tx /\ y.pc = "settle" /\ y.kill = kill /\ y.form = tx[r].form
      /\ y.link = tx[r].link /\ y.keep = tx[r].keep /\ y.a = tx[r].a
  BY <1>2, <1>3 DEF Tx
<1> HIDE DEF y
<1>6. Placed(y)
  BY <1>1, <1>2, <1>5 DEF Placed, Mailed
<1>7. <<"account">> \in Need(r)
  BY <1>1 DEF Need
<1>8. Serving(y) => Serving(tx[r])
  BY <1>1, <1>5 DEF Serving
<1>9. Relies(y, held[r] \cup Need(r))
  BY <1>1, <1>2, <1>4, <1>5, <1>6, <1>7, <1>8 DEF Relies
<1> QED
  BY <1>1, <1>9, TakeKeeps

LEMMA LockHandoffKeeps ==
  ASSUME CredentialsInv, NEW r \in Requests, LockHandoff(r)
  PROVE  CredentialsInv'
<1>1. At(r, "handoff") /\ Keep /\ tx[r].pc = "handoff"
  BY DEF LockHandoff, At
<1>2. CASE End(r)
  BY <1>1, <1>2, EndOnly
<1> DEFINE y == [tx[r] EXCEPT !.pc = "enter", !.a = acct]
<1>3. CASE Valid(tx[r].link) /\ key = "live" /\ Take(r, y)
  <2>1. tx[r] \in Tx /\ Placed(tx[r]) /\ Relies(tx[r], held[r]) /\ tx[r] # Idle
        /\ acct \in Account
    BY <1>1, Entering
  <2>2. y \in Tx /\ y.pc = "enter" /\ y.form = tx[r].form /\ y.link = tx[r].link
        /\ y.keep = tx[r].keep
    BY <2>1 DEF Tx
  <2>3. {<<"link", tx[r].link>>, <<"account">>, <<"key">>} \subseteq Need(r)
    BY <1>1 DEF Need
  <2>4. tx[r].link \in DOMAIN link /\ link[tx[r].link] \in Link
    BY <1>1, <2>1, Beginning DEF Placed, CredentialsInv, Data
  <2>5. ~link[tx[r].link].used /\ link[tx[r].link].done = 0
    <3>1. LinkOK(tx[r].link) /\ link[tx[r].link].done \in Nat
      BY <2>4 DEF CredentialsInv, Data, Link
    <3> QED
      BY <1>3, <3>1 DEF Valid, LinkOK
  <2>6. Take(r, y)
    BY <1>3
  <2> HIDE DEF y
  <2>7. Placed(y)
    BY <1>1, <2>1, <2>2 DEF Placed, Mailed
  <2>8. Relies(y, held[r] \cup Need(r))
    BY <1>3, <2>2, <2>3, <2>5, <2>7 DEF Relies, Serving
  <2> QED
    BY <1>1, <2>6, <2>8, TakeKeeps
<1> QED
  BY <1>2, <1>3 DEF LockHandoff

-----------------------------------------------------------------------------
(* What a request writes                                                      *)

\* A link changes alone, and its lock is r's.
LEMMA OneLink ==
  ASSUME CredentialsInv, NEW r \in Requests, NEW i \in DOMAIN link, <<"link", i>> \in held[r],
         NEW y \in Link, y.kind = link[i].kind, y.done <= 1, y.done = 1 => y.used,
         link' = [link EXCEPT ![i] = y]
  PROVE  /\ link' \in Seq(Link) /\ \A j \in DOMAIN link' : LinkOK(j)'
         /\ \A q \in Requests \ {r} : SparesLinks(q)
<1>1. link \in Seq(Link) /\ Len(link) \in Nat /\ \A j \in DOMAIN link : LinkOK(j)
  BY DEF CredentialsInv, Data
<1>2. link' \in Seq(Link) /\ DOMAIN link' = DOMAIN link /\ Len(link') = Len(link)
  BY <1>1
<1>3. link'[i] = y /\ \A j \in DOMAIN link \ {i} : link'[j] = link[j]
  BY <1>1
<1>4. \A j \in DOMAIN link' : LinkOK(j)'
  BY <1>1, <1>2, <1>3 DEF LinkOK
<1>5. ASSUME NEW q \in Requests \ {r} PROVE SparesLinks(q)
  <2>1. <<"link", i>> \notin held[q]
    BY DEF CredentialsInv, Apart
  <2> QED
    BY <1>1, <1>2, <1>3, <2>1 DEF SparesLinks
<1> QED
  BY <1>2, <1>4, <1>5

\* A link that serves, or that is spent for nothing.
LEMMA Served ==
  ASSUME NEW l \in Link, l.done = 0, NEW y,
         \/ y = [l EXCEPT !.used = TRUE]
         \/ y = [l EXCEPT !.used = TRUE, !.done = @ + 1]
  PROVE  /\ y \in Link /\ y.kind = l.kind /\ y.done \in {0, 1} /\ y.used
         /\ y.done <= 1 /\ (y.done = 1 => y.used)
<1> DEFINE u == l.done = 0
<1>1. u \in BOOLEAN /\ u = TRUE
  OBVIOUS
<1> HIDE DEF u
<1>2. CASE y = [l EXCEPT !.used = u]
  <2>1. y \in Link /\ y.kind = l.kind /\ y.done = 0 /\ y.used = u
    BY <1>1, <1>2 DEF Link
  <2> QED
    BY <1>1, <2>1
<1> DEFINE n == l.done + 1
<1>3. n = 1 /\ n \in Nat
  OBVIOUS
<1>4. l.done + 1 = n
  OBVIOUS
<1> HIDE DEF n
<1>5. CASE y = [l EXCEPT !.used = u, !.done = n]
  <2>1. y \in Link /\ y.kind = l.kind /\ y.done = n /\ y.used = u
    BY <1>1, <1>3, <1>5 DEF Link
  <2> QED
    BY <1>1, <1>3, <2>1
<1> QED
  BY <1>1, <1>2, <1>4, <1>5

\* The account, the sessions and the key that a request leaves alone.
LEMMA SessionsAlone ==
  ASSUME CredentialsInv, sess' = sess, NEW q
  PROVE  SparesSessions(q)
<1>1. Len(sess) \in Nat
  BY DEF CredentialsInv, Data
<1> QED
  BY <1>1 DEF SparesSessions

LEMMA LinksAlone ==
  ASSUME CredentialsInv, link' = link, NEW q
  PROVE  SparesLinks(q) /\ \A i \in DOMAIN link' : LinkOK(i)'
<1>1. Len(link) \in Nat /\ \A i \in DOMAIN link : LinkOK(i)
  BY DEF CredentialsInv, Data
<1> QED
  BY <1>1 DEF SparesLinks, LinkOK

LEMMA ReadAccountKeeps ==
  ASSUME CredentialsInv, NEW r \in Requests, ReadAccount(r)
  PROVE  CredentialsInv'
<1> DEFINE i == tx[r].link
<1>1. At(r, "read") /\ tx[r].pc = "read" /\ UNCHANGED <<acct, sess, key, last, asks, sent>>
  BY DEF ReadAccount, At
<1>2. tx[r] \in Tx /\ Placed(tx[r]) /\ Relies(tx[r], held[r]) /\ tx[r] # Idle
      /\ acct \in Account /\ link \in Seq(Link)
  BY <1>1, Entering
<1>3. i \in DOMAIN link /\ link[i] \in Link /\ <<"link", i>> \in held[r]
      /\ ~link[i].used /\ link[i].done = 0 /\ link[i].kind # "handoff"
  BY <1>1, <1>2, Beginning DEF Placed, Relies, Serving
<1>4. CASE acct.status = "disabled"
  <2> DEFINE y == [link[i] EXCEPT !.used = TRUE]
  <2>1. y \in Link /\ y.kind = link[i].kind /\ y.done <= 1 /\ (y.done = 1 => y.used)
    BY <1>3, Served
  <2>2. link' = [link EXCEPT ![i] = y] /\ End(r)
    BY <1>4 DEF ReadAccount
  <2> HIDE DEF y
  <2>3. /\ link' \in Seq(Link) /\ \A j \in DOMAIN link' : LinkOK(j)'
        /\ \A q \in Requests \ {r} : SparesLinks(q)
    BY <1>3, <2>1, <2>2, OneLink
  <2>4. Data'
    BY <1>1, <2>3 DEF CredentialsInv, Data
  <2>5. \A q \in Requests \ {r} : Spares(q)
    BY <1>1, <2>3, SessionsAlone DEF Spares
  <2> QED
    BY <2>2, <2>4, <2>5, EndKeeps
<1>5. CASE acct.status # "disabled"
  <2> DEFINE y == [tx[r] EXCEPT !.pc = "write", !.a = acct, !.mail = link[i].mail]
  <2>1. Take(r, y) /\ Keep
    BY <1>1, <1>5 DEF ReadAccount, Keep
  <2>2. link[i].mail \in Addresses
    BY <1>3 DEF Link
  <2>3. y \in Tx /\ y.pc = "write" /\ y.form = tx[r].form /\ y.link = i /\ y.keep = tx[r].keep
    BY <1>2, <2>2 DEF Tx
  <2> HIDE DEF y
  <2>4. y.form \in Mailed
    BY <1>1, <1>2, <2>3 DEF Placed
  <2>5. Placed(y)
    BY <1>1, <1>2, <2>3, <2>4 DEF Placed, Mailed
  <2>6. Relies(y, held[r] \cup Need(r))
    BY <1>3, <2>3, <2>4, <2>5 DEF Relies, Mailed
  <2> QED
    BY <1>1, <2>1, <2>6, TakeKeeps
<1> QED
  BY <1>4, <1>5

LEMMA VerifyEmailKeeps ==
  ASSUME CredentialsInv, NEW r \in Requests, VerifyEmail(r)
  PROVE  CredentialsInv'
<1> DEFINE i == tx[r].link
           y == [link[i] EXCEPT !.used = TRUE, !.done = @ + 1]
<1>1. tx[r].pc = "write" /\ tx[r].form = "verify" /\ End(r)
      /\ acct' = [acct EXCEPT !.verified = TRUE] /\ link' = [link EXCEPT ![i] = y]
      /\ UNCHANGED <<sess, key, last, asks, sent>>
  BY DEF VerifyEmail, At
<1>2. tx[r] \in Tx /\ Placed(tx[r]) /\ Relies(tx[r], held[r]) /\ tx[r] # Idle
      /\ acct \in Account /\ link \in Seq(Link)
  BY <1>1, Entering
<1>3. i \in DOMAIN link /\ link[i] \in Link /\ <<"link", i>> \in held[r]
      /\ ~link[i].used /\ link[i].done = 0
  BY <1>1, <1>2, Beginning DEF Placed, Relies, Serving, Mailed
<1>4. y \in Link /\ y.kind = link[i].kind /\ y.done <= 1 /\ (y.done = 1 => y.used)
  BY <1>3, Served
<1> HIDE DEF y
<1>5. /\ link' \in Seq(Link) /\ \A j \in DOMAIN link' : LinkOK(j)'
      /\ \A q \in Requests \ {r} : SparesLinks(q)
  BY <1>1, <1>3, <1>4, OneLink
<1>6. Data'
  BY <1>1, <1>2, <1>5 DEF CredentialsInv, Data, Account
<1>7. \A q \in Requests \ {r} : Spares(q)
  BY <1>1, <1>5, SessionsAlone DEF Spares
<1> QED
  BY <1>1, <1>6, <1>7, EndKeeps

\* A session is added by one that has the account locked.
LEMMA AddsSession ==
  ASSUME CredentialsInv, NEW r \in Requests, NEW pw \in Nat, NEW sv \in Nat,
         sess' = Append(sess, NewSession(pw, sv)),
         \A q \in Requests \ {r} : <<"account">> \notin held[q]
  PROVE  sess' \in Seq(Session) /\ \A q \in Requests \ {r} : SparesSessions(q)
<1>1. NewSession(pw, sv) \in Session
  BY DEF NewSession, Session
<1>2. sess \in Seq(Session) /\ Len(sess) \in Nat
  BY DEF CredentialsInv, Data
<1>3. sess' \in Seq(Session) /\ Len(sess') = Len(sess) + 1
      /\ \A s \in DOMAIN sess : sess'[s] = sess[s]
  BY <1>1, <1>2
<1> QED
  BY <1>2, <1>3 DEF SparesSessions

LEMMA FinishLoginKeeps ==
  ASSUME CredentialsInv, NEW r \in Requests, FinishLogin(r)
  PROVE  CredentialsInv'
<1>1. At(r, "write") /\ tx[r].pc = "write" /\ End(r)
      /\ sess' = Append(sess, NewSession(tx[r].a.pw, tx[r].a.sv))
      /\ UNCHANGED <<acct, link, key, last, asks, sent>>
  BY DEF FinishLogin, At
<1>2. tx[r].a.pw \in Nat /\ tx[r].a.sv \in Nat
  BY <1>1, Entering DEF Account
<1>3. \A q \in Requests \ {r} : <<"account">> \notin held[q]
  <2>1. <<"account">> \in Need(r)
    BY <1>1 DEF Need
  <2> QED
    BY <1>1, <2>1 DEF At, Blocks
<1>4. sess' \in Seq(Session) /\ \A q \in Requests \ {r} : SparesSessions(q)
  BY <1>1, <1>2, <1>3, AddsSession
<1>5. Data'
  BY <1>1, <1>4, LinksAlone DEF CredentialsInv, Data
<1>6. \A q \in Requests \ {r} : Spares(q)
  BY <1>1, <1>4, LinksAlone DEF Spares
<1> QED
  BY <1>1, <1>5, <1>6, EndKeeps

LEMMA EnterByHandoffKeeps ==
  ASSUME CredentialsInv, NEW r \in Requests, EnterByHandoff(r)
  PROVE  CredentialsInv'
<1> DEFINE i == tx[r].link
           y == [link[i] EXCEPT !.used = TRUE, !.done = @ + 1]
           status == IF acct.status = "password_unset" THEN "active" ELSE acct.status
<1>1. tx[r].pc = "enter" /\ End(r) /\ link' = [link EXCEPT ![i] = y]
      /\ acct' = [acct EXCEPT !.status = status]
      /\ sess' = Append(sess, NewSession(0, tx[r].a.sv))
      /\ UNCHANGED <<key, last, asks, sent>>
  BY DEF EnterByHandoff, At
<1>2. tx[r] \in Tx /\ Placed(tx[r]) /\ Relies(tx[r], held[r]) /\ tx[r] # Idle
      /\ acct \in Account /\ link \in Seq(Link)
  BY <1>1, Entering
<1>3. i \in DOMAIN link /\ link[i] \in Link /\ <<"link", i>> \in held[r]
      /\ ~link[i].used /\ link[i].done = 0 /\ <<"account">> \in held[r]
  BY <1>1, <1>2, Beginning DEF Placed, Relies, Serving
<1>4. y \in Link /\ y.kind = link[i].kind /\ y.done <= 1 /\ (y.done = 1 => y.used)
  BY <1>3, Served
<1>5. status \in {"active", "password_unset", "disabled"}
  BY <1>2 DEF Account
<1> HIDE DEF y, status
<1>6. /\ link' \in Seq(Link) /\ \A j \in DOMAIN link' : LinkOK(j)'
      /\ \A q \in Requests \ {r} : SparesLinks(q)
  BY <1>1, <1>3, <1>4, OneLink
<1>7. \A q \in Requests \ {r} : <<"account">> \notin held[q]
  BY <1>3 DEF CredentialsInv, Apart
<1>8. tx[r].a.sv \in Nat
  BY <1>1, Entering DEF Account
<1>9. sess' \in Seq(Session) /\ \A q \in Requests \ {r} : SparesSessions(q)
  BY <1>1, <1>7, <1>8, AddsSession
<1>10. acct' \in Account
  BY <1>1, <1>2, <1>5 DEF Account
<1>11. Data'
  BY <1>1, <1>6, <1>9, <1>10 DEF CredentialsInv, Data
<1>12. \A q \in Requests \ {r} : Spares(q)
  BY <1>1, <1>6, <1>9 DEF Spares
<1> QED
  BY <1>1, <1>11, <1>12, EndKeeps

\* A sequence whose elements are changed one by one.
LEMMA MapSeq ==
  ASSUME NEW S, NEW q \in Seq(S), NEW p, p = [i \in DOMAIN q |-> p[i]],
         \A i \in DOMAIN q : p[i] \in S
  PROVE  p \in Seq(S) /\ Len(p) = Len(q) /\ DOMAIN p = DOMAIN q
<1>1. DOMAIN q = 1..Len(q) /\ Len(q) \in Nat
  OBVIOUS
<1>2. p \in [1..Len(q) -> S]
  BY <1>1
<1> QED
  BY <1>1, <1>2

LEMMA StampKeeps ==
  ASSUME CredentialsInv, NEW r \in Requests, Stamp(r)
  PROVE  CredentialsInv'
<1> DEFINE k == tx[r].keep
           f == TRUE
           y == [sess[k] EXCEPT !.fresh = f]
<1>1. tx[r].pc = "stamp" /\ End(r) /\ sess' = [sess EXCEPT ![k] = y]
      /\ UNCHANGED <<acct, link, key, last, asks, sent>>
  BY DEF Stamp, At
<1>2. Placed(tx[r]) /\ sess \in Seq(Session) /\ Len(sess) \in Nat
  BY <1>1, Entering
<1>3. k \in DOMAIN sess /\ sess[k] \in Session
  BY <1>1, <1>2 DEF Placed
<1>4. sess[k].dead \in BOOLEAN
  BY <1>3 DEF Session
<1>5. f \in BOOLEAN
  OBVIOUS
<1> HIDE DEF f
<1>6. y \in Session /\ y.sv = sess[k].sv /\ y.dead = sess[k].dead
  <2>1. PICK x \in Session : x = sess[k]
    BY <1>3
  <2>2. [x EXCEPT !.fresh = f] \in Session /\ [x EXCEPT !.fresh = f].sv = x.sv
        /\ [x EXCEPT !.fresh = f].dead = x.dead
    BY <1>5 DEF Session
  <2> QED
    BY <2>1, <2>2
<1> HIDE DEF y
<1>7. sess' \in Seq(Session) /\ Len(sess') = Len(sess)
  <2>1. y \in Session /\ sess' = [sess EXCEPT ![k] = y]
    BY <1>1, <1>6
  <2> QED
    BY <1>2, <1>3, <2>1
<1>8. \A q \in Requests \ {r} : SparesSessions(q)
  BY <1>1, <1>2, <1>3, <1>6, <1>7 DEF SparesSessions
<1>9. Data'
  BY <1>1, <1>7, LinksAlone DEF CredentialsInv, Data
<1>10. \A q \in Requests \ {r} : Spares(q)
  BY <1>1, <1>8, LinksAlone DEF Spares
<1> QED
  BY <1>1, <1>9, <1>10, EndKeeps

\* The links that are marked as used when those of some kinds are revoked: nobody
\* else has them locked.
LEMMA Revoking ==
  ASSUME CredentialsInv, NEW r \in Requests, NEW n, NEW kinds,
         link' \in Seq(Link), Len(link) <= Len(link'),
         \A i \in DOMAIN link : link'[i].kind = link[i].kind,
         \A i \in DOMAIN link \ {n} : link'[i].done = link[i].done
           /\ (i \notin Open(kinds) => link'[i].used = link[i].used),
         \A i \in Open(kinds) \ {n} : <<"link", i>> \in Need(r),
         n \in DOMAIN link => <<"link", n>> \in held[r],
         \A q \in Requests : ~Blocks(q, r)
  PROVE  \A q \in Requests \ {r} : SparesLinks(q)
<1> SUFFICES ASSUME NEW q \in Requests \ {r} PROVE SparesLinks(q)
  OBVIOUS
<1>1. \A i \in Open(kinds) \ {n} : <<"link", i>> \notin held[q]
  BY DEF Blocks
<1>2. n \in DOMAIN link => <<"link", n>> \notin held[q]
  BY DEF CredentialsInv, Apart
<1>3. ASSUME NEW i \in DOMAIN link, <<"link", i>> \in held[q]
      PROVE  (link'[i].used => link[i].used) /\ link'[i].done = link[i].done
  <2>1. i # n
    BY <1>2, <1>3
  <2>2. i \notin Open(kinds)
    BY <1>1, <1>3, <2>1
  <2> QED
    BY <2>1, <2>2
<1> QED
  BY <1>3 DEF SparesLinks

LEMMA SettleSessions ==
  ASSUME CredentialsInv, NEW r \in Requests, Settle(r)
  PROVE  /\ sess' \in Seq(Session) /\ Len(sess') = Len(sess) /\ DOMAIN sess' = DOMAIN sess
         /\ \A s \in DOMAIN sess : /\ sess'[s].sv = sess[s].sv
                                   /\ sess'[s].dead <=> sess[s].dead \/ s \in tx[r].kill
<1> DEFINE d(s) == sess[s].dead \/ s \in tx[r].kill
           f(s) == sess[s].fresh \/ (tx[r].form = "version" /\ s = tx[r].keep)
<1>1. sess' = [s \in DOMAIN sess |-> [sess[s] EXCEPT !.dead = d(s), !.fresh = f(s)]]
  BY DEF Settle
<1>2. ASSUME NEW s \in DOMAIN sess
      PROVE  d(s) \in BOOLEAN /\ f(s) \in BOOLEAN
  OBVIOUS
<1>3. ASSUME NEW s \in DOMAIN sess
      PROVE  sess'[s] = [sess[s] EXCEPT !.dead = d(s), !.fresh = f(s)]
  BY <1>1, Zenon
<1>4. \A s \in DOMAIN sess : d(s) <=> sess[s].dead \/ s \in tx[r].kill
  OBVIOUS
<1>5. sess' = [s \in DOMAIN sess |-> sess'[s]]
  BY <1>1
<1> HIDE DEF d, f
<1>6. sess \in Seq(Session) /\ \A s \in DOMAIN sess : sess[s] \in Session
  BY DEF CredentialsInv, Data
<1>7. ASSUME NEW s \in DOMAIN sess
      PROVE  sess'[s] \in Session /\ sess'[s].sv = sess[s].sv /\ sess'[s].dead = d(s)
  <2>1. PICK x \in Session : x = sess[s]
    BY <1>6, <1>7
  <2>2. PICK a \in BOOLEAN : a = d(s)
    BY <1>2, <1>7
  <2>3. PICK b \in BOOLEAN : b = f(s)
    BY <1>2, <1>7
  <2>4. sess'[s] = [x EXCEPT !.dead = a, !.fresh = b]
    BY <1>3, <1>7, <2>1, <2>2, <2>3
  <2>5. sess'[s] \in Session /\ sess'[s].sv = x.sv /\ sess'[s].dead = a
    BY <2>4 DEF Session
  <2> QED
    BY <2>1, <2>2, <2>5
<1>8. sess' \in Seq(Session) /\ Len(sess') = Len(sess) /\ DOMAIN sess' = DOMAIN sess
  <2>1. PICK p : p = sess'
    OBVIOUS
  <2>2. p = [i \in DOMAIN sess |-> p[i]] /\ \A i \in DOMAIN sess : p[i] \in Session
    BY <1>5, <1>7, <2>1
  <2> QED
    BY <1>6, <2>1, <2>2, MapSeq
<1> QED
  BY <1>4, <1>7, <1>8

LEMMA LinkIs ==
  ASSUME CredentialsInv
  PROVE  \A i \in DOMAIN link : link[i] \in Link /\ LinkOK(i) /\ link[i].done \in Nat
<1>1. \A i \in DOMAIN link : link[i] \in Link /\ LinkOK(i)
  BY DEF CredentialsInv, Data
<1> QED
  BY <1>1 DEF Link

LEMMA SettleLinks ==
  ASSUME CredentialsInv, NEW r \in Requests, Settle(r)
  PROVE  /\ link' \in Seq(Link) /\ \A i \in DOMAIN link' : LinkOK(i)'
         /\ \A q \in Requests \ {r} : SparesLinks(q)
         /\ \A i \in DOMAIN link : i # tx[r].link => link'[i].done = link[i].done
<1> DEFINE n == tx[r].link
           kinds == Revoked(tx[r].form)
<1>1. At(r, "settle") /\ tx[r].pc = "settle" /\ link' = Spent(r)
  BY DEF Settle, At
<1>2. tx[r] \in Tx /\ Placed(tx[r]) /\ Relies(tx[r], held[r]) /\ tx[r] # Idle
      /\ link \in Seq(Link) /\ Len(link) \in Nat
  BY <1>1, Entering
<1>3. \A i \in DOMAIN link : link[i] \in Link /\ LinkOK(i) /\ link[i].done \in Nat
  BY LinkIs
<1>4. n \in DOMAIN link => <<"link", n>> \in held[r] /\ link[n].done = 0
  BY <1>1, <1>2 DEF Relies, Serving
<1>5. link' = [i \in DOMAIN link |-> link'[i]]
  BY <1>1 DEF Spent
<1>6. ASSUME NEW i \in DOMAIN link, i = n
      PROVE  link'[i] \in Link /\ link'[i].kind = link[i].kind /\ LinkOK(i)'
  <2>1. link'[i] = [link[i] EXCEPT !.used = TRUE, !.done = @ + 1]
    BY <1>1, <1>6, Zenon DEF Spent
  <2>2. link[i] \in Link /\ link[i].done = 0
    BY <1>3, <1>4, <1>6
  <2> QED
    BY <2>1, <2>2, Served DEF LinkOK
<1>7. ASSUME NEW i \in Open(kinds), i # n
      PROVE  link'[i] \in Link /\ link'[i].kind = link[i].kind /\ LinkOK(i)'
             /\ link'[i].done = link[i].done
  <2>1. i \in DOMAIN link /\ ~link[i].used
    BY DEF Open
  <2>2. link'[i] = [link[i] EXCEPT !.used = TRUE]
    BY <1>1, <1>7, <2>1, Zenon DEF Spent
  <2>3. link[i] \in Link /\ link[i].done = 0
    BY <1>3, <2>1 DEF LinkOK
  <2>4. link'[i].done = 0
    <3>1. PICK l \in Link : l = link[i]
      BY <2>3
    <3>2. PICK u \in BOOLEAN : u = TRUE
      OBVIOUS
    <3>3. [l EXCEPT !.used = u].done = l.done
      BY DEF Link
    <3> QED
      BY <2>2, <2>3, <3>1, <3>2, <3>3
  <2> QED
    BY <2>2, <2>3, <2>4, Served DEF LinkOK
<1>8. ASSUME NEW i \in DOMAIN link \ Open(kinds), i # n
      PROVE  link'[i] = link[i]
  BY <1>1, <1>8, Zenon DEF Spent
<1>9. link' \in Seq(Link) /\ Len(link') = Len(link) /\ DOMAIN link' = DOMAIN link
  <2>1. PICK p : p = link'
    OBVIOUS
  <2>2. \A i \in DOMAIN link : p[i] \in Link
    BY <1>3, <1>6, <1>7, <1>8, <2>1
  <2>3. p = [i \in DOMAIN link |-> p[i]]
    BY <1>5, <2>1
  <2> QED
    BY <1>2, <2>1, <2>2, <2>3, MapSeq
<1>10. \A i \in DOMAIN link' : LinkOK(i)'
  <2>1. \A i \in DOMAIN link \ Open(kinds) : i # n => LinkOK(i)'
    BY <1>3, <1>8 DEF LinkOK
  <2> QED
    BY <1>6, <1>7, <1>9, <2>1
<1>11. \A i \in DOMAIN link : link'[i].kind = link[i].kind
  BY <1>6, <1>7, <1>8
<1>12. \A i \in DOMAIN link \ {n} : link'[i].done = link[i].done
         /\ (i \notin Open(kinds) => link'[i].used = link[i].used)
  BY <1>7, <1>8
<1>13. \A i \in Open(kinds) \ {n} : <<"link", i>> \in Need(r)
  <2>1. Need(r) = {<<"link", i>> : i \in Open(kinds) \ {n}}
    BY <1>1 DEF Need
  <2> QED
    BY <2>1
<1>14. \A q \in Requests \ {r} : SparesLinks(q)
  <2>1. \A q \in Requests : ~Blocks(q, r)
    BY <1>1 DEF At
  <2>2. Len(link) <= Len(link')
    BY <1>2, <1>9
  <2>3. n \in DOMAIN link => <<"link", n>> \in held[r]
    BY <1>4
  <2> HIDE DEF n, kinds
  <2> QED
    BY <1>9, <1>11, <1>12, <1>13, <2>1, <2>2, <2>3, Revoking
<1> QED
  BY <1>9, <1>10, <1>12, <1>14

LEMMA SettleAccount ==
  ASSUME CredentialsInv, NEW r \in Requests, Settle(r)
  PROVE  /\ acct' \in Account /\ last' \in Nat
         /\ tx[r].form = "change" => acct'.pw = acct.pw
         /\ tx[r].form \notin {"password"} => acct'.sv = tx[r].a.sv + 1
<1> DEFINE x == tx[r]
           pw == IF x.form = "change" THEN acct.pw ELSE last + 1
           sv == IF x.form = "password" THEN acct.sv ELSE x.a.sv + 1
           status == IF x.form = "change" \/ x.a.status # "password_unset"
                     THEN acct.status ELSE "active"
           mail == IF x.form = "change" THEN x.mail ELSE acct.mail
           verified == acct.verified \/ x.form \in {"change", "reset"}
           floor == IF x.form \in {"version", "reset"} THEN last + 1 ELSE acct.floor
<1>1. tx[r].pc = "settle" /\ acct' = Written(r)
      /\ last' = (IF tx[r].form = "change" THEN last ELSE last + 1)
  BY DEF Settle, At
<1>2. acct \in Account /\ last \in Nat /\ x.a \in Account /\ x.mail \in Addresses
  BY <1>1, Entering
<1>3. acct' = [acct EXCEPT !.pw = pw, !.sv = sv, !.status = status, !.mail = mail,
                           !.verified = verified, !.floor = floor]
  BY <1>1, Zenon DEF Written
<1>4. /\ pw \in Nat /\ sv \in Nat /\ status \in {"active", "password_unset", "disabled"}
      /\ mail \in Addresses /\ floor \in Nat
  BY <1>2 DEF Account
<1>5. verified \in BOOLEAN
  OBVIOUS
<1>6. (x.form = "change" => pw = acct.pw) /\ (x.form # "password" => sv = x.a.sv + 1)
  OBVIOUS
<1> HIDE DEF pw, sv, status, mail, verified, floor
<1>7. acct' \in Account /\ acct'.pw = pw /\ acct'.sv = sv
  BY <1>2, <1>3, <1>4, <1>5 DEF Account
<1> QED
  BY <1>1, <1>2, <1>6, <1>7

LEMMA SettleKeeps ==
  ASSUME CredentialsInv, NEW r \in Requests, Settle(r)
  PROVE  CredentialsInv'
<1>1. tx[r].pc = "settle" /\ End(r) /\ UNCHANGED <<key, asks, sent>>
  BY DEF Settle, At
<1>2. sess \in Seq(Session) /\ Len(sess) \in Nat
  BY DEF CredentialsInv, Data
<1>3. Data'
  BY <1>1, SettleAccount, SettleLinks, SettleSessions DEF CredentialsInv, Data
<1>4. \A q \in Requests \ {r} : SparesSessions(q)
  BY <1>2, SettleSessions DEF SparesSessions
<1>5. \A q \in Requests \ {r} : Spares(q)
  BY <1>1, <1>4, SettleLinks DEF Spares
<1> QED
  BY <1>1, <1>3, <1>5, EndKeeps

\* A new link: it has served for nothing.
LEMMA LinkAdded ==
  ASSUME NEW old \in Seq(Link), NEW k \in Kinds, NEW m \in Addresses,
         \A i \in DOMAIN old : old[i].done <= 1 /\ (old[i].done = 1 => old[i].used),
         link' = Append(old, NewLink(k, m))
  PROVE  /\ link' \in Seq(Link) /\ Len(link') = Len(old) + 1 /\ Len(old) \in Nat
         /\ \A i \in DOMAIN old : link'[i] = old[i]
         /\ \A i \in DOMAIN link' : LinkOK(i)'
<1> DEFINE l == NewLink(k, m)
<1>1. l \in Link /\ l.done = 0
  BY DEF NewLink, Link
<1> HIDE DEF l
<1>2. link' = Append(old, l)
  BY DEF l
<1>3. /\ link' \in Seq(Link) /\ Len(link') = Len(old) + 1 /\ Len(old) \in Nat
      /\ \A i \in DOMAIN old : link'[i] = old[i]
      /\ link'[Len(old) + 1] = l
  BY <1>1, <1>2
<1>4. DOMAIN link' = DOMAIN old \cup {Len(old) + 1}
  BY <1>3
<1>5. LinkOK(Len(old) + 1)'
  BY <1>1, <1>3 DEF LinkOK
<1>6. \A i \in DOMAIN old : LinkOK(i)'
  BY <1>3 DEF LinkOK
<1> QED
  BY <1>3, <1>4, <1>5, <1>6

LEMMA IssueLinkKeeps ==
  ASSUME CredentialsInv, NEW r \in Requests, IssueLink(r)
  PROVE  CredentialsInv' /\ \A i \in DOMAIN link : link'[i].done = link[i].done
<1> DEFINE form == tx[r].form
           u(i) == link[i].used \/ i \in Open({form})
           old == [i \in DOMAIN link |-> [link[i] EXCEPT !.used = u(i)]]
<1>1. At(r, "issue") /\ tx[r].pc = "issue" /\ End(r)
      /\ link' = Append(old, NewLink(form, tx[r].mail))
      /\ UNCHANGED <<acct, sess, key, last, asks, sent>>
  BY DEF IssueLink, At
<1>2. Placed(tx[r]) /\ tx[r].mail \in Addresses /\ link \in Seq(Link) /\ Len(link) \in Nat
  BY <1>1, Entering
<1>3. form \in Kinds
  BY <1>1, <1>2 DEF Placed, Mailed, Kinds
<1>4. \A i \in DOMAIN link : u(i) \in BOOLEAN
  OBVIOUS
<1>5. \A i \in DOMAIN link : (link[i].used => u(i)) /\ (i \notin Open({form}) => u(i) = link[i].used)
  <2>1. \A i \in DOMAIN link : link[i].used \in BOOLEAN
    BY LinkIs DEF Link
  <2> QED
    BY <2>1
<1>6. old = [i \in DOMAIN link |-> old[i]]
      /\ \A i \in DOMAIN link : old[i] = [link[i] EXCEPT !.used = u(i)]
  OBVIOUS
<1> HIDE DEF u, old
<1>7. ASSUME NEW i \in DOMAIN link
      PROVE  old[i] \in Link /\ old[i].kind = link[i].kind /\ old[i].done = link[i].done
             /\ old[i].used = u(i)
  <2>1. PICK l \in Link : l = link[i]
    BY <1>7, LinkIs
  <2>2. PICK a \in BOOLEAN : a = u(i)
    BY <1>4, <1>7
  <2>3. old[i] = [l EXCEPT !.used = a]
    BY <1>6, <1>7, <2>1, <2>2
  <2>4. old[i] \in Link /\ old[i].kind = l.kind /\ old[i].done = l.done /\ old[i].used = a
    BY <2>3 DEF Link
  <2> QED
    BY <2>1, <2>2, <2>4
<1>8. old \in Seq(Link) /\ Len(old) = Len(link) /\ DOMAIN old = DOMAIN link
  BY <1>2, <1>6, <1>7, MapSeq
<1>9. \A i \in DOMAIN old : old[i].done <= 1 /\ (old[i].done = 1 => old[i].used)
  BY <1>5, <1>7, <1>8, LinkIs DEF LinkOK
<1>10. /\ link' \in Seq(Link) /\ Len(link') = Len(old) + 1
       /\ \A i \in DOMAIN old : link'[i] = old[i]
       /\ \A i \in DOMAIN link' : LinkOK(i)'
  BY <1>1, <1>2, <1>3, <1>8, <1>9, LinkAdded
<1>11. \A i \in Open({form}) \ {0} : <<"link", i>> \in Need(r)
  BY <1>1 DEF Need
<1>12. \A q \in Requests : ~Blocks(q, r)
  BY <1>1 DEF At
<1>13. 0 \notin DOMAIN link
  BY <1>2
<1>14. \A q \in Requests \ {r} : SparesLinks(q)
  <2>1. \A i \in DOMAIN link : link'[i].kind = link[i].kind
    BY <1>7, <1>8, <1>10
  <2>2. \A i \in DOMAIN link \ {0} : link'[i].done = link[i].done
           /\ (i \notin Open({form}) => link'[i].used = link[i].used)
    BY <1>5, <1>7, <1>8, <1>10
  <2>3. Len(link) <= Len(link')
    BY <1>2, <1>8, <1>10
  <2> HIDE DEF form
  <2> QED
    BY <1>10, <1>11, <1>12, <1>13, <2>1, <2>2, <2>3, Revoking
<1>15. Data'
  BY <1>1, <1>10 DEF CredentialsInv, Data
<1>16. \A q \in Requests \ {r} : Spares(q)
  BY <1>1, <1>14, SessionsAlone DEF Spares
<1>17. \A i \in DOMAIN link : link'[i].done = link[i].done
  BY <1>7, <1>8, <1>10
<1> QED
  BY <1>1, <1>15, <1>16, <1>17, EndKeeps

-----------------------------------------------------------------------------
(* The world *)

LEMMA IssueHandoffKeeps ==
  ASSUME CredentialsInv, IssueHandoff
  PROVE  CredentialsInv'
<1>1. link' = Append(link, NewLink("handoff", acct.mail))
      /\ UNCHANGED <<acct, sess, key, tx, held, last>>
  BY DEF IssueHandoff
<1>2. link \in Seq(Link) /\ acct.mail \in Addresses /\ "handoff" \in Kinds
  BY Beginning DEF CredentialsInv, Data, Kinds
<1>3. \A i \in DOMAIN link : link[i].done <= 1 /\ (link[i].done = 1 => link[i].used)
  BY LinkIs DEF LinkOK
<1>4. /\ link' \in Seq(Link) /\ Len(link') = Len(link) + 1 /\ Len(link) \in Nat
      /\ \A i \in DOMAIN link : link'[i] = link[i]
      /\ \A i \in DOMAIN link' : LinkOK(i)'
  BY <1>1, <1>2, <1>3, LinkAdded
<1>5. Data'
  BY <1>1, <1>4 DEF CredentialsInv, Data
<1>6. \A q \in Requests : Spares(q)
  BY <1>1, <1>4, SessionsAlone DEF Spares, SparesLinks
<1> QED
  BY <1>1, <1>5, <1>6, OutsideKeeps

LEMMA AdminsKeep ==
  ASSUME CredentialsInv, RevokeKey \/ Disable
  PROVE  CredentialsInv'
<1>1. CASE RevokeKey
  <2>1. Data'
    BY <1>1, LinksAlone DEF RevokeKey, CredentialsInv, Data
  <2>2. \A q \in Requests : Spares(q)
    BY <1>1, SessionsAlone, LinksAlone DEF RevokeKey, RowFree, Spares
  <2> QED
    BY <1>1, <2>1, <2>2, OutsideKeeps DEF RevokeKey
<1>2. CASE Disable
  <2>1. acct' \in Account
    BY <1>2 DEF Disable, CredentialsInv, Data, Account
  <2>2. Data'
    BY <1>2, <2>1, LinksAlone DEF Disable, CredentialsInv, Data
  <2>3. \A q \in Requests : Spares(q)
    BY <1>2, SessionsAlone, LinksAlone DEF Disable, Spares
  <2> QED
    BY <1>2, <2>2, <2>3, OutsideKeeps DEF Disable
<1> QED
  BY <1>1, <1>2

LEMMA AgeKeeps ==
  ASSUME CredentialsInv, NEW i \in DOMAIN link, Age(i)
  PROVE  CredentialsInv' /\ \A j \in DOMAIN link : link'[j].done = link[j].done
<1> DEFINE y == IF link[i].young THEN [link[i] EXCEPT !.young = FALSE]
                                 ELSE [link[i] EXCEPT !.live = FALSE]
<1>1. link' = [link EXCEPT ![i] = y] /\ UNCHANGED <<acct, sess, key, tx, held, last>>
  BY DEF Age
<1>2. y \in Link /\ y.kind = link[i].kind /\ y.used = link[i].used /\ y.done = link[i].done
  <2>1. PICK l \in Link : l = link[i]
    BY LinkIs
  <2>2. PICK a \in BOOLEAN : a = FALSE
    OBVIOUS
  <2>3. /\ [l EXCEPT !.young = a] \in Link /\ [l EXCEPT !.young = a].kind = l.kind
        /\ [l EXCEPT !.young = a].used = l.used /\ [l EXCEPT !.young = a].done = l.done
    BY DEF Link
  <2>4. /\ [l EXCEPT !.live = a] \in Link /\ [l EXCEPT !.live = a].kind = l.kind
        /\ [l EXCEPT !.live = a].used = l.used /\ [l EXCEPT !.live = a].done = l.done
    BY DEF Link
  <2>5. CASE link[i].young
    <3>1. y = [l EXCEPT !.young = a]
      BY <2>1, <2>2, <2>5
    <3> QED
      BY <2>1, <2>3, <3>1
  <2>6. CASE ~link[i].young
    <3>1. y = [l EXCEPT !.live = a]
      BY <2>1, <2>2, <2>6
    <3> QED
      BY <2>1, <2>4, <3>1
  <2> QED
    BY <2>5, <2>6
<1> HIDE DEF y
<1>3. link \in Seq(Link) /\ Len(link) \in Nat
  BY DEF CredentialsInv, Data
<1>4. link' \in Seq(Link) /\ Len(link') = Len(link) /\ DOMAIN link' = DOMAIN link
      /\ link'[i] = y /\ \A j \in DOMAIN link \ {i} : link'[j] = link[j]
  BY <1>1, <1>2, <1>3
<1>5. \A j \in DOMAIN link' : LinkOK(j)'
  BY <1>2, <1>4, LinkIs DEF LinkOK
<1>6. Data'
  BY <1>1, <1>4, <1>5 DEF CredentialsInv, Data
<1>7. \A q \in Requests : SparesLinks(q)
  BY <1>2, <1>3, <1>4 DEF SparesLinks
<1>8. \A q \in Requests : Spares(q)
  BY <1>1, <1>7, SessionsAlone DEF Spares
<1>9. \A j \in DOMAIN link : link'[j].done = link[j].done
  BY <1>2, <1>4
<1> QED
  BY <1>1, <1>6, <1>8, <1>9, OutsideKeeps

-----------------------------------------------------------------------------
(* The theorems *)

LEMMA InvNext ==
  ASSUME CredentialsInv, [Next]_vars
  PROVE  CredentialsInv'
<1>1. CASE UNCHANGED vars
  <2>1. tx' = tx /\ held' = held /\ UNCHANGED <<acct, sess, link, key, last>>
    BY <1>1 DEF vars
  <2>2. Data' /\ \A q \in Requests : Spares(q)
    BY <2>1, SessionsAlone, LinksAlone DEF CredentialsInv, Data, Spares
  <2> QED
    BY <2>1, <2>2, OutsideKeeps
<1>2. ASSUME NEW r \in Requests, Step(r)
      PROVE  CredentialsInv'
  BY <1>2, StampKeeps, FinishLoginKeeps, WriteAccountKeeps, SettleKeeps, LockIssueKeeps,
     IssueLinkKeeps, ConsumeKeeps, ReadAccountKeeps, VerifyEmailKeeps, LockHandoffKeeps,
     EnterByHandoffKeeps DEF Step
<1>3. ASSUME NEW r \in Requests, Login(r) \/ RequestReset(r) \/ RequestVerify(r)
      PROVE  CredentialsInv'
  BY <1>3, BeginsKeep
<1>4. ASSUME NEW r \in Requests, NEW s \in DOMAIN sess,
             \/ ChangePassword(r, s) \/ SetPassword(r, s) \/ Reauth(r, s)
             \/ \E m \in Addresses : RequestChange(r, s, m)
      PROVE  CredentialsInv'
  BY <1>4, BeginsWithSessionKeep, RequestChangeKeeps
<1>5. ASSUME NEW r \in Requests, NEW i \in DOMAIN link, UseLink(r, i) \/ FollowHandoff(r, i)
      PROVE  CredentialsInv'
  BY <1>5, FollowsKeep
<1>6. ASSUME NEW r \in Requests, AbortDeadlock(r) \/ Crash(r)
      PROVE  CredentialsInv'
  BY <1>6, EndsKeep
<1>7. ASSUME IssueHandoff \/ RevokeKey \/ Disable
      PROVE  CredentialsInv'
  BY <1>7, IssueHandoffKeeps, AdminsKeep
<1>8. ASSUME NEW i \in DOMAIN link, Age(i)
      PROVE  CredentialsInv'
  BY <1>8, AgeKeeps
<1> QED
  BY <1>1, <1>2, <1>3, <1>4, <1>5, <1>6, <1>7, <1>8 DEF Next

LEMMA InvInit ==
  ASSUME Init
  PROVE  CredentialsInv
<1>1. acct \in Account
  BY DEF Init, Account
<1>2. sess \in Seq(Session)
  <2>1. CASE acct.status = "password_unset"
    BY <2>1 DEF Init
  <2>2. CASE acct.status # "password_unset"
    <3> DEFINE e(s) == [pw |-> acct.pw, sv |-> 1, dead |-> FALSE, fresh |-> s = 1]
    <3>1. \A s \in 1..2 : e(s) \in Session
      BY <1>1 DEF Account, Session
    <3>2. sess = [s \in 1..2 |-> e(s)]
      BY <2>2 DEF Init
    <3> HIDE DEF e
    <3> QED
      BY <3>1, <3>2
  <2> QED
    BY <2>1, <2>2
<1>3. Data
  BY <1>1, <1>2 DEF Init, Data
<1>4. Shape /\ Apart /\ \A r \in Requests : Relies(tx[r], held[r])
  BY DEF Init, Shape, Apart, Relies
<1> QED
  BY <1>3, <1>4 DEF CredentialsInv

LEMMA InvHolds == Spec => []CredentialsInv
<1>1. CredentialsInv /\ [Next]_vars => CredentialsInv'
  BY InvNext
<1> QED
  BY InvInit, <1>1, PTL DEF Spec

\* The rows of an account are what the code takes them for, and a request that is
\* under way names a link that there is.
THEOREM TypeCorrect == Spec => []TypeOK
<1>1. CredentialsInv => TypeOK
  BY DEF CredentialsInv, Data, TypeOK, Relies, Placed
<1> QED
  BY InvHolds, <1>1, PTL

\* A reset, change, verification or handoff link does what it is for at most once,
\* and is used when it has, for every number of requests that follow it at once
\* and wherever each of them dies (consume_auth_token and the handoff's SELECT).
THEOREM LinkServes == Spec => []LinkServesOnce
<1>1. CredentialsInv => LinkServesOnce
  BY DEF CredentialsInv, Data, LinkOK, LinkServesOnce
<1> QED
  BY InvHolds, <1>1, PTL

-----------------------------------------------------------------------------
(* What a step may do *)

SessionsEnd ==
  acct'.pw # acct.pw =>
    \A s \in DOMAIN sess :
      Accepted(s)' => \E r \in Requests :
        /\ tx[r].pc = "settle" /\ tx[r].form \in {"password", "version"}
        /\ tx[r].keep = s

\* Only a request that settles a password changes it.
LEMMA OnlySettleSetsPassword ==
  ASSUME CredentialsInv, [Next]_vars, acct'.pw # acct.pw
  PROVE  \E r \in Requests : Settle(r)
<1>1. acct \in Account
  BY DEF CredentialsInv, Data
<1>2. ASSUME NEW r \in Requests, VerifyEmail(r)
      PROVE  acct'.pw = acct.pw
  BY <1>1, <1>2 DEF VerifyEmail, Account
<1>3. ASSUME NEW r \in Requests, EnterByHandoff(r)
      PROVE  acct'.pw = acct.pw
  BY <1>1, <1>3 DEF EnterByHandoff, Account
<1>4. ASSUME Disable
      PROVE  acct'.pw = acct.pw
  BY <1>1, <1>4 DEF Disable, Account
<1>5. ASSUME NEW r \in Requests, Step(r), ~VerifyEmail(r), ~EnterByHandoff(r), ~Settle(r)
      PROVE  acct' = acct
  BY <1>5 DEF Step, Stamp, FinishLogin, WriteAccount, LockIssue, IssueLink, Consume,
              ReadAccount, LockHandoff, Keep
<1>6. ASSUME NEW r \in Requests, AbortDeadlock(r) \/ Crash(r)
      PROVE  acct' = acct
  BY <1>6 DEF AbortDeadlock, Crash, Keep
<1>7. ASSUME NEW r \in Requests, Login(r) \/ RequestReset(r) \/ RequestVerify(r)
      PROVE  acct' = acct
  BY <1>7 DEF Login, RequestReset, RequestVerify, Begin
<1>8. ASSUME NEW r \in Requests, NEW s \in DOMAIN sess,
             \/ ChangePassword(r, s) \/ SetPassword(r, s) \/ Reauth(r, s)
             \/ \E m \in Addresses : RequestChange(r, s, m)
      PROVE  acct' = acct
  BY <1>8 DEF ChangePassword, SetPassword, Reauth, RequestChange, Begin
<1>9. ASSUME NEW r \in Requests, NEW i \in DOMAIN link, UseLink(r, i) \/ FollowHandoff(r, i)
      PROVE  acct' = acct
  BY <1>9 DEF UseLink, FollowHandoff, Begin
<1>10. ASSUME IssueHandoff \/ RevokeKey \/ \E i \in DOMAIN link : Age(i)
       PROVE  acct' = acct
  BY <1>10 DEF IssueHandoff, RevokeKey, Age
<1>11. UNCHANGED vars => acct' = acct
  BY DEF vars
<1> QED
  BY <1>2, <1>3, <1>4, <1>5, <1>6, <1>7, <1>8, <1>9, <1>10, <1>11 DEF Next

LEMMA SettleEndsSessions ==
  ASSUME CredentialsInv, NEW r \in Requests, Settle(r), acct'.pw # acct.pw
  PROVE  SessionsEnd
<1> SUFFICES ASSUME NEW s \in DOMAIN sess, Accepted(s)'
             PROVE  /\ tx[r].pc = "settle" /\ tx[r].form \in {"password", "version"}
                    /\ tx[r].keep = s
  BY DEF SessionsEnd
<1>1. tx[r].pc = "settle"
  BY DEF Settle, At
<1>2. Relies(tx[r], held[r]) /\ tx[r] # Idle /\ Placed(tx[r]) /\ tx[r].a \in Account
      /\ DOMAIN sess = 1..Len(sess)
  BY <1>1, Entering, Beginning
<1>3. tx[r].form # "change"
  BY SettleAccount
<1>4. sess[s].dead \/ s \in tx[r].kill \/ s = tx[r].keep
  BY <1>1, <1>2, <1>3 DEF Relies
<1>5. ~sess'[s].dead /\ sess'[s].sv = acct'.sv
  BY DEF Accepted
<1>6. s = tx[r].keep /\ sess[s].sv = acct'.sv
  BY <1>4, <1>5, SettleSessions
<1>7. tx[r].form # "reset"
  BY <1>2, <1>6 DEF Placed
<1> QED
  BY <1>1, <1>2, <1>3, <1>6, <1>7 DEF Placed

\* Setting a password lets in no session from before but the one that it is set
\* from, for every number of logins that are being finished
\* meanwhile (reset_password, change_password, set_account_password).
THEOREM PasswordEnds == Spec => PasswordEndsSessions
<1>1. CredentialsInv /\ [Next]_vars => SessionsEnd
  <2> SUFFICES ASSUME CredentialsInv, [Next]_vars, acct'.pw # acct.pw
               PROVE  SessionsEnd
    BY DEF SessionsEnd
  <2> QED
    BY OnlySettleSetsPassword, SettleEndsSessions
<1>2. [][SessionsEnd]_vars => PasswordEndsSessions
  BY PTL DEF PasswordEndsSessions, SessionsEnd
<1> QED
  BY InvHolds, <1>1, <1>2, PTL DEF Spec

KeyLives ==
  \A i \in DOMAIN link :
    link[i].kind = "handoff" /\ link'[i].done > link[i].done => key = "live"

\* A link that is consumed for a disabled account does nothing.
LEMMA ReadAccountSpends ==
  ASSUME CredentialsInv, NEW r \in Requests, ReadAccount(r)
  PROVE  \A i \in DOMAIN link : link'[i].done = link[i].done
<1> DEFINE n == tx[r].link
<1>1. CASE link' = link
  BY <1>1
<1>2. CASE link' = [link EXCEPT ![n].used = TRUE]
  <2>1. \A i \in DOMAIN link : i # n => link'[i] = link[i]
    BY <1>2
  <2>2. ASSUME n \in DOMAIN link
        PROVE  link'[n].done = link[n].done
    <3>1. PICK l \in Link : l = link[n]
      BY <2>2, LinkIs
    <3>2. PICK u \in BOOLEAN : u = TRUE
      OBVIOUS
    <3>3. link'[n] = [l EXCEPT !.used = u]
      BY <1>2, <2>2, <3>1, <3>2
    <3>4. [l EXCEPT !.used = u].done = l.done
      BY DEF Link
    <3> QED
      BY <3>1, <3>3, <3>4
  <2> QED
    BY <2>1, <2>2
<1> QED
  BY <1>1, <1>2 DEF ReadAccount

LEMMA ServesAreLive ==
  ASSUME CredentialsInv, NEW r \in Requests,
         VerifyEmail(r) \/ Settle(r) \/ EnterByHandoff(r)
  PROVE  KeyLives
<1> DEFINE n == tx[r].link
<1>1. tx[r].pc \in {"write", "settle", "enter"}
  BY DEF VerifyEmail, Settle, EnterByHandoff, At
<1>2. Relies(tx[r], held[r]) /\ tx[r] # Idle /\ Placed(tx[r]) /\ n \in Nat
  BY <1>1, Entering
<1>3. DOMAIN link = 1..Len(link) /\ \A i \in DOMAIN link : link[i].done \in Nat
  BY Beginning, LinkIs
<1>4. CASE EnterByHandoff(r)
  <2>1. tx[r].pc = "enter"
    BY <1>4 DEF EnterByHandoff, At
  <2> QED
    BY <1>2, <2>1 DEF Relies, KeyLives
<1>5. CASE VerifyEmail(r) \/ Settle(r)
  <2>1. tx[r].pc \in {"write", "settle"}
    BY <1>5 DEF VerifyEmail, Settle, At
  <2>2. n # 0 => link[n].kind # "handoff"
    BY <1>2, <2>1 DEF Relies
  <2>3. \A i \in DOMAIN link : i # n => link'[i].done = link[i].done
    <3>1. CASE VerifyEmail(r)
      <4>1. \A i \in DOMAIN link : i # n => link'[i] = link[i]
        BY <3>1 DEF VerifyEmail
      <4> QED
        BY <4>1
    <3>2. CASE Settle(r)
      BY <3>2, SettleLinks
    <3> QED
      BY <1>5, <3>1, <3>2
  <2> QED
    BY <1>3, <2>2, <2>3 DEF KeyLives
<1> QED
  BY <1>4, <1>5

\* Nobody enters by the handoff of a key that was revoked, for every number of
\* requests that follow handoffs while it is (the joined SELECT ... FOR UPDATE).
THEOREM HandoffKey == Spec => HandoffNeedsKey
<1>1. CredentialsInv /\ [Next]_vars => KeyLives
  <2> SUFFICES ASSUME CredentialsInv, [Next]_vars
               PROVE  KeyLives
    OBVIOUS
  <2>1. ASSUME \A i \in DOMAIN link : link'[i].done = link[i].done
        PROVE  KeyLives
    BY <2>1, LinkIs DEF KeyLives
  <2>2. ASSUME NEW r \in Requests, Step(r)
        PROVE  KeyLives
    <3>1. CASE VerifyEmail(r) \/ Settle(r) \/ EnterByHandoff(r)
      BY <3>1, ServesAreLive
    <3>2. CASE Stamp(r) \/ FinishLogin(r) \/ WriteAccount(r) \/ LockIssue(r) \/ Consume(r)
               \/ LockHandoff(r)
      BY <2>1, <3>2 DEF Stamp, FinishLogin, WriteAccount, LockIssue, Consume, LockHandoff, Keep
    <3>3. CASE IssueLink(r)
      BY <2>1, <3>3, IssueLinkKeeps
    <3>4. CASE ReadAccount(r)
      <4>1. \A i \in DOMAIN link : link'[i].done = link[i].done
        BY <3>4, ReadAccountSpends
      <4> QED
        BY <2>1, <4>1
    <3> QED
      BY <2>2, <3>1, <3>2, <3>3, <3>4 DEF Step
  <2>3. ASSUME NEW r \in Requests, AbortDeadlock(r) \/ Crash(r)
        PROVE  KeyLives
    BY <2>1, <2>3 DEF AbortDeadlock, Crash, Keep
  <2>4. ASSUME NEW r \in Requests, Login(r) \/ RequestReset(r) \/ RequestVerify(r)
        PROVE  KeyLives
    BY <2>1, <2>4 DEF Login, RequestReset, RequestVerify, Begin
  <2>5. ASSUME NEW r \in Requests, NEW s \in DOMAIN sess,
               \/ ChangePassword(r, s) \/ SetPassword(r, s) \/ Reauth(r, s)
               \/ \E m \in Addresses : RequestChange(r, s, m)
        PROVE  KeyLives
    BY <2>1, <2>5 DEF ChangePassword, SetPassword, Reauth, RequestChange, Begin
  <2>6. ASSUME NEW r \in Requests, NEW i \in DOMAIN link, UseLink(r, i) \/ FollowHandoff(r, i)
        PROVE  KeyLives
    BY <2>1, <2>6 DEF UseLink, FollowHandoff, Begin
  <2>7. ASSUME RevokeKey \/ Disable
        PROVE  KeyLives
    BY <2>1, <2>7 DEF RevokeKey, Disable
  <2>8. ASSUME IssueHandoff
        PROVE  KeyLives
    <3>1. \A i \in DOMAIN link : link'[i] = link[i]
      BY <2>8 DEF IssueHandoff, CredentialsInv, Data
    <3> QED
      BY <2>1, <3>1
  <2>9. ASSUME NEW i \in DOMAIN link, Age(i)
        PROVE  KeyLives
    BY <2>1, <2>9, AgeKeeps
  <2>10. UNCHANGED vars => KeyLives
    BY <2>1 DEF vars
  <2> QED
    BY <2>2, <2>3, <2>4, <2>5, <2>6, <2>7, <2>8, <2>9, <2>10 DEF Next
<1>2. [][KeyLives]_vars => HandoffNeedsKey
  BY PTL DEF HandoffNeedsKey, KeyLives
<1> QED
  BY InvHolds, <1>1, <1>2, PTL DEF Spec

=============================================================================
