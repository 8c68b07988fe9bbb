---------------------------- MODULE SignInProofs ----------------------------
(* Proofs about SignIn, for every value of its constants.                     *)
EXTENDS SignIn, FiniteSetTheorems, TLAPS

-----------------------------------------------------------------------------
(* The invariant *)

Mailing == {"lockCode", "branch", "lockMail", "replace", "insert"}
Judging == {"judge", "resolve", "create", "authorize", "finish"}
Polling == {"lockRow", "answer", "issue"}

Tx == [pc : {"idle", "lockToken"} \cup Mailing \cup Judging \cup Polling,
       code : Codes \cup {NoOne}, mail : Emails \cup {NoOne},
       kind : Kinds \cup Ways \cup {NoOne}, fake : BOOLEAN, tok : Nat,
       bad : Nat, seen : Nat, born : BOOLEAN]

\* What a request that is at x relies on, while it holds the locks h.
Relies(x, h) ==
  /\ x \in Tx
  /\ x.tok \in 0..Len(tok)
  /\ x.pc \in Polling \cup {"lockCode"} => x.code \in Codes
  /\ x.pc \in Mailing \cup Judging \cup {"lockToken"} => x.mail \in Emails
  /\ x.pc = "lockMail" => x.kind \in Kinds \cup {NoOne}
  /\ x.pc \in {"replace", "insert"} => x.kind \in Kinds
  /\ x.pc \in Judging \cup {"lockToken"} => x.tok \in DOMAIN tok
  /\ x.pc \in {"answer", "issue"} => <<"code", x.code>> \in h
  /\ x.pc = "issue" => dev[x.code].status = "authorized"
  /\ x.pc \in Judging => /\ <<"token", x.tok>> \in h
                         /\ ~tok[x.tok].used /\ tok[x.tok].done = 0
  /\ x.pc = "authorize" => tok[x.tok].code \in Codes

Shape == tx = [r \in Requests |-> tx[r]] /\ held = [r \in Requests |-> held[r]]

\* No lock is held by two requests.
Apart == \A q, r \in Requests : q # r => held[q] \cap held[r] = {}

CodeOK(c) ==
  /\ dev[c].status \in {"unknown", "pending"} => dev[c].owner = NoOne /\ dev[c].keys = 0
  /\ dev[c].status = "authorized" => dev[c].owner # NoOne /\ dev[c].keys = 0
  /\ dev[c].keys <= 1 /\ (dev[c].keys = 1 => dev[c].owner # NoOne)

TokenOK(t) == tok[t].done <= 1 /\ (tok[t].done = 1 => tok[t].used)

Data ==
  /\ acct \in [Emails -> Account]
  /\ dev \in [Codes -> Device]
  /\ tok \in Seq(Token)
  /\ open \in BOOLEAN
  /\ fault \subseteq {"suppressed", "error"}
  /\ \A c \in Codes : CodeOK(c)
  /\ \A t \in DOMAIN tok : TokenOK(t)

SignInInv ==
  /\ Data /\ Shape /\ Apart
  /\ \A r \in Requests : Relies(tx[r], held[r])

\* What a step may do to the data on which request q relies.
Spares(q) ==
  /\ Len(tok) <= Len(tok')
  /\ \A t \in DOMAIN tok :
       /\ tok'[t].code = tok[t].code
       /\ <<"token", t>> \in held[q] =>
            (tok'[t].used => tok[t].used) /\ tok'[t].done = tok[t].done
  /\ \A c \in Codes : <<"code", c>> \in held[q] => dev'[c].status = dev[c].status

-----------------------------------------------------------------------------
(* A request's step and the others *)

LEMMA StillRelies ==
  ASSUME Data, Data', NEW q \in Requests, Relies(tx[q], held[q]), Spares(q),
         tx'[q] = tx[q], held'[q] = held[q]
  PROVE  Relies(tx[q], held[q])'
<1> DEFINE x == tx[q]
<1>1. tok \in Seq(Token) /\ tok' \in Seq(Token) /\ Len(tok) <= Len(tok')
  BY DEF Data, Spares
<1>2. 0..Len(tok) \subseteq 0..Len(tok') /\ DOMAIN tok \subseteq DOMAIN tok'
  BY <1>1
<1>3. x.pc \in Judging => /\ <<"token", x.tok>> \in held[q]
                          /\ ~tok'[x.tok].used /\ tok'[x.tok].done = 0
  BY DEF Relies, Spares, Judging
<1>4. x.pc = "issue" => dev'[x.code].status = "authorized"
  BY DEF Relies, Spares, Polling
<1>5. x.pc = "authorize" => tok'[x.tok].code \in Codes
  BY DEF Relies, Spares, Judging
<1> QED
  BY <1>2, <1>3, <1>4, <1>5 DEF Relies

\* A request ends, and what it wrote spares what the others rely on.
LEMMA EndKeeps ==
  ASSUME SignInInv, NEW r \in Requests, End(r), Data',
         \A q \in Requests \ {r} : Spares(q)
  PROVE  SignInInv'
<1>1. Shape' /\ tx'[r] = Idle /\ held'[r] = {}
  BY DEF End, SignInInv, Shape
<1>2. \A q \in Requests \ {r} : tx'[q] = tx[q] /\ held'[q] = held[q]
  BY DEF End, SignInInv, Shape
<1>3. Apart'
  BY <1>1, <1>2 DEF SignInInv, Apart
<1>4. Relies(tx[r], held[r])'
  <2>1. Idle \in Tx
    BY DEF Idle, Tx, Mailing, Judging, Polling
  <2>2. Len(tok') \in Nat
    BY DEF Data
  <2> QED
    BY <1>1, <2>1, <2>2 DEF Relies, Idle, Mailing, Judging, Polling
<1>5. \A q \in Requests \ {r} : Relies(tx[q], held[q])'
  BY <1>2, StillRelies DEF SignInInv
<1> QED
  BY <1>1, <1>3, <1>4, <1>5 DEF SignInInv

LEMMA KeepSpares ==
  ASSUME SignInInv, Keep, NEW q
  PROVE  Data' /\ Spares(q)
<1>1. Len(tok) \in Nat
  BY DEF SignInInv, Data
<1> QED
  BY <1>1 DEF SignInInv, Keep, Data, CodeOK, TokenOK, Spares

LEMMA EndOnly ==
  ASSUME SignInInv, NEW r \in Requests, End(r), Keep
  PROVE  SignInInv'
BY EndKeeps, KeepSpares

\* A request goes on to x, with the locks it needed.
LEMMA TakeKeeps ==
  ASSUME SignInInv, NEW r \in Requests, NEW pc, At(r, pc), NEW x, Take(r, x), Keep,
         Relies(x, held[r] \cup Need(r))
  PROVE  SignInInv'
<1>1. Shape' /\ tx'[r] = x /\ held'[r] = held[r] \cup Need(r)
  BY DEF Take, SignInInv, Shape
<1>2. \A q \in Requests \ {r} : tx'[q] = tx[q] /\ held'[q] = held[q]
  BY DEF Take, SignInInv, Shape
<1>3. Apart'
  <2>1. \A q \in Requests \ {r} : Need(r) \cap held[q] = {}
    BY DEF At, Blocks
  <2> QED
    BY <1>1, <1>2, <2>1 DEF SignInInv, Apart
<1>4. Relies(tx[r], held[r])'
  BY <1>1 DEF Relies, Keep
<1>5. Data' /\ \A q \in Requests : Spares(q)
  BY KeepSpares
<1>6. \A q \in Requests \ {r} : Relies(tx[q], held[q])'
  BY <1>2, <1>5, StillRelies DEF SignInInv
<1> QED
  BY <1>1, <1>3, <1>4, <1>5, <1>6 DEF SignInInv

\* A request begins.
LEMMA BeginKeeps ==
  ASSUME SignInInv, NEW r \in Requests, NEW x, Begin(r, x), Relies(x, held[r])
  PROVE  SignInInv'
<1>1. Shape' /\ tx'[r] = x /\ held' = held
  BY DEF Begin, SignInInv, Shape
<1>2. \A q \in Requests \ {r} : tx'[q] = tx[q]
  BY DEF Begin, SignInInv, Shape
<1>3. Keep
  BY DEF Begin, Keep
<1>4. Relies(tx[r], held[r])'
  BY <1>1, <1>3 DEF Relies, Keep
<1>5. Data' /\ \A q \in Requests : Spares(q)
  BY <1>3, KeepSpares
<1>6. \A q \in Requests \ {r} : Relies(tx[q], held[q])'
  BY <1>1, <1>2, <1>5, StillRelies DEF SignInInv
<1> QED
  BY <1>1, <1>4, <1>5, <1>6 DEF SignInInv, Apart

\* Something else happens to the data.
LEMMA OutsideKeeps ==
  ASSUME SignInInv, tx' = tx, held' = held, Data', \A q \in Requests : Spares(q)
  PROVE  SignInInv'
<1>1. \A q \in Requests : Relies(tx[q], held[q])'
  BY StillRelies DEF SignInInv
<1> QED
  BY <1>1 DEF SignInInv, Shape, Apart

-----------------------------------------------------------------------------
(* The steps that only lead a request on *)

LEMMA Moved ==
  ASSUME NEW x \in Tx, NEW pc \in {"idle", "lockToken"} \cup Mailing \cup Judging \cup Polling
  PROVE  /\ [x EXCEPT !.pc = pc] \in Tx
         /\ [x EXCEPT !.pc = pc].pc = pc
         /\ \A n \in DOMAIN x \ {"pc"} : [x EXCEPT !.pc = pc][n] = x[n]
BY DEF Tx

\* A request that only goes on to another place relies on little more.
LEMMA GoRelies ==
  ASSUME NEW x, NEW h, NEW more, NEW pc \in Mailing \cup Judging \cup Polling, Relies(x, h),
         pc \in Polling \cup {"lockCode"} => x.code \in Codes,
         pc \in Mailing \cup Judging => x.mail \in Emails,
         pc = "lockMail" => x.kind \in Kinds \cup {NoOne},
         pc \in {"replace", "insert"} => x.kind \in Kinds,
         pc \in {"answer", "issue"} => <<"code", x.code>> \in h \cup more,
         pc = "issue" => dev[x.code].status = "authorized",
         pc \in Judging => /\ x.tok \in DOMAIN tok /\ <<"token", x.tok>> \in h \cup more
                           /\ ~tok[x.tok].used /\ tok[x.tok].done = 0,
         pc = "authorize" => tok[x.tok].code \in Codes
  PROVE  Relies([x EXCEPT !.pc = pc], h \cup more)
<1> DEFINE y == [x EXCEPT !.pc = pc]
<1>1. x \in Tx
  BY DEF Relies
<1>2. y \in Tx /\ y.pc = pc
  BY <1>1, Moved
<1>3. y.code = x.code /\ y.mail = x.mail /\ y.kind = x.kind /\ y.tok = x.tok
  BY <1>1 DEF Tx
<1>4. x.tok \in 0..Len(tok)
  BY DEF Relies
<1>5. pc # "lockToken"
  BY DEF Mailing, Judging, Polling
<1> HIDE DEF y
<1>6. /\ y.pc \in Polling \cup {"lockCode"} => y.code \in Codes
      /\ y.pc \in Mailing \cup Judging \cup {"lockToken"} => y.mail \in Emails
      /\ y.pc = "lockMail" => y.kind \in Kinds \cup {NoOne}
      /\ y.pc \in {"replace", "insert"} => y.kind \in Kinds
  BY <1>2, <1>3, <1>5
<1>7. y.pc \in Judging \cup {"lockToken"} => y.tok \in DOMAIN tok
  BY <1>2, <1>3, <1>5
<1>8. /\ y.pc \in {"answer", "issue"} => <<"code", y.code>> \in h \cup more
      /\ y.pc = "issue" => dev[y.code].status = "authorized"
      /\ y.pc \in Judging => /\ <<"token", y.tok>> \in h \cup more
                             /\ ~tok[y.tok].used /\ tok[y.tok].done = 0
      /\ y.pc = "authorize" => tok[y.tok].code \in Codes
  BY <1>2, <1>3
<1>9. y \in Tx /\ y.tok \in 0..Len(tok)
  BY <1>2, <1>3, <1>4
<1>10. Relies(y, h \cup more)
  BY <1>6, <1>7, <1>8, <1>9, Zenon DEF Relies
<1> QED
  BY <1>10 DEF y

LEMMA Entering ==
  ASSUME SignInInv, NEW r \in Requests
  PROVE  /\ Relies(tx[r], held[r]) /\ tx[r] \in Tx /\ tx[r].tok \in 0..Len(tok)
         /\ tok \in Seq(Token) /\ dev \in [Codes -> Device] /\ acct \in [Emails -> Account]
BY DEF SignInInv, Relies, Data

LEMMA EndsKeep ==
  ASSUME SignInInv, NEW r \in Requests,
         AbortDeadlock(r) \/ Crash(r) \/ SlowDown(r) \/ OtherAccount(r)
  PROVE  SignInInv'
BY EndOnly DEF AbortDeadlock, Crash, SlowDown, OtherAccount

LEMMA LockDeviceForSendKeeps ==
  ASSUME SignInInv, NEW r \in Requests, LockDeviceForSend(r)
  PROVE  SignInInv'
<1>1. At(r, "lockCode") /\ Keep /\ (End(r) \/ Go(r, "branch"))
  BY DEF LockDeviceForSend
<1>2. CASE Go(r, "branch")
  <2>1. tx[r].pc = "lockCode"
    BY <1>1 DEF At
  <2>2. Relies([tx[r] EXCEPT !.pc = "branch"], held[r] \cup Need(r))
    BY <2>1, Entering, GoRelies DEF Relies, Mailing, Judging, Polling
  <2> QED
    BY <1>1, <1>2, <2>2, TakeKeeps DEF Go
<1> QED
  BY <1>1, <1>2, EndOnly

LEMMA LockMailKeeps ==
  ASSUME SignInInv, NEW r \in Requests, LockMail(r)
  PROVE  SignInInv'
<1> DEFINE pc == IF tx[r].kind = NoOne THEN "branch" ELSE "replace"
<1>1. At(r, "lockMail") /\ Keep /\ Go(r, pc)
  BY DEF LockMail
<1>2. tx[r].pc = "lockMail"
  BY <1>1 DEF At
<1>3. tx[r].mail \in Emails /\ (pc = "replace" => tx[r].kind \in Kinds)
  BY <1>2, Entering DEF Relies, Mailing
<1>4. pc \in {"branch", "replace"}
  OBVIOUS
<1> HIDE DEF pc
<1>5. Relies([tx[r] EXCEPT !.pc = pc], held[r] \cup Need(r))
  BY <1>3, <1>4, Entering, GoRelies DEF Mailing, Judging, Polling
<1> QED
  BY <1>1, <1>5, TakeKeeps DEF Go

LEMMA ReplaceKeeps ==
  ASSUME SignInInv, NEW r \in Requests, Replace(r)
  PROVE  SignInInv'
<1>1. At(r, "replace") /\ Keep /\ Go(r, "insert") /\ tx[r].pc = "replace"
  BY DEF Replace, At
<1>2. Relies([tx[r] EXCEPT !.pc = "insert"], held[r] \cup Need(r))
  BY <1>1, Entering, GoRelies DEF Relies, Mailing, Judging, Polling
<1> QED
  BY <1>1, <1>2, TakeKeeps DEF Go

LEMMA LockRowKeeps ==
  ASSUME SignInInv, NEW r \in Requests, LockRow(r)
  PROVE  SignInInv'
<1>1. At(r, "lockRow") /\ Keep /\ Go(r, "answer") /\ tx[r].pc = "lockRow"
  BY DEF LockRow, At
<1>2. <<"code", tx[r].code>> \in Need(r)
  BY <1>1 DEF Need
<1>3. tx[r].code \in Codes
  BY <1>1, Entering DEF Relies, Polling
<1>4. Relies([tx[r] EXCEPT !.pc = "answer"], held[r] \cup Need(r))
  BY <1>1, <1>2, <1>3, Entering, GoRelies DEF Mailing, Judging, Polling
<1> QED
  BY <1>1, <1>4, TakeKeeps DEF Go

LEMMA FakeIs ==
  ASSUME NEW e \in Emails
  PROVE  Sentinel(e) \in BOOLEAN
BY Zenon DEF Sentinel

\* What branching leads to.
LEMMA BranchKeeps ==
  ASSUME SignInInv, NEW r \in Requests, BranchDevice(r) \/ BranchWeb(r)
  PROVE  SignInInv'
<1>1. At(r, "branch") /\ Keep /\ tx[r].pc = "branch"
  BY DEF BranchDevice, BranchWeb, At
<1>2. CASE End(r)
  BY <1>1, <1>2, EndOnly
<1>3. ASSUME NEW pc \in {"lockMail", "replace"}, NEW k \in Kinds, NEW f \in BOOLEAN,
             Take(r, [tx[r] EXCEPT !.pc = pc, !.kind = k, !.fake = f])
      PROVE  SignInInv'
  <2> DEFINE y == [tx[r] EXCEPT !.pc = pc, !.kind = k, !.fake = f]
  <2>1. y \in Tx /\ y.pc = pc /\ y.kind = k /\ y.tok = tx[r].tok /\ y.mail = tx[r].mail
    BY Entering DEF Tx, Mailing
  <2>2. tx[r].mail \in Emails
    BY <1>1, Entering DEF Relies, Mailing
  <2>3. Take(r, y)
    BY <1>3
  <2> HIDE DEF y
  <2>4. Relies(y, held[r] \cup Need(r))
    BY <2>1, <2>2, Entering DEF Relies, Mailing, Judging, Polling
  <2> QED
    BY <1>1, <2>3, <2>4, TakeKeeps
<1>4. tx[r].mail \in Emails
  BY <1>1, Entering DEF Relies, Mailing
<1>5. Sentinel(tx[r].mail) \in BOOLEAN
  BY <1>4, FakeIs
<1> DEFINE new == acct[tx[r].mail].status = "none"
           dp == IF new THEN "lockMail" ELSE "replace"
           dk == IF new THEN "deviceSignup" ELSE "deviceLogin"
           wk == IF new THEN "webSignup" ELSE "webLogin"
<1>6. CASE BranchDevice(r)
  <2>1. \/ End(r)
        \/ Take(r, [tx[r] EXCEPT !.pc = dp, !.kind = dk, !.fake = Sentinel(tx[r].mail)])
    BY <1>6, Zenon DEF BranchDevice
  <2>2. dp \in {"lockMail", "replace"} /\ dk \in Kinds
    BY DEF Kinds
  <2> HIDE DEF dp, dk
  <2> QED
    BY <1>2, <1>3, <1>5, <2>1, <2>2
<1>7. CASE BranchWeb(r)
  <2>1. \/ End(r)
        \/ Take(r, [tx[r] EXCEPT !.pc = "replace", !.kind = wk, !.fake = Sentinel(tx[r].mail)])
    BY <1>7, Zenon DEF BranchWeb
  <2>2. wk \in Kinds
    BY DEF Kinds
  <2> HIDE DEF wk
  <2> QED
    BY <1>2, <1>3, <1>5, <2>1, <2>2
<1> QED
  BY <1>6, <1>7

-----------------------------------------------------------------------------
(* A token's use, up to its finalization *)

LEMMA LockTokenKeeps ==
  ASSUME SignInInv, NEW r \in Requests, LockToken(r)
  PROVE  SignInInv'
<1>1. At(r, "lockToken") /\ Keep /\ tx[r].pc = "lockToken"
  BY DEF LockToken, At
<1>2. CASE End(r)
  BY <1>1, <1>2, EndOnly
<1>3. CASE ~End(r)
  <2> DEFINE t  == tx[r].tok
             pc == IF tx[r].kind = "wrong" THEN "judge" ELSE "resolve"
             y  == [tx[r] EXCEPT !.pc = pc, !.bad = tok[t].bad]
  <2>1. Valid(t) /\ Take(r, y)
    BY <1>3 DEF LockToken
  <2>2. t \in DOMAIN tok /\ tx[r].mail \in Emails
    BY <1>1, Entering DEF Relies, Judging
  <2>3. ~tok[t].used /\ tok[t].done = 0
    <3>1. tok[t] \in Token /\ TokenOK(t)
      BY <2>2 DEF SignInInv, Data
    <3> QED
      BY <2>1, <3>1 DEF Valid, TokenOK, Token
  <2>4. <<"token", t>> \in held[r] \cup Need(r)
    BY <1>1 DEF Need
  <2>5. tok[t].bad \in Nat
    <3>1. tok[t] \in Token
      BY <2>2 DEF SignInInv, Data
    <3> QED
      BY <3>1 DEF Token
  <2>6. pc \in {"judge", "resolve"}
    OBVIOUS
  <2> HIDE DEF pc
  <2>7. y \in Tx /\ y.pc = pc /\ y.tok = t /\ y.mail = tx[r].mail
    BY <2>5, <2>6, Entering DEF Tx, Judging
  <2> HIDE DEF y
  <2>8. Relies(y, held[r] \cup Need(r))
    BY <2>2, <2>3, <2>4, <2>6, <2>7, Entering DEF Relies, Mailing, Judging, Polling
  <2> QED
    BY <1>1, <2>1, <2>8, TakeKeeps
<1> QED
  BY <1>2, <1>3

\* What a request that judges relies on.
LEMMA AtJudging ==
  ASSUME SignInInv, NEW r \in Requests, tx[r].pc \in Judging
  PROVE  /\ tx[r].tok \in DOMAIN tok /\ tok[tx[r].tok] \in Token
         /\ tx[r].mail \in Emails
         /\ <<"token", tx[r].tok>> \in held[r]
         /\ ~tok[tx[r].tok].used /\ tok[tx[r].tok].done = 0
<1>1. tx[r].tok \in DOMAIN tok
  BY Entering DEF Relies
<1>2. tok[tx[r].tok] \in Token
  BY <1>1, Entering
<1> QED
  BY <1>1, <1>2, Entering DEF Relies

LEMMA OnwardLeads ==
  ASSUME NEW t, tok[t] \in Token
  PROVE  /\ Onward(t) \in {"finish", "authorize"}
         /\ Onward(t) = "authorize" => tok[t].code \in Codes
BY DEF Onward, Token

LEMMA CountIs ==
  Accounts \in Nat
<1> DEFINE S == {e \in Emails : acct[e].status # "none"}
<1>1. IsFiniteSet(S)
  BY SignInAssumption, FS_Subset
<1> QED
  BY <1>1, FS_CardinalityType DEF Accounts

\* A request that judges goes on to another place of its judgement.
LEMMA JudgesOn ==
  ASSUME SignInInv, NEW r \in Requests, tx[r].pc \in Judging,
         NEW pc, At(r, pc), NEW y \in Tx, Take(r, y), Keep,
         y.pc \in Judging, y.pc = "authorize" => tok[y.tok].code \in Codes,
         y.tok = tx[r].tok, y.mail = tx[r].mail
  PROVE  SignInInv'
<1>1. Relies(y, held[r] \cup Need(r))
  <2>1. y.pc \notin Mailing \cup Polling \cup {"lockToken"}
    BY DEF Mailing, Judging, Polling
  <2>2. y.tok \in 0..Len(tok)
    BY Entering
  <2> QED
    BY <2>1, <2>2, AtJudging, Zenon DEF Relies, Mailing, Polling
<1> QED
  BY <1>1, TakeKeeps

LEMMA ResolveKeeps ==
  ASSUME SignInInv, NEW r \in Requests, ResolveAccount(r), ~Burn(r)
  PROVE  SignInInv'
<1>1. At(r, "resolve") /\ Keep /\ tx[r].pc \in Judging
  BY DEF ResolveAccount, At, Judging
<1> DEFINE pc == IF acct[tx[r].mail].status = "none" THEN "create" ELSE Onward(tx[r].tok)
           y  == [tx[r] EXCEPT !.pc = pc, !.seen = Accounts]
<1>2. Take(r, y)
  BY DEF ResolveAccount
<1>3. pc \in {"create", "finish", "authorize"}
      /\ (pc = "authorize" => tok[tx[r].tok].code \in Codes)
  BY <1>1, AtJudging, OnwardLeads
<1> HIDE DEF pc
<1>4. y \in Tx /\ y.pc = pc /\ y.tok = tx[r].tok /\ y.mail = tx[r].mail
  BY <1>3, CountIs, Entering DEF Tx, Judging
<1>5. y.pc \in Judging
  BY <1>3, <1>4 DEF Judging
<1> HIDE DEF y
<1> QED
  BY <1>1, <1>2, <1>3, <1>4, <1>5, JudgesOn

LEMMA CreateKeeps ==
  ASSUME SignInInv, NEW r \in Requests, CreateAccount(r), ~Burn(r)
  PROVE  SignInInv'
<1>1. At(r, "create") /\ Keep /\ tx[r].pc \in Judging
  BY DEF CreateAccount, At, Judging
<1> DEFINE pc  == Onward(tx[r].tok)
           new == acct[tx[r].mail].status = "none"
           y   == [tx[r] EXCEPT !.pc = pc, !.born = new]
<1>2. Take(r, y)
  BY DEF CreateAccount
<1>3. pc \in {"finish", "authorize"}
      /\ (pc = "authorize" => tok[tx[r].tok].code \in Codes)
  BY <1>1, AtJudging, OnwardLeads
<1>4. new \in BOOLEAN
  OBVIOUS
<1> HIDE DEF pc, new
<1>5. y \in Tx /\ y.pc = pc /\ y.tok = tx[r].tok /\ y.mail = tx[r].mail
  BY <1>3, <1>4, Entering DEF Tx, Judging
<1>6. y.pc \in Judging
  BY <1>3, <1>5 DEF Judging
<1> HIDE DEF y
<1> QED
  BY <1>1, <1>2, <1>3, <1>5, <1>6, JudgesOn

\* One token is written.
SparesTokens(q) ==
  /\ Len(tok) <= Len(tok')
  /\ \A t \in DOMAIN tok :
       /\ tok'[t].code = tok[t].code
       /\ <<"token", t>> \in held[q] =>
            (tok'[t].used => tok[t].used) /\ tok'[t].done = tok[t].done

LEMMA TokenWritten ==
  ASSUME SignInInv, NEW t \in DOMAIN tok, NEW x \in Token, tok' = [tok EXCEPT ![t] = x],
         x.code = tok[t].code, x.done <= 1 /\ (x.done = 1 => x.used)
  PROVE  /\ tok' \in Seq(Token) /\ DOMAIN tok' = DOMAIN tok
         /\ \A s \in DOMAIN tok' : TokenOK(s)'
         /\ \A q \in Requests :
              \/ <<"token", t>> \notin held[q]
              \/ (x.used => tok[t].used) /\ x.done = tok[t].done
              => SparesTokens(q)
<1>1. tok \in Seq(Token) /\ \A s \in DOMAIN tok : TokenOK(s)
  BY DEF SignInInv, Data
<1>2. /\ tok' \in Seq(Token) /\ Len(tok') = Len(tok) /\ DOMAIN tok' = DOMAIN tok
      /\ tok'[t] = x /\ \A s \in DOMAIN tok \ {t} : tok'[s] = tok[s]
  BY <1>1
<1>3. Len(tok) <= Len(tok')
  BY <1>1, <1>2
<1>4. ASSUME NEW s \in DOMAIN tok PROVE TokenOK(s)'
  BY <1>1, <1>2 DEF TokenOK
<1>5. ASSUME NEW q \in Requests,
             \/ <<"token", t>> \notin held[q]
             \/ (x.used => tok[t].used) /\ x.done = tok[t].done
      PROVE  SparesTokens(q)
  <2>1. ASSUME NEW s \in DOMAIN tok
        PROVE  /\ tok'[s].code = tok[s].code
               /\ <<"token", s>> \in held[q] =>
                    (tok'[s].used => tok[s].used) /\ tok'[s].done = tok[s].done
    <3>1. CASE s = t
      BY <1>2, <1>5, <3>1, Zenon
    <3>2. CASE s # t
      BY <1>2, <3>2, Zenon
    <3> QED
      BY <3>1, <3>2
  <2> QED
    BY <1>3, <2>1, Zenon DEF SparesTokens
<1> QED
  BY <1>2, <1>4, <1>5

LEMMA WrongOtpKeeps ==
  ASSUME SignInInv, NEW r \in Requests, CountWrongOtp(r)
  PROVE  SignInInv'
<1> DEFINE t == tx[r].tok
           n == tx[r].bad + 1
           x == [tok[t] EXCEPT !.bad = n, !.used = @ \/ n >= OtpCap]
<1>1. End(r) /\ UNCHANGED <<acct, dev, open, fault>> /\ tx[r].pc \in Judging
  BY DEF CountWrongOtp, At, Judging
<1>2. tok' = [tok EXCEPT ![t] = x]
  BY Zenon DEF CountWrongOtp
<1>3. t \in DOMAIN tok /\ tok[t] \in Token /\ <<"token", t>> \in held[r]
      /\ tok[t].done = 0
  BY <1>1, AtJudging
<1>4. n \in Nat
  BY Entering DEF Tx
<1>5. x \in Token /\ x.code = tok[t].code /\ x.done = 0
  <2> DEFINE u == tok[t].used \/ n >= OtpCap
  <2>1. u \in BOOLEAN
    BY Zenon
  <2>2. x = [tok[t] EXCEPT !.bad = n, !.used = u]
    BY Zenon
  <2> HIDE DEF u, n
  <2> QED
    BY <1>3, <1>4, <2>1, <2>2 DEF Token
<1> HIDE DEF x
<1>6. /\ tok' \in Seq(Token) /\ \A s \in DOMAIN tok' : TokenOK(s)'
      /\ \A q \in Requests : <<"token", t>> \notin held[q] => SparesTokens(q)
  <2>1. x.done <= 1 /\ (x.done = 1 => x.used)
    BY <1>5
  <2> QED
    BY <1>2, <1>3, <1>5, <2>1, TokenWritten
<1>7. Data'
  BY <1>1, <1>6 DEF SignInInv, Data, CodeOK
<1>8. ASSUME NEW q \in Requests \ {r}
      PROVE  Spares(q)
  <2>1. <<"token", t>> \notin held[q]
    BY <1>3, <1>8 DEF SignInInv, Apart
  <2>2. SparesTokens(q)
    BY <1>6, <2>1
  <2> QED
    BY <1>1, <2>2 DEF Spares, SparesTokens
<1> QED
  BY <1>1, <1>7, <1>8, EndKeeps

-----------------------------------------------------------------------------
(* Finalization *)

LEMMA AccountsStay ==
  ASSUME SignInInv, NEW r \in Requests, tx[r].pc \in Judging, NEW made \in BOOLEAN, NEW done,
         Settle(r, made, done)
  PROVE  acct' \in [Emails -> Account]
<1> DEFINE e == tx[r].mail
           b == IF tx[r].born THEN tok[tx[r].tok].code ELSE acct[e].born
           a == [acct[e] EXCEPT !.status = "active", !.verified = TRUE,
                                !.born = IF tx[r].born THEN tok[tx[r].tok].code ELSE acct[e].born]
<1>1. acct' = acct \/ acct' = [acct EXCEPT ![e] = a]
  <2>1. CASE made
    BY <2>1, Zenon DEF Settle
  <2>2. CASE ~made
    BY <2>2, Zenon DEF Settle
  <2> QED
    BY <2>1, <2>2
<1>2. e \in Emails /\ tok[tx[r].tok] \in Token
  BY AtJudging
<1>3. acct[e] \in Account
  BY <1>2, Entering
<1>4. b \in Codes \cup {NoOne}
  BY <1>2, <1>3 DEF Token, Account
<1>5. a \in Account
  <2>1. a = [acct[e] EXCEPT !.status = "active", !.verified = TRUE, !.born = b]
    BY <1>3 DEF Account
  <2> HIDE DEF a, b
  <2> QED
    BY <1>3, <1>4, <2>1 DEF Account
<1> HIDE DEF a
<1> QED
  BY <1>1, <1>2, <1>5, Entering

\* A finalization consumes its token, and spares the other requests'.
LEMMA Settled ==
  ASSUME SignInInv, NEW r \in Requests, tx[r].pc \in Judging, NEW made,
         NEW done \in {0, 1}, Settle(r, made, done)
  PROVE  /\ tok' \in Seq(Token) /\ \A s \in DOMAIN tok' : TokenOK(s)'
         /\ \A q \in Requests \ {r} : SparesTokens(q)
<1> DEFINE t == tx[r].tok
           x == [tok[t] EXCEPT !.used = TRUE, !.done = @ + done]
<1>1. tok' = [tok EXCEPT ![t] = x]
  BY Zenon DEF Settle
<1>2. t \in DOMAIN tok /\ tok[t] \in Token /\ <<"token", t>> \in held[r]
      /\ tok[t].done = 0
  BY AtJudging
<1>3. x \in Token /\ x.code = tok[t].code /\ x.done = done /\ x.used = TRUE
  <2> DEFINE u == TRUE
             k == tok[t].done + done
  <2>1. u \in BOOLEAN /\ k \in Nat /\ k = done
    BY <1>2
  <2>2. x = [tok[t] EXCEPT !.used = u, !.done = k]
    BY Zenon
  <2> HIDE DEF u, k
  <2>3. x \in Token /\ x.code = tok[t].code /\ x.done = done /\ x.used = u
    BY <1>2, <2>1, <2>2 DEF Token
  <2> QED
    BY <2>3 DEF u
<1> HIDE DEF x
<1>4. /\ tok' \in Seq(Token) /\ \A s \in DOMAIN tok' : TokenOK(s)'
      /\ \A q \in Requests : <<"token", t>> \notin held[q] => SparesTokens(q)
  <2>1. x.done <= 1 /\ (x.done = 1 => x.used)
    BY <1>3
  <2> QED
    BY <1>1, <1>2, <1>3, <2>1, TokenWritten
<1>5. ASSUME NEW q \in Requests \ {r} PROVE <<"token", t>> \notin held[q]
  BY <1>2 DEF SignInInv, Apart
<1> QED
  BY <1>4, <1>5

\* One that leaves the device codes alone.
LEMMA SettleKeeps ==
  ASSUME SignInInv, NEW r \in Requests, tx[r].pc \in Judging, NEW made \in BOOLEAN,
         NEW done \in {0, 1}, Settle(r, made, done), dev' = dev
  PROVE  SignInInv'
<1>1. End(r) /\ UNCHANGED <<open, fault>>
  BY DEF Settle
<1>2. acct' \in [Emails -> Account]
  BY AccountsStay
<1>3. Data'
  BY <1>1, <1>2, Settled DEF SignInInv, Data, CodeOK
<1>4. \A q \in Requests \ {r} : Spares(q)
  BY Settled DEF Spares, SparesTokens
<1> QED
  BY <1>1, <1>3, <1>4, EndKeeps

LEMMA BurnKeeps ==
  ASSUME SignInInv, NEW r \in Requests, tx[r].pc \in Judging, Burn(r)
  PROVE  SignInInv'
BY SettleKeeps DEF Burn

LEMMA FinishKeeps ==
  ASSUME SignInInv, NEW r \in Requests, FinishLogin(r) \/ FinishSignup(r)
  PROVE  SignInInv'
<1>1. tx[r].pc \in Judging /\ Settle(r, TRUE, 1) /\ dev' = dev
  BY DEF FinishLogin, FinishSignup, At, Judging
<1> QED
  BY <1>1, SettleKeeps

LEMMA AuthorizeKeeps ==
  ASSUME SignInInv, NEW r \in Requests, AuthorizeDevice(r)
  PROVE  SignInInv'
<1> DEFINE c == tok[tx[r].tok].code
           d == [dev[c] EXCEPT !.status = "authorized", !.owner = tx[r].mail]
<1>1. At(r, "authorize") /\ tx[r].pc = "authorize" /\ tx[r].pc \in Judging
  BY DEF AuthorizeDevice, At, Judging
<1>2. c \in Codes /\ tx[r].mail \in Emails
  BY <1>1, Entering, AtJudging DEF Relies
<1>3. CASE ~Usable(c)
  <2>1. Settle(r, TRUE, 0) /\ dev' = dev
    BY <1>3 DEF AuthorizeDevice
  <2> QED
    BY <1>1, <2>1, SettleKeeps
<1>4. CASE Usable(c)
  <2>1. Settle(r, TRUE, 1)
    BY <1>4 DEF AuthorizeDevice
  <2>2. dev' = [dev EXCEPT ![c] = d]
    BY <1>4, Zenon DEF AuthorizeDevice
  <2>3. End(r) /\ UNCHANGED <<open, fault>>
    BY <2>1 DEF Settle
  <2>4. dev[c] \in Device /\ dev[c].status = "pending" /\ CodeOK(c)
    BY <1>2, <1>4 DEF Usable, SignInInv, Data
  <2>5. d \in Device /\ d.status = "authorized" /\ d.owner # NoOne /\ d.keys = 0
    BY <1>2, <2>4, SignInAssumption DEF Device, CodeOK
  <2> HIDE DEF d
  <2>6. dev' \in [Codes -> Device] /\ dev'[c] = d /\ \A b \in Codes \ {c} : dev'[b] = dev[b]
    BY <1>2, <2>2, <2>5, Entering
  <2>7. ASSUME NEW b \in Codes PROVE CodeOK(b)'
    BY <2>5, <2>6 DEF SignInInv, Data, CodeOK
  <2>8. acct' \in [Emails -> Account]
    BY <1>1, <2>1, AccountsStay
  <2>9. Data'
    BY <1>1, <2>1, <2>3, <2>6, <2>7, <2>8, Settled DEF SignInInv, Data
  <2>10. ASSUME NEW q \in Requests \ {r} PROVE Spares(q)
    <3>1. Need(r) = {<<"code", c>>}
      BY <1>1 DEF Need
    <3>2. <<"code", c>> \notin held[q]
      BY <1>1, <3>1 DEF At, Blocks
    <3>3. SparesTokens(q)
      BY <1>1, <2>1, Settled
    <3> QED
      BY <2>6, <3>2, <3>3 DEF Spares, SparesTokens
  <2> QED
    BY <2>3, <2>9, <2>10, EndKeeps
<1> QED
  BY <1>3, <1>4

-----------------------------------------------------------------------------
(* The mail *)

LEMMA InsertKeeps ==
  ASSUME SignInInv, NEW r \in Requests, InsertToken(r)
  PROVE  SignInInv'
<1> DEFINE x == tx[r]
           prior == [t \in DOMAIN tok |->
                       IF <<"token", t>> \in held[r] THEN [tok[t] EXCEPT !.used = TRUE]
                                                     ELSE tok[t]]
           clash == \E t \in DOMAIN tok : ~prior[t].used /\ SameEntry(prior[t], x)
           new   == NewToken(x)
<1>1. x.pc = "insert" /\ End(r) /\ UNCHANGED <<acct, dev, open>>
  BY DEF InsertToken, At
<1>2. tok' = Append(prior, new) \/ tok' = prior \/ tok' = tok
  BY Zenon DEF InsertToken
<1>3. fault' \subseteq {"suppressed", "error"}
  <2>1. \/ fault' = fault \/ fault' = fault \cup {"suppressed"}
        \/ fault' = fault \cup {"error"}
    BY DEF InsertToken
  <2> QED
    BY <2>1 DEF SignInInv, Data
<1>4. tok \in Seq(Token) /\ \A t \in DOMAIN tok : tok[t] \in Token /\ TokenOK(t)
  BY DEF SignInInv, Data
<1>5. ASSUME NEW t \in DOMAIN tok
      PROVE  /\ prior[t] \in Token /\ prior[t].code = tok[t].code
             /\ prior[t].done = tok[t].done /\ prior[t].done <= 1
             /\ prior[t].done = 1 => prior[t].used
             /\ <<"token", t>> \notin held[r] => prior[t] = tok[t]
  <2> DEFINE u == TRUE
             y == [tok[t] EXCEPT !.used = u]
  <2>1. prior[t] = IF <<"token", t>> \in held[r] THEN y ELSE tok[t]
    BY Zenon
  <2>2. u \in BOOLEAN
    OBVIOUS
  <2> HIDE DEF u, prior
  <2>3. y \in Token /\ y.code = tok[t].code /\ y.done = tok[t].done /\ y.used = u
    BY <1>4, <2>2 DEF Token
  <2>4. y.used
    BY <2>3 DEF u
  <2> HIDE DEF y
  <2> QED
    BY <1>4, <2>1, <2>3, <2>4 DEF TokenOK
<1>6. new \in Token /\ new.done = 0
  <2>1. x \in Tx /\ x.kind \in Kinds /\ x.mail \in Emails
    BY <1>1, Entering DEF Relies, Mailing
  <2>2. x.code \in Codes \cup {NoOne} /\ x.fake \in BOOLEAN
    BY <2>1 DEF Tx
  <2>3. FALSE \in BOOLEAN /\ TRUE \in BOOLEAN /\ 0 \in Nat
    OBVIOUS
  <2> QED
    BY <2>1, <2>2, <2>3 DEF NewToken, Token
<1>7. prior \in Seq(Token) /\ Len(prior) = Len(tok) /\ DOMAIN prior = DOMAIN tok
  <2>1. DOMAIN prior = 1..Len(tok) /\ Len(tok) \in Nat
    BY <1>4
  <2>2. DOMAIN tok = 1..Len(tok)
    BY <1>4
  <2>3. prior = [t \in 1..Len(tok) |-> prior[t]]
    BY <2>1
  <2> HIDE DEF prior
  <2>4. \A t \in 1..Len(tok) : prior[t] \in Token
    BY <1>5, <2>2
  <2> QED
    BY <2>1, <2>2, <2>3, <2>4
<1> HIDE DEF new, prior
<1>8. /\ tok' \in Seq(Token) /\ Len(tok) <= Len(tok')
      /\ \A t \in DOMAIN tok : tok'[t] = prior[t] \/ tok'[t] = tok[t]
      /\ \A t \in DOMAIN tok' \ DOMAIN tok : tok'[t] = new
  BY <1>2, <1>4, <1>6, <1>7
<1>9. \A t \in DOMAIN tok' : TokenOK(t)'
  <2> TAKE t \in DOMAIN tok'
  <2>1. CASE t \in DOMAIN tok
    BY <1>4, <1>5, <1>8, <2>1 DEF TokenOK
  <2>2. CASE t \notin DOMAIN tok
    BY <1>6, <1>8, <2>2 DEF TokenOK
  <2> QED
    BY <2>1, <2>2
<1>10. Data'
  BY <1>1, <1>3, <1>8, <1>9 DEF SignInInv, Data, CodeOK
<1>11. ASSUME NEW q \in Requests \ {r} PROVE Spares(q)
  <2>1. \A t \in DOMAIN tok :
          /\ tok'[t].code = tok[t].code
          /\ <<"token", t>> \in held[q] => tok'[t] = tok[t]
    <3> TAKE t \in DOMAIN tok
    <3>1. <<"token", t>> \in held[q] => <<"token", t>> \notin held[r]
      BY DEF SignInInv, Apart
    <3> QED
      BY <1>5, <1>8, <3>1
  <2> QED
    BY <1>1, <1>8, <2>1, Zenon DEF Spares
<1> QED
  BY <1>1, <1>10, <1>11, EndKeeps

-----------------------------------------------------------------------------
(* The poll *)

\* A code's row is written under its lock.
LEMMA CodeWritten ==
  ASSUME SignInInv, NEW r \in Requests, End(r), NEW c \in Codes, <<"code", c>> \in held[r],
         NEW d \in Device, dev' = [dev EXCEPT ![c] = d],
         d.status \notin {"unknown", "pending", "authorized"}, d.keys <= 1,
         d.keys = 1 => d.owner # NoOne, UNCHANGED <<acct, tok, open, fault>>
  PROVE  SignInInv'
<1>1. dev' \in [Codes -> Device] /\ dev'[c] = d /\ \A b \in Codes \ {c} : dev'[b] = dev[b]
  BY Entering
<1>2. \A b \in Codes : CodeOK(b)'
  BY <1>1 DEF SignInInv, Data, CodeOK
<1>3. Data'
  BY <1>1, <1>2 DEF SignInInv, Data, TokenOK
<1>4. ASSUME NEW q \in Requests \ {r} PROVE Spares(q)
  <2>1. <<"code", c>> \notin held[q]
    BY DEF SignInInv, Apart
  <2> QED
    BY <1>1, <2>1, Entering DEF Spares
<1> QED
  BY <1>3, <1>4, EndKeeps

LEMMA IssueKeeps ==
  ASSUME SignInInv, NEW r \in Requests, IssueKey(r)
  PROVE  SignInInv'
<1> DEFINE c == tx[r].code
           d == [dev[c] EXCEPT !.status = "completed", !.keys = 1]
<1>1. /\ tx[r].pc = "issue" /\ End(r) /\ UNCHANGED <<acct, tok, open, fault>>
      /\ dev' = [dev EXCEPT ![c].status = "completed", ![c].keys = dev[c].keys + 1]
  BY DEF IssueKey, At
<1>2. c \in Codes /\ <<"code", c>> \in held[r] /\ dev[c].status = "authorized"
  BY <1>1, Entering DEF Relies, Polling
<1>3. dev[c] \in Device /\ dev[c].keys = 0 /\ dev[c].owner # NoOne
  BY <1>2 DEF SignInInv, Data, CodeOK
<1>4. d \in Device /\ d.status = "completed" /\ d.keys = 1 /\ d.owner # NoOne
  BY <1>3 DEF Device
<1>5. dev' = [dev EXCEPT ![c] = d]
  <2>1. dev[c].keys + 1 = 1
    BY <1>3
  <2> QED
    BY <1>1, <1>2, <2>1, Entering, Zenon
<1> HIDE DEF d
<1>6. d.status \notin {"unknown", "pending", "authorized"} /\ d.keys <= 1
  BY <1>4
<1> QED
  BY <1>1, <1>2, <1>4, <1>5, <1>6, CodeWritten

LEMMA AnswerKeeps ==
  ASSUME SignInInv, NEW r \in Requests, AnswerPoll(r)
  PROVE  SignInInv'
<1> DEFINE c == tx[r].code
           d == dev[c]
           a == acct[d.owner]
           to == IF ~d.live THEN IF d.status = "completed" THEN d.status ELSE "expired"
                 ELSE IF d.status # "authorized" \/ a.member = "closing" THEN d.status
                 ELSE IF a.member = "out" \/ a.status = "disabled" \/ ~a.verified
                   THEN "denied" ELSE "key"
           e == [d EXCEPT !.status = to]
<1>1. At(r, "answer") /\ tx[r].pc = "answer"
  BY DEF AnswerPoll, At
<1>2. c \in Codes /\ <<"code", c>> \in held[r]
  BY <1>1, Entering DEF Relies, Polling
<1>3. d \in Device /\ CodeOK(c)
  BY <1>2 DEF SignInInv, Data
<1>4. CASE to = "key"
  <2>1. d.status = "authorized"
    BY <1>3, <1>4 DEF Device
  <2>2. Go(r, "issue") /\ Keep
    BY <1>4 DEF AnswerPoll
  <2>3. Relies([tx[r] EXCEPT !.pc = "issue"], held[r] \cup Need(r))
    BY <1>2, <2>1, Entering, GoRelies DEF Mailing, Judging, Polling
  <2> QED
    BY <1>1, <2>2, <2>3, TakeKeeps DEF Go
<1>5. CASE to # "key"
  <2>1. End(r) /\ UNCHANGED <<acct, tok, open, fault>> /\ dev' = [dev EXCEPT ![c].status = to]
    BY <1>5 DEF AnswerPoll
  <2>2. dev' = [dev EXCEPT ![c] = e]
    BY <2>1, Zenon
  <2>3. to = d.status \/ to \in {"expired", "denied"}
    BY <1>5
  <2> HIDE DEF to
  <2>4. CASE to = d.status
    <3>1. e = d
      BY <1>3, <2>4 DEF Device
    <3>2. dev' = dev
      BY <1>2, <2>2, <3>1, Entering
    <3>3. Keep
      BY <1>5, <3>2, Zenon DEF AnswerPoll, Keep
    <3> QED
      BY <2>1, <3>3, EndOnly
  <2>5. CASE to \in {"expired", "denied"}
    <3>1. e \in Device /\ e.status = to /\ e.keys = d.keys /\ e.owner = d.owner
      BY <1>3, <2>5 DEF Device
    <3> HIDE DEF e
    <3>2. /\ e.status \notin {"unknown", "pending", "authorized"} /\ e.keys <= 1
          /\ e.keys = 1 => e.owner # NoOne
      BY <1>3, <2>5, <3>1 DEF CodeOK
    <3>3. UNCHANGED <<acct, tok, open, fault>> /\ End(r)
      BY <2>1
    <3> HIDE DEF c
    <3> QED
      BY <1>2, <2>2, <3>1, <3>2, <3>3, CodeWritten
  <2> QED
    BY <2>3, <2>4, <2>5
<1> QED
  BY <1>4, <1>5

-----------------------------------------------------------------------------
(* Requests that begin, and what happens outside of them *)

LEMMA Begins ==
  ASSUME SignInInv, NEW r \in Requests, NEW x, Begin(r, x), x \in Tx,
         x.pc \in {"lockCode", "lockMail", "lockRow", "lockToken"}, x.tok \in 0..Len(tok),
         x.pc \in {"lockCode", "lockRow"} => x.code \in Codes,
         x.pc # "lockRow" => x.mail \in Emails,
         x.pc = "lockMail" => x.kind = NoOne,
         x.pc = "lockToken" => x.tok \in DOMAIN tok
  PROVE  SignInInv'
<1>1. Relies(x, held[r])
  BY DEF Relies, Mailing, Judging, Polling
<1> QED
  BY <1>1, BeginKeeps

LEMMA BeginsKeep ==
  ASSUME SignInInv, NEW r \in Requests,
         \/ \E c \in Codes : Poll(r, c) \/ \E e \in Emails : EmailInit(r, c, e)
         \/ \E e \in Emails : WebInit(r, e)
         \/ \E t \in DOMAIN tok, way \in Ways : UseToken(r, t, way)
  PROVE  SignInInv'
<1>1. 0 \in 0..Len(tok) /\ Len(tok) \in Nat
  BY Entering
<1>2. ASSUME NEW c \in Codes, Poll(r, c)
      PROVE  SignInInv'
  <2> DEFINE x == [Idle EXCEPT !.pc = "lockRow", !.code = c]
  <2>1. x \in Tx /\ x.pc = "lockRow" /\ x.code = c /\ x.tok = 0
    BY DEF Idle, Tx, Polling
  <2>2. Begin(r, x)
    BY <1>2 DEF Poll
  <2> HIDE DEF x
  <2> QED
    BY <1>1, <2>1, <2>2, Begins
<1>3. ASSUME NEW c \in Codes, NEW e \in Emails, EmailInit(r, c, e)
      PROVE  SignInInv'
  <2> DEFINE x == [Idle EXCEPT !.pc = "lockCode", !.code = c, !.mail = e]
  <2>1. x \in Tx /\ x.pc = "lockCode" /\ x.code = c /\ x.tok = 0 /\ x.mail = e
    BY DEF Idle, Tx, Mailing
  <2>2. Begin(r, x)
    BY <1>3 DEF EmailInit
  <2> HIDE DEF x
  <2> QED
    BY <1>1, <2>1, <2>2, Begins
<1>4. ASSUME NEW e \in Emails, WebInit(r, e)
      PROVE  SignInInv'
  <2> DEFINE x == [Idle EXCEPT !.pc = "lockMail", !.mail = e]
  <2>1. x \in Tx /\ x.pc = "lockMail" /\ x.tok = 0 /\ x.mail = e /\ x.kind = NoOne
    BY DEF Idle, Tx, Mailing
  <2>2. Begin(r, x)
    BY <1>4 DEF WebInit
  <2> HIDE DEF x
  <2> QED
    BY <1>1, <2>1, <2>2, Begins
<1>5. ASSUME NEW t \in DOMAIN tok, NEW way \in Ways, UseToken(r, t, way)
      PROVE  SignInInv'
  <2> DEFINE x == [Idle EXCEPT !.pc = "lockToken", !.tok = t, !.mail = tok[t].mail,
                               !.kind = way]
  <2>1. tok[t].mail \in Emails /\ t \in 0..Len(tok) /\ t \in Nat
    <3>1. tok[t] \in Token
      BY Entering
    <3> QED
      BY <3>1, Entering DEF Token
  <2>2. x \in Tx /\ x.pc = "lockToken" /\ x.tok = t /\ x.mail = tok[t].mail
    BY <2>1 DEF Idle, Tx
  <2>3. Begin(r, x)
    BY <1>5 DEF UseToken
  <2> HIDE DEF x
  <2> QED
    BY <1>1, <2>1, <2>2, <2>3, Begins
<1> QED
  BY <1>2, <1>3, <1>4, <1>5

\* A device code is made, or expires.
LEMMA CodesKeep ==
  ASSUME SignInInv, NEW c \in Codes, RequestDeviceCode(c) \/ ExpireCode(c)
  PROVE  SignInInv'
<1>1. UNCHANGED <<acct, tok, open, tx, held, fault>>
  BY DEF RequestDeviceCode, ExpireCode
<1>2. dev[c] \in Device /\ CodeOK(c) /\ dev \in [Codes -> Device]
  BY DEF SignInInv, Data
<1>3. PICK d \in Device : /\ dev' = [dev EXCEPT ![c] = d]
                          /\ d.keys = dev[c].keys /\ d.owner = dev[c].owner
                          /\ \/ d.status = dev[c].status
                             \/ dev[c].status = "unknown" /\ d.status = "pending"
  <2>1. CASE RequestDeviceCode(c)
    <3> DEFINE d == [dev[c] EXCEPT !.status = "pending"]
    <3>1. d \in Device /\ d.keys = dev[c].keys /\ d.owner = dev[c].owner /\ d.status = "pending"
      BY <1>2 DEF Device
    <3>2. dev' = [dev EXCEPT ![c] = d] /\ dev[c].status = "unknown"
      BY <2>1, Zenon DEF RequestDeviceCode
    <3> QED
      BY <3>1, <3>2
  <2>2. CASE ExpireCode(c)
    <3> DEFINE no == FALSE
               d  == [dev[c] EXCEPT !.live = no]
    <3>1. no \in BOOLEAN
      OBVIOUS
    <3>2. dev' = [dev EXCEPT ![c] = d]
      BY <2>2, Zenon DEF ExpireCode
    <3> HIDE DEF no
    <3>3. d \in Device /\ d.keys = dev[c].keys /\ d.owner = dev[c].owner
          /\ d.status = dev[c].status
      BY <1>2, <3>1 DEF Device
    <3> QED
      BY <3>2, <3>3
  <2> QED
    BY <2>1, <2>2
<1>4. dev' \in [Codes -> Device] /\ dev'[c] = d /\ \A b \in Codes \ {c} : dev'[b] = dev[b]
  BY <1>2, <1>3
<1>5. \A b \in Codes : CodeOK(b)'
  BY <1>2, <1>3, <1>4 DEF SignInInv, Data, CodeOK
<1>6. Data'
  BY <1>1, <1>4, <1>5 DEF SignInInv, Data, TokenOK
<1>7. ASSUME NEW q \in Requests PROVE Relies(tx[q], held[q])'
  <2>1. Relies(tx[q], held[q])
    BY DEF SignInInv
  <2>2. tx[q].pc = "issue" => dev'[tx[q].code].status = "authorized"
    BY <1>3, <1>4, <2>1 DEF Relies, Polling
  <2> QED
    BY <1>1, <2>1, <2>2 DEF Relies
<1> QED
  BY <1>1, <1>6, <1>7 DEF SignInInv, Shape, Apart

LEMMA AgeKeeps ==
  ASSUME SignInInv, NEW t \in DOMAIN tok, AgeToken(t)
  PROVE  SignInInv'
<1> DEFINE no == FALSE
           y == [tok[t] EXCEPT !.fresh = no]
           z == [tok[t] EXCEPT !.live = no]
<1>1. tok' = [tok EXCEPT ![t] = y] \/ tok' = [tok EXCEPT ![t] = z]
  <2>1. CASE tok[t].fresh /\ tok[t].code = NoOne
    BY <2>1, Zenon DEF AgeToken
  <2>2. CASE ~(tok[t].fresh /\ tok[t].code = NoOne)
    BY <2>2, Zenon DEF AgeToken
  <2> QED
    BY <2>1, <2>2
<1>2. UNCHANGED <<acct, dev, open, tx, held, fault>>
  BY DEF AgeToken
<1>3. tok[t] \in Token /\ TokenOK(t) /\ no \in BOOLEAN
  BY DEF SignInInv, Data
<1> HIDE DEF no
<1>4. /\ y \in Token /\ y.code = tok[t].code /\ y.done = tok[t].done /\ y.used = tok[t].used
      /\ z \in Token /\ z.code = tok[t].code /\ z.done = tok[t].done /\ z.used = tok[t].used
  BY <1>3 DEF Token
<1>5. PICK x \in {y, z} : tok' = [tok EXCEPT ![t] = x]
  BY <1>1
<1> HIDE DEF y, z
<1>6. x \in Token /\ x.code = tok[t].code /\ x.done = tok[t].done /\ x.used = tok[t].used
  BY <1>4, <1>5
<1>7. x.done <= 1 /\ (x.done = 1 => x.used)
  BY <1>3, <1>6 DEF TokenOK
<1>8. /\ tok' \in Seq(Token) /\ \A s \in DOMAIN tok' : TokenOK(s)'
      /\ \A q \in Requests : SparesTokens(q)
  BY <1>5, <1>6, <1>7, TokenWritten
<1>9. Data'
  BY <1>2, <1>8 DEF SignInInv, Data, CodeOK
<1>10. \A q \in Requests : Spares(q)
  BY <1>2, <1>8 DEF Spares, SparesTokens
<1> QED
  BY <1>2, <1>9, <1>10, OutsideKeeps

LEMMA AdminsKeep ==
  ASSUME SignInInv, CloseRegistration \/ \E e \in Emails : Administer(e)
  PROVE  SignInInv'
<1>1. UNCHANGED <<dev, tok, tx, held, fault>> /\ open' \in BOOLEAN
  BY DEF CloseRegistration, Administer, SignInInv, Data
<1>2. acct' \in [Emails -> Account]
  <2>1. acct \in [Emails -> Account]
    BY DEF SignInInv, Data
  <2>2. ASSUME NEW e \in Emails, Administer(e)
        PROVE  acct' \in [Emails -> Account]
    <3>1. acct[e] \in Account
      BY <2>1
    <3>2. [acct[e] EXCEPT !.status = "disabled"] \in Account
      BY <3>1 DEF Account
    <3>3. \A m \in {"closing", "out"} : [acct[e] EXCEPT !.member = m] \in Account
      BY <3>1 DEF Account
    <3>4. \/ acct' = [acct EXCEPT ![e] = [acct[e] EXCEPT !.status = "disabled"]]
          \/ \E m \in {"closing", "out"} : acct' = [acct EXCEPT ![e] = [acct[e] EXCEPT !.member = m]]
      BY <2>2, Zenon DEF Administer
    <3> QED
      BY <2>1, <3>2, <3>3, <3>4
  <2> QED
    BY <2>1, <2>2 DEF CloseRegistration
<1>3. Data'
  BY <1>1, <1>2 DEF SignInInv, Data, CodeOK, TokenOK
<1>4. \A q \in Requests : Spares(q)
  <2>1. tok \in Seq(Token) /\ Len(tok) \in Nat
    BY DEF SignInInv, Data
  <2> QED
    BY <1>1, <2>1 DEF Spares
<1> QED
  BY <1>1, <1>3, <1>4, OutsideKeeps

-----------------------------------------------------------------------------
(* The theorems *)

LEMMA StepKeeps ==
  ASSUME SignInInv, NEW r \in Requests, Step(r)
  PROVE  SignInInv'
<1>1. CASE LockDeviceForSend(r) \/ BranchDevice(r) \/ BranchWeb(r) \/ LockMail(r)
           \/ Replace(r) \/ InsertToken(r)
  BY <1>1, LockDeviceForSendKeeps, BranchKeeps, LockMailKeeps, ReplaceKeeps, InsertKeeps
<1>2. CASE LockToken(r) \/ CountWrongOtp(r) \/ FinishLogin(r) \/ FinishSignup(r)
           \/ AuthorizeDevice(r)
  BY <1>2, LockTokenKeeps, WrongOtpKeeps, FinishKeeps, AuthorizeKeeps
<1>3. CASE ResolveAccount(r) \/ CreateAccount(r)
  <2>1. tx[r].pc \in Judging
    BY <1>3 DEF ResolveAccount, CreateAccount, At, Judging
  <2> QED
    BY <1>3, <2>1, BurnKeeps, ResolveKeeps, CreateKeeps
<1>4. CASE LockRow(r) \/ AnswerPoll(r) \/ IssueKey(r)
  BY <1>4, LockRowKeeps, AnswerKeeps, IssueKeeps
<1>5. CASE OtherAccount(r) \/ AbortDeadlock(r)
  BY <1>5, EndsKeep
<1> QED
  BY <1>1, <1>2, <1>3, <1>4, <1>5 DEF Step

LEMMA InvNext ==
  ASSUME SignInInv, [Next]_vars
  PROVE  SignInInv'
<1>1. CASE UNCHANGED vars
  <2>1. Keep /\ tx' = tx /\ held' = held
    BY <1>1 DEF vars, Keep
  <2>2. Data' /\ \A q \in Requests : Spares(q)
    BY <2>1, KeepSpares
  <2> QED
    BY <2>1, <2>2, OutsideKeeps
<1>2. CASE Next
  <2>1. CASE \E c \in Codes : RequestDeviceCode(c) \/ ExpireCode(c)
    BY <2>1, CodesKeep
  <2>2. CASE \/ \E r \in Requests, c \in Codes : Poll(r, c) \/ \E e \in Emails : EmailInit(r, c, e)
             \/ \E r \in Requests, e \in Emails : WebInit(r, e)
             \/ \E r \in Requests, t \in DOMAIN tok, way \in Ways : UseToken(r, t, way)
    BY <2>2, BeginsKeep
  <2>3. CASE \E r \in Requests : Step(r) \/ SlowDown(r) \/ Crash(r)
    BY <2>3, StepKeeps, EndsKeep
  <2>4. CASE \E t \in DOMAIN tok : AgeToken(t)
    BY <2>4, AgeKeeps
  <2>5. CASE CloseRegistration \/ \E e \in Emails : Administer(e)
    BY <2>5, AdminsKeep
  <2> QED
    BY <1>2, <2>1, <2>2, <2>3, <2>4, <2>5, Zenon DEF Next
<1> QED
  BY <1>1, <1>2

LEMMA InvInit == Init => SignInInv
<1> SUFFICES ASSUME Init PROVE SignInInv
  OBVIOUS
<1>1. /\ dev = [c \in Codes |-> [status |-> "unknown", live |-> TRUE,
                                 owner |-> NoOne, keys |-> 0]]
      /\ tok = <<>> /\ open = TRUE /\ fault = {}
      /\ tx = [r \in Requests |-> Idle] /\ held = [r \in Requests |-> {}]
  BY DEF Init
<1>2. acct \in [Emails -> Account]
  BY DEF Init
<1>3. /\ dev \in [Codes -> Device] /\ \A c \in Codes : CodeOK(c)
      /\ tok \in Seq(Token) /\ DOMAIN tok = {} /\ Len(tok) = 0
  BY <1>1 DEF Device, CodeOK
<1>4. Data
  BY <1>1, <1>2, <1>3 DEF Data
<1>5. Shape /\ Apart
  BY <1>1 DEF Shape, Apart
<1>6. Idle \in Tx
  BY DEF Idle, Tx, Mailing, Judging, Polling
<1>7. ASSUME NEW r \in Requests PROVE Relies(tx[r], held[r])
  BY <1>1, <1>3, <1>6 DEF Relies, Idle, Mailing, Judging, Polling
<1> QED
  BY <1>4, <1>5, <1>7 DEF SignInInv

LEMMA InvHolds == Spec => []SignInInv
BY InvInit, InvNext, PTL DEF Spec

\* Accounts, codes, tokens and requests keep their form, for any number of
\* addresses, codes and requests, and any caps.
THEOREM SignInType == Spec => []TypeOK
<1>1. SignInInv => TypeOK
  BY DEF SignInInv, Data, Relies, TypeOK
<1> QED
  BY <1>1, InvHolds, PTL

\* Whatever polls, mails and crashes come together, a device code is exchanged
\* for one key at most (services/device_email_flow.py, routers/device_auth.py).
THEOREM OneKey == Spec => []OneKeyPerCode
<1>1. SignInInv => OneKeyPerCode
  BY DEF SignInInv, Data, CodeOK, OneKeyPerCode
<1> QED
  BY <1>1, InvHolds, PTL

\* A mail signs somebody in once, by its link or by its password.
THEOREM SpentOnce == Spec => []TokenSpentOnce
<1>1. SignInInv => TokenSpentOnce
  BY DEF SignInInv, Data, TokenOK, TokenSpentOnce
<1> QED
  BY <1>1, InvHolds, PTL

-----------------------------------------------------------------------------
(* Owners *)

KeepsOwner(c) ==
  /\ dev[c].owner # NoOne => dev'[c].owner = dev[c].owner
  /\ dev[c].status \in {"completed", "denied", "expired"} =>
       dev'[c].status \notin {"pending", "authorized"}

LEMMA OwnerNext ==
  ASSUME SignInInv, [Next]_vars
  PROVE  \A c \in Codes : KeepsOwner(c)
<1>1. ASSUME dev' = dev PROVE \A c \in Codes : KeepsOwner(c)
  BY <1>1 DEF KeepsOwner
<1>2. ASSUME NEW c \in Codes, RequestDeviceCode(c) \/ ExpireCode(c)
      PROVE  \A b \in Codes : KeepsOwner(b)
  <2>1. dev \in [Codes -> Device] /\ dev[c] \in Device
    BY DEF SignInInv, Data
  <2>2. /\ \A b \in Codes \ {c} : dev'[b] = dev[b]
        /\ dev'[c].owner = dev[c].owner
        /\ \/ dev'[c].status = dev[c].status
           \/ dev[c].status = "unknown" /\ dev'[c].status = "pending"
    BY <1>2, <2>1 DEF RequestDeviceCode, ExpireCode, Device
  <2> QED
    BY <2>2 DEF KeepsOwner
<1>3. ASSUME NEW r \in Requests, AuthorizeDevice(r)
      PROVE  \A b \in Codes : KeepsOwner(b)
  <2> DEFINE c == tok[tx[r].tok].code
  <2>1. tx[r].pc = "authorize" /\ c \in Codes
    BY <1>3, Entering DEF AuthorizeDevice, At, Relies
  <2>2. dev \in [Codes -> Device] /\ dev[c] \in Device /\ CodeOK(c)
    BY <2>1 DEF SignInInv, Data
  <2>3. CASE Usable(c)
    <3>1. /\ dev' = [dev EXCEPT ![c].status = "authorized", ![c].owner = tx[r].mail]
          /\ dev[c].status = "pending" /\ dev[c].owner = NoOne
      BY <1>3, <2>2, <2>3 DEF AuthorizeDevice, Usable, CodeOK
    <3> HIDE DEF c
    <3> QED
      BY <2>1, <2>2, <3>1 DEF KeepsOwner, Device
  <2>4. CASE ~Usable(c)
    BY <1>1, <1>3, <2>4 DEF AuthorizeDevice
  <2> QED
    BY <2>3, <2>4
<1>4. ASSUME NEW r \in Requests, NEW s, dev' = [dev EXCEPT ![tx[r].code].status = s],
             tx[r].pc = "answer",
             dev[tx[r].code].status \in {"completed", "denied", "expired"} =>
               s \notin {"pending", "authorized"}
      PROVE  \A b \in Codes : KeepsOwner(b)
  <2>1. tx[r].code \in Codes
    BY <1>4, Entering DEF Relies, Polling
  <2>2. dev \in [Codes -> Device] /\ dev[tx[r].code] \in Device
    BY <2>1 DEF SignInInv, Data
  <2> QED
    BY <1>4, <2>1, <2>2 DEF KeepsOwner, Device
<1>5. ASSUME NEW r \in Requests, AnswerPoll(r)
      PROVE  \A b \in Codes : KeepsOwner(b)
  <2> DEFINE d == dev[tx[r].code]
             a == acct[d.owner]
             to == IF ~d.live THEN IF d.status = "completed" THEN d.status ELSE "expired"
                   ELSE IF d.status # "authorized" \/ a.member = "closing" THEN d.status
                   ELSE IF a.member = "out" \/ a.status = "disabled" \/ ~a.verified
                     THEN "denied" ELSE "key"
  <2>1. tx[r].pc = "answer"
    BY <1>5 DEF AnswerPoll, At
  <2>2. CASE to = "key"
    BY <1>1, <1>5, <2>2 DEF AnswerPoll, Keep
  <2>3. CASE to # "key"
    <3>1. dev' = [dev EXCEPT ![tx[r].code].status = to]
      BY <1>5, <2>3 DEF AnswerPoll
    <3>2. d.status \in {"completed", "denied", "expired"} => to \notin {"pending", "authorized"}
      BY <2>3
    <3> HIDE DEF to
    <3> QED
      BY <1>4, <2>1, <3>1, <3>2
  <2> QED
    BY <2>2, <2>3
<1>6. ASSUME NEW r \in Requests, IssueKey(r)
      PROVE  \A b \in Codes : KeepsOwner(b)
  <2>1. tx[r].pc = "issue"
    BY <1>6 DEF IssueKey, At
  <2>2. tx[r].code \in Codes
    BY <2>1, Entering DEF Relies, Polling
  <2>3. dev \in [Codes -> Device] /\ dev[tx[r].code] \in Device
    BY <2>2 DEF SignInInv, Data
  <2> QED
    BY <1>6, <2>2, <2>3 DEF IssueKey, KeepsOwner, Device
<1>7. CASE UNCHANGED vars
  BY <1>1, <1>7 DEF vars
<1>8. CASE Next
  <2>1. ASSUME NEW r \in Requests, Step(r) PROVE \A b \in Codes : KeepsOwner(b)
    <3>1. CASE LockDeviceForSend(r) \/ BranchDevice(r) \/ BranchWeb(r) \/ LockMail(r)
               \/ Replace(r) \/ InsertToken(r) \/ LockToken(r) \/ CountWrongOtp(r)
      BY <1>1, <3>1 DEF LockDeviceForSend, BranchDevice, BranchWeb, LockMail, Replace,
                        InsertToken, LockToken, CountWrongOtp, Keep
    <3>2. CASE \/ ResolveAccount(r) \/ OtherAccount(r) \/ CreateAccount(r) \/ FinishLogin(r)
               \/ FinishSignup(r) \/ LockRow(r) \/ AbortDeadlock(r)
      BY <1>1, <3>2 DEF ResolveAccount, OtherAccount, CreateAccount, FinishLogin, FinishSignup,
                        LockRow, AbortDeadlock, Burn, Keep
    <3> QED
      BY <1>3, <1>5, <1>6, <2>1, <3>1, <3>2 DEF Step
  <2>2. CASE \/ \E r \in Requests, c \in Codes : Poll(r, c) \/ \E e \in Emails : EmailInit(r, c, e)
             \/ \E r \in Requests, e \in Emails : WebInit(r, e)
             \/ \E r \in Requests, t \in DOMAIN tok, way \in Ways : UseToken(r, t, way)
    BY <1>1, <2>2 DEF Poll, EmailInit, WebInit, UseToken, Begin
  <2>3. CASE \/ \E r \in Requests : SlowDown(r) \/ Crash(r)
             \/ \E t \in DOMAIN tok : AgeToken(t)
             \/ CloseRegistration \/ \E e \in Emails : Administer(e)
    BY <1>1, <2>3 DEF SlowDown, Crash, AgeToken, CloseRegistration, Administer, Keep
  <2> QED
    BY <1>2, <1>8, <2>1, <2>2, <2>3, Zenon DEF Next
<1> QED
  BY <1>7, <1>8

\* A device keeps the owner who authorized it, and a code that has ended stays
\* ended, whoever answers other mails of the same code.
THEOREM OwnerKept == Spec => OwnerIsKept
<1>1. SignInInv /\ [Next]_vars => [\A c \in Codes : KeepsOwner(c)]_vars
  BY OwnerNext
<1>2. [\A c \in Codes : KeepsOwner(c)]_vars =>
        [\A c \in Codes :
           /\ dev[c].owner # NoOne => dev'[c].owner = dev[c].owner
           /\ dev[c].status \in {"completed", "denied", "expired"} =>
                dev'[c].status \notin {"pending", "authorized"}]_vars
  BY DEF KeepsOwner
<1> QED
  BY <1>1, <1>2, InvHolds, PTL DEF Spec, OwnerIsKept

-----------------------------------------------------------------------------
(* The mails: how many there are, and which a request is about to send        *)

Web == {"webLogin", "webSignup"}
Sent(c) == Cardinality({t \in DOMAIN tok : tok[t].code = c})

\* What a request that is at x relies on when it is about to send a mail, or to
\* count a wrong password.
MailRelies(x, h) ==
  /\ x.pc \in {"branch", "lockMail", "replace", "insert"} =>
       (x.code # NoOne => <<"code", x.code>> \in h)
  /\ x.pc = "branch" /\ x.code = NoOne => <<"mail", x.mail>> \in h
  /\ x.pc = "lockMail" => IF x.code = NoOne THEN x.kind = NoOne ELSE x.kind = "deviceSignup"
  /\ x.pc \in {"lockMail", "replace", "insert"} => (x.code # NoOne => Sent(x.code) < SendCap)
  /\ x.pc \in {"replace", "insert"} =>
       /\ x.kind \in Web <=> x.code = NoOne
       /\ x.code = NoOne => ~WithinCooldown(x.mail)
       /\ x.kind # "deviceLogin" => <<"mail", x.mail>> \in h
  /\ x.pc = "insert" /\ x.kind \in Signups =>
       \A t \in DOMAIN tok :
         ~tok[t].used /\ tok[t].kind \in Signups /\ tok[t].mail = x.mail => <<"token", t>> \in h
  /\ x.pc = "judge" => x.bad = tok[x.tok].bad

MailInv ==
  /\ \A r \in Requests : MailRelies(tx[r], held[r])
  /\ GuessesBounded /\ SignupsNeverCollide

\* What becomes of the tokens that there are.
TokensAge ==
  /\ Len(tok) <= Len(tok')
  /\ \A t \in DOMAIN tok :
       /\ tok'[t].kind = tok[t].kind /\ tok'[t].mail = tok[t].mail /\ tok'[t].code = tok[t].code
       /\ tok[t].used => tok'[t].used
       /\ tok'[t].fresh => tok[t].fresh

\* What a step may do to the tokens on which request q relies.
SparesMail(q) ==
  /\ \A t \in DOMAIN tok : <<"token", t>> \in held[q] => tok'[t].bad = tok[t].bad
  /\ \A t \in DOMAIN tok' \ DOMAIN tok :
       /\ tok'[t].code # NoOne => <<"code", tok'[t].code>> \notin held[q]
       /\ tok'[t].kind # "deviceLogin" => <<"mail", tok'[t].mail>> \notin held[q]

\* There are finitely many mails.
LEMMA SentIs ==
  ASSUME tok \in Seq(Token), NEW c
  PROVE  IsFiniteSet({t \in DOMAIN tok : tok[t].code = c}) /\ Sent(c) \in Nat
<1>1. Len(tok) \in Nat /\ DOMAIN tok = 1..Len(tok)
  OBVIOUS
<1>2. IsFiniteSet(1..Len(tok))
  BY <1>1, FS_Interval
<1>3. IsFiniteSet({t \in DOMAIN tok : tok[t].code = c})
  BY <1>1, <1>2, FS_Subset
<1> QED
  BY <1>3, FS_CardinalityType DEF Sent

LEMMA StillMails ==
  ASSUME SignInInv, SignInInv', NEW q \in Requests, NEW x, NEW h, x = tx[q], h = held[q],
         MailRelies(x, h), TokensAge, SparesMail(q)
  PROVE  MailRelies(x, h)'
<1>1. tok \in Seq(Token) /\ tok' \in Seq(Token) /\ DOMAIN tok \subseteq DOMAIN tok'
  <2>1. tok \in Seq(Token) /\ tok' \in Seq(Token) /\ Len(tok) <= Len(tok')
    BY DEF SignInInv, Data, TokensAge
  <2> QED
    BY <2>1
<1>2. ASSUME x.pc \in {"lockMail", "replace", "insert"}, x.code # NoOne
      PROVE  Sent(x.code)' < SendCap
  <2>1. <<"code", x.code>> \in h /\ Sent(x.code) < SendCap
    BY <1>2 DEF MailRelies
  <2>2. {t \in DOMAIN tok' : tok'[t].code = x.code} = {t \in DOMAIN tok : tok[t].code = x.code}
    BY <1>1, <1>2, <2>1 DEF TokensAge, SparesMail
  <2>3. Sent(x.code)' = Cardinality({t \in DOMAIN tok' : tok'[t].code = x.code})
    BY DEF Sent
  <2> QED
    BY <2>1, <2>2, <2>3 DEF Sent
<1>3. ASSUME x.pc \in {"replace", "insert"}, x.code = NoOne
      PROVE  ~WithinCooldown(x.mail)'
  <2>1. x.kind \in Web /\ ~WithinCooldown(x.mail) /\ <<"mail", x.mail>> \in h
    BY <1>3 DEF MailRelies, Web
  <2> SUFFICES ASSUME NEW t \in DOMAIN tok', tok'[t].mail = x.mail, tok'[t].kind \in Web,
                      ~tok'[t].used, tok'[t].fresh
               PROVE  FALSE
    BY DEF WithinCooldown, Web
  <2>2. t \in DOMAIN tok
    BY <2>1 DEF SparesMail, Web
  <2> QED
    BY <2>1, <2>2 DEF TokensAge, WithinCooldown, Web
<1>4. ASSUME x.pc = "insert", x.kind \in Signups, NEW t \in DOMAIN tok',
             ~tok'[t].used, tok'[t].kind \in Signups, tok'[t].mail = x.mail
      PROVE  <<"token", t>> \in h
  <2>1. <<"mail", x.mail>> \in h
    BY <1>4 DEF MailRelies, Signups
  <2>2. t \in DOMAIN tok
    BY <1>4, <2>1 DEF SparesMail, Signups
  <2> QED
    BY <1>4, <2>2 DEF TokensAge, MailRelies
<1>5. x.pc = "judge" => x.bad = tok'[x.tok].bad
  <2>1. x.pc = "judge" => x.tok \in DOMAIN tok /\ <<"token", x.tok>> \in h
    BY Entering DEF Relies, Judging
  <2> QED
    BY <2>1 DEF MailRelies, SparesMail
<1>6. /\ x.pc \in {"branch", "lockMail", "replace", "insert"} =>
           (x.code # NoOne => <<"code", x.code>> \in h)
      /\ x.pc = "branch" /\ x.code = NoOne => <<"mail", x.mail>> \in h
      /\ x.pc = "lockMail" => IF x.code = NoOne THEN x.kind = NoOne ELSE x.kind = "deviceSignup"
      /\ x.pc \in {"replace", "insert"} =>
           /\ x.kind \in Web <=> x.code = NoOne
           /\ x.kind # "deviceLogin" => <<"mail", x.mail>> \in h
  BY Zenon DEF MailRelies
<1> QED
  BY <1>2, <1>3, <1>4, <1>5, <1>6 DEF MailRelies

LEMMA MailStill ==
  ASSUME SignInInv, SignInInv', NEW q \in Requests, MailRelies(tx[q], held[q]),
         TokensAge, SparesMail(q), tx'[q] = tx[q], held'[q] = held[q]
  PROVE  MailRelies(tx[q], held[q])'
<1>1. PICK x, h : x = tx[q] /\ h = held[q]
  OBVIOUS
<1>2. MailRelies(x, h)'
  BY <1>1, StillMails
<1> QED
  BY <1>1, <1>2 DEF MailRelies, Sent, WithinCooldown

\* Elsewhere there is nothing to rely on.
LEMMA NoMailYet ==
  ASSUME NEW x, NEW h, x.pc \notin {"branch", "lockMail", "replace", "insert", "judge"}
  PROVE  MailRelies(x, h)
BY DEF MailRelies

LEMMA NoTokens ==
  ASSUME SignInInv, MailInv, tok' = tok, fault' = fault
  PROVE  /\ TokensAge /\ GuessesBounded' /\ SignupsNeverCollide'
         /\ \A q : SparesMail(q)
         /\ \A x, h : MailRelies(x, h) => MailRelies(x, h)'
<1>1. Len(tok) \in Nat
  BY DEF SignInInv, Data
<1>2. GuessesBounded' /\ SignupsNeverCollide'
  BY DEF MailInv, GuessesBounded, SignupsNeverCollide
<1> QED
  BY <1>1, <1>2 DEF TokensAge, SparesMail, MailRelies, Sent, WithinCooldown

\* A request ends.
LEMMA MailEnds ==
  ASSUME SignInInv, MailInv, SignInInv', NEW r \in Requests, End(r), TokensAge,
         \A q \in Requests \ {r} : SparesMail(q), GuessesBounded', SignupsNeverCollide'
  PROVE  MailInv'
<1>1. tx'[r] = Idle /\ \A q \in Requests \ {r} : tx'[q] = tx[q] /\ held'[q] = held[q]
  BY DEF End, SignInInv, Shape
<1>2. MailRelies(tx[r], held[r])'
  BY <1>1 DEF MailRelies, Idle
<1>3. \A q \in Requests \ {r} : MailRelies(tx[q], held[q])'
  BY <1>1, MailStill DEF MailInv
<1> QED
  BY <1>2, <1>3 DEF MailInv

LEMMA MailEndsOnly ==
  ASSUME SignInInv, MailInv, SignInInv', NEW r \in Requests, End(r), Keep
  PROVE  MailInv'
BY NoTokens, MailEnds DEF Keep

\* A request goes on to x.
LEMMA MailGoes ==
  ASSUME SignInInv, MailInv, NEW r \in Requests, NEW x, Take(r, x), Keep,
         MailRelies(x, held[r] \cup Need(r))
  PROVE  MailInv'
<1>1. tx'[r] = x /\ held'[r] = held[r] \cup Need(r)
      /\ \A q \in Requests \ {r} : tx'[q] = tx[q] /\ held'[q] = held[q]
  BY DEF Take, SignInInv, Shape
<1>2. tok' = tok /\ fault' = fault
  BY DEF Keep
<1>3. \A y, h : MailRelies(y, h) => MailRelies(y, h)'
  BY <1>2, NoTokens
<1>4. \A q \in Requests : MailRelies(tx'[q], held'[q])
  BY <1>1 DEF MailInv
<1>5. \A q \in Requests : MailRelies(tx[q], held[q])'
  BY <1>2, <1>4 DEF MailRelies, Sent, WithinCooldown
<1> QED
  BY <1>2, <1>5, NoTokens DEF MailInv

LEMMA MailBegins ==
  ASSUME SignInInv, MailInv, NEW r \in Requests, NEW x, Begin(r, x), MailRelies(x, held[r])
  PROVE  MailInv'
<1>1. tx'[r] = x /\ held' = held /\ \A q \in Requests \ {r} : tx'[q] = tx[q]
  BY DEF Begin, SignInInv, Shape
<1>2. tok' = tok /\ fault' = fault
  BY DEF Begin
<1>4. \A q \in Requests : MailRelies(tx'[q], held'[q])
  BY <1>1 DEF MailInv
<1>5. \A q \in Requests : MailRelies(tx[q], held[q])'
  BY <1>2, <1>4 DEF MailRelies, Sent, WithinCooldown
<1> QED
  BY <1>2, <1>5, NoTokens DEF MailInv

LEMMA MailOutside ==
  ASSUME SignInInv, MailInv, SignInInv', tx' = tx, held' = held, TokensAge,
         \A q \in Requests : SparesMail(q), GuessesBounded', SignupsNeverCollide'
  PROVE  MailInv'
BY MailStill DEF MailInv

-----------------------------------------------------------------------------
(* The steps of a request for a mail, until it inserts one *)

\* A request that only goes on to another place.
LEMMA Placed ==
  ASSUME SignInInv, NEW r \in Requests,
         NEW pc \in {"idle", "lockToken"} \cup Mailing \cup Judging \cup Polling, NEW y,
         y = [tx[r] EXCEPT !.pc = pc]
  PROVE  y.pc = pc /\ y.code = tx[r].code /\ y.mail = tx[r].mail /\ y.kind = tx[r].kind
         /\ y.bad = tx[r].bad /\ y.tok = tx[r].tok
BY Entering DEF Tx

LEMMA MailLocksDevice ==
  ASSUME SignInInv, MailInv, SignInInv', NEW r \in Requests, LockDeviceForSend(r)
  PROVE  MailInv'
<1>1. At(r, "lockCode") /\ Keep /\ (End(r) \/ Go(r, "branch")) /\ tx[r].pc = "lockCode"
  BY DEF LockDeviceForSend, At
<1>2. CASE Go(r, "branch")
  <2>1. PICK y : y = [tx[r] EXCEPT !.pc = "branch"]
    OBVIOUS
  <2>2. y.pc = "branch" /\ y.code = tx[r].code
    BY <2>1, Placed DEF Mailing
  <2>3. tx[r].code \in Codes /\ NoOne \notin Codes
    BY <1>1, Entering, SignInAssumption DEF Relies
  <2>4. Need(r) = {<<"code", tx[r].code>>}
    BY <1>1 DEF Need
  <2>5. MailRelies(y, held[r] \cup Need(r))
    BY <2>2, <2>3, <2>4 DEF MailRelies
  <2> QED
    BY <1>1, <1>2, <2>1, <2>5, MailGoes DEF Go
<1> QED
  BY <1>1, <1>2, MailEndsOnly

LEMMA MailBranches ==
  ASSUME SignInInv, MailInv, SignInInv', NEW r \in Requests, BranchDevice(r) \/ BranchWeb(r)
  PROVE  MailInv'
<1>1. Keep /\ tx[r].pc = "branch"
  BY DEF BranchDevice, BranchWeb, At
<1>2. CASE End(r)
  BY <1>1, <1>2, MailEndsOnly
<1>3. ASSUME NEW pc \in {"lockMail", "replace"}, NEW k \in Kinds, NEW f \in BOOLEAN,
             Take(r, [tx[r] EXCEPT !.pc = pc, !.kind = k, !.fake = f]),
             IF tx[r].code = NoOne THEN pc = "replace" /\ k \in Web /\ ~WithinCooldown(tx[r].mail)
             ELSE Sent(tx[r].code) < SendCap
                  /\ (\/ pc = "lockMail" /\ k = "deviceSignup"
                      \/ pc = "replace" /\ k = "deviceLogin")
      PROVE  MailInv'
  <2> DEFINE y == [tx[r] EXCEPT !.pc = pc, !.kind = k, !.fake = f]
  <2>1. y.pc = pc /\ y.kind = k /\ y.mail = tx[r].mail /\ y.code = tx[r].code
    BY Entering DEF Tx
  <2>2. Take(r, y)
    BY <1>3
  <2>3. /\ tx[r].code # NoOne => <<"code", tx[r].code>> \in held[r]
        /\ tx[r].code = NoOne => <<"mail", tx[r].mail>> \in held[r]
    BY <1>1 DEF MailInv, MailRelies
  <2> HIDE DEF y
  <2>4. MailRelies(y, held[r] \cup Need(r))
    BY <1>3, <2>1, <2>3 DEF MailRelies, Web
  <2> QED
    BY <1>1, <2>2, <2>4, MailGoes
<1>4. tx[r].mail \in Emails
  BY <1>1, Entering DEF Relies, Mailing
<1>5. Sentinel(tx[r].mail) \in BOOLEAN
  BY <1>4, FakeIs
<1> DEFINE new == acct[tx[r].mail].status = "none"
           dp == IF new THEN "lockMail" ELSE "replace"
           dk == IF new THEN "deviceSignup" ELSE "deviceLogin"
           wk == IF new THEN "webSignup" ELSE "webLogin"
<1>6. CASE BranchDevice(r)
  <2>1. \/ End(r)
        \/ /\ ~SendCapReached(tx[r].code)
           /\ Take(r, [tx[r] EXCEPT !.pc = dp, !.kind = dk, !.fake = Sentinel(tx[r].mail)])
    BY <1>6, Zenon DEF BranchDevice
  <2>2. dp \in {"lockMail", "replace"} /\ dk \in Kinds
        /\ (\/ dp = "lockMail" /\ dk = "deviceSignup"
            \/ dp = "replace" /\ dk = "deviceLogin")
    BY DEF Kinds
  <2>3. tx[r].code # NoOne
    BY <1>6 DEF BranchDevice
  <2>4. ~SendCapReached(tx[r].code) => Sent(tx[r].code) < SendCap
    <3>1. Sent(tx[r].code) \in Nat /\ SendCap \in Nat
      BY SentIs, Entering, SignInAssumption
    <3>2. ~SendCapReached(tx[r].code) => ~(Sent(tx[r].code) >= SendCap)
      BY DEF SendCapReached, Sent
    <3> QED
      BY <3>1, <3>2
  <2> HIDE DEF dp, dk
  <2> QED
    BY <1>2, <1>3, <1>5, <2>1, <2>2, <2>3, <2>4
<1>7. CASE BranchWeb(r)
  <2>1. \/ End(r)
        \/ /\ ~WithinCooldown(tx[r].mail)
           /\ Take(r, [tx[r] EXCEPT !.pc = "replace", !.kind = wk, !.fake = Sentinel(tx[r].mail)])
    BY <1>7, Zenon DEF BranchWeb
  <2>2. wk \in Kinds /\ wk \in Web
    BY DEF Kinds, Web
  <2>3. tx[r].code = NoOne
    BY <1>7 DEF BranchWeb
  <2> HIDE DEF wk
  <2> QED
    BY <1>2, <1>3, <1>5, <2>1, <2>2, <2>3
<1> QED
  BY <1>6, <1>7

LEMMA MailLocksMail ==
  ASSUME SignInInv, MailInv, SignInInv', NEW r \in Requests, LockMail(r)
  PROVE  MailInv'
<1> DEFINE pc == IF tx[r].kind = NoOne THEN "branch" ELSE "replace"
<1>1. Keep /\ Go(r, pc) /\ tx[r].pc = "lockMail"
  BY DEF LockMail, At
<1>2. IF tx[r].code = NoOne THEN tx[r].kind = NoOne ELSE tx[r].kind = "deviceSignup"
  BY <1>1 DEF MailInv, MailRelies
<1>3. NoOne \notin Kinds /\ "deviceSignup" \in Kinds
  BY SignInAssumption DEF Kinds
<1>4. IF tx[r].code = NoOne THEN pc = "branch" ELSE pc = "replace"
  BY <1>2, <1>3
<1> HIDE DEF pc
<1>5. PICK y : y = [tx[r] EXCEPT !.pc = pc]
  OBVIOUS
<1>6. y.pc = pc /\ y.code = tx[r].code /\ y.mail = tx[r].mail /\ y.kind = tx[r].kind
  <2>1. pc \in Mailing
    BY <1>4 DEF Mailing
  <2> QED
    BY <1>5, <2>1, Placed
<1>7. Need(r) = {<<"mail", tx[r].mail>>}
  BY <1>1 DEF Need
<1>8. tx[r].code # NoOne => <<"code", tx[r].code>> \in held[r] /\ Sent(tx[r].code) < SendCap
  BY <1>1 DEF MailInv, MailRelies
<1>9. MailRelies(y, held[r] \cup Need(r))
  BY <1>2, <1>4, <1>6, <1>7, <1>8 DEF MailRelies, Web
<1> QED
  BY <1>1, <1>5, <1>9, MailGoes DEF Go

LEMMA MailReplaces ==
  ASSUME SignInInv, MailInv, SignInInv', NEW r \in Requests, Replace(r)
  PROVE  MailInv'
<1>1. Keep /\ Go(r, "insert") /\ tx[r].pc = "replace"
  BY DEF Replace, At
<1>2. PICK y : y = [tx[r] EXCEPT !.pc = "insert"]
  OBVIOUS
<1>3. y.pc = "insert" /\ y.code = tx[r].code /\ y.mail = tx[r].mail /\ y.kind = tx[r].kind
  BY <1>2, Placed DEF Mailing
<1>4. Need(r) = {<<"token", t>> : t \in Replaced(tx[r])}
  BY <1>1 DEF Need
<1>5. ASSUME tx[r].kind \in Signups, NEW t \in DOMAIN tok, ~tok[t].used, tok[t].kind \in Signups,
             tok[t].mail = tx[r].mail
      PROVE  <<"token", t>> \in Need(r)
  BY <1>4, <1>5 DEF Replaced
<1>6. MailRelies(tx[r], held[r])
  BY DEF MailInv
<1>7. MailRelies(y, held[r] \cup Need(r))
  BY <1>1, <1>3, <1>5, <1>6 DEF MailRelies
<1> QED
  BY <1>1, <1>2, <1>7, MailGoes DEF Go

-----------------------------------------------------------------------------
(* The steps that have to do with no mail, and requests that begin *)

LEMMA MailLocksToken ==
  ASSUME SignInInv, MailInv, SignInInv', NEW r \in Requests, LockToken(r)
  PROVE  MailInv'
<1>1. Keep
  BY DEF LockToken
<1>2. CASE End(r)
  BY <1>1, <1>2, MailEndsOnly
<1>3. CASE ~End(r)
  <2> DEFINE t  == tx[r].tok
             pc == IF tx[r].kind = "wrong" THEN "judge" ELSE "resolve"
             y  == [tx[r] EXCEPT !.pc = pc, !.bad = tok[t].bad]
  <2>1. Take(r, y)
    BY <1>3 DEF LockToken
  <2>2. y.pc = pc /\ y.tok = t /\ y.bad = tok[t].bad
    BY Entering DEF Tx
  <2>3. pc \in {"judge", "resolve"}
    OBVIOUS
  <2> HIDE DEF y, pc
  <2>4. MailRelies(y, held[r] \cup Need(r))
    BY <2>2, <2>3 DEF MailRelies
  <2> QED
    BY <1>1, <2>1, <2>4, MailGoes
<1> QED
  BY <1>2, <1>3

LEMMA MailElsewhere ==
  ASSUME SignInInv, MailInv, NEW r \in Requests,
         \/ ((ResolveAccount(r) \/ CreateAccount(r)) /\ ~Burn(r))
         \/ LockRow(r)
         \/ (AnswerPoll(r) /\ Go(r, "issue") /\ Keep)
  PROVE  MailInv'
<1>1. CASE ResolveAccount(r) /\ ~Burn(r)
  <2> DEFINE pc == IF acct[tx[r].mail].status = "none" THEN "create" ELSE Onward(tx[r].tok)
             y  == [tx[r] EXCEPT !.pc = pc, !.seen = Accounts]
  <2>1. Take(r, y) /\ Keep
    BY <1>1 DEF ResolveAccount
  <2>2. pc \in {"create", "finish", "authorize"} /\ y.pc = pc
    BY Entering DEF Tx, Onward
  <2> HIDE DEF y, pc
  <2> QED
    BY <2>1, <2>2, NoMailYet, MailGoes
<1>2. CASE CreateAccount(r) /\ ~Burn(r)
  <2> DEFINE pc  == Onward(tx[r].tok)
             new == acct[tx[r].mail].status = "none"
             y   == [tx[r] EXCEPT !.pc = pc, !.born = new]
  <2>1. Take(r, y) /\ Keep
    BY <1>2 DEF CreateAccount
  <2>2. pc \in {"finish", "authorize"} /\ y.pc = pc
    BY Entering DEF Tx, Onward
  <2> HIDE DEF y, pc
  <2> QED
    BY <2>1, <2>2, NoMailYet, MailGoes
<1>3. CASE LockRow(r) \/ (AnswerPoll(r) /\ Go(r, "issue") /\ Keep)
  <2>1. PICK pc \in {"answer", "issue"} : Go(r, pc) /\ Keep
    BY <1>3 DEF LockRow
  <2>2. PICK y : y = [tx[r] EXCEPT !.pc = pc]
    OBVIOUS
  <2>3. y.pc = pc
    BY <2>2, Placed DEF Polling
  <2> QED
    BY <2>1, <2>2, <2>3, NoMailYet, MailGoes DEF Go
<1> QED
  BY <1>1, <1>2, <1>3

LEMMA MailsBegin ==
  ASSUME SignInInv, MailInv, NEW r \in Requests,
         \/ \E c \in Codes : Poll(r, c) \/ \E e \in Emails : EmailInit(r, c, e)
         \/ \E e \in Emails : WebInit(r, e)
         \/ \E t \in DOMAIN tok, way \in Ways : UseToken(r, t, way)
  PROVE  MailInv'
<1>1. ASSUME NEW x, Begin(r, x),
             \/ x.pc \in {"lockCode", "lockRow", "lockToken"}
             \/ x.pc = "lockMail" /\ x.code = NoOne /\ x.kind = NoOne
      PROVE  MailInv'
  <2>1. MailRelies(x, held[r])
    BY <1>1 DEF MailRelies
  <2> QED
    BY <1>1, <2>1, MailBegins
<1>2. ASSUME NEW c \in Codes, Poll(r, c) PROVE MailInv'
  BY <1>1, <1>2 DEF Poll, Idle
<1>3. ASSUME NEW c \in Codes, NEW e \in Emails, EmailInit(r, c, e) PROVE MailInv'
  BY <1>1, <1>3 DEF EmailInit, Idle
<1>4. ASSUME NEW e \in Emails, WebInit(r, e) PROVE MailInv'
  BY <1>1, <1>4 DEF WebInit, Idle
<1>5. ASSUME NEW t \in DOMAIN tok, NEW way \in Ways, UseToken(r, t, way) PROVE MailInv'
  BY <1>1, <1>5 DEF UseToken, Idle
<1> QED
  BY <1>2, <1>3, <1>4, <1>5

-----------------------------------------------------------------------------
(* The steps that write a token *)

LEMMA MailTokenWritten ==
  ASSUME SignInInv, MailInv, NEW t \in DOMAIN tok, NEW x \in Token, tok' = [tok EXCEPT ![t] = x],
         x.kind = tok[t].kind, x.mail = tok[t].mail, x.code = tok[t].code,
         tok[t].used => x.used, x.fresh => tok[t].fresh,
         x.bad <= OtpCap, x.bad = OtpCap => x.used /\ x.done = 0
  PROVE  /\ TokensAge /\ GuessesBounded'
         /\ \A q : <<"token", t>> \notin held[q] \/ x.bad = tok[t].bad => SparesMail(q)
<1>1. tok \in Seq(Token)
  BY DEF SignInInv, Data
<1>2. /\ Len(tok') = Len(tok) /\ DOMAIN tok' = DOMAIN tok /\ Len(tok) \in Nat
      /\ tok'[t] = x /\ \A s \in DOMAIN tok \ {t} : tok'[s] = tok[s]
  BY <1>1
<1>3. TokensAge
  <2>1. \A s \in DOMAIN tok :
          /\ tok'[s].kind = tok[s].kind /\ tok'[s].mail = tok[s].mail
          /\ tok'[s].code = tok[s].code
          /\ tok[s].used => tok'[s].used
          /\ tok'[s].fresh => tok[s].fresh
    <3> TAKE s \in DOMAIN tok
    <3>1. CASE s = t
      BY <1>2, <3>1, Zenon
    <3>2. CASE s # t
      BY <1>2, <3>2, Zenon
    <3> QED
      BY <3>1, <3>2
  <2>2. Len(tok) <= Len(tok')
    BY <1>2
  <2> QED
    BY <2>1, <2>2, Zenon DEF TokensAge
<1>4. GuessesBounded'
  <2>1. ASSUME NEW c \in Codes
        PROVE  Cardinality({s \in DOMAIN tok' : tok'[s].code = c}) <= SendCap
    <3>1. {s \in DOMAIN tok' : tok'[s].code = c} = {s \in DOMAIN tok : tok[s].code = c}
      BY <1>2, <1>3 DEF TokensAge
    <3> QED
      BY <3>1 DEF MailInv, GuessesBounded
  <2>2. ASSUME NEW s \in DOMAIN tok'
        PROVE  tok'[s].bad <= OtpCap /\ (tok'[s].bad = OtpCap => tok'[s].used /\ tok'[s].done = 0)
    <3>1. CASE s = t
      BY <1>2, <3>1, Zenon
    <3>2. CASE s # t
      BY <1>2, <3>2, Zenon DEF MailInv, GuessesBounded
    <3> QED
      BY <3>1, <3>2
  <2> QED
    BY <2>1, <2>2 DEF GuessesBounded
<1>5. ASSUME NEW q, <<"token", t>> \notin held[q] \/ x.bad = tok[t].bad
      PROVE  SparesMail(q)
  <2>1. ASSUME NEW s \in DOMAIN tok, <<"token", s>> \in held[q]
        PROVE  tok'[s].bad = tok[s].bad
    <3>1. CASE s = t
      BY <1>2, <1>5, <2>1, <3>1, Zenon
    <3>2. CASE s # t
      BY <1>2, <3>2, Zenon
    <3> QED
      BY <3>1, <3>2
  <2> QED
    BY <1>2, <2>1 DEF SparesMail
<1> QED
  BY <1>3, <1>4, <1>5

LEMMA MailCountsOtp ==
  ASSUME SignInInv, MailInv, SignInInv', NEW r \in Requests, CountWrongOtp(r)
  PROVE  MailInv'
<1> DEFINE t == tx[r].tok
           n == tx[r].bad + 1
           u == tok[t].used \/ n >= OtpCap
           x == [tok[t] EXCEPT !.bad = n, !.used = @ \/ n >= OtpCap]
<1>1. End(r) /\ fault' = fault /\ tx[r].pc = "judge" /\ tx[r].pc \in Judging
  BY DEF CountWrongOtp, At, Judging
<1>2. tok' = [tok EXCEPT ![t] = x]
  BY Zenon DEF CountWrongOtp
<1>3. t \in DOMAIN tok /\ tok[t] \in Token /\ <<"token", t>> \in held[r]
      /\ ~tok[t].used /\ tok[t].done = 0
  BY <1>1, AtJudging
<1>4. tx[r].bad = tok[t].bad /\ tok[t].bad \in Nat
  BY <1>1, <1>3 DEF MailInv, MailRelies, Token
<1>5. n \in Nat /\ n <= OtpCap /\ (n = OtpCap => u)
  <2>1. tok[t].bad <= OtpCap /\ tok[t].bad # OtpCap /\ OtpCap \in Nat
    BY <1>3, SignInAssumption DEF MailInv, GuessesBounded
  <2> QED
    BY <1>4, <2>1
<1>6. u \in BOOLEAN
  BY Zenon
<1>7. x = [tok[t] EXCEPT !.bad = n, !.used = u]
  BY Zenon
<1> HIDE DEF u, n
<1>8. x \in Token /\ x.kind = tok[t].kind /\ x.mail = tok[t].mail /\ x.code = tok[t].code
      /\ x.used = u /\ x.fresh = tok[t].fresh /\ x.bad = n /\ x.done = tok[t].done
  BY <1>3, <1>5, <1>6, <1>7 DEF Token
<1> HIDE DEF x
<1>9. x.used \/ ~tok[t].used
  BY <1>3
<1>10. /\ TokensAge /\ GuessesBounded'
       /\ \A q : <<"token", t>> \notin held[q] => SparesMail(q)
  <2>1. x.bad <= OtpCap /\ (x.bad = OtpCap => x.used /\ x.done = 0)
    BY <1>3, <1>5, <1>8
  <2>2. tok[t].used => x.used
    BY <1>9
  <2>3. x.fresh => tok[t].fresh
    BY <1>8
  <2> QED
    BY <1>2, <1>3, <1>8, <2>1, <2>2, <2>3, MailTokenWritten
<1>11. \A q \in Requests \ {r} : <<"token", t>> \notin held[q]
  BY <1>3 DEF SignInInv, Apart
<1>12. SignupsNeverCollide'
  BY <1>1 DEF MailInv, SignupsNeverCollide
<1> QED
  BY <1>1, <1>10, <1>11, <1>12, MailEnds

LEMMA MailSettles ==
  ASSUME SignInInv, MailInv, SignInInv', NEW r \in Requests, tx[r].pc \in Judging,
         NEW made, NEW done \in {0, 1}, Settle(r, made, done)
  PROVE  MailInv'
<1> DEFINE t == tx[r].tok
           u == TRUE
           k == tok[t].done + done
           x == [tok[t] EXCEPT !.used = TRUE, !.done = @ + done]
<1>1. tok' = [tok EXCEPT ![t] = x] /\ End(r) /\ fault' = fault
  BY Zenon DEF Settle
<1>2. t \in DOMAIN tok /\ tok[t] \in Token /\ ~tok[t].used /\ tok[t].done = 0
  BY AtJudging
<1>3. u \in BOOLEAN /\ k \in Nat
  BY <1>2
<1>4. x = [tok[t] EXCEPT !.used = u, !.done = k]
  BY Zenon
<1>5. u
  OBVIOUS
<1> HIDE DEF u, k
<1>6. x \in Token /\ x.kind = tok[t].kind /\ x.mail = tok[t].mail /\ x.code = tok[t].code
      /\ x.used = u /\ x.fresh = tok[t].fresh /\ x.bad = tok[t].bad
  BY <1>2, <1>3, <1>4 DEF Token
<1> HIDE DEF x
<1>7. x.bad <= OtpCap /\ x.bad # OtpCap
  BY <1>2, <1>6 DEF MailInv, GuessesBounded
<1>8. TokensAge /\ GuessesBounded' /\ \A q : SparesMail(q)
  <2>1. (tok[t].used => x.used) /\ (x.fresh => tok[t].fresh)
        /\ (x.bad = OtpCap => x.used /\ x.done = 0)
    BY <1>2, <1>6, <1>7
  <2> QED
    BY <1>1, <1>2, <1>6, <1>7, <2>1, MailTokenWritten
<1>9. SignupsNeverCollide'
  BY <1>1 DEF MailInv, SignupsNeverCollide
<1> QED
  BY <1>1, <1>8, <1>9, MailEnds

LEMMA MailAges ==
  ASSUME SignInInv, MailInv, SignInInv', NEW t \in DOMAIN tok, AgeToken(t)
  PROVE  MailInv'
<1> DEFINE no == FALSE
           y == [tok[t] EXCEPT !.fresh = no]
           z == [tok[t] EXCEPT !.live = no]
<1>1. tok' = [tok EXCEPT ![t] = y] \/ tok' = [tok EXCEPT ![t] = z]
  <2>1. CASE tok[t].fresh /\ tok[t].code = NoOne
    BY <2>1, Zenon DEF AgeToken
  <2>2. CASE ~(tok[t].fresh /\ tok[t].code = NoOne)
    BY <2>2, Zenon DEF AgeToken
  <2> QED
    BY <2>1, <2>2
<1>2. UNCHANGED <<tx, held, fault>>
  BY DEF AgeToken
<1>3. tok[t] \in Token /\ no \in BOOLEAN /\ ~no
  BY DEF SignInInv, Data
<1> HIDE DEF no
<1>4. PICK x \in {y, z} : tok' = [tok EXCEPT ![t] = x]
  BY <1>1
<1>5. x \in Token /\ x.kind = tok[t].kind /\ x.mail = tok[t].mail /\ x.code = tok[t].code
      /\ x.used = tok[t].used /\ x.bad = tok[t].bad /\ x.done = tok[t].done
      /\ (x.fresh = tok[t].fresh \/ x.fresh = no)
  <2>1. CASE x = y
    BY <1>3, <2>1 DEF Token
  <2>2. CASE x = z
    BY <1>3, <2>2 DEF Token
  <2> QED
    BY <1>4, <2>1, <2>2
<1> HIDE DEF y, z
<1>6. tok[t].bad <= OtpCap /\ (tok[t].bad = OtpCap => tok[t].used /\ tok[t].done = 0)
  BY DEF MailInv, GuessesBounded
<1>7. TokensAge /\ GuessesBounded' /\ \A q : SparesMail(q)
  <2>1. (tok[t].used => x.used) /\ (x.fresh => tok[t].fresh)
        /\ x.bad <= OtpCap /\ (x.bad = OtpCap => x.used /\ x.done = 0)
    BY <1>3, <1>5, <1>6
  <2> QED
    BY <1>4, <1>5, <2>1, MailTokenWritten
<1>8. SignupsNeverCollide'
  BY <1>2 DEF MailInv, SignupsNeverCollide
<1> QED
  BY <1>2, <1>7, <1>8, MailOutside

LEMMA NoClash ==
  ASSUME SignInInv, MailInv, NEW r \in Requests, tx[r].pc = "insert", tx[r].kind \in Signups,
         NEW t \in DOMAIN tok, NEW a, a.kind = tok[t].kind, a.mail = tok[t].mail,
         <<"token", t>> \in held[r] => a.used, <<"token", t>> \notin held[r] => a = tok[t],
         ~a.used, SameEntry(a, tx[r])
  PROVE  FALSE
<1>1. a.kind \in Signups /\ a.mail = tx[r].mail
  BY DEF SameEntry, Signups
<1>2. <<"token", t>> \notin held[r] /\ ~tok[t].used
  OBVIOUS
<1> QED
  BY <1>1, <1>2 DEF MailInv, MailRelies

\* What the insertion leaves of the tokens, and the new one if there is one.
LEMMA Inserted ==
  ASSUME SignInInv, MailInv, NEW r \in Requests, InsertToken(r)
  PROVE  \E prior : \E new :
           /\ tok' \in {Append(prior, new), prior, tok}
           /\ new = NewToken(tx[r])
           /\ DOMAIN prior = DOMAIN tok /\ Len(prior) = Len(tok) /\ prior \in Seq(Token)
           /\ \A t \in DOMAIN tok :
                /\ prior[t].kind = tok[t].kind /\ prior[t].mail = tok[t].mail
                /\ prior[t].code = tok[t].code /\ prior[t].bad = tok[t].bad
                /\ prior[t].done = tok[t].done /\ prior[t].fresh = tok[t].fresh
                /\ tok[t].used => prior[t].used
           /\ SignupsNeverCollide'
<1> DEFINE x == tx[r]
           prior == [t \in DOMAIN tok |->
                       IF <<"token", t>> \in held[r] THEN [tok[t] EXCEPT !.used = TRUE]
                                                     ELSE tok[t]]
           clash == \E t \in DOMAIN tok : ~prior[t].used /\ SameEntry(prior[t], x)
           new   == NewToken(x)
<1>1. x.pc = "insert"
  BY DEF InsertToken, At
<1>2. tok' \in {Append(prior, new), prior, tok}
  <2>1. tok' = Append(prior, new) \/ tok' = prior \/ tok' = tok
    BY Zenon DEF InsertToken
  <2> HIDE DEF prior, new
  <2> QED
    BY <2>1
<1>3. fault' = IF ~clash THEN fault
               ELSE fault \cup {IF x.kind \in Signups THEN "suppressed" ELSE "error"}
  BY Zenon DEF InsertToken
<1>4. tok \in Seq(Token) /\ \A t \in DOMAIN tok : tok[t] \in Token
  BY DEF SignInInv, Data
<1>5. ASSUME NEW t \in DOMAIN tok
      PROVE  /\ prior[t] \in Token
             /\ prior[t].kind = tok[t].kind /\ prior[t].mail = tok[t].mail
             /\ prior[t].code = tok[t].code /\ prior[t].bad = tok[t].bad
             /\ prior[t].done = tok[t].done /\ prior[t].fresh = tok[t].fresh
             /\ tok[t].used => prior[t].used
             /\ <<"token", t>> \notin held[r] => prior[t] = tok[t]
             /\ <<"token", t>> \in held[r] => prior[t].used
  <2> DEFINE u == TRUE
             y == [tok[t] EXCEPT !.used = u]
  <2>1. prior[t] = IF <<"token", t>> \in held[r] THEN y ELSE tok[t]
    BY Zenon
  <2>2. u \in BOOLEAN
    OBVIOUS
  <2> HIDE DEF u, prior
  <2>3. y \in Token /\ y.kind = tok[t].kind /\ y.mail = tok[t].mail /\ y.code = tok[t].code
        /\ y.bad = tok[t].bad /\ y.done = tok[t].done /\ y.fresh = tok[t].fresh /\ y.used = u
    BY <1>4, <2>2 DEF Token
  <2>4. y.used
    BY <2>3 DEF u
  <2> HIDE DEF y
  <2> QED
    BY <1>4, <2>1, <2>3, <2>4
<1>6. prior \in Seq(Token) /\ Len(prior) = Len(tok) /\ DOMAIN prior = DOMAIN tok
  <2>1. DOMAIN prior = 1..Len(tok) /\ Len(tok) \in Nat
    BY <1>4
  <2>2. DOMAIN tok = 1..Len(tok)
    BY <1>4
  <2>3. prior = [t \in 1..Len(tok) |-> prior[t]]
    BY <2>1
  <2> HIDE DEF prior
  <2>4. \A t \in 1..Len(tok) : prior[t] \in Token
    BY <1>5, <2>2
  <2> QED
    BY <2>1, <2>2, <2>3, <2>4
<1> HIDE DEF prior, new
<1>7. SignupsNeverCollide'
  <2>1. ~(clash /\ x.kind \in Signups)
    BY <1>1, <1>5, NoClash
  <2>2. "suppressed" \notin fault
    BY DEF MailInv, SignupsNeverCollide
  <2> HIDE DEF clash, x
  <2> QED
    BY <1>3, <2>1, <2>2 DEF SignupsNeverCollide
<1>8. new = NewToken(tx[r])
  BY DEF new
<1> HIDE DEF clash, x
<1>9. \A t \in DOMAIN tok :
        /\ prior[t].kind = tok[t].kind /\ prior[t].mail = tok[t].mail
        /\ prior[t].code = tok[t].code /\ prior[t].bad = tok[t].bad
        /\ prior[t].done = tok[t].done /\ prior[t].fresh = tok[t].fresh
        /\ tok[t].used => prior[t].used
  BY <1>5
<1> QED
  BY <1>2, <1>6, <1>7, <1>8, <1>9

LEMMA MailInserts ==
  ASSUME SignInInv, MailInv, SignInInv', NEW r \in Requests, InsertToken(r)
  PROVE  /\ MailInv'
         /\ Len(tok') > Len(tok) =>
              /\ tok'[Len(tok')].code = tx[r].code /\ tok'[Len(tok')].mail = tx[r].mail
<1> DEFINE x == tx[r]
<1>1. x.pc = "insert" /\ End(r)
  BY DEF InsertToken, At
<1>2. PICK prior, new :
           /\ tok' \in {Append(prior, new), prior, tok}
           /\ new = NewToken(tx[r])
           /\ DOMAIN prior = DOMAIN tok /\ Len(prior) = Len(tok) /\ prior \in Seq(Token)
           /\ \A t \in DOMAIN tok :
                /\ prior[t].kind = tok[t].kind /\ prior[t].mail = tok[t].mail
                /\ prior[t].code = tok[t].code /\ prior[t].bad = tok[t].bad
                /\ prior[t].done = tok[t].done /\ prior[t].fresh = tok[t].fresh
                /\ tok[t].used => prior[t].used
           /\ SignupsNeverCollide'
  BY Inserted
<1>3. tok \in Seq(Token) /\ Len(tok) \in Nat /\ DOMAIN tok = 1..Len(tok)
  BY DEF SignInInv, Data
<1>4. new.kind = x.kind /\ new.mail = x.mail /\ new.code = x.code /\ new.bad = 0
  BY <1>2 DEF NewToken
<1>5. /\ Len(tok) <= Len(tok')
      /\ \A t \in DOMAIN tok : tok'[t] = prior[t] \/ tok'[t] = tok[t]
      /\ \A t \in DOMAIN tok' \ DOMAIN tok : tok'[t] = new /\ t = Len(tok) + 1
      /\ Len(tok') > Len(tok) => tok'[Len(tok')] = new
      /\ DOMAIN tok \subseteq DOMAIN tok' /\ DOMAIN tok' \subseteq DOMAIN tok \cup {Len(tok) + 1}
  <2>1. CASE tok' = Append(prior, new)
    BY <1>2, <1>3, <2>1
  <2>2. CASE tok' = prior
    BY <1>2, <1>3, <2>2
  <2>3. CASE tok' = tok
    BY <1>3, <2>3
  <2> QED
    BY <1>2, <2>1, <2>2, <2>3
<1>6. TokensAge
  BY <1>2, <1>5 DEF TokensAge
<1>7. MailRelies(x, held[r])
  BY DEF MailInv
<1>8. ASSUME NEW q \in Requests \ {r} PROVE SparesMail(q)
  <2>1. held[q] \cap held[r] = {}
    BY DEF SignInInv, Apart
  <2>2. /\ x.code # NoOne => <<"code", x.code>> \in held[r]
        /\ x.kind # "deviceLogin" => <<"mail", x.mail>> \in held[r]
    BY <1>1, <1>7 DEF MailRelies
  <2>3. \A t \in DOMAIN tok : tok'[t].bad = tok[t].bad
    BY <1>2, <1>5
  <2> QED
    BY <1>4, <1>5, <2>1, <2>2, <2>3 DEF SparesMail
<1>9. GuessesBounded'
  <2>1. ASSUME NEW c \in Codes
        PROVE  Cardinality({t \in DOMAIN tok' : tok'[t].code = c}) <= SendCap
    <3> DEFINE S == {t \in DOMAIN tok : tok[t].code = c}
               T == {t \in DOMAIN tok' : tok'[t].code = c}
    <3>1. IsFiniteSet(S) /\ Sent(c) \in Nat /\ Sent(c) = Cardinality(S)
      BY <1>3, SentIs DEF Sent
    <3>2. Cardinality(S) <= SendCap /\ SendCap \in Nat
      BY SignInAssumption DEF MailInv, GuessesBounded
    <3>3. \A t \in DOMAIN tok : tok'[t].code = tok[t].code
      BY <1>2, <1>5
    <3>4. CASE T = S
      BY <3>2, <3>4
    <3>5. CASE T # S
      <4>1. \A t \in S : t \in T
        BY <1>5, <3>3
      <4>2. PICK n : n = Len(tok) + 1
        OBVIOUS
      <4>3. \A t \in T : t \in S \/ (t = n /\ x.code = c)
        BY <1>4, <1>5, <3>3, <4>2
      <4>4. x.code = c /\ n \in T /\ n \notin S
        BY <1>3, <3>5, <4>1, <4>2, <4>3
      <4>5. T = S \cup {n}
        BY <4>1, <4>3, <4>4
      <4>6. Cardinality(T) = Cardinality(S) + 1
        BY <3>1, <4>4, <4>5, FS_AddElement
      <4>7. Sent(c) < SendCap
        BY <1>1, <1>7, <4>4, SignInAssumption DEF MailRelies
      <4> QED
        BY <3>1, <3>2, <4>6, <4>7
    <3> QED
      BY <3>4, <3>5
  <2>2. ASSUME NEW t \in DOMAIN tok'
        PROVE  tok'[t].bad <= OtpCap /\ (tok'[t].bad = OtpCap => tok'[t].used /\ tok'[t].done = 0)
    <3>1. CASE t \in DOMAIN tok
      BY <1>2, <1>5, <3>1 DEF MailInv, GuessesBounded
    <3>2. CASE t \notin DOMAIN tok
      <4>1. tok'[t].bad = 0
        BY <1>4, <1>5, <3>2
      <4>2. OtpCap \in Nat /\ OtpCap # 0
        BY SignInAssumption
      <4> QED
        BY <4>1, <4>2
    <3> QED
      BY <3>1, <3>2
  <2> QED
    BY <2>1, <2>2 DEF GuessesBounded
<1>10. MailInv'
  BY <1>1, <1>2, <1>6, <1>8, <1>9, MailEnds
<1> QED
  BY <1>4, <1>5, <1>10

-----------------------------------------------------------------------------
(* The theorems about mails *)

LEMMA MailEndsUntold ==
  ASSUME SignInInv, MailInv, SignInInv', NEW r \in Requests, End(r), tok' = tok, fault' = fault
  PROVE  MailInv'
BY NoTokens, MailEnds

LEMMA MailStep ==
  ASSUME SignInInv, MailInv, SignInInv', NEW r \in Requests,
         Step(r) \/ SlowDown(r) \/ Crash(r)
  PROVE  MailInv'
<1>1. CASE LockDeviceForSend(r) \/ BranchDevice(r) \/ BranchWeb(r) \/ LockMail(r)
           \/ Replace(r) \/ InsertToken(r)
  BY <1>1, MailLocksDevice, MailBranches, MailLocksMail, MailReplaces, MailInserts
<1>2. CASE LockToken(r) \/ CountWrongOtp(r)
  BY <1>2, MailLocksToken, MailCountsOtp
<1>3. CASE FinishLogin(r) \/ FinishSignup(r) \/ AuthorizeDevice(r)
  <2>1. tx[r].pc \in Judging
    BY <1>3 DEF FinishLogin, FinishSignup, AuthorizeDevice, At, Judging
  <2>2. \E made \in BOOLEAN, done \in {0, 1} : Settle(r, made, done)
    BY <1>3 DEF FinishLogin, FinishSignup, AuthorizeDevice
  <2> QED
    BY <2>1, <2>2, MailSettles
<1>4. CASE ResolveAccount(r) \/ CreateAccount(r)
  <2>1. tx[r].pc \in Judging
    BY <1>4 DEF ResolveAccount, CreateAccount, At, Judging
  <2>2. CASE Burn(r)
    BY <2>1, <2>2, MailSettles DEF Burn
  <2> QED
    BY <1>4, <2>2, MailElsewhere
<1>5. CASE LockRow(r) \/ AnswerPoll(r) \/ IssueKey(r)
  <2>1. CASE IssueKey(r)
    BY <2>1, MailEndsUntold DEF IssueKey
  <2>2. CASE AnswerPoll(r) /\ End(r) /\ UNCHANGED <<tok, fault>>
    BY <2>2, MailEndsUntold
  <2>3. CASE LockRow(r) \/ (AnswerPoll(r) /\ Go(r, "issue") /\ Keep)
    BY <2>3, MailElsewhere
  <2>4. AnswerPoll(r) => \/ End(r) /\ UNCHANGED <<tok, fault>>
                         \/ Go(r, "issue") /\ Keep
    BY DEF AnswerPoll
  <2> QED
    BY <1>5, <2>1, <2>2, <2>3, <2>4
<1>6. CASE OtherAccount(r) \/ AbortDeadlock(r) \/ SlowDown(r) \/ Crash(r)
  BY <1>6, MailEndsOnly DEF OtherAccount, AbortDeadlock, SlowDown, Crash
<1> QED
  BY <1>1, <1>2, <1>3, <1>4, <1>5, <1>6 DEF Step

LEMMA MailNext ==
  ASSUME SignInInv, MailInv, SignInInv', [Next]_vars
  PROVE  MailInv'
<1>1. ASSUME tx' = tx, held' = held, tok' = tok, fault' = fault PROVE MailInv'
  BY <1>1, NoTokens, MailOutside
<1>2. CASE UNCHANGED vars
  BY <1>1, <1>2 DEF vars
<1>3. CASE Next
  <2>1. CASE \E c \in Codes : RequestDeviceCode(c) \/ ExpireCode(c)
    BY <1>1, <2>1 DEF RequestDeviceCode, ExpireCode
  <2>2. CASE \/ \E r \in Requests, c \in Codes : Poll(r, c) \/ \E e \in Emails : EmailInit(r, c, e)
             \/ \E r \in Requests, e \in Emails : WebInit(r, e)
             \/ \E r \in Requests, t \in DOMAIN tok, way \in Ways : UseToken(r, t, way)
    BY <2>2, MailsBegin
  <2>3. CASE \E r \in Requests : Step(r) \/ SlowDown(r) \/ Crash(r)
    BY <2>3, MailStep
  <2>4. CASE \E t \in DOMAIN tok : AgeToken(t)
    BY <2>4, MailAges
  <2>5. CASE CloseRegistration \/ \E e \in Emails : Administer(e)
    BY <1>1, <2>5 DEF CloseRegistration, Administer
  <2> QED
    BY <1>3, <2>1, <2>2, <2>3, <2>4, <2>5, Zenon DEF Next
<1> QED
  BY <1>2, <1>3

LEMMA MailInit == Init => MailInv
<1> SUFFICES ASSUME Init PROVE MailInv
  OBVIOUS
<1>1. tok = <<>> /\ fault = {} /\ tx = [r \in Requests |-> Idle]
  BY DEF Init
<1>2. \A r \in Requests : MailRelies(tx[r], held[r])
  BY <1>1 DEF MailRelies, Idle
<1>3. GuessesBounded
  <2>1. \A c \in Codes : {t \in DOMAIN tok : tok[t].code = c} = {}
    BY <1>1
  <2>2. SendCap \in Nat
    BY SignInAssumption
  <2>3. \A c \in Codes : Cardinality({t \in DOMAIN tok : tok[t].code = c}) <= SendCap
    BY <2>1, <2>2, FS_EmptySet
  <2> QED
    BY <1>1, <2>3 DEF GuessesBounded
<1> QED
  BY <1>1, <1>2, <1>3 DEF MailInv, SignupsNeverCollide

LEMMA MailInvHolds == Spec => []MailInv
<1>1. SignInInv /\ MailInv /\ [Next]_vars => MailInv'
  BY InvNext, MailNext
<1> QED
  BY MailInit, <1>1, InvHolds, PTL DEF Spec

\* For every number of requests that race for it, a device code is mailed no more
\* often than the cap, and a mail judges no more wrong passwords than the limit
\* (issue_device_email, the row lock of verify_auth_token_otp).
THEOREM GuessesAreFew == Spec => []GuessesBounded
<1>1. MailInv => GuessesBounded
  BY DEF MailInv
<1> QED
  BY <1>1, MailInvHolds, PTL

\* Signups of an address replace each other under its advisory lock, so that none
\* is suppressed by the index that they share.
THEOREM SignupsReplace == Spec => []SignupsNeverCollide
<1>1. MailInv => SignupsNeverCollide
  BY DEF MailInv
<1> QED
  BY <1>1, MailInvHolds, PTL

\* A mail more is inserted only when the last at its address has aged or was used.
CooldownKept ==
  Len(tok') > Len(tok) =>
    LET new == tok'[Len(tok')] IN new.code = NoOne => ~WithinCooldown(new.mail)

LEMMA CooldownNext ==
  ASSUME SignInInv, MailInv, SignInInv', [Next]_vars
  PROVE  CooldownKept
<1>1. Len(tok) \in Nat
  BY DEF SignInInv, Data
<1>2. ASSUME Len(tok') = Len(tok) PROVE CooldownKept
  BY <1>1, <1>2 DEF CooldownKept
<1>3. ASSUME NEW r \in Requests, InsertToken(r)
      PROVE  CooldownKept
  <2>1. tx[r].pc = "insert" /\ MailRelies(tx[r], held[r])
    BY <1>3 DEF InsertToken, At, MailInv
  <2>2. tx[r].code = NoOne => ~WithinCooldown(tx[r].mail)
    BY <2>1 DEF MailRelies
  <2>3. Len(tok') > Len(tok) =>
          /\ tok'[Len(tok')].code = tx[r].code /\ tok'[Len(tok')].mail = tx[r].mail
    BY <1>3, MailInserts
  <2> QED
    BY <2>2, <2>3 DEF CooldownKept
<1>4. ASSUME NEW t, NEW x, tok' = [tok EXCEPT ![t] = x] PROVE CooldownKept
  <2>1. Len(tok') = Len(tok)
    BY <1>4 DEF SignInInv, Data
  <2> QED
    BY <1>2, <2>1
<1>5. CASE UNCHANGED vars
  BY <1>2, <1>5 DEF vars
<1>6. CASE Next
  <2>1. ASSUME NEW r \in Requests, Step(r) PROVE CooldownKept
    <3>1. CASE \/ LockDeviceForSend(r) \/ BranchDevice(r) \/ BranchWeb(r) \/ LockMail(r)
               \/ Replace(r) \/ LockToken(r) \/ OtherAccount(r)
               \/ LockRow(r) \/ AnswerPoll(r) \/ IssueKey(r) \/ AbortDeadlock(r)
      BY <1>2, <3>1 DEF LockDeviceForSend, BranchDevice, BranchWeb, LockMail, Replace,
           LockToken, OtherAccount, LockRow, AnswerPoll, IssueKey, AbortDeadlock, Keep
    <3>2. CASE CountWrongOtp(r)
      <4> DEFINE n == tx[r].bad + 1
                 x == [tok[tx[r].tok] EXCEPT !.bad = n, !.used = @ \/ n >= OtpCap]
      <4>1. tok' = [tok EXCEPT ![tx[r].tok] = x]
        BY <3>2, Zenon DEF CountWrongOtp
      <4> HIDE DEF x
      <4> QED
        BY <1>4, <4>1
    <3>3. ASSUME NEW made, NEW done, Settle(r, made, done) PROVE CooldownKept
      BY <1>4, <3>3, Zenon DEF Settle
    <3>4. CASE \/ ResolveAccount(r) \/ CreateAccount(r)
               \/ AuthorizeDevice(r) \/ FinishLogin(r) \/ FinishSignup(r)
      <4>1. tok' = tok \/ \E made, done : Settle(r, made, done)
        BY <3>4 DEF ResolveAccount, CreateAccount, AuthorizeDevice, FinishLogin, FinishSignup,
                    Burn, Keep
      <4> QED
        BY <1>2, <3>3, <4>1
    <3> QED
      BY <1>3, <2>1, <3>1, <3>2, <3>4 DEF Step
  <2>2. CASE \/ \E r \in Requests, c \in Codes : Poll(r, c) \/ \E e \in Emails : EmailInit(r, c, e)
             \/ \E r \in Requests, e \in Emails : WebInit(r, e)
             \/ \E r \in Requests, t \in DOMAIN tok, way \in Ways : UseToken(r, t, way)
    BY <1>2, <2>2 DEF Poll, EmailInit, WebInit, UseToken, Begin
  <2>3. CASE \/ \E c \in Codes : RequestDeviceCode(c) \/ ExpireCode(c)
             \/ \E r \in Requests : SlowDown(r) \/ Crash(r)
             \/ CloseRegistration \/ \E e \in Emails : Administer(e)
    BY <1>2, <2>3 DEF RequestDeviceCode, ExpireCode, SlowDown, Crash, CloseRegistration,
                      Administer, Keep
  <2>4. CASE \E t \in DOMAIN tok : AgeToken(t)
    BY <1>4, <2>4, Zenon DEF AgeToken
  <2> QED
    BY <1>6, <2>1, <2>2, <2>3, <2>4, Zenon DEF Next
<1> QED
  BY <1>5, <1>6

\* No mail for a browser follows another at its address within the cooldown, for
\* every number of requests that look at it at once (the advisory lock on the
\* address is taken before the look and kept until the insertion commits).
THEOREM CooldownsKept == Spec => OneMailPerCooldown
<1>1. SignInInv /\ MailInv /\ SignInInv' /\ [Next]_vars => [CooldownKept]_vars
  BY CooldownNext
<1>2. [CooldownKept]_vars =>
        [Len(tok') > Len(tok) =>
           LET new == tok'[Len(tok')] IN new.code = NoOne => ~WithinCooldown(new.mail)]_vars
  BY DEF CooldownKept
<1> QED
  BY <1>1, <1>2, InvHolds, MailInvHolds, PTL DEF Spec, OneMailPerCooldown
=============================================================================
