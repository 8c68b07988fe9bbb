------------------------------- MODULE SignIn -------------------------------
(***************************************************************************)
(* Signing in by mail.  A command-line client asks for a device code and    *)
(* polls for its API key; in a browser its user asks for a mail with a link  *)
(* and a one-time password, and uses either to authorize the device.  The    *)
(* same tokens, without a device, sign a browser in or up.                   *)
(*                                                                         *)
(* A request is one transaction at READ COMMITTED.  A step is one statement   *)
(* or a few that nothing can come between; what a transaction writes shows   *)
(* when it commits, and the locks it took are kept until it ends.  A request  *)
(* that fails, or whose process dies, leaves nothing behind.                 *)
(***************************************************************************)
EXTENDS Naturals, Sequences, FiniteSets

CONSTANTS
  Emails,      \* addresses; an account is known by its address
  Codes,       \* device codes
  Requests,    \* requests in flight at once
  NoOne,
  SendCap,     \* settings.auth_email_send_cap_per_device_code
  OtpCap,      \* settings.auth_otp_attempts_per_token_max
  Scenarios    \* bound: what happens in one behaviour, who does it, its mails

Kinds   == {"deviceLogin", "deviceSignup", "webLogin", "webSignup"}
Signups == {"deviceSignup", "webSignup"}
Ways    == {"link", "right", "wrong"}

ASSUME SignInAssumption ==
  /\ NoOne \notin Emails \cup Codes \cup Kinds \cup Ways
  /\ IsFiniteSet(Emails)
  /\ SendCap \in Nat \ {0} /\ OtpCap \in Nat \ {0}
  /\ Scenarios \subseteq
       [do : SUBSET ({"device", "web", "poll", "admin"} \cup Ways),
        by : SUBSET Emails, mails : Nat]

VARIABLES
  acct,   \* accounts, each with its owner's place in its tenant
  dev,    \* device_authorizations
  tok,    \* auth_tokens, in the order of their insertion
  open,   \* settings.enable_registration
  tx,     \* what each request is doing
  held,   \* the locks of each request
  fault,  \* the collisions in an index that requests have met
  asks    \* what happens in this behaviour

vars == <<acct, dev, tok, open, tx, held, fault, asks>>

Account == [status : {"none", "active", "password_unset", "disabled"},
            verified : BOOLEAN, member : {"in", "closing", "out"},
            born : Codes \cup {NoOne}]
Device  == [status : {"unknown", "pending", "authorized", "completed",
                      "denied", "expired"},
            live : BOOLEAN, owner : Emails \cup {NoOne}, keys : Nat]
Token   == [kind : Kinds, mail : Emails, code : Codes \cup {NoOne},
            fake : BOOLEAN, used : BOOLEAN, live : BOOLEAN, fresh : BOOLEAN,
            bad : Nat, done : Nat]

Idle == [pc |-> "idle", code |-> NoOne, mail |-> NoOne, kind |-> NoOne,
         fake |-> FALSE, tok |-> 0, bad |-> 0, seen |-> 0, born |-> FALSE]

Init ==
  /\ acct \in [Emails -> {a \in Account :
                 /\ a.member = "in" /\ a.born = NoOne
                 /\ a.verified = (a.status \in {"active", "disabled"})}]
  /\ dev = [c \in Codes |-> [status |-> "unknown", live |-> TRUE,
                             owner |-> NoOne, keys |-> 0]]
  /\ tok = <<>>
  /\ open = TRUE
  /\ tx = [r \in Requests |-> Idle]
  /\ held = [r \in Requests |-> {}]
  /\ fault = {}
  /\ asks \in Scenarios /\ \A e \in Emails \ asks.by : acct[e].status = "none"

-----------------------------------------------------------------------------
(* Locks.                                                                   *)

\* resolve_device_authorization, and every re-check of it under the lock.
Usable(c) == dev[c].status = "pending" /\ dev[c].live

\* Mutant of Valid: a token that was consumed is good until it expires.
ValidLive(t) == tok[t].live

\* consume_auth_token's condition.
Valid(t) == ~tok[t].used /\ tok[t].live

\* Mutant of Replaced: a signup replaces those of its own kind only.
ReplacedOfKind(x) ==
  {t \in DOMAIN tok :
     /\ ~tok[t].used /\ tok[t].kind = x.kind
     /\ IF x.kind = "deviceLogin" THEN tok[t].code = x.code
                                  ELSE tok[t].mail = x.mail /\ tok[t].fake = x.fake}

\* The unconsumed tokens that the mail of request x replaces: those of the
\* device for a device's login, those of the account for a browser's, and
\* every signup of the address, of either kind, for a signup.
Replaced(x) ==
  {t \in DOMAIN tok :
     /\ ~tok[t].used
     /\ \/ x.kind = "deviceLogin" /\ tok[t].kind = x.kind /\ tok[t].code = x.code
        \/ /\ x.kind = "webLogin" /\ tok[t].kind = x.kind
           /\ tok[t].mail = x.mail /\ tok[t].fake = x.fake
        \/ x.kind \in Signups /\ tok[t].kind \in Signups /\ tok[t].mail = x.mail}

\* The locks the next statement of request r waits for.
Need(r) ==
  LET x == tx[r] IN
  CASE x.pc \in {"lockCode", "lockRow"} -> {<<"code", x.code>>}
    [] x.pc = "lockMail"                -> {<<"mail", x.mail>>}
    [] x.pc = "replace"                 -> {<<"token", t>> : t \in Replaced(x)}
    [] x.pc = "lockToken"               -> {<<"token", x.tok>>}
    [] x.pc = "create"                  -> {<<"account", x.mail>>, <<"slug">>}
    [] x.pc = "authorize"               -> {<<"code", tok[x.tok].code>>}
    [] OTHER                            -> {}

Blocks(q, r) == q # r /\ Need(r) \cap held[q] # {}
At(r, pc)    == tx[r].pc = pc /\ \A q \in Requests : ~Blocks(q, r)

Take(r, x)   == tx' = [tx EXCEPT ![r] = x] /\ held' = [held EXCEPT ![r] = @ \cup Need(r)]
Go(r, pc)    == Take(r, [tx[r] EXCEPT !.pc = pc])
\* Mutant of End: the session is not closed and keeps its locks.
EndLeaks(r)  == tx' = [tx EXCEPT ![r] = Idle] /\ UNCHANGED held

End(r)       == tx' = [tx EXCEPT ![r] = Idle] /\ held' = [held EXCEPT ![r] = {}]
Begin(r, x)  == /\ tx[r] = Idle
                /\ tx' = [tx EXCEPT ![r] = x]
                /\ UNCHANGED <<acct, dev, tok, open, held, fault, asks>>
Keep         == UNCHANGED <<acct, dev, tok, open, fault, asks>>

-----------------------------------------------------------------------------
(* A device code, and the mails that answer one.                            *)

RequestDeviceCode(c) ==
  /\ dev[c].status = "unknown"
  /\ dev' = [dev EXCEPT ![c].status = "pending"]
  /\ UNCHANGED <<acct, tok, open, tx, held, fault, asks>>

Issuing == {r \in Requests : tx[r].pc \in {"lockCode", "branch", "lockMail", "replace", "insert"}}
Room    == Len(tok) + Cardinality(Issuing) < asks.mails

EmailInit(r, c, e) ==
  /\ "device" \in asks.do /\ e \in asks.by /\ Room /\ Usable(c)
  /\ Begin(r, [Idle EXCEPT !.pc = "lockCode", !.code = c, !.mail = e])

\* The sign-in and sign-up pages of the dashboard take the lock on the address
\* before they look at the cooldown.
WebInit(r, e) ==
  /\ "web" \in asks.do /\ e \in asks.by /\ Room
  /\ Begin(r, [Idle EXCEPT !.pc = "lockMail", !.mail = e])

LockDeviceForSend(r) ==
  /\ At(r, "lockCode")
  /\ IF Usable(tx[r].code) THEN Go(r, "branch") ELSE End(r)
  /\ Keep

\* Mutant of SendCapReached: mails that were replaced are not counted.
SendCapOfLive(c) == Cardinality({t \in DOMAIN tok : tok[t].code = c /\ ~tok[t].used}) >= SendCap

SendCapReached(c) == Cardinality({t \in DOMAIN tok : tok[t].code = c}) >= SendCap
WithinCooldown(e) ==
  \E t \in DOMAIN tok :
    /\ tok[t].mail = e /\ tok[t].kind \in {"webLogin", "webSignup"}
    /\ ~tok[t].used /\ tok[t].fresh

\* A disabled account gets a sentinel: a token that is never mailed.
Sentinel(e) == acct[e].status = "disabled"

\* A mail for a device: the cap, then the account, where none is a signup.
BranchDevice(r) ==
  /\ At(r, "branch") /\ tx[r].code # NoOne
  /\ LET x   == tx[r]
         new == acct[x.mail].status = "none"
     IN IF SendCapReached(x.code) THEN End(r)
        ELSE Take(r, [x EXCEPT !.pc = IF new THEN "lockMail" ELSE "replace",
                               !.kind = IF new THEN "deviceSignup" ELSE "deviceLogin",
                               !.fake = Sentinel(x.mail)])
  /\ Keep

\* A mail for a browser: the cooldown, then the account.
BranchWeb(r) ==
  /\ At(r, "branch") /\ tx[r].code = NoOne
  /\ LET x   == tx[r]
         new == acct[x.mail].status = "none"
     IN IF WithinCooldown(x.mail) THEN End(r)
        ELSE Take(r, [x EXCEPT !.pc = "replace",
                               !.kind = IF new THEN "webSignup" ELSE "webLogin",
                               !.fake = Sentinel(x.mail)])
  /\ Keep

\* Mutant of LockMail: the advisory lock is not taken.
PassMail(r) ==
  /\ tx[r].pc = "lockMail"
  /\ tx' = [tx EXCEPT ![r].pc = IF tx[r].kind = NoOne THEN "branch" ELSE "replace"]
  /\ Keep /\ UNCHANGED held

\* The advisory lock on the address.
LockMail(r) ==
  /\ At(r, "lockMail")
  /\ Go(r, IF tx[r].kind = NoOne THEN "branch" ELSE "replace")
  /\ Keep

Replace(r) == At(r, "replace") /\ Go(r, "insert") /\ Keep

\* The unique indexes on unconsumed tokens: (account_id, purpose), where all
\* sentinels of devices belong to one account, and the address of a signup.
SameEntry(a, b) ==
  \/ a.kind \in Signups /\ b.kind \in Signups /\ a.mail = b.mail
  \/ /\ a.kind = b.kind /\ a.fake = b.fake
     /\ a.mail = b.mail \/ (a.fake /\ a.kind = "deviceLogin")

NewToken(x) == [kind |-> x.kind, mail |-> x.mail, code |-> x.code, fake |-> x.fake,
                used |-> FALSE, live |-> TRUE, fresh |-> TRUE, bad |-> 0, done |-> 0]

\* The insertion and the commit.  A collision suppresses a signup, whose
\* savepoint keeps the replacement; a login's request fails as a whole.
InsertToken(r) ==
  /\ At(r, "insert")
  /\ LET x    == tx[r]
         prior == [t \in DOMAIN tok |->
                     IF <<"token", t>> \in held[r] THEN [tok[t] EXCEPT !.used = TRUE]
                                                   ELSE tok[t]]
         clash == \E t \in DOMAIN tok : ~prior[t].used /\ SameEntry(prior[t], x)
     IN /\ tok' = IF ~clash THEN Append(prior, NewToken(x))
                  ELSE IF x.kind \in Signups THEN prior ELSE tok
        /\ fault' = IF ~clash THEN fault
                    ELSE fault \cup {IF x.kind \in Signups THEN "suppressed" ELSE "error"}
  /\ End(r)
  /\ UNCHANGED <<acct, dev, open, asks>>

-----------------------------------------------------------------------------
(* The use of a token: its link, or its password.                           *)

\* Mutant of UseToken: the index is off by one.
UseNextToken(r, t, way) ==
  /\ way \in asks.do
  /\ Begin(r, [Idle EXCEPT !.pc = "lockToken", !.tok = t + 1, !.mail = tok[t].mail,
                           !.kind = way])

\* Only a token that was mailed has a link or a right password in the world.
UseToken(r, t, way) ==
  /\ way \in asks.do
  /\ tok[t].fake => way = "wrong"
  /\ Begin(r, [Idle EXCEPT !.pc = "lockToken", !.tok = t, !.mail = tok[t].mail,
                           !.kind = way])

\* consume_auth_token for a link; for a password the row lock under which it
\* is judged, and kept until it is consumed.
LockToken(r) ==
  /\ At(r, "lockToken")
  /\ LET x == tx[r] IN
     IF ~Valid(x.tok) THEN End(r)
     ELSE Take(r, [x EXCEPT !.pc = IF x.kind = "wrong" THEN "judge" ELSE "resolve",
                            !.bad = tok[x.tok].bad])
  /\ Keep

\* A wrong password counts; the last one consumes the token.
CountWrongOtp(r) ==
  /\ At(r, "judge")
  /\ LET n == tx[r].bad + 1 IN
     tok' = [tok EXCEPT ![tx[r].tok].bad = n, ![tx[r].tok].used = @ \/ n >= OtpCap]
  /\ End(r)
  /\ UNCHANGED <<acct, dev, open, fault, asks>>

\* What a finalization commits: the token is consumed, and the account made,
\* verified and activated if it got that far.
Settle(r, made, done) ==
  /\ tok' = [tok EXCEPT ![tx[r].tok].used = TRUE, ![tx[r].tok].done = @ + done]
  /\ acct' = IF ~made THEN acct ELSE
       [acct EXCEPT ![tx[r].mail] =
          [@ EXCEPT !.status = "active", !.verified = TRUE,
                    !.born = IF tx[r].born THEN tok[tx[r].tok].code
                                           ELSE acct[tx[r].mail].born]]
  /\ End(r)
  /\ UNCHANGED <<open, fault, asks>>

Burn(r) == Settle(r, FALSE, 0) /\ UNCHANGED dev

Onward(t) == IF tok[t].code = NoOne THEN "finish" ELSE "authorize"

Barred(a) == a.status = "disabled" \/ a.member = "out"
Accounts  == Cardinality({e \in Emails : acct[e].status # "none"})

\* _resolve_signup_account and _resolve_login_account.
ResolveAccount(r) ==
  /\ At(r, "resolve")
  /\ LET t == tx[r].tok
         a == acct[tx[r].mail]
         bad == \/ tok[t].fake
                \/ tok[t].kind = "webSignup" /\ ~open
                \/ IF a.status = "none" THEN tok[t].kind \notin Signups ELSE Barred(a)
     IN IF bad THEN Burn(r)
        ELSE /\ Take(r, [tx[r] EXCEPT
                  !.pc = IF a.status = "none" THEN "create" ELSE Onward(t),
                  !.seen = Accounts])
             /\ Keep

\* A browser signed in to another account leaves the link as it was.
OtherAccount(r) ==
  /\ At(r, "resolve") /\ tok[tx[r].tok].kind = "webLogin"
  /\ End(r)
  /\ Keep

\* _create_passwordless_account_with_tenant in its savepoint.  The address or
\* the name of the workspace, here the same for all, may have been taken since.
CreateAccount(r) ==
  /\ At(r, "create")
  /\ LET x   == tx[r]
         a   == acct[x.mail]
         new == a.status = "none"
     IN IF IF new THEN x.seen # Accounts ELSE Barred(a)
          THEN Burn(r)
          ELSE Take(r, [x EXCEPT !.pc = Onward(x.tok), !.born = new]) /\ Keep

\* Mutant of AuthorizeDevice: the status is not checked again under the lock.
AuthorizeUnchecked(r) ==
  /\ At(r, "authorize")
  /\ Settle(r, TRUE, 1)
  /\ dev' = [dev EXCEPT ![tok[tx[r].tok].code].status = "authorized",
                        ![tok[tx[r].tok].code].owner = tx[r].mail]

\* _authorize_device_for_session, the session and the commit.  When the device
\* is no longer pending the route answers with an error page, and the request's
\* transaction is committed as it stands.
AuthorizeDevice(r) ==
  /\ At(r, "authorize")
  /\ LET c == tok[tx[r].tok].code IN
     /\ Settle(r, TRUE, IF Usable(c) THEN 1 ELSE 0)
     /\ dev' = IF Usable(c) THEN [dev EXCEPT ![c].status = "authorized",
                                            ![c].owner = tx[r].mail]
                            ELSE dev

\* _finalize_login_token and _finalize_browser_signup_token.
FinishLogin(r) ==
  /\ At(r, "finish") /\ tok[tx[r].tok].kind = "webLogin"
  /\ Settle(r, TRUE, 1) /\ UNCHANGED dev

FinishSignup(r) ==
  /\ At(r, "finish") /\ tok[tx[r].tok].kind = "webSignup"
  /\ Settle(r, TRUE, 1) /\ UNCHANGED dev

-----------------------------------------------------------------------------
(* The client's poll.                                                       *)

Poll(r, c) ==
  /\ "poll" \in asks.do /\ dev[c].status # "unknown"
  /\ Begin(r, [Idle EXCEPT !.pc = "lockRow", !.code = c])

\* Mutant of LockRow: the row is read without FOR UPDATE.
ReadRow(r) ==
  tx[r].pc = "lockRow" /\ tx' = [tx EXCEPT ![r].pc = "answer"] /\ Keep /\ UNCHANGED held

LockRow(r) == At(r, "lockRow") /\ Go(r, "answer") /\ Keep

\* Mutant of AnswerPoll: an owner who may not have a key is answered as pending.
AnswerPending(r) ==
  /\ At(r, "answer")
  /\ LET d == dev[tx[r].code]
         a == acct[d.owner]
     IN IF d.live /\ d.status = "authorized" /\ a.member = "in" /\ a.status = "active"
          THEN Go(r, "issue") /\ Keep
        ELSE /\ dev' = [dev EXCEPT ![tx[r].code].status = IF d.live THEN @ ELSE "expired"]
             /\ End(r)
             /\ UNCHANGED <<acct, tok, open, fault, asks>>

\* Every answer but the key.  A poll too soon after the last gets slow_down.
AnswerPoll(r) ==
  /\ At(r, "answer")
  /\ LET d == dev[tx[r].code]
         a == acct[d.owner]
         to == IF ~d.live THEN IF d.status = "completed" THEN d.status ELSE "expired"
               ELSE IF d.status # "authorized" \/ a.member = "closing" THEN d.status
               ELSE IF a.member = "out" \/ a.status = "disabled" \/ ~a.verified
                 THEN "denied" ELSE "key"
     IN IF to = "key" THEN Go(r, "issue") /\ Keep
        ELSE /\ dev' = [dev EXCEPT ![tx[r].code].status = to]
             /\ End(r)
             /\ UNCHANGED <<acct, tok, open, fault, asks>>

SlowDown(r) == At(r, "answer") /\ dev[tx[r].code].live /\ End(r) /\ Keep

IssueKey(r) ==
  /\ At(r, "issue")
  /\ dev' = [dev EXCEPT ![tx[r].code].status = "completed", ![tx[r].code].keys = @ + 1]
  /\ End(r)
  /\ UNCHANGED <<acct, tok, open, fault, asks>>

-----------------------------------------------------------------------------
(* PostgreSQL's deadlock detector, failures and time.                       *)

Cycle(S) == S # {} /\ \A r \in S : \E q \in S : Blocks(q, r)
Victim(r) == \E S \in SUBSET Requests :
               r \in S /\ Cycle(S) /\ \A T \in SUBSET S : Cycle(T) => T = S

AbortDeadlock(r) ==
  /\ Victim(r)
  /\ End(r)
  /\ Keep

Crash(r) == tx[r] # Idle /\ End(r) /\ Keep

ExpireCode(c) ==
  /\ dev[c].live /\ dev[c].status \in {"pending", "authorized"}
  /\ dev' = [dev EXCEPT ![c].live = FALSE]
  /\ UNCHANGED <<acct, tok, open, tx, held, fault, asks>>

\* The cooldown, which only browsers have, ends before the token's life does.
AgeToken(t) ==
  /\ Valid(t)
  /\ tok' = [tok EXCEPT ![t] = IF @.fresh /\ @.code = NoOne
                                THEN [@ EXCEPT !.fresh = FALSE] ELSE [@ EXCEPT !.live = FALSE]]
  /\ UNCHANGED <<acct, dev, open, tx, held, fault, asks>>

\* Operators disable accounts and close registration; tenants are scheduled
\* for deletion, and members are removed.
Administer(e) ==
  /\ "admin" \in asks.do
  /\ \/ /\ acct[e].status \in {"active", "password_unset"}
        /\ acct' = [acct EXCEPT ![e].status = "disabled"]
     \/ /\ acct[e].status # "none" /\ acct[e].member = "in"
        /\ \E m \in {"closing", "out"} : acct' = [acct EXCEPT ![e].member = m]
  /\ UNCHANGED <<dev, tok, open, tx, held, fault, asks>>

CloseRegistration ==
  /\ open /\ {"web", "admin"} \subseteq asks.do
  /\ open' = FALSE
  /\ UNCHANGED <<acct, dev, tok, tx, held, fault, asks>>

Step(r) ==
  \/ LockDeviceForSend(r) \/ BranchDevice(r) \/ BranchWeb(r) \/ LockMail(r)
  \/ Replace(r) \/ InsertToken(r)
  \/ LockToken(r) \/ CountWrongOtp(r) \/ ResolveAccount(r) \/ OtherAccount(r)
  \/ CreateAccount(r) \/ AuthorizeDevice(r) \/ FinishLogin(r) \/ FinishSignup(r)
  \/ LockRow(r) \/ AnswerPoll(r) \/ IssueKey(r) \/ AbortDeadlock(r)

Next ==
  \/ \E c \in Codes : RequestDeviceCode(c) \/ ExpireCode(c)
  \/ \E r \in Requests, c \in Codes : Poll(r, c) \/ \E e \in Emails : EmailInit(r, c, e)
  \/ \E r \in Requests, e \in Emails : WebInit(r, e)
  \/ \E r \in Requests, t \in DOMAIN tok, way \in Ways : UseToken(r, t, way)
  \/ \E r \in Requests : Step(r) \/ SlowDown(r) \/ Crash(r)
  \/ \E t \in DOMAIN tok : AgeToken(t)
  \/ \E e \in Emails : Administer(e)
  \/ CloseRegistration

Spec == Init /\ [][Next]_vars

\* A row's waiters get its lock in turn, so a request that can go on again and
\* again does.  A client keeps polling until it is told to stop; it waits longer
\* after a slow_down, and its polls do not die for ever.
Polls(c) == \E r \in Requests : Poll(r, c)
FairSpec ==
  /\ Spec
  /\ \A r \in Requests :
       /\ SF_vars(Step(r))
       /\ SF_vars(LockRow(r)) /\ SF_vars(AnswerPoll(r)) /\ SF_vars(IssueKey(r))
  /\ \A c \in Codes : SF_vars(Polls(c))

-----------------------------------------------------------------------------
TypeOK ==
  /\ acct \in [Emails -> Account]
  /\ dev \in [Codes -> Device]
  /\ tok \in Seq(Token)
  /\ open \in BOOLEAN
  /\ \A r \in Requests : tx[r].tok \in 0..Len(tok)
  /\ fault \subseteq {"suppressed", "error"}

\* However polls overlap, die and are sent again, a device code is exchanged
\* for one API key at most, and only once a user has authorized it.
OneKeyPerCode ==
  \A c \in Codes : dev[c].keys <= 1 /\ (dev[c].keys = 1 => dev[c].owner # NoOne)

\* A device keeps the owner who authorized it, whatever other mails to other
\* addresses are answered later, and a code that ended stays ended.
OwnerIsKept ==
  [][\A c \in Codes :
       /\ dev[c].owner # NoOne => dev'[c].owner = dev[c].owner
       /\ dev[c].status \in {"completed", "denied", "expired"} =>
            dev'[c].status \notin {"pending", "authorized"}]_vars

\* A mail signs somebody in once: its link and its password, used at the same
\* time or again after a failure, do not do so twice.
TokenSpentOnce == \A t \in DOMAIN tok : tok[t].done <= 1 /\ (tok[t].done = 1 => tok[t].used)

\* However many requests race for a device code: it is mailed no more often than
\* the cap, mails that are suppressed or replaced included; and of a mail no more
\* wrong passwords are judged than the limit, and the last shuts it for good.
GuessesBounded ==
  /\ \A c \in Codes : Cardinality({t \in DOMAIN tok : tok[t].code = c}) <= SendCap
  /\ \A t \in DOMAIN tok :
       tok[t].bad <= OtpCap /\ (tok[t].bad = OtpCap => tok[t].used /\ tok[t].done = 0)

\* Signups of an address from devices and browsers replace each other and never
\* meet in the index they share: none is suppressed, and one mail is answered.
SignupsNeverCollide == "suppressed" \notin fault

\* No mail for a browser goes out while the last one at its address is young and
\* unanswered, whatever the account behind it, and also when requests race.
OneMailPerCooldown ==
  [][Len(tok') > Len(tok) =>
       LET new == tok'[Len(tok')] IN new.code = NoOne => ~WithinCooldown(new.mail)]_vars

\* A request for a mail is answered: "Returns the same generic 200 for all
\* branches" (routers/device_auth.py:525).
MailRequestsAnswered == "error" \notin fault

\* "all mutations either commit together or roll back together"
\* (_finalize_device_token): the account a device's signup makes comes with the
\* authorization of that device.
FinalizeIsAtomic ==
  \A e \in Emails : acct[e].born # NoOne => dev[acct[e].born].owner = e

\* Every request ends, also those that wait for each other's locks.
RequestsEnd == \A r \in Requests : tx[r] # Idle ~> tx[r] = Idle

\* A device that was authorized gets its key, unless its code expires, its owner
\* may not have one, or the tenant is about to be deleted.
DeviceServed ==
  \A c \in Codes :
    dev[c].status = "authorized" ~>
      \/ dev[c].status \in {"completed", "denied", "expired"}
      \/ \E e \in Emails : dev[c].owner = e /\ acct[e].member = "closing"

=============================================================================
