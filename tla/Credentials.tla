---------------------------- MODULE Credentials ----------------------------
(***************************************************************************)
(* The credentials of one account: its password, its browser sessions, the   *)
(* links it is mailed to reset the password, change or verify the address,   *)
(* and the handoff of a native client's key to a browser.                    *)
(*                                                                         *)
(* A request reads the account without a lock, takes its time over a password *)
(* and writes what it read plus one: the session version is computed in the   *)
(* process, not by the database.  Writes show when the request commits; the   *)
(* rows it wrote stay locked until then.                                     *)
(***************************************************************************)
EXTENDS Naturals, Sequences, FiniteSets

CONSTANTS
  Addresses,  \* addresses nobody else has
  Requests,   \* requests in flight at once
  Scenarios,  \* bound: what is asked in one behaviour
  MaxAsks     \* bound: requests of a behaviour

Kinds == {"reset", "change", "verify", "handoff"}
Forms == {"login", "reauth", "password", "version"}

ASSUME CredentialsAssumption ==
  /\ Addresses # {}
  /\ Scenarios \subseteq SUBSET (Kinds \cup Forms \cup {"admin"})
  /\ MaxAsks \in Nat

VARIABLES
  acct,  \* the row of accounts, and the last password that had to end sessions
  sess,  \* user_sessions, with the session version of the cookie
  link,  \* auth_tokens and browser_handoff_tokens, in the order of insertion
  key,   \* the client's api key
  tx,    \* what each request is doing
  held,  \* the locks of each request
  last,  \* the last password that was chosen
  asks,  \* what is asked in this behaviour
  sent   \* requests so far

vars == <<acct, sess, link, key, tx, held, last, asks, sent>>

Account == [pw : Nat, sv : Nat, status : {"active", "password_unset", "disabled"},
            mail : Addresses, verified : BOOLEAN, floor : Nat]
Session == [pw : Nat, sv : Nat, dead : BOOLEAN, fresh : BOOLEAN]
Link    == [kind : Kinds, mail : Addresses, used : BOOLEAN, live : BOOLEAN,
            young : BOOLEAN, done : Nat]

Idle == [pc |-> "idle"]

Init ==
  /\ acct \in {a \in [pw : {0, 1}, sv : {1}, status : {"active", "password_unset"},
                     mail : Addresses, verified : BOOLEAN, floor : {0}] :
                a.status = "password_unset" => a.pw = 0 /\ ~a.verified}
  /\ sess = IF acct.status = "password_unset" THEN <<>>
            ELSE [s \in 1..2 |-> [pw |-> acct.pw, sv |-> 1, dead |-> FALSE, fresh |-> s = 1]]
  /\ link = <<>>
  /\ key = "live"
  /\ tx = [r \in Requests |-> Idle]
  /\ held = [r \in Requests |-> {}]
  /\ last = 1
  /\ asks \in Scenarios
  /\ sent = 0

-----------------------------------------------------------------------------
(* Who is let in, and locks.                                                *)

\* resolve_jwt_session.
Accepted(s) == ~sess[s].dead /\ acct.status = "active" /\ sess[s].sv = acct.sv

Valid(i) == ~link[i].used /\ link[i].live

\* The purposes whose links a change of the credentials revokes.
Revoked(form) == IF form = "change" THEN {"reset", "change", "verify"}
                                    ELSE {"reset", "change"}
Open(kinds) == {i \in DOMAIN link : ~link[i].used /\ link[i].kind \in kinds}

\* The locks the next statement of request r waits for.
Need(r) ==
  LET x == tx[r] IN
  CASE x.pc = "lock"    -> {<<"advisory", x.form>>}
    [] x.pc = "issue"   -> {<<"link", i>> : i \in Open({x.form})}
    [] x.pc = "consume" -> {<<"link", x.link>>}
    [] x.pc = "handoff" -> {<<"link", x.link>>, <<"account">>, <<"key">>}
    [] x.pc = "write"   -> {<<"account">>}
    [] x.pc = "settle"  -> {<<"link", i>> : i \in Open(Revoked(x.form)) \ {x.link}}
    [] OTHER            -> {}

Blocks(q, r) == q # r /\ Need(r) \cap held[q] # {}
At(r, pc)    == tx[r].pc = pc /\ \A q \in Requests : ~Blocks(q, r)
Take(r, x)   == tx' = [tx EXCEPT ![r] = x] /\ held' = [held EXCEPT ![r] = @ \cup Need(r)]
Go(r, pc)    == Take(r, [tx[r] EXCEPT !.pc = pc])
End(r)       == tx' = [tx EXCEPT ![r] = Idle] /\ held' = [held EXCEPT ![r] = {}]
Keep         == UNCHANGED <<acct, sess, link, key, last, asks, sent>>

\* A request reads the account as it is.  keep is the session it comes with.
Begin(r, pc, form, i, keep) ==
  /\ tx[r] = Idle /\ form \in asks /\ sent < MaxAsks
  /\ tx' = [tx EXCEPT ![r] = [pc |-> pc, form |-> form, link |-> i, keep |-> keep,
                              a |-> acct, mail |-> acct.mail, kill |-> {}]]
  /\ sent' = sent + 1
  /\ UNCHANGED <<acct, sess, link, key, held, last, asks>>

-----------------------------------------------------------------------------
(* Passwords and sessions.                                                  *)

\* login_with_password, whose user knows the password it reads.
Login(r) ==
  /\ acct.status = "active" /\ acct.pw # 0
  /\ Begin(r, "write", "login", 0, 0)

\* change_password ("password") and set_account_password ("version").
ChangePassword(r, s) == Accepted(s) /\ acct.pw # 0 /\ Begin(r, "write", "password", 0, s)
SetPassword(r, s) ==
  /\ Accepted(s) /\ (acct.pw = 0 => sess[s].fresh)
  /\ Begin(r, "write", "version", 0, s)

\* mark_reauthenticated: the session's row is found by its id alone.
Reauth(r, s) == Accepted(s) /\ acct.pw # 0 /\ Begin(r, "stamp", "reauth", 0, s)
Stamp(r) ==
  /\ At(r, "stamp")
  /\ sess' = [sess EXCEPT ![tx[r].keep].fresh = TRUE]
  /\ End(r)
  /\ UNCHANGED <<acct, link, key, last, asks, sent>>

NewSession(pw, sv) == [pw |-> pw, sv |-> sv, dead |-> FALSE, fresh |-> TRUE]

\* Mutant of FinishLogin: last_login_at is not written, the account not locked.
FinishUnlocked(r) ==
  /\ tx[r].pc = "write" /\ tx[r].form = "login"
  /\ sess' = Append(sess, NewSession(tx[r].a.pw, tx[r].a.sv))
  /\ End(r)
  /\ UNCHANGED <<acct, link, key, last, asks, sent>>

\* create_user_session and last_login_at, whose write locks the account.
FinishLogin(r) ==
  /\ At(r, "write") /\ tx[r].form = "login"
  /\ sess' = Append(sess, NewSession(tx[r].a.pw, tx[r].a.sv))
  /\ End(r)
  /\ UNCHANGED <<acct, link, key, last, asks, sent>>

\* The write of the account, then that of its sessions.
WriteAccount(r) ==
  /\ At(r, "write") /\ tx[r].form \in {"password", "version", "reset", "change"}
  /\ Take(r, [tx[r] EXCEPT
       !.pc = "settle",
       !.kill = IF tx[r].form = "change" THEN {}
                ELSE {s \in DOMAIN sess : ~sess[s].dead /\ s # tx[r].keep}])
  /\ Keep

\* The account as request r writes it.
Written(r) ==
  LET x == tx[r] IN
  [acct EXCEPT
     !.pw = IF x.form = "change" THEN @ ELSE last + 1,
     !.sv = IF x.form = "password" THEN @ ELSE x.a.sv + 1,
     !.status = IF x.form = "change" \/ x.a.status # "password_unset" THEN @ ELSE "active",
     !.mail = IF x.form = "change" THEN x.mail ELSE @,
     !.verified = @ \/ x.form \in {"change", "reset"},
     !.floor = IF x.form \in {"version", "reset"} THEN last + 1 ELSE @]

\* The links that the request consumes, its own one having served.
Spent(r) ==
  [i \in DOMAIN link |->
     IF i = tx[r].link THEN [link[i] EXCEPT !.used = TRUE, !.done = @ + 1]
     ELSE IF i \in Open(Revoked(tx[r].form)) THEN [link[i] EXCEPT !.used = TRUE]
     ELSE link[i]]

\* _revoke_account_tokens and the commit.
Settle(r) ==
  /\ At(r, "settle")
  /\ acct' = Written(r)
  /\ last' = IF tx[r].form = "change" THEN last ELSE last + 1
  /\ sess' = [s \in DOMAIN sess |->
                [sess[s] EXCEPT !.dead = @ \/ s \in tx[r].kill,
                                !.fresh = @ \/ (tx[r].form = "version" /\ s = tx[r].keep)]]
  /\ link' = Spent(r)
  /\ End(r)
  /\ UNCHANGED <<key, asks, sent>>

-----------------------------------------------------------------------------
(* Links.                                                                   *)

\* request_password_reset.
RequestReset(r) == acct.status # "disabled" /\ Begin(r, "lock", "reset", 0, 0)

\* resend_verification looks at its cooldown before it takes the lock.
RequestVerify(r) ==
  /\ ~acct.verified /\ \A i \in DOMAIN link : link[i].kind = "verify" => ~link[i].young
  /\ Begin(r, "lock", "verify", 0, 0)

\* request_email_change, to an address that is free.
RequestChange(r, s, m) ==
  /\ Accepted(s) /\ acct.verified /\ m # acct.mail
  /\ tx[r] = Idle /\ "change" \in asks /\ sent < MaxAsks
  /\ tx' = [tx EXCEPT ![r] = [pc |-> "lock", form |-> "change", link |-> 0, keep |-> s,
                              a |-> acct, mail |-> m, kill |-> {}]]
  /\ sent' = sent + 1
  /\ UNCHANGED <<acct, sess, link, key, held, last, asks>>

Cooling(form) ==
  form = "reset" /\ \E i \in DOMAIN link :
    link[i].kind = "reset" /\ ~link[i].used /\ link[i].young

\* _lock_auth_token_replacement, and the cooldown of a reset.
LockIssue(r) ==
  /\ At(r, "lock")
  /\ IF Cooling(tx[r].form) THEN End(r) ELSE Go(r, "issue")
  /\ Keep

NewLink(kind, mail) == [kind |-> kind, mail |-> mail, used |-> FALSE, live |-> TRUE,
                        young |-> TRUE, done |-> 0]

\* create_auth_token_record: the last link is replaced, the commit.
IssueLink(r) ==
  /\ At(r, "issue")
  /\ link' = Append([i \in DOMAIN link |->
                       [link[i] EXCEPT !.used = @ \/ i \in Open({tx[r].form})]],
                    NewLink(tx[r].form, tx[r].mail))
  /\ End(r)
  /\ UNCHANGED <<acct, sess, key, last, asks, sent>>

UseLink(r, i) == link[i].kind # "handoff" /\ Begin(r, "consume", link[i].kind, i, 0)

\* Mutant of Consume: a link is good while it has not expired.
ConsumeAgain(r) ==
  /\ At(r, "consume")
  /\ IF link[tx[r].link].live THEN Go(r, "read") ELSE End(r)
  /\ Keep

\* consume_auth_token.
Consume(r) ==
  /\ At(r, "consume")
  /\ IF Valid(tx[r].link) THEN Go(r, "read") ELSE End(r)
  /\ Keep

\* The account is read after the link is locked; the link of a disabled one is
\* consumed and does nothing.
ReadAccount(r) ==
  /\ At(r, "read")
  /\ IF acct.status = "disabled"
       THEN /\ link' = [link EXCEPT ![tx[r].link].used = TRUE]
            /\ End(r)
       ELSE /\ Take(r, [tx[r] EXCEPT !.pc = "write", !.a = acct,
                                     !.mail = link[tx[r].link].mail])
            /\ UNCHANGED link
  /\ UNCHANGED <<acct, sess, key, last, asks, sent>>

\* verify_email_token.
VerifyEmail(r) ==
  /\ At(r, "write") /\ tx[r].form = "verify"
  /\ acct' = [acct EXCEPT !.verified = TRUE]
  /\ link' = [link EXCEPT ![tx[r].link].used = TRUE, ![tx[r].link].done = @ + 1]
  /\ End(r)
  /\ UNCHANGED <<sess, key, last, asks, sent>>

-----------------------------------------------------------------------------
(* A native client hands its key to a browser.                              *)

\* issue_browser_handoff_token.
IssueHandoff ==
  /\ "handoff" \in asks /\ sent < MaxAsks
  /\ key = "live" /\ acct.status # "disabled"
  /\ link' = Append(link, NewLink("handoff", acct.mail))
  /\ sent' = sent + 1
  /\ UNCHANGED <<acct, sess, key, tx, held, last, asks>>

FollowHandoff(r, i) ==
  /\ link[i].kind = "handoff" /\ Begin(r, "handoff", "handoff", i, 0)

\* Mutant of LockHandoff: only the handoff's own row is locked.
LockOneRow(r) ==
  /\ At(r, "handoff")
  /\ IF Valid(tx[r].link) /\ key = "live" /\ acct.status # "disabled"
       THEN /\ tx' = [tx EXCEPT ![r] = [@ EXCEPT !.pc = "enter", !.a = acct]]
            /\ held' = [held EXCEPT ![r] = @ \cup {<<"link", tx[r].link>>}]
       ELSE End(r)
  /\ Keep

\* The SELECT ... FOR UPDATE of all rows joined.
LockHandoff(r) ==
  /\ At(r, "handoff")
  /\ IF Valid(tx[r].link) /\ key = "live" /\ acct.status # "disabled"
       THEN Take(r, [tx[r] EXCEPT !.pc = "enter", !.a = acct])
       ELSE End(r)
  /\ Keep

\* The session, its cookie and the commit.
EnterByHandoff(r) ==
  /\ At(r, "enter")
  /\ acct' = [acct EXCEPT !.status = IF @ = "password_unset" THEN "active" ELSE @]
  /\ sess' = Append(sess, NewSession(0, tx[r].a.sv))
  /\ link' = [link EXCEPT ![tx[r].link].used = TRUE, ![tx[r].link].done = @ + 1]
  /\ End(r)
  /\ UNCHANGED <<key, last, asks, sent>>

-----------------------------------------------------------------------------
(* The world.                                                               *)

RowFree(row) == \A r \in Requests : row \notin held[r]

RevokeKey ==
  /\ "handoff" \in asks /\ key = "live" /\ RowFree(<<"key">>)
  /\ key' = "revoked"
  /\ UNCHANGED <<acct, sess, link, tx, held, last, asks, sent>>

Disable ==
  /\ "admin" \in asks /\ acct.status # "disabled" /\ RowFree(<<"account">>)
  /\ acct' = [acct EXCEPT !.status = "disabled"]
  /\ UNCHANGED <<sess, link, key, tx, held, last, asks, sent>>

Age(i) ==
  /\ Valid(i)
  /\ link' = [link EXCEPT ![i] = IF @.young THEN [@ EXCEPT !.young = FALSE]
                                            ELSE [@ EXCEPT !.live = FALSE]]
  /\ UNCHANGED <<acct, sess, key, tx, held, last, asks, sent>>

Cycle(S)  == S # {} /\ \A r \in S : \E q \in S : Blocks(q, r)
AbortDeadlock(r) ==
  /\ \E S \in SUBSET Requests : r \in S /\ Cycle(S)
  /\ End(r)
  /\ Keep

Crash(r) == tx[r] # Idle /\ End(r) /\ Keep

Step(r) ==
  \/ Stamp(r) \/ FinishLogin(r) \/ WriteAccount(r) \/ Settle(r)
  \/ LockIssue(r) \/ IssueLink(r) \/ Consume(r) \/ ReadAccount(r) \/ VerifyEmail(r)
  \/ LockHandoff(r) \/ EnterByHandoff(r)

Next ==
  \/ \E r \in Requests :
       \/ Login(r) \/ RequestReset(r) \/ RequestVerify(r)
       \/ \E s \in DOMAIN sess :
            \/ ChangePassword(r, s) \/ SetPassword(r, s) \/ Reauth(r, s)
            \/ \E m \in Addresses : RequestChange(r, s, m)
       \/ \E i \in DOMAIN link : UseLink(r, i) \/ FollowHandoff(r, i)
       \/ Step(r) \/ AbortDeadlock(r) \/ Crash(r)
  \/ IssueHandoff \/ RevokeKey \/ Disable
  \/ \E i \in DOMAIN link : Age(i)

Spec == Init /\ [][Next]_vars

-----------------------------------------------------------------------------
TypeOK ==
  /\ acct \in Account
  /\ sess \in Seq(Session)
  /\ link \in Seq(Link)
  /\ key \in {"live", "revoked"}
  /\ \A r \in Requests : tx[r] # Idle => tx[r].link \in 0..Len(link)

\* A link serves once, however often it is followed at the same time, and
\* whichever of its requests dies.
LinkServesOnce == \A i \in DOMAIN link : link[i].done <= 1 /\ (link[i].done = 1 => link[i].used)

\* When a password is changed or set by a session, or reset by a link, no session
\* from before is let in any more but the one that it is set from: a login that is
\* being finished either was there to be revoked or comes after.
PasswordEndsSessions ==
  [][acct'.pw # acct.pw =>
       \A s \in DOMAIN sess :
         Accepted(s)' => \E r \in Requests :
           /\ tx[r].pc = "settle" /\ tx[r].form \in {"password", "version"}
           /\ tx[r].keep = s]_vars

\* "The current browser session keeps its claims" (set_account_password, which
\* stamps it as reauthenticated): the session that changes or sets the password
\* is let in by the step that ends the others.
KeptSessionStays ==
  [][\A r \in Requests, s \in DOMAIN sess :
       /\ tx[r].pc = "settle" /\ tx[r].form \in {"password", "version"} /\ tx[r].keep = s
       /\ Accepted(s) /\ tx'[r] = Idle /\ acct'.pw # acct.pw
       => Accepted(s)']_vars

\* Nobody enters by the handoff of a key that is revoked, even when it is revoked
\* while the handoff is being followed.
HandoffNeedsKey ==
  [][\A i \in DOMAIN link :
       link[i].kind = "handoff" /\ link'[i].done > link[i].done => key = "live"]_vars

\* A new password "bumps session_version (invalidates other open browser
\* sessions)" (set_account_password): nobody is let in who proved an older one.
OldPasswordsAreOut ==
  \A s \in DOMAIN sess : Accepted(s) /\ sess[s].pw # 0 => sess[s].pw >= acct.floor

=============================================================================
