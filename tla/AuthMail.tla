------------------------------ MODULE AuthMail ------------------------------
(***************************************************************************)
(* The mails that carry auth tokens.  A link token (password reset, e-mail *)
(* verification or change) is only queued by the request that issues it:   *)
(* the sweepers of the outbox, one per process, mail it.  A device or login *)
(* token is mailed by a task its request spawns after the commit.           *)
(***************************************************************************)
EXTENDS Naturals, Sequences

CONSTANTS
  Links,       \* tokens the outbox mails
  Codes,       \* device and login tokens
  Sweepers,
  MaxAttempts, \* auth_email_delivery_max_attempts
  MaxFaults    \* bound: failed commits, dead processes and changed secrets

\* A token has one purpose; a sweeper is not a task.
ASSUME MailAssumption == Links \cap Codes = {} /\ Sweepers \cap Codes = {}

Tokens  == Links \cup Codes
Senders == Sweepers \cup Codes     \* a code's task goes by its name

VARIABLES
  mail,     \* the delivery columns of each token's row
  queued,   \* the tokens issued, by created_at
  stale,    \* tokens that cannot be rebuilt: the secret has changed
  hand,     \* what each sender is doing
  mails,    \* history: mails the provider sent for a token
  faults

mailVars == <<mail, queued, stale, hand, mails, faults>>

NoMail == [status |-> "none", attempts |-> 0, due |-> FALSE, use |-> "open",
           nobody |-> FALSE]
Idle   == [at |-> "idle", token |-> {}, attempts |-> 0, ok |-> FALSE]

MailTypeOK ==
  /\ mail \in [Tokens ->
       [status : {"none", "pending", "sent", "failed", "exhausted"},
        attempts : Nat, due : BOOLEAN, use : {"open", "consumed", "expired"},
        nobody : BOOLEAN]]   \* a sentinel, issued for nobody
  /\ queued \in Seq(Tokens)
  /\ stale \subseteq Tokens
  /\ hand \in [Senders ->
       [at : {"idle", "load", "send", "record"}, token : SUBSET Tokens,
        attempts : Nat, ok : BOOLEAN]]
  /\ mails \in [Tokens -> Nat]
  /\ faults \in Nat

MailInit ==
  /\ mail = [t \in Tokens |-> NoMail]
  /\ queued = <<>> /\ stale = {} /\ faults = 0
  /\ hand = [s \in Senders |-> Idle]
  /\ mails = [t \in Tokens |-> 0]

\* The sweeper whose transaction has the token's row: FOR UPDATE.
Locked(t) == \E s \in Sweepers : t \in hand[s].token

-----------------------------------------------------------------------------
(* Tokens *)

\* A token's row commits; a code's task is spawned next, unless its process
\* dies between the two.  A sentinel is exhausted from the start.
IssueMail(t) ==
  /\ mail[t].status = "none"
  /\ \E nobody \in BOOLEAN :
       /\ nobody => t \in Codes
       /\ mail' = [mail EXCEPT ![t] =
            [NoMail EXCEPT !.status = IF nobody THEN "exhausted" ELSE "pending",
                           !.due = ~nobody, !.nobody = nobody]]
  /\ queued' = Append(queued, t)
  /\ \/ t \in Codes /\ hand' = [hand EXCEPT ![t].at = "load"]
     \/ UNCHANGED hand
  /\ UNCHANGED <<stale, mails, faults>>

\* Used, revoked or superseded: an UPDATE, which waits for the row.
ConsumeMail(t) ==
  /\ mail[t].status # "none" /\ mail[t].use # "consumed"
  /\ ~Locked(t)
  /\ mail' = [mail EXCEPT ![t].use = "consumed"]
  /\ UNCHANGED <<queued, stale, hand, mails, faults>>

ExpireMail(t) ==
  /\ mail[t].status # "none" /\ mail[t].use = "open"
  /\ mail' = [mail EXCEPT ![t].use = "expired"]
  /\ UNCHANGED <<queued, stale, hand, mails, faults>>

\* delivery_next_attempt_at passes.
BecomeDue(t) ==
  /\ mail[t].status = "failed" /\ ~mail[t].due
  /\ mail' = [mail EXCEPT ![t].due = TRUE]
  /\ UNCHANGED <<queued, stale, hand, mails, faults>>

\* The operator changes the secret that raw tokens are derived from.
ChangeSecret ==
  /\ faults < MaxFaults
  /\ stale' = {t \in Tokens : mail[t].status # "none"}
  /\ faults' = faults + 1
  /\ UNCHANGED <<mail, queued, hand, mails>>

-----------------------------------------------------------------------------
(* Sending *)

\* What the provider does, and what the sender learns: an accepted mail whose
\* answer is lost counts as not sent.
Answers(t) == {<<TRUE, TRUE>>, <<TRUE, FALSE>>, <<FALSE, FALSE>>}

\* A sweeper has no mail to rebuild for a code: _send_auth_token_by_purpose.
Sendable(s, t) == s = t \/ t \in Links

Send(s, t) ==
  /\ hand[s].at = "send" /\ hand[s].token = {t}
  /\ \E answer \in IF Sendable(s, t) THEN Answers(t) ELSE {<<FALSE, FALSE>>} :
       /\ mails' = [mails EXCEPT ![t] = @ + IF answer[1] THEN 1 ELSE 0]
       /\ hand' = [hand EXCEPT ![s].at = "record", ![s].ok = answer[2]]
  /\ UNCHANGED <<mail, queued, stale, faults>>

\* Mutant of Failed: one attempt too many is waited for.
FailedLate(n) == IF n > MaxAttempts THEN "exhausted" ELSE "failed"
Failed(n) == IF n >= MaxAttempts THEN "exhausted" ELSE "failed"

\* The result is computed from the row as the sender read it.
Recorded(t, n, ok) ==
  [mail EXCEPT ![t].attempts = n, ![t].due = FALSE,
               ![t].status = IF ok THEN "sent" ELSE Failed(n)]

\* The result commits; a task's UPDATE waits for a sweeper that has the row.
Record(s, t) ==
  /\ hand[s].at = "record" /\ hand[s].token = {t}
  /\ s = t => ~Locked(t)
  /\ mail' = Recorded(t, hand[s].attempts + 1, hand[s].ok)
  /\ hand' = [hand EXCEPT ![s] = Idle]
  /\ UNCHANGED <<queued, stale, mails, faults>>

\* The COMMIT fails, or the process dies: the row is as it was, and a task is
\* gone for good.
Fail(s) ==
  /\ faults < MaxFaults
  /\ hand[s].at # "idle"
  /\ hand' = [hand EXCEPT ![s] = Idle]
  /\ faults' = faults + 1
  /\ UNCHANGED <<mail, queued, stale, mails>>

\* A task loads its token, without a lock.
LoadMail(t) ==
  /\ hand[t].at = "load"
  /\ hand' = [hand EXCEPT ![t] =
       IF mail[t].nobody THEN Idle
       ELSE [at |-> "send", token |-> {t}, attempts |-> mail[t].attempts,
             ok |-> FALSE]]
  /\ UNCHANGED <<mail, queued, stale, mails, faults>>

-----------------------------------------------------------------------------
(* The outbox: run_auth_email_outbox_once *)

DueMail(t) ==
  /\ mail[t].use = "open"
  /\ mail[t].status \in {"pending", "failed"}
  /\ mail[t].attempts < MaxAttempts
  /\ mail[t].due

\* Mutant of Takes: without FOR UPDATE SKIP LOCKED.
TakesAny(t) == DueMail(t)
Takes(t) == DueMail(t) /\ ~Locked(t)

\* The oldest token that is due and that no other sweeper has.
Oldest(t) ==
  \E i \in DOMAIN queued :
    /\ queued[i] = t /\ Takes(t)
    /\ \A k \in 1..(i - 1) : ~Takes(queued[k])

\* One that cannot be rebuilt is exhausted at once.
Sweep(s, t) ==
  /\ hand[s].at = "idle" /\ Oldest(t)
  /\ \/ /\ t \in stale
        /\ mail' = [mail EXCEPT ![t].status = "exhausted",
                                ![t].attempts = @ + 1, ![t].due = FALSE]
        /\ UNCHANGED hand
     \/ /\ t \notin stale
        /\ hand' = [hand EXCEPT ![s] =
             [at |-> "send", token |-> {t}, attempts |-> mail[t].attempts,
              ok |-> FALSE]]
        /\ UNCHANGED mail
  /\ UNCHANGED <<queued, stale, mails, faults>>

Sweeping(s) ==
  \E t \in Tokens : Sweep(s, t) \/ Send(s, t) \/ Record(s, t)

MailNext ==
  \/ \E t \in Tokens :
       IssueMail(t) \/ ConsumeMail(t) \/ ExpireMail(t) \/ BecomeDue(t)
  \/ \E s \in Sweepers : Sweeping(s)
  \/ \E t \in Codes : LoadMail(t) \/ Send(t, t) \/ Record(t, t)
  \/ \E s \in Senders : Fail(s)
  \/ ChangeSecret

MailSpec == MailInit /\ [][MailNext]_mailVars

\* Sweeps repeat for ever; a retry becomes due in time.
MailFairness ==
  /\ \A s \in Sweepers : WF_mailVars(Sweeping(s))
  /\ \A t \in Links : WF_mailVars(BecomeDue(t))

-----------------------------------------------------------------------------
(* What a user may expect of the mails *)

\* The outbox never mails a link that is used up, or known to have arrived or
\* to be given up: a sweeper keeps the row from the SELECT to the COMMIT,
\* although other sweepers and the pages that consume links are at it.
MailIsWanted ==
  [][\A t \in Links : mails'[t] > mails[t] =>
       /\ mail[t].status \in {"pending", "failed"}
       /\ mail[t].use # "consumed"]_mailVars

\* A link that is queued is mailed, given up after MaxAttempts, or no longer
\* needed, although commits fail and sweepers die with rows in hand.
LinkMailsEnd ==
  \A t \in Links :
    mail[t].status \in {"pending", "failed"}
      ~> mail[t].status \in {"sent", "exhausted"} \/ mail[t].use # "open"

\* What the comment at browser_auth.py:411 says: device and login tokens are
\* not routed through the outbox.
CodesStayOut == \A s \in Sweepers : hand[s].token \cap Codes = {}
=============================================================================
