-------------------------------- MODULE Totp --------------------------------
(***************************************************************************)
(* The second factor of one account: the TOTP secret and the last time     *)
(* step that was accepted, the recovery codes, the tokens of half-finished *)
(* sign-ins and the requests that use them.  A code is compared without    *)
(* the lock, on the secret and the last step read before; only what is     *)
(* written is written under it.                                            *)
(*                                                                         *)
(* A code is a pair of its secret and its step (codes of different steps   *)
(* are taken to differ) or of its set of recovery codes and its place in   *)
(* it.  The lockout tiers (module Lockout) only make attempts fewer and    *)
(* are left out.                                                           *)
(***************************************************************************)
EXTENDS Requests

CONSTANTS
  MaxTries,   \* TOTP_LOGIN_MAX_ATTEMPTS
  CodeCount,  \* RECOVERY_CODE_COUNT
  MaxStep,    \* bound: time steps are 0..MaxStep
  MaxSecrets, \* bound: secrets ever generated
  MaxSets,    \* bound: sets of recovery codes ever generated
  MaxTokens   \* bound: sign-in tokens ever handed out

ASSUME TotpAssumption ==
  /\ MaxTries \in Nat \ {0} /\ CodeCount \in Nat
  /\ MaxStep \in Nat /\ MaxSecrets \in Nat /\ MaxSets \in Nat /\ MaxTokens \in Nat

Null == -1   \* a totp_last_step that was never set

VARIABLES
  step,      \* totp_step of the clock
  secret,    \* users.totp_secret (0: 2FA is off)
  lastStep,  \* users.totp_last_step
  offered,   \* totp_pending.secret (0: no set-up)
  recovery,  \* totp_recovery: the unused codes
  tries,     \* totp_logins: token -> attempts
  minted,    \* secrets, sets and tokens generated so far
  totpTask,  \* what each request thread has read
  accepted,  \* history: the codes accepted
  twice,     \* history: the codes accepted again
  judged,    \* history: token -> codes judged
  missed,    \* history: the TOTP codes accepted since a request read what it goes by
  crossed    \* history: the codes that were missed by a request accepted later

totpVars == <<step, secret, lastStep, offered, recovery, tries, minted, totpTask,
              accepted, twice, judged, missed, crossed>>

TotpInit ==
  /\ step = 0 /\ secret = 0 /\ lastStep = Null /\ offered = 0 /\ recovery = {}
  /\ tries = [t \in {} |-> 0] /\ minted = [secret |-> 0, set |-> 0, token |-> 0]
  /\ totpTask = [r \in Threads |-> Idle]
  /\ accepted = {} /\ twice = {} /\ crossed = {}
  /\ missed = [r \in Threads |-> {}]
  /\ judged = [t \in 1..MaxTokens |-> 0]

NextStep == step < MaxStep /\ step' = step + 1 /\ UNCHANGED
  <<secret, lastStep, offered, recovery, tries, minted, totpTask, accepted, twice,
    judged, missed, crossed>>

\* A request begins.
Enter(r, t) ==
  /\ totpTask[r] = Idle
  /\ totpTask' = [totpTask EXCEPT ![r] = t]
  /\ missed' = [missed EXCEPT ![r] = {}] /\ UNCHANGED crossed

\* A request goes on, or ends.
GoOn(r, op) == totpTask' = [totpTask EXCEPT ![r].op = op]
Leave(r) == totpTask' = [totpTask EXCEPT ![r] = Idle]

\* secrets.token_bytes and secrets.choice: what was never there before.
Mint(kind, max) ==
  minted[kind] < max /\ minted' = [minted EXCEPT ![kind] = @ + 1]

Accept(c) ==
  /\ accepted' = accepted \cup {c}
  /\ twice' = IF c \in accepted THEN twice \cup {c} ELSE twice

\* A TOTP code of r is accepted: every other request that compares or confirms
\* one misses it, and the codes r has missed are crossed.
AcceptStep(r, sec, s) ==
  LET c == <<"totp", sec, s>> IN
    /\ Accept(c)
    /\ crossed' = crossed \cup missed[r]
    /\ missed' = [q \in Threads |->
                   IF q # r /\ totpTask[q].op \in {"finish", "disable", "renew", "confirm"}
                     THEN missed[q] \cup {c} ELSE {}]

NewCodes == {<<"recovery", minted.set + 1, n>> : n \in 1..CodeCount}

\* totp_match's candidates: the step before, this one and the next, later
\* than the last one.
Candidates(at, last) == {s \in {at - 1, at, at + 1} : s >= 0 /\ s > last}

----------------------------------------------------------------------------
(* Turning it on *)

\* _handle_totp_setup on an account that had no second factor at the gate.
SetupRead(r) ==
  /\ secret = 0 /\ Enter(r, [op |-> "setup"])
  /\ UNCHANGED <<step, secret, lastStep, offered, recovery, tries, minted, accepted,
                 twice, judged>>

\* totp_begin
Setup(r) ==
  /\ totpTask[r].op = "setup"
  /\ Mint("secret", MaxSecrets) /\ offered' = minted.secret + 1
  /\ Leave(r)
  /\ UNCHANGED <<step, secret, lastStep, recovery, tries, accepted, twice,
                 judged, missed, crossed>>

\* totp_confirm reads the secret, the clock and the code.
ConfirmRead(r) ==
  /\ offered # 0
  /\ \E s \in Candidates(step, Null) :
       Enter(r, [op |-> "confirm", secret |-> offered, found |-> s])
  /\ UNCHANGED <<step, secret, lastStep, offered, recovery, tries, minted, accepted,
                 twice, judged>>

Confirm(r) ==
  /\ totpTask[r].op = "confirm"
  /\ secret' = totpTask[r].secret /\ lastStep' = totpTask[r].found /\ offered' = 0
  /\ Mint("set", MaxSets) /\ recovery' = NewCodes
  /\ AcceptStep(r, totpTask[r].secret, totpTask[r].found)
  /\ Leave(r)
  /\ UNCHANGED <<step, tries, judged>>

----------------------------------------------------------------------------
(* The code step of a sign-in, and the code asked before 2FA is weakened *)

\* totp_login_begin, for a sign-in that saw a second factor before it hashed
\* the password; it may be off again by now.
LoginBegin(r) ==
  /\ totpTask[r] = Idle /\ minted.set > 0
  /\ Mint("token", MaxTokens)
  /\ tries' = [t \in DOMAIN tries \cup {minted.token + 1} |->
                IF t \in DOMAIN tries THEN tries[t] ELSE 0]
  /\ UNCHANGED <<step, secret, lastStep, offered, recovery, totpTask, accepted, twice,
                 judged, missed, crossed>>

DropToken(tok) == tries' = [t \in DOMAIN tries \ {tok} |-> tries[t]]

\* What a check goes by, as it was when the request looked.
Reading(op, tok) ==
  [op |-> op, tok |-> tok, secret |-> secret, last |-> lastStep, at |-> step,
   before |-> IF tok \in DOMAIN tries THEN tries[tok] ELSE 0]

\* Mutant: the attempt is only looked at, to be counted with the outcome.
CodeRead_CountsLater(r) ==
  /\ \E tok \in DOMAIN tries :
       /\ tries[tok] < MaxTries /\ secret # 0
       /\ Enter(r, Reading("finish", tok))
  /\ UNCHANGED <<step, secret, lastStep, offered, recovery, tries, minted, accepted,
                 twice, judged>>

\* totp_login_finish: the token is looked up and the attempt counted at once;
\* a token that is spent, or whose account has no secret any more, goes.
CodeRead(r) ==
  /\ \E tok \in DOMAIN tries :
       IF tries[tok] < MaxTries /\ secret # 0
         THEN /\ Enter(r, Reading("finish", tok))
              /\ tries' = [tries EXCEPT ![tok] = @ + 1]
         ELSE /\ totpTask[r] = Idle
              /\ DropToken(tok) /\ UNCHANGED <<totpTask, missed, crossed>>
  /\ UNCHANGED <<step, secret, lastStep, offered, recovery, minted, accepted, twice,
                 judged>>

\* verify_totp_code, before totp_disable or totp_new_recovery_codes.
VerifyRead(r) ==
  /\ secret # 0
  /\ \E op \in {"disable", "renew"} : Enter(r, Reading(op, 0))
  /\ UNCHANGED <<step, secret, lastStep, offered, recovery, tries, minted, accepted,
                 twice, judged>>

\* A code of the request was judged; the handler has more to do.
Judge(r, ok) ==
  /\ totpTask[r].op \in {"finish", "disable", "renew"}
  /\ GoOn(r, CASE totpTask[r].op = "finish" /\ ok -> "finished"
               [] totpTask[r].op = "finish" /\ ~ok -> "failed"
               [] totpTask[r].op = "disable" -> IF ok THEN "disabling" ELSE "refused"
               [] totpTask[r].op = "renew" -> IF ok THEN "renewing" ELSE "refused")
  /\ judged' = IF totpTask[r].op = "finish"
                 THEN [judged EXCEPT ![totpTask[r].tok] = @ + 1] ELSE judged

\* Mutant: the step of the code that is accepted is not burned.
ConsumeCode_NotBurned(r) ==
  /\ Judge(r, TRUE)
  /\ \E s \in Candidates(totpTask[r].at, totpTask[r].last) :
       AcceptStep(r, totpTask[r].secret, s)
  /\ UNCHANGED <<step, secret, lastStep, offered, recovery, tries, minted>>

\* _consume_second_factor: a code of the secret the request read, for a step
\* after the one it read; the step found is written whatever is there now.
ConsumeCode(r) ==
  /\ Judge(r, TRUE)
  /\ \E s \in Candidates(totpTask[r].at, totpTask[r].last) :
       lastStep' = s /\ AcceptStep(r, totpTask[r].secret, s)
  /\ UNCHANGED <<step, secret, offered, recovery, tries, minted>>

\* Mutant: the code that is accepted stays unused.
ConsumeRecovery_StaysUnused(r) ==
  /\ Judge(r, TRUE)
  /\ \E c \in recovery : Accept(c)
  /\ UNCHANGED <<step, secret, lastStep, offered, recovery, tries, minted, missed, crossed>>

\* Or an unused recovery code, looked up and marked used under one lock.
ConsumeRecovery(r) ==
  /\ Judge(r, TRUE)
  /\ \E c \in recovery : Accept(c) /\ recovery' = recovery \ {c}
  /\ UNCHANGED <<step, secret, lastStep, offered, tries, minted, missed, crossed>>

ConsumeNothing(r) ==
  /\ Judge(r, FALSE)
  /\ UNCHANGED <<step, secret, lastStep, offered, recovery, tries, minted, accepted,
                 twice, missed, crossed>>

\* totp_login_finish, the outcome: a right code ends the token, and so does
\* the last wrong one.
CodeRecord(r) ==
  /\ totpTask[r].op \in {"finished", "failed"}
  /\ IF totpTask[r].op = "finished" \/ totpTask[r].before + 1 >= MaxTries
       THEN DropToken(totpTask[r].tok) ELSE UNCHANGED tries
  /\ Leave(r)
  /\ UNCHANGED <<step, secret, lastStep, offered, recovery, minted, accepted, twice,
                 judged, missed, crossed>>

\* A code was not right: the answer is 403.
Refuse(r) ==
  /\ totpTask[r].op = "refused" /\ Leave(r)
  /\ UNCHANGED <<step, secret, lastStep, offered, recovery, tries, minted, accepted,
                 twice, judged, missed, crossed>>

\* A token expires or is pruned.
TokenLapse ==
  /\ \E tok \in DOMAIN tries : DropToken(tok)
  /\ UNCHANGED <<step, secret, lastStep, offered, recovery, minted, totpTask, accepted,
                 twice, judged, missed, crossed>>

\* A set-up that was not confirmed in time is pruned.
SetupLapse ==
  /\ offered # 0 /\ offered' = 0
  /\ UNCHANGED <<step, secret, lastStep, recovery, tries, minted, totpTask, accepted,
                 twice, judged, missed, crossed>>

----------------------------------------------------------------------------
(* Turning it off, and new recovery codes *)

\* totp_disable
TurnOff ==
  /\ secret' = 0 /\ lastStep' = Null /\ offered' = 0 /\ recovery' = {}
  /\ tries' = [t \in {} |-> 0]
  /\ UNCHANGED <<step, minted, accepted, twice,
                 judged, missed, crossed>>

Disable(r) == totpTask[r].op = "disabling" /\ Leave(r) /\ TurnOff
AdminDisable == secret # 0 /\ TurnOff /\ UNCHANGED totpTask

\* Mutant: the account's secret is not looked at again.
Renew_NoRecheck(r) ==
  /\ totpTask[r].op = "renewing"
  /\ Mint("set", MaxSets) /\ recovery' = NewCodes
  /\ Leave(r)
  /\ UNCHANGED <<step, secret, lastStep, offered, tries, accepted, twice,
                 judged, missed, crossed>>

\* totp_new_recovery_codes: 409 when 2FA is off by now.
Renew(r) ==
  /\ totpTask[r].op = "renewing"
  /\ IF secret # 0
       THEN Mint("set", MaxSets) /\ recovery' = NewCodes
       ELSE UNCHANGED <<minted, recovery>>
  /\ Leave(r)
  /\ UNCHANGED <<step, secret, lastStep, offered, tries, accepted, twice,
                 judged, missed, crossed>>

TotpNext ==
  \/ NextStep \/ TokenLapse \/ SetupLapse \/ AdminDisable
  \/ \E r \in Threads :
       \/ SetupRead(r) \/ Setup(r) \/ ConfirmRead(r) \/ Confirm(r)
       \/ LoginBegin(r) \/ CodeRead(r) \/ VerifyRead(r)
       \/ ConsumeCode(r) \/ ConsumeRecovery(r) \/ ConsumeNothing(r)
       \/ CodeRecord(r) \/ Refuse(r) \/ Disable(r) \/ Renew(r)

TotpSpec == TotpInit /\ [][TotpNext]_totpVars

----------------------------------------------------------------------------
(* Properties *)

\* "eight single-use recovery codes": two requests with the same code at once
\* do not both get through, across new sets and a new set-up.
RecoveryOnce == \A c \in twice : c[1] # "recovery"

\* A sign-in token is good for TOTP_LOGIN_MAX_ATTEMPTS codes and no more,
\* however many requests carry it at the same time.
TriesBounded == \A tok \in 1..MaxTokens : judged[tok] <= MaxTries

\* "the old ones stop working": the unused codes are all of the newest set,
\* and an account without 2FA has none, though a renewal and a set-up or an
\* admin's reset of the same account may cross.
RecoveryFits ==
  /\ \A c \in recovery : c[2] = minted.set
  /\ secret = 0 => recovery = {}

\* A TOTP code gets through again only after its acceptance fell between another
\* accepted request's reading of the last step and its writing of it: that one
\* wrote the step it had found, whatever was there by then.  A code no such
\* request crossed is spent for good, in the face of requests that are refused,
\* spend a recovery code or cross other codes, of 2FA turned off and a new set-up,
\* and of a confirmation that comes late.
OnceInTurn == \A c \in twice : c[1] = "totp" => c \in crossed
=============================================================================
