------------------------------- MODULE Resets -------------------------------
(***************************************************************************)
(* The rate limits of the password reset: how many links an account and an *)
(* address may ask for (password_resets, counted by recent_reset_count)    *)
(* and how many tokens an address may submit (reset_attempts).  A request  *)
(* for a link is worked off by a background thread that counts under the   *)
(* lock, decides, and takes the lock again to create the token.            *)
(*                                                                         *)
(* Rows are kept by their age, like in module Lockout; which token sets    *)
(* which password is in module Accounts.                                   *)
(***************************************************************************)
EXTENDS Requests, Tally

CONSTANTS
  Owners,       \* accounts with an e-mail address
  LinksPerUser, \* RESET_MAX_PER_USER
  LinksPerIp,   \* RESET_MAX_PER_IP
  SubmitMax,    \* RESET_ATTEMPT_MAX_PER_IP
  LinkTtl,      \* RESET_TTL_SEC, in ticks of the clock
  ResetWindow,  \* RESET_WINDOW_SEC
  MaxMails      \* bound: links mailed to an account within one window

ASSUME ResetsAssumption ==
  /\ IsFiniteSet(Owners)
  /\ LinksPerUser \in Nat \ {0} /\ LinksPerIp \in Nat \ {0} /\ SubmitMax \in Nat \ {0}
  /\ LinkTtl \in Nat /\ ResetWindow \in Nat /\ LinkTtl <= ResetWindow
  /\ MaxMails \in Nat

VARIABLES
  links,      \* password_resets: (account, ip, age, used) -> rows
  submitted,  \* reset_attempts: (ip, age) -> rows
  resetTask,  \* the background threads
  mailed,     \* history: (account, age) -> links mailed
  tried       \* history: (ip, age) -> tokens that were looked at

resetVars == <<links, submitted, resetTask, mailed, tried>>

LinkAges == 0..ResetWindow
LinkRows == Owners \X Ips \X LinkAges \X BOOLEAN

\* recent_reset_count, for an account or an address.
LinksOf(u) == Tally(links, {k \in LinkRows : k[1] = u})
LinksFrom(i) == Tally(links, {k \in LinkRows : k[2] = i})

ResetsInit ==
  /\ links = [k \in LinkRows |-> 0] /\ submitted = [k \in Ips \X LinkAges |-> 0]
  /\ mailed = [k \in Owners \X LinkAges |-> 0] /\ tried = submitted
  /\ resetTask = [r \in Threads |-> Idle]

\* Mutant: the limit is reached one link late.
CountLinks_OneLate(r) ==
  /\ resetTask[r] = Idle
  /\ \E u \in Owners, i \in Ips :
       /\ LinksOf(u) <= LinksPerUser /\ LinksFrom(i) <= LinksPerIp
       /\ resetTask' = [resetTask EXCEPT ![r] = [op |-> "create", uid |-> u, ip |-> i]]
  /\ UNCHANGED <<links, submitted, mailed, tried>>

\* _process_forgot finds the account and asks recent_reset_count.
CountLinks(r) ==
  /\ resetTask[r] = Idle
  /\ \E u \in Owners, i \in Ips :
       /\ LinksOf(u) < LinksPerUser /\ LinksFrom(i) < LinksPerIp
       /\ resetTask' = [resetTask EXCEPT ![r] = [op |-> "create", uid |-> u, ip |-> i]]
  /\ UNCHANGED <<links, submitted, mailed, tried>>

\* create_reset_token, and the mail: the account's other links are used up.
CreateLink(r) ==
  /\ resetTask[r] # Idle
  /\ LET u == resetTask[r].uid
         new == <<u, resetTask[r].ip, 0, FALSE>>
     IN  /\ Tally(mailed, {u} \X LinkAges) < MaxMails
         /\ links' = [k \in LinkRows |->
                       IF k[1] # u THEN links[k]
                       ELSE IF k[4] THEN links[k] + links[[k EXCEPT ![4] = FALSE]]
                       ELSE IF k = new THEN 1 ELSE 0]
         /\ mailed' = [mailed EXCEPT ![<<u, 0>>] = @ + 1]
  /\ resetTask' = [resetTask EXCEPT ![r] = Idle]
  /\ UNCHANGED <<submitted, tried>>

\* reset_password_with_token: counted and recorded under one lock, before
\* the token is looked at.
SubmitToken(i) ==
  /\ Tally(submitted, {i} \X LinkAges) < SubmitMax
  /\ submitted' = [submitted EXCEPT ![<<i, 0>>] = @ + 1]
  /\ tried' = [tried EXCEPT ![<<i, 0>>] = @ + 1]
  /\ UNCHANGED <<links, resetTask, mailed>>

\* A link sets a password and is used up.
UseLink ==
  /\ \E k \in LinkRows :
       /\ links[k] > 0 /\ ~k[4] /\ k[3] <= LinkTtl
       /\ links' = [[links EXCEPT ![k] = @ - 1] EXCEPT ![[k EXCEPT ![4] = TRUE]] = @ + 1]
  /\ UNCHANGED <<submitted, resetTask, mailed, tried>>

\* The age up to which prune keeps an attempt.
AttemptHorizon == ResetWindow

\* prune, hourly and after a start: the links that are used or expired, and the
\* attempts past their horizon.
SweepResets ==
  /\ links' = [k \in LinkRows |-> IF k[4] \/ k[3] > LinkTtl THEN 0 ELSE links[k]]
  /\ submitted' = [k \in Ips \X LinkAges |->
                    IF k[2] > AttemptHorizon THEN 0 ELSE submitted[k]]
  /\ UNCHANGED <<resetTask, mailed, tried>>

\* Time passes; what leaves the window is counted no more.
ResetTick ==
  /\ links' = [k \in LinkRows |-> IF k[3] = 0 THEN 0 ELSE links[[k EXCEPT ![3] = @ - 1]]]
  /\ submitted' = [k \in Ips \X LinkAges |->
                    IF k[2] = 0 THEN 0 ELSE submitted[<<k[1], k[2] - 1>>]]
  /\ mailed' = [k \in Owners \X LinkAges |->
                 IF k[2] = 0 THEN 0 ELSE mailed[<<k[1], k[2] - 1>>]]
  /\ tried' = [k \in Ips \X LinkAges |-> IF k[2] = 0 THEN 0 ELSE tried[<<k[1], k[2] - 1>>]]
  /\ UNCHANGED resetTask

ResetsNext ==
  \/ \E r \in Threads : CountLinks(r) \/ CreateLink(r)
  \/ \E i \in Ips : SubmitToken(i)
  \/ UseLink \/ SweepResets \/ ResetTick

ResetsSpec == ResetsInit /\ [][ResetsNext]_resetVars

----------------------------------------------------------------------------
(* Properties *)

CreatingFor(u) == {r \in Threads : resetTask[r] # Idle /\ resetTask[r].uid = u}
CreatingFrom(i) == {r \in Threads : resetTask[r] # Idle /\ resetTask[r].ip = i}

\* The count and the insert are two steps of up to _FORGOT_WORKERS threads:
\* the links of an account, and those an address asked for, that one sweep
\* leaves standing exceed the limit by no more than one for each of them.  And
\* in any window no address has more than RESET_ATTEMPT_MAX_PER_IP tokens looked
\* at, though the attempts are deleted by a sweep that goes by a horizon of its own.
LimitsHold ==
  /\ \A u \in Owners :
       LinksOf(u) + Cardinality(CreatingFor(u)) <= LinksPerUser - 1 + Cardinality(Threads)
  /\ \A i \in Ips :
       LinksFrom(i) + Cardinality(CreatingFrom(i)) <= LinksPerIp - 1 + Cardinality(Threads)
  /\ \A i \in Ips : Tally(tried, {i} \X LinkAges) <= SubmitMax

\* "RESET_MAX_PER_USER = 5  # ...per account within the window".
MailLimit == \A u \in Owners : Tally(mailed, {u} \X LinkAges) <= LinksPerUser
=============================================================================
