------------------------------ MODULE Lockout -------------------------------
(***************************************************************************)
(* The login_attempts table and the three lockout tiers of auth.py.  Three *)
(* requests are guarded by them: the password step of a sign-in, its code  *)
(* step, and the current password asked of a signed-in user.  Each looks   *)
(* at the tiers under the lock, judges the password or the code without    *)
(* it, and takes the lock again to record the outcome under the time it    *)
(* began at.                                                               *)
(*                                                                         *)
(* A failed attempt is kept by its age: a row older than Window is read by *)
(* no query (prune deletes it a day later), and neither are the rows of    *)
(* successful attempts.  The clock is read in the step that looks at the   *)
(* tiers.  An unknown name is a name whose password is never right.        *)
(***************************************************************************)
EXTENDS Requests, Tally

CONSTANTS
  Names,      \* user names that are tried
  TwoFactor,  \* the accounts with 2FA on
  PairMax,    \* LOCKOUT_THRESHOLD
  UserMax,    \* USER_LOCKOUT_THRESHOLD
  IpMax,      \* IP_LOCKOUT_THRESHOLD
  Window      \* LOCKOUT_WINDOW_SEC, in ticks of the clock

ASSUME LockoutAssumption ==
  /\ IsFiniteSet(Names) /\ TwoFactor \subseteq Names
  /\ PairMax \in Nat \ {0} /\ UserMax \in Nat \ {0} /\ IpMax \in Nat \ {0}
  /\ Window \in Nat

VARIABLES
  failed,    \* ((name, ip), age) -> failed attempts
  lockTask,  \* what each request thread is judging
  codes      \* history: wrong codes, forgotten by all that clears an account's
             \* failures but a right password at the sign-in

lockVars == <<failed, lockTask, codes>>

Ages == 0..Window
Keys == Names \X Ips
NoRows == [k \in Keys \X Ages |-> 0]

\* _recent_failures, for a pair, a name or an address.
RecentFailures(rows, keys) == Tally(rows, keys \X Ages)

OfName(n) == {n} \X Ips
OfIp(i) == Names \X {i}

\* Mutant: a tier locks one failure late.
Locked_OneLate(n, i) ==
  \/ RecentFailures(failed, {<<n, i>>}) > PairMax
  \/ RecentFailures(failed, OfName(n)) > UserMax
  \/ RecentFailures(failed, OfIp(i)) > IpMax

\* _locked_until is not 0.
Locked(n, i) ==
  \/ RecentFailures(failed, {<<n, i>>}) >= PairMax
  \/ RecentFailures(failed, OfName(n)) >= UserMax
  \/ RecentFailures(failed, OfIp(i)) >= IpMax

LockInit ==
  failed = NoRows /\ codes = NoRows /\ lockTask = [r \in Threads |-> Idle]

\* The look at the tiers; a locked caller is answered 429 and leaves no row.
\* Only an account with 2FA has a code step.
Attempt(r, op) ==
  /\ lockTask[r] = Idle
  /\ \E n \in Names, i \in Ips :
       /\ op = "finish" => n \in TwoFactor
       /\ ~Locked(n, i)
       /\ lockTask' = [lockTask EXCEPT ![r] = [op |-> op, key |-> <<n, i>>, age |-> 0]]
  /\ UNCHANGED <<failed, codes>>

\* One row more, unless its time has left the window meanwhile.
AddRow(rows, t) ==
  IF t.age \in Ages THEN [rows EXCEPT ![<<t.key, t.age>>] = @ + 1] ELSE rows

\* DELETE FROM login_attempts WHERE username = ? AND success = 0
ClearName(rows, n) ==
  [k \in Keys \X Ages |-> IF k[1][1] = n THEN 0 ELSE rows[k]]

\* The password or the code was wrong.
RecordFailure(r) ==
  /\ lockTask[r] # Idle
  /\ failed' = AddRow(failed, lockTask[r])
  /\ codes' = IF lockTask[r].op = "finish" THEN AddRow(codes, lockTask[r]) ELSE codes
  /\ lockTask' = [lockTask EXCEPT ![r] = Idle]

\* Mutant: a right password clears the history of any account.
Clears_Always(op, n) == TRUE

\* "For a 2FA account the history is only cleared once the second step
\* succeeds."
Clears(op, n) == op # "login" \/ n \notin TwoFactor

\* It was right: verify_login, totp_login_finish or verify_current_password.
RecordSuccess(r) ==
  /\ lockTask[r] # Idle
  /\ LET op == lockTask[r].op
         n == lockTask[r].key[1]
     IN  /\ failed' = IF Clears(op, n) THEN ClearName(failed, n) ELSE failed
         /\ codes' = IF op = "login" THEN codes ELSE ClearName(codes, n)
  /\ lockTask' = [lockTask EXCEPT ![r] = Idle]

\* clear_lockout (ADMIN_RESET), and the same statement behind a reset link.
ClearLockout ==
  /\ \E n \in Names : failed' = ClearName(failed, n) /\ codes' = ClearName(codes, n)
  /\ UNCHANGED lockTask

\* Every row grows older; the oldest leave the window.
Older(rows) ==
  [k \in Keys \X Ages |-> IF k[2] = 0 THEN 0 ELSE rows[<<k[1], k[2] - 1>>]]

LockTick ==
  /\ failed' = Older(failed) /\ codes' = Older(codes)
  /\ lockTask' = [r \in Threads |->
       IF lockTask[r] = Idle \/ lockTask[r].age > Window THEN lockTask[r]
       ELSE [lockTask[r] EXCEPT !.age = @ + 1]]

LockNext ==
  \/ \E r \in Threads :
       \/ \E op \in {"login", "finish", "reauth"} : Attempt(r, op)
       \/ RecordFailure(r) \/ RecordSuccess(r)
  \/ ClearLockout \/ LockTick

LockSpec == LockInit /\ [][LockNext]_lockVars

----------------------------------------------------------------------------
(* Properties *)

\* The requests now judging an attempt on one of the keys.
Judging(keys) == {r \in Threads : lockTask[r] # Idle /\ lockTask[r].key \in keys}

\* What a tier lets through: up to one below its threshold, and one more for
\* every request that looked before the others recorded.
WithinTier(rows, keys, max) ==
  RecentFailures(rows, keys) + Cardinality(Judging(keys))
    <= max - 1 + Cardinality(Threads)

\* The look at the tiers and the record of the outcome are two steps, with
\* the hash between them, and a slow request records under an old time: even
\* so no window of LOCKOUT_WINDOW_SEC holds more failures of a pair, a name
\* or an address than the threshold and the requests in flight allow.
TiersHold ==
  /\ \A k \in Keys : WithinTier(failed, {k}, PairMax)
  /\ \A n \in Names : WithinTier(failed, OfName(n), UserMax)
  /\ \A i \in Ips : WithinTier(failed, OfIp(i), IpMax)

\* "otherwise a known password would reset the code-guess counter at will":
\* knowing the password of a 2FA account buys no guess at its code.  The
\* wrong codes since the last full sign-in, re-authentication of a signed-in
\* user or reset of the account stay within the tiers, whatever right
\* passwords come between them.
CodeGuessesHold ==
  \A n \in TwoFactor :
    /\ WithinTier(codes, OfName(n), UserMax)
    /\ \A i \in Ips : WithinTier(codes, {<<n, i>>}, PairMax)
=============================================================================
