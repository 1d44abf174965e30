------------------------------ MODULE Accounts ------------------------------
(***************************************************************************)
(* auth.AuthManager's accounts, sessions, two-factor set-up and reset      *)
(* tokens, as the web handlers use them.  Every request runs in a thread   *)
(* of its own; `self.lock` makes each block of statements under it one     *)
(* step, and what a handler read before it took the lock again (the        *)
(* signed-in user, the password row) may be stale by then.                 *)
(*                                                                         *)
(* Tokens are numbers never handed out twice.  Passwords and TOTP secrets  *)
(* have no value here: what counts is whether a password must be changed,  *)
(* whether an account has a secret, and which sessions a change ends.      *)
(* A wrong password or code, a lockout (module Lockout) or a failed        *)
(* validation ends the request without touching these tables.  Clock times *)
(* are left out: a row may lapse (expire, or be pruned) at any moment.     *)
(***************************************************************************)
EXTENDS Requests

CONSTANTS
  RequireTotp,  \* AUTH_REQUIRE_TOTP: "off", "admins" or "all"
  Routes,       \* the signed-in requests that clients send
  MaxUsers,     \* bound: accounts ever created
  MaxFresh      \* bound: tokens ever handed out

AllRoutes == {"logout", "change_password", "create_user", "reset_user", "set_role",
              "delete_user", "totp_setup", "totp_enable", "totp_disable", "totp_reset"}

ASSUME AccountsAssumption ==
  /\ RequireTotp \in {"off", "admins", "all"}
  /\ Routes \subseteq AllRoutes
  /\ MaxUsers \in Nat \ {0} /\ MaxFresh \in Nat

VARIABLES
  users,     \* users table: id -> role, must_change_pw, 2FA on
  nextId,    \* AUTOINCREMENT of the users table
  sessions,  \* sessions table
  pending,   \* totp_pending table: the accounts with an unconfirmed secret
  logins,    \* totp_logins table: [tok, uid]
  resets,    \* password_resets table: [tok, uid, used]
  fresh,     \* secrets.token_urlsafe: tokens handed out
  task,      \* what each request thread has read so far
  resetsBy   \* history: the tokens that set a password, in order

vars == <<users, nextId, sessions, pending, logins, resets, fresh, task, resetsBy>>
tables == <<users, nextId, sessions, pending, logins, resets, fresh, resetsBy>>

Roles == {"admin", "user"}
User == [role : Roles, must : BOOLEAN, totp : BOOLEAN]

\* `second` (history): the session passed the second factor, or is the one
\* that set it up.
Session == [tok : Nat, uid : Nat, second : BOOLEAN]

HasTotp(uid) == uid \in DOMAIN users /\ users[uid].totp

Admins == {u \in DOMAIN users : users[u].role = "admin"}

----------------------------------------------------------------------------
(* The gates of webserver.py, on the signed-in user as get_session saw it. *)

MustChangeAllowed == {"me", "change_password", "logout"}
TotpSetupAllowed == {"me", "totp_setup", "totp_enable", "logout"}

\* _totp_required
TotpRequired(user) ==
  RequireTotp = "all" \/ (RequireTotp = "admins" /\ user.role = "admin")

\* _password_change_pending and _second_factor_pending let the route pass.
Passes(user, route) ==
  /\ user.must => route \in MustChangeAllowed
  /\ (TotpRequired(user) /\ ~user.totp) => route \in TotpSetupAllowed

----------------------------------------------------------------------------
(* Steps shared by the handlers. *)

Begin(r, t) == task[r] = Idle /\ task' = [task EXCEPT ![r] = t]
Done(r) == task' = [task EXCEPT ![r] = Idle]

Fresh == fresh < MaxFresh /\ fresh' = fresh + 1

DropSessions(uid) == {s \in sessions : s.uid # uid}

\* create_session: a row for the id, whether or not the account still exists.
NewSession(uid, second) ==
  /\ Fresh
  /\ sessions' = sessions \cup {[tok |-> fresh + 1, uid |-> uid, second |-> second]}

\* UPDATE users ... WHERE id = ?
Update(uid, user) == users' = [users EXCEPT ![uid] = user]

\* create_user
AddUser(role, must) ==
  /\ nextId <= MaxUsers /\ nextId' = nextId + 1
  /\ users' = [u \in DOMAIN users \cup {nextId} |->
                IF u = nextId
                  THEN [role |-> role, must |-> must, totp |-> FALSE]
                  ELSE users[u]]

\* The TOTP rows that go with an account or with its second factor.
DropTotp(uid) ==
  /\ pending' = pending \ {uid}
  /\ logins' = {l \in logins : l.uid # uid}

----------------------------------------------------------------------------
(* Signing in *)

\* _bootstrap_admin on an empty table: the first account is an admin; its
\* password must be changed unless ADMIN_PASSWORD supplied it.  Or the start
\* finds that account as an earlier life of the process left it, signed out
\* and possibly with a second factor.
Init ==
  /\ \E must, totp \in BOOLEAN :
       users = [u \in {1} |-> [role |-> "admin", must |-> must, totp |-> totp]]
  /\ nextId = 2 /\ fresh = 0
  /\ sessions = {} /\ pending = {} /\ logins = {} /\ resets = {}
  /\ task = [r \in Threads |-> Idle] /\ resetsBy = <<>>

\* verify_login reads the account and checks the password outside the lock.
LoginRead(r) ==
  /\ \E u \in DOMAIN users :
       Begin(r, [op |-> "login", uid |-> u, totp |-> users[u].totp])
  /\ UNCHANGED tables

\* Then either a session, or the token of a pending second step.
LoginDone(r) ==
  /\ task[r].op = "login"
  /\ IF ~task[r].totp
       THEN NewSession(task[r].uid, FALSE) /\ UNCHANGED logins
       ELSE /\ Fresh /\ UNCHANGED sessions
            /\ logins' = logins \cup {[tok |-> fresh + 1, uid |-> task[r].uid]}
  /\ Done(r)
  /\ UNCHANGED <<users, nextId, pending, resets, resetsBy>>

\* totp_login_finish finds the token, its account and the secret.
FinishRead(r) ==
  /\ \E l \in logins :
       \/ /\ HasTotp(l.uid)
          /\ Begin(r, [op |-> "finish", login |-> l]) /\ UNCHANGED logins
       \/ /\ ~HasTotp(l.uid)
          /\ task[r] = Idle /\ logins' = logins \ {l} /\ UNCHANGED task
  /\ UNCHANGED <<users, nextId, sessions, pending, resets, fresh, resetsBy>>

\* The code was wrong: the token survives, unless that was its last attempt.
FinishWrong(r) ==
  /\ task[r].op = "finish"
  /\ logins' \in {logins, logins \ {task[r].login}}
  /\ Done(r)
  /\ UNCHANGED <<users, nextId, sessions, pending, resets, fresh, resetsBy>>

\* The code was right: the token goes; an account deleted meanwhile is an
\* error (get_user_by_id returns None), any other gets its session.
FinishDone(r) ==
  /\ task[r].op = "finish"
  /\ logins' = logins \ {task[r].login}
  /\ IF task[r].login.uid \in DOMAIN users
       THEN NewSession(task[r].login.uid, TRUE)
       ELSE UNCHANGED <<sessions, fresh>>
  /\ Done(r)
  /\ UNCHANGED <<users, nextId, pending, resets, resetsBy>>

----------------------------------------------------------------------------
(* Signed-in requests *)

\* get_session joins the session with its account; the gates are tried on
\* what it returned.
Authorise(r, route) ==
  /\ \E s \in sessions :
       /\ s.uid \in DOMAIN users
       /\ Passes(users[s.uid], route)
       /\ Begin(r, [op |-> route, tok |-> s.tok, uid |-> s.uid,
                    role |-> users[s.uid].role, totp |-> users[s.uid].totp])
  /\ UNCHANGED tables

Logout(r) ==
  /\ task[r].op = "logout"
  /\ sessions' = {s \in sessions : s.tok # task[r].tok}
  /\ Done(r)
  /\ UNCHANGED <<users, nextId, pending, logins, resets, fresh, resetsBy>>

\* set_password: 404 when the account is gone, else every session of it goes.
SetPassword(uid, must) ==
  IF uid \in DOMAIN users
    THEN /\ Update(uid, [users[uid] EXCEPT !.must = must])
         /\ sessions' = DropSessions(uid)
    ELSE UNCHANGED <<users, sessions>>

ChangePassword(r) ==
  /\ task[r].op = "change_password"
  /\ SetPassword(task[r].uid, FALSE)
  /\ Done(r)
  /\ UNCHANGED <<nextId, pending, logins, resets, fresh, resetsBy>>

\* The admin handlers look at the role get_session returned.
AsAdmin(r, op) == task[r].op = op /\ task[r].role = "admin"

\* Every answer that changes nothing: "admin required", a wrong password or
\* code, a lockout, an unknown id, a taken name.  Once totp_confirm has
\* committed, revoke_other_sessions always follows.
Refused(r) ==
  /\ task[r].op \notin {"idle", "finish", "revoke", "switch_off"}
  /\ Done(r) /\ UNCHANGED tables

CreateUser(r) ==
  /\ AsAdmin(r, "create_user")
  /\ \E role \in Roles, must \in BOOLEAN : AddUser(role, must)
  /\ Done(r)
  /\ UNCHANGED <<sessions, pending, logins, resets, fresh, resetsBy>>

AdminResetPassword(r) ==
  /\ AsAdmin(r, "reset_user")
  /\ \E u \in 1..MaxUsers : SetPassword(u, TRUE)
  /\ Done(r)
  /\ UNCHANGED <<nextId, pending, logins, resets, fresh, resetsBy>>

\* Mutant: the last-admin test is off by one.
SetRole_OffByOne(r) ==
  /\ AsAdmin(r, "set_role")
  /\ \E u \in DOMAIN users, role \in Roles :
       /\ u = task[r].uid => role = "admin"
       /\ IF users[u].role = "admin" /\ role # "admin" /\ Cardinality(Admins) < 1
            THEN UNCHANGED users
            ELSE Update(u, [users[u] EXCEPT !.role = role])
  /\ Done(r)
  /\ UNCHANGED <<nextId, sessions, pending, logins, resets, fresh, resetsBy>>

\* set_role: not oneself, and never the last admin; the count is taken under
\* the lock that covers the update.
SetRole(r) ==
  /\ AsAdmin(r, "set_role")
  /\ \E u \in DOMAIN users, role \in Roles :
       /\ u = task[r].uid => role = "admin"
       /\ IF users[u].role = "admin" /\ role # "admin" /\ Cardinality(Admins) <= 1
            THEN UNCHANGED users
            ELSE Update(u, [users[u] EXCEPT !.role = role])
  /\ Done(r)
  /\ UNCHANGED <<nextId, sessions, pending, logins, resets, fresh, resetsBy>>

\* Mutant: ids without AUTOINCREMENT, the next one is the highest plus one.
DeleteUser_ReusesIds(r) ==
  /\ AsAdmin(r, "delete_user")
  /\ \E u \in DOMAIN users \ {task[r].uid} :
       /\ users[u].role = "admin" => Cardinality(Admins) > 1
       /\ users' = [v \in DOMAIN users \ {u} |-> users[v]]
       /\ nextId' = Max(DOMAIN users \ {u}) + 1
       /\ sessions' = DropSessions(u)
       /\ DropTotp(u)
  /\ Done(r)
  /\ UNCHANGED <<resets, fresh, resetsBy>>

\* delete_user: the account, its sessions and its TOTP rows.
DeleteUser(r) ==
  /\ AsAdmin(r, "delete_user")
  /\ \E u \in DOMAIN users \ {task[r].uid} :
       IF users[u].role = "admin" /\ Cardinality(Admins) <= 1
         THEN UNCHANGED <<users, sessions, pending, logins>>
         ELSE /\ users' = [v \in DOMAIN users \ {u} |-> users[v]]
              /\ sessions' = DropSessions(u)
              /\ DropTotp(u)
  /\ Done(r)
  /\ UNCHANGED <<nextId, resets, fresh, resetsBy>>

----------------------------------------------------------------------------
(* Two-factor set-up *)

\* totp_begin: a fresh secret replaces an unconfirmed one; 409 when the
\* account, as the request saw it, already has one.
TotpSetup(r) ==
  /\ task[r].op = "totp_setup"
  /\ ~task[r].totp /\ task[r].uid \in DOMAIN users
  /\ pending' = pending \cup {task[r].uid}
  /\ Done(r)
  /\ UNCHANGED <<users, nextId, sessions, logins, resets, fresh, resetsBy>>

\* totp_confirm reads the unconfirmed secret and checks the code.
TotpConfirmRead(r) ==
  /\ task[r].op = "totp_enable"
  /\ task[r].uid \in pending
  /\ task' = [task EXCEPT ![r].op = "confirm"]
  /\ UNCHANGED tables

\* Then, under the lock, switches it on, and the handler goes on to
\* revoke_other_sessions.
TotpConfirm(r) ==
  /\ task[r].op = "confirm"
  /\ IF task[r].uid \in DOMAIN users
       THEN /\ Update(task[r].uid, [users[task[r].uid] EXCEPT !.totp = TRUE])
            /\ pending' = pending \ {task[r].uid}
            /\ sessions' = {[s EXCEPT !.second = @ \/ s.tok = task[r].tok] :
                              s \in sessions}
            /\ task' = [task EXCEPT ![r].op = "revoke"]
       ELSE Done(r) /\ UNCHANGED <<users, pending, sessions>>
  /\ UNCHANGED <<nextId, logins, resets, fresh, resetsBy>>

RevokeOtherSessions(r) ==
  /\ task[r].op = "revoke"
  /\ sessions' = {s \in sessions : s.uid # task[r].uid \/ s.tok = task[r].tok}
  /\ Done(r)
  /\ UNCHANGED <<users, nextId, pending, logins, resets, fresh, resetsBy>>

\* totp_disable, by its owner (password and code) or by another admin.
SwitchOff(u) ==
  IF u \in DOMAIN users
    THEN Update(u, [users[u] EXCEPT !.totp = FALSE]) /\ DropTotp(u)
    ELSE UNCHANGED <<users, pending, logins>>

\* _handle_totp_disable: not where it is mandatory, not when it was off at
\* the gate; verify_totp_code reads the account again.
TotpDisableVerify(r) ==
  /\ task[r].op = "totp_disable"
  /\ ~TotpRequired(task[r]) /\ task[r].totp
  /\ HasTotp(task[r].uid)
  /\ task' = [task EXCEPT ![r].op = "switch_off"]
  /\ UNCHANGED tables

TotpDisable(r) ==
  /\ task[r].op = "switch_off"
  /\ SwitchOff(task[r].uid)
  /\ Done(r)
  /\ UNCHANGED <<nextId, sessions, resets, fresh, resetsBy>>

AdminTotpReset(r) ==
  /\ AsAdmin(r, "totp_reset")
  /\ \E u \in 1..MaxUsers : u # task[r].uid /\ SwitchOff(u)
  /\ Done(r)
  /\ UNCHANGED <<nextId, sessions, resets, fresh, resetsBy>>

----------------------------------------------------------------------------
(* The emailed reset link *)

\* _process_forgot, on a thread of its own, finds the account.
ForgotRead(r) ==
  /\ \E u \in DOMAIN users : Begin(r, [op |-> "forgot", uid |-> u])
  /\ UNCHANGED tables

\* Mutant: earlier links stay usable.
ForgotPassword_KeepsOld(r) ==
  /\ task[r].op = "forgot" /\ Fresh
  /\ resets' = resets \cup {[tok |-> fresh + 1, uid |-> task[r].uid, used |-> FALSE]}
  /\ Done(r)
  /\ UNCHANGED <<users, nextId, sessions, pending, logins, resetsBy>>

\* create_reset_token: the account's earlier unused links are used up.
ForgotPassword(r) ==
  /\ task[r].op = "forgot" /\ Fresh
  /\ resets' = {IF t.uid = task[r].uid THEN [t EXCEPT !.used = TRUE] ELSE t : t \in resets}
                 \cup {[tok |-> fresh + 1, uid |-> task[r].uid, used |-> FALSE]}
  /\ Done(r)
  /\ UNCHANGED <<users, nextId, sessions, pending, logins, resetsBy>>

\* _reset_token_row: the link is unused and its account exists.
Live(t) == t \in resets /\ ~t.used /\ t.uid \in DOMAIN users

\* The first look, before the new password is hashed outside the lock.
ResetPlausible(r) ==
  /\ \E t \in resets : Live(t) /\ Begin(r, [op |-> "reset", token |-> t])
  /\ UNCHANGED tables

\* Mutant: the link is not looked up again after the hash.
ResetCommit_NoRecheck(r) ==
  /\ task[r].op = "reset"
  /\ LET t == task[r].token IN
       /\ t.uid \in DOMAIN users
       /\ Update(t.uid, [users[t.uid] EXCEPT !.must = FALSE])
       /\ resets' = (resets \ {t}) \cup {[t EXCEPT !.used = TRUE]}
       /\ sessions' = DropSessions(t.uid)
       /\ resetsBy' = Append(resetsBy, t.tok)
  /\ Done(r)
  /\ UNCHANGED <<nextId, pending, logins, fresh>>

\* "re-check atomically", then the password is set and the link used up.
ResetCommit(r) ==
  /\ task[r].op = "reset"
  /\ LET t == task[r].token IN
       IF Live(t)
         THEN /\ Update(t.uid, [users[t.uid] EXCEPT !.must = FALSE])
              /\ resets' = (resets \ {t}) \cup {[t EXCEPT !.used = TRUE]}
              /\ sessions' = DropSessions(t.uid)
              /\ resetsBy' = Append(resetsBy, t.tok)
         ELSE UNCHANGED <<users, resets, sessions, resetsBy>>
  /\ Done(r)
  /\ UNCHANGED <<nextId, pending, logins, fresh>>

----------------------------------------------------------------------------
\* A row expires or is pruned.
Lapse ==
  /\ \/ /\ \E row \in sessions : sessions' = sessions \ {row}
        /\ UNCHANGED <<logins, pending, resets>>
     \/ /\ \E row \in logins : logins' = logins \ {row}
        /\ UNCHANGED <<sessions, pending, resets>>
     \/ /\ \E row \in pending : pending' = pending \ {row}
        /\ UNCHANGED <<sessions, logins, resets>>
     \/ /\ \E row \in resets : resets' = resets \ {row}
        /\ UNCHANGED <<sessions, logins, pending>>
  /\ UNCHANGED <<users, nextId, fresh, task, resetsBy>>

\* The process goes down between two steps of any request and comes back on
\* the same database: the request threads are gone, the tables are not.
Restart ==
  /\ task' = [r \in Threads |-> Idle]
  /\ UNCHANGED tables

\* A start with ADMIN_RESET (_reset_admin): the account ADMIN_USERNAME names
\* gets a new password, the admin role and no second factor, or is created.
RestartReset ==
  /\ task' = [r \in Threads |-> Idle]
  /\ \E must \in BOOLEAN :
       \/ \E u \in DOMAIN users :
            /\ Update(u, [role |-> "admin", must |-> must, totp |-> FALSE])
            /\ sessions' = DropSessions(u) /\ DropTotp(u)
            /\ UNCHANGED nextId
       \/ /\ AddUser("admin", must)
          /\ UNCHANGED <<sessions, pending, logins>>
  /\ UNCHANGED <<resets, fresh, resetsBy>>

----------------------------------------------------------------------------
RequestStep(r) ==
  \/ LoginRead(r) \/ LoginDone(r) \/ FinishRead(r) \/ FinishWrong(r) \/ FinishDone(r)
  \/ \E route \in Routes : Authorise(r, route)
  \/ Logout(r) \/ ChangePassword(r) \/ Refused(r) \/ CreateUser(r)
  \/ AdminResetPassword(r) \/ SetRole(r) \/ DeleteUser(r)
  \/ TotpSetup(r) \/ TotpConfirmRead(r) \/ TotpConfirm(r)
  \/ RevokeOtherSessions(r) \/ TotpDisableVerify(r) \/ TotpDisable(r)
  \/ AdminTotpReset(r)
  \/ ForgotRead(r) \/ ForgotPassword(r) \/ ResetPlausible(r) \/ ResetCommit(r)

\* One life of the process, and any number of them.
ServeNext == Lapse \/ \E r \in Threads : RequestStep(r)
Next == ServeNext \/ Restart \/ RestartReset

ServeSpec == Init /\ [][ServeNext]_vars
Spec == Init /\ [][Next]_vars

----------------------------------------------------------------------------
(* Properties *)

\* The tables keep their shape, and no row (the reset links that delete_user
\* leaves behind included) names an id that a later account could be given.
TypeOK ==
  /\ nextId \in Nat \ {0} /\ fresh \in Nat
  /\ IsFiniteSet(DOMAIN users) /\ DOMAIN users \subseteq 1..(nextId - 1)
  /\ users \in [DOMAIN users -> User]
  /\ sessions \subseteq Session
  /\ resets \subseteq [tok : Nat, uid : Nat, used : BOOLEAN]
  /\ logins \subseteq [tok : Nat, uid : Nat]
  /\ \A row \in sessions \cup logins \cup resets : row.uid < nextId
  /\ \A u \in pending : u < nextId

\* There is always an account that can manage the others: the last-admin
\* tests of set_role and delete_user hold whatever other requests do between
\* the moment a request was authorised and the moment it takes effect.
AtLeastOneAdmin == Admins # {}

\* A reset link sets a password at most once, though the new password is
\* hashed between the look-up of the link and its use ("reset tokens are
\* single-use").
ResetOnce ==
  \A i, j \in 1..Len(resetsBy) : resetsBy[i] = resetsBy[j] => i = j

\* Asking for a new link ends the earlier ones, also one whose new password is
\* being hashed just then: a link does not set a password once its account has
\* a newer one.
NewestLinkSets ==
  [][\A old, new \in resets :
       old.uid = new.uid /\ old.tok < new.tok
         => resetsBy' # Append(resetsBy, old.tok)]_vars

\* "Turning 2FA on signs that account out everywhere else ... only the one
\* that completed the set-up stays": once revoke_other_sessions is through,
\* every session of an account with 2FA passed it or set it up.
SecondFactorSessions ==
  \A s \in sessions :
    (/\ HasTotp(s.uid)
     /\ \A r \in Threads : ~(task[r].op = "revoke" /\ task[r].uid = s.uid))
      => s.second

\* "A session whose account is flagged must change password can only call
\* /api/me, /api/change_password and /api/logout ... until the password is
\* changed": the gates leave a signed-in user a way to change it.
ChangePasswordReachable ==
  \A s \in sessions :
    (s.uid \in DOMAIN users /\ users[s.uid].must) =>
      Passes(users[s.uid], "change_password")
=============================================================================
