--------------------------- MODULE AccountsProofs ---------------------------
(***************************************************************************)
(* Some account can always manage the others, for any number of request    *)
(* threads, accounts and tokens.  The tests of set_role and delete_user    *)
(* count the admins, so the proof has to carry that the users table is     *)
(* finite.  The tables keep their shape, no row names an id a later        *)
(* account gets, and a reset link works once, and only the last of them.   *)
(*                                                                         *)
(* The last section is about sessions without the second factor of their   *)
(* account: a sign-in that comes late, or a process that ends at the wrong *)
(* moment, are the only ways to one.                                       *)
(***************************************************************************)
EXTENDS Accounts, FiniteSetTheorems, TLAPS

\* The inductive part of TypeOK the count needs.
UsersOK ==
  /\ nextId \in Nat \ {0}
  /\ IsFiniteSet(DOMAIN users) /\ DOMAIN users \subseteq 1..(nextId - 1)
  /\ users \in [DOMAIN users -> User]

AdminInv == UsersOK /\ AtLeastOneAdmin

\* Replacing one account's row, the row still a user's, keeps the table's shape.
LEMMA UpdateOK ==
  ASSUME UsersOK, NEW uid \in DOMAIN users, NEW user \in User, Update(uid, user)
  PROVE  /\ DOMAIN users' = DOMAIN users
         /\ users' \in [DOMAIN users' -> User]
         /\ users'[uid] = user
         /\ \A u \in DOMAIN users \ {uid} : users'[u] = users[u]
  BY DEF UsersOK, Update

\* A row replaced by one of the same role leaves an admin.
LEMMA SameRole ==
  ASSUME AdminInv, nextId' = nextId, NEW uid \in DOMAIN users, NEW user \in User,
         Update(uid, user), user.role = users[uid].role \/ user.role = "admin"
  PROVE  AdminInv'
  <1>1. UsersOK' BY UpdateOK DEF AdminInv, UsersOK
  <1>2. AtLeastOneAdmin' BY UpdateOK DEF AdminInv, AtLeastOneAdmin, Admins
  <1> QED BY <1>1, <1>2 DEF AdminInv

\* Two admins or more: without one of them there is still one.
LEMMA AnotherAdmin ==
  ASSUME UsersOK, NEW u, Cardinality(Admins) > 1
  PROVE  \E v \in Admins : v # u
  <1>1. IsFiniteSet(Admins)
    BY FS_Subset DEF UsersOK, Admins
  <1>2. SUFFICES ASSUME \A v \in Admins : v = u PROVE FALSE
    OBVIOUS
  <1>3. Admins \subseteq {u} BY <1>2
  <1>4. Cardinality({u}) = 1 /\ IsFiniteSet({u}) BY FS_Singleton
  <1>5. Cardinality(Admins) <= 1
    BY <1>3, <1>4, FS_Subset
  <1>6. Cardinality(Admins) \in Nat BY <1>1, FS_CardinalityType
  <1> QED BY <1>5, <1>6

\* A new account joins the table; nobody leaves it.
LEMMA AddUserInv ==
  ASSUME AdminInv, NEW role \in Roles, NEW must \in BOOLEAN, AddUser(role, must)
  PROVE  AdminInv'
  <1>1. IsFiniteSet(DOMAIN users \cup {nextId})
    BY FS_AddElement DEF AdminInv, UsersOK
  <1>2. DOMAIN users' = DOMAIN users \cup {nextId} BY DEF AddUser
  <1>3. UsersOK'
    BY <1>1, <1>2 DEF AdminInv, UsersOK, AddUser, User
  <1>4. AtLeastOneAdmin'
    <2>1. PICK v \in DOMAIN users : users[v].role = "admin"
      BY DEF AdminInv, AtLeastOneAdmin, Admins
    <2>2. v # nextId BY DEF AdminInv, UsersOK
    <2> QED BY <2>1, <2>2, <1>2 DEF AddUser, AtLeastOneAdmin, Admins
  <1> QED BY <1>3, <1>4 DEF AdminInv

\* set_password, by its owner or an admin, leaves the role alone.
LEMMA SetPasswordInv ==
  ASSUME AdminInv, nextId' = nextId, NEW uid, NEW must \in BOOLEAN, SetPassword(uid, must)
  PROVE  AdminInv'
  <1>1. CASE uid \in DOMAIN users
    <2>1. [users[uid] EXCEPT !.must = must] \in User
      BY <1>1 DEF AdminInv, UsersOK, User
    <2>2. [users[uid] EXCEPT !.must = must].role = users[uid].role
      BY <1>1 DEF AdminInv, UsersOK, User
    <2> QED BY <1>1, <2>1, <2>2, SameRole DEF SetPassword
  <1>2. CASE uid \notin DOMAIN users
    BY <1>2 DEF SetPassword, AdminInv, UsersOK, AtLeastOneAdmin, Admins
  <1> QED BY <1>1, <1>2

\* set_role tests the number of admins under the lock that covers its update.
LEMMA SetRoleInv ==
  ASSUME AdminInv, NEW r \in Threads, SetRole(r)
  PROVE  AdminInv'
  <1>1. PICK u \in DOMAIN users, role \in Roles :
          IF users[u].role = "admin" /\ role # "admin" /\ Cardinality(Admins) <= 1
            THEN UNCHANGED users
            ELSE Update(u, [users[u] EXCEPT !.role = role])
    BY DEF SetRole
  <1>2. nextId' = nextId BY DEF SetRole
  <1>3. CASE UNCHANGED users
    BY <1>2, <1>3 DEF AdminInv, UsersOK, AtLeastOneAdmin, Admins
  <1>4. CASE /\ Update(u, [users[u] EXCEPT !.role = role])
             /\ ~(users[u].role = "admin" /\ role # "admin" /\ Cardinality(Admins) <= 1)
    <2>1. [users[u] EXCEPT !.role = role] \in User /\ [users[u] EXCEPT !.role = role].role = role
      BY DEF AdminInv, UsersOK, User
    <2>2. CASE role = users[u].role \/ role = "admin"
      BY <1>2, <1>4, <2>1, <2>2, SameRole
    <2>3. CASE users[u].role # "admin"
      <3>1. UsersOK'
        BY <1>2, <1>4, <2>1, UpdateOK DEF AdminInv, UsersOK
      <3>2. AtLeastOneAdmin'
        BY <1>4, <2>1, <2>3, UpdateOK DEF AdminInv, AtLeastOneAdmin, Admins
      <3> QED BY <3>1, <3>2 DEF AdminInv
    <2>4. CASE Cardinality(Admins) > 1
      <3>1. UsersOK'
        BY <1>2, <1>4, <2>1, UpdateOK DEF AdminInv, UsersOK
      <3>2. PICK v \in Admins : v # u
        BY <2>4, AnotherAdmin DEF AdminInv
      <3>3. AtLeastOneAdmin'
        BY <1>4, <2>1, <3>2, UpdateOK DEF AdminInv, AtLeastOneAdmin, Admins
      <3> QED BY <3>1, <3>3 DEF AdminInv
    <2>5. IsFiniteSet(Admins) BY FS_Subset DEF AdminInv, UsersOK, Admins
    <2>6. Cardinality(Admins) \in Nat BY <2>5, FS_CardinalityType
    <2> QED BY <1>4, <2>2, <2>3, <2>4, <2>6
  <1> QED BY <1>1, <1>3, <1>4

\* delete_user makes the same test before the row goes.
LEMMA DeleteUserInv ==
  ASSUME AdminInv, NEW r \in Threads, DeleteUser(r)
  PROVE  AdminInv'
  <1>1. PICK u \in DOMAIN users \ {task[r].uid} :
          IF users[u].role = "admin" /\ Cardinality(Admins) <= 1
            THEN UNCHANGED <<users, sessions, pending, logins>>
            ELSE /\ users' = [v \in DOMAIN users \ {u} |-> users[v]]
                 /\ sessions' = DropSessions(u)
                 /\ DropTotp(u)
    BY DEF DeleteUser
  <1>2. nextId' = nextId BY DEF DeleteUser
  <1>3. CASE UNCHANGED users
    BY <1>2, <1>3 DEF AdminInv, UsersOK, AtLeastOneAdmin, Admins
  <1>4. CASE /\ users' = [v \in DOMAIN users \ {u} |-> users[v]]
             /\ ~(users[u].role = "admin" /\ Cardinality(Admins) <= 1)
    <2>1. DOMAIN users' = DOMAIN users \ {u} BY <1>4
    <2>2. IsFiniteSet(DOMAIN users')
      BY <2>1, FS_Subset DEF AdminInv, UsersOK
    <2>3. UsersOK'
      BY <1>2, <1>4, <2>1, <2>2 DEF AdminInv, UsersOK
    <2>4. CASE users[u].role # "admin"
      BY <1>4, <2>1, <2>3, <2>4 DEF AdminInv, AtLeastOneAdmin, Admins
    <2>5. CASE Cardinality(Admins) > 1
      <3>1. PICK v \in Admins : v # u
        BY <2>5, AnotherAdmin DEF AdminInv
      <3> QED BY <1>4, <2>1, <2>3, <3>1 DEF AdminInv, AtLeastOneAdmin, Admins
    <2>6. IsFiniteSet(Admins) BY FS_Subset DEF AdminInv, UsersOK, Admins
    <2>7. Cardinality(Admins) \in Nat BY <2>6, FS_CardinalityType
    <2> QED BY <1>4, <2>4, <2>5, <2>7
  <1> QED BY <1>1, <1>3, <1>4

\* Switching a second factor on or off leaves the role alone.
LEMMA TotpInv ==
  ASSUME AdminInv, nextId' = nextId, NEW uid \in DOMAIN users, NEW on \in BOOLEAN,
         Update(uid, [users[uid] EXCEPT !.totp = on])
  PROVE  AdminInv'
  <1>1. /\ [users[uid] EXCEPT !.totp = on] \in User
        /\ [users[uid] EXCEPT !.totp = on].role = users[uid].role
    BY DEF AdminInv, UsersOK, User
  <1> QED BY <1>1, SameRole

\* A step that does not touch the users table.
LEMMA UsersUnchanged ==
  ASSUME AdminInv, UNCHANGED <<users, nextId>>
  PROVE  AdminInv'
  BY DEF AdminInv, UsersOK, AtLeastOneAdmin, Admins

\* Every step of a request, of a row's end and of a restart keeps AdminInv.
LEMMA AdminStep ==
  ASSUME AdminInv, [Next]_vars
  PROVE  AdminInv'
  <1>1. CASE Lapse \/ Restart \/ UNCHANGED vars
    BY <1>1, UsersUnchanged DEF Lapse, Restart, vars, tables
  <1>2. CASE RestartReset
    <2>1. PICK must \in BOOLEAN :
            \/ /\ \E u \in DOMAIN users :
                    Update(u, [role |-> "admin", must |-> must, totp |-> FALSE])
               /\ nextId' = nextId
            \/ AddUser("admin", must)
      BY <1>2 DEF RestartReset
    <2>2. [role |-> "admin", must |-> must, totp |-> FALSE] \in User BY DEF User, Roles
    <2> QED BY <2>1, <2>2, SameRole, AddUserInv DEF Roles
  <1>3. ASSUME NEW r \in Threads, RequestStep(r) PROVE AdminInv'
    <2>1. CASE \/ LoginRead(r) \/ LoginDone(r) \/ FinishRead(r) \/ FinishWrong(r)
               \/ FinishDone(r) \/ (\E route \in Routes : Authorise(r, route))
               \/ Logout(r) \/ Refused(r) \/ TotpSetup(r) \/ TotpConfirmRead(r)
               \/ RevokeOtherSessions(r) \/ TotpDisableVerify(r)
               \/ ForgotRead(r) \/ ForgotPassword(r) \/ ResetPlausible(r)
      BY <2>1, UsersUnchanged DEF LoginRead, LoginDone, FinishRead, FinishWrong,
           FinishDone, Authorise, Logout, Refused, TotpSetup, TotpConfirmRead,
           RevokeOtherSessions, TotpDisableVerify, ForgotRead, ForgotPassword,
           ResetPlausible, tables
    <2>2. CASE ChangePassword(r)
      BY <2>2, SetPasswordInv DEF ChangePassword
    <2>3. CASE AdminResetPassword(r)
      BY <2>3, SetPasswordInv DEF AdminResetPassword
    <2>4. CASE CreateUser(r)
      BY <2>4, AddUserInv DEF CreateUser
    <2>5. CASE SetRole(r) BY <2>5, SetRoleInv
    <2>6. CASE DeleteUser(r) BY <2>6, DeleteUserInv
    <2>7. CASE TotpConfirm(r)
      BY <2>7, TotpInv, UsersUnchanged DEF TotpConfirm
    <2>8. CASE TotpDisable(r)
      BY <2>8, TotpInv, UsersUnchanged DEF TotpDisable, SwitchOff
    <2>9. CASE AdminTotpReset(r)
      BY <2>9, TotpInv, UsersUnchanged DEF AdminTotpReset, SwitchOff
    <2>10. CASE ResetCommit(r)
      <3>1. CASE UNCHANGED users
        BY <2>10, <3>1, UsersUnchanged DEF ResetCommit
      <3>2. CASE /\ Live(task[r].token)
                 /\ Update(task[r].token.uid, [users[task[r].token.uid] EXCEPT !.must = FALSE])
        <4>1. /\ task[r].token.uid \in DOMAIN users
              /\ [users[task[r].token.uid] EXCEPT !.must = FALSE] \in User
              /\ [users[task[r].token.uid] EXCEPT !.must = FALSE].role
                   = users[task[r].token.uid].role
          BY <3>2 DEF Live, AdminInv, UsersOK, User
        <4>2. nextId' = nextId BY <2>10 DEF ResetCommit
        <4> QED BY <3>2, <4>1, <4>2, SameRole
      <3> QED BY <2>10, <3>1, <3>2 DEF ResetCommit
    <2> QED BY <1>3, <2>1, <2>2, <2>3, <2>4, <2>5, <2>6, <2>7, <2>8, <2>9, <2>10
         DEF RequestStep
  <1> QED BY <1>1, <1>2, <1>3 DEF Next, ServeNext

\* At every moment some account is an admin (set_role, delete_user, the
\* bootstrap and ADMIN_RESET together), however the requests interleave and
\* wherever the process restarts.
THEOREM SomeAdmin == Spec => []AtLeastOneAdmin
  <1>1. Init => AdminInv
    <2> SUFFICES ASSUME Init PROVE AdminInv OBVIOUS
    <2>1. IsFiniteSet({1}) BY FS_Singleton
    <2>2. DOMAIN users = {1} /\ nextId = 2 BY DEF Init
    <2>3. users[1].role = "admin" /\ users[1] \in User BY DEF Init, User, Roles
    <2>4. users = [u \in DOMAIN users |-> users[u]] BY DEF Init
    <2> QED BY <2>1, <2>2, <2>3, <2>4 DEF AdminInv, UsersOK, AtLeastOneAdmin, Admins
  <1>2. AdminInv /\ [Next]_vars => AdminInv' BY AdminStep
  <1>3. AdminInv => AtLeastOneAdmin BY DEF AdminInv
  <1> QED BY <1>1, <1>2, <1>3, PTL DEF Spec

----------------------------------------------------------------------------
(* The tables, and what the request threads took from them. *)

LoginRow == [tok : Nat, uid : Nat]
ResetRow == [tok : Nat, uid : Nat, used : BOOLEAN]

LoginTask == [op : {"login"}, uid : Nat, totp : BOOLEAN]
FinishTask == [op : {"finish"}, login : LoginRow]
RouteTask == [op : AllRoutes \cup {"confirm", "revoke", "switch_off"}, tok : Nat,
              uid : Nat, role : Roles, totp : BOOLEAN]
ForgotTask == [op : {"forgot"}, uid : Nat]
ResetTask == [op : {"reset"}, token : ResetRow]
Tasks == {Idle} \cup LoginTask \cup FinishTask \cup RouteTask \cup ForgotTask \cup ResetTask

SessionsOK == sessions \subseteq Session /\ \A s \in sessions : s.uid < nextId
LoginsOK == logins \subseteq LoginRow /\ \A l \in logins : l.uid < nextId
ResetsOK == resets \subseteq ResetRow /\ \A t \in resets : t.uid < nextId
PendingOK == pending \subseteq Nat /\ \A u \in pending : u < nextId

\* A thread that will add a row for an account holds an id handed out before.
TasksOK ==
  /\ task \in [Threads -> Tasks]
  /\ \A r \in Threads : task[r].op \in {"login", "forgot"} => task[r].uid < nextId

\* Of an account's links only the newest may be unused.
OlderUsed ==
  \A old, new \in resets : old.uid = new.uid /\ old.tok < new.tok => old.used

\* A link that set a password is used up, and no token has two rows.
LinksInv ==
  /\ resetsBy \in Seq(Nat)
  /\ \A t \in resets : t.tok <= fresh
  /\ \A t1, t2 \in resets : t1.tok = t2.tok => t1 = t2
  /\ \A i \in 1..Len(resetsBy) :
       resetsBy[i] <= fresh /\ \A t \in resets : t.tok = resetsBy[i] => t.used
  /\ ResetOnce /\ OlderUsed

AccountsInv ==
  /\ AdminInv /\ fresh \in Nat
  /\ SessionsOK /\ LoginsOK /\ ResetsOK /\ PendingOK /\ TasksOK
  /\ LinksInv

\* Ids and tokens are only ever handed out anew.
LEMMA CountersGrow ==
  ASSUME AdminInv, fresh \in Nat, [Next]_vars
  PROVE  /\ nextId \in Nat /\ nextId' \in Nat /\ nextId <= nextId'
         /\ fresh' \in Nat /\ fresh <= fresh'
  <1>1. nextId \in Nat BY DEF AdminInv, UsersOK
  <1>2. nextId' = nextId \/ nextId' = nextId + 1
    BY DEF Next, ServeNext, Lapse, Restart, RestartReset, RequestStep, vars, tables,
           AddUser, LoginRead, LoginDone, FinishRead, FinishWrong, FinishDone, Authorise,
           Logout, ChangePassword, Refused, CreateUser, AdminResetPassword, SetRole,
           DeleteUser, TotpSetup, TotpConfirmRead, TotpConfirm, RevokeOtherSessions,
           TotpDisableVerify, TotpDisable, AdminTotpReset, ForgotRead, ForgotPassword,
           ResetPlausible, ResetCommit
  <1>3. fresh' = fresh \/ fresh' = fresh + 1
    BY DEF Next, ServeNext, Lapse, Restart, RestartReset, RequestStep, vars, tables,
           NewSession, Fresh, LoginRead, LoginDone, FinishRead, FinishWrong, FinishDone,
           Authorise, Logout, ChangePassword, Refused, CreateUser, AdminResetPassword,
           SetRole, DeleteUser, TotpSetup, TotpConfirmRead, TotpConfirm,
           RevokeOtherSessions, TotpDisableVerify, TotpDisable, AdminTotpReset,
           ForgotRead, ForgotPassword, ResetPlausible, ResetCommit
  <1> QED BY <1>1, <1>2, <1>3

\* Sessions are added by a sign-in, for an id the thread holds or has just
\* found, and marked by the end of a set-up; every other step only takes some
\* away.
LEMMA SessionsStep ==
  ASSUME AccountsInv, [Next]_vars
  PROVE  SessionsOK'
  <1> USE DEF SessionsOK
  <1>1. /\ nextId \in Nat /\ nextId' \in Nat /\ nextId <= nextId' /\ fresh \in Nat
        /\ sessions \subseteq Session /\ \A s \in sessions : s.uid < nextId
    BY CountersGrow DEF AccountsInv
  <1>2. ASSUME sessions' \subseteq sessions PROVE SessionsOK'
    BY <1>1, <1>2 DEF Session
  <1>3. ASSUME NEW uid \in Nat, uid < nextId, NEW second \in BOOLEAN, NewSession(uid, second)
        PROVE  SessionsOK'
    <2> DEFINE new == [tok |-> fresh + 1, uid |-> uid, second |-> second]
    <2>1. sessions' = sessions \cup {new} BY <1>3 DEF NewSession
    <2>2. new \in Session /\ new.uid = uid BY <1>1, <1>3 DEF Session
    <2> HIDE DEF new
    <2> QED BY <1>1, <1>3, <2>1, <2>2 DEF Session
  <1>4. ASSUME NEW r \in Threads, RequestStep(r) PROVE SessionsOK'
    <2>1. CASE LoginDone(r)
      <3>1. task[r] \in Tasks /\ task[r].op = "login" /\ task[r].uid < nextId
        BY <2>1 DEF AccountsInv, TasksOK, LoginDone
      <3>2. task[r].uid \in Nat
        BY <3>1 DEF Tasks, Idle, LoginTask, FinishTask, RouteTask, ForgotTask, ResetTask, AllRoutes
      <3>3. PICK uid : uid = task[r].uid OBVIOUS
      <3>4. NewSession(uid, FALSE) \/ UNCHANGED sessions BY <2>1, <3>3 DEF LoginDone
      <3> QED BY <1>2, <1>3, <3>1, <3>2, <3>3, <3>4
    <2>2. CASE FinishDone(r)
      <3>1. PICK uid : uid = task[r].login.uid OBVIOUS
      <3>2. (uid \in DOMAIN users /\ NewSession(uid, TRUE)) \/ UNCHANGED sessions
        BY <2>2, <3>1 DEF FinishDone
      <3>3. uid \in DOMAIN users => uid \in Nat /\ uid < nextId
        BY <1>1 DEF AccountsInv, AdminInv, UsersOK
      <3> QED BY <1>2, <1>3, <3>2, <3>3
    <2>3. CASE TotpConfirm(r)
      <3>1. PICK tok : tok = task[r].tok OBVIOUS
      <3>2. \/ UNCHANGED sessions
            \/ sessions' = {[s EXCEPT !.second = @ \/ s.tok = tok] : s \in sessions}
        BY <2>3, <3>1 DEF TotpConfirm
      <3>3. ASSUME NEW s \in sessions
            PROVE  /\ [s EXCEPT !.second = @ \/ s.tok = tok] \in Session
                   /\ [s EXCEPT !.second = @ \/ s.tok = tok].uid = s.uid
        <4>1. PICK b : b = (s.second \/ s.tok = tok) OBVIOUS
        <4>2. b \in BOOLEAN BY <4>1
        <4>3. [s EXCEPT !.second = b] \in Session /\ [s EXCEPT !.second = b].uid = s.uid
          BY <1>1, <4>2 DEF Session
        <4> QED BY <4>1, <4>3
      <3>4. CASE sessions' = {[s EXCEPT !.second = @ \/ s.tok = tok] : s \in sessions}
        <4>1. ASSUME NEW x \in sessions' PROVE x \in Session /\ x.uid < nextId
          <5>1. PICK s \in sessions : x = [s EXCEPT !.second = @ \/ s.tok = tok] BY <3>4, <4>1
          <5> QED BY <1>1, <3>3, <5>1
        <4> QED BY <1>1, <4>1 DEF Session
      <3> QED BY <1>2, <3>2, <3>4
    <2>4. CASE ~LoginDone(r) /\ ~FinishDone(r) /\ ~TotpConfirm(r)
      <3>1. sessions' \subseteq sessions
        BY <1>4, <2>4 DEF RequestStep, LoginRead, FinishRead, FinishWrong, Authorise, Logout,
             ChangePassword, Refused, CreateUser, AdminResetPassword, SetRole, DeleteUser,
             TotpSetup, TotpConfirmRead, RevokeOtherSessions, TotpDisableVerify, TotpDisable,
             AdminTotpReset, ForgotRead, ForgotPassword, ResetPlausible, ResetCommit,
             SetPassword, DropSessions, tables
      <3> QED BY <1>2, <3>1
    <2> QED BY <2>1, <2>2, <2>3, <2>4
  <1>5. CASE Lapse \/ Restart \/ RestartReset \/ UNCHANGED vars
    <2>1. sessions' \subseteq sessions
      BY <1>5 DEF Lapse, Restart, RestartReset, DropSessions, vars, tables
    <2> QED BY <1>2, <2>1
  <1> QED BY <1>4, <1>5 DEF Next, ServeNext

\* A pending second step is added by a sign-in.
LEMMA LoginsStep ==
  ASSUME AccountsInv, [Next]_vars
  PROVE  LoginsOK'
  <1> USE DEF LoginsOK
  <1>1. /\ nextId \in Nat /\ nextId' \in Nat /\ nextId <= nextId' /\ fresh \in Nat
        /\ logins \subseteq LoginRow /\ \A l \in logins : l.uid < nextId
    BY CountersGrow DEF AccountsInv
  <1>2. ASSUME logins' \subseteq logins PROVE LoginsOK'
    BY <1>1, <1>2 DEF LoginRow
  <1>3. ASSUME NEW r \in Threads, LoginDone(r) PROVE LoginsOK'
    <2>1. task[r] \in Tasks /\ task[r].op = "login" /\ task[r].uid < nextId
      BY <1>3 DEF AccountsInv, TasksOK, LoginDone
    <2>2. task[r].uid \in Nat
      BY <2>1 DEF Tasks, Idle, LoginTask, FinishTask, RouteTask, ForgotTask, ResetTask, AllRoutes
    <2>3. PICK uid : uid = task[r].uid OBVIOUS
    <2> DEFINE new == [tok |-> fresh + 1, uid |-> uid]
    <2>4. logins' = logins \cup {new} \/ UNCHANGED logins BY <1>3, <2>3 DEF LoginDone
    <2>5. new \in LoginRow /\ new.uid < nextId BY <1>1, <2>1, <2>2, <2>3 DEF LoginRow
    <2> HIDE DEF new
    <2> QED BY <1>1, <1>2, <2>4, <2>5 DEF LoginRow
  <1>4. ASSUME NEW r \in Threads, RequestStep(r), ~LoginDone(r) PROVE logins' \subseteq logins
    BY <1>4 DEF RequestStep, LoginRead, FinishRead, FinishWrong, FinishDone, Authorise, Logout,
       ChangePassword, Refused, CreateUser, AdminResetPassword, SetRole, DeleteUser,
       TotpSetup, TotpConfirmRead, TotpConfirm, RevokeOtherSessions, TotpDisableVerify,
       TotpDisable, AdminTotpReset, SwitchOff, DropTotp, ForgotRead, ForgotPassword,
       ResetPlausible, ResetCommit, tables
  <1>5. CASE Lapse \/ Restart \/ RestartReset \/ UNCHANGED vars
    <2>1. logins' \subseteq logins
      BY <1>5 DEF Lapse, Restart, RestartReset, DropTotp, vars, tables
    <2> QED BY <1>2, <2>1
  <1> QED BY <1>2, <1>3, <1>4, <1>5 DEF Next, ServeNext

\* An unconfirmed secret is added for an account that exists.
LEMMA PendingStep ==
  ASSUME AccountsInv, [Next]_vars
  PROVE  PendingOK'
  <1> USE DEF PendingOK
  <1>1. /\ nextId \in Nat /\ nextId' \in Nat /\ nextId <= nextId'
        /\ pending \subseteq Nat /\ \A u \in pending : u < nextId
    BY CountersGrow DEF AccountsInv
  <1>2. ASSUME pending' \subseteq pending PROVE PendingOK'
    BY <1>1, <1>2
  <1>3. ASSUME NEW r \in Threads, TotpSetup(r) PROVE PendingOK'
    <2>1. PICK uid : uid = task[r].uid OBVIOUS
    <2>2. uid \in DOMAIN users /\ pending' = pending \cup {uid} BY <1>3, <2>1 DEF TotpSetup
    <2>3. uid \in Nat /\ uid < nextId BY <1>1, <2>2 DEF AccountsInv, AdminInv, UsersOK
    <2>4. ASSUME NEW u \in pending' PROVE u \in Nat /\ u < nextId'
      <3>1. u \in Nat /\ u < nextId BY <1>1, <2>2, <2>3
      <3> QED BY <1>1, <3>1
    <2> QED BY <2>4
  <1>4. ASSUME NEW r \in Threads, RequestStep(r), ~TotpSetup(r) PROVE pending' \subseteq pending
    BY <1>4 DEF RequestStep, LoginRead, LoginDone, FinishRead, FinishWrong, FinishDone,
       Authorise, Logout, ChangePassword, Refused, CreateUser, AdminResetPassword, SetRole,
       DeleteUser, TotpConfirmRead, TotpConfirm, RevokeOtherSessions, TotpDisableVerify,
       TotpDisable, AdminTotpReset, SwitchOff, DropTotp, ForgotRead, ForgotPassword,
       ResetPlausible, ResetCommit, tables
  <1>5. CASE Lapse \/ Restart \/ RestartReset \/ UNCHANGED vars
    <2>1. pending' \subseteq pending
      BY <1>5 DEF Lapse, Restart, RestartReset, DropTotp, vars, tables
    <2> QED BY <1>2, <2>1
  <1> QED BY <1>2, <1>3, <1>4, <1>5 DEF Next, ServeNext

\* What a new link makes of the account's earlier ones.
UsedUp(t, uid) == IF t.uid = uid THEN [t EXCEPT !.used = TRUE] ELSE t

LEMMA UsedUpRow ==
  ASSUME NEW t \in ResetRow, NEW uid
  PROVE  /\ UsedUp(t, uid) \in ResetRow
         /\ UsedUp(t, uid).uid = t.uid /\ UsedUp(t, uid).tok = t.tok
         /\ t.used => UsedUp(t, uid).used
         /\ t.uid = uid => UsedUp(t, uid).used
         /\ ~UsedUp(t, uid).used => UsedUp(t, uid) = t
  <1>1. CASE t.uid = uid BY <1>1 DEF UsedUp, ResetRow
  <1>2. CASE t.uid # uid BY <1>2 DEF UsedUp, ResetRow
  <1> QED BY <1>1, <1>2

\* The links of the two steps that make or use one.
LEMMA NewLink ==
  ASSUME AccountsInv, NEW r \in Threads, ForgotPassword(r)
  PROVE  \E uid \in Nat, new \in ResetRow :
           /\ uid < nextId /\ new = [tok |-> fresh + 1, uid |-> uid, used |-> FALSE]
           /\ resets' = {UsedUp(t, uid) : t \in resets} \cup {new}
           /\ fresh' = fresh + 1 /\ UNCHANGED <<nextId, resetsBy>>
  <1>1. task[r] \in Tasks /\ task[r].op = "forgot" /\ task[r].uid < nextId
    BY DEF AccountsInv, TasksOK, ForgotPassword
  <1>2. task[r].uid \in Nat
    BY <1>1 DEF Tasks, Idle, LoginTask, FinishTask, RouteTask, ForgotTask, ResetTask, AllRoutes
  <1>3. PICK uid \in Nat : uid = task[r].uid BY <1>2
  <1>4. [tok |-> fresh + 1, uid |-> uid, used |-> FALSE] \in ResetRow
    BY DEF AccountsInv, ResetRow
  <1>5. resets' = {UsedUp(t, uid) : t \in resets}
                    \cup {[tok |-> fresh + 1, uid |-> uid, used |-> FALSE]}
    BY <1>3 DEF ForgotPassword, UsedUp
  <1>6. fresh' = fresh + 1 /\ UNCHANGED <<nextId, resetsBy>> BY DEF ForgotPassword, Fresh
  <1> QED BY <1>1, <1>3, <1>4, <1>5, <1>6

LEMMA LinkUsed ==
  ASSUME AccountsInv, NEW r \in Threads, ResetCommit(r)
  PROVE  \/ UNCHANGED <<resets, resetsBy, fresh, nextId>>
         \/ /\ UNCHANGED <<fresh, nextId>>
            /\ \E t \in resets : /\ ~t.used /\ resetsBy' = Append(resetsBy, t.tok)
                                 /\ resets' = (resets \ {t}) \cup {[t EXCEPT !.used = TRUE]}
  <1>1. PICK t : t = task[r].token OBVIOUS
  <1>2. UNCHANGED <<fresh, nextId>> BY DEF ResetCommit
  <1>3. CASE Live(t)
    BY <1>1, <1>2, <1>3 DEF ResetCommit, Live
  <1>4. CASE ~Live(t)
    BY <1>1, <1>2, <1>4 DEF ResetCommit
  <1> QED BY <1>3, <1>4

\* Every other step makes no link and uses none.
LEMMA LinksRest ==
  ASSUME [Next]_vars, \A r \in Threads : ~ForgotPassword(r) /\ ~ResetCommit(r)
  PROVE  resets' \subseteq resets /\ resetsBy' = resetsBy
  <1>1. ASSUME NEW r \in Threads, RequestStep(r) PROVE UNCHANGED <<resets, resetsBy>>
    BY <1>1 DEF RequestStep, LoginRead, LoginDone, FinishRead, FinishWrong, FinishDone,
       Authorise, Logout, ChangePassword, Refused, CreateUser, AdminResetPassword, SetRole,
       DeleteUser, TotpSetup, TotpConfirmRead, TotpConfirm, RevokeOtherSessions,
       TotpDisableVerify, TotpDisable, AdminTotpReset, ForgotRead, ResetPlausible, tables
  <1>2. CASE Lapse \/ Restart \/ RestartReset \/ UNCHANGED vars
    BY <1>2 DEF Lapse, Restart, RestartReset, vars, tables
  <1> QED BY <1>1, <1>2 DEF Next, ServeNext

LEMMA ResetsStep ==
  ASSUME AccountsInv, [Next]_vars
  PROVE  ResetsOK'
  <1> USE DEF ResetsOK
  <1>1. /\ nextId \in Nat /\ nextId' \in Nat /\ nextId <= nextId'
        /\ resets \subseteq ResetRow /\ \A t \in resets : t.uid < nextId
    BY CountersGrow DEF AccountsInv
  <1>2. ASSUME resets' \subseteq resets PROVE ResetsOK'
    BY <1>1, <1>2 DEF ResetRow
  <1>3. ASSUME NEW r \in Threads, ForgotPassword(r) PROVE ResetsOK'
    <2>1. PICK uid \in Nat, new \in ResetRow :
            /\ uid < nextId /\ new = [tok |-> fresh + 1, uid |-> uid, used |-> FALSE]
            /\ resets' = {UsedUp(t, uid) : t \in resets} \cup {new}
            /\ nextId' = nextId
      BY <1>3, NewLink
    <2>2. new.uid = uid BY <2>1
    <2>3. ASSUME NEW x \in resets' PROVE x \in ResetRow /\ x.uid < nextId
      <3>1. CASE x = new BY <2>1, <2>2, <3>1
      <3>2. CASE \E t \in resets : x = UsedUp(t, uid) BY <1>1, <3>2, UsedUpRow
      <3> QED BY <2>1, <3>1, <3>2
    <2> QED BY <2>1, <2>3
  <1>4. ASSUME NEW r \in Threads, ResetCommit(r) PROVE ResetsOK'
    <2>1. CASE UNCHANGED resets BY <1>2, <2>1
    <2>2. ASSUME NEW t \in resets,
                 resets' = (resets \ {t}) \cup {[t EXCEPT !.used = TRUE]}, nextId' = nextId
          PROVE  ResetsOK'
      <3>1. [t EXCEPT !.used = TRUE] \in ResetRow /\ [t EXCEPT !.used = TRUE].uid = t.uid
        BY <1>1 DEF ResetRow
      <3> QED BY <1>1, <2>2, <3>1
    <2> QED BY <1>4, <2>1, <2>2, LinkUsed
  <1> QED BY <1>2, <1>3, <1>4, LinksRest

\* The links' invariant, step by step.
LEMMA LinksStep ==
  ASSUME AccountsInv, [Next]_vars
  PROVE  LinksInv'
  <1>1. /\ fresh \in Nat /\ fresh' \in Nat /\ fresh <= fresh' /\ resets \subseteq ResetRow
        /\ LinksInv
    BY CountersGrow DEF AccountsInv, ResetsOK
  <1>2. /\ resetsBy \in Seq(Nat) /\ \A i \in 1..Len(resetsBy) : resetsBy[i] \in Nat
        /\ \A t \in resets : t.tok \in Nat /\ t.tok <= fresh
    BY <1>1 DEF LinksInv, ResetRow
  <1>3. ASSUME resets' \subseteq resets, resetsBy' = resetsBy PROVE LinksInv'
    BY <1>1, <1>2, <1>3 DEF LinksInv, ResetOnce, OlderUsed
  <1>4. ASSUME NEW r \in Threads, ForgotPassword(r) PROVE LinksInv'
    <2>1. PICK uid \in Nat, new \in ResetRow :
            /\ new = [tok |-> fresh + 1, uid |-> uid, used |-> FALSE]
            /\ resets' = {UsedUp(t, uid) : t \in resets} \cup {new}
            /\ fresh' = fresh + 1 /\ resetsBy' = resetsBy
      BY <1>4, NewLink
    <2>2. new.tok = fresh + 1 /\ new.uid = uid BY <2>1
    <2>3. ASSUME NEW x \in resets', x # new
          PROVE  \E t \in resets : /\ x = UsedUp(t, uid) /\ x.tok = t.tok /\ x.uid = t.uid
                                   /\ t.used => x.used
                                   /\ ~x.used => x = t /\ t.uid # uid
      <3>1. PICK t \in resets : x = UsedUp(t, uid) BY <2>1, <2>3
      <3>2. t \in ResetRow BY <1>1
      <3> QED BY <3>1, <3>2, UsedUpRow
    <2>4. \A x \in resets' : x.tok <= fresh'
      BY <1>1, <1>2, <2>1, <2>2, <2>3
    <2>5. \A x \in resets' : x # new => x.tok # new.tok
      BY <1>1, <1>2, <2>2, <2>3
    <2>6. ASSUME NEW x \in resets', NEW y \in resets', x.tok = y.tok PROVE x = y
      <3>1. CASE x = new \/ y = new BY <2>5, <2>6, <3>1
      <3>2. CASE x # new /\ y # new
        <4>1. PICK t \in resets : x = UsedUp(t, uid) /\ x.tok = t.tok BY <2>3, <3>2
        <4>2. PICK v \in resets : y = UsedUp(v, uid) /\ y.tok = v.tok BY <2>3, <3>2
        <4>3. t = v BY <1>1, <2>6, <4>1, <4>2 DEF LinksInv
        <4> QED BY <4>1, <4>2, <4>3
      <3> QED BY <3>1, <3>2
    <2>7. ASSUME NEW i \in 1..Len(resetsBy)
          PROVE  /\ resetsBy[i] <= fresh'
                 /\ \A x \in resets' : x.tok = resetsBy[i] => x.used
      <3>1. resetsBy[i] \in Nat /\ resetsBy[i] <= fresh
            /\ \A t \in resets : t.tok = resetsBy[i] => t.used
        BY <1>1, <1>2 DEF LinksInv
      <3>2. resetsBy[i] <= fresh' /\ resetsBy[i] # new.tok BY <1>1, <2>1, <2>2, <3>1
      <3>3. ASSUME NEW x \in resets', x.tok = resetsBy[i] PROVE x.used
        <4>1. x # new BY <3>2, <3>3
        <4> QED BY <2>3, <3>1, <3>3, <4>1
      <3> QED BY <3>2, <3>3
    <2>8. OlderUsed'
      <3> SUFFICES ASSUME NEW x \in resets', NEW y \in resets', x.uid = y.uid, x.tok < y.tok
                   PROVE  x.used
        BY DEF OlderUsed
      <3>1. CASE x = new
        <4>1. y.tok <= x.tok /\ y.tok \in Nat /\ x.tok \in Nat
          BY <1>1, <1>2, <2>1, <2>2, <2>3, <2>4, <3>1
        <4> QED BY <4>1
      <3>2. CASE x # new /\ y = new
        <4>1. PICK t \in resets : x.uid = t.uid /\ (~x.used => t.uid # uid) BY <2>3, <3>2
        <4> QED BY <2>2, <3>2, <4>1
      <3>3. CASE x # new /\ y # new
        <4>1. PICK t \in resets : x.tok = t.tok /\ x.uid = t.uid /\ (t.used => x.used)
          BY <2>3, <3>3
        <4>2. PICK v \in resets : y.tok = v.tok /\ y.uid = v.uid BY <2>3, <3>3
        <4> QED BY <1>1, <4>1, <4>2 DEF LinksInv, OlderUsed
      <3> QED BY <3>1, <3>2, <3>3
    <2>9. ResetOnce' BY <1>1, <2>1 DEF LinksInv, ResetOnce
    <2> QED BY <1>2, <2>1, <2>4, <2>6, <2>7, <2>8, <2>9 DEF LinksInv
  <1>5. ASSUME NEW t \in resets, ~t.used, resetsBy' = Append(resetsBy, t.tok), fresh' = fresh,
               resets' = (resets \ {t}) \cup {[t EXCEPT !.used = TRUE]}
        PROVE  LinksInv'
    <2>1. PICK w : w = [t EXCEPT !.used = TRUE] OBVIOUS
    <2>2. w.tok = t.tok /\ w.uid = t.uid /\ w.used /\ w # t
      BY <1>1, <1>5, <2>1 DEF ResetRow
    <2>3. resets' = (resets \ {t}) \cup {w} BY <1>5, <2>1
    <2>4. ASSUME NEW x \in resets'
          PROVE  \E v \in resets : x.tok = v.tok /\ (v = t => x = w) /\ (v # t => x = v)
      BY <2>2, <2>3
    <2>5. \A x \in resets' : x.tok <= fresh' BY <1>2, <1>5, <2>4
    <2>6. ASSUME NEW x \in resets', NEW y \in resets', x.tok = y.tok PROVE x = y
      <3>1. PICK v \in resets : x.tok = v.tok /\ (v = t => x = w) /\ (v # t => x = v) BY <2>4
      <3>2. PICK u \in resets : y.tok = u.tok /\ (u = t => y = w) /\ (u # t => y = u) BY <2>4
      <3>3. v = u BY <1>1, <2>6, <3>1, <3>2 DEF LinksInv
      <3> QED BY <3>1, <3>2, <3>3
    <2>7. t.tok \in Nat /\ t.tok <= fresh BY <1>2
    <2>8. /\ resetsBy' \in Seq(Nat) /\ Len(resetsBy') = Len(resetsBy) + 1
          /\ \A i \in 1..Len(resetsBy) : resetsBy'[i] = resetsBy[i]
          /\ resetsBy'[Len(resetsBy) + 1] = t.tok
      BY <1>2, <1>5, <2>7
    <2>9. \A i \in 1..Len(resetsBy) : resetsBy[i] # t.tok BY <1>1, <1>5 DEF LinksInv
    <2>10. PICK n \in Nat : n = Len(resetsBy) BY <1>2
    <2>11. ASSUME NEW i \in 1..Len(resetsBy')
           PROVE  i \in 1..n \/ i = n + 1
      BY <2>8, <2>10, <2>11
    <2>12. ResetOnce'
      <3> SUFFICES ASSUME NEW i \in 1..Len(resetsBy'), NEW j \in 1..Len(resetsBy'),
                          resetsBy'[i] = resetsBy'[j]
                   PROVE  i = j
        BY DEF ResetOnce
      <3>1. CASE i \in 1..n /\ j \in 1..n
        <4>1. resetsBy[i] = resetsBy[j] BY <2>8, <2>10, <3>1
        <4> QED BY <1>1, <2>10, <3>1, <4>1 DEF LinksInv, ResetOnce
      <3>2. CASE i \in 1..n /\ j = n + 1 BY <2>8, <2>9, <2>10, <3>2
      <3>3. CASE i = n + 1 /\ j \in 1..n BY <2>8, <2>9, <2>10, <3>3
      <3> QED BY <2>11, <3>1, <3>2, <3>3
    <2>13. ASSUME NEW i \in 1..Len(resetsBy')
           PROVE  resetsBy'[i] <= fresh' /\ \A x \in resets' : x.tok = resetsBy'[i] => x.used
      <3>1. CASE i \in 1..n
        <4>1. resetsBy'[i] = resetsBy[i] /\ resetsBy[i] <= fresh
              /\ \A v \in resets : v.tok = resetsBy[i] => v.used
          BY <1>1, <2>8, <2>10, <3>1 DEF LinksInv
        <4>2. ASSUME NEW x \in resets', x.tok = resetsBy'[i] PROVE x.used
          <5>1. PICK v \in resets : x.tok = v.tok /\ (v = t => x = w) /\ (v # t => x = v)
            BY <2>4
          <5> QED BY <2>2, <4>1, <4>2, <5>1
        <4> QED BY <1>5, <4>1, <4>2
      <3>2. CASE i = n + 1
        <4>1. resetsBy'[i] = t.tok BY <2>8, <2>10, <3>2
        <4>2. w \in resets' BY <2>3
        <4>3. ASSUME NEW x \in resets', x.tok = t.tok PROVE x.used
          BY <2>2, <2>6, <4>2, <4>3
        <4> QED BY <1>5, <2>7, <4>1, <4>3
      <3> QED BY <2>11, <3>1, <3>2
    <2>14. OlderUsed'
      <3> SUFFICES ASSUME NEW x \in resets', NEW y \in resets', x.uid = y.uid, x.tok < y.tok
                   PROVE  x.used
        BY DEF OlderUsed
      <3>1. ASSUME NEW z \in resets'
            PROVE  \E v \in resets : z.tok = v.tok /\ z.uid = v.uid /\ (v.used => z.used)
        BY <2>2, <2>4
      <3>2. PICK v \in resets : x.tok = v.tok /\ x.uid = v.uid /\ (v.used => x.used) BY <3>1
      <3>3. PICK u \in resets : y.tok = u.tok /\ y.uid = u.uid BY <3>1
      <3> QED BY <1>1, <3>2, <3>3 DEF LinksInv, OlderUsed
    <2> QED BY <2>5, <2>6, <2>8, <2>12, <2>13, <2>14 DEF LinksInv
  <1>6. ASSUME NEW r \in Threads, ResetCommit(r) PROVE LinksInv'
    <2>1. CASE UNCHANGED <<resets, resetsBy>> BY <1>3, <2>1
    <2> QED BY <1>5, <1>6, <2>1, LinkUsed
  <1> QED BY <1>3, <1>4, <1>6, LinksRest

\* What a thread takes along it has just read, or has held all the while.
LEMMA TasksStep ==
  ASSUME AccountsInv, [Next]_vars
  PROVE  TasksOK'
  <1> USE DEF Tasks, Idle, LoginTask, FinishTask, RouteTask, ForgotTask, ResetTask
  <1>1. /\ nextId \in Nat /\ nextId' \in Nat /\ nextId <= nextId'
        /\ task \in [Threads -> Tasks]
        /\ \A r \in Threads : task[r].op \in {"login", "forgot"} => task[r].uid < nextId
    BY CountersGrow DEF AccountsInv, TasksOK
  <1>2. \A r \in Threads : task[r].op \in {"login", "forgot"} => task[r].uid \in Nat
    BY <1>1 DEF AllRoutes
  <1>3. ASSUME NEW r \in Threads, NEW t \in Tasks, task' = [task EXCEPT ![r] = t],
               t.op \in {"login", "forgot"} => t.uid \in Nat /\ t.uid < nextId
        PROVE  TasksOK'
    <2> HIDE DEF Tasks
    <2>1. task' \in [Threads -> Tasks] BY <1>1, <1>3
    <2>2. ASSUME NEW q \in Threads, task'[q].op \in {"login", "forgot"}
          PROVE  task'[q].uid < nextId'
      <3>1. task'[q] = IF q = r THEN t ELSE task[q] BY <1>1, <1>3
      <3>2. task'[q].uid \in Nat /\ task'[q].uid < nextId BY <1>1, <1>2, <1>3, <2>2, <3>1
      <3> QED BY <1>1, <3>2
    <2> QED BY <2>1, <2>2 DEF TasksOK
  <1>4. CASE UNCHANGED task BY <1>1, <1>2, <1>4 DEF TasksOK
  <1>5. CASE task' = [r \in Threads |-> Idle]
    <2>1. \A r \in Threads : task'[r].op = "idle" BY <1>5
    <2>2. task' \in [Threads -> Tasks] BY <1>5
    <2> HIDE DEF Tasks
    <2> QED BY <2>1, <2>2 DEF TasksOK
  <1>6. ASSUME NEW r \in Threads, task' = [task EXCEPT ![r] = Idle] PROVE TasksOK'
    BY <1>3, <1>6
  <1>7. ASSUME NEW r \in Threads, LoginRead(r) PROVE TasksOK'
    <2>1. PICK u \in DOMAIN users :
            task' = [task EXCEPT ![r] = [op |-> "login", uid |-> u, totp |-> users[u].totp]]
      BY <1>7 DEF LoginRead, Begin
    <2>2. u \in Nat /\ u < nextId /\ users[u].totp \in BOOLEAN
      BY <1>1, <2>1 DEF AccountsInv, AdminInv, UsersOK, User
    <2>3. [op |-> "login", uid |-> u, totp |-> users[u].totp] \in Tasks BY <2>2
    <2> QED BY <1>3, <2>1, <2>2, <2>3
  <1>8. ASSUME NEW r \in Threads, FinishRead(r) PROVE TasksOK'
    <2>1. PICK l \in logins :
            task' = [task EXCEPT ![r] = [op |-> "finish", login |-> l]] \/ UNCHANGED task
      BY <1>8 DEF FinishRead, Begin
    <2>2. l \in LoginRow BY <2>1 DEF AccountsInv, LoginsOK
    <2>3. [op |-> "finish", login |-> l] \in Tasks BY <2>2
    <2> QED BY <1>3, <1>4, <2>1, <2>3
  <1>9. ASSUME NEW r \in Threads, NEW route \in Routes, Authorise(r, route) PROVE TasksOK'
    <2>1. PICK s \in sessions :
            /\ s.uid \in DOMAIN users
            /\ task' = [task EXCEPT ![r] = [op |-> route, tok |-> s.tok, uid |-> s.uid,
                                            role |-> users[s.uid].role, totp |-> users[s.uid].totp]]
      BY <1>9 DEF Authorise, Begin
    <2>2. s \in Session BY <2>1 DEF AccountsInv, SessionsOK
    <2>3. users[s.uid].role \in Roles /\ users[s.uid].totp \in BOOLEAN
      BY <2>1 DEF AccountsInv, AdminInv, UsersOK, User
    <2>4. route \in AllRoutes BY AccountsAssumption
    <2>5. PICK t : t = [op |-> route, tok |-> s.tok, uid |-> s.uid,
                        role |-> users[s.uid].role, totp |-> users[s.uid].totp]
      OBVIOUS
    <2>6. t \in Tasks
      <3>1. t \in RouteTask BY <2>2, <2>3, <2>4, <2>5 DEF Session
      <3> QED BY <3>1
    <2>7. t.op \notin {"login", "forgot"} BY <2>4, <2>5 DEF AllRoutes
    <2> QED BY <1>3, <2>1, <2>5, <2>6, <2>7
  <1>10. ASSUME NEW r \in Threads, NEW op \in {"confirm", "revoke", "switch_off"},
                task[r].op \in AllRoutes \cup {"confirm"}, task' = [task EXCEPT ![r].op = op]
         PROVE  TasksOK'
    <2>1. task[r] \in RouteTask BY <1>1, <1>10 DEF AllRoutes
    <2>2. PICK t : t = [task[r] EXCEPT !.op = op] OBVIOUS
    <2>3. t \in RouteTask /\ t.op = op BY <1>10, <2>1, <2>2
    <2>4. task' = [task EXCEPT ![r] = t] BY <1>10, <2>2
    <2>5. t \in Tasks BY <2>3
    <2> QED BY <1>3, <1>10, <2>3, <2>4, <2>5
  <1>11. ASSUME NEW r \in Threads, ForgotRead(r) PROVE TasksOK'
    <2>1. PICK u \in DOMAIN users : task' = [task EXCEPT ![r] = [op |-> "forgot", uid |-> u]]
      BY <1>11 DEF ForgotRead, Begin
    <2>2. u \in Nat /\ u < nextId BY <1>1, <2>1 DEF AccountsInv, AdminInv, UsersOK
    <2>3. [op |-> "forgot", uid |-> u] \in Tasks BY <2>2
    <2> QED BY <1>3, <2>1, <2>2, <2>3
  <1>12. ASSUME NEW r \in Threads, ResetPlausible(r) PROVE TasksOK'
    <2>1. PICK l \in resets : task' = [task EXCEPT ![r] = [op |-> "reset", token |-> l]]
      BY <1>12 DEF ResetPlausible, Begin
    <2>2. l \in ResetRow BY <2>1 DEF AccountsInv, ResetsOK
    <2>3. [op |-> "reset", token |-> l] \in Tasks BY <2>2
    <2> QED BY <1>3, <2>1, <2>3
  <1>13. ASSUME NEW r \in Threads, TotpConfirmRead(r) \/ TotpDisableVerify(r) \/ TotpConfirm(r)
         PROVE  TasksOK'
    <2>1. \/ /\ task[r].op \in {"totp_enable", "totp_disable", "confirm"}
             /\ \E op \in {"confirm", "revoke", "switch_off"} : task' = [task EXCEPT ![r].op = op]
          \/ task' = [task EXCEPT ![r] = Idle]
      BY <1>13 DEF TotpConfirmRead, TotpDisableVerify, TotpConfirm, Done
    <2>2. {"totp_enable", "totp_disable"} \subseteq AllRoutes BY DEF AllRoutes
    <2> QED BY <1>6, <1>10, <2>1, <2>2
  <1>14. ASSUME NEW r \in Threads,
                \/ LoginDone(r) \/ FinishWrong(r) \/ FinishDone(r) \/ Logout(r) \/ ChangePassword(r)
                \/ Refused(r) \/ CreateUser(r) \/ AdminResetPassword(r) \/ SetRole(r)
                \/ DeleteUser(r) \/ TotpSetup(r) \/ RevokeOtherSessions(r) \/ TotpDisable(r)
                \/ AdminTotpReset(r) \/ ForgotPassword(r) \/ ResetCommit(r)
         PROVE  TasksOK'
    <2>1. task' = [task EXCEPT ![r] = Idle]
      BY <1>14 DEF Done, LoginDone, FinishWrong, FinishDone, Logout, ChangePassword, Refused,
         CreateUser, AdminResetPassword, SetRole, DeleteUser, TotpSetup, RevokeOtherSessions,
         TotpDisable, AdminTotpReset, ForgotPassword, ResetCommit
    <2> QED BY <1>6, <2>1
  <1>15. ASSUME NEW r \in Threads, RequestStep(r) PROVE TasksOK'
    <2> HIDE DEF Tasks, Idle
    <2> QED BY <1>7, <1>8, <1>9, <1>11, <1>12, <1>13, <1>14, <1>15 DEF RequestStep
  <1>16. CASE Lapse \/ Restart \/ RestartReset \/ UNCHANGED vars
    <2>1. UNCHANGED task \/ task' = [r \in Threads |-> Idle]
      BY <1>16 DEF Lapse, Restart, RestartReset, vars
    <2> QED BY <1>4, <1>5, <2>1
  <1> QED BY <1>15, <1>16 DEF Next, ServeNext

LEMMA AccountsStep == AccountsInv /\ [Next]_vars => AccountsInv'
  BY AdminStep, CountersGrow, SessionsStep, LoginsStep, ResetsStep, PendingStep, TasksStep,
     LinksStep DEF AccountsInv

LEMMA AccountsStart == Init => AccountsInv
  <1> SUFFICES ASSUME Init PROVE AccountsInv OBVIOUS
  <1>1. AdminInv
    <2>1. IsFiniteSet({1}) BY FS_Singleton
    <2>2. DOMAIN users = {1} /\ nextId = 2 BY DEF Init
    <2>3. users[1].role = "admin" /\ users[1] \in User BY DEF Init, User, Roles
    <2>4. users = [u \in DOMAIN users |-> users[u]] BY DEF Init
    <2> QED BY <2>1, <2>2, <2>3, <2>4 DEF AdminInv, UsersOK, AtLeastOneAdmin, Admins
  <1>2. fresh \in Nat /\ SessionsOK /\ LoginsOK /\ ResetsOK /\ PendingOK
    BY DEF Init, SessionsOK, LoginsOK, ResetsOK, PendingOK
  <1>3. TasksOK BY DEF Init, TasksOK, Tasks, Idle
  <1>4. LinksInv BY DEF Init, LinksInv, ResetOnce, OlderUsed
  <1> QED BY <1>1, <1>2, <1>3, <1>4 DEF AccountsInv

\* For any threads, accounts and tokens, and wherever the process restarts: the
\* tables keep their shape, and no row names an id that an account created
\* later could be given (auth.py's AUTOINCREMENT, which delete_user relies on).
THEOREM NoIdComesBack == Spec => []TypeOK
  <1>1. AccountsInv => TypeOK
    BY DEF AccountsInv, AdminInv, UsersOK, SessionsOK, LoginsOK, ResetsOK, PendingOK, TypeOK,
       LoginRow, ResetRow
  <1> QED BY <1>1, AccountsStart, AccountsStep, PTL DEF Spec

\* "reset tokens are single-use": for any number of requests that look a link up
\* before its password is hashed, at most one of them sets the password.
THEOREM LinksWorkOnce == Spec => []ResetOnce
  <1>1. AccountsInv => ResetOnce BY DEF AccountsInv, LinksInv
  <1> QED BY <1>1, AccountsStart, AccountsStep, PTL DEF Spec

LEMMA NewestStep ==
  ASSUME AccountsInv, [Next]_vars, NEW old \in resets, NEW new \in resets,
         old.uid = new.uid, old.tok < new.tok
  PROVE  resetsBy' # Append(resetsBy, old.tok)
  <1>1. /\ resetsBy \in Seq(Nat) /\ old.tok \in Nat /\ old.used
        /\ \A t \in resets : t.tok \in Nat /\ (t.tok = old.tok => t = old)
    BY DEF AccountsInv, ResetsOK, LinksInv, OlderUsed, ResetRow
  <1>2. ASSUME resetsBy' = resetsBy PROVE resetsBy' # Append(resetsBy, old.tok)
    <2>1. Len(Append(resetsBy, old.tok)) = Len(resetsBy) + 1 /\ Len(resetsBy) \in Nat BY <1>1
    <2> QED BY <1>2, <2>1
  <1>3. ASSUME NEW t \in resets, ~t.used, resetsBy' = Append(resetsBy, t.tok)
        PROVE  resetsBy' # Append(resetsBy, old.tok)
    <2>1. t.tok # old.tok BY <1>1, <1>3
    <2>2. Append(resetsBy, t.tok)[Len(resetsBy) + 1] = t.tok
          /\ Append(resetsBy, old.tok)[Len(resetsBy) + 1] = old.tok
      BY <1>1
    <2> QED BY <1>3, <2>1, <2>2
  <1>4. ASSUME NEW r \in Threads, ForgotPassword(r) PROVE resetsBy' = resetsBy
    BY <1>4 DEF ForgotPassword
  <1>5. ASSUME NEW r \in Threads, ResetCommit(r) PROVE resetsBy' # Append(resetsBy, old.tok)
    BY <1>2, <1>3, <1>5, LinkUsed
  <1> QED BY <1>2, <1>4, <1>5, LinksRest

\* create_reset_token and the re-check after the hash: a link asked for earlier
\* sets no password, though it was looked up before the newer one was made.
THEOREM LastLinkWorks == Spec => NewestLinkSets
  <1>1. AccountsInv /\ [Next]_vars
          => [\A old, new \in resets :
                old.uid = new.uid /\ old.tok < new.tok
                  => resetsBy' # Append(resetsBy, old.tok)]_vars
    BY NewestStep
  <1> QED BY <1>1, AccountsStart, AccountsStep, PTL DEF Spec, NewestLinkSets

----------------------------------------------------------------------------
(* The sessions of an account that turned its second factor on *)

\* _handle_login creates a session for an account whose second factor was turned
\* on since it read the row: the step that the run AccountsSecondFactor finds.
LateSignIn ==
  \E r \in Threads : LoginDone(r) /\ ~task[r].totp /\ HasTotp(task[r].uid)

\* The process ends between totp_confirm and revoke_other_sessions.
CutOff == (Restart \/ RestartReset) /\ \E r \in Threads : task[r].op = "revoke"

\* Nobody holds a token still to be handed out, and the session that turned the
\* second factor on, the one revoke_other_sessions leaves, is marked.
SecondInv ==
  /\ SecondFactorSessions
  /\ \A s \in sessions : s.tok <= fresh
  /\ \A r \in Threads : task[r] \in RouteTask => task[r].tok <= fresh
  /\ \A r \in Threads : task[r].op = "revoke" =>
       task[r] \in RouteTask /\ \A s \in sessions : s.tok = task[r].tok => s.second

\* A row written with no second factor that was not there before.
LEMMA TotpOff ==
  ASSUME UsersOK, NEW uid \in DOMAIN users, NEW user \in User, Update(uid, user),
         user.totp => users[uid].totp
  PROVE  \A u : HasTotp(u)' => HasTotp(u)
  BY UpdateOK DEF HasTotp

\* totp_confirm alone turns a second factor on.
LEMMA OnlyConfirm ==
  ASSUME AdminInv,
         \/ \E r \in Threads : RequestStep(r) /\ ~TotpConfirm(r)
         \/ Lapse \/ Restart \/ RestartReset \/ UNCHANGED vars
  PROVE  \A u : HasTotp(u)' => HasTotp(u)
  <1>0. UsersOK BY DEF AdminInv
  <1>1. ASSUME UNCHANGED users PROVE \A u : HasTotp(u)' => HasTotp(u)
    BY <1>1 DEF HasTotp
  <1>2. ASSUME NEW role \in Roles, NEW must \in BOOLEAN, AddUser(role, must)
        PROVE  \A u : HasTotp(u)' => HasTotp(u)
    <2>1. DOMAIN users' = DOMAIN users \cup {nextId} /\ users'[nextId].totp = FALSE
      BY <1>2 DEF AddUser
    <2>2. \A u \in DOMAIN users : u # nextId => users'[u] = users[u] BY <1>2 DEF AddUser
    <2> QED BY <2>1, <2>2 DEF HasTotp
  <1>3. ASSUME NEW uid, NEW must \in BOOLEAN, SetPassword(uid, must)
        PROVE  \A u : HasTotp(u)' => HasTotp(u)
    <2>1. CASE uid \in DOMAIN users
      <3>1. [users[uid] EXCEPT !.must = must] \in User BY <1>0, <2>1 DEF UsersOK, User
      <3>2. [users[uid] EXCEPT !.must = must].totp = users[uid].totp
        BY <1>0, <2>1 DEF UsersOK, User
      <3> QED BY <1>0, <1>3, <2>1, <3>1, <3>2, TotpOff DEF SetPassword
    <2>2. CASE uid \notin DOMAIN users BY <1>1, <1>3, <2>2 DEF SetPassword
    <2> QED BY <2>1, <2>2
  <1>4. ASSUME NEW uid, SwitchOff(uid) PROVE \A u : HasTotp(u)' => HasTotp(u)
    <2>1. CASE uid \in DOMAIN users
      <3>1. [users[uid] EXCEPT !.totp = FALSE] \in User BY <1>0, <2>1 DEF UsersOK, User
      <3>2. ~[users[uid] EXCEPT !.totp = FALSE].totp BY <1>0, <2>1 DEF UsersOK, User
      <3> QED BY <1>0, <1>4, <2>1, <3>1, <3>2, TotpOff DEF SwitchOff
    <2>2. CASE uid \notin DOMAIN users BY <1>1, <1>4, <2>2 DEF SwitchOff
    <2> QED BY <2>1, <2>2
  <1>5. ASSUME NEW r \in Threads, RequestStep(r), ~TotpConfirm(r)
        PROVE  \A u : HasTotp(u)' => HasTotp(u)
    <2>1. CASE ChangePassword(r) BY <1>3, <2>1 DEF ChangePassword
    <2>2. CASE AdminResetPassword(r) BY <1>3, <2>2 DEF AdminResetPassword
    <2>3. CASE CreateUser(r) BY <1>2, <2>3 DEF CreateUser
    <2>4. CASE SetRole(r)
      <3>1. CASE UNCHANGED users BY <1>1, <3>1
      <3>2. ASSUME NEW u \in DOMAIN users, NEW role \in Roles,
                   Update(u, [users[u] EXCEPT !.role = role])
            PROVE  \A v : HasTotp(v)' => HasTotp(v)
        <4>1. [users[u] EXCEPT !.role = role] \in User BY <1>0 DEF UsersOK, User
        <4>2. [users[u] EXCEPT !.role = role].totp = users[u].totp BY <1>0 DEF UsersOK, User
        <4> QED BY <1>0, <3>2, <4>1, <4>2, TotpOff
      <3> QED BY <2>4, <3>1, <3>2 DEF SetRole
    <2>5. CASE DeleteUser(r)
      <3>1. UNCHANGED users \/ \E u \in DOMAIN users : users' = [v \in DOMAIN users \ {u} |-> users[v]]
        BY <2>5 DEF DeleteUser
      <3> QED BY <3>1 DEF HasTotp
    <2>6. CASE TotpDisable(r) BY <1>4, <2>6 DEF TotpDisable
    <2>7. CASE AdminTotpReset(r) BY <1>4, <2>7 DEF AdminTotpReset
    <2>8. CASE ResetCommit(r)
      <3>1. PICK uid : uid = task[r].token.uid OBVIOUS
      <3>2. \/ UNCHANGED users
            \/ uid \in DOMAIN users /\ Update(uid, [users[uid] EXCEPT !.must = FALSE])
        BY <2>8, <3>1 DEF ResetCommit, Live
      <3>3. ASSUME uid \in DOMAIN users, Update(uid, [users[uid] EXCEPT !.must = FALSE])
            PROVE  \A v : HasTotp(v)' => HasTotp(v)
        <4>1. [users[uid] EXCEPT !.must = FALSE] \in User BY <1>0, <3>3 DEF UsersOK, User
        <4>2. [users[uid] EXCEPT !.must = FALSE].totp = users[uid].totp
          BY <1>0, <3>3 DEF UsersOK, User
        <4> QED BY <1>0, <3>3, <4>1, <4>2, TotpOff
      <3> QED BY <1>1, <3>2, <3>3
    <2>9. CASE \/ LoginRead(r) \/ LoginDone(r) \/ FinishRead(r) \/ FinishWrong(r)
               \/ FinishDone(r) \/ (\E route \in Routes : Authorise(r, route))
               \/ Logout(r) \/ Refused(r) \/ TotpSetup(r) \/ TotpConfirmRead(r)
               \/ RevokeOtherSessions(r) \/ TotpDisableVerify(r)
               \/ ForgotRead(r) \/ ForgotPassword(r) \/ ResetPlausible(r)
      BY <1>1, <2>9 DEF LoginRead, LoginDone, FinishRead, FinishWrong,
           FinishDone, Authorise, Logout, Refused, TotpSetup, TotpConfirmRead,
           RevokeOtherSessions, TotpDisableVerify, ForgotRead, ForgotPassword,
           ResetPlausible, tables
    <2> QED BY <1>5, <2>1, <2>2, <2>3, <2>4, <2>5, <2>6, <2>7, <2>8, <2>9 DEF RequestStep
  <1>6. CASE RestartReset
    <2>1. PICK must \in BOOLEAN :
            \/ \E u \in DOMAIN users :
                 Update(u, [role |-> "admin", must |-> must, totp |-> FALSE])
            \/ AddUser("admin", must)
      BY <1>6 DEF RestartReset
    <2>2. [role |-> "admin", must |-> must, totp |-> FALSE] \in User BY DEF User, Roles
    <2>3. "admin" \in Roles BY DEF Roles
    <2> QED BY <1>0, <1>2, <2>1, <2>2, <2>3, TotpOff
  <1>7. CASE Lapse \/ Restart \/ UNCHANGED vars
    BY <1>1, <1>7 DEF Lapse, Restart, vars, tables
  <1> QED BY <1>5, <1>6, <1>7

\* What a request step may do to its thread, but for the two ends of a set-up.
LEMMA TaskMoves ==
  ASSUME AccountsInv, SecondInv, NEW r \in Threads, RequestStep(r), ~TotpConfirm(r)
  PROVE  /\ \A q \in Threads \ {r} : task'[q] = task[q]
         /\ task'[r].op # "revoke"
         /\ task'[r] \in RouteTask => task'[r].tok <= fresh
  <1>0. task \in [Threads -> Tasks] BY DEF AccountsInv, TasksOK
  <1>1. ASSUME NEW t, task' = [task EXCEPT ![r] = t], t.op # "revoke",
               t \in RouteTask => t.tok <= fresh
        PROVE  /\ \A q \in Threads \ {r} : task'[q] = task[q]
               /\ task'[r].op # "revoke"
               /\ task'[r] \in RouteTask => task'[r].tok <= fresh
    <2> HIDE DEF RouteTask
    <2>1. task'[r] = t BY <1>0, <1>1
    <2> QED BY <1>0, <1>1, <2>1
  <1>2. Idle.op = "idle" /\ Idle \notin RouteTask BY DEF Idle, RouteTask, AllRoutes
  <1>3. CASE \/ LoginDone(r) \/ FinishWrong(r) \/ FinishDone(r) \/ Logout(r) \/ ChangePassword(r)
             \/ Refused(r) \/ CreateUser(r) \/ AdminResetPassword(r) \/ SetRole(r)
             \/ DeleteUser(r) \/ TotpSetup(r) \/ RevokeOtherSessions(r) \/ TotpDisable(r)
             \/ AdminTotpReset(r) \/ ForgotPassword(r) \/ ResetCommit(r)
    <2>1. task' = [task EXCEPT ![r] = Idle]
      BY <1>3 DEF Done, LoginDone, FinishWrong, FinishDone, Logout, ChangePassword, Refused,
         CreateUser, AdminResetPassword, SetRole, DeleteUser, TotpSetup, RevokeOtherSessions,
         TotpDisable, AdminTotpReset, ForgotPassword, ResetCommit
    <2> QED BY <1>1, <1>2, <2>1
  <1>4. ASSUME NEW t, Begin(r, t), t.op \in {"login", "forgot", "reset", "finish"}
        PROVE  /\ \A q \in Threads \ {r} : task'[q] = task[q]
               /\ task'[r].op # "revoke"
               /\ task'[r] \in RouteTask => task'[r].tok <= fresh
    <2>1. t \notin RouteTask /\ t.op # "revoke" BY <1>4 DEF RouteTask, AllRoutes
    <2> QED BY <1>1, <1>4, <2>1 DEF Begin
  <1>5. CASE LoginRead(r)
    <2>1. PICK u \in DOMAIN users : Begin(r, [op |-> "login", uid |-> u, totp |-> users[u].totp])
      BY <1>5 DEF LoginRead
    <2>2. [op |-> "login", uid |-> u, totp |-> users[u].totp].op = "login" OBVIOUS
    <2> QED BY <1>4, <2>1, <2>2
  <1>6. CASE FinishRead(r)
    <2>1. PICK l \in logins : Begin(r, [op |-> "finish", login |-> l])
                              \/ (task[r] = Idle /\ UNCHANGED task)
      BY <1>6 DEF FinishRead
    <2>2. [op |-> "finish", login |-> l].op = "finish" OBVIOUS
    <2> QED BY <1>2, <1>4, <2>1, <2>2
  <1>7. CASE ForgotRead(r)
    <2>1. PICK u \in DOMAIN users : Begin(r, [op |-> "forgot", uid |-> u])
      BY <1>7 DEF ForgotRead
    <2>2. [op |-> "forgot", uid |-> u].op = "forgot" OBVIOUS
    <2> QED BY <1>4, <2>1, <2>2
  <1>8. CASE ResetPlausible(r)
    <2>1. PICK l \in resets : Begin(r, [op |-> "reset", token |-> l])
      BY <1>8 DEF ResetPlausible
    <2>2. [op |-> "reset", token |-> l].op = "reset" OBVIOUS
    <2> QED BY <1>4, <2>1, <2>2
  <1>9. ASSUME NEW route \in Routes, Authorise(r, route)
        PROVE  /\ \A q \in Threads \ {r} : task'[q] = task[q]
               /\ task'[r].op # "revoke"
               /\ task'[r] \in RouteTask => task'[r].tok <= fresh
    <2>1. PICK s \in sessions : \E t :
            /\ t = [op |-> route, tok |-> s.tok, uid |-> s.uid,
                    role |-> users[s.uid].role, totp |-> users[s.uid].totp]
            /\ task' = [task EXCEPT ![r] = t]
      BY <1>9 DEF Authorise, Begin
    <2>2. PICK t :
            /\ t = [op |-> route, tok |-> s.tok, uid |-> s.uid,
                    role |-> users[s.uid].role, totp |-> users[s.uid].totp]
            /\ task' = [task EXCEPT ![r] = t]
      BY <2>1
    <2>3. t.op = route /\ t.tok = s.tok BY <2>2
    <2>4. s.tok <= fresh BY <2>1 DEF SecondInv
    <2>5. route # "revoke" BY AccountsAssumption DEF AllRoutes
    <2> QED BY <1>1, <2>2, <2>3, <2>4, <2>5
  <1>10. CASE TotpConfirmRead(r) \/ TotpDisableVerify(r)
    <2>1. PICK op \in {"confirm", "switch_off"} : task' = [task EXCEPT ![r].op = op]
      BY <1>10 DEF TotpConfirmRead, TotpDisableVerify
    <2>2. task[r].op \in AllRoutes BY <1>10 DEF TotpConfirmRead, TotpDisableVerify, AllRoutes
    <2>3. task[r] \in RouteTask
      BY <1>0, <2>2 DEF Tasks, Idle, LoginTask, FinishTask, RouteTask, ForgotTask, ResetTask, AllRoutes
    <2>4. PICK t : t = [task[r] EXCEPT !.op = op] OBVIOUS
    <2>5. t.op = op /\ t.tok = task[r].tok BY <2>3, <2>4 DEF RouteTask
    <2>6. task' = [task EXCEPT ![r] = t] BY <2>1, <2>4
    <2> QED BY <1>1, <2>3, <2>5, <2>6 DEF SecondInv
  <1> QED BY <1>3, <1>9, <1>10, <1>5, <1>6, <1>7, <1>8 DEF RequestStep

\* Sessions are added by a sign-in, and marked by the end of a set-up.
LEMMA SessionsGo ==
  ASSUME NEW r \in Threads, RequestStep(r),
         ~LoginDone(r), ~FinishDone(r), ~TotpConfirm(r)
  PROVE  sessions' \subseteq sessions
  BY DEF RequestStep, LoginRead, FinishRead, FinishWrong, Authorise, Logout,
     ChangePassword, Refused, CreateUser, AdminResetPassword, SetRole, DeleteUser,
     TotpSetup, TotpConfirmRead, RevokeOtherSessions, TotpDisableVerify, TotpDisable,
     AdminTotpReset, ForgotRead, ForgotPassword, ResetPlausible, ResetCommit,
     SetPassword, DropSessions, tables

\* A session that is new has a token nobody holds, and its account no second
\* factor, or the session has passed it.
LEMMA SessionAdded ==
  ASSUME SecondInv, AccountsInv, NEW uid, NEW second \in BOOLEAN, NewSession(uid, second),
         NEW r \in Threads, task[r].op # "revoke", task' = [task EXCEPT ![r] = Idle],
         UNCHANGED users, HasTotp(uid) => second
  PROVE  SecondInv'
  <1> DEFINE new == [tok |-> fresh + 1, uid |-> uid, second |-> second]
  <1>1. /\ fresh \in Nat /\ fresh' = fresh + 1 /\ sessions' = sessions \cup {new}
        /\ sessions \subseteq Session /\ task \in [Threads -> Tasks]
    BY DEF AccountsInv, SessionsOK, TasksOK, NewSession, Fresh
  <1>2. new.tok = fresh + 1 /\ new.uid = uid /\ new.second = second OBVIOUS
  <1>3. Idle.op = "idle" /\ Idle \notin RouteTask BY DEF Idle, RouteTask, AllRoutes
  <1>4. \A q \in Threads : task'[q] = IF q = r THEN Idle ELSE task[q] BY <1>1
  <1>5. \A u : HasTotp(u)' <=> HasTotp(u) BY DEF HasTotp
  <1>6. \A s \in sessions : s.tok \in Nat /\ s.tok <= fresh BY <1>1 DEF SecondInv, Session
  <1>7. \A q \in Threads : task[q] \in RouteTask => task[q].tok \in Nat /\ task[q].tok <= fresh
    BY DEF SecondInv, RouteTask
  <1> HIDE DEF new
  <1>8. SecondFactorSessions'
    <2> SUFFICES ASSUME NEW s \in sessions', HasTotp(s.uid)',
                        \A q \in Threads : ~(task'[q].op = "revoke" /\ task'[q].uid = s.uid)
                 PROVE  s.second
      BY DEF SecondFactorSessions
    <2>1. CASE s = new BY <1>2, <1>5, <2>1
    <2>2. CASE s \in sessions
      <3>1. \A q \in Threads : ~(task[q].op = "revoke" /\ task[q].uid = s.uid) BY <1>4
      <3> QED BY <1>5, <2>2, <3>1 DEF SecondInv, SecondFactorSessions
    <2> QED BY <1>1, <2>1, <2>2
  <1>9. \A s \in sessions' : s.tok <= fresh' BY <1>1, <1>2, <1>6
  <1>10. \A q \in Threads : task'[q] \in RouteTask => task'[q].tok <= fresh'
    BY <1>1, <1>3, <1>4, <1>7
  <1>11. ASSUME NEW q \in Threads, task'[q].op = "revoke"
         PROVE  task'[q] \in RouteTask /\ \A s \in sessions' : s.tok = task'[q].tok => s.second
    <2>1. task'[q] = task[q] BY <1>3, <1>4, <1>11
    <2>2. task[q] \in RouteTask /\ \A s \in sessions : s.tok = task[q].tok => s.second
      BY <1>11, <2>1 DEF SecondInv
    <2>3. new.tok # task[q].tok BY <1>1, <1>2, <1>7, <2>2
    <2> QED BY <1>1, <2>1, <2>2, <2>3
  <1> QED BY <1>8, <1>9, <1>10, <1>11 DEF SecondInv

\* Fewer sessions and second factors, and no end of a set-up.
LEMMA SecondKept ==
  ASSUME SecondInv, AccountsInv, fresh' \in Nat, fresh <= fresh',
         sessions' \subseteq sessions, \A u : HasTotp(u)' => HasTotp(u),
         \A q \in Threads : task[q].op = "revoke" => task'[q] = task[q],
         \A q \in Threads : task'[q].op = "revoke" => task'[q] = task[q],
         \A q \in Threads : task'[q] \in RouteTask => task'[q].tok <= fresh
  PROVE  SecondInv'
  <1>1. fresh \in Nat /\ \A s \in sessions : s.tok \in Nat
    BY DEF AccountsInv, SessionsOK, Session
  <1>2. SecondFactorSessions' BY DEF SecondInv, SecondFactorSessions
  <1>3. \A s \in sessions' : s.tok <= fresh' BY <1>1 DEF SecondInv
  <1>4. \A q \in Threads : task'[q] \in RouteTask => task'[q].tok <= fresh'
    BY <1>1 DEF RouteTask
  <1>5. \A q \in Threads : task'[q].op = "revoke" =>
          task'[q] \in RouteTask /\ \A s \in sessions' : s.tok = task'[q].tok => s.second
    BY DEF SecondInv
  <1> QED BY <1>2, <1>3, <1>4, <1>5 DEF SecondInv

\* totp_confirm: the session is marked, and the others are about to go.
LEMMA SetUpDone ==
  ASSUME SecondInv, AccountsInv, AccountsInv', NEW r \in Threads, TotpConfirm(r)
  PROVE  SecondInv'
  <1>1. /\ fresh \in Nat /\ fresh' = fresh /\ task[r].op = "confirm"
        /\ task \in [Threads -> Tasks] /\ sessions \subseteq Session
    BY DEF AccountsInv, TasksOK, SessionsOK, TotpConfirm
  <1>2. task[r] \in RouteTask /\ task[r].tok <= fresh
    BY <1>1 DEF Tasks, Idle, LoginTask, FinishTask, RouteTask, ForgotTask, ResetTask, AllRoutes,
       SecondInv
  <1>3. Idle.op = "idle" /\ Idle \notin RouteTask BY DEF Idle, RouteTask, AllRoutes
  <1>4. CASE task[r].uid \notin DOMAIN users
    <2>1. task' = [task EXCEPT ![r] = Idle] /\ UNCHANGED <<users, sessions>>
      BY <1>4 DEF TotpConfirm, Done
    <2>2. \A q \in Threads : task'[q] = IF q = r THEN Idle ELSE task[q] BY <1>1, <2>1
    <2>3. \A u : HasTotp(u)' => HasTotp(u) BY <2>1 DEF HasTotp
    <2> QED BY <1>1, <1>3, <2>1, <2>2, <2>3, SecondKept DEF SecondInv
  <1>5. CASE task[r].uid \in DOMAIN users
    <2>1. PICK tok, uid : tok = task[r].tok /\ uid = task[r].uid OBVIOUS
    <2>2. /\ Update(uid, [users[uid] EXCEPT !.totp = TRUE])
          /\ sessions' = {[s EXCEPT !.second = @ \/ s.tok = tok] : s \in sessions}
          /\ task' = [task EXCEPT ![r].op = "revoke"]
      BY <1>5, <2>1 DEF TotpConfirm
    <2>3. PICK t : t = [task[r] EXCEPT !.op = "revoke"] OBVIOUS
    <2>4. t \in RouteTask /\ t.op = "revoke" /\ t.tok = tok /\ t.uid = uid
      BY <1>2, <2>1, <2>3 DEF RouteTask
    <2>5. \A q \in Threads : task'[q] = IF q = r THEN t ELSE task[q] BY <1>1, <2>2, <2>3
    <2>6. ASSUME NEW x \in sessions'
          PROVE  \E s \in sessions : /\ x.tok = s.tok /\ x.uid = s.uid
                                     /\ x.second = (s.second \/ s.tok = tok)
      <3>1. PICK s \in sessions : x = [s EXCEPT !.second = @ \/ s.tok = tok] BY <2>2
      <3>2. s \in Session BY <1>1
      <3> QED BY <3>1, <3>2 DEF Session
    <2>7. \A u : u # uid => (HasTotp(u)' => HasTotp(u)) BY <2>2 DEF HasTotp, Update
    <2>8. SecondFactorSessions'
      <3> SUFFICES ASSUME NEW x \in sessions', HasTotp(x.uid)',
                          \A q \in Threads : ~(task'[q].op = "revoke" /\ task'[q].uid = x.uid)
                   PROVE  x.second
        BY DEF SecondFactorSessions
      <3>1. x.uid # uid BY <2>4, <2>5
      <3>2. PICK s \in sessions : x.uid = s.uid /\ x.second = (s.second \/ s.tok = tok) BY <2>6
      <3>3. \A q \in Threads : ~(task[q].op = "revoke" /\ task[q].uid = s.uid)
        BY <1>1, <2>5, <3>2
      <3>4. HasTotp(s.uid) BY <2>7, <3>1, <3>2
      <3> QED BY <3>2, <3>3, <3>4 DEF SecondInv, SecondFactorSessions
    <2>9. \A x \in sessions' : x.tok <= fresh' BY <1>1, <2>6 DEF SecondInv
    <2>10. \A q \in Threads : task'[q] \in RouteTask => task'[q].tok <= fresh'
      BY <1>1, <1>2, <2>1, <2>4, <2>5 DEF SecondInv
    <2>11. ASSUME NEW q \in Threads, task'[q].op = "revoke"
           PROVE  task'[q] \in RouteTask /\ \A x \in sessions' : x.tok = task'[q].tok => x.second
      <3>1. CASE q = r BY <2>4, <2>5, <2>6, <3>1
      <3>2. CASE q # r
        <4>1. task'[q] = task[q] BY <2>5, <3>2
        <4>2. task[q] \in RouteTask /\ \A s \in sessions : s.tok = task[q].tok => s.second
          BY <2>11, <4>1 DEF SecondInv
        <4> QED BY <2>6, <4>1, <4>2
      <3> QED BY <3>1, <3>2
    <2> QED BY <2>8, <2>9, <2>10, <2>11 DEF SecondInv
  <1> QED BY <1>4, <1>5

\* revoke_other_sessions: what is left of the account's sessions is marked.
LEMMA OthersRevoked ==
  ASSUME SecondInv, AccountsInv, NEW r \in Threads, RevokeOtherSessions(r)
  PROVE  SecondInv'
  <1>1. /\ task \in [Threads -> Tasks] /\ task' = [task EXCEPT ![r] = Idle]
        /\ fresh \in Nat /\ fresh' = fresh /\ UNCHANGED users /\ task[r].op = "revoke"
    BY DEF AccountsInv, TasksOK, RevokeOtherSessions, Done
  <1>2. PICK tok, uid : tok = task[r].tok /\ uid = task[r].uid OBVIOUS
  <1>3. sessions' = {s \in sessions : s.uid # uid \/ s.tok = tok}
    BY <1>2 DEF RevokeOtherSessions
  <1>4. Idle.op = "idle" /\ Idle \notin RouteTask BY DEF Idle, RouteTask, AllRoutes
  <1>5. \A q \in Threads : task'[q] = IF q = r THEN Idle ELSE task[q] BY <1>1
  <1>6. \A u : HasTotp(u)' <=> HasTotp(u) BY <1>1 DEF HasTotp
  <1>7. SecondFactorSessions'
    <2> SUFFICES ASSUME NEW s \in sessions', HasTotp(s.uid)',
                        \A q \in Threads : ~(task'[q].op = "revoke" /\ task'[q].uid = s.uid)
                 PROVE  s.second
      BY DEF SecondFactorSessions
    <2>1. CASE s.uid = uid BY <1>1, <1>2, <1>3, <2>1 DEF SecondInv
    <2>2. CASE s.uid # uid
      <3>1. \A q \in Threads : ~(task[q].op = "revoke" /\ task[q].uid = s.uid)
        BY <1>2, <1>5, <2>2
      <3> QED BY <1>3, <1>6, <3>1 DEF SecondInv, SecondFactorSessions
    <2> QED BY <2>1, <2>2
  <1> QED BY <1>1, <1>3, <1>4, <1>5, <1>7 DEF SecondInv

\* While totp_confirm's handler is about to revoke, its thread does nothing else.
LEMMA RevokeOnly ==
  ASSUME NEW r \in Threads, RequestStep(r), task[r].op = "revoke"
  PROVE  RevokeOtherSessions(r)
  <1>1. task[r] # Idle BY DEF Idle
  <1>2. \A t : ~Begin(r, t) BY <1>1 DEF Begin
  <1>3. /\ ~LoginRead(r) /\ ~FinishRead(r) /\ ~ForgotRead(r) /\ ~ResetPlausible(r)
        /\ \A route \in Routes : ~Authorise(r, route)
    BY <1>1, <1>2 DEF LoginRead, FinishRead, ForgotRead, ResetPlausible, Authorise
  <1>4. ~LoginDone(r) /\ ~FinishWrong(r) /\ ~FinishDone(r) /\ ~Refused(r)
    BY DEF LoginDone, FinishWrong, FinishDone, Refused
  <1>5. ~Logout(r) /\ ~ChangePassword(r) /\ ~TotpSetup(r) /\ ~TotpConfirmRead(r)
    BY DEF Logout, ChangePassword, TotpSetup, TotpConfirmRead
  <1>6. ~TotpConfirm(r) /\ ~TotpDisableVerify(r) /\ ~TotpDisable(r)
    BY DEF TotpConfirm, TotpDisableVerify, TotpDisable
  <1>7. ~CreateUser(r) /\ ~AdminResetPassword(r) /\ ~SetRole(r) /\ ~DeleteUser(r)
        /\ ~AdminTotpReset(r)
    BY DEF CreateUser, AdminResetPassword, SetRole, DeleteUser, AdminTotpReset, AsAdmin
  <1>8. ~ForgotPassword(r) /\ ~ResetCommit(r) BY DEF ForgotPassword, ResetCommit
  <1> QED BY <1>3, <1>4, <1>5, <1>6, <1>7, <1>8 DEF RequestStep

LEMMA SecondStep ==
  ASSUME SecondInv, AccountsInv, AccountsInv', [Next]_vars, [~LateSignIn /\ ~CutOff]_vars
  PROVE  SecondInv'
  <1>1. /\ fresh \in Nat /\ fresh' \in Nat /\ fresh <= fresh' /\ AdminInv
        /\ task \in [Threads -> Tasks]
    BY CountersGrow DEF AccountsInv, TasksOK
  <1>2. ASSUME NEW r \in Threads, RequestStep(r) PROVE SecondInv'
    <2>1. CASE TotpConfirm(r) BY <2>1, SetUpDone
    <2>2. CASE RevokeOtherSessions(r) BY <2>2, OthersRevoked
    <2>3. CASE LoginDone(r) \/ FinishDone(r)
      <3>1. /\ task' = [task EXCEPT ![r] = Idle] /\ UNCHANGED users
            /\ task[r].op \in {"login", "finish"} /\ task[r].op # "revoke"
        BY <2>3 DEF LoginDone, FinishDone, Done
      <3>2. ASSUME UNCHANGED sessions PROVE SecondInv'
        <4>1. Idle.op = "idle" /\ Idle \notin RouteTask BY DEF Idle, RouteTask, AllRoutes
        <4>2. \A q \in Threads : task'[q] = IF q = r THEN Idle ELSE task[q] BY <1>1, <3>1
        <4>3. \A u : HasTotp(u)' => HasTotp(u) BY <3>1 DEF HasTotp
        <4> QED BY <1>1, <3>1, <3>2, <4>1, <4>2, <4>3, SecondKept DEF SecondInv
      <3>3. CASE LoginDone(r) /\ ~task[r].totp
        <4>1. PICK uid : uid = task[r].uid OBVIOUS
        <4>2. NewSession(uid, FALSE) BY <3>3, <4>1 DEF LoginDone
        <4>3. vars' # vars BY <1>1, <4>2 DEF NewSession, Fresh, vars
        <4>4. ~HasTotp(uid) BY <3>3, <4>1, <4>3 DEF LateSignIn
        <4> QED BY <3>1, <4>2, <4>4, SessionAdded
      <3>4. CASE FinishDone(r) /\ ~UNCHANGED sessions
        <4>1. PICK uid : uid = task[r].login.uid OBVIOUS
        <4>2. NewSession(uid, TRUE) BY <3>4, <4>1 DEF FinishDone
        <4> QED BY <3>1, <4>2, SessionAdded
      <3> QED BY <2>3, <3>2, <3>3, <3>4 DEF LoginDone
    <2>4. CASE /\ ~TotpConfirm(r) /\ ~RevokeOtherSessions(r)
               /\ ~LoginDone(r) /\ ~FinishDone(r)
      <3>1. sessions' \subseteq sessions BY <1>2, <2>4, SessionsGo
      <3>2. \A u : HasTotp(u)' => HasTotp(u) BY <1>1, <1>2, <2>4, OnlyConfirm
      <3>3. task[r].op # "revoke" BY <1>2, <2>4, RevokeOnly
      <3>4. /\ \A q \in Threads \ {r} : task'[q] = task[q]
            /\ task'[r].op # "revoke" /\ (task'[r] \in RouteTask => task'[r].tok <= fresh)
        BY <1>2, <2>4, TaskMoves
      <3>5. \A q \in Threads : task'[q] \in RouteTask => task'[q].tok <= fresh
        BY <3>4 DEF SecondInv
      <3> QED BY <1>1, <3>1, <3>2, <3>3, <3>4, <3>5, SecondKept
    <2> QED BY <2>1, <2>2, <2>3, <2>4
  <1>3. CASE Lapse \/ UNCHANGED vars
    <2>1. sessions' \subseteq sessions /\ UNCHANGED task BY <1>3 DEF Lapse, vars
    <2>2. \A u : HasTotp(u)' => HasTotp(u) BY <1>1, <1>3, OnlyConfirm
    <2> QED BY <1>1, <2>1, <2>2, SecondKept DEF SecondInv
  <1>4. CASE (Restart \/ RestartReset) /\ ~CutOff
    <2>1. sessions' \subseteq sessions /\ task' = [r \in Threads |-> Idle]
      BY <1>4 DEF Restart, RestartReset, DropSessions, tables
    <2>2. \A u : HasTotp(u)' => HasTotp(u) BY <1>1, <1>4, OnlyConfirm
    <2>3. Idle.op = "idle" /\ Idle \notin RouteTask BY DEF Idle, RouteTask, AllRoutes
    <2>4. \A q \in Threads : task[q].op # "revoke" BY <1>4 DEF CutOff
    <2>5. \A q \in Threads : task'[q] = Idle BY <2>1
    <2> QED BY <1>1, <2>1, <2>2, <2>3, <2>4, <2>5, SecondKept
  <1> QED BY <1>2, <1>3, <1>4 DEF Next, ServeNext

\* "Turning 2FA on signs that account out everywhere else": the run
\* AccountsSecondFactor shows one way it does not, and there is one more. As long
\* as no sign-in that read the account without its second factor creates its
\* session after the factor was turned on, and the process is not ended before
\* revoke_other_sessions, every session of an account with a second factor passed
\* it or set it up, whatever else the requests do and however they cross.
THEOREM OnlyLateSignIns ==
  Spec /\ [][~LateSignIn /\ ~CutOff]_vars => []SecondFactorSessions
  <1>1. Init => SecondInv
    <2> SUFFICES ASSUME Init PROVE SecondInv OBVIOUS
    <2>1. \A r \in Threads : task[r] = Idle BY DEF Init
    <2>2. Idle.op = "idle" /\ Idle \notin RouteTask BY DEF Idle, RouteTask, AllRoutes
    <2>3. sessions = {} BY DEF Init
    <2> QED BY <2>1, <2>2, <2>3 DEF SecondInv, SecondFactorSessions
  <1>2. SecondInv /\ AccountsInv /\ AccountsInv' /\ [Next]_vars /\ [~LateSignIn /\ ~CutOff]_vars
          => SecondInv'
    BY SecondStep
  <1>3. SecondInv => SecondFactorSessions BY DEF SecondInv
  <1> QED BY <1>1, <1>2, <1>3, AccountsStart, AccountsStep, PTL DEF Spec

=============================================================================
