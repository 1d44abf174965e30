------------------------------ MODULE Sessions ------------------------------
(***************************************************************************)
(* The deadlines of the sessions table: an absolute one, and with          *)
(* SESSION_IDLE_MINUTES an idle one that /api/session/touch slides.  Each  *)
(* AuthManager method reads the clock before it takes the lock, so a       *)
(* request can act on a time that others have already left behind.         *)
(* A session that is being created is known to nobody, and a sweep that    *)
(* read the clock early deletes what an earlier one would have: these two  *)
(* read it in the same step.                                               *)
(***************************************************************************)
EXTENDS Requests

CONSTANTS
  IdleSec,     \* idle_sec (0: no idle timeout)
  MaxTtl,      \* max_ttl_sec
  MaxClock,    \* bound: the clock runs from 0 to MaxClock
  MaxSessions  \* bound: sessions ever created

ASSUME SessionsAssumption ==
  /\ IdleSec \in Nat /\ MaxTtl \in Nat \ {0}
  /\ MaxClock \in Nat /\ MaxSessions \in Nat

VARIABLES
  clock,     \* time.time()
  sess,      \* sessions: token -> [created, expires]
  issued,    \* tokens handed out
  sessTask,  \* what each request thread has read
  active,    \* history: token -> the latest time its user was seen active
  refused    \* history: tokens that were answered 401

sessVars == <<clock, sess, issued, sessTask, active, refused>>

Tokens == 1..MaxSessions

SessionsInit ==
  /\ clock = 0 /\ issued = 0 /\ refused = {}
  /\ sess = [t \in {} |-> 0] /\ active = [t \in Tokens |-> 0]
  /\ sessTask = [r \in Threads |-> Idle]

ClockTick ==
  /\ clock < MaxClock /\ clock' = clock + 1
  /\ UNCHANGED <<sess, issued, sessTask, active, refused>>

Smaller(a, b) == IF a < b THEN a ELSE b

\* The first deadline.
FirstTtl == IF IdleSec > 0 THEN Smaller(IdleSec, MaxTtl) ELSE MaxTtl

\* create_session
CreateSession ==
  /\ issued < MaxSessions /\ issued' = issued + 1
  /\ sess' = [t \in DOMAIN sess \cup {issued'} |->
               IF t = issued' THEN [created |-> clock, expires |-> clock + FirstTtl]
               ELSE sess[t]]
  /\ active' = [active EXCEPT ![issued'] = clock]
  /\ UNCHANGED <<clock, sessTask, refused>>

\* A request arrives with a cookie and get_session reads the clock.
Arrives(r, tok, op) ==
  /\ sessTask[r] = Idle
  /\ sessTask' = [sessTask EXCEPT ![r] =
                   [op |-> "get", tok |-> tok, now |-> clock, for |-> op]]
  /\ UNCHANGED <<clock, sess, issued, active, refused>>

Found(r) == sessTask[r].tok \in DOMAIN sess
Row(r) == sess[sessTask[r].tok]
Delete(T) == sess' = [t \in DOMAIN sess \ T |-> sess[t]]

\* Mutant: an expired row is left for prune.
GetSession_LeavesRow(r) ==
  /\ sessTask[r].op = "get"
  /\ IF Found(r) /\ Row(r).expires >= sessTask[r].now
       THEN /\ sessTask' = [sessTask EXCEPT ![r].op = sessTask[r].for]
            /\ UNCHANGED <<sess, refused>>
       ELSE /\ sessTask' = [sessTask EXCEPT ![r] = Idle]
            /\ refused' = refused \cup {sessTask[r].tok}
            /\ UNCHANGED sess
  /\ UNCHANGED <<clock, issued, active>>

\* get_session: no row, or one past its deadline (which goes), is a 401.
GetSession(r) ==
  /\ sessTask[r].op = "get"
  /\ IF Found(r) /\ Row(r).expires >= sessTask[r].now
       THEN /\ sessTask' = [sessTask EXCEPT ![r].op = sessTask[r].for]
            /\ UNCHANGED <<sess, refused>>
       ELSE /\ sessTask' = [sessTask EXCEPT ![r] = Idle]
            /\ refused' = refused \cup {sessTask[r].tok}
            /\ Delete({sessTask[r].tok})
  /\ UNCHANGED <<clock, issued, active>>

\* The request that was let in is served; a page poll leaves the deadline.
Serve(r) ==
  /\ sessTask[r].op = "poll"
  /\ sessTask' = [sessTask EXCEPT ![r] = Idle]
  /\ UNCHANGED <<clock, sess, issued, active, refused>>

\* touch_session reads the clock; without an idle timeout it does nothing.
TouchRead(r) ==
  /\ sessTask[r].op = "touch"
  /\ sessTask' = [sessTask EXCEPT ![r] =
       IF IdleSec = 0 THEN Idle ELSE [@ EXCEPT !.op = "slide", !.now = clock]]
  /\ UNCHANGED <<clock, sess, issued, active, refused>>

\* Mutant: the new deadline is written whatever the present one is.
Slides_Always(new, old) == TRUE

\* if new_expires > row[1]
Slides(new, old) == new > old

\* Under the lock: a live row slides, never past the absolute deadline.
TouchSession(r) ==
  /\ sessTask[r].op = "slide"
  /\ LET tok == sessTask[r].tok
         now == sessTask[r].now
         new == Smaller(now + IdleSec, sess[tok].created + MaxTtl)
     IN  IF Found(r) /\ Row(r).expires >= now
           THEN /\ sess' = IF Slides(new, Row(r).expires)
                             THEN [sess EXCEPT ![tok].expires = new] ELSE sess
                /\ active' = [active EXCEPT ![tok] = IF now > @ THEN now ELSE @]
           ELSE UNCHANGED <<sess, active>>
  /\ sessTask' = [sessTask EXCEPT ![r] = Idle]
  /\ UNCHANGED <<clock, issued, refused>>

\* delete_session, or one of the methods that sign an account out.
SignOut ==
  /\ \E t \in DOMAIN sess : Delete({t})
  /\ UNCHANGED <<clock, issued, sessTask, active, refused>>

\* prune
SweepSessions ==
  /\ Delete({t \in DOMAIN sess : sess[t].expires < clock})
  /\ UNCHANGED <<clock, issued, sessTask, active, refused>>

SessionsNext ==
  \/ ClockTick \/ CreateSession \/ SignOut \/ SweepSessions
  \/ \E r \in Threads :
       \/ \E tok \in 1..issued, op \in {"poll", "touch"} : Arrives(r, tok, op)
       \/ GetSession(r) \/ Serve(r) \/ TouchRead(r) \/ TouchSession(r)

SessionsSpec == SessionsInit /\ [][SessionsNext]_sessVars

----------------------------------------------------------------------------
(* Properties *)

\* A session ends when its user has been inactive for the idle timeout, and
\* at the absolute deadline at the latest, not earlier and not later: two
\* touches whose requests cross, or one that overtook a slower one, leave the
\* deadline the latest activity earned.
DeadlineExact ==
  \A t \in DOMAIN sess :
    sess[t].expires = IF IdleSec = 0 THEN sess[t].created + MaxTtl
                      ELSE Smaller(active[t] + IdleSec, sess[t].created + MaxTtl)

\* A session that was answered "authentication required" once never works
\* again: no touch that read the clock earlier brings it back.
RefusedForGood ==
  \A r \in Threads :
    sessTask[r].op = "get" => (sessTask[r].tok \in refused =>
      ~(Found(r) /\ Row(r).expires >= sessTask[r].now))
=============================================================================
