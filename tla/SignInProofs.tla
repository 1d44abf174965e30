---------------------------- MODULE SignInProofs ----------------------------
(***************************************************************************)
(* Signing in, for any number of request threads, names, addresses, codes, *)
(* secrets and tokens: the second factor of an account, the tiers of the   *)
(* sign-in lockout, and the limits of the reset links.  Codes are judged   *)
(* without the lock, on what was read under it before, so each invariant   *)
(* ties what a thread holds to what the tables hold by now.                *)
(***************************************************************************)
EXTENDS Totp, Lockout, Resets, TallyProofs

----------------------------------------------------------------------------
(* Types *)

Codes == {"totp", "recovery"} \X Nat \X Nat

\* A thread that checks a code holds the token, the secret and the step it read.
CheckOps == {"finish", "finished", "failed", "disable", "disabling", "renew", "renewing",
             "refused"}
CheckTask == [op : CheckOps, tok : 0..MaxTokens, secret : Nat, last : Int, at : Nat,
              before : Nat]
ConfirmTask == [op : {"confirm"}, secret : Nat, found : Nat]
SetupTask == [op : {"setup"}]
TotpTasks == {Idle} \cup SetupTask \cup ConfirmTask \cup CheckTask

\* What a thread holds has been generated.
TaskFits(t) ==
  /\ t \in ConfirmTask \cup CheckTask => t.secret \in 1..minted.secret
  /\ t.op \in {"finish", "finished", "failed"} => t.tok \in 1..minted.token

TotpTypeOK ==
  /\ step \in Nat /\ lastStep \in Int
  /\ minted \in [secret : Nat, set : Nat, token : 0..MaxTokens]
  /\ secret \in 0..minted.secret /\ offered \in 0..minted.secret
  /\ DOMAIN tries \subseteq 1..minted.token /\ tries \in [DOMAIN tries -> Nat]
  /\ judged \in [1..MaxTokens -> Nat]
  /\ accepted \subseteq Codes /\ recovery \subseteq Codes
  /\ crossed \subseteq Codes /\ missed \in [Threads -> SUBSET Codes]
  /\ totpTask \in [Threads -> TotpTasks]
  /\ \A r \in Threads : TaskFits(totpTask[r])

\* What is generated stays so.
Grows ==
  minted.secret <= minted'.secret /\ minted.set <= minted'.set /\ minted.token <= minted'.token

LEMMA MintGrows ==
  ASSUME TotpTypeOK, NEW kind \in {"secret", "set", "token"}, NEW max \in Nat, Mint(kind, max),
         kind = "token" => max = MaxTokens
  PROVE  /\ minted' \in [secret : Nat, set : Nat, token : 0..MaxTokens] /\ Grows
         /\ minted'[kind] = minted[kind] + 1
         /\ kind # "secret" => minted'.secret = minted.secret
         /\ kind # "set" => minted'.set = minted.set
         /\ kind # "token" => minted'.token = minted.token
  <1>1. /\ minted \in [secret : Nat, set : Nat, token : 0..MaxTokens] /\ MaxTokens \in Nat
        /\ minted[kind] < max /\ minted' = [minted EXCEPT ![kind] = @ + 1]
    BY TotpAssumption DEF Mint, TotpTypeOK
  <1>2. CASE kind = "secret"
    <2>1. minted' = [minted EXCEPT !.secret = @ + 1] BY <1>1, <1>2
    <2> QED BY <1>1, <1>2, <2>1 DEF Grows
  <1>3. CASE kind = "set"
    <2>1. minted' = [minted EXCEPT !.set = @ + 1] BY <1>1, <1>3
    <2> QED BY <1>1, <1>3, <2>1 DEF Grows
  <1>4. CASE kind = "token"
    <2>1. minted' = [minted EXCEPT !.token = @ + 1] /\ minted.token < MaxTokens
      BY <1>1, <1>4
    <2> QED BY <1>1, <1>4, <2>1 DEF Grows
  <1> QED BY <1>2, <1>3, <1>4

\* A thread's new task fits, and so do the others'.
LEMMA TaskMoves ==
  ASSUME TotpTypeOK, minted' \in [secret : Nat, set : Nat, token : 0..MaxTokens], Grows,
         NEW r \in Threads, NEW t \in TotpTasks, TaskFits(t),
         totpTask' = [totpTask EXCEPT ![r] = t]
  PROVE  /\ totpTask' \in [Threads -> TotpTasks]
         /\ \A q \in Threads : TaskFits(totpTask[q])'
  <1>1. totpTask' \in [Threads -> TotpTasks] BY DEF TotpTypeOK
  <1>2. ASSUME NEW u, TaskFits(u) PROVE TaskFits(u)'
    BY <1>2 DEF TaskFits, Grows, TotpTypeOK
  <1>3. \A q \in Threads : TaskFits(totpTask'[q])
    BY DEF TotpTypeOK
  <1> QED BY <1>1, <1>2, <1>3

LEMMA IdleFits == Idle \in TotpTasks /\ TaskFits(Idle)
  BY DEF Idle, TotpTasks, TaskFits, ConfirmTask, CheckTask, CheckOps

\* Going on changes what a thread does, never what it holds.
LEMMA GoOnKeeps ==
  ASSUME NEW t \in CheckTask, NEW op \in CheckOps
  PROVE  /\ [t EXCEPT !.op = op] \in CheckTask
         /\ [t EXCEPT !.op = op].op = op /\ [t EXCEPT !.op = op].tok = t.tok
         /\ [t EXCEPT !.op = op].secret = t.secret /\ [t EXCEPT !.op = op].last = t.last
         /\ [t EXCEPT !.op = op].at = t.at /\ [t EXCEPT !.op = op].before = t.before
  BY DEF CheckTask

\* A thread that confirms a set-up holds a ConfirmTask.
LEMMA Settling ==
  ASSUME TotpTypeOK, NEW r \in Threads, totpTask[r].op = "confirm"
  PROVE  totpTask[r] \in ConfirmTask
  <1>1. totpTask[r] \in TotpTasks BY DEF TotpTypeOK
  <1>2. totpTask[r] \notin CheckTask BY DEF CheckTask, CheckOps
  <1>3. totpTask[r] # Idle /\ totpTask[r] \notin SetupTask BY DEF SetupTask, Idle
  <1> QED BY <1>1, <1>2, <1>3, Zenon DEF TotpTasks

\* A thread with something to check holds a CheckTask.
LEMMA Checking ==
  ASSUME TotpTypeOK, NEW r \in Threads, totpTask[r].op \in CheckOps
  PROVE  /\ totpTask[r] \in CheckTask /\ totpTask[r].secret \in 1..minted.secret
         /\ totpTask[r].op \in {"finish", "finished", "failed"}
              => totpTask[r].tok \in 1..minted.token
  BY DEF TotpTypeOK, TotpTasks, TaskFits, CheckOps, Idle, SetupTask, ConfirmTask

\* A judged code: the thread goes on, its attempt is on record.
LEMMA JudgeStep ==
  ASSUME TotpTypeOK, NEW r \in Threads, NEW ok \in BOOLEAN, Judge(r, ok), UNCHANGED minted
  PROVE  /\ totpTask[r] \in CheckTask /\ totpTask[r].op \in {"finish", "disable", "renew"}
         /\ \E t \in CheckTask :
              /\ totpTask' = [totpTask EXCEPT ![r] = t] /\ TaskFits(t)
              /\ t.op \in CheckOps \ {"finish", "disable", "renew"}
              /\ t.secret = totpTask[r].secret
         /\ judged' \in [1..MaxTokens -> Nat]
         /\ totpTask' \in [Threads -> TotpTasks]
         /\ \A q \in Threads : TaskFits(totpTask[q])'
  <1>1. totpTask[r].op \in {"finish", "disable", "renew"} BY DEF Judge
  <1>2. totpTask[r] \in CheckTask /\ totpTask[r].secret \in 1..minted.secret
    BY <1>1, Checking DEF CheckOps
  <1>3. PICK op \in {"finished", "failed", "disabling", "refused", "renewing"} :
          /\ totpTask' = [totpTask EXCEPT ![r].op = op]
          /\ op \in {"finished", "failed"} => totpTask[r].op = "finish"
    BY <1>1 DEF Judge, GoOn
  <1> DEFINE t == [totpTask[r] EXCEPT !.op = op]
  <1>4. /\ t \in CheckTask /\ t.op = op /\ t.tok = totpTask[r].tok
        /\ t.secret = totpTask[r].secret
    <2>1. op \in CheckOps BY <1>3 DEF CheckOps
    <2> QED BY <1>2, <2>1, GoOnKeeps
  <1>5. totpTask' = [totpTask EXCEPT ![r] = t] BY <1>3
  <1>6. op \in {"finished", "failed"} => totpTask[r].tok \in 1..minted.token
    BY <1>1, <1>3, Checking DEF CheckOps
  <1> HIDE DEF t
  <1>7. TaskFits(t) BY <1>2, <1>3, <1>4, <1>6 DEF TaskFits
  <1>8. t \in TotpTasks BY <1>4 DEF TotpTasks
  <1>9. Grows /\ minted' \in [secret : Nat, set : Nat, token : 0..MaxTokens]
    BY DEF Grows, TotpTypeOK
  <1>10. /\ totpTask' \in [Threads -> TotpTasks] /\ \A q \in Threads : TaskFits(totpTask[q])'
    BY <1>5, <1>7, <1>8, <1>9, TaskMoves
  <1>11. judged' \in [1..MaxTokens -> Nat]
    <2>1. totpTask[r].op = "finish" => totpTask[r].tok \in 1..MaxTokens
      BY <1>1, Checking, TotpAssumption DEF CheckOps, TotpTypeOK
    <2> QED BY <2>1 DEF Judge, TotpTypeOK
  <1>12. t.op \in CheckOps \ {"finish", "disable", "renew"} BY <1>3, <1>4 DEF CheckOps
  <1> QED BY <1>1, <1>2, <1>4, <1>5, <1>7, <1>10, <1>11, <1>12

\* Dropping a token loses no other.
LEMMA Dropped ==
  ASSUME TotpTypeOK, NEW tok, DropToken(tok)
  PROVE  /\ DOMAIN tries' = DOMAIN tries \ {tok} /\ tries' \in [DOMAIN tries' -> Nat]
         /\ \A t \in DOMAIN tries' : tries'[t] = tries[t]
  BY DEF DropToken, TotpTypeOK

\* A reading of what was generated.
LEMMA ReadingFits ==
  ASSUME TotpTypeOK, secret # 0, NEW op \in {"finish", "disable", "renew"},
         NEW tok \in 0..minted.token, op = "finish" => tok # 0
  PROVE  /\ Reading(op, tok) \in CheckTask /\ TaskFits(Reading(op, tok))
         /\ Reading(op, tok).op = op /\ Reading(op, tok).tok = tok
         /\ Reading(op, tok).secret = secret /\ Reading(op, tok).last = lastStep
         /\ Reading(op, tok).at = step
  <1>1. secret \in 1..minted.secret /\ tok \in 0..MaxTokens /\ secret \in Nat
        /\ lastStep \in Int /\ step \in Nat
    BY TotpAssumption DEF TotpTypeOK
  <1>2. (IF tok \in DOMAIN tries THEN tries[tok] ELSE 0) \in Nat
    BY DEF TotpTypeOK
  <1>3. op \in CheckOps /\ (op # "finish" => op \in {"disable", "renew"}) BY DEF CheckOps
  <1>4. op = "finish" => tok \in 1..minted.token BY TotpAssumption DEF TotpTypeOK
  <1>5. /\ Reading(op, tok) \in CheckTask
        /\ Reading(op, tok).op = op /\ Reading(op, tok).tok = tok
        /\ Reading(op, tok).secret = secret /\ Reading(op, tok).last = lastStep
        /\ Reading(op, tok).at = step
    BY <1>1, <1>2, <1>3 DEF Reading, CheckTask
  <1>6. TaskFits(Reading(op, tok))
    BY <1>1, <1>3, <1>4, <1>5 DEF TaskFits
  <1> QED BY <1>5, <1>6

LEMMA CandidateSteps ==
  ASSUME NEW at \in Nat, NEW last \in Int, NEW s \in Candidates(at, last)
  PROVE  s \in Nat /\ s > last
  BY DEF Candidates

\* Leaving and entering.
LEMMA Leaves ==
  ASSUME TotpTypeOK, minted' \in [secret : Nat, set : Nat, token : 0..MaxTokens], Grows,
         NEW r \in Threads, Leave(r)
  PROVE  totpTask' \in [Threads -> TotpTasks] /\ \A q \in Threads : TaskFits(totpTask[q])'
  BY TaskMoves, IdleFits DEF Leave

\* A TOTP code is accepted; a request begins with nothing missed.
LEMMA AcceptTypes ==
  ASSUME TotpTypeOK, NEW r \in Threads, NEW sec \in Nat, NEW s \in Nat, AcceptStep(r, sec, s)
  PROVE  /\ accepted' \subseteq Codes /\ crossed' \subseteq Codes
         /\ missed' \in [Threads -> SUBSET Codes]
  <1>1. <<"totp", sec, s>> \in Codes BY DEF Codes
  <1> QED BY <1>1 DEF AcceptStep, Accept, TotpTypeOK

LEMMA EnterTypes ==
  ASSUME TotpTypeOK, NEW r \in Threads, NEW t, Enter(r, t)
  PROVE  crossed' \subseteq Codes /\ missed' \in [Threads -> SUBSET Codes]
  BY DEF Enter, TotpTypeOK

LEMMA TotpTypeInit == ASSUME TotpInit PROVE TotpTypeOK
  <1>1. totpTask \in [Threads -> TotpTasks] /\ \A r \in Threads : TaskFits(totpTask[r])
    BY IdleFits DEF TotpInit
  <1>2. minted \in [secret : Nat, set : Nat, token : 0..MaxTokens]
        /\ minted.secret = 0 /\ minted.token = 0
    BY TotpAssumption DEF TotpInit
  <1>3. DOMAIN tries = {} /\ tries \in [DOMAIN tries -> Nat] BY DEF TotpInit
  <1>4. judged \in [1..MaxTokens -> Nat] BY DEF TotpInit
  <1>5. step = 0 /\ lastStep \in Int /\ secret = 0 /\ offered = 0
        /\ accepted = {} /\ recovery = {}
    BY DEF TotpInit, Null
  <1>6. crossed \subseteq Codes /\ missed \in [Threads -> SUBSET Codes] BY DEF TotpInit
  <1> QED BY <1>1, <1>2, <1>3, <1>4, <1>5, <1>6 DEF TotpTypeOK

LEMMA TotpTypeStep == ASSUME TotpTypeOK, [TotpNext]_totpVars PROVE TotpTypeOK'
  <1> DEFINE Types == [secret : Nat, set : Nat, token : 0..MaxTokens]
  <1>0. minted \in Types BY DEF TotpTypeOK
  <1>1. CASE UNCHANGED totpVars BY <1>1 DEF totpVars, TotpTypeOK, TaskFits
  <1>2. CASE NextStep BY <1>2 DEF NextStep, TotpTypeOK, TaskFits
  <1>3. CASE TokenLapse BY <1>3, Dropped DEF TokenLapse, TotpTypeOK, TaskFits
  <1>4. CASE SetupLapse BY <1>4 DEF SetupLapse, TotpTypeOK, TaskFits
  <1>5. ASSUME TurnOff, totpTask' \in [Threads -> TotpTasks],
               \A q \in Threads : TaskFits(totpTask[q])'
        PROVE  TotpTypeOK'
    <2>1. DOMAIN tries' = {} /\ tries' \in [DOMAIN tries' -> Nat] BY <1>5 DEF TurnOff
    <2> QED BY <1>5, <2>1 DEF TurnOff, TotpTypeOK, Null
  <1>6. CASE AdminDisable
    <2>1. TurnOff /\ totpTask' = totpTask /\ minted' = minted BY <1>6 DEF AdminDisable, TurnOff
    <2>2. \A q \in Threads : TaskFits(totpTask[q])' BY <2>1 DEF TotpTypeOK, TaskFits
    <2> QED BY <2>1, <2>2, <1>5 DEF TotpTypeOK
  <1>7. ASSUME NEW r \in Threads,
               \/ SetupRead(r) \/ Setup(r) \/ ConfirmRead(r) \/ Confirm(r)
               \/ LoginBegin(r) \/ CodeRead(r) \/ VerifyRead(r)
               \/ ConsumeCode(r) \/ ConsumeRecovery(r) \/ ConsumeNothing(r)
               \/ CodeRecord(r) \/ Refuse(r) \/ Disable(r) \/ Renew(r)
        PROVE  TotpTypeOK'
    <2> DEFINE Tasks == /\ totpTask' \in [Threads -> TotpTasks]
                        /\ \A q \in Threads : TaskFits(totpTask[q])'
    <2>1. ASSUME UNCHANGED minted PROVE minted' \in Types /\ Grows
      BY <2>1 DEF Grows, TotpTypeOK
    <2>2. CASE SetupRead(r)
      <3> DEFINE t == [op |-> "setup"]
      <3>1. t \in TotpTasks /\ TaskFits(t)
        BY DEF TotpTasks, SetupTask, TaskFits, ConfirmTask, CheckTask, CheckOps
      <3> HIDE DEF t
      <3>2. totpTask' = [totpTask EXCEPT ![r] = t] /\ UNCHANGED minted
            /\ crossed' \subseteq Codes /\ missed' \in [Threads -> SUBSET Codes]
        BY <2>2, EnterTypes DEF SetupRead, Enter, t
      <3>3. Tasks BY <2>1, <3>1, <3>2, TaskMoves
      <3> QED BY <2>2, <3>2, <3>3 DEF SetupRead, TotpTypeOK
    <2>3. CASE Setup(r)
      <3>1. minted' \in Types /\ Grows /\ minted'.secret = minted.secret + 1
            /\ minted'.token = minted.token
        BY <2>3, MintGrows, TotpAssumption DEF Setup
      <3>2. Tasks BY <2>3, <3>1, Leaves DEF Setup
      <3> QED BY <2>3, <3>1, <3>2 DEF Setup, TotpTypeOK
    <2>4. CASE ConfirmRead(r)
      <3>1. PICK s \in Candidates(step, Null) :
              Enter(r, [op |-> "confirm", secret |-> offered, found |-> s])
        BY <2>4 DEF ConfirmRead
      <3> DEFINE t == [op |-> "confirm", secret |-> offered, found |-> s]
      <3>2. s \in Nat BY CandidateSteps DEF TotpTypeOK, Null
      <3>3. offered \in 1..minted.secret /\ offered \in Nat
        <4>1. offered # 0 /\ offered \in 0..minted.secret /\ minted.secret \in Nat
          BY <2>4 DEF ConfirmRead, TotpTypeOK
        <4> QED BY <4>1
      <3>4. t \in ConfirmTask /\ t.op = "confirm" /\ t.secret = offered
        BY <3>2, <3>3 DEF ConfirmTask
      <3>5. totpTask' = [totpTask EXCEPT ![r] = t] /\ UNCHANGED minted
            /\ crossed' \subseteq Codes /\ missed' \in [Threads -> SUBSET Codes]
        BY <2>4, <3>1, EnterTypes DEF ConfirmRead, Enter
      <3> HIDE DEF t
      <3>6. t \in TotpTasks /\ TaskFits(t) BY <3>3, <3>4 DEF TotpTasks, TaskFits
      <3>7. Tasks BY <2>1, <3>5, <3>6, TaskMoves
      <3> QED BY <2>4, <3>5, <3>7 DEF ConfirmRead, TotpTypeOK
    <2>5. CASE Confirm(r)
      <3>1. minted' \in Types /\ Grows /\ minted'.set = minted.set + 1
            /\ minted'.secret = minted.secret /\ minted'.token = minted.token
        BY <2>5, MintGrows, TotpAssumption DEF Confirm
      <3>2. Tasks BY <2>5, <3>1, Leaves DEF Confirm
      <3>3. totpTask[r] \in ConfirmTask BY <2>5, Settling DEF Confirm
      <3>4. totpTask[r].secret \in 1..minted.secret /\ totpTask[r].found \in Nat
        <4>1. TaskFits(totpTask[r]) BY DEF TotpTypeOK
        <4> QED BY <3>3, <4>1 DEF TaskFits, ConfirmTask
      <3>5. recovery' \subseteq Codes
        BY <2>5 DEF Confirm, NewCodes, Codes, TotpTypeOK
      <3>6. accepted' \subseteq Codes /\ crossed' \subseteq Codes /\ missed' \in [Threads -> SUBSET Codes]
        BY <2>5, <3>4, AcceptTypes DEF Confirm
      <3> QED BY <2>5, <3>1, <3>2, <3>4, <3>5, <3>6 DEF Confirm, TotpTypeOK
    <2>6. CASE LoginBegin(r)
      <3>1. minted' \in Types /\ Grows /\ minted'.token = minted.token + 1
            /\ minted'.secret = minted.secret /\ minted'.set = minted.set
        BY <2>6, MintGrows, TotpAssumption DEF LoginBegin
      <3>2. /\ DOMAIN tries' = DOMAIN tries \cup {minted.token + 1}
            /\ tries' \in [DOMAIN tries' -> Nat]
        BY <2>6 DEF LoginBegin, TotpTypeOK
      <3>3. Tasks
        BY <2>6, <3>1 DEF LoginBegin, TotpTypeOK, TaskFits, Grows
      <3>4. DOMAIN tries' \subseteq 1..minted'.token BY <3>1, <3>2 DEF TotpTypeOK
      <3> QED BY <2>6, <3>1, <3>2, <3>3, <3>4 DEF LoginBegin, TotpTypeOK
    <2>7. CASE CodeRead(r)
      <3>1. PICK tok \in DOMAIN tries :
              IF tries[tok] < MaxTries /\ secret # 0
                THEN /\ Enter(r, Reading("finish", tok))
                     /\ tries' = [tries EXCEPT ![tok] = @ + 1]
                ELSE /\ totpTask[r] = Idle
                     /\ DropToken(tok) /\ UNCHANGED <<totpTask, missed, crossed>>
        BY <2>7 DEF CodeRead
      <3>2. UNCHANGED <<step, secret, lastStep, offered, recovery, minted, accepted, twice, judged>>
        BY <2>7 DEF CodeRead
      <3>3. CASE tries[tok] < MaxTries /\ secret # 0
        <4>1. tok \in 0..minted.token /\ tok # 0 BY DEF TotpTypeOK
        <4>2. Reading("finish", tok) \in TotpTasks /\ TaskFits(Reading("finish", tok))
          BY <3>3, <4>1, ReadingFits DEF TotpTasks
        <4>3. Tasks /\ crossed' \subseteq Codes /\ missed' \in [Threads -> SUBSET Codes]
          BY <2>1, <3>1, <3>2, <3>3, <4>2, TaskMoves, EnterTypes DEF Enter
        <4>4. DOMAIN tries' = DOMAIN tries /\ tries' \in [DOMAIN tries' -> Nat]
          BY <3>1, <3>3 DEF TotpTypeOK
        <4> QED BY <3>2, <4>3, <4>4 DEF TotpTypeOK
      <3>4. CASE ~(tries[tok] < MaxTries /\ secret # 0)
        <4>1. DOMAIN tries' \subseteq DOMAIN tries /\ tries' \in [DOMAIN tries' -> Nat]
              /\ UNCHANGED <<totpTask, missed, crossed>>
          BY <3>1, <3>4, Dropped
        <4>2. Tasks BY <3>2, <4>1 DEF TotpTypeOK, TaskFits
        <4> QED BY <3>2, <4>1, <4>2 DEF TotpTypeOK
      <3> QED BY <3>3, <3>4
    <2>8. CASE VerifyRead(r)
      <3>1. PICK op \in {"disable", "renew"} : Enter(r, Reading(op, 0))
        BY <2>8 DEF VerifyRead
      <3>2. 0 \in 0..minted.token BY DEF TotpTypeOK
      <3>3. Reading(op, 0) \in TotpTasks /\ TaskFits(Reading(op, 0))
        BY <2>8, <3>2, ReadingFits DEF VerifyRead, TotpTasks
      <3>4. Tasks /\ crossed' \subseteq Codes /\ missed' \in [Threads -> SUBSET Codes]
        BY <2>1, <2>8, <3>1, <3>3, TaskMoves, EnterTypes DEF Enter, VerifyRead
      <3> QED BY <2>8, <3>4 DEF VerifyRead, TotpTypeOK
    <2>9. CASE ConsumeCode(r)
      <3>1. Tasks /\ judged' \in [1..MaxTokens -> Nat] /\ totpTask[r] \in CheckTask
        BY <2>9, JudgeStep DEF ConsumeCode
      <3>2. PICK s \in Candidates(totpTask[r].at, totpTask[r].last) :
              lastStep' = s /\ AcceptStep(r, totpTask[r].secret, s)
        BY <2>9 DEF ConsumeCode
      <3>3. totpTask[r].at \in Nat /\ totpTask[r].last \in Int /\ totpTask[r].secret \in Nat
        BY <3>1 DEF CheckTask
      <3>4. s \in Nat BY <3>3, CandidateSteps
      <3>5. accepted' \subseteq Codes /\ crossed' \subseteq Codes /\ missed' \in [Threads -> SUBSET Codes]
        BY <3>2, <3>3, <3>4, AcceptTypes
      <3> QED BY <2>9, <3>1, <3>2, <3>4, <3>5 DEF ConsumeCode, TotpTypeOK
    <2>10. CASE ConsumeRecovery(r)
      <3>1. Tasks /\ judged' \in [1..MaxTokens -> Nat]
        BY <2>10, JudgeStep DEF ConsumeRecovery
      <3>2. accepted' \subseteq Codes /\ recovery' \subseteq Codes
        BY <2>10 DEF ConsumeRecovery, Accept, TotpTypeOK
      <3> QED BY <2>10, <3>1, <3>2 DEF ConsumeRecovery, TotpTypeOK
    <2>11. CASE ConsumeNothing(r)
      <3>1. Tasks /\ judged' \in [1..MaxTokens -> Nat]
        BY <2>11, JudgeStep DEF ConsumeNothing
      <3> QED BY <2>11, <3>1 DEF ConsumeNothing, TotpTypeOK
    <2>12. CASE CodeRecord(r)
      <3>1. Tasks BY <2>1, <2>12, Leaves DEF CodeRecord
      <3>2. DOMAIN tries' \subseteq DOMAIN tries /\ tries' \in [DOMAIN tries' -> Nat]
        BY <2>12, Dropped DEF CodeRecord, TotpTypeOK
      <3> QED BY <2>12, <3>1, <3>2 DEF CodeRecord, TotpTypeOK
    <2>13. CASE Refuse(r)
      <3>1. Tasks BY <2>1, <2>13, Leaves DEF Refuse
      <3> QED BY <2>13, <3>1 DEF Refuse, TotpTypeOK
    <2>14. CASE Disable(r)
      <3>1. Tasks BY <2>1, <2>14, Leaves DEF Disable, TurnOff
      <3> QED BY <2>14, <3>1, <1>5 DEF Disable
    <2>15. CASE Renew(r)
      <3>1. /\ minted' \in Types /\ Grows /\ minted'.secret = minted.secret
            /\ minted'.token = minted.token
        BY <2>1, <2>15, MintGrows, TotpAssumption DEF Renew
      <3>2. Tasks BY <2>15, <3>1, Leaves DEF Renew
      <3>3. recovery' \subseteq Codes
        BY <2>15 DEF Renew, NewCodes, Codes, TotpTypeOK
      <3> QED BY <2>15, <3>1, <3>2, <3>3 DEF Renew, TotpTypeOK
    <2> QED BY <1>7, <2>2, <2>3, <2>4, <2>5, <2>6, <2>7, <2>8, <2>9, <2>10, <2>11, <2>12,
               <2>13, <2>14, <2>15
  <1> QED BY <1>1, <1>2, <1>3, <1>4, <1>6, <1>7 DEF TotpNext

----------------------------------------------------------------------------
(* Recovery codes *)

\* The unused codes are of the newest set, none of them was accepted, and no
\* code of a set still to come was.
RecoveryInv ==
  /\ accepted \cap recovery = {}
  /\ \A c \in recovery : c[1] = "recovery" /\ c[2] = minted.set
  /\ \A c \in accepted : c[1] = "recovery" => c[2] <= minted.set
  /\ secret = 0 => recovery = {}
  /\ RecoveryOnce

\* A new set has none of the codes accepted before.
LEMMA NewSet ==
  ASSUME TotpTypeOK, RecoveryInv, Mint("set", MaxSets), recovery' = NewCodes
  PROVE  /\ accepted \cap recovery' = {}
         /\ \A c \in recovery' : c[1] = "recovery" /\ c[2] = minted'.set
         /\ \A c \in accepted : c[1] = "recovery" => c[2] <= minted'.set
  <1>1. minted'.set = minted.set + 1 /\ minted.set \in Nat
    BY MintGrows, TotpAssumption DEF TotpTypeOK
  <1>2. \A c \in accepted : c[2] \in Nat BY DEF TotpTypeOK, Codes
  <1>3. \A c \in recovery' : c[1] = "recovery" /\ c[2] = minted.set + 1 BY DEF NewCodes
  <1> QED BY <1>1, <1>2, <1>3 DEF RecoveryInv

LEMMA RecoveryStep ==
  ASSUME TotpTypeOK, RecoveryInv, [TotpNext]_totpVars
  PROVE  RecoveryInv'
  <1>1. ASSUME UNCHANGED <<accepted, twice, recovery, minted>>, secret' = 0 => secret = 0
        PROVE  RecoveryInv'
    BY <1>1 DEF RecoveryInv, RecoveryOnce
  <1>2. ASSUME UNCHANGED <<accepted, twice, recovery, secret>>, minted'.set = minted.set
        PROVE  RecoveryInv'
    BY <1>2 DEF RecoveryInv, RecoveryOnce
  <1>3. ASSUME TurnOff PROVE RecoveryInv'
    BY <1>3 DEF TurnOff, RecoveryInv, RecoveryOnce
  <1>4. CASE \/ UNCHANGED totpVars \/ NextStep \/ TokenLapse \/ SetupLapse
             \/ \E r \in Threads : \/ SetupRead(r) \/ ConfirmRead(r) \/ CodeRead(r)
                                   \/ VerifyRead(r) \/ ConsumeNothing(r)
                                   \/ CodeRecord(r) \/ Refuse(r)
    BY <1>1, <1>4 DEF totpVars, NextStep, TokenLapse, SetupLapse, SetupRead, ConfirmRead,
                      CodeRead, VerifyRead, ConsumeNothing, CodeRecord, Refuse
  <1>5. CASE AdminDisable \/ \E r \in Threads : Disable(r)
    BY <1>3, <1>5 DEF AdminDisable, Disable
  <1>6. ASSUME NEW r \in Threads,
               \/ Setup(r) \/ Confirm(r) \/ LoginBegin(r)
               \/ ConsumeCode(r) \/ ConsumeRecovery(r) \/ Renew(r)
        PROVE  RecoveryInv'
    <2>1. CASE Setup(r)
      <3>1. minted'.set = minted.set BY <2>1, MintGrows, TotpAssumption DEF Setup
      <3> QED BY <1>2, <2>1, <3>1 DEF Setup
    <2>2. CASE LoginBegin(r)
      <3>1. minted'.set = minted.set BY <2>2, MintGrows, TotpAssumption DEF LoginBegin
      <3> QED BY <1>2, <2>2, <3>1 DEF LoginBegin
    <2>3. CASE Confirm(r)
      <3> DEFINE c == <<"totp", totpTask[r].secret, totpTask[r].found>>
      <3>1. c[1] = "totp" /\ accepted' = accepted \cup {c}
            /\ twice' \subseteq twice \cup {c}
        BY <2>3 DEF Confirm, AcceptStep, Accept
      <3>2. secret' # 0
        BY <2>3 DEF Confirm, TotpTypeOK, TaskFits, TotpTasks, SetupTask, CheckTask, CheckOps,
                    Idle
      <3>3. /\ accepted \cap recovery' = {}
            /\ \A d \in recovery' : d[1] = "recovery" /\ d[2] = minted'.set
            /\ \A d \in accepted : d[1] = "recovery" => d[2] <= minted'.set
        BY <2>3, NewSet DEF Confirm
      <3> HIDE DEF c
      <3> QED BY <3>1, <3>2, <3>3 DEF RecoveryInv, RecoveryOnce
    <2>4. CASE ConsumeCode(r)
      <3>1. PICK s \in Candidates(totpTask[r].at, totpTask[r].last) :
              AcceptStep(r, totpTask[r].secret, s)
        BY <2>4 DEF ConsumeCode
      <3> DEFINE c == <<"totp", totpTask[r].secret, s>>
      <3>2. c[1] = "totp" /\ accepted' = accepted \cup {c}
            /\ twice' \subseteq twice \cup {c}
        BY <3>1 DEF AcceptStep, Accept
      <3>3. UNCHANGED <<recovery, minted, secret>> BY <2>4 DEF ConsumeCode
      <3> HIDE DEF c
      <3> QED BY <3>2, <3>3 DEF RecoveryInv, RecoveryOnce
    <2>5. CASE ConsumeRecovery(r)
      <3>1. PICK c \in recovery : Accept(c) /\ recovery' = recovery \ {c}
        BY <2>5 DEF ConsumeRecovery
      <3>2. c \notin accepted /\ c[2] = minted.set BY DEF RecoveryInv
      <3>3. accepted' = accepted \cup {c} /\ twice' = twice BY <3>1, <3>2 DEF Accept
      <3>4. UNCHANGED <<minted, secret>> /\ minted.set \in Nat
        BY <2>5 DEF ConsumeRecovery, TotpTypeOK
      <3> QED BY <3>1, <3>2, <3>3, <3>4 DEF RecoveryInv, RecoveryOnce
    <2>6. CASE Renew(r)
      <3>1. CASE secret # 0
        <4>1. /\ accepted \cap recovery' = {}
              /\ \A d \in recovery' : d[1] = "recovery" /\ d[2] = minted'.set
              /\ \A d \in accepted : d[1] = "recovery" => d[2] <= minted'.set
          BY <2>6, <3>1, NewSet DEF Renew
        <4> QED BY <2>6, <3>1, <4>1 DEF Renew, RecoveryInv, RecoveryOnce
      <3>2. CASE secret = 0 BY <1>1, <2>6, <3>2 DEF Renew
      <3> QED BY <3>1, <3>2
    <2> QED BY <1>6, <2>1, <2>2, <2>3, <2>4, <2>5, <2>6
  <1> QED BY <1>4, <1>5, <1>6 DEF TotpNext

\* "eight single-use recovery codes": no recovery code is ever accepted twice,
\* whatever requests carry it at once and however often the codes are renewed
\* or the second factor is set up anew.
THEOREM RecoveryCodesOnce == TotpSpec => []RecoveryOnce
  <1>1. TotpInit => TotpTypeOK /\ RecoveryInv
    BY TotpTypeInit DEF TotpInit, RecoveryInv, RecoveryOnce
  <1>2. TotpTypeOK /\ RecoveryInv /\ [TotpNext]_totpVars => (TotpTypeOK /\ RecoveryInv)'
    BY TotpTypeStep, RecoveryStep
  <1>3. RecoveryInv => RecoveryOnce BY DEF RecoveryInv
  <1> QED BY <1>1, <1>2, <1>3, PTL DEF TotpSpec

\* "the old ones stop working": the unused codes are the newest set's, and an
\* account whose second factor is off has none, though a renewal may cross a
\* set-up or a reset.
THEOREM RecoveryCodesFit == TotpSpec => []RecoveryFits
  <1>1. TotpInit => TotpTypeOK /\ RecoveryInv
    BY TotpTypeInit DEF TotpInit, RecoveryInv, RecoveryOnce
  <1>2. TotpTypeOK /\ RecoveryInv /\ [TotpNext]_totpVars => (TotpTypeOK /\ RecoveryInv)'
    BY TotpTypeStep, RecoveryStep
  <1>3. RecoveryInv => RecoveryFits BY DEF RecoveryInv, RecoveryFits
  <1> QED BY <1>1, <1>2, <1>3, PTL DEF TotpSpec

----------------------------------------------------------------------------
(* Attempts *)

\* The threads that are judging a code of a token; each was counted before.
Finishing(tok) == {r \in Threads : totpTask[r].op = "finish" /\ totpTask[r].tok = tok}

\* How many attempts of a token are on its row; a row that is gone had all.
TriesOf(tok) == IF tok \in DOMAIN tries THEN tries[tok] ELSE MaxTries

TriesInv ==
  /\ \A tok \in DOMAIN tries : tries[tok] <= MaxTries
  /\ \A tok \in 1..MaxTokens :
       /\ tok > minted.token => judged[tok] = 0
       /\ judged[tok] + Cardinality(Finishing(tok)) <= TriesOf(tok)

LEMMA FinishingFinite ==
  ASSUME NEW tok
  PROVE  IsFiniteSet(Finishing(tok)) /\ Cardinality(Finishing(tok)) \in Nat
  <1>1. Finishing(tok) \in SUBSET Threads BY DEF Finishing
  <1> HIDE DEF Finishing
  <1> QED BY <1>1, RequestsAssumption, FS_Subset, FS_CardinalityType

\* No more attempts, no more codes judged, no thread more at work: what holds
\* of a token goes on to hold.
LEMMA TriesKept ==
  ASSUME TotpTypeOK, TotpTypeOK', TriesInv, UNCHANGED judged, minted'.token = minted.token,
         DOMAIN tries' \subseteq DOMAIN tries, \A tok \in DOMAIN tries' : tries'[tok] = tries[tok],
         \A tok \in 1..MaxTokens : Finishing(tok)' = Finishing(tok)
  PROVE  TriesInv'
  <1>1. \A tok \in 1..MaxTokens : Cardinality(Finishing(tok))' = Cardinality(Finishing(tok))
    OBVIOUS
  <1> HIDE DEF Finishing
  <1>2. \A tok \in 1..MaxTokens : Cardinality(Finishing(tok)) \in Nat /\ judged[tok] \in Nat
    BY FinishingFinite DEF TotpTypeOK
  <1>3. ASSUME NEW tok \in 1..MaxTokens PROVE TriesOf(tok) <= TriesOf(tok)'
    <2>1. MaxTries \in Nat BY TotpAssumption
    <2>2. CASE tok \in DOMAIN tries'
      BY <2>2 DEF TriesOf, TotpTypeOK
    <2>3. CASE tok \notin DOMAIN tries' /\ tok \in DOMAIN tries
      BY <2>1, <2>3 DEF TriesOf, TriesInv
    <2>4. CASE tok \notin DOMAIN tries' /\ tok \notin DOMAIN tries
      BY <2>1, <2>4 DEF TriesOf
    <2> QED BY <2>2, <2>3, <2>4
  <1>4. ASSUME NEW tok \in 1..MaxTokens PROVE TriesOf(tok) \in Nat /\ TriesOf(tok)' \in Nat
    BY TotpAssumption DEF TotpTypeOK, TriesOf
  <1>5. ASSUME NEW tok \in 1..MaxTokens
        PROVE  judged'[tok] + Cardinality(Finishing(tok))' <= TriesOf(tok)'
    BY <1>1, <1>2, <1>3, <1>4 DEF TriesInv
  <1>6. ASSUME NEW tok \in 1..MaxTokens, tok > minted'.token PROVE judged'[tok] = 0
    BY <1>6 DEF TriesInv, TotpTypeOK
  <1>7. \A tok \in DOMAIN tries' : tries'[tok] <= MaxTries BY DEF TriesInv
  <1> QED BY <1>5, <1>6, <1>7 DEF TriesInv

\* A thread whose task is not the judging of a token's code, before or after.
LEMMA SameFinishing ==
  ASSUME TotpTypeOK, NEW r \in Threads, NEW t, totpTask' = [totpTask EXCEPT ![r] = t],
         totpTask[r].op # "finish", t.op # "finish"
  PROVE  \A tok \in 1..MaxTokens : Finishing(tok)' = Finishing(tok)
  BY DEF Finishing, TotpTypeOK

LEMMA TriesStep ==
  ASSUME TotpTypeOK, TotpTypeOK', TriesInv, [TotpNext]_totpVars
  PROVE  TriesInv'
  <1>1. ASSUME UNCHANGED totpTask PROVE \A tok \in 1..MaxTokens : Finishing(tok)' = Finishing(tok)
    BY <1>1 DEF Finishing
  <1>2. CASE \/ UNCHANGED totpVars \/ NextStep \/ SetupLapse
    BY <1>1, <1>2, TriesKept DEF totpVars, NextStep, SetupLapse
  <1>3. CASE TokenLapse
    <2>1. PICK tok \in DOMAIN tries : DropToken(tok) BY <1>3 DEF TokenLapse
    <2>2. /\ DOMAIN tries' \subseteq DOMAIN tries
          /\ \A t \in DOMAIN tries' : tries'[t] = tries[t]
      BY <2>1, Dropped
    <2> QED BY <1>1, <1>3, <2>2, TriesKept DEF TokenLapse
  <1>4. CASE AdminDisable
    BY <1>1, <1>4, TriesKept DEF AdminDisable, TurnOff
  <1>5. ASSUME NEW r \in Threads, NEW t, totpTask' = [totpTask EXCEPT ![r] = t],
               totpTask[r].op # "finish", t.op # "finish", UNCHANGED judged,
               minted'.token = minted.token, DOMAIN tries' \subseteq DOMAIN tries,
               \A tok \in DOMAIN tries' : tries'[tok] = tries[tok]
        PROVE  TriesInv'
    <2>1. \A tok \in 1..MaxTokens : Finishing(tok)' = Finishing(tok) BY <1>5, SameFinishing
    <2> QED BY <1>5, <2>1, TriesKept
  <1>6. Idle.op # "finish" BY DEF Idle
  <1>7. ASSUME NEW r \in Threads,
               \/ SetupRead(r) \/ Setup(r) \/ ConfirmRead(r) \/ Confirm(r) \/ VerifyRead(r)
               \/ CodeRecord(r) \/ Refuse(r) \/ Disable(r) \/ Renew(r)
        PROVE  TriesInv'
    <2>1. CASE SetupRead(r)
      <3> DEFINE t == [op |-> "setup"]
      <3>1. t.op # "finish" OBVIOUS
      <3>2. /\ totpTask[r].op # "finish" /\ totpTask' = [totpTask EXCEPT ![r] = t]
            /\ UNCHANGED <<judged, minted, tries>>
        BY <1>6, <2>1 DEF SetupRead, Enter
      <3> QED BY <1>5, <3>1, <3>2
    <2>2. CASE Setup(r)
      <3>1. minted'.token = minted.token BY <2>2, MintGrows, TotpAssumption DEF Setup
      <3> QED BY <1>5, <1>6, <2>2, <3>1 DEF Setup, Leave
    <2>3. CASE ConfirmRead(r)
      <3>1. PICK s : Enter(r, [op |-> "confirm", secret |-> offered, found |-> s])
        BY <2>3, Zenon DEF ConfirmRead
      <3> DEFINE t == [op |-> "confirm", secret |-> offered, found |-> s]
      <3>2. /\ totpTask[r].op # "finish" /\ totpTask' = [totpTask EXCEPT ![r] = t]
            /\ UNCHANGED <<judged, minted, tries>>
        BY <1>6, <2>3, <3>1 DEF ConfirmRead, Enter
      <3>3. t.op # "finish" OBVIOUS
      <3> HIDE DEF t
      <3> QED BY <1>5, <3>2, <3>3
    <2>4. CASE Confirm(r)
      <3>1. minted'.token = minted.token BY <2>4, MintGrows, TotpAssumption DEF Confirm
      <3> QED BY <1>5, <1>6, <2>4, <3>1 DEF Confirm, Leave
    <2>5. CASE VerifyRead(r)
      <3>1. PICK op \in {"disable", "renew"} : Enter(r, Reading(op, 0))
        BY <2>5 DEF VerifyRead
      <3>2. Reading(op, 0).op # "finish" BY DEF Reading
      <3> QED BY <1>5, <1>6, <2>5, <3>1, <3>2 DEF VerifyRead, Enter
    <2>6. CASE CodeRecord(r)
      <3>1. /\ DOMAIN tries' \subseteq DOMAIN tries
            /\ \A tok \in DOMAIN tries' : tries'[tok] = tries[tok]
        BY <2>6, Dropped DEF CodeRecord
      <3> QED BY <1>5, <1>6, <2>6, <3>1 DEF CodeRecord, Leave
    <2>7. CASE Refuse(r) BY <1>5, <1>6, <2>7 DEF Refuse, Leave
    <2>8. CASE Disable(r) BY <1>5, <1>6, <2>8 DEF Disable, TurnOff, Leave
    <2>9. CASE Renew(r)
      <3>1. minted'.token = minted.token BY <2>9, MintGrows, TotpAssumption DEF Renew
      <3> QED BY <1>5, <1>6, <2>9, <3>1 DEF Renew, Leave
    <2> QED BY <1>7, <2>1, <2>2, <2>3, <2>4, <2>5, <2>6, <2>7, <2>8, <2>9
  <1>8. ASSUME NEW r \in Threads, LoginBegin(r) PROVE TriesInv'
    <2>1. minted'.token = minted.token + 1 BY <1>8, MintGrows, TotpAssumption DEF LoginBegin
    <2>0. PICK new : new = minted.token + 1 OBVIOUS
    <2>2. /\ DOMAIN tries' = DOMAIN tries \cup {new} /\ new \notin DOMAIN tries
          /\ tries'[new] = 0 /\ \A tok \in DOMAIN tries : tries'[tok] = tries[tok]
      BY <1>8, <2>0 DEF LoginBegin, TotpTypeOK
    <2>3. \A tok \in 1..MaxTokens : Finishing(tok)' = Finishing(tok)
      BY <1>1, <1>8 DEF LoginBegin
    <2>4. Finishing(new) = {}
      BY <2>0 DEF Finishing, TotpTypeOK, TaskFits
    <2>5. Cardinality(Finishing(new)) = 0 BY <2>4, FS_EmptySet
    <2>6. UNCHANGED judged BY <1>8 DEF LoginBegin
    <2>7. \A tok \in 1..MaxTokens : judged'[tok] + Cardinality(Finishing(tok))' <= TriesOf(tok)'
      <3>1. \A tok \in 1..MaxTokens : Cardinality(Finishing(tok))' = Cardinality(Finishing(tok))
        BY <2>3
      <3>2. ASSUME NEW tok \in 1..MaxTokens, tok # new
            PROVE  TriesOf(tok)' = TriesOf(tok)
        BY <2>2, <3>2 DEF TriesOf
      <3>3. new \in 1..MaxTokens => judged[new] = 0
        BY <2>0 DEF TriesInv, TotpTypeOK
      <3>4. TriesOf(new)' = 0 BY <2>2 DEF TriesOf
      <3>5. \A tok \in 1..MaxTokens : tok = new \/ tok # new OBVIOUS
      <3> QED BY <2>5, <2>6, <3>1, <3>2, <3>3, <3>4, <3>5 DEF TriesInv
    <2>8. \A tok \in DOMAIN tries' : tries'[tok] <= MaxTries
      BY <2>2, TotpAssumption DEF TriesInv
    <2> QED BY <2>1, <2>6, <2>7, <2>8 DEF TriesInv, TotpTypeOK
  <1>9. ASSUME NEW r \in Threads, CodeRead(r) PROVE TriesInv'
    <2>1. PICK tok \in DOMAIN tries :
              IF tries[tok] < MaxTries /\ secret # 0
                THEN /\ Enter(r, Reading("finish", tok))
                     /\ tries' = [tries EXCEPT ![tok] = @ + 1]
                ELSE /\ totpTask[r] = Idle
                     /\ DropToken(tok) /\ UNCHANGED <<totpTask, missed, crossed>>
      BY <1>9 DEF CodeRead
    <2>0. tok \in 1..MaxTokens
      <3>1. tok \in 1..minted.token /\ minted.token \in 0..MaxTokens BY DEF TotpTypeOK
      <3> QED BY <3>1, TotpAssumption
    <2>2. UNCHANGED <<judged, minted>> BY <1>9 DEF CodeRead
    <2>3. CASE tries[tok] < MaxTries /\ secret # 0
      <3>1. /\ totpTask[r] = Idle /\ totpTask' = [totpTask EXCEPT ![r] = Reading("finish", tok)]
            /\ tries' = [tries EXCEPT ![tok] = @ + 1]
        BY <2>1, <2>3 DEF Enter
      <3>2. Reading("finish", tok).op = "finish" /\ Reading("finish", tok).tok = tok
        BY DEF Reading
      <3>3. Finishing(tok)' = Finishing(tok) \cup {r} /\ r \notin Finishing(tok)
        <4>1. totpTask[r].op # "finish" BY <1>6, <3>1
        <4>2. \A q \in Threads : totpTask'[q] = IF q = r THEN Reading("finish", tok) ELSE totpTask[q]
          BY <3>1 DEF TotpTypeOK
        <4> QED BY <3>2, <4>1, <4>2 DEF Finishing
      <3>4. Cardinality(Finishing(tok))' = Cardinality(Finishing(tok)) + 1
        <4> HIDE DEF Finishing
        <4> QED BY <3>3, FinishingFinite, FS_AddElement
      <3>5. ASSUME NEW other \in 1..MaxTokens, other # tok
            PROVE  Finishing(other)' = Finishing(other)
        BY <1>6, <3>1, <3>2, <3>5 DEF Finishing, TotpTypeOK
      <3>6. ASSUME NEW other \in 1..MaxTokens, other # tok
            PROVE  Cardinality(Finishing(other))' = Cardinality(Finishing(other))
                   /\ TriesOf(other)' = TriesOf(other)
        BY <3>1, <3>5, <3>6 DEF TriesOf
      <3>7. TriesOf(tok)' = tries[tok] + 1 /\ TriesOf(tok) = tries[tok] /\ tries[tok] \in Nat
        BY <3>1 DEF TriesOf, TotpTypeOK
      <3>8. Cardinality(Finishing(tok)) \in Nat BY FinishingFinite
      <3>9. \A other \in 1..MaxTokens : judged[other] \in Nat BY DEF TotpTypeOK
      <3>10. \A other \in 1..MaxTokens :
               judged'[other] + Cardinality(Finishing(other))' <= TriesOf(other)'
        <4>0. \A other \in 1..MaxTokens :
                judged[other] + Cardinality(Finishing(other)) <= TriesOf(other)
          BY Zenon DEF TriesInv
        <4>1. judged[tok] \in Nat /\ judged'[tok] = judged[tok]
              /\ judged[tok] + Cardinality(Finishing(tok)) <= TriesOf(tok)
          BY <2>0, <2>2, <3>9, <4>0, Zenon
        <4>2. judged'[tok] + Cardinality(Finishing(tok))' <= TriesOf(tok)'
          <5>1. PICK a \in Nat, b \in Nat, c \in Nat :
                  /\ a = judged[tok] /\ b = Cardinality(Finishing(tok)) /\ c = tries[tok]
            BY <3>7, <3>8, <4>1, Zenon
          <5>2. a + b <= c BY <3>7, <4>1, <5>1, Zenon
          <5>3. a + (b + 1) <= c + 1 BY <5>2
          <5> QED BY <3>4, <3>7, <4>1, <5>1, <5>3, Zenon
        <4>3. ASSUME NEW other \in 1..MaxTokens, other # tok
              PROVE  judged'[other] + Cardinality(Finishing(other))' <= TriesOf(other)'
          BY <2>2, <3>6, <4>0, <4>3, Zenon
        <4> QED BY <4>2, <4>3, Zenon
      <3>11. \A other \in DOMAIN tries' : tries'[other] <= MaxTries
        BY <2>3, <3>1, <3>7, TotpAssumption DEF TriesInv
      <3> QED BY <2>2, <3>10, <3>11 DEF TriesInv
    <2>4. CASE ~(tries[tok] < MaxTries /\ secret # 0)
      <3>1. DropToken(tok) /\ UNCHANGED totpTask BY <2>1, <2>4
      <3>2. /\ DOMAIN tries' \subseteq DOMAIN tries
            /\ \A t \in DOMAIN tries' : tries'[t] = tries[t]
        BY <3>1, Dropped
      <3> QED BY <1>1, <2>2, <3>1, <3>2, TriesKept
    <2> QED BY <2>3, <2>4
  <1>10. ASSUME NEW r \in Threads, NEW ok \in BOOLEAN, Judge(r, ok), UNCHANGED <<tries, minted>>
         PROVE  TriesInv'
    <2>1. PICK t \in CheckTask : /\ totpTask' = [totpTask EXCEPT ![r] = t]
                                 /\ t.op \notin {"finish", "disable", "renew"}
      BY <1>10, JudgeStep
    <2>2. \A tok : TriesOf(tok)' = TriesOf(tok) BY <1>10 DEF TriesOf
    <2>3. CASE totpTask[r].op # "finish"
      <3>1. UNCHANGED judged BY <1>10, <2>3 DEF Judge
      <3>2. t.op # "finish" BY <2>1
      <3> QED BY <1>5, <1>10, <2>1, <2>3, <3>1, <3>2
    <2>4. CASE totpTask[r].op = "finish"
      <3>0. PICK tok : tok = totpTask[r].tok OBVIOUS
      <3>1. judged' = [judged EXCEPT ![tok] = @ + 1] BY <1>10, <2>4, <3>0 DEF Judge
      <3>11. tok \in 1..minted.token BY <2>4, <3>0, Checking DEF CheckOps
      <3>2. tok \in 1..MaxTokens /\ tok <= minted.token
        <4>1. minted.token \in 0..MaxTokens BY DEF TotpTypeOK
        <4> QED BY <3>11, <4>1, TotpAssumption
      <3>3. Finishing(tok)' = Finishing(tok) \ {r} /\ r \in Finishing(tok)
        BY <2>1, <2>4, <3>0 DEF Finishing, TotpTypeOK
      <3>4. Cardinality(Finishing(tok))' = Cardinality(Finishing(tok)) - 1
        <4> HIDE DEF Finishing
        <4> QED BY <3>3, FinishingFinite, FS_RemoveElement
      <3>5. ASSUME NEW other \in 1..MaxTokens, other # tok
            PROVE  Finishing(other)' = Finishing(other)
        BY <2>1, <2>4, <3>0, <3>5 DEF Finishing, TotpTypeOK
      <3>6. ASSUME NEW other \in 1..MaxTokens, other # tok
            PROVE  Cardinality(Finishing(other))' = Cardinality(Finishing(other))
        BY <3>5, <3>6
      <3>7. Cardinality(Finishing(tok)) \in Nat BY FinishingFinite
      <3>8. \A other \in 1..MaxTokens : judged[other] \in Nat BY DEF TotpTypeOK
      <3>9. judged'[tok] = judged[tok] + 1
            /\ \A other \in 1..MaxTokens : other # tok => judged'[other] = judged[other]
        BY <3>1, <3>2 DEF TotpTypeOK
      <3>10. \A other \in 1..MaxTokens :
               judged'[other] + Cardinality(Finishing(other))' <= TriesOf(other)
        <4> SUFFICES ASSUME NEW other \in 1..MaxTokens
                     PROVE  judged'[other] + Cardinality(Finishing(other))' <= TriesOf(other)
          OBVIOUS
        <4>1. CASE other = tok BY <3>2, <3>4, <3>7, <3>8, <3>9, <4>1 DEF TriesInv
        <4>2. CASE other # tok BY <3>6, <3>9, <4>2 DEF TriesInv
        <4> QED BY <4>1, <4>2
      <3>12. \A other \in 1..MaxTokens : other > minted.token => judged'[other] = 0
        BY <3>2, <3>9 DEF TriesInv, TotpTypeOK
      <3> QED BY <1>10, <2>2, <3>10, <3>12 DEF TriesInv
    <2> QED BY <2>3, <2>4
  <1>11. ASSUME NEW r \in Threads, ConsumeCode(r) \/ ConsumeRecovery(r) \/ ConsumeNothing(r)
         PROVE  TriesInv'
    BY <1>10, <1>11 DEF ConsumeCode, ConsumeRecovery, ConsumeNothing
  <1> QED BY <1>2, <1>3, <1>4, <1>7, <1>8, <1>9, <1>11 DEF TotpNext

\* A sign-in token is good for TOTP_LOGIN_MAX_ATTEMPTS codes, however many
\* requests carry it at once: the attempt is on the row before the code is
\* compared, so the row covers the codes judged and those being judged.
THEOREM AttemptsAreBounded == TotpSpec => []TriesBounded
  <1>1. TotpInit => TotpTypeOK /\ TriesInv
    <2> SUFFICES ASSUME TotpInit PROVE TriesInv BY TotpTypeInit
    <2>1. \A tok : Finishing(tok) = {} BY DEF TotpInit, Finishing, Idle
    <2>2. \A tok : Cardinality(Finishing(tok)) = 0 BY <2>1, FS_EmptySet
    <2> QED BY <2>2, TotpAssumption DEF TotpInit, TriesInv, TriesOf
  <1>2. TotpTypeOK /\ TriesInv /\ [TotpNext]_totpVars => (TotpTypeOK /\ TriesInv)'
    BY TotpTypeStep, TriesStep
  <1>3. TotpTypeOK /\ TriesInv => TriesBounded
    <2> SUFFICES ASSUME TotpTypeOK, TriesInv, NEW tok \in 1..MaxTokens
                 PROVE  judged[tok] <= MaxTries
      BY DEF TriesBounded
    <2>1. Cardinality(Finishing(tok)) \in Nat /\ judged[tok] \in Nat
      BY FinishingFinite DEF TotpTypeOK
    <2>2. TriesOf(tok) \in Nat /\ TriesOf(tok) <= MaxTries
      BY TotpAssumption DEF TriesOf, TriesInv, TotpTypeOK
    <2> QED BY <2>1, <2>2, TotpAssumption DEF TriesInv
  <1> QED BY <1>1, <1>2, <1>3, PTL DEF TotpSpec

----------------------------------------------------------------------------
(* Time steps *)

Comparing(t) == t.op \in {"finish", "disable", "renew"}
Confirming(t) == t.op = "confirm"

\* The TOTP codes accepted that no request crossed.
Spent == {c \in accepted : c[1] = "totp"} \ crossed

\* What a thread reads of a spent code it has not missed: of its own secret, a
\* last step the code is no later than; of another, one that is not the
\* account's any more.  A set-up is confirmed with a secret none is of.
KnownTo(t, c) ==
  /\ Comparing(t) => IF t.secret = c[2] THEN c[3] <= t.last ELSE secret # c[2]
  /\ Confirming(t) => t.secret # c[2]

\* A spent code of the account's secret is no later than its last step, and
\* whoever has not missed it knows.  A secret that is offered is a new one.
TurnInv ==
  /\ OnceInTurn
  /\ \A c \in accepted : c[1] = "totp" => c[2] \in 1..minted.secret /\ c[2] # offered
  /\ offered # 0 => /\ offered # secret
                    /\ \A r \in Threads : Comparing(totpTask[r]) => totpTask[r].secret # offered
  /\ \A c \in Spent :
       /\ secret = c[2] => c[3] <= lastStep
       /\ \A q \in Threads : c \notin missed[q] => KnownTo(totpTask[q], c)

LEMMA IdleIsIdle == ~Comparing(Idle) /\ ~Confirming(Idle)
  BY DEF Comparing, Confirming, Idle

\* A spent code has a place in time and a secret that was generated.
LEMMA SpentCodes ==
  ASSUME TotpTypeOK, TurnInv, NEW c \in Spent
  PROVE  c \in accepted /\ c[1] = "totp" /\ c[3] \in Nat /\ c[2] \in 1..minted.secret
         /\ c[2] # 0 /\ c[2] # offered
  <1>1. c \in accepted /\ c[1] = "totp" /\ c \in Codes BY DEF Spent, TotpTypeOK
  <1>2. c[3] \in Nat BY <1>1 DEF Codes
  <1>3. c[2] \in 1..minted.secret /\ c[2] # offered BY <1>1 DEF TurnInv
  <1> QED BY <1>1, <1>2, <1>3

\* Requests that end, or go on without a code of a time step; a second factor
\* that is turned off, a set-up that lapses.
LEMMA TurnKept ==
  ASSUME TotpTypeOK, TurnInv, UNCHANGED <<missed, crossed>>,
         minted'.secret = minted.secret, secret' \in {secret, 0},
         secret' # 0 => lastStep' = lastStep, offered' \in {offered, 0},
         NEW C, accepted' = accepted \cup C, \A c \in C : c[1] # "totp",
         \A c \in twice' : c \in twice \/ c \in C,
         \A q \in Threads : \/ totpTask'[q] = totpTask[q]
                            \/ ~Comparing(totpTask'[q]) /\ ~Confirming(totpTask'[q])
  PROVE  TurnInv'
  <1>1. Spent' = Spent BY DEF Spent
  <1>2. OnceInTurn' BY DEF TurnInv, OnceInTurn
  <1>3. \A c \in accepted' : c[1] = "totp" => c[2] \in 1..minted'.secret /\ c[2] # offered'
    BY DEF TurnInv
  <1>4. ASSUME offered' # 0
        PROVE  /\ offered' # secret'
               /\ \A r \in Threads : Comparing(totpTask'[r]) => totpTask'[r].secret # offered'
    BY <1>4 DEF TurnInv
  <1>5. ASSUME NEW c \in Spent
        PROVE  /\ secret' = c[2] => c[3] <= lastStep'
               /\ \A q \in Threads : c \notin missed'[q] => KnownTo(totpTask[q], c)'
    <2>1. c[2] # 0 BY SpentCodes
    <2>2. secret' = c[2] => c[3] <= lastStep' BY <2>1 DEF TurnInv
    <2>3. ASSUME NEW q \in Threads, c \notin missed'[q] PROVE KnownTo(totpTask[q], c)'
      <3>1. KnownTo(totpTask[q], c) BY <2>3 DEF TurnInv
      <3>2. CASE totpTask'[q] = totpTask[q] BY <2>1, <3>1, <3>2 DEF KnownTo
      <3>3. CASE ~Comparing(totpTask'[q]) /\ ~Confirming(totpTask'[q])
        BY <3>3 DEF KnownTo, Comparing, Confirming
      <3> QED BY <3>2, <3>3
    <2> QED BY <2>2, <2>3
  <1>6. \A r \in Threads : Comparing(totpTask[r])' = Comparing(totpTask'[r])
    BY DEF Comparing
  <1> QED BY <1>1, <1>2, <1>3, <1>4, <1>5, <1>6 DEF TurnInv

\* A request begins: it reads the last step, or the secret that is offered.
LEMMA TurnBegins ==
  ASSUME TotpTypeOK, TurnInv, NEW r \in Threads, NEW t, Enter(r, t),
         UNCHANGED <<accepted, twice, minted, secret, lastStep, offered>>,
         Comparing(t) => secret # 0 /\ t.secret = secret /\ t.last = lastStep,
         Confirming(t) => offered # 0 /\ t.secret = offered
  PROVE  TurnInv'
  <1>1. /\ totpTask'[r] = t /\ missed'[r] = {} /\ crossed' = crossed
        /\ \A q \in Threads : q # r => totpTask'[q] = totpTask[q] /\ missed'[q] = missed[q]
    BY DEF Enter, TotpTypeOK
  <1>2. Spent' = Spent BY <1>1 DEF Spent
  <1>3. OnceInTurn' BY <1>1 DEF TurnInv, OnceInTurn
  <1>4. \A c \in accepted' : c[1] = "totp" => c[2] \in 1..minted'.secret /\ c[2] # offered'
    BY DEF TurnInv
  <1>5. \A q \in Threads : Comparing(totpTask[q])' = Comparing(totpTask'[q])
    BY DEF Comparing
  <1>6. ASSUME offered' # 0
        PROVE  /\ offered' # secret'
               /\ \A q \in Threads : Comparing(totpTask[q])' => totpTask'[q].secret # offered'
    BY <1>1, <1>5, <1>6 DEF TurnInv
  <1>7. ASSUME NEW c \in Spent
        PROVE  /\ secret' = c[2] => c[3] <= lastStep'
               /\ \A q \in Threads : c \notin missed'[q] => KnownTo(totpTask[q], c)'
    <2>1. secret = c[2] => c[3] <= lastStep BY DEF TurnInv
    <2>2. c[2] # offered BY SpentCodes
    <2>3. KnownTo(t, c) BY <2>1, <2>2 DEF KnownTo
    <2>4. \A q \in Threads : c \notin missed'[q] => KnownTo(totpTask'[q], c)
      BY <1>1, <2>3 DEF TurnInv
    <2>5. \A q \in Threads : KnownTo(totpTask[q], c)' = KnownTo(totpTask'[q], c)
      BY DEF KnownTo, Comparing, Confirming
    <2> QED BY <2>1, <2>4, <2>5
  <1> QED BY <1>2, <1>3, <1>4, <1>6, <1>7 DEF TurnInv

\* A new secret is offered.
LEMMA TurnOffered ==
  ASSUME TotpTypeOK, TurnInv, NEW r \in Threads, Setup(r)
  PROVE  TurnInv'
  <1>1. /\ minted'.secret = minted.secret + 1 /\ offered' = minted.secret + 1
        /\ minted.secret \in Nat /\ secret \in 0..minted.secret
        /\ UNCHANGED <<accepted, twice, missed, crossed, secret, lastStep>>
    BY MintGrows, TotpAssumption DEF Setup, TotpTypeOK
  <1>2. \A q \in Threads : \/ totpTask'[q] = totpTask[q]
                           \/ ~Comparing(totpTask'[q]) /\ ~Confirming(totpTask'[q])
    <2>1. \A q \in Threads : totpTask'[q] = totpTask[q] \/ totpTask'[q] = Idle
      BY DEF Setup, Leave, TotpTypeOK
    <2> QED BY <2>1, IdleIsIdle
  <1>3. \A q \in Threads : Comparing(totpTask[q]) => totpTask[q].secret \in 1..minted.secret
    BY Checking DEF Comparing, CheckOps
  <1>4. Spent' = Spent BY <1>1 DEF Spent
  <1>5. OnceInTurn' BY <1>1 DEF TurnInv, OnceInTurn
  <1>6. \A c \in accepted' : c[1] = "totp" => c[2] \in 1..minted'.secret /\ c[2] # offered'
    BY <1>1 DEF TurnInv
  <1>7. \A q \in Threads : Comparing(totpTask[q])' = Comparing(totpTask'[q])
    BY DEF Comparing
  <1>8. /\ offered' # secret'
        /\ \A q \in Threads : Comparing(totpTask[q])' => totpTask'[q].secret # offered'
    BY <1>1, <1>2, <1>3, <1>7
  <1>9. ASSUME NEW c \in Spent
        PROVE  /\ secret' = c[2] => c[3] <= lastStep'
               /\ \A q \in Threads : c \notin missed'[q] => KnownTo(totpTask[q], c)'
    <2>1. secret' = c[2] => c[3] <= lastStep' BY <1>1 DEF TurnInv
    <2>2. ASSUME NEW q \in Threads, c \notin missed'[q] PROVE KnownTo(totpTask'[q], c)
      <3>1. KnownTo(totpTask[q], c) BY <1>1, <2>2 DEF TurnInv
      <3> QED BY <1>2, <3>1 DEF KnownTo
    <2>3. \A q \in Threads : KnownTo(totpTask[q], c)' = KnownTo(totpTask'[q], c)
      BY <1>1 DEF KnownTo, Comparing, Confirming
    <2> QED BY <2>1, <2>2, <2>3
  <1> QED BY <1>4, <1>5, <1>6, <1>8, <1>9 DEF TurnInv

\* A code of a time step is accepted: the step is the last one by now, those
\* that had read miss the code, and what r had missed is crossed.  The code
\* was not spent before.
LEMMA TurnAccepted ==
  ASSUME TotpTypeOK, TurnInv, NEW r \in Threads, NEW sec \in 1..minted.secret, NEW s \in Nat,
         AcceptStep(r, sec, s), lastStep' = s, minted'.secret = minted.secret,
         NEW t, totpTask' = [totpTask EXCEPT ![r] = t], ~Comparing(t), ~Confirming(t),
         offered' \in {offered, 0}, sec # offered',
         offered' # 0 => secret' = secret,
         \A c \in Spent \ missed[r] :
           /\ sec = c[2] => c[3] < s
           /\ secret' = c[2] => sec = c[2] /\ secret = c[2]
  PROVE  TurnInv'
  <1> DEFINE new == <<"totp", sec, s>>
  <1>1. /\ accepted' = accepted \cup {new} /\ crossed' = crossed \cup missed[r]
        /\ twice' = IF new \in accepted THEN twice \cup {new} ELSE twice
        /\ missed'[r] = {}
        /\ \A q \in Threads : q # r /\ (Comparing(totpTask[q]) \/ Confirming(totpTask[q]))
             => missed'[q] = missed[q] \cup {new}
    BY DEF AcceptStep, Accept, Comparing, Confirming
  <1>2. /\ totpTask'[r] = t
        /\ \A q \in Threads : q # r => totpTask'[q] = totpTask[q]
    BY DEF TotpTypeOK
  <1>3. new[1] = "totp" /\ new[2] = sec /\ new[3] = s OBVIOUS
  <1> HIDE DEF new
  <1>4. new \in accepted => new \in crossed'
    <2> SUFFICES ASSUME new \in accepted, new \notin crossed, new \notin missed[r] PROVE FALSE
      BY <1>1
    <2>1. new \in Spent \ missed[r] BY <1>3 DEF Spent
    <2> QED BY <1>3, <2>1
  <1>5. OnceInTurn' BY <1>1, <1>4 DEF TurnInv, OnceInTurn
  <1>6. \A c \in accepted' : c[1] = "totp" => c[2] \in 1..minted'.secret /\ c[2] # offered'
    BY <1>1, <1>3 DEF TurnInv
  <1>7. \A q \in Threads : Comparing(totpTask[q])' = Comparing(totpTask'[q])
    BY DEF Comparing
  <1>8. ASSUME offered' # 0
        PROVE  /\ offered' # secret'
               /\ \A q \in Threads : Comparing(totpTask[q])' => totpTask'[q].secret # offered'
    BY <1>2, <1>7, <1>8 DEF TurnInv
  <1>9. \A c \in Spent' : c = new \/ c \in Spent \ missed[r]
    BY <1>1 DEF Spent
  <1>10. ASSUME NEW c \in Spent'
         PROVE  /\ secret' = c[2] => c[3] <= lastStep'
                /\ \A q \in Threads : c \notin missed'[q] => KnownTo(totpTask[q], c)'
    <2>1. secret' = c[2] => c[3] <= lastStep'
      <3>1. CASE c = new BY <1>3, <3>1
      <3>2. CASE c \in Spent \ missed[r]
        <4>1. c[3] \in Nat BY <3>2, SpentCodes
        <4> QED BY <3>2, <4>1
      <3> QED BY <1>9, <3>1, <3>2
    <2>2. ASSUME NEW q \in Threads, c \notin missed'[q] PROVE KnownTo(totpTask[q], c)'
      <3>1. CASE ~Comparing(totpTask'[q]) /\ ~Confirming(totpTask'[q])
        BY <3>1 DEF KnownTo, Comparing, Confirming
      <3>2. CASE Comparing(totpTask'[q]) \/ Confirming(totpTask'[q])
        <4>1. q # r /\ totpTask'[q] = totpTask[q] BY <1>2, <3>2
        <4>2. c # new /\ c \notin missed[q] BY <1>1, <2>2, <3>2, <4>1
        <4>3. c \in Spent \ missed[r] BY <1>9, <4>2
        <4>4. KnownTo(totpTask[q], c) BY <4>2, <4>3 DEF TurnInv
        <4>5. c[2] # secret => secret' # c[2] BY <4>3
        <4> QED BY <4>1, <4>4, <4>5 DEF KnownTo, Comparing, Confirming
      <3> QED BY <3>1, <3>2
    <2> QED BY <2>1, <2>2
  <1> QED BY <1>5, <1>6, <1>8, <1>10 DEF TurnInv

\* The secret offered becomes the account's, with the step of its first code.
LEMMA TurnConfirmed ==
  ASSUME TotpTypeOK, TurnInv, NEW r \in Threads, Confirm(r)
  PROVE  TurnInv'
  <1>1. totpTask[r] \in ConfirmTask /\ Confirming(totpTask[r])
    BY Settling DEF Confirm, Confirming
  <1>2. totpTask[r].secret \in 1..minted.secret /\ totpTask[r].found \in Nat
    BY <1>1 DEF TotpTypeOK, TaskFits, ConfirmTask
  <1>3. minted'.secret = minted.secret BY MintGrows, TotpAssumption DEF Confirm
  <1>4. \A c \in Spent \ missed[r] : totpTask[r].secret # c[2]
    BY <1>1 DEF TurnInv, KnownTo
  <1>5. \A c \in Spent \ missed[r] :
          /\ totpTask[r].secret = c[2] => c[3] < totpTask[r].found
          /\ secret' = c[2] => totpTask[r].secret = c[2] /\ secret = c[2]
    BY <1>4 DEF Confirm
  <1>6. /\ totpTask' = [totpTask EXCEPT ![r] = Idle]
        /\ AcceptStep(r, totpTask[r].secret, totpTask[r].found)
        /\ secret' = totpTask[r].secret /\ lastStep' = totpTask[r].found /\ offered' = 0
    BY DEF Confirm, Leave
  <1>7. totpTask[r].secret # offered' /\ offered' = 0 /\ offered' \in {offered, 0}
    BY <1>2, <1>6
  <1> QED BY <1>2, <1>3, <1>5, <1>6, <1>7, IdleIsIdle, TurnAccepted

\* A code of the secret the request read, later than the step it read.
LEMMA TurnConsumed ==
  ASSUME TotpTypeOK, TurnInv, NEW r \in Threads, ConsumeCode(r)
  PROVE  TurnInv'
  <1>1. /\ Comparing(totpTask[r]) /\ totpTask[r] \in CheckTask
        /\ totpTask[r].secret \in 1..minted.secret
    BY JudgeStep, Checking DEF ConsumeCode, Comparing, CheckOps
  <1>2. totpTask[r].at \in Nat /\ totpTask[r].last \in Int BY <1>1 DEF CheckTask
  <1>3. PICK s \in Candidates(totpTask[r].at, totpTask[r].last) :
          lastStep' = s /\ AcceptStep(r, totpTask[r].secret, s)
    BY DEF ConsumeCode
  <1>4. s \in Nat /\ s > totpTask[r].last BY <1>2, CandidateSteps
  <1>5. PICK t \in CheckTask : /\ totpTask' = [totpTask EXCEPT ![r] = t]
                               /\ ~Comparing(t) /\ ~Confirming(t)
    BY JudgeStep DEF ConsumeCode, Comparing, Confirming, CheckOps
  <1>6. UNCHANGED <<secret, offered, minted>> BY DEF ConsumeCode
  <1>7. totpTask[r].secret # offered'
    <2>1. CASE offered = 0 BY <1>1, <1>6, <2>1
    <2>2. CASE offered # 0 BY <1>1, <1>6, <2>2 DEF TurnInv
    <2> QED BY <2>1, <2>2
  <1>8. ASSUME NEW c \in Spent \ missed[r]
        PROVE  /\ totpTask[r].secret = c[2] => c[3] < s
               /\ secret' = c[2] => totpTask[r].secret = c[2] /\ secret = c[2]
    <2>1. c[3] \in Nat BY SpentCodes
    <2>2. KnownTo(totpTask[r], c) BY DEF TurnInv
    <2> QED BY <1>1, <1>2, <1>4, <1>6, <2>1, <2>2 DEF KnownTo
  <1> QED BY <1>1, <1>3, <1>4, <1>5, <1>6, <1>7, <1>8, TurnAccepted

LEMMA TurnStep ==
  ASSUME TotpTypeOK, RecoveryInv, TurnInv, [TotpNext]_totpVars
  PROVE  TurnInv'
  <1> DEFINE Settled == \A q \in Threads :
                          \/ totpTask'[q] = totpTask[q]
                          \/ ~Comparing(totpTask'[q]) /\ ~Confirming(totpTask'[q])
  <1>1. ASSUME NEW r \in Threads, Leave(r) PROVE Settled
    BY <1>1, IdleIsIdle DEF Leave, TotpTypeOK
  <1>2. ASSUME UNCHANGED <<accepted, twice, missed, crossed>>, Settled,
               minted'.secret = minted.secret, secret' \in {secret, 0},
               secret' # 0 => lastStep' = lastStep, offered' \in {offered, 0}
        PROVE  TurnInv'
    <2> DEFINE C == {}
    <2>1. accepted' = accepted \cup C /\ \A c \in C : c[1] # "totp" BY <1>2
    <2>2. \A c \in twice' : c \in twice \/ c \in C BY <1>2
    <2> HIDE DEF C
    <2> QED BY <1>2, <2>1, <2>2, TurnKept
  <1>3. CASE \/ UNCHANGED totpVars \/ NextStep \/ TokenLapse \/ SetupLapse \/ AdminDisable
    BY <1>2, <1>3 DEF totpVars, NextStep, TokenLapse, SetupLapse, AdminDisable, TurnOff
  <1>4. ASSUME NEW r \in Threads,
               \/ SetupRead(r) \/ Setup(r) \/ ConfirmRead(r) \/ Confirm(r)
               \/ LoginBegin(r) \/ CodeRead(r) \/ VerifyRead(r)
               \/ ConsumeCode(r) \/ ConsumeRecovery(r) \/ ConsumeNothing(r)
               \/ CodeRecord(r) \/ Refuse(r) \/ Disable(r) \/ Renew(r)
        PROVE  TurnInv'
    <2>1. CASE SetupRead(r)
      <3> DEFINE t == [op |-> "setup"]
      <3>1. ~Comparing(t) /\ ~Confirming(t) BY DEF Comparing, Confirming
      <3>2. Enter(r, t) /\ UNCHANGED <<accepted, twice, minted, secret, lastStep, offered>>
        BY <2>1 DEF SetupRead
      <3> HIDE DEF t
      <3> QED BY <3>1, <3>2, TurnBegins
    <2>2. CASE Setup(r) BY <2>2, TurnOffered
    <2>3. CASE ConfirmRead(r)
      <3>1. PICK s \in Candidates(step, Null) :
              Enter(r, [op |-> "confirm", secret |-> offered, found |-> s])
        BY <2>3 DEF ConfirmRead
      <3> DEFINE t == [op |-> "confirm", secret |-> offered, found |-> s]
      <3>2. ~Comparing(t) /\ t.secret = offered BY DEF Comparing
      <3>3. /\ Enter(r, t) /\ offered # 0
            /\ UNCHANGED <<accepted, twice, minted, secret, lastStep, offered>>
        BY <2>3, <3>1 DEF ConfirmRead
      <3> HIDE DEF t
      <3> QED BY <3>2, <3>3, TurnBegins
    <2>4. CASE Confirm(r) BY <2>4, TurnConfirmed
    <2>5. CASE LoginBegin(r)
      <3>1. minted'.secret = minted.secret BY <2>5, MintGrows, TotpAssumption DEF LoginBegin
      <3> QED BY <1>2, <2>5, <3>1 DEF LoginBegin
    <2>6. ASSUME NEW op \in {"finish", "disable", "renew"}, NEW tok, secret # 0,
                 Enter(r, Reading(op, tok)),
                 UNCHANGED <<accepted, twice, minted, secret, lastStep, offered>>
          PROVE  TurnInv'
      <3>1. /\ Reading(op, tok).secret = secret /\ Reading(op, tok).last = lastStep
            /\ ~Confirming(Reading(op, tok))
        BY DEF Reading, Confirming
      <3> QED BY <2>6, <3>1, TurnBegins
    <2>7. CASE CodeRead(r)
      <3>1. PICK tok \in DOMAIN tries :
              IF tries[tok] < MaxTries /\ secret # 0
                THEN Enter(r, Reading("finish", tok))
                ELSE UNCHANGED <<totpTask, missed, crossed>>
        BY <2>7 DEF CodeRead
      <3>2. UNCHANGED <<accepted, twice, minted, secret, lastStep, offered>>
        BY <2>7 DEF CodeRead
      <3>3. CASE tries[tok] < MaxTries /\ secret # 0 BY <2>6, <3>1, <3>2, <3>3
      <3>4. CASE ~(tries[tok] < MaxTries /\ secret # 0) BY <1>2, <3>1, <3>2, <3>4
      <3> QED BY <3>3, <3>4
    <2>8. CASE VerifyRead(r) BY <2>6, <2>8 DEF VerifyRead
    <2>9. CASE ConsumeCode(r) BY <2>9, TurnConsumed
    <2>10. ASSUME NEW ok \in BOOLEAN, Judge(r, ok), UNCHANGED minted PROVE Settled
      <3>1. PICK t \in CheckTask : /\ totpTask' = [totpTask EXCEPT ![r] = t]
                                   /\ ~Comparing(t) /\ ~Confirming(t)
        BY <2>10, JudgeStep DEF Comparing, Confirming, CheckOps
      <3> QED BY <3>1 DEF TotpTypeOK
    <2>11. CASE ConsumeRecovery(r)
      <3>1. PICK c \in recovery : Accept(c) BY <2>11 DEF ConsumeRecovery
      <3>2. c[1] # "totp" BY DEF RecoveryInv
      <3>3. accepted' = accepted \cup {c} /\ \A d \in twice' : d \in twice \/ d \in {c}
        BY <3>1 DEF Accept
      <3>4. /\ UNCHANGED <<secret, offered, lastStep, minted, missed, crossed>>
            /\ Judge(r, TRUE)
        BY <2>11 DEF ConsumeRecovery
      <3>5. Settled BY <2>10, <3>4
      <3> QED BY <3>2, <3>3, <3>4, <3>5, TurnKept
    <2>12. CASE ConsumeNothing(r)
      <3>1. Settled BY <2>10, <2>12 DEF ConsumeNothing
      <3> QED BY <1>2, <2>12, <3>1 DEF ConsumeNothing
    <2>13. CASE CodeRecord(r) BY <1>1, <1>2, <2>13 DEF CodeRecord
    <2>14. CASE Refuse(r) BY <1>1, <1>2, <2>14 DEF Refuse
    <2>15. CASE Disable(r) BY <1>1, <1>2, <2>15 DEF Disable, TurnOff
    <2>16. CASE Renew(r)
      <3>1. minted'.secret = minted.secret BY <2>16, MintGrows, TotpAssumption DEF Renew
      <3> QED BY <1>1, <1>2, <2>16, <3>1 DEF Renew
    <2> QED BY <1>4, <2>1, <2>2, <2>3, <2>4, <2>5, <2>7, <2>8, <2>9, <2>11, <2>12,
               <2>13, <2>14, <2>15, <2>16
  <1> QED BY <1>3, <1>4 DEF TotpNext

\* A code of a time step gets through again only after a request that had read
\* the last step before the code was accepted, and was accepted after it, wrote
\* the step it had found: any other request goes by a last step no spent code
\* of that secret is later than, in whatever order the requests, a disabling
\* and a set-up that comes late interleave.
THEOREM CodesOnceInTurn == TotpSpec => []OnceInTurn
  <1>1. TotpInit => TotpTypeOK /\ RecoveryInv /\ TurnInv
    <2> SUFFICES ASSUME TotpInit PROVE RecoveryInv /\ TurnInv BY TotpTypeInit
    <2>1. RecoveryInv BY DEF TotpInit, RecoveryInv, RecoveryOnce
    <2>2. accepted = {} /\ twice = {} /\ offered = 0 BY DEF TotpInit
    <2>3. TurnInv BY <2>2 DEF TurnInv, Spent, OnceInTurn
    <2> QED BY <2>1, <2>3
  <1>2. TotpTypeOK /\ RecoveryInv /\ TurnInv /\ [TotpNext]_totpVars
          => (TotpTypeOK /\ RecoveryInv /\ TurnInv)'
    BY TotpTypeStep, RecoveryStep, TurnStep
  <1>3. TurnInv => OnceInTurn BY DEF TurnInv
  <1> QED BY <1>1, <1>2, <1>3, PTL DEF TotpSpec

----------------------------------------------------------------------------
(* The lockout tiers *)

Attempts == [op : {"login", "finish", "reauth"}, key : Keys, age : Nat]
Tables == [Keys \X Ages -> Nat]

LockTypeOK ==
  /\ failed \in Tables /\ codes \in Tables
  /\ lockTask \in [Threads -> {Idle} \cup Attempts]
  /\ \A r \in Threads : lockTask[r].op = "finish" => lockTask[r].key[1] \in TwoFactor

\* The wrong codes of an account with a second factor are failures of it.
CodesAreFailures ==
  \A k \in Keys \X Ages : k[1][1] \in TwoFactor => codes[k] <= failed[k]

LockInv == LockTypeOK /\ CodesAreFailures /\ TiersHold /\ CodeGuessesHold

LEMMA KeysFinite ==
  ASSUME NEW K \in SUBSET Keys
  PROVE  /\ IsFiniteSet(Keys \X Ages) /\ IsFiniteSet(K \X Ages)
         /\ K \X Ages \subseteq Keys \X Ages
  <1>1. IsFiniteSet(Ages)
    <2>1. Window + 1 \in Nat /\ (Window + 1) - 1 = Window BY LockoutAssumption
    <2>2. IsFiniteSet(0..((Window + 1) - 1)) BY <2>1, IntervalSize
    <2> QED BY <2>1, <2>2 DEF Ages
  <1>2. IsFiniteSet(Names) /\ IsFiniteSet(Ips) BY LockoutAssumption, RequestsAssumption
  <1>3. IsFiniteSet(Keys) BY <1>2, FS_Product DEF Keys
  <1>4. IsFiniteSet(K) BY <1>3, FS_Subset
  <1> HIDE DEF Keys, Ages
  <1> QED BY <1>1, <1>3, <1>4, FS_Product

LEMMA FailuresType ==
  ASSUME NEW K \in SUBSET Keys, NEW rows \in Tables
  PROVE  RecentFailures(rows, K) \in Nat
  <1>1. IsFiniteSet(K \X Ages) /\ \A k \in K \X Ages : rows[k] \in Nat
    BY KeysFinite DEF Tables
  <1> QED BY <1>1, TallyType DEF RecentFailures

\* No row more, no failure more.
LEMMA FailuresLeq ==
  ASSUME NEW K \in SUBSET Keys, NEW rows \in Tables, NEW rows2 \in Tables,
         \A k \in K \X Ages : rows2[k] <= rows[k]
  PROVE  RecentFailures(rows2, K) <= RecentFailures(rows, K)
  <1>1. /\ IsFiniteSet(K \X Ages)
        /\ \A k \in K \X Ages : rows[k] \in Nat /\ rows2[k] \in Nat
    BY KeysFinite DEF Tables
  <1> QED BY <1>1, TallyLeq DEF RecentFailures

\* A row more counts for its own keys only.
LEMMA FailuresAdded ==
  ASSUME NEW K \in SUBSET Keys, NEW rows \in Tables, NEW t \in Attempts
  PROVE  /\ AddRow(rows, t) \in Tables
         /\ RecentFailures(AddRow(rows, t), K)
              <= RecentFailures(rows, K) + (IF t.key \in K THEN 1 ELSE 0)
  <1>1. RecentFailures(rows, K) \in Nat BY FailuresType
  <1>2. CASE t.age \notin Ages BY <1>1, <1>2 DEF AddRow
  <1>3. CASE t.age \in Ages
    <2> DEFINE at == <<t.key, t.age>>
    <2>1. at \in Keys \X Ages BY <1>3 DEF Attempts
    <2>2. /\ AddRow(rows, t) = [rows EXCEPT ![at] = @ + 1]
          /\ at \in K \X Ages <=> t.key \in K
      BY <1>3 DEF AddRow
    <2> HIDE DEF at
    <2>3. AddRow(rows, t) \in Tables BY <2>1, <2>2 DEF Tables
    <2>4. /\ AddRow(rows, t)[at] = rows[at] + 1 /\ rows[at] \in Nat
          /\ \A k \in (K \X Ages) \ {at} : AddRow(rows, t)[k] = rows[k]
      BY <2>1, <2>2, KeysFinite DEF Tables
    <2>5. /\ IsFiniteSet(K \X Ages) /\ \A k \in K \X Ages : rows[k] \in Nat
          /\ \A k \in K \X Ages : AddRow(rows, t)[k] \in Nat
      BY <2>3, KeysFinite DEF Tables
    <2>6. CASE t.key \in K
      <3> DEFINE rows2 == AddRow(rows, t)  S == K \X Ages
      <3>1. /\ IsFiniteSet(S) /\ at \in S /\ \A k \in S : rows[k] \in Nat /\ rows2[k] \in Nat
            /\ \A k \in S \ {at} : rows2[k] = rows[k]
        BY <2>2, <2>4, <2>5, <2>6
      <3> HIDE DEF rows2, S
      <3>2. Tally(rows2, S) = Tally(rows, S) - rows[at] + rows2[at] BY <3>1, TallyChange
      <3>3. RecentFailures(AddRow(rows, t), K)
              = RecentFailures(rows, K) - rows[at] + AddRow(rows, t)[at]
        BY <3>2 DEF RecentFailures, rows2, S
      <3> QED BY <1>1, <2>3, <2>4, <2>6, <3>3
    <2>7. CASE t.key \notin K
      <3>1. \A k \in K \X Ages : AddRow(rows, t)[k] = rows[k] BY <2>2, <2>4, <2>7
      <3>2. RecentFailures(AddRow(rows, t), K) = RecentFailures(rows, K)
        BY <3>1, TallySame DEF RecentFailures
      <3> QED BY <1>1, <2>3, <2>7, <3>2
    <2> QED BY <2>6, <2>7
  <1> QED BY <1>2, <1>3

\* A name's rows are deleted.
LEMMA FailuresCleared ==
  ASSUME NEW K \in SUBSET Keys, NEW rows \in Tables, NEW n
  PROVE  /\ ClearName(rows, n) \in Tables
         /\ RecentFailures(ClearName(rows, n), K) <= RecentFailures(rows, K)
  <1>1. ClearName(rows, n) \in Tables BY DEF ClearName, Tables
  <1>2. \A k \in K \X Ages : ClearName(rows, n)[k] <= rows[k]
    BY KeysFinite DEF ClearName, Tables
  <1> QED BY <1>1, <1>2, FailuresLeq

\* The rows grow older; none is made up.
LEMMA FailuresAge ==
  ASSUME NEW K \in SUBSET Keys, NEW rows \in Tables
  PROVE  /\ Older(rows) \in Tables
         /\ RecentFailures(Older(rows), K) <= RecentFailures(rows, K)
  <1>1. ASSUME NEW k \in Keys \X Ages, k[2] # 0
        PROVE  <<k[1], k[2] - 1>> \in Keys \X Ages
    BY <1>1, LockoutAssumption DEF Ages
  <1>2. Older(rows) \in Tables BY <1>1 DEF Older, Tables
  <1> DEFINE m == [k \in K \X Ages |-> <<k[1], k[2] - 1>>]
  <1>3. ASSUME NEW k \in K \X Ages, Older(rows)[k] > 0
        PROVE  /\ k[2] \in Int /\ k[2] - 1 \in Ages /\ m[k] \in K \X Ages
               /\ Older(rows)[k] <= rows[m[k]]
    <2>1. k \in Keys \X Ages BY KeysFinite
    <2>2. Older(rows)[k] = IF k[2] = 0 THEN 0 ELSE rows[<<k[1], k[2] - 1>>]
      BY <2>1 DEF Older
    <2>3. k[2] # 0 BY <1>3, <2>2
    <2>4. k[2] - 1 \in Ages /\ k[2] \in Int BY <2>3, LockoutAssumption DEF Ages
    <2>5. m[k] \in K \X Ages BY <2>4
    <2>6. rows[m[k]] \in Nat BY <1>1, <2>1, <2>3 DEF Tables
    <2> QED BY <2>2, <2>3, <2>4, <2>5, <2>6
  <1>4. \A k, l \in K \X Ages :
          Older(rows)[k] > 0 /\ Older(rows)[l] > 0 /\ m[k] = m[l] => k = l
    <2> SUFFICES ASSUME NEW k \in K \X Ages, NEW l \in K \X Ages,
                        Older(rows)[k] > 0, Older(rows)[l] > 0, m[k] = m[l]
                 PROVE  k = l
      OBVIOUS
    <2>1. k[2] \in Int /\ l[2] \in Int BY <1>3
    <2>2. k[1] = l[1] /\ k[2] - 1 = l[2] - 1 OBVIOUS
    <2> QED BY <2>1, <2>2
  <1>5. /\ IsFiniteSet(K \X Ages)
        /\ \A k \in K \X Ages : rows[k] \in Nat /\ Older(rows)[k] \in Nat
    BY <1>2, KeysFinite DEF Tables
  <1> HIDE DEF m
  <1> QED BY <1>2, <1>3, <1>4, <1>5, TallyMove DEF RecentFailures

----------------------------------------------------------------------------

LEMMA JudgingFinite ==
  ASSUME NEW K
  PROVE  /\ IsFiniteSet(Judging(K)) /\ Cardinality(Judging(K)) \in Nat
         /\ Cardinality(Judging(K)) <= Cardinality(Threads) /\ Cardinality(Threads) \in Nat
  <1>1. Judging(K) \in SUBSET Threads BY DEF Judging
  <1> HIDE DEF Judging
  <1> QED BY <1>1, RequestsAssumption, FS_Subset, FS_CardinalityType

LEMMA JudgingNext ==
  ASSUME NEW K
  PROVE  /\ IsFiniteSet(Judging(K)') /\ Cardinality(Judging(K)') \in Nat
         /\ Cardinality(Judging(K)') <= Cardinality(Threads)
  <1>1. Judging(K)' \in SUBSET Threads BY DEF Judging
  <1> DEFINE J == Judging(K)'
  <1>2. J \in SUBSET Threads BY <1>1
  <1> HIDE DEF J
  <1>3. IsFiniteSet(J) /\ Cardinality(J) \in Nat /\ Cardinality(J) <= Cardinality(Threads)
    BY <1>2, RequestsAssumption, FS_Subset, FS_CardinalityType
  <1> QED BY <1>3 DEF J

\* A request that finds a tier open is one of as many as there are threads.
LEMMA TierOpen ==
  ASSUME NEW K \in SUBSET Keys, NEW rows \in Tables, NEW max \in Nat \ {0},
         ~(RecentFailures(rows, K) >= max)
  PROVE  RecentFailures(rows, K) + Cardinality(Judging(K)') <= max - 1 + Cardinality(Threads)
  BY JudgingNext, JudgingFinite, FailuresType

\* A request that records its outcome makes room for its row.
LEMMA TierRecorded ==
  ASSUME NEW K \in SUBSET Keys, NEW rows \in Tables, NEW max \in Nat \ {0},
         WithinTier(rows, K, max), LockTypeOK, NEW r \in Threads, lockTask[r] # Idle,
         lockTask' = [lockTask EXCEPT ![r] = Idle], NEW rows2 \in Tables,
         \/ RecentFailures(rows2, K) <= RecentFailures(rows, K)
         \/ rows2 = AddRow(rows, lockTask[r])
  PROVE  RecentFailures(rows2, K) + Cardinality(Judging(K)') <= max - 1 + Cardinality(Threads)
  <1>1. lockTask[r] \in Attempts BY DEF LockTypeOK
  <1>2. Judging(K)' = Judging(K) \ {r} BY DEF Judging, LockTypeOK
  <1>3. r \in Judging(K) <=> lockTask[r].key \in K BY DEF Judging
  <1>4. /\ RecentFailures(rows, K) \in Nat /\ RecentFailures(rows2, K) \in Nat
        /\ RecentFailures(rows2, K)
             <= RecentFailures(rows, K) + (IF lockTask[r].key \in K THEN 1 ELSE 0)
    BY <1>1, FailuresType, FailuresAdded
  <1> DEFINE J == Judging(K)  J2 == Judging(K)'
  <1>5. /\ J2 = J \ {r} /\ (r \in J <=> lockTask[r].key \in K) /\ IsFiniteSet(J)
        /\ Cardinality(J) \in Nat /\ Cardinality(J2) \in Nat /\ Cardinality(Threads) \in Nat
        /\ RecentFailures(rows, K) + Cardinality(J) <= max - 1 + Cardinality(Threads)
    BY <1>2, <1>3, JudgingFinite, JudgingNext DEF WithinTier
  <1> HIDE DEF J, J2
  <1>6. RecentFailures(rows2, K) + Cardinality(J2) <= max - 1 + Cardinality(Threads)
    <2>1. CASE r \in J
      <3>1. Cardinality(J2) = Cardinality(J) - 1 BY <1>5, <2>1, OneMore
      <3> QED BY <1>4, <1>5, <2>1, <3>1
    <2>2. CASE r \notin J
      <3>1. Cardinality(J2) = Cardinality(J) BY <1>5, <2>2
      <3>2. RecentFailures(rows2, K) <= RecentFailures(rows, K) BY <1>4, <1>5, <2>2
      <3> QED BY <1>4, <1>5, <3>1, <3>2
    <2> QED BY <2>1, <2>2
  <1> QED BY <1>6 DEF J2

\* While the requests at work stay the same, no failure more is no matter.
LEMMA TierRests ==
  ASSUME NEW K \in SUBSET Keys, NEW rows \in Tables, NEW max \in Nat \ {0},
         WithinTier(rows, K, max), Judging(K)' = Judging(K), NEW rows2 \in Tables,
         RecentFailures(rows2, K) <= RecentFailures(rows, K)
  PROVE  RecentFailures(rows2, K) + Cardinality(Judging(K)') <= max - 1 + Cardinality(Threads)
  <1>1. Cardinality(Judging(K)') = Cardinality(Judging(K)) BY Zenon
  <1> QED BY <1>1, JudgingFinite, FailuresType DEF WithinTier

LEMMA TierKeys ==
  /\ \A k \in Keys : {k} \in SUBSET Keys
  /\ \A n \in Names : OfName(n) \in SUBSET Keys
  /\ \A i \in Ips : OfIp(i) \in SUBSET Keys
  /\ \A n \in TwoFactor : OfName(n) \in SUBSET Keys
  /\ \A n \in TwoFactor, i \in Ips : {<<n, i>>} \in SUBSET Keys
  /\ PairMax \in Nat \ {0} /\ UserMax \in Nat \ {0} /\ IpMax \in Nat \ {0}
  BY LockoutAssumption DEF Keys, OfName, OfIp

LEMMA LockInit_Inv == ASSUME LockInit PROVE LockInv
  <1>1. LockTypeOK /\ failed \in Tables BY DEF LockInit, LockTypeOK, Tables, NoRows, Idle
  <1>2. CodesAreFailures BY DEF LockInit, CodesAreFailures, NoRows
  <1>3. ASSUME NEW K \in SUBSET Keys, NEW max \in Nat \ {0}
        PROVE  WithinTier(failed, K, max) /\ WithinTier(codes, K, max)
    <2>1. \A k \in K \X Ages : failed[k] = 0 BY KeysFinite DEF LockInit, NoRows
    <2>2. RecentFailures(failed, K) = 0 BY <2>1, TallyZero DEF RecentFailures
    <2>3. Judging(K) = {} BY DEF Judging, LockInit
    <2>4. Cardinality(Judging(K)) = 0 BY <2>3, FS_EmptySet
    <2>5. codes = failed BY DEF LockInit
    <2> QED BY <2>2, <2>4, <2>5, JudgingFinite DEF WithinTier
  <1>4. TiersHold BY <1>3, TierKeys DEF TiersHold
  <1>5. CodeGuessesHold BY <1>3, TierKeys DEF CodeGuessesHold
  <1> QED BY <1>1, <1>2, <1>4, <1>5 DEF LockInv

\* What keeps every tier of both tables keeps the two properties.
LEMMA TiersFollow ==
  ASSUME TiersHold, CodeGuessesHold,
         ASSUME NEW K \in SUBSET Keys, NEW max \in Nat \ {0}, WithinTier(failed, K, max)
         PROVE  WithinTier(failed, K, max)',
         ASSUME NEW K \in SUBSET Keys, NEW max \in Nat \ {0}, WithinTier(codes, K, max)
         PROVE  WithinTier(codes, K, max)'
  PROVE  TiersHold' /\ CodeGuessesHold'
  <1>1. TiersHold' BY TierKeys DEF TiersHold
  <1>2. CodeGuessesHold' BY TierKeys DEF CodeGuessesHold
  <1> QED BY <1>1, <1>2

LEMMA LockStep == ASSUME LockInv, [LockNext]_lockVars PROVE LockInv'
  <1>0. LockTypeOK /\ CodesAreFailures /\ TiersHold /\ CodeGuessesHold
        /\ failed \in Tables /\ codes \in Tables
    BY DEF LockInv, LockTypeOK
  <1>1. CASE UNCHANGED lockVars
    <2>1. ASSUME NEW K PROVE Judging(K)' = Judging(K) BY <1>1 DEF lockVars, Judging
    <2>2. ASSUME NEW rows, NEW K, NEW max, WithinTier(rows, K, max)
          PROVE  RecentFailures(rows, K) + Cardinality(Judging(K)')
                   <= max - 1 + Cardinality(Threads)
      BY <2>1, <2>2 DEF WithinTier
    <2>3. failed' = failed /\ codes' = codes BY <1>1 DEF lockVars
    <2>4. TiersHold' /\ CodeGuessesHold'
      BY <1>0, <2>2, <2>3, TiersFollow DEF WithinTier
    <2>5. LockTypeOK' /\ CodesAreFailures'
      BY <1>0, <1>1 DEF lockVars, LockTypeOK, CodesAreFailures
    <2> QED BY <2>4, <2>5 DEF LockInv
  <1>2. ASSUME NEW r \in Threads, NEW op \in {"login", "finish", "reauth"}, Attempt(r, op)
        PROVE  LockInv'
    <2>1. PICK n \in Names, i \in Ips :
            /\ op = "finish" => n \in TwoFactor
            /\ ~Locked(n, i)
            /\ lockTask' = [lockTask EXCEPT ![r] = [op |-> op, key |-> <<n, i>>, age |-> 0]]
      BY <1>2 DEF Attempt
    <2>2. failed' = failed /\ codes' = codes /\ lockTask[r] = Idle BY <1>2 DEF Attempt
    <2> DEFINE t == [op |-> op, key |-> <<n, i>>, age |-> 0]
    <2>3. t \in Attempts /\ t.key = <<n, i>> /\ t.op = op
      BY DEF Attempts, Keys
    <2> HIDE DEF t
    <2>4. lockTask' = [lockTask EXCEPT ![r] = t] BY <2>1 DEF t
    <2>5. LockTypeOK'
      <3>1. t.op = "finish" => t.key[1] \in TwoFactor BY <2>1, <2>3
      <3> QED BY <1>0, <2>2, <2>3, <2>4, <3>1 DEF LockTypeOK
    <2>6. ASSUME NEW K \in SUBSET Keys, <<n, i>> \notin K
          PROVE  Judging(K)' = Judging(K)
      <3>1. t.key \notin K BY <2>3, <2>6
      <3> QED BY <1>0, <2>2, <2>4, <3>1 DEF Judging, LockTypeOK
    <2>7. ASSUME NEW K \in SUBSET Keys, NEW max \in Nat \ {0}, NEW rows \in Tables,
                 WithinTier(rows, K, max), <<n, i>> \in K => ~(RecentFailures(rows, K) >= max)
          PROVE  RecentFailures(rows, K) + Cardinality(Judging(K)') <= max - 1 + Cardinality(Threads)
      <3>1. CASE <<n, i>> \in K BY <2>7, <3>1, TierOpen
      <3>2. CASE <<n, i>> \notin K
        <4>1. RecentFailures(rows, K) \in Nat BY FailuresType
        <4> QED BY <2>6, <2>7, <3>2, <4>1, TierRests
      <3> QED BY <3>1, <3>2
    <2>8. /\ ~(RecentFailures(failed, {<<n, i>>}) >= PairMax)
          /\ ~(RecentFailures(failed, OfName(n)) >= UserMax)
          /\ ~(RecentFailures(failed, OfIp(i)) >= IpMax)
      BY <2>1 DEF Locked
    <2>9. TiersHold'
      <3>1. ASSUME NEW k \in Keys PROVE WithinTier(failed, {k}, PairMax)'
        <4>1. <<n, i>> \in {k} => ~(RecentFailures(failed, {k}) >= PairMax)
          BY <2>8
        <4>2. WithinTier(failed, {k}, PairMax) BY <1>0 DEF TiersHold
        <4> QED BY <1>0, <2>2, <2>7, <4>1, <4>2, TierKeys DEF WithinTier
      <3>2. ASSUME NEW m \in Names PROVE WithinTier(failed, OfName(m), UserMax)'
        <4>1. <<n, i>> \in OfName(m) => ~(RecentFailures(failed, OfName(m)) >= UserMax)
          <5>1. <<n, i>> \in OfName(m) => n = m BY DEF OfName
          <5> QED BY <2>8, <5>1
        <4>2. WithinTier(failed, OfName(m), UserMax) BY <1>0 DEF TiersHold
        <4> QED BY <1>0, <2>2, <2>7, <4>1, <4>2, TierKeys DEF WithinTier
      <3>3. ASSUME NEW j \in Ips PROVE WithinTier(failed, OfIp(j), IpMax)'
        <4>1. <<n, i>> \in OfIp(j) => ~(RecentFailures(failed, OfIp(j)) >= IpMax)
          <5>1. <<n, i>> \in OfIp(j) => i = j BY DEF OfIp
          <5> QED BY <2>8, <5>1
        <4>2. WithinTier(failed, OfIp(j), IpMax) BY <1>0 DEF TiersHold
        <4> QED BY <1>0, <2>2, <2>7, <4>1, <4>2, TierKeys DEF WithinTier
      <3> QED BY <3>1, <3>2, <3>3 DEF TiersHold
    <2>10. ASSUME NEW K \in SUBSET Keys, NEW m \in TwoFactor, \A k \in K : k[1] = m
           PROVE  RecentFailures(codes, K) <= RecentFailures(failed, K)
      <3>1. \A k \in K \X Ages : codes[k] <= failed[k]
        BY <1>0, <2>10, KeysFinite DEF CodesAreFailures
      <3> QED BY <1>0, <3>1, FailuresLeq
    <2>11. CodeGuessesHold'
      <3>1. ASSUME NEW m \in TwoFactor PROVE WithinTier(codes, OfName(m), UserMax)'
        <4>1. <<n, i>> \in OfName(m) => ~(RecentFailures(codes, OfName(m)) >= UserMax)
          <5>1. <<n, i>> \in OfName(m) => n = m BY DEF OfName
          <5>2. RecentFailures(codes, OfName(m)) <= RecentFailures(failed, OfName(m))
            BY <2>10, TierKeys DEF OfName
          <5>3. RecentFailures(codes, OfName(m)) \in Nat /\ RecentFailures(failed, OfName(m)) \in Nat
            BY <1>0, FailuresType, TierKeys
          <5> QED BY <2>8, <5>1, <5>2, <5>3, TierKeys
        <4>2. WithinTier(codes, OfName(m), UserMax) BY <1>0 DEF CodeGuessesHold
        <4> QED BY <1>0, <2>2, <2>7, <4>1, <4>2, TierKeys DEF WithinTier
      <3>2. ASSUME NEW m \in TwoFactor, NEW j \in Ips
            PROVE  WithinTier(codes, {<<m, j>>}, PairMax)'
        <4>0. {<<m, j>>} \in SUBSET Keys BY TierKeys
        <4>1. <<n, i>> \in {<<m, j>>} => ~(RecentFailures(codes, {<<m, j>>}) >= PairMax)
          <5>2. RecentFailures(codes, {<<m, j>>}) <= RecentFailures(failed, {<<m, j>>})
            BY <2>10, <4>0
          <5>3. RecentFailures(codes, {<<m, j>>}) \in Nat /\ RecentFailures(failed, {<<m, j>>}) \in Nat
            BY <1>0, <4>0, FailuresType
          <5> QED BY <2>8, <5>2, <5>3, TierKeys
        <4>2. WithinTier(codes, {<<m, j>>}, PairMax) BY <1>0 DEF CodeGuessesHold
        <4> QED BY <1>0, <2>2, <2>7, <4>0, <4>1, <4>2, TierKeys DEF WithinTier
      <3> QED BY <3>1, <3>2 DEF CodeGuessesHold
    <2>12. CodesAreFailures' BY <1>0, <2>2 DEF CodesAreFailures
    <2> QED BY <2>5, <2>9, <2>11, <2>12 DEF LockInv
  <1>3. ASSUME NEW r \in Threads, lockTask[r] # Idle, lockTask' = [lockTask EXCEPT ![r] = Idle],
               failed' \in Tables, codes' \in Tables, CodesAreFailures',
               \/ \A K \in SUBSET Keys : RecentFailures(failed', K) <= RecentFailures(failed, K)
               \/ failed' = AddRow(failed, lockTask[r]),
               \/ \A K \in SUBSET Keys : RecentFailures(codes', K) <= RecentFailures(codes, K)
               \/ codes' = AddRow(codes, lockTask[r])
        PROVE  LockInv'
    <2>1. LockTypeOK' BY <1>0, <1>3 DEF LockTypeOK, Idle
    <2>2. ASSUME NEW K \in SUBSET Keys, NEW max \in Nat \ {0}, WithinTier(failed, K, max)
          PROVE  WithinTier(failed, K, max)'
      BY <1>0, <1>3, <2>2, TierRecorded DEF WithinTier
    <2>3. ASSUME NEW K \in SUBSET Keys, NEW max \in Nat \ {0}, WithinTier(codes, K, max)
          PROVE  WithinTier(codes, K, max)'
      BY <1>0, <1>3, <2>3, TierRecorded DEF WithinTier
    <2> QED BY <1>0, <1>3, <2>1, <2>2, <2>3, TiersFollow DEF LockInv
  <1>4. ASSUME NEW r \in Threads, RecordFailure(r) PROVE LockInv'
    <2>1. lockTask[r] \in Attempts BY <1>0, <1>4 DEF RecordFailure, LockTypeOK
    <2>2. AddRow(failed, lockTask[r]) \in Tables /\ AddRow(codes, lockTask[r]) \in Tables
      <3>1. {} \in SUBSET Keys OBVIOUS
      <3> QED BY <1>0, <2>1, <3>1, FailuresAdded
    <2>3. CodesAreFailures'
      <3> SUFFICES ASSUME NEW k \in Keys \X Ages, k[1][1] \in TwoFactor
                   PROVE  codes'[k] <= failed'[k]
        BY DEF CodesAreFailures
      <3>1. codes[k] <= failed[k] /\ codes[k] \in Nat /\ failed[k] \in Nat
        BY <1>0 DEF CodesAreFailures, Tables
      <3> DEFINE at == <<lockTask[r].key, lockTask[r].age>>
      <3>2. AddRow(failed, lockTask[r])[k]
              = IF lockTask[r].age \in Ages /\ k = at THEN failed[k] + 1 ELSE failed[k]
        BY <1>0 DEF AddRow, Tables
      <3>3. AddRow(codes, lockTask[r])[k]
              = IF lockTask[r].age \in Ages /\ k = at THEN codes[k] + 1 ELSE codes[k]
        BY <1>0 DEF AddRow, Tables
      <3> HIDE DEF at
      <3> QED BY <1>4, <3>1, <3>2, <3>3 DEF RecordFailure
    <2>4. RecordFailure(r) BY <1>4
    <2>5. \A K \in SUBSET Keys : RecentFailures(codes, K) <= RecentFailures(codes, K)
      BY <1>0, FailuresType
    <2>6. \/ \A K \in SUBSET Keys : RecentFailures(codes', K) <= RecentFailures(codes, K)
          \/ codes' = AddRow(codes, lockTask[r])
      BY <2>4, <2>5 DEF RecordFailure
    <2>7. failed' \in Tables /\ codes' \in Tables BY <1>0, <2>2, <2>4 DEF RecordFailure
    <2> QED BY <1>3, <2>3, <2>4, <2>6, <2>7 DEF RecordFailure
  <1>5. ASSUME NEW n
        PROVE  /\ ClearName(failed, n) \in Tables /\ ClearName(codes, n) \in Tables
               /\ \A K \in SUBSET Keys :
                    /\ RecentFailures(ClearName(failed, n), K) <= RecentFailures(failed, K)
                    /\ RecentFailures(ClearName(codes, n), K) <= RecentFailures(codes, K)
               /\ \A k \in Keys \X Ages :
                    k[1][1] \in TwoFactor => ClearName(codes, n)[k] <= ClearName(failed, n)[k]
    <2>1. {} \in SUBSET Keys OBVIOUS
    <2>2. \A k \in Keys \X Ages :
            k[1][1] \in TwoFactor => ClearName(codes, n)[k] <= ClearName(failed, n)[k]
      BY <1>0 DEF ClearName, CodesAreFailures
    <2> QED BY <1>0, <2>1, <2>2, FailuresCleared
  <1>6. \A K \in SUBSET Keys : /\ RecentFailures(codes, K) <= RecentFailures(codes, K)
                               /\ RecentFailures(failed, K) <= RecentFailures(failed, K)
    BY <1>0, FailuresType
  <1>7. ASSUME NEW r \in Threads, RecordSuccess(r) PROVE LockInv'
    <2>1. PICK n, op : n = lockTask[r].key[1] /\ op = lockTask[r].op OBVIOUS
    <2>2. /\ failed' = IF Clears(op, n) THEN ClearName(failed, n) ELSE failed
          /\ codes' = IF op = "login" THEN codes ELSE ClearName(codes, n)
          /\ lockTask[r] # Idle /\ lockTask' = [lockTask EXCEPT ![r] = Idle]
      BY <1>7, <2>1 DEF RecordSuccess
    <2>3. CASE op # "login"
      <3>1. failed' = ClearName(failed, n) /\ codes' = ClearName(codes, n)
        BY <2>2, <2>3 DEF Clears
      <3>2. CodesAreFailures' BY <1>5, <3>1 DEF CodesAreFailures
      <3> QED BY <1>3, <1>5, <2>2, <3>1, <3>2
    <2>4. CASE op = "login" /\ n \in TwoFactor
      <3>1. failed' = failed /\ codes' = codes BY <2>2, <2>4 DEF Clears
      <3>2. CodesAreFailures' BY <1>0, <3>1 DEF CodesAreFailures
      <3> QED BY <1>0, <1>3, <1>6, <2>2, <3>1, <3>2
    <2>5. CASE op = "login" /\ n \notin TwoFactor
      <3>1. failed' = ClearName(failed, n) /\ codes' = codes BY <2>2, <2>5 DEF Clears
      <3>2. CodesAreFailures'
        BY <1>0, <2>5, <3>1 DEF CodesAreFailures, ClearName
      <3> QED BY <1>0, <1>3, <1>5, <1>6, <2>2, <3>1, <3>2
    <2> QED BY <2>3, <2>4, <2>5
  <1>8. ASSUME \A K \in SUBSET Keys : Judging(K)' = Judging(K), LockTypeOK', CodesAreFailures',
               \A K \in SUBSET Keys : /\ RecentFailures(failed', K) <= RecentFailures(failed, K)
                                     /\ RecentFailures(codes', K) <= RecentFailures(codes, K)
        PROVE  LockInv'
    <2>0. failed' \in Tables /\ codes' \in Tables BY <1>8 DEF LockTypeOK
    <2>1. ASSUME NEW K \in SUBSET Keys, NEW max \in Nat \ {0}, WithinTier(failed, K, max)
          PROVE  WithinTier(failed, K, max)'
      BY <1>0, <1>8, <2>0, <2>1, TierRests DEF WithinTier
    <2>2. ASSUME NEW K \in SUBSET Keys, NEW max \in Nat \ {0}, WithinTier(codes, K, max)
          PROVE  WithinTier(codes, K, max)'
      BY <1>0, <1>8, <2>0, <2>2, TierRests DEF WithinTier
    <2> QED BY <1>0, <1>8, <2>1, <2>2, TiersFollow DEF LockInv
  <1>9. CASE ClearLockout
    <2>1. PICK n \in Names : failed' = ClearName(failed, n) /\ codes' = ClearName(codes, n)
      BY <1>9 DEF ClearLockout
    <2>2. UNCHANGED lockTask BY <1>9 DEF ClearLockout
    <2>3. \A K \in SUBSET Keys : Judging(K)' = Judging(K) BY <2>2 DEF Judging
    <2>4. LockTypeOK' BY <1>0, <1>5, <2>1, <2>2 DEF LockTypeOK
    <2>5. CodesAreFailures' BY <1>5, <2>1 DEF CodesAreFailures
    <2> QED BY <1>5, <1>8, <2>1, <2>3, <2>4, <2>5
  <1>10. CASE LockTick
    <2>1. failed' = Older(failed) /\ codes' = Older(codes) BY <1>10 DEF LockTick
    <2>2. ASSUME NEW q \in Threads
          PROVE  /\ lockTask'[q] \in {Idle} \cup Attempts
                 /\ lockTask'[q] = Idle <=> lockTask[q] = Idle
                 /\ lockTask[q] # Idle => /\ lockTask'[q].key = lockTask[q].key
                                          /\ lockTask'[q].op = lockTask[q].op
      <3>1. lockTask'[q] = IF lockTask[q] = Idle \/ lockTask[q].age > Window THEN lockTask[q]
                           ELSE [lockTask[q] EXCEPT !.age = @ + 1]
        BY <1>10 DEF LockTick
      <3>2. CASE lockTask[q] = Idle \/ lockTask[q].age > Window
        BY <1>0, <3>1, <3>2 DEF LockTypeOK
      <3>3. CASE ~(lockTask[q] = Idle \/ lockTask[q].age > Window)
        <4>1. lockTask[q] \in Attempts BY <1>0, <3>3 DEF LockTypeOK
        <4> DEFINE t == [lockTask[q] EXCEPT !.age = @ + 1]
        <4>2. t \in Attempts /\ t.key = lockTask[q].key /\ t.op = lockTask[q].op
          BY <4>1 DEF Attempts
        <4>3. t # Idle BY <4>2 DEF Attempts, Idle
        <4> HIDE DEF t
        <4>4. lockTask'[q] = t BY <3>1, <3>3 DEF t
        <4> QED BY <3>3, <4>2, <4>3, <4>4
      <3> QED BY <3>2, <3>3
    <2>3. DOMAIN lockTask' = Threads /\ lockTask' \in [Threads -> {Idle} \cup Attempts]
      <3>1. lockTask' = [q \in Threads |-> lockTask'[q]] BY <1>10 DEF LockTick
      <3> QED BY <2>2, <3>1
    <2>4. ASSUME NEW K \in SUBSET Keys PROVE Judging(K)' = Judging(K) BY <2>2 DEF Judging
    <2>5. /\ Older(failed) \in Tables /\ Older(codes) \in Tables
          /\ \A K \in SUBSET Keys :
               /\ RecentFailures(Older(failed), K) <= RecentFailures(failed, K)
               /\ RecentFailures(Older(codes), K) <= RecentFailures(codes, K)
      <3>1. {} \in SUBSET Keys OBVIOUS
      <3> QED BY <1>0, <3>1, FailuresAge
    <2>6. LockTypeOK'
      BY <1>0, <2>1, <2>2, <2>3, <2>5 DEF LockTypeOK, Idle
    <2>7. CodesAreFailures'
      <3> SUFFICES ASSUME NEW k \in Keys \X Ages, k[1][1] \in TwoFactor
                   PROVE  Older(codes)[k] <= Older(failed)[k]
        BY <2>1 DEF CodesAreFailures
      <3>1. CASE k[2] = 0 BY <3>1 DEF Older
      <3>2. CASE k[2] # 0
        <4>1. k[1] \in Keys /\ k[2] - 1 \in Ages BY <3>2, LockoutAssumption DEF Ages
        <4>2. PICK l : l = <<k[1], k[2] - 1>> OBVIOUS
        <4>3. l \in Keys \X Ages /\ l[1] = k[1] BY <4>1, <4>2
        <4>4. codes[l] <= failed[l] BY <1>0, <4>3 DEF CodesAreFailures
        <4> QED BY <3>2, <4>2, <4>4 DEF Older
      <3> QED BY <3>1, <3>2
    <2> QED BY <1>8, <2>1, <2>4, <2>5, <2>6, <2>7
  <1> QED BY <1>1, <1>2, <1>4, <1>7, <1>9, <1>10 DEF LockNext

\* However the looks at the tiers and the records of the outcomes interleave,
\* and whatever time a slow request records under, no window holds more
\* failures of a pair, a name or an address than the threshold and the
\* requests in flight allow.
THEOREM LockoutHolds == LockSpec => []TiersHold
  <1>1. LockInit => LockInv BY LockInit_Inv
  <1>2. LockInv /\ [LockNext]_lockVars => LockInv' BY LockStep
  <1>3. LockInv => TiersHold BY DEF LockInv
  <1> QED BY <1>1, <1>2, <1>3, PTL DEF LockSpec

\* Knowing the password of an account with a second factor buys no guess at
\* its code: a wrong code stays a failure of the account until a full sign-in.
THEOREM GuessesAreBounded == LockSpec => []CodeGuessesHold
  <1>1. LockInit => LockInv BY LockInit_Inv
  <1>2. LockInv /\ [LockNext]_lockVars => LockInv' BY LockStep
  <1>3. LockInv => CodeGuessesHold BY DEF LockInv
  <1> QED BY <1>1, <1>2, <1>3, PTL DEF LockSpec

----------------------------------------------------------------------------
(* The limits of the password reset *)

Creations == [op : {"create"}, uid : Owners, ip : Ips]

ResetsTypeOK ==
  /\ links \in [LinkRows -> Nat]
  /\ submitted \in [Ips \X LinkAges -> Nat] /\ mailed \in [Owners \X LinkAges -> Nat]
  /\ resetTask \in [Threads -> {Idle} \cup Creations]

\* A token is looked at by the one who is counted, and at no other time.
ResetsInv == ResetsTypeOK /\ tried = submitted /\ LimitsHold

RowsFor(u) == {k \in LinkRows : k[1] = u}
RowsFrom(i) == {k \in LinkRows : k[2] = i}
RowsUpTo(u, n) == {k \in RowsFor(u) : k[3] <= n}

LEMMA LinkKeys ==
  /\ IsFiniteSet(LinkRows)
  /\ \A u : IsFiniteSet(RowsFor(u)) /\ RowsFor(u) \subseteq LinkRows
  /\ \A i \in Ips : /\ IsFiniteSet({i} \X LinkAges)
                    /\ {i} \X LinkAges \subseteq Ips \X LinkAges /\ <<i, 0>> \in {i} \X LinkAges
  /\ 0 \in LinkAges /\ \A a \in LinkAges : a \in Nat /\ (a # 0 => a - 1 \in LinkAges)
  <1>0. 0 \in LinkAges /\ \A a \in LinkAges : a \in Nat /\ (a # 0 => a - 1 \in LinkAges)
    BY ResetsAssumption DEF LinkAges
  <1>1. IsFiniteSet(LinkAges)
    <2>1. ResetWindow + 1 \in Nat /\ (ResetWindow + 1) - 1 = ResetWindow BY ResetsAssumption
    <2>2. IsFiniteSet(0..((ResetWindow + 1) - 1)) BY <2>1, IntervalSize
    <2> QED BY <2>1, <2>2 DEF LinkAges
  <1>2. IsFiniteSet(LinkRows)
    <2> DEFINE twin == [k \in (Owners \X Ips) \X (LinkAges \X BOOLEAN) |->
                         <<k[1][1], k[1][2], k[2][1], k[2][2]>>]
    <2>1. IsFiniteSet((Owners \X Ips) \X (LinkAges \X BOOLEAN))
      <3>1. IsFiniteSet(Owners \X Ips) BY ResetsAssumption, RequestsAssumption, FS_Product
      <3>2. IsFiniteSet(BOOLEAN)
        <4>1. IsFiniteSet({TRUE}) BY FS_Singleton
        <4>2. IsFiniteSet({TRUE} \cup {FALSE}) BY <4>1, FS_AddElement
        <4>3. BOOLEAN = {TRUE} \cup {FALSE} OBVIOUS
        <4> QED BY <4>2, <4>3
      <3>3. IsFiniteSet(LinkAges \X BOOLEAN) BY <1>1, <3>2, FS_Product
      <3> QED BY <3>1, <3>3, FS_Product
    <2>2. twin \in [(Owners \X Ips) \X (LinkAges \X BOOLEAN) -> LinkRows] BY DEF LinkRows
    <2>3. \A l \in LinkRows : \E k \in (Owners \X Ips) \X (LinkAges \X BOOLEAN) : twin[k] = l
      <3> SUFFICES ASSUME NEW l \in LinkRows
                   PROVE  \E k \in (Owners \X Ips) \X (LinkAges \X BOOLEAN) : twin[k] = l
        OBVIOUS
      <3> DEFINE k == <<<<l[1], l[2]>>, <<l[3], l[4]>>>>
      <3>1. /\ k \in (Owners \X Ips) \X (LinkAges \X BOOLEAN)
            /\ l = <<l[1], l[2], l[3], l[4]>>
        BY DEF LinkRows
      <3>2. twin[k] = l BY <3>1
      <3> QED BY <3>1, <3>2
    <2> HIDE DEF twin
    <2>4. twin \in Surjection((Owners \X Ips) \X (LinkAges \X BOOLEAN), LinkRows)
      BY <2>2, <2>3 DEF Surjection
    <2> QED BY <2>1, <2>4, FS_Surjection
  <1>3. ASSUME NEW u PROVE IsFiniteSet(RowsFor(u)) /\ RowsFor(u) \subseteq LinkRows
    <2>1. RowsFor(u) \in SUBSET LinkRows BY DEF RowsFor
    <2> QED BY <1>2, <2>1, FS_Subset
  <1>4. ASSUME NEW i \in Ips PROVE IsFiniteSet({i} \X LinkAges)
    <2>1. IsFiniteSet({i}) BY FS_Singleton
    <2> QED BY <1>1, <2>1, FS_Product
  <1> QED BY <1>0, <1>2, <1>3, <1>4

\* A set of rows that has all the links an account asked for at an address, or none.
Whole(S) ==
  /\ S \subseteq LinkRows
  /\ \A k, l \in LinkRows : k[1] = l[1] /\ k[2] = l[2] => (k \in S <=> l \in S)

LEMMA WholeRows == \A x : Whole(RowsFor(x)) /\ Whole(RowsFrom(x))
  BY DEF Whole, RowsFor, RowsFrom

LEMMA WholeFinite == ASSUME NEW S, Whole(S) PROVE IsFiniteSet(S)
  <1>1. S \in SUBSET LinkRows BY DEF Whole
  <1> QED BY <1>1, LinkKeys, FS_Subset

\* The links of an account or an address, in any state of the table.
LEMMA LinksType ==
  ASSUME NEW S, Whole(S), NEW rows \in [LinkRows -> Nat]
  PROVE  Tally(rows, S) \in Nat
  <1>1. \A k \in S : rows[k] \in Nat BY DEF Whole
  <1> QED BY <1>1, WholeFinite, TallyType

LEMMA LinksLeq ==
  ASSUME NEW S, Whole(S), NEW rows \in [LinkRows -> Nat], NEW rows2 \in [LinkRows -> Nat],
         \A k \in LinkRows : rows2[k] <= rows[k]
  PROVE  Tally(rows2, S) <= Tally(rows, S)
  <1>1. \A k \in S : rows[k] \in Nat /\ rows2[k] \in Nat /\ rows2[k] <= rows[k] BY DEF Whole
  <1> QED BY <1>1, WholeFinite, TallyLeq

\* A link more, and the unused ones of its account used up.
NewRow(u, ip) == <<u, ip, 0, FALSE>>

Created(rows, u, ip) ==
  [k \in LinkRows |->
    IF k[1] # u THEN rows[k]
    ELSE IF k[4] THEN rows[k] + rows[[k EXCEPT ![4] = FALSE]]
    ELSE IF k = NewRow(u, ip) THEN 1 ELSE 0]

\* A row's key with the link unused, and used.
LEMMA LinkTwin ==
  ASSUME NEW k \in LinkRows, NEW b \in BOOLEAN
  PROVE  /\ [k EXCEPT ![4] = b] \in LinkRows
         /\ [k EXCEPT ![4] = b] = <<k[1], k[2], k[3], b>>
         /\ k = <<k[1], k[2], k[3], k[4]>>
         /\ k[1] \in Owners /\ k[2] \in Ips /\ k[3] \in LinkAges /\ k[4] \in BOOLEAN
  <1>1. PICK u \in Owners, i \in Ips, a \in LinkAges, c \in BOOLEAN : k = <<u, i, a, c>>
    BY DEF LinkRows
  <1>2. [k EXCEPT ![4] = b] = <<u, i, a, b>> BY <1>1
  <1> HIDE DEF LinkRows
  <1>3. <<u, i, a, b>> \in LinkRows BY DEF LinkRows
  <1>4. k[1] = u /\ k[2] = i /\ k[3] = a /\ k[4] = c BY <1>1
  <1> QED BY <1>1, <1>2, <1>3, <1>4

\* The row of a new link.
LEMMA LinkMade ==
  ASSUME NEW u \in Owners, NEW i \in Ips, NEW k, k = NewRow(u, i)
  PROVE  k \in LinkRows /\ k[1] = u /\ k[2] = i /\ k[3] = 0 /\ ~k[4]
  <1>1. k \in LinkRows BY LinkKeys DEF LinkRows, NewRow
  <1>2. k[1] = u /\ k[2] = i /\ k[3] = 0 /\ ~k[4] BY DEF NewRow
  <1> QED BY <1>1, <1>2

\* A set of rows that has a link's used row when it has the unused one.
Twinned(S) ==
  /\ S \subseteq LinkRows /\ IsFiniteSet(S)
  /\ \A k \in LinkRows : k \in S <=> <<k[1], k[2], k[3], TRUE>> \in S

\* create_reset_token, among the rows of its account: one more, where the set has it.
LEMMA LinkAdded ==
  ASSUME NEW u \in Owners, NEW ip \in Ips, NEW rows \in [LinkRows -> Nat], NEW rows2,
         rows2 = Created(rows, u, ip), NEW new, new = NewRow(u, ip),
         NEW S, Twinned(S), S \subseteq RowsFor(u)
  PROVE  /\ rows2 \in [LinkRows -> Nat]
         /\ Tally(rows2, S) = Tally(rows, S) + (IF new \in S THEN 1 ELSE 0)
  <1> DEFINE Used == {k \in S : k[4]}
             unused == [k \in LinkRows |-> [k EXCEPT ![4] = FALSE]]
             more == [k \in LinkRows |-> rows[unused[k]]]
  <1>0. Twinned(S) /\ S \subseteq RowsFor(u) OBVIOUS
  <1>1. \A k \in LinkRows : /\ unused[k] \in LinkRows /\ ~unused[k][4]
                             /\ unused[k][1] = k[1] /\ unused[k][2] = k[2]
                             /\ unused[k][3] = k[3] /\ k = <<k[1], k[2], k[3], k[4]>>
                             /\ k[4] \in BOOLEAN
    <2> SUFFICES ASSUME NEW k \in LinkRows
                 PROVE  /\ unused[k] \in LinkRows /\ ~unused[k][4]
                        /\ unused[k][1] = k[1] /\ unused[k][2] = k[2]
                        /\ unused[k][3] = k[3] /\ k = <<k[1], k[2], k[3], k[4]>>
                        /\ k[4] \in BOOLEAN
      OBVIOUS
    <2>1. unused[k] \in LinkRows /\ unused[k] = <<k[1], k[2], k[3], FALSE>>
      BY LinkTwin
    <2> HIDE DEF unused
    <2>2. k = <<k[1], k[2], k[3], k[4]>> /\ k[4] \in BOOLEAN BY LinkTwin
    <2>3. /\ unused[k][1] = k[1] /\ unused[k][2] = k[2] /\ unused[k][3] = k[3]
          /\ unused[k][4] = FALSE
      BY <2>1
    <2> QED BY <2>1, <2>2, <2>3
  <1>2. more \in [LinkRows -> Nat] BY <1>1
  <1>3. \A k \in LinkRows : k[1] = u /\ k[4] => rows2[k] = rows[k] + more[k]
    BY DEF Created
  <1>4. \A k \in LinkRows : k[1] = u /\ ~k[4] => rows2[k] = IF k = new THEN 1 ELSE 0
    BY DEF Created
  <1>5. \A k \in LinkRows : k[1] # u => rows2[k] = rows[k] BY DEF Created
  <1>6. rows2 \in [LinkRows -> Nat]
    <2>1. rows2 = [k \in LinkRows |-> rows2[k]] BY DEF Created
    <2>2. \A k \in LinkRows : rows2[k] \in Nat
      <3> HIDE DEF more
      <3> QED BY <1>1, <1>2, <1>3, <1>4, <1>5
    <2> QED BY <2>1, <2>2
  <1>7. new \in S \ Used <=> new \in S BY DEF NewRow
  <1>8. \A k \in S : k \in LinkRows /\ k[1] = u BY <1>0 DEF RowsFor
  <1>9. /\ Used \in SUBSET S /\ IsFiniteSet(S) /\ IsFiniteSet(Used)
        /\ IsFiniteSet(S \ Used)
    <2>1. Used \in SUBSET S OBVIOUS
    <2> HIDE DEF Used
    <2>2. IsFiniteSet(S) BY <1>0 DEF Twinned
    <2> QED BY <2>1, <2>2, FS_Subset, FS_Difference
  <1>10. /\ \A k \in Used : k \in LinkRows /\ k[1] = u /\ k[4] /\ k \in S
         /\ \A k \in S \ Used : k \in LinkRows /\ k[1] = u /\ ~k[4]
    BY <1>8
  <1>11. /\ \A k \in Used : unused[k] \in S \ Used
         /\ \A k \in S \ Used : <<k[1], k[2], k[3], TRUE>> \in Used
                             /\ unused[<<k[1], k[2], k[3], TRUE>>] = k
    <2>1. ASSUME NEW k \in Used PROVE unused[k] \in S \ Used
      <3>1. k = <<unused[k][1], unused[k][2], unused[k][3], TRUE>> BY <1>1, <1>10, <2>1
      <3>2. unused[k] \in LinkRows /\ ~unused[k][4] BY <1>1, <1>10, <2>1
      <3>3. unused[k] \in S BY <1>0, <3>1, <3>2, <2>1 DEF Twinned
      <3> QED BY <3>2, <3>3
    <2>2. ASSUME NEW k \in S \ Used
          PROVE  <<k[1], k[2], k[3], TRUE>> \in Used /\ unused[<<k[1], k[2], k[3], TRUE>>] = k
      <3>1. PICK l : l = <<k[1], k[2], k[3], TRUE>> OBVIOUS
      <3>2. k \in LinkRows /\ ~k[4] /\ k = <<k[1], k[2], k[3], k[4]>> /\ k[4] \in BOOLEAN
        BY <1>1, <1>10, <2>2
      <3>3. l \in S /\ l[4] /\ l \in LinkRows BY <1>0, <3>1, <3>2, <2>2 DEF Twinned
      <3>4. /\ unused[l][1] = k[1] /\ unused[l][2] = k[2] /\ unused[l][3] = k[3]
            /\ ~unused[l][4] /\ unused[l] \in LinkRows
        <4>1. l[1] = k[1] /\ l[2] = k[2] /\ l[3] = k[3] BY <3>1
        <4> QED BY <1>1, <3>3, <4>1
      <3>5. unused[l] = <<k[1], k[2], k[3], FALSE>> BY <1>1, <3>4
      <3> QED BY <3>1, <3>2, <3>3, <3>5
    <2> QED BY <2>1, <2>2
  <1>12. \A k, l \in LinkRows : k[4] /\ l[4] /\ unused[k] = unused[l] => k = l
    <2> SUFFICES ASSUME NEW k \in LinkRows, NEW l \in LinkRows, k[4], l[4], unused[k] = unused[l]
                 PROVE  k = l
      OBVIOUS
    <2> HIDE DEF unused
    <2>1. k[1] = l[1] /\ k[2] = l[2] /\ k[3] = l[3] BY <1>1
    <2>2. k[4] = l[4] BY <1>1
    <2> QED BY <1>1, <2>1, <2>2
  <1>13. \A k \in LinkRows : more[k] = rows[unused[k]] OBVIOUS
  <1> HIDE DEF Used, unused, more
  <1>14. Tally(rows2, Used) = Tally(rows, Used) + Tally(more, Used)
    <2>1. \A k \in Used : /\ rows[k] \in Nat /\ more[k] \in Nat /\ rows2[k] \in Nat
                          /\ rows2[k] = rows[k] + more[k]
      BY <1>2, <1>3, <1>6, <1>10
    <2>2. Tally(rows2, Used) <= Tally(rows, Used) + Tally(more, Used) BY <1>9, <2>1, TallySum
    <2>3. Tally(rows, Used) + Tally(more, Used) <= Tally(rows2, Used) BY <1>9, <2>1, TallyJoin
    <2>4. Tally(rows2, Used) \in Nat /\ Tally(rows, Used) \in Nat /\ Tally(more, Used) \in Nat
      BY <1>9, <2>1, TallyType
    <2> QED BY <2>2, <2>3, <2>4
  <1>15. Tally(more, Used) = Tally(rows, S \ Used)
    <2>1. \A k \in Used : /\ more[k] \in Nat
                          /\ unused[k] \in S \ Used /\ more[k] <= rows[unused[k]]
      BY <1>2, <1>10, <1>11, <1>13
    <2>2. \A k, l \in Used : unused[k] = unused[l] => k = l BY <1>10, <1>12
    <2>3. \A k \in S \ Used : rows[k] \in Nat BY <1>10
    <2>4. Tally(more, Used) <= Tally(rows, S \ Used) BY <1>9, <2>1, <2>2, <2>3, TallyMove
    <2> DEFINE used == [k \in S \ Used |-> <<k[1], k[2], k[3], TRUE>>]
    <2>5. \A k \in S \ Used : used[k] \in Used /\ unused[used[k]] = k BY <1>11
    <2> HIDE DEF used
    <2>6. \A k \in S \ Used : used[k] \in Used /\ rows[k] <= more[used[k]]
      BY <1>10, <1>13, <2>3, <2>5
    <2>7. \A k, l \in S \ Used : used[k] = used[l] => k = l BY <2>5
    <2>8. Tally(rows, S \ Used) <= Tally(more, Used)
      BY <1>9, <2>1, <2>3, <2>6, <2>7, TallyMove
    <2>9. Tally(more, Used) \in Nat /\ Tally(rows, S \ Used) \in Nat
      BY <1>9, <2>1, <2>3, TallyType
    <2> QED BY <2>4, <2>8, <2>9
  <1>16. Tally(rows2, S \ Used) = IF new \in S THEN 1 ELSE 0
    <2> DEFINE R == S \ Used
    <2>1. \A k \in R : rows2[k] = IF k = new THEN 1 ELSE 0 BY <1>4, <1>10
    <2>2. (new \in R <=> new \in S) /\ IsFiniteSet(R) BY <1>7, <1>9
    <2> HIDE DEF R
    <2>3. Tally(rows2, R \ {new}) = 0 BY <2>1, TallyZero
    <2>4. \A k \in R : rows2[k] \in Nat BY <2>1
    <2>5. CASE new \in R
      <3>1. Tally(rows2, R) = Tally(rows2, R \ {new}) + rows2[new] BY <2>2, <2>4, <2>5, TallyApart
      <3> QED BY <2>1, <2>2, <2>3, <2>5, <3>1 DEF R
    <2>6. CASE new \notin R
      <3>1. \A k \in R : rows2[k] = 0 BY <2>1, <2>6
      <3>2. Tally(rows2, R) = 0 BY <3>1, TallyZero
      <3> QED BY <2>2, <2>6, <3>2 DEF R
    <2> QED BY <2>5, <2>6
  <1>17. /\ Tally(rows2, S) = Tally(rows2, Used) + Tally(rows2, S \ Used)
         /\ Tally(rows, S) = Tally(rows, Used) + Tally(rows, S \ Used)
    <2>1. \A k \in S : rows[k] \in Nat /\ rows2[k] \in Nat BY <1>6, <1>8
    <2> QED BY <1>9, <2>1, TallySplit
  <1>18. /\ Tally(rows2, Used) \in Nat /\ Tally(rows, Used) \in Nat /\ Tally(more, Used) \in Nat
         /\ Tally(rows, S \ Used) \in Nat
    <2>1. /\ \A k \in Used : rows[k] \in Nat /\ rows2[k] \in Nat /\ more[k] \in Nat
          /\ \A k \in S \ Used : rows[k] \in Nat
      BY <1>2, <1>6, <1>10
    <2> QED BY <1>9, <2>1, TallyType
  <1>19. Tally(rows2, S) = Tally(rows, S) + (IF new \in S THEN 1 ELSE 0)
    BY <1>14, <1>15, <1>16, <1>17, <1>18
  <1> QED BY <1>6, <1>19

\* And among any rows.
LEMMA LinkCreated ==
  ASSUME NEW u \in Owners, NEW ip \in Ips, NEW rows \in [LinkRows -> Nat], NEW rows2,
         rows2 = Created(rows, u, ip), NEW new, new = NewRow(u, ip),
         NEW S, Twinned(S)
  PROVE  /\ rows2 \in [LinkRows -> Nat]
         /\ Tally(rows2, S) = Tally(rows, S) + (IF new \in S THEN 1 ELSE 0)
  <1> DEFINE A == S \cap RowsFor(u)
  <1>1. Twinned(A)
    <2>1. ASSUME NEW j \in LinkRows
          PROVE  j \in RowsFor(u) <=> <<j[1], j[2], j[3], TRUE>> \in RowsFor(u)
      <3>1. PICK l : l = <<j[1], j[2], j[3], TRUE>> OBVIOUS
      <3>2. l \in LinkRows /\ l[1] = j[1] BY <3>1, LinkTwin
      <3> QED BY <3>1, <3>2 DEF RowsFor
    <2>2. A \in SUBSET S OBVIOUS
    <2>3. IsFiniteSet(A) BY <2>2, FS_Subset DEF Twinned
    <2> QED BY <2>1, <2>3 DEF Twinned
  <1>2. new \in S <=> new \in A
    <2>1. new \in S => new \in LinkRows BY DEF Twinned
    <2>2. new[1] = u BY DEF NewRow
    <2> QED BY <2>1, <2>2 DEF RowsFor
  <1>3. \A k \in S \ A : rows2[k] = rows[k]
    BY DEF Created, RowsFor, Twinned
  <1>4. A \subseteq S /\ A \subseteq RowsFor(u) /\ IsFiniteSet(S) /\ S \subseteq LinkRows
    BY DEF Twinned
  <1> HIDE DEF A
  <1>5. /\ rows2 \in [LinkRows -> Nat]
        /\ Tally(rows2, A) = Tally(rows, A) + (IF new \in A THEN 1 ELSE 0)
    BY <1>1, <1>4, LinkAdded
  <1>6. Tally(rows2, S \ A) = Tally(rows, S \ A) BY <1>3, TallySame
  <1>7. /\ Tally(rows2, S) = Tally(rows2, A) + Tally(rows2, S \ A)
        /\ Tally(rows, S) = Tally(rows, A) + Tally(rows, S \ A)
    <2>1. \A k \in S : rows[k] \in Nat /\ rows2[k] \in Nat BY <1>4, <1>5
    <2> QED BY <1>4, <2>1, TallySplit
  <1>8. Tally(rows, A) \in Nat /\ Tally(rows, S \ A) \in Nat
    <2>1. IsFiniteSet(A) /\ IsFiniteSet(S \ A) BY <1>1, <1>4, FS_Difference DEF Twinned
    <2>2. \A k \in S : rows[k] \in Nat BY <1>4
    <2> QED BY <1>4, <2>1, <2>2, TallyType
  <1>9. Tally(rows2, S) = Tally(rows, S) + (IF new \in S THEN 1 ELSE 0)
    BY <1>2, <1>5, <1>6, <1>7, <1>8
  <1> QED BY <1>5, <1>9

\* All the links of an account or an address, and those an account was mailed in
\* the last n ticks.
LEMMA RowsTwinned ==
  /\ \A S : Whole(S) => Twinned(S)
  /\ \A u, n : Twinned(RowsUpTo(u, n))
  <1>1. ASSUME NEW j \in LinkRows
        PROVE  /\ <<j[1], j[2], j[3], TRUE>> \in LinkRows
               /\ <<j[1], j[2], j[3], TRUE>>[1] = j[1] /\ <<j[1], j[2], j[3], TRUE>>[2] = j[2]
               /\ <<j[1], j[2], j[3], TRUE>>[3] = j[3]
    BY LinkTwin
  <1>2. ASSUME NEW S, Whole(S) PROVE Twinned(S)
    <2>1. ASSUME NEW j \in LinkRows PROVE j \in S <=> <<j[1], j[2], j[3], TRUE>> \in S
      <3>1. PICK l : l = <<j[1], j[2], j[3], TRUE>> OBVIOUS
      <3>2. l \in LinkRows /\ l[1] = j[1] /\ l[2] = j[2] BY <1>1, <3>1
      <3>3. j \in S <=> l \in S BY <1>2, <3>2 DEF Whole
      <3> QED BY <3>1, <3>3
    <2> QED BY <1>2, <2>1, WholeFinite DEF Twinned, Whole
  <1>3. ASSUME NEW u, NEW n PROVE Twinned(RowsUpTo(u, n))
    <2>1. ASSUME NEW j \in LinkRows
          PROVE  j \in RowsUpTo(u, n) <=> <<j[1], j[2], j[3], TRUE>> \in RowsUpTo(u, n)
      <3>1. PICK l : l = <<j[1], j[2], j[3], TRUE>> OBVIOUS
      <3>2. l \in LinkRows /\ l[1] = j[1] /\ l[3] = j[3] BY <1>1, <3>1
      <3> QED BY <3>1, <3>2 DEF RowsFor, RowsUpTo
    <2>2. RowsUpTo(u, n) \in SUBSET LinkRows BY DEF RowsUpTo, RowsFor
    <2>3. IsFiniteSet(RowsUpTo(u, n)) BY <2>2, LinkKeys, FS_Subset
    <2> QED BY <2>1, <2>2, <2>3 DEF Twinned
  <1> QED BY <1>2, <1>3

\* A link that is used moves a row.
UsedUp(rows, k) == [[rows EXCEPT ![k] = @ - 1] EXCEPT ![[k EXCEPT ![4] = TRUE]] = @ + 1]

LEMMA LinkMoved ==
  ASSUME NEW rows \in [LinkRows -> Nat], NEW k \in LinkRows, rows[k] > 0, ~k[4],
         NEW rows2, rows2 = UsedUp(rows, k),
         NEW S, Twinned(S)
  PROVE  /\ rows2 \in [LinkRows -> Nat]
         /\ Tally(rows2, S) = Tally(rows, S)
  <1>1. PICK l : l = [k EXCEPT ![4] = TRUE] OBVIOUS
  <1>2. /\ l \in LinkRows /\ l = <<k[1], k[2], k[3], TRUE>> BY <1>1, LinkTwin
  <1>3. l # k /\ l[1] = k[1]
    <2>1. l[4] = TRUE /\ l[1] = k[1] BY <1>2
    <2> QED BY <2>1
  <1> DEFINE mid == [rows EXCEPT ![k] = @ - 1]
  <1>4. mid \in [LinkRows -> Nat] /\ mid[k] = rows[k] - 1
        /\ \A j \in LinkRows : j # k => mid[j] = rows[j]
    OBVIOUS
  <1>5. rows2 = [mid EXCEPT ![l] = @ + 1] BY <1>1 DEF UsedUp, mid
  <1> HIDE DEF mid
  <1>6. rows2 \in [LinkRows -> Nat] /\ rows2[l] = mid[l] + 1
        /\ \A j \in LinkRows : j # l => rows2[j] = mid[j]
    <2>1. l \in LinkRows /\ mid \in [LinkRows -> Nat] BY <1>2, <1>4
    <2>2. mid[l] + 1 \in Nat BY <2>1
    <2> QED BY <1>5, <2>1, <2>2
  <1>7. \A j \in S : /\ j \in LinkRows /\ rows[j] \in Nat
                              /\ mid[j] \in Nat /\ rows2[j] \in Nat
    BY <1>4, <1>6 DEF Twinned
  <1>8. k \in S <=> l \in S BY <1>2 DEF Twinned
  <1>9. IsFiniteSet(S) BY DEF Twinned
  <1>10. CASE k \in S
    <2>1. Tally(mid, S) = Tally(rows, S) - rows[k] + mid[k]
      <3>1. \A j \in S \ {k} : mid[j] = rows[j] BY <1>4, <1>7
      <3> QED BY <1>7, <1>9, <1>10, <3>1, TallyChange
    <2>2. Tally(rows2, S) = Tally(mid, S) - mid[l] + rows2[l]
      <3>1. \A j \in S \ {l} : rows2[j] = mid[j] BY <1>6, <1>7
      <3> QED BY <1>7, <1>8, <1>9, <1>10, <3>1, TallyChange
    <2>3. Tally(rows, S) \in Nat BY <1>7, <1>9, TallyType
    <2>4. mid[l] \in Nat /\ rows[k] \in Nat BY <1>2, <1>4
    <2>5. Tally(rows2, S) = Tally(rows, S)
      BY <1>4, <1>6, <2>1, <2>2, <2>3, <2>4
    <2> QED BY <1>6, <2>5
  <1>11. CASE k \notin S
    <2>1. \A j \in S : rows2[j] = rows[j] BY <1>4, <1>6, <1>7, <1>8, <1>11
    <2> QED BY <1>6, <2>1, TallySame
  <1> QED BY <1>10, <1>11

\* Links grow older; none is made up.
Aged(rows) == [k \in LinkRows |-> IF k[3] = 0 THEN 0 ELSE rows[[k EXCEPT ![3] = @ - 1]]]

LEMMA LinksAge ==
  ASSUME NEW rows \in [LinkRows -> Nat], NEW rows2, rows2 = Aged(rows), NEW S, Whole(S)
  PROVE  /\ rows2 \in [LinkRows -> Nat]
         /\ Tally(rows2, S) <= Tally(rows, S)
  <1> DEFINE m == [k \in LinkRows |-> [k EXCEPT ![3] = @ - 1]]
  <1>1. ASSUME NEW k \in LinkRows
        PROVE  /\ k = <<k[1], k[2], k[3], k[4]>> /\ k[3] \in Nat
               /\ m[k] = <<k[1], k[2], k[3] - 1, k[4]>>
               /\ k[3] # 0 => m[k] \in LinkRows
    <2>1. PICK w \in Owners, i \in Ips, a \in LinkAges, b \in BOOLEAN : k = <<w, i, a, b>>
      BY DEF LinkRows
    <2>2. m[k] = <<w, i, a - 1, b>> BY <2>1
    <2>3. a \in Nat /\ (a # 0 => a - 1 \in LinkAges) BY LinkKeys
    <2> HIDE DEF m, LinkRows
    <2>4. k[1] = w /\ k[2] = i /\ k[3] = a /\ k[4] = b BY <2>1
    <2>5. a # 0 => <<w, i, a - 1, b>> \in LinkRows BY <2>3 DEF LinkRows
    <2> QED BY <2>1, <2>2, <2>3, <2>4, <2>5
  <1>2. \A k \in LinkRows : rows2[k] = IF k[3] = 0 THEN 0 ELSE rows[m[k]]
    BY DEF Aged
  <1>3. DOMAIN rows2 = LinkRows /\ rows2 = [k \in LinkRows |-> rows2[k]] BY DEF Aged
  <1>4. \A k \in LinkRows : rows2[k] \in Nat
    <2> HIDE DEF m
    <2> QED BY <1>1, <1>2
  <1>5. rows2 \in [LinkRows -> Nat] BY <1>3, <1>4
  <1> HIDE DEF m
  <1>6. ASSUME NEW k \in S, rows2[k] > 0
        PROVE  k \in LinkRows /\ m[k] \in S /\ rows2[k] <= rows[m[k]]
    <2>1. k \in LinkRows BY DEF Whole
    <2>2. k[3] # 0 /\ rows2[k] = rows[m[k]] BY <1>2, <1>6, <2>1
    <2>3. m[k] \in LinkRows /\ m[k][1] = k[1] /\ m[k][2] = k[2] BY <1>1, <2>1, <2>2
    <2>4. m[k] \in S BY <2>1, <2>3 DEF Whole
    <2>5. rows[m[k]] \in Nat BY <2>3
    <2> QED BY <2>1, <2>2, <2>4, <2>5
  <1>7. ASSUME NEW k \in S, NEW l \in S, rows2[k] > 0, rows2[l] > 0, m[k] = m[l]
        PROVE  k = l
    <2>1. k \in LinkRows /\ l \in LinkRows BY <1>6, <1>7
    <2>2. /\ m[k] = <<k[1], k[2], k[3] - 1, k[4]>> /\ k[3] \in Nat
          /\ m[l] = <<l[1], l[2], l[3] - 1, l[4]>> /\ l[3] \in Nat
      BY <1>1, <2>1
    <2>3. k[1] = l[1] /\ k[2] = l[2] /\ k[3] - 1 = l[3] - 1 /\ k[4] = l[4]
      <3>1. /\ m[k][1] = k[1] /\ m[k][2] = k[2] /\ m[k][3] = k[3] - 1 /\ m[k][4] = k[4]
        BY <2>2
      <3>2. /\ m[l][1] = l[1] /\ m[l][2] = l[2] /\ m[l][3] = l[3] - 1 /\ m[l][4] = l[4]
        BY <2>2
      <3> QED BY <1>7, <3>1, <3>2
    <2>4. k[3] = l[3] BY <2>2, <2>3
    <2> QED BY <1>1, <2>1, <2>3, <2>4
  <1>8. \A k \in S : rows[k] \in Nat /\ rows2[k] \in Nat BY <1>5 DEF Whole
  <1>9. Tally(rows2, S) <= Tally(rows, S)
    BY <1>6, <1>7, <1>8, WholeFinite, TallyMove
  <1> QED BY <1>5, <1>9

\* The attempts of an address grow older, or one is added.
LEMMA AttemptsAge ==
  ASSUME NEW i \in Ips, NEW rows \in [Ips \X LinkAges -> Nat], NEW rows2,
         rows2 = [k \in Ips \X LinkAges |-> IF k[2] = 0 THEN 0 ELSE rows[<<k[1], k[2] - 1>>]]
  PROVE  /\ rows2 \in [Ips \X LinkAges -> Nat]
         /\ Tally(rows2, {i} \X LinkAges) <= Tally(rows, {i} \X LinkAges)
  <1> DEFINE m == [k \in Ips \X LinkAges |-> <<k[1], k[2] - 1>>]
             S == {i} \X LinkAges
  <1>1. \A k \in Ips \X LinkAges : k[2] \in Nat /\ (k[2] # 0 => <<k[1], k[2] - 1>> \in Ips \X LinkAges)
    BY LinkKeys
  <1>2. rows2 \in [Ips \X LinkAges -> Nat] BY <1>1
  <1>3. ASSUME NEW k \in S, rows2[k] > 0
        PROVE  m[k] \in S /\ rows2[k] <= rows[m[k]]
    <2>1. k \in Ips \X LinkAges OBVIOUS
    <2>2. rows2[k] = IF k[2] = 0 THEN 0 ELSE rows[m[k]] BY <2>1
    <2>3. k[2] # 0 BY <1>3, <2>2
    <2>4. m[k] \in S /\ m[k] \in Ips \X LinkAges BY <1>1, <2>1, <2>3, LinkKeys
    <2>5. rows[m[k]] \in Nat BY <2>4
    <2> QED BY <2>2, <2>3, <2>4, <2>5
  <1>4. ASSUME NEW k \in S, NEW l \in S, m[k] = m[l] PROVE k = l
    <2>1. k[1] = l[1] /\ k[2] - 1 = l[2] - 1 BY <1>4
    <2>2. k[2] \in Nat /\ l[2] \in Nat BY LinkKeys
    <2> QED BY <2>1, <2>2
  <1>5. \A k \in S : rows[k] \in Nat /\ rows2[k] \in Nat BY <1>2, LinkKeys
  <1>6. IsFiniteSet(S) BY LinkKeys
  <1> HIDE DEF m, S
  <1>7. Tally(rows2, S) <= Tally(rows, S) BY <1>3, <1>4, <1>5, <1>6, TallyMove
  <1> QED BY <1>2, <1>7 DEF S

OneAttempt(rows, w) == [rows EXCEPT ![<<w, 0>>] = @ + 1]

AttemptTables == [Ips \X LinkAges -> Nat]
AttemptsOf(rows, i) == Tally(rows, {i} \X LinkAges)

LEMMA AttemptAdded ==
  ASSUME NEW i \in Ips, NEW w \in Ips, NEW rows \in AttemptTables, NEW rows2,
         rows2 = OneAttempt(rows, w)
  PROVE  /\ rows2 \in AttemptTables
         /\ i = w => AttemptsOf(rows2, i) = AttemptsOf(rows, i) + 1
         /\ i # w => AttemptsOf(rows2, i) = AttemptsOf(rows, i)
         /\ AttemptsOf(rows, i) \in Nat
  <1> USE DEF AttemptTables, AttemptsOf
  <1> DEFINE S == {i} \X LinkAges
  <1>1. <<w, 0>> \in Ips \X LinkAges BY LinkKeys
  <1>2. /\ rows2 \in [Ips \X LinkAges -> Nat] /\ rows2[<<w, 0>>] = rows[<<w, 0>>] + 1
        /\ rows[<<w, 0>>] \in Nat
        /\ \A k \in Ips \X LinkAges : k # <<w, 0>> => rows2[k] = rows[k]
    BY <1>1 DEF OneAttempt
  <1>3. S \subseteq Ips \X LinkAges /\ IsFiniteSet(S) /\ (<<w, 0>> \in S <=> i = w)
    BY LinkKeys
  <1> HIDE DEF S
  <1>4. \A k \in S : rows[k] \in Nat /\ rows2[k] \in Nat BY <1>2, <1>3
  <1>5. Tally(rows, S) \in Nat BY <1>3, <1>4, TallyType
  <1>6. CASE i = w
    <2>1. \A k \in S \ {<<w, 0>>} : rows2[k] = rows[k] BY <1>2, <1>3
    <2>2. <<w, 0>> \in S BY <1>3, <1>6
    <2>3. Tally(rows2, S) = Tally(rows, S) - rows[<<w, 0>>] + rows2[<<w, 0>>]
      BY <1>3, <1>4, <2>1, <2>2, TallyChange
    <2>4. Tally(rows2, S) = Tally(rows, S) + 1 BY <1>2, <1>5, <2>3
    <2> QED BY <1>2, <1>5, <1>6, <2>4 DEF S
  <1>7. CASE i # w
    <2>1. \A k \in S : rows2[k] = rows[k] BY <1>2, <1>3, <1>7
    <2>2. Tally(rows2, S) = Tally(rows, S) BY <2>1, TallySame
    <2> QED BY <1>2, <1>5, <1>7, <2>2 DEF S
  <1> QED BY <1>6, <1>7

\* What LimitsHold says of the links of one account or address, and of the threads
\* that have counted them and not inserted theirs.
Within(n, C, limit) == n + Cardinality(C) <= limit - 1 + Cardinality(Threads)

\* Fewer links, fewer threads; a thread that inserts its link; a count below the limit.
LEMMA StillWithin ==
  ASSUME NEW n \in Nat, NEW n2 \in Nat, NEW C \in SUBSET Threads, NEW C2 \in SUBSET Threads,
         NEW limit \in Nat \ {0}, Within(n, C, limit),
         \/ n2 <= n /\ C2 \subseteq C
         \/ n2 <= n + 1 /\ \E r \in C : C2 = C \ {r}
         \/ n2 <= limit - 1
  PROVE  Within(n2, C2, limit)
  <1>1. /\ IsFiniteSet(C) /\ Cardinality(C) \in Nat
        /\ IsFiniteSet(C2) /\ Cardinality(C2) \in Nat
        /\ Cardinality(C2) <= Cardinality(Threads) /\ Cardinality(Threads) \in Nat
    BY RequestsAssumption, FS_Subset, FS_CardinalityType
  <1>2. CASE n2 <= n /\ C2 \subseteq C
    <2>1. Cardinality(C2) <= Cardinality(C) BY <1>1, <1>2, FS_Subset
    <2> QED BY <1>1, <1>2, <2>1 DEF Within
  <1>3. CASE n2 <= n + 1 /\ \E r \in C : C2 = C \ {r}
    <2>1. Cardinality(C2) = Cardinality(C) - 1 BY <1>1, <1>3, OneMore
    <2> QED BY <1>1, <1>3, <2>1 DEF Within
  <1>4. CASE n2 <= limit - 1 BY <1>1, <1>4 DEF Within
  <1> QED BY <1>2, <1>3, <1>4

LEMMA CreatingFinite ==
  \A x : /\ CreatingFor(x) \in SUBSET Threads /\ Cardinality(CreatingFor(x)) \in Nat
         /\ CreatingFrom(x) \in SUBSET Threads /\ Cardinality(Threads) \in Nat
  <1> SUFFICES ASSUME NEW x
               PROVE  /\ CreatingFor(x) \in SUBSET Threads
                      /\ Cardinality(CreatingFor(x)) \in Nat
                      /\ CreatingFrom(x) \in SUBSET Threads /\ Cardinality(Threads) \in Nat
    OBVIOUS
  <1>1. CreatingFor(x) \in SUBSET Threads /\ CreatingFrom(x) \in SUBSET Threads
    BY DEF CreatingFor, CreatingFrom
  <1> HIDE DEF CreatingFor, CreatingFrom
  <1> QED BY <1>1, RequestsAssumption, FS_Subset, FS_CardinalityType

LinksWithin ==
  /\ \A u \in Owners : Within(Tally(links, RowsFor(u)), CreatingFor(u), LinksPerUser)
  /\ \A i \in Ips : Within(Tally(links, RowsFrom(i)), CreatingFrom(i), LinksPerIp)

LEMMA LimitParts ==
  LimitsHold <=> LinksWithin /\ \A i \in Ips : Tally(tried, {i} \X LinkAges) <= SubmitMax
  BY DEF LimitsHold, LinksWithin, Within, LinksOf, LinksFrom, RowsFor, RowsFrom

\* Links are used, swept or grow older, and no thread moves.
LEMMA LinksFall ==
  ASSUME links \in [LinkRows -> Nat], LinksWithin, NEW rows2 \in [LinkRows -> Nat],
         \A S : Whole(S) => Tally(rows2, S) <= Tally(links, S),
         links' = rows2, resetTask' = resetTask
  PROVE  LinksWithin'
  <1>1. \A x : CreatingFor(x)' = CreatingFor(x) /\ CreatingFrom(x)' = CreatingFrom(x)
    BY DEF CreatingFor, CreatingFrom
  <1>2. ASSUME NEW S, Whole(S), NEW C \in SUBSET Threads, NEW limit \in Nat \ {0},
               Within(Tally(links, S), C, limit)
        PROVE  Within(Tally(rows2, S), C, limit)
    <2>1. Tally(links, S) \in Nat /\ Tally(rows2, S) \in Nat BY <1>2, LinksType
    <2>2. Tally(rows2, S) <= Tally(links, S) BY <1>2
    <2> QED BY <1>2, <2>1, <2>2, StillWithin
  <1>3. \A u \in Owners : Within(Tally(rows2, RowsFor(u)), CreatingFor(u), LinksPerUser)
    BY <1>2, WholeRows, CreatingFinite, ResetsAssumption DEF LinksWithin
  <1>4. \A i \in Ips : Within(Tally(rows2, RowsFrom(i)), CreatingFrom(i), LinksPerIp)
    BY <1>2, WholeRows, CreatingFinite, ResetsAssumption DEF LinksWithin
  <1>5. /\ \A u \in Owners : Within(Tally(rows2, RowsFor(u)), CreatingFor(u)', LinksPerUser)
        /\ \A i \in Ips : Within(Tally(rows2, RowsFrom(i)), CreatingFrom(i)', LinksPerIp)
    BY <1>1, <1>3, <1>4
  <1>6. \A x : RowsFor(x)' = RowsFor(x) /\ RowsFrom(x)' = RowsFrom(x) BY DEF RowsFor, RowsFrom
  <1> QED BY <1>5, <1>6 DEF LinksWithin, Within

\* A thread has counted: what it counted was below both limits.
LEMMA LinksCounted ==
  ASSUME ResetsTypeOK, LinksWithin, NEW r \in Threads, CountLinks(r)
  PROVE  LinksWithin' /\ ResetsTypeOK'
  <1>1. PICK u \in Owners, i \in Ips :
          /\ LinksOf(u) < LinksPerUser /\ LinksFrom(i) < LinksPerIp
          /\ resetTask' = [resetTask EXCEPT ![r] = [op |-> "create", uid |-> u, ip |-> i]]
    BY DEF CountLinks
  <1>2. UNCHANGED <<links, submitted, mailed, tried>> BY DEF CountLinks
  <1> DEFINE t == [op |-> "create", uid |-> u, ip |-> i]
  <1>3. t \in Creations /\ t.uid = u /\ t.ip = i BY DEF Creations
  <1>4. resetTask' = [resetTask EXCEPT ![r] = t] BY <1>1
  <1> HIDE DEF t
  <1>5. ResetsTypeOK' BY <1>2, <1>3, <1>4 DEF ResetsTypeOK
  <1>6. links \in [LinkRows -> Nat] /\ LinksPerUser \in Nat \ {0} /\ LinksPerIp \in Nat \ {0}
    BY ResetsAssumption DEF ResetsTypeOK
  <1>7. ASSUME NEW w \in Owners
        PROVE  Within(Tally(links, RowsFor(w)), CreatingFor(w)', LinksPerUser)
    <2>1. CreatingFor(w)' \in SUBSET Threads BY DEF CreatingFor
    <2>2. w # u => CreatingFor(w)' \subseteq CreatingFor(w)
      BY <1>3, <1>4 DEF CreatingFor, ResetsTypeOK
    <2>3. Tally(links, RowsFor(w)) \in Nat BY <1>6, WholeRows, LinksType
    <2>4. w = u => Tally(links, RowsFor(w)) < LinksPerUser BY <1>1 DEF LinksOf, RowsFor
    <2>5. w = u => Tally(links, RowsFor(w)) <= LinksPerUser - 1 BY <1>6, <2>3, <2>4
    <2>6. Within(Tally(links, RowsFor(w)), CreatingFor(w), LinksPerUser) BY DEF LinksWithin
    <2> DEFINE C2 == CreatingFor(w)'
    <2> HIDE DEF C2
    <2>7. C2 \in SUBSET Threads /\ (w # u => C2 \subseteq CreatingFor(w)) BY <2>1, <2>2 DEF C2
    <2>8. Tally(links, RowsFor(w)) <= Tally(links, RowsFor(w)) BY <2>3
    <2>9. Within(Tally(links, RowsFor(w)), C2, LinksPerUser)
      BY <1>6, <2>3, <2>5, <2>6, <2>7, <2>8, CreatingFinite, StillWithin
    <2> QED BY <2>9 DEF C2
  <1>8. ASSUME NEW j \in Ips
        PROVE  Within(Tally(links, RowsFrom(j)), CreatingFrom(j)', LinksPerIp)
    <2>1. CreatingFrom(j)' \in SUBSET Threads BY DEF CreatingFrom
    <2>2. j # i => CreatingFrom(j)' \subseteq CreatingFrom(j)
      BY <1>3, <1>4 DEF CreatingFrom, ResetsTypeOK
    <2>3. Tally(links, RowsFrom(j)) \in Nat BY <1>6, WholeRows, LinksType
    <2>4. j = i => Tally(links, RowsFrom(j)) < LinksPerIp BY <1>1 DEF LinksFrom, RowsFrom
    <2>5. j = i => Tally(links, RowsFrom(j)) <= LinksPerIp - 1 BY <1>6, <2>3, <2>4
    <2>6. Within(Tally(links, RowsFrom(j)), CreatingFrom(j), LinksPerIp) BY DEF LinksWithin
    <2> DEFINE C2 == CreatingFrom(j)'
    <2> HIDE DEF C2
    <2>7. C2 \in SUBSET Threads /\ (j # i => C2 \subseteq CreatingFrom(j)) BY <2>1, <2>2 DEF C2
    <2>8. Tally(links, RowsFrom(j)) <= Tally(links, RowsFrom(j)) BY <2>3
    <2>9. Within(Tally(links, RowsFrom(j)), C2, LinksPerIp)
      BY <1>6, <2>3, <2>5, <2>6, <2>7, <2>8, CreatingFinite, StillWithin
    <2> QED BY <2>9 DEF C2
  <1>9. \A x : RowsFor(x)' = RowsFor(x) /\ RowsFrom(x)' = RowsFrom(x) BY DEF RowsFor, RowsFrom
  <1> QED BY <1>2, <1>5, <1>7, <1>8, <1>9 DEF LinksWithin, Within

\* A thread inserts its link: it was counted among those about to.
LEMMA LinksInserted ==
  ASSUME ResetsTypeOK, LinksWithin, NEW r \in Threads, CreateLink(r)
  PROVE  LinksWithin' /\ ResetsTypeOK'
  <1>1. PICK u, ip : u = resetTask[r].uid /\ ip = resetTask[r].ip OBVIOUS
  <1>2. PICK rows2 : rows2 = Created(links, u, ip) OBVIOUS
  <1>3. /\ links' = rows2 /\ mailed' = [mailed EXCEPT ![<<u, 0>>] = @ + 1]
        /\ resetTask' = [resetTask EXCEPT ![r] = Idle] /\ UNCHANGED <<submitted, tried>>
        /\ resetTask[r] # Idle
    BY <1>1, <1>2 DEF CreateLink, Created, NewRow
  <1>4. u \in Owners /\ ip \in Ips BY <1>1, <1>3 DEF ResetsTypeOK, Creations
  <1>5. links \in [LinkRows -> Nat] /\ LinksPerUser \in Nat \ {0} /\ LinksPerIp \in Nat \ {0}
    BY ResetsAssumption DEF ResetsTypeOK
  <1>5a. PICK new : new = NewRow(u, ip) OBVIOUS
  <1>6. /\ new \in LinkRows
        /\ \A w : new \in RowsFor(w) <=> w = u
        /\ \A j : new \in RowsFrom(j) <=> j = ip
    BY <1>4, <1>5a, LinkMade DEF RowsFor, RowsFrom
  <1>7. /\ rows2 \in [LinkRows -> Nat]
        /\ \A S : Whole(S) => Tally(rows2, S) = Tally(links, S) + (IF new \in S THEN 1 ELSE 0)
    <2>1. rows2 \in [LinkRows -> Nat]
      <3>1. Twinned(RowsFor(u)) BY WholeRows, RowsTwinned
      <3> QED BY <1>2, <1>4, <1>5, <1>5a, <3>1, LinkCreated
    <2>2. ASSUME NEW S, Whole(S)
          PROVE  Tally(rows2, S) = Tally(links, S) + (IF new \in S THEN 1 ELSE 0)
      <3>1. Twinned(S) BY <2>2, RowsTwinned
      <3> QED BY <1>2, <1>4, <1>5, <1>5a, <3>1, LinkCreated
    <2> QED BY <2>1, <2>2
  <1>8. mailed' \in [Owners \X LinkAges -> Nat]
    <2>1. <<u, 0>> \in Owners \X LinkAges BY <1>4, LinkKeys
    <2> QED BY <1>3, <2>1 DEF ResetsTypeOK
  <1>9. ResetsTypeOK' BY <1>3, <1>7, <1>8 DEF ResetsTypeOK
  <1>10. ASSUME NEW S, Whole(S), NEW C \in SUBSET Threads, NEW C2 \in SUBSET Threads,
                NEW limit \in Nat \ {0}, Within(Tally(links, S), C, limit),
                C2 = C \ {r}, r \in C <=> new \in S
         PROVE  Within(Tally(rows2, S), C2, limit)
    <2>1. Tally(links, S) \in Nat /\ Tally(rows2, S) \in Nat BY <1>5, <1>7, <1>10, LinksType
    <2>2. Tally(rows2, S) = Tally(links, S) + (IF new \in S THEN 1 ELSE 0) BY <1>7, <1>10
    <2>3. CASE new \in S
      <3>1. Tally(rows2, S) <= Tally(links, S) + 1 /\ r \in C BY <1>10, <2>1, <2>2, <2>3
      <3> QED BY <1>10, <2>1, <3>1, StillWithin
    <2>4. CASE new \notin S
      <3>1. Tally(rows2, S) <= Tally(links, S) /\ C2 \subseteq C BY <1>10, <2>1, <2>2, <2>4
      <3> QED BY <1>10, <2>1, <3>1, StillWithin
    <2> QED BY <2>3, <2>4
  <1>11. ASSUME NEW w \in Owners
         PROVE  Within(Tally(rows2, RowsFor(w)), CreatingFor(w)', LinksPerUser)
    <2> DEFINE C2 == CreatingFor(w)'
    <2>1. C2 = CreatingFor(w) \ {r} BY <1>3 DEF CreatingFor, ResetsTypeOK
    <2>2. r \in CreatingFor(w) <=> w = u BY <1>1, <1>3 DEF CreatingFor
    <2> HIDE DEF C2
    <2>3. CreatingFor(w) \in SUBSET Threads /\ C2 \in SUBSET Threads
      BY <2>1, CreatingFinite
    <2>4. Within(Tally(links, RowsFor(w)), CreatingFor(w), LinksPerUser) BY DEF LinksWithin
    <2>5. Whole(RowsFor(w)) /\ (r \in CreatingFor(w) <=> new \in RowsFor(w))
      BY <1>6, <2>2, WholeRows
    <2>6. Within(Tally(rows2, RowsFor(w)), C2, LinksPerUser)
      BY <1>5, <1>10, <2>1, <2>3, <2>4, <2>5
    <2> QED BY <2>6 DEF C2
  <1>12. ASSUME NEW j \in Ips
         PROVE  Within(Tally(rows2, RowsFrom(j)), CreatingFrom(j)', LinksPerIp)
    <2> DEFINE C2 == CreatingFrom(j)'
    <2>1. C2 = CreatingFrom(j) \ {r} BY <1>3 DEF CreatingFrom, ResetsTypeOK
    <2>2. r \in CreatingFrom(j) <=> j = ip BY <1>1, <1>3 DEF CreatingFrom
    <2> HIDE DEF C2
    <2>3. CreatingFrom(j) \in SUBSET Threads /\ C2 \in SUBSET Threads
      BY <2>1, CreatingFinite
    <2>4. Within(Tally(links, RowsFrom(j)), CreatingFrom(j), LinksPerIp) BY DEF LinksWithin
    <2>5. Whole(RowsFrom(j)) /\ (r \in CreatingFrom(j) <=> new \in RowsFrom(j))
      BY <1>6, <2>2, WholeRows
    <2>6. Within(Tally(rows2, RowsFrom(j)), C2, LinksPerIp)
      BY <1>5, <1>10, <2>1, <2>3, <2>4, <2>5
    <2> QED BY <2>6 DEF C2
  <1>13. \A x : RowsFor(x)' = RowsFor(x) /\ RowsFrom(x)' = RowsFrom(x) BY DEF RowsFor, RowsFrom
  <1> QED BY <1>3, <1>9, <1>11, <1>12, <1>13 DEF LinksWithin, Within

LEMMA ResetsStep == ASSUME ResetsInv, [ResetsNext]_resetVars PROVE ResetsInv'
  <1>0. /\ ResetsTypeOK /\ tried = submitted /\ links \in [LinkRows -> Nat] /\ LinksWithin
        /\ \A i \in Ips : Tally(tried, {i} \X LinkAges) <= SubmitMax
        /\ SubmitMax \in Nat \ {0}
    BY ResetsAssumption, LimitParts DEF ResetsInv, ResetsTypeOK
  <1>1. ASSUME ResetsTypeOK', tried' = submitted', LinksWithin',
               \A i \in Ips : Tally(tried', {i} \X LinkAges) <= SubmitMax
        PROVE  ResetsInv'
    <2>1. LimitsHold' <=> LinksWithin' /\ \A i \in Ips : Tally(tried', {i} \X LinkAges) <= SubmitMax
      BY DEF LimitsHold, LinksWithin, Within, LinksOf, LinksFrom, RowsFor, RowsFrom
    <2> QED BY <1>1, <2>1 DEF ResetsInv
  \* The table of links changes, the tasks and the attempts do not.
  <1>2. ASSUME UNCHANGED <<resetTask, submitted, tried, mailed>>, NEW rows2 \in [LinkRows -> Nat],
               links' = rows2, \A S : Whole(S) => Tally(rows2, S) <= Tally(links, S)
        PROVE  ResetsInv'
    <2>1. ResetsTypeOK' BY <1>0, <1>2 DEF ResetsTypeOK
    <2>2. LinksWithin' BY <1>0, <1>2, LinksFall
    <2> QED BY <1>0, <1>1, <1>2, <2>1, <2>2
  <1>3. CASE UNCHANGED resetVars
    <2>1. \A S : Whole(S) => Tally(links, S) <= Tally(links, S) BY <1>0, LinksType
    <2> QED BY <1>0, <1>2, <1>3, <2>1 DEF resetVars
  <1>4. ASSUME NEW r \in Threads, CountLinks(r) PROVE ResetsInv'
    <2>1. UNCHANGED <<submitted, tried>> BY <1>4 DEF CountLinks
    <2> QED BY <1>0, <1>1, <1>4, <2>1, LinksCounted
  <1>5. ASSUME NEW r \in Threads, CreateLink(r) PROVE ResetsInv'
    <2>1. UNCHANGED <<submitted, tried>> BY <1>5 DEF CreateLink
    <2> QED BY <1>0, <1>1, <1>5, <2>1, LinksInserted
  \* Attempts change, links do not.
  <1>6. ASSUME UNCHANGED <<links, resetTask>> PROVE LinksWithin'
    BY <1>0, <1>6 DEF LinksWithin, Within, RowsFor, RowsFrom, CreatingFor, CreatingFrom
  <1>7. ASSUME NEW w \in Ips, SubmitToken(w) PROVE ResetsInv'
    <2>1. /\ Tally(submitted, {w} \X LinkAges) < SubmitMax
          /\ submitted' = OneAttempt(submitted, w) /\ tried' = OneAttempt(submitted, w)
          /\ UNCHANGED <<links, resetTask, mailed>>
      BY <1>0, <1>7 DEF SubmitToken, OneAttempt
    <2>2. submitted \in [Ips \X LinkAges -> Nat] BY <1>0 DEF ResetsTypeOK
    <2>3. ASSUME NEW i \in Ips
          PROVE  /\ submitted' \in [Ips \X LinkAges -> Nat]
                 /\ i = w => Tally(submitted', {i} \X LinkAges) = Tally(submitted, {i} \X LinkAges) + 1
                 /\ i # w => Tally(submitted', {i} \X LinkAges) = Tally(submitted, {i} \X LinkAges)
                 /\ Tally(submitted, {i} \X LinkAges) \in Nat
      <3>0. submitted \in AttemptTables BY <2>2 DEF AttemptTables
      <3>1. PICK rows2 : rows2 = OneAttempt(submitted, w) OBVIOUS
      <3>2. /\ rows2 \in AttemptTables
            /\ i = w => AttemptsOf(rows2, i) = AttemptsOf(submitted, i) + 1
            /\ i # w => AttemptsOf(rows2, i) = AttemptsOf(submitted, i)
            /\ AttemptsOf(submitted, i) \in Nat
        BY <3>0, <3>1, AttemptAdded
      <3>3. submitted' = rows2 BY <2>1, <3>1
      <3> QED BY <3>2, <3>3 DEF AttemptTables, AttemptsOf
    <2>4. ResetsTypeOK' BY <1>0, <2>1, <2>3 DEF ResetsTypeOK
    <2>5. ASSUME NEW i \in Ips PROVE Tally(tried', {i} \X LinkAges) <= SubmitMax
      <3>1. Tally(submitted, {i} \X LinkAges) <= SubmitMax BY <1>0
      <3>2. tried' = submitted' BY <2>1
      <3>3. CASE i = w BY <1>0, <2>1, <2>3, <3>2, <3>3
      <3>4. CASE i # w BY <1>0, <2>3, <3>1, <3>2, <3>4
      <3> QED BY <3>3, <3>4
    <2>6. tried' = submitted' BY <2>1
    <2> QED BY <1>1, <1>6, <2>1, <2>4, <2>5, <2>6
  <1>8. CASE UseLink
    <2>1. PICK k \in LinkRows : links[k] > 0 /\ ~k[4] /\ links' = UsedUp(links, k)
      BY <1>8 DEF UseLink, UsedUp
    <2>2. PICK rows2 : rows2 = UsedUp(links, k) OBVIOUS
    <2>3. ASSUME NEW S, Whole(S)
          PROVE  rows2 \in [LinkRows -> Nat] /\ Tally(rows2, S) = Tally(links, S)
      <3>1. Twinned(S) BY <2>3, RowsTwinned
      <3> QED BY <1>0, <2>1, <2>2, <3>1, LinkMoved
    <2>4. \A S : Whole(S) => Tally(rows2, S) <= Tally(links, S) BY <1>0, <2>3, LinksType
    <2>5. rows2 \in [LinkRows -> Nat] BY <2>3, WholeRows
    <2>6. UNCHANGED <<resetTask, submitted, tried, mailed>> BY <1>8 DEF UseLink
    <2> QED BY <1>2, <2>1, <2>2, <2>4, <2>5, <2>6
  <1>9. CASE SweepResets
    <2>1. PICK rows2 : rows2 = [k \in LinkRows |-> IF k[4] \/ k[3] > LinkTtl THEN 0 ELSE links[k]]
      OBVIOUS
    <2>2. rows2 \in [LinkRows -> Nat] /\ \A k \in LinkRows : rows2[k] <= links[k]
      BY <1>0, <2>1
    <2>3. \A S : Whole(S) => Tally(rows2, S) <= Tally(links, S) BY <1>0, <2>2, LinksLeq
    <2>4. links' = rows2 BY <1>9, <2>1 DEF SweepResets
    <2>5. submitted' = submitted
      <3>1. \A k \in Ips \X LinkAges : ~(k[2] > AttemptHorizon)
        BY ResetsAssumption DEF LinkAges, AttemptHorizon
      <3>2. submitted' = [k \in Ips \X LinkAges |-> submitted[k]] BY <1>9, <3>1 DEF SweepResets
      <3> QED BY <1>0, <3>2 DEF ResetsTypeOK
    <2>6. UNCHANGED <<resetTask, submitted, tried, mailed>> BY <1>9, <2>5 DEF SweepResets
    <2> QED BY <1>2, <2>2, <2>3, <2>4, <2>6
  <1>10. CASE ResetTick
    <2>1. PICK rows2 : rows2 = Aged(links) OBVIOUS
    <2>2. /\ rows2 \in [LinkRows -> Nat]
          /\ \A S : Whole(S) => Tally(rows2, S) <= Tally(links, S)
      <3>1. rows2 \in [LinkRows -> Nat] BY <1>0, <2>1, WholeRows, LinksAge
      <3>2. \A S : Whole(S) => Tally(rows2, S) <= Tally(links, S) BY <1>0, <2>1, LinksAge
      <3> QED BY <3>1, <3>2
    <2>3. submitted' = [k \in Ips \X LinkAges |->
                         IF k[2] = 0 THEN 0 ELSE submitted[<<k[1], k[2] - 1>>]]
          /\ tried' = submitted'
      BY <1>0, <1>10 DEF ResetTick
    <2>4. submitted \in [Ips \X LinkAges -> Nat] /\ mailed \in [Owners \X LinkAges -> Nat]
      BY <1>0 DEF ResetsTypeOK
    <2>5. submitted' \in [Ips \X LinkAges -> Nat]
      <3>1. \A k \in Ips \X LinkAges : k[2] # 0 => <<k[1], k[2] - 1>> \in Ips \X LinkAges
        BY LinkKeys
      <3> QED BY <2>3, <2>4, <3>1
    <2>6. mailed' \in [Owners \X LinkAges -> Nat]
      <3>1. \A k \in Owners \X LinkAges : k[2] # 0 => <<k[1], k[2] - 1>> \in Owners \X LinkAges
        BY LinkKeys
      <3>2. mailed' = [k \in Owners \X LinkAges |->
                        IF k[2] = 0 THEN 0 ELSE mailed[<<k[1], k[2] - 1>>]]
        BY <1>10 DEF ResetTick
      <3> QED BY <2>4, <3>1, <3>2
    <2>7. links' = rows2 /\ resetTask' = resetTask BY <1>10, <2>1 DEF ResetTick, Aged
    <2>8. ResetsTypeOK' BY <1>0, <2>2, <2>5, <2>6, <2>7 DEF ResetsTypeOK
    <2>9. LinksWithin' BY <1>0, <2>2, <2>7, LinksFall
    <2>10. ASSUME NEW i \in Ips PROVE Tally(tried', {i} \X LinkAges) <= SubmitMax
      <3> DEFINE aged == submitted'
      <3>1. aged = [k \in Ips \X LinkAges |->
                      IF k[2] = 0 THEN 0 ELSE submitted[<<k[1], k[2] - 1>>]]
        BY <2>3
      <3> HIDE DEF aged
      <3>2. Tally(aged, {i} \X LinkAges) <= Tally(submitted, {i} \X LinkAges)
        BY <2>4, <3>1, AttemptsAge
      <3>3. tried' = aged BY <2>3 DEF aged
      <3>4. \A k \in {i} \X LinkAges : k \in Ips \X LinkAges OBVIOUS
      <3>5. \A k \in {i} \X LinkAges : submitted[k] \in Nat /\ aged[k] \in Nat
        <4>1. aged \in [Ips \X LinkAges -> Nat] BY <2>5 DEF aged
        <4> QED BY <2>4, <3>4, <4>1
      <3>6. Tally(submitted, {i} \X LinkAges) \in Nat /\ Tally(aged, {i} \X LinkAges) \in Nat
        BY <3>5, LinkKeys, TallyType
      <3>7. Tally(submitted, {i} \X LinkAges) <= SubmitMax BY <1>0
      <3>8. Tally(aged, {i} \X LinkAges) <= SubmitMax BY <1>0, <3>2, <3>6, <3>7
      <3> QED BY <3>3, <3>8
    <2> QED BY <1>1, <2>3, <2>8, <2>9, <2>10
  <1> QED BY <1>3, <1>4, <1>5, <1>7, <1>8, <1>9, <1>10 DEF ResetsNext

LEMMA ResetsStart == ResetsInit => ResetsInv
  <1> SUFFICES ASSUME ResetsInit PROVE ResetsInv OBVIOUS
  <1>1. ResetsTypeOK BY DEF ResetsInit, ResetsTypeOK
  <1>2. tried = submitted BY DEF ResetsInit
  <1>3. LinksWithin
    <2>1. ASSUME NEW S, Whole(S) PROVE Tally(links, S) = 0
      <3>1. \A k \in S : links[k] = 0 BY <2>1 DEF ResetsInit, Whole
      <3> QED BY <3>1, TallyZero
    <2>2. \A x : CreatingFor(x) = {} /\ CreatingFrom(x) = {}
      BY DEF ResetsInit, CreatingFor, CreatingFrom
    <2>3. Cardinality({}) = 0 /\ Cardinality(Threads) \in Nat
      BY RequestsAssumption, FS_EmptySet, FS_CardinalityType
    <2>4. Within(0, {}, LinksPerUser) /\ Within(0, {}, LinksPerIp)
      BY <2>3, ResetsAssumption DEF Within
    <2> QED BY <2>1, <2>2, <2>4, WholeRows DEF LinksWithin
  <1>4. ASSUME NEW i \in Ips PROVE Tally(tried, {i} \X LinkAges) <= SubmitMax
    <2>1. \A k \in {i} \X LinkAges : tried[k] = 0 BY DEF ResetsInit
    <2>2. Tally(tried, {i} \X LinkAges) = 0 BY <2>1, TallyZero
    <2> QED BY <2>2, ResetsAssumption
  <1> QED BY <1>1, <1>2, <1>3, <1>4, LimitParts DEF ResetsInv

\* However many workers count before one of them inserts, the links of an
\* account, and those an address asked for, exceed the limit by no more than one
\* for each other worker, and no address has more than RESET_ATTEMPT_MAX_PER_IP
\* tokens looked at in a window, whenever the attempts are swept.
THEOREM ResetLimitsHold == ResetsSpec => []LimitsHold
  <1>1. ResetsInv /\ [ResetsNext]_resetVars => ResetsInv' BY ResetsStep
  <1>2. ResetsInv => LimitsHold BY DEF ResetsInv
  <1> QED BY <1>1, <1>2, ResetsStart, PTL DEF ResetsSpec

----------------------------------------------------------------------------
(* The mails of the password reset, while no row is forgotten *)

\* prune deletes the row of a link younger than the window: the step that the run
\* ResetLimit finds. (Rows that have left the window are in no state of the model.)
Forgets == SweepResets /\ links' # links

MailTables == [Owners \X LinkAges -> Nat]
MailsUpTo(u, n) == {u} \X (0..n)

\* Every link mailed to the account in the last n ticks has a row of that age.
MailsCounted(u, n) == Tally(mailed, MailsUpTo(u, n)) <= Tally(links, RowsUpTo(u, n))

MailsInv == \A u \in Owners, n \in LinkAges : MailsCounted(u, n)

\* What the limit comes to when up to _FORGOT_WORKERS threads count at once.
MailsWithin ==
  \A u \in Owners : Tally(mailed, {u} \X LinkAges) + Cardinality(CreatingFor(u))
                      <= LinksPerUser - 1 + Cardinality(Threads)

LEMMA MailKeys ==
  ASSUME NEW u \in Owners, NEW n \in LinkAges
  PROVE  /\ IsFiniteSet(MailsUpTo(u, n)) /\ MailsUpTo(u, n) \subseteq Owners \X LinkAges
         /\ <<u, 0>> \in MailsUpTo(u, n)
         /\ IsFiniteSet(RowsUpTo(u, n)) /\ RowsUpTo(u, n) \subseteq LinkRows
  <1>1. n \in Nat /\ ResetWindow \in Nat /\ n <= ResetWindow BY ResetsAssumption DEF LinkAges
  <1>2. n + 1 \in Nat /\ (n + 1) - 1 = n BY <1>1
  <1>3. IsFiniteSet(0..n)
    <2>1. IsFiniteSet(0..((n + 1) - 1)) BY <1>2, IntervalSize
    <2> QED BY <1>2, <2>1
  <1>4. IsFiniteSet({u}) BY FS_Singleton
  <1>5. IsFiniteSet(MailsUpTo(u, n)) BY <1>3, <1>4, FS_Product DEF MailsUpTo
  <1>6. 0..n \subseteq LinkAges /\ 0 \in 0..n BY <1>1 DEF LinkAges
  <1>7. MailsUpTo(u, n) \subseteq Owners \X LinkAges /\ <<u, 0>> \in MailsUpTo(u, n)
    BY <1>6 DEF MailsUpTo
  <1>8. RowsUpTo(u, n) \in SUBSET RowsFor(u) BY DEF RowsUpTo
  <1>9. IsFiniteSet(RowsUpTo(u, n)) /\ RowsUpTo(u, n) \subseteq LinkRows
    BY <1>8, LinkKeys, FS_Subset
  <1> QED BY <1>5, <1>7, <1>9

LEMMA MailsType ==
  ASSUME NEW u \in Owners, NEW n \in LinkAges, NEW mails \in MailTables,
         NEW rows \in [LinkRows -> Nat]
  PROVE  Tally(mails, MailsUpTo(u, n)) \in Nat /\ Tally(rows, RowsUpTo(u, n)) \in Nat
  <1>1. \A k \in MailsUpTo(u, n) : mails[k] \in Nat BY MailKeys DEF MailTables
  <1>2. \A k \in RowsUpTo(u, n) : rows[k] \in Nat BY MailKeys
  <1> QED BY <1>1, <1>2, MailKeys, TallyType

OneMail(mails, w) == [mails EXCEPT ![<<w, 0>>] = @ + 1]

LEMMA MailAdded ==
  ASSUME NEW u \in Owners, NEW n \in LinkAges, NEW mails \in MailTables, NEW w \in Owners,
         NEW mails2, mails2 = OneMail(mails, w)
  PROVE  Tally(mails2, MailsUpTo(u, n)) = Tally(mails, MailsUpTo(u, n)) + (IF u = w THEN 1 ELSE 0)
  <1> USE DEF MailTables
  <1>1. <<w, 0>> \in Owners \X LinkAges BY LinkKeys
  <1>2. /\ mails2[<<w, 0>>] = mails[<<w, 0>>] + 1 /\ mails[<<w, 0>>] \in Nat
        /\ \A k \in Owners \X LinkAges : k # <<w, 0>> => mails2[k] = mails[k]
    BY <1>1 DEF OneMail
  <1>3. PICK S : S = MailsUpTo(u, n) OBVIOUS
  <1>4. S \subseteq Owners \X LinkAges /\ IsFiniteSet(S) /\ (<<w, 0>> \in S <=> u = w)
    <2>1. <<w, 0>> \in S => u = w BY <1>3 DEF MailsUpTo
    <2> QED BY <1>3, <2>1, MailKeys
  <1>5. \A k \in S : mails[k] \in Nat /\ mails2[k] \in Nat BY <1>2, <1>4
  <1>6. Tally(mails, S) \in Nat BY <1>4, <1>5, TallyType
  <1>7. CASE u = w
    <2>1. \A k \in S \ {<<w, 0>>} : mails2[k] = mails[k] BY <1>2, <1>4
    <2>2. Tally(mails2, S) = Tally(mails, S) - mails[<<w, 0>>] + mails2[<<w, 0>>]
      BY <1>4, <1>5, <1>7, <2>1, TallyChange
    <2> QED BY <1>2, <1>3, <1>6, <1>7, <2>2
  <1>8. CASE u # w
    <2>1. \A k \in S : mails2[k] = mails[k] BY <1>2, <1>4, <1>8
    <2> QED BY <1>3, <1>6, <1>8, <2>1, TallySame
  <1> QED BY <1>7, <1>8

\* A tick: what was mailed in the last n ticks was mailed in the last n - 1 before.
AgedMails(mails) ==
  [k \in Owners \X LinkAges |-> IF k[2] = 0 THEN 0 ELSE mails[<<k[1], k[2] - 1>>]]

LEMMA MailsAge ==
  ASSUME NEW u \in Owners, NEW n \in LinkAges, n # 0, NEW mails \in MailTables,
         NEW mails2, mails2 = AgedMails(mails), mails2 \in MailTables
  PROVE  Tally(mails2, MailsUpTo(u, n)) <= Tally(mails, MailsUpTo(u, n - 1))
  <1>1. n - 1 \in LinkAges /\ n \in Nat BY LinkKeys
  <1>2. PICK S, R : S = MailsUpTo(u, n) /\ R = MailsUpTo(u, n - 1) OBVIOUS
  <1>3. /\ S \subseteq Owners \X LinkAges /\ IsFiniteSet(S)
        /\ R \subseteq Owners \X LinkAges /\ IsFiniteSet(R)
    BY <1>1, <1>2, MailKeys
  <1>4. \A k \in S : mails2[k] \in Nat BY <1>3 DEF MailTables
  <1>5. \A k \in R : mails[k] \in Nat BY <1>3 DEF MailTables
  <1>6. \A k \in S : k[1] = u /\ k[2] \in 0..n /\ k = <<k[1], k[2]>> BY <1>2 DEF MailsUpTo
  <1> DEFINE m == [k \in S |-> <<u, k[2] - 1>>]
  <1>7. ASSUME NEW k \in S, mails2[k] > 0 PROVE m[k] \in R /\ mails2[k] <= mails[m[k]]
    <2>1. mails2[k] = IF k[2] = 0 THEN 0 ELSE mails[<<k[1], k[2] - 1>>]
      BY <1>3 DEF AgedMails
    <2>2. k[2] # 0 /\ m[k] = <<u, k[2] - 1>> /\ mails2[k] = mails[m[k]] BY <1>6, <1>7, <2>1
    <2>3. k[2] - 1 \in 0..(n - 1) BY <1>1, <1>6, <2>2
    <2>4. m[k] \in R BY <1>2, <2>2, <2>3 DEF MailsUpTo
    <2> QED BY <1>5, <2>2, <2>4
  <1>8. ASSUME NEW k \in S, NEW l \in S, m[k] = m[l] PROVE k = l
    <2>1. k[2] - 1 = l[2] - 1 BY <1>8
    <2>2. k[2] \in Nat /\ l[2] \in Nat BY <1>6
    <2> QED BY <1>6, <2>1, <2>2
  <1> HIDE DEF m
  <1> QED BY <1>2, <1>3, <1>4, <1>5, <1>7, <1>8, TallyMove

\* And so do the rows grow older with the mails.
LEMMA RowsAge ==
  ASSUME NEW u \in Owners, NEW n \in LinkAges, n # 0, NEW rows \in [LinkRows -> Nat],
         NEW rows2, rows2 = Aged(rows), rows2 \in [LinkRows -> Nat]
  PROVE  Tally(rows, RowsUpTo(u, n - 1)) <= Tally(rows2, RowsUpTo(u, n))
  <1>1. n - 1 \in LinkAges /\ n \in Nat /\ n <= ResetWindow /\ ResetWindow \in Nat
    BY LinkKeys, ResetsAssumption DEF LinkAges
  <1>2. PICK S, R : S = RowsUpTo(u, n) /\ R = RowsUpTo(u, n - 1) OBVIOUS
  <1>3. /\ S \subseteq LinkRows /\ IsFiniteSet(S) /\ R \subseteq LinkRows /\ IsFiniteSet(R)
    BY <1>1, <1>2, MailKeys
  <1>4. \A k \in S : rows2[k] \in Nat BY <1>3
  <1>5. \A k \in R : rows[k] \in Nat BY <1>3
  <1> DEFINE m == [k \in R |-> <<k[1], k[2], k[3] + 1, k[4]>>]
  <1>6. ASSUME NEW k \in R PROVE m[k] \in S /\ rows[k] <= rows2[m[k]]
    <2>1. /\ k \in LinkRows /\ k[1] = u /\ k[3] <= n - 1 BY <1>2, <1>3 DEF RowsUpTo, RowsFor
    <2>2. /\ k = <<k[1], k[2], k[3], k[4]>> /\ k[1] \in Owners /\ k[2] \in Ips
          /\ k[3] \in LinkAges /\ k[4] \in BOOLEAN
      BY <2>1, LinkTwin
    <2>3. k[3] \in Nat /\ k[3] + 1 <= n /\ k[3] + 1 \in LinkAges BY <1>1, <2>1, <2>2, LinkKeys DEF LinkAges
    <2>4. PICK l : l = <<k[1], k[2], k[3] + 1, k[4]>> OBVIOUS
    <2>5. l \in LinkRows BY <2>2, <2>3, <2>4 DEF LinkRows
    <2>6. l[1] = u /\ l[2] = k[2] /\ l[3] = k[3] + 1 /\ l[4] = k[4] BY <2>1, <2>4
    <2>7. [l EXCEPT ![3] = @ - 1] = k
      <3>1. [l EXCEPT ![3] = @ - 1] = <<k[1], k[2], (k[3] + 1) - 1, k[4]>> BY <2>4
      <3>2. (k[3] + 1) - 1 = k[3] BY <2>3
      <3> QED BY <2>2, <3>1, <3>2
    <2>8. l[3] # 0 BY <2>3, <2>6
    <2>9. rows2[l] = rows[k] BY <2>5, <2>7, <2>8 DEF Aged
    <2>10. l \in S BY <1>2, <2>3, <2>5, <2>6 DEF RowsUpTo, RowsFor
    <2> QED BY <1>5, <2>4, <2>9, <2>10
  <1>7. ASSUME NEW k \in R, NEW l \in R, m[k] = m[l] PROVE k = l
    <2>1. /\ m[k][1] = k[1] /\ m[k][2] = k[2] /\ m[k][3] = k[3] + 1 /\ m[k][4] = k[4]
          /\ m[l][1] = l[1] /\ m[l][2] = l[2] /\ m[l][3] = l[3] + 1 /\ m[l][4] = l[4]
      OBVIOUS
    <2>2. k[1] = l[1] /\ k[2] = l[2] /\ k[3] + 1 = l[3] + 1 /\ k[4] = l[4] BY <1>7, <2>1
    <2>3. k \in LinkRows /\ l \in LinkRows BY <1>3
    <2>4. k[3] \in Nat /\ l[3] \in Nat BY <2>3, LinkTwin, LinkKeys
    <2>5. k[3] = l[3] BY <2>2, <2>4
    <2> QED BY <2>2, <2>3, <2>5, LinkTwin
  <1> HIDE DEF m
  <1> QED BY <1>2, <1>3, <1>4, <1>5, <1>6, <1>7, TallyMove

LEMMA MailsStart == ResetsInit => MailsInv
  <1> SUFFICES ASSUME ResetsInit, NEW u \in Owners, NEW n \in LinkAges PROVE MailsCounted(u, n)
    BY DEF MailsInv
  <1>1. \A k \in MailsUpTo(u, n) : mailed[k] = 0 BY MailKeys DEF ResetsInit
  <1>2. \A k \in RowsUpTo(u, n) : links[k] = 0 BY MailKeys DEF ResetsInit
  <1> QED BY <1>1, <1>2, TallyZero DEF MailsCounted

LEMMA MailsStep ==
  ASSUME ResetsInv, ResetsInv', MailsInv, [ResetsNext]_resetVars, ~Forgets
  PROVE  MailsInv'
  <1> SUFFICES ASSUME NEW u \in Owners, NEW n \in LinkAges
               PROVE  Tally(mailed', MailsUpTo(u, n)) <= Tally(links', RowsUpTo(u, n))
    BY DEF MailsInv, MailsCounted, RowsUpTo, RowsFor, MailsUpTo
  <1>1. /\ links \in [LinkRows -> Nat] /\ links' \in [LinkRows -> Nat]
        /\ mailed \in MailTables /\ mailed' \in MailTables
        /\ resetTask \in [Threads -> {Idle} \cup Creations]
    BY DEF ResetsInv, ResetsTypeOK, MailTables
  <1>2. Tally(mailed, MailsUpTo(u, n)) <= Tally(links, RowsUpTo(u, n)) BY DEF MailsInv, MailsCounted
  <1>3. Tally(mailed, MailsUpTo(u, n)) \in Nat /\ Tally(links, RowsUpTo(u, n)) \in Nat
    BY <1>1, MailsType
  <1>4. CASE UNCHANGED <<links, mailed>> BY <1>2, <1>4
  <1>5. ASSUME NEW r \in Threads, CreateLink(r)
        PROVE  Tally(mailed', MailsUpTo(u, n)) <= Tally(links', RowsUpTo(u, n))
    <2>1. PICK w, ip : w = resetTask[r].uid /\ ip = resetTask[r].ip OBVIOUS
    <2>2. /\ links' = Created(links, w, ip) /\ mailed' = OneMail(mailed, w)
          /\ resetTask[r] # Idle
      BY <1>5, <2>1 DEF CreateLink, Created, NewRow, OneMail
    <2>3. w \in Owners /\ ip \in Ips BY <1>1, <2>1, <2>2 DEF Creations
    <2>4. PICK mails2, rows2 : mails2 = OneMail(mailed, w) /\ rows2 = Created(links, w, ip)
      OBVIOUS
    <2>5. Tally(mails2, MailsUpTo(u, n))
            = Tally(mailed, MailsUpTo(u, n)) + (IF u = w THEN 1 ELSE 0)
      BY <1>1, <2>3, <2>4, MailAdded
    <2>5a. PICK new : new = NewRow(w, ip) OBVIOUS
    <2>6. new \in RowsUpTo(u, n) <=> u = w
      <3>1. /\ new \in LinkRows /\ new[1] = w /\ new[3] = 0 BY <2>3, <2>5a, LinkMade
      <3>2. 0 <= n BY LinkKeys
      <3> QED BY <3>1, <3>2 DEF RowsUpTo, RowsFor
    <2>7. Tally(rows2, RowsUpTo(u, n))
            = Tally(links, RowsUpTo(u, n)) + (IF u = w THEN 1 ELSE 0)
      <3>1. Twinned(RowsUpTo(u, n)) BY RowsTwinned
      <3>2. Tally(rows2, RowsUpTo(u, n))
              = Tally(links, RowsUpTo(u, n)) + (IF new \in RowsUpTo(u, n) THEN 1 ELSE 0)
        BY <1>1, <2>3, <2>4, <2>5a, <3>1, LinkCreated
      <3> QED BY <2>6, <3>2
    <2>8. Tally(mails2, MailsUpTo(u, n)) <= Tally(rows2, RowsUpTo(u, n))
      BY <1>2, <1>3, <2>5, <2>7
    <2> QED BY <2>2, <2>4, <2>8
  <1>6. CASE UseLink
    <2>1. PICK k \in LinkRows : links[k] > 0 /\ ~k[4] /\ links' = UsedUp(links, k)
      BY <1>6 DEF UseLink, UsedUp
    <2>2. mailed' = mailed BY <1>6 DEF UseLink
    <2>3. PICK rows2 : rows2 = UsedUp(links, k) OBVIOUS
    <2>4. Tally(rows2, RowsUpTo(u, n)) = Tally(links, RowsUpTo(u, n))
      <3>1. Twinned(RowsUpTo(u, n)) BY RowsTwinned
      <3> QED BY <1>1, <2>1, <2>3, <3>1, LinkMoved
    <2> QED BY <1>2, <2>1, <2>2, <2>3, <2>4
  <1>7. CASE ResetTick
    <2>1. PICK rows2, mails2 : rows2 = Aged(links) /\ mails2 = AgedMails(mailed) OBVIOUS
    <2>2. links' = rows2 /\ mailed' = mails2 BY <1>7, <2>1 DEF ResetTick, Aged, AgedMails
    <2>3. rows2 \in [LinkRows -> Nat] /\ mails2 \in MailTables BY <1>1, <2>2
    <2>4. Tally(mails2, MailsUpTo(u, n)) <= Tally(rows2, RowsUpTo(u, n))
      <3>1. CASE n = 0
        <4>1. \A k \in MailsUpTo(u, n) : k \in Owners \X LinkAges /\ k[2] = 0
          BY <3>1, MailKeys DEF MailsUpTo
        <4>2. \A k \in MailsUpTo(u, n) : mails2[k] = 0 BY <2>1, <4>1 DEF AgedMails
        <4>3. Tally(mails2, MailsUpTo(u, n)) = 0 BY <4>2, TallyZero
        <4> QED BY <2>3, <4>3, MailsType
      <3>2. CASE n # 0
        <4>1. n - 1 \in LinkAges BY <3>2, LinkKeys
        <4>2. Tally(mails2, MailsUpTo(u, n)) <= Tally(mailed, MailsUpTo(u, n - 1))
          BY <1>1, <2>1, <2>3, <3>2, MailsAge
        <4>3. Tally(links, RowsUpTo(u, n - 1)) <= Tally(rows2, RowsUpTo(u, n))
          BY <1>1, <2>1, <2>3, <3>2, RowsAge
        <4>4. Tally(mailed, MailsUpTo(u, n - 1)) <= Tally(links, RowsUpTo(u, n - 1))
          BY <4>1 DEF MailsInv, MailsCounted
        <4>5. /\ Tally(mails2, MailsUpTo(u, n)) \in Nat /\ Tally(rows2, RowsUpTo(u, n)) \in Nat
              /\ Tally(mailed, MailsUpTo(u, n - 1)) \in Nat
              /\ Tally(links, RowsUpTo(u, n - 1)) \in Nat
          BY <1>1, <2>3, <4>1, MailsType
        <4> QED BY <4>2, <4>3, <4>4, <4>5
      <3> QED BY <3>1, <3>2
    <2> QED BY <2>2, <2>4
  <1>8. CASE SweepResets BY <1>4, <1>8 DEF SweepResets, Forgets
  <1>9. CASE UNCHANGED resetVars BY <1>4, <1>9 DEF resetVars
  <1>10. ASSUME NEW r \in Threads, CountLinks(r) PROVE UNCHANGED <<links, mailed>>
    BY <1>10 DEF CountLinks
  <1>11. ASSUME NEW i \in Ips, SubmitToken(i) PROVE UNCHANGED <<links, mailed>>
    BY <1>11 DEF SubmitToken
  <1> QED BY <1>4, <1>5, <1>6, <1>7, <1>8, <1>9, <1>10, <1>11 DEF ResetsNext

\* The whole window.
LEMMA MailsBounded == ASSUME ResetsInv, MailsInv PROVE MailsWithin
  <1> SUFFICES ASSUME NEW u \in Owners
               PROVE  Tally(mailed, {u} \X LinkAges) + Cardinality(CreatingFor(u))
                        <= LinksPerUser - 1 + Cardinality(Threads)
    BY DEF MailsWithin
  <1>1. ResetWindow \in LinkAges /\ LinkAges = 0..ResetWindow BY ResetsAssumption DEF LinkAges
  <1>2. {u} \X LinkAges = MailsUpTo(u, ResetWindow) BY <1>1 DEF MailsUpTo
  <1>3. RowsUpTo(u, ResetWindow) = RowsFor(u)
    <2>1. \A k \in RowsFor(u) : k[3] <= ResetWindow
      <3> SUFFICES ASSUME NEW k \in RowsFor(u) PROVE k[3] <= ResetWindow OBVIOUS
      <3>1. k[3] \in LinkAges BY LinkTwin DEF RowsFor
      <3> QED BY <1>1, <3>1
    <2> QED BY <2>1 DEF RowsUpTo
  <1>4. LinksOf(u) = Tally(links, RowsUpTo(u, ResetWindow)) BY <1>3 DEF LinksOf, RowsFor
  <1>5. LinksOf(u) + Cardinality(CreatingFor(u)) <= LinksPerUser - 1 + Cardinality(Threads)
    BY DEF ResetsInv, LimitsHold
  <1>6. Tally(mailed, {u} \X LinkAges) <= LinksOf(u)
    BY <1>1, <1>2, <1>4 DEF MailsInv, MailsCounted
  <1>7. /\ links \in [LinkRows -> Nat] /\ mailed \in MailTables
    BY DEF ResetsInv, ResetsTypeOK, MailTables
  <1>8. Tally(mailed, {u} \X LinkAges) \in Nat /\ LinksOf(u) \in Nat
    BY <1>1, <1>2, <1>4, <1>7, MailsType
  <1> QED BY <1>5, <1>6, <1>8, CreatingFinite, ResetsAssumption

\* "RESET_MAX_PER_USER ... per account within the window": the run ResetLimit shows
\* that an account can be mailed more. The hourly prune is the only reason: as long
\* as it deletes no row younger than the window, recent_reset_count counts every
\* link mailed, and the mails exceed the limit by no more than one for each other
\* worker; with one worker they keep it.
THEOREM OnlySweepsForget ==
  ResetsSpec /\ [][~Forgets]_resetVars
    => [](MailsWithin /\ (Cardinality(Threads) = 1 => MailLimit))
  <1>1. ResetsInv /\ [ResetsNext]_resetVars => ResetsInv' BY ResetsStep
  <1>2. ResetsInv /\ ResetsInv' /\ MailsInv /\ [ResetsNext]_resetVars /\ [~Forgets]_resetVars
          => MailsInv'
    <2> SUFFICES ASSUME ResetsInv, ResetsInv', MailsInv, [ResetsNext]_resetVars,
                        [~Forgets]_resetVars
                 PROVE  MailsInv'
      OBVIOUS
    <2>1. ~Forgets BY DEF Forgets, resetVars
    <2> QED BY <2>1, MailsStep
  <1>3. ResetsInv /\ MailsInv => MailsWithin /\ (Cardinality(Threads) = 1 => MailLimit)
    <2> SUFFICES ASSUME ResetsInv, MailsInv
                 PROVE  MailsWithin /\ (Cardinality(Threads) = 1 => MailLimit)
      OBVIOUS
    <2>1. MailsWithin BY MailsBounded
    <2>2. ASSUME Cardinality(Threads) = 1, NEW u \in Owners
          PROVE  Tally(mailed, {u} \X LinkAges) <= LinksPerUser
      <3>1. mailed \in MailTables /\ links \in [LinkRows -> Nat]
        BY DEF ResetsInv, ResetsTypeOK, MailTables
      <3>2. ResetWindow \in LinkAges /\ {u} \X LinkAges = MailsUpTo(u, ResetWindow)
        BY ResetsAssumption DEF LinkAges, MailsUpTo
      <3>3. Tally(mailed, {u} \X LinkAges) \in Nat BY <3>1, <3>2, MailsType
      <3>4. Tally(mailed, {u} \X LinkAges) + Cardinality(CreatingFor(u)) <= LinksPerUser - 1 + 1
        BY <2>1, <2>2 DEF MailsWithin
      <3>5. Cardinality(CreatingFor(u)) \in Nat BY CreatingFinite
      <3> QED BY <3>3, <3>4, <3>5, ResetsAssumption
    <2> QED BY <2>1, <2>2 DEF MailLimit
  <1> QED BY <1>1, <1>2, <1>3, ResetsStart, MailsStart, PTL DEF ResetsSpec
=============================================================================
