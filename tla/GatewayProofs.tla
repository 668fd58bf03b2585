--------------------------- MODULE GatewayProofs ----------------------------
(***************************************************************************)
(* Proofs about the chat loop alone, the composition and the retry delay,  *)
(* for every value of the constants.  Each inductive invariant is stated   *)
(* first; its lemmas follow the structure of Next: the chat steps, the     *)
(* worker's steps, the administrator's, the clock and the crash.           *)
(***************************************************************************)
EXTENDS Gateway, Backoff, SequenceLemmas, TLAPS

(* The chat loop alone.  The three statements that follow a 429 are what the   *)
(* invariant is about: once the window is written its request stands between   *)
(* it and the queue, and the loop takes neither a window nor an event away     *)
(* again, so what a request has heard of stays so until it tells its client.   *)

LimitInv ==
    /\ FailoverTypeOK
    /\ WindowIsScheduled
    /\ \A r \in Requests : At(r, "ensure") => Exhausted(req[r].acct)
    /\ LimitAnsweredAfterSchedule

-----------------------------------------------------------------------------
(* Type correctness. *)

\* What each shape of statement does to the tables' types.
LEMMA UpdateAccountType ==
    ASSUME TablesTypeOK, NEW a \in Account, NEW row \in AccountRow, UpdateAccount(a, row)
    PROVE  TablesTypeOK'
  BY DEF TablesTypeOK, UpdateAccount

LEMMA WriteLostType ==
    ASSUME TablesTypeOK, WriteLost \/ UNCHANGED tables
    PROVE  TablesTypeOK'
  BY DEF TablesTypeOK, WriteLost, tables

LEMMA QueueType ==
    ASSUME TablesTypeOK, NEW a \in Account, NEW row \in QueueRow, SetQueueRow(a, row)
    PROVE  TablesTypeOK'
  BY DEF TablesTypeOK, SetQueueRow

\* The statements the handlers and the worker issue for one account.
LEMMA StatementType ==
    ASSUME StoreTypeOK, NEW a \in Account
    PROVE  /\ UpdateAccountTokens(a) => TablesTypeOK'
           /\ \A e \in BOOLEAN, s \in AuthStatus : SetAccountStatus(a, e, s) => TablesTypeOK'
           /\ \A n \in Nat : MarkAccountFailed(a, n) => TablesTypeOK'
           /\ MarkAccountSuccess(a) => TablesTypeOK'
           /\ ClearCooldown(a) => TablesTypeOK'
           /\ \A t \in Nat : UpsertQuotaWindow(a, 0, t) => TablesTypeOK'
           /\ \A n, t \in Nat : EnsureQuotaRecovery(a, n, t) => TablesTypeOK'
           /\ \A n, t \in Nat : RescheduleQuotaRecovery(a, n, t) => TablesTypeOK'
           /\ AckQuotaRecovery(a) => TablesTypeOK'
<1>. USE DEF StoreTypeOK
<1>. /\ accounts[a] \in AccountRow
     /\ queue[a] \in QueueRow
     /\ now \in Nat
  BY StoreAssumption DEF TablesTypeOK, Time
<1>1. UpdateAccountTokens(a) => TablesTypeOK'
  <2>. [accounts[a] EXCEPT !.auth = "active"] \in AccountRow
    BY DEF AccountRow, AuthStatus
  <2>. QED  BY UpdateAccountType DEF UpdateAccountTokens
<1>2. ASSUME NEW e \in BOOLEAN, NEW s \in AuthStatus
      PROVE  SetAccountStatus(a, e, s) => TablesTypeOK'
  <2>. [accounts[a] EXCEPT !.enabled = e, !.auth = s] \in AccountRow
    BY DEF AccountRow
  <2>. QED  BY UpdateAccountType, WriteLostType DEF SetAccountStatus
<1>3. ASSUME NEW n \in Nat
      PROVE  MarkAccountFailed(a, n) => TablesTypeOK'
  <2>. [accounts[a] EXCEPT !.cooldown = now + n] \in AccountRow
    BY DEF AccountRow
  <2>. QED  BY UpdateAccountType, WriteLostType DEF MarkAccountFailed
<1>4. MarkAccountSuccess(a) => TablesTypeOK'
  <2>. [accounts[a] EXCEPT !.cooldown = 0, !.lastUsed = now] \in AccountRow
    BY DEF AccountRow
  <2>. QED  BY UpdateAccountType, WriteLostType DEF MarkAccountSuccess
<1>5. ClearCooldown(a) => TablesTypeOK'
  <2>. [accounts[a] EXCEPT !.cooldown = 0] \in AccountRow
    BY DEF AccountRow
  <2>. QED  BY UpdateAccountType, WriteLostType DEF ClearCooldown
<1>6. ASSUME NEW t \in Nat
      PROVE  UpsertQuotaWindow(a, 0, t) => TablesTypeOK'
  <2>1. CASE WriteLost
    BY <2>1, WriteLostType
  <2>2. CASE /\ windows' = [windows EXCEPT ![a] =
                              [known |-> TRUE, remaining |-> 0, resetAt |-> t]]
             /\ UNCHANGED <<rows, nextId, accounts, queue, caps>>
    BY <2>2 DEF TablesTypeOK, QuotaWindow
  <2>. QED  BY <2>1, <2>2 DEF UpsertQuotaWindow
<1>7. ASSUME NEW n \in Nat, NEW t \in Nat
      PROVE  EnsureQuotaRecovery(a, n, t) => TablesTypeOK'
  BY QueueType, WriteLostType DEF EnsureQuotaRecovery, QueueRow
<1>8. ASSUME NEW n \in Nat, NEW t \in Nat
      PROVE  RescheduleQuotaRecovery(a, n, t) => TablesTypeOK'
  <2>. [queued |-> queue[a].queued,
        attempts |-> IF queue[a].queued THEN n ELSE 0,
        due |-> IF queue[a].queued THEN t ELSE 0] \in QueueRow
    BY DEF QueueRow
  <2>. QED  BY QueueType, WriteLostType DEF RescheduleQuotaRecovery
<1>9. AckQuotaRecovery(a) => TablesTypeOK'
  BY QueueType, WriteLostType DEF AckQuotaRecovery, QueueRow, NoEvent
<1>. QED  BY <1>1, <1>2, <1>3, <1>4, <1>5, <1>6, <1>7, <1>8, <1>9

\* The record of a request that starts another attempt.
LEMMA RetryRecordType ==
    ASSUME NEW q \in Request
    PROVE  /\ [q EXCEPT !.pc = "select", !.attempt = @ + 1, !.lastErr = TRUE] \in Request
           /\ \A c \in Code :
                [q EXCEPT !.pc = "select", !.attempt = @ + 1, !.lastErr = TRUE,
                          !.lastCode = c, !.code = "none", !.until = 0] \in Request
<1>1. ASSUME NEW n \in Nat
      PROVE  [q EXCEPT !.pc = "select", !.attempt = n, !.lastErr = TRUE] \in Request
  BY DEF Request, RequestPC
<1>2. ASSUME NEW n \in Nat, NEW c \in Code
      PROVE  [q EXCEPT !.pc = "select", !.attempt = n, !.lastErr = TRUE,
                       !.lastCode = c, !.code = "none", !.until = 0] \in Request
  BY DEF Request, RequestPC, Code
<1>3. q.attempt + 1 \in Nat
  BY DEF Request
<1>. QED  BY <1>1, <1>2, <1>3

\* The ways a chat step rewrites its request's record.
LEMMA RequestStepType ==
    ASSUME RequestsTypeOK, NEW r \in Requests
    PROVE  /\ \A ans \in Answer : Reply(r, ans) => RequestsTypeOK'
           /\ NextAttempt(r) => RequestsTypeOK'
           /\ \A c \in Code : NextAttemptWith(r, c) => RequestsTypeOK'
           /\ \A pc \in RequestPC :
                req[r].pc \in Holding /\ Goto(r, pc) => RequestsTypeOK'
<1>. USE DEF RequestsTypeOK
<1>. req[r] \in Request
  OBVIOUS
<1>1. ASSUME NEW ans \in Answer, Reply(r, ans)
      PROVE  RequestsTypeOK'
  <2>1. [NewRequest EXCEPT !.pc = "idle", !.answer = ans] \in Request
    BY DEF NewRequest, Request, RequestPC, Code, Answer
  <2>2. [NewRequest EXCEPT !.pc = "idle", !.answer = ans].pc \notin Holding
    BY DEF NewRequest, Holding
  <2>. QED  BY <1>1, <2>1, <2>2 DEF Reply
<1>2. ASSUME NextAttempt(r)
      PROVE  RequestsTypeOK'
  <2>1. req' = [req EXCEPT ![r] = [req[r] EXCEPT !.pc = "select", !.attempt = @ + 1,
                                                 !.lastErr = TRUE]]
    BY <1>2 DEF NextAttempt
  <2>2. [req[r] EXCEPT !.pc = "select", !.attempt = @ + 1, !.lastErr = TRUE] \in Request
    BY RetryRecordType
  <2>3. [req[r] EXCEPT !.pc = "select", !.attempt = @ + 1, !.lastErr = TRUE].pc \notin Holding
    BY DEF Request, Holding
  <2>. QED  BY <2>1, <2>2, <2>3
<1>3. ASSUME NEW c \in Code, NextAttemptWith(r, c)
      PROVE  RequestsTypeOK'
  <2>. DEFINE new == [req[r] EXCEPT !.pc = "select", !.attempt = @ + 1, !.lastErr = TRUE,
                                    !.lastCode = c, !.code = "none", !.until = 0]
  <2>1. req' = [req EXCEPT ![r] = new]
    BY <1>3 DEF NextAttemptWith
  <2>2. new \in Request
    BY RetryRecordType
  <2>3. new.pc \notin Holding
    BY DEF Request, Holding
  <2>. QED  BY <2>1, <2>2, <2>3
<1>4. ASSUME NEW pc \in RequestPC, req[r].pc \in Holding, Goto(r, pc)
      PROVE  RequestsTypeOK'
  <2>1. req' = [req EXCEPT ![r] = [req[r] EXCEPT !.pc = pc]]
    BY <1>4 DEF Goto
  <2>2. [req[r] EXCEPT !.pc = pc] \in Request
    BY DEF Request
  <2>3. [req[r] EXCEPT !.pc = pc].acct \in Account
    BY <1>4 DEF Request
  <2>. QED  BY <2>1, <2>2, <2>3
<1>. QED  BY <1>1, <1>2, <1>3, <1>4

LEMMA ChatType ==
    ASSUME FailoverTypeOK, NEW r \in Requests, Arrive(r) \/ Handle(r)
    PROVE  FailoverTypeOK'
<1>. USE DEF FailoverTypeOK
<1>. DEFINE a == req[r].acct
<1>1. /\ req[r] \in Request
      /\ now \in Nat
      /\ req[r].pc \in Holding => a \in Account
  BY StoreAssumption DEF RequestsTypeOK, StoreTypeOK, Time
<1>2. UNCHANGED store => StoreTypeOK'
  BY DEF store, tables, StoreTypeOK, TablesTypeOK
<1>3. UNCHANGED now /\ TablesTypeOK' => StoreTypeOK'
  BY DEF StoreTypeOK
<1>4. ASSUME At(r, "refresh") \/ At(r, "post") \/ At(r, "limited") \/ At(r, "upsert")
               \/ At(r, "ensure")
      PROVE  req[r].pc \in Holding /\ a \in Account
  BY <1>1, <1>4 DEF At, Holding
<1>5. "refresh" \in RequestPC /\ "post" \in RequestPC /\ "upsert" \in RequestPC
        /\ "ensure" \in RequestPC
  BY DEF RequestPC
<1>6. CASE Arrive(r)
  <2>1. NewRequest \in Request /\ NewRequest.pc \notin Holding
    BY DEF NewRequest, Request, RequestPC, Code, Answer, Holding
  <2>. QED  BY <1>2, <1>6, <2>1 DEF Arrive, RequestsTypeOK
<1>7. CASE Select(r)
  <2>1. PICK b \in Account : req' = [req EXCEPT ![r].pc = "refresh", ![r].acct = b]
    BY <1>7 DEF Select
  <2>2. req' = [req EXCEPT ![r] = [req[r] EXCEPT !.pc = "refresh", !.acct = b]]
    BY <2>1
  <2>3. [req[r] EXCEPT !.pc = "refresh", !.acct = b] \in Request
    BY <1>1 DEF Request, RequestPC
  <2>4. [req[r] EXCEPT !.pc = "refresh", !.acct = b].acct \in Account
    BY <1>1 DEF Request
  <2>. QED  BY <1>2, <1>7, <2>2, <2>3, <2>4 DEF Select, RequestsTypeOK
<1>8. CASE GiveUp(r)
  <2>1. FinalAnswer(r) \in Answer
    BY DEF FinalAnswer, Answer
  <2>. QED  BY <1>2, <1>8, <2>1, RequestStepType DEF GiveUp
<1>9. CASE RefreshValid(r)
  BY <1>2, <1>4, <1>5, <1>9, RequestStepType DEF RefreshValid
<1>10. CASE RefreshStored(r)
  BY <1>3, <1>4, <1>5, <1>10, RequestStepType, StatementType DEF RefreshStored
<1>11. CASE RefreshDenied(r)
  <2>. TRUE \in BOOLEAN /\ "reauthRequired" \in AuthStatus
    BY DEF AuthStatus
  <2>. QED  BY <1>3, <1>4, <1>11, RequestStepType, StatementType DEF RefreshDenied
<1>12. CASE RefreshFailed(r)
  BY <1>3, <1>4, <1>12, RequestStepType, StatementType, FailoverAssumption DEF RefreshFailed
<1>13. CASE PostFailed(r)
  BY <1>3, <1>4, <1>13, RequestStepType, StatementType, FailoverAssumption DEF PostFailed
<1>14. CASE PostLimited(r)
  <2>1. PICK c \in {"429", "503"}, n \in Nat :
            req' = [req EXCEPT ![r].pc = "limited", ![r].code = c,
                               ![r].cool = n, ![r].until = now + n]
    BY <1>14, FailoverAssumption DEF PostLimited
  <2>. DEFINE t == now + n
  <2>2. t \in Nat
    BY <1>1
  <2>3. req' = [req EXCEPT ![r] = [req[r] EXCEPT !.pc = "limited", !.code = c,
                                                 !.cool = n, !.until = t]]
    BY <2>1
  <2>. HIDE DEF t
  <2>4. [req[r] EXCEPT !.pc = "limited", !.code = c, !.cool = n, !.until = t] \in Request
    BY <1>1, <2>2 DEF Request, RequestPC, Code
  <2>5. [req[r] EXCEPT !.pc = "limited", !.code = c, !.cool = n, !.until = t].acct \in Account
    BY <1>1, <1>4, <1>14 DEF Request, PostLimited
  <2>. QED  BY <1>2, <1>14, <2>3, <2>4, <2>5 DEF PostLimited, RequestsTypeOK
<1>15. CASE CoolDown(r)
  <2>1. req' = [req EXCEPT ![r] = [req[r] EXCEPT !.pc = "upsert", !.cool = 0]]
    BY <1>15 DEF CoolDown
  <2>2. [req[r] EXCEPT !.pc = "upsert", !.cool = 0] \in Request
    BY <1>1 DEF Request, RequestPC
  <2>3. [req[r] EXCEPT !.pc = "upsert", !.cool = 0].acct \in Account
    BY <1>1, <1>4, <1>15 DEF Request, CoolDown
  <2>4. RequestsTypeOK'
    BY <2>1, <2>2, <2>3 DEF RequestsTypeOK
  <2>5. req[r].cool \in Nat
    BY <1>1 DEF Request
  <2>. QED  BY <1>3, <1>4, <1>15, <2>4, <2>5, StatementType DEF CoolDown
<1>16. CASE RecordWindow(r)
  <2>1. req[r].until \in Nat
    BY <1>1 DEF Request
  <2>. QED  BY <1>3, <1>4, <1>5, <1>16, <2>1, RequestStepType, StatementType DEF RecordWindow
<1>17. CASE ScheduleProbe(r)
  <2>1. req[r].until \in Nat /\ req[r].code \in Code
    BY <1>1 DEF Request
  <2>. QED  BY <1>3, <1>4, <1>17, <2>1, RequestStepType, StatementType DEF ScheduleProbe
<1>18. CASE PostOther(r)
  <2>1. "other" \in Code
    BY DEF Code
  <2>. QED  BY <1>2, <1>18, <2>1, RequestStepType DEF PostOther
<1>19. CASE PostOk(r)
  <2>1. "200" \in Answer
    BY DEF Answer
  <2>. QED  BY <1>3, <1>4, <1>19, <2>1, RequestStepType, StatementType DEF PostOk
<1>. QED
  BY <1>6, <1>7, <1>8, <1>9, <1>10, <1>11, <1>12, <1>13, <1>14, <1>15, <1>16, <1>17,
     <1>18, <1>19 DEF Handle

LEMMA LoopType == FailoverTypeOK /\ [FailoverNext]_failoverVars => FailoverTypeOK'
<1>. SUFFICES ASSUME FailoverTypeOK, [FailoverNext]_failoverVars PROVE FailoverTypeOK'
  OBVIOUS
<1>1. CASE Clients
  BY <1>1, ChatType DEF Clients
<1>2. CASE Tick
  <2>1. now' \in Time
    BY StoreAssumption, <1>2 DEF Tick, AdvanceClock, FailoverTypeOK, StoreTypeOK, Time
  <2>. QED
    BY <1>2, <2>1
       DEF Tick, FailoverTypeOK, StoreTypeOK, TablesTypeOK, RequestsTypeOK, tables
<1>3. CASE UNCHANGED failoverVars
  BY <1>3
     DEF failoverVars, store, tables, FailoverTypeOK, StoreTypeOK, TablesTypeOK, RequestsTypeOK
<1>. QED  BY <1>1, <1>2, <1>3 DEF FailoverNext

-----------------------------------------------------------------------------
(* Windows and events. *)

\* What the loop does to the two tables: it writes windows that read exhausted, and
\* queues events; a write that is not lost, and nothing else.
LEMMA LimitTables ==
    ASSUME DbMayFail = FALSE, FailoverTypeOK, NEW r \in Requests, Arrive(r) \/ Handle(r)
    PROVE  /\ ~RecordWindow(r) => windows' = windows
           /\ ~ScheduleProbe(r) => queue' = queue
  BY DEF Arrive, Handle, Select, GiveUp, RefreshValid, RefreshStored, RefreshDenied,
         RefreshFailed, PostFailed, PostLimited, PostOther, PostOk, CoolDown, RecordWindow,
         ScheduleProbe, UpdateAccountTokens, SetAccountStatus, MarkAccountFailed,
         MarkAccountSuccess, UpdateAccount, UpsertQuotaWindow, EnsureQuotaRecovery,
         SetQueueRow, WriteLost, store, tables

LEMMA Recorded ==
    ASSUME DbMayFail = FALSE, FailoverTypeOK, NEW r \in Requests, RecordWindow(r)
    PROVE  /\ req[r].acct \in Account
           /\ \A a \in Account : Exhausted(a)' <=> Exhausted(a) \/ a = req[r].acct
<1>1. req[r].acct \in Account
  BY DEF FailoverTypeOK, RequestsTypeOK, RecordWindow, At, Holding
<1>2. windows' = [windows EXCEPT ![req[r].acct] =
                    [known |-> TRUE, remaining |-> 0, resetAt |-> req[r].until]]
  BY DEF RecordWindow, UpsertQuotaWindow, WriteLost
<1>. QED  BY <1>1, <1>2 DEF FailoverTypeOK, StoreTypeOK, TablesTypeOK, Exhausted

LEMMA Probed ==
    ASSUME DbMayFail = FALSE, FailoverTypeOK, NEW r \in Requests, ScheduleProbe(r)
    PROVE  /\ req[r].acct \in Account
           /\ \A a \in Account : queue'[a].queued <=> queue[a].queued \/ a = req[r].acct
<1>1. req[r].acct \in Account
  BY DEF FailoverTypeOK, RequestsTypeOK, ScheduleProbe, At, Holding
<1>2. queue' = [queue EXCEPT ![req[r].acct] =
                    [queued |-> TRUE, attempts |-> 0, due |-> req[r].until]]
  BY DEF ScheduleProbe, EnsureQuotaRecovery, SetQueueRow, WriteLost
<1>3. queue \in [Account -> QueueRow]
  BY DEF FailoverTypeOK, StoreTypeOK, TablesTypeOK
<1>4. queue'[req[r].acct].queued
  BY <1>1, <1>2, <1>3
<1>5. \A a \in Account : a # req[r].acct => queue'[a] = queue[a]
  BY <1>2, <1>3
<1>. QED  BY <1>1, <1>4, <1>5

\* Neither an exhausted window nor an event is taken away.
LEMMA LimitsStay ==
    ASSUME DbMayFail = FALSE, FailoverTypeOK, NEW r \in Requests, Arrive(r) \/ Handle(r)
    PROVE  \A a \in Account : /\ Exhausted(a) => Exhausted(a)'
                              /\ queue[a].queued => queue'[a].queued
<1>1. ASSUME NEW a \in Account, Exhausted(a) PROVE Exhausted(a)'
  BY <1>1, LimitTables, Recorded DEF Exhausted
<1>2. ASSUME NEW a \in Account, queue[a].queued PROVE queue'[a].queued
  BY <1>2, LimitTables, Probed
<1>. QED  BY <1>1, <1>2

\* What the steps that go on with an attempt do to their request's record.
LEMMA GoesOn ==
    ASSUME FailoverTypeOK, NEW r \in Requests, Select(r) \/ PostLimited(r) \/ CoolDown(r)
    PROVE  /\ req'[r].pc # "ensure"
           /\ req'[r].lastCode = req[r].lastCode /\ req'[r].answer = req[r].answer
<1>1. req \in [Requests -> Request] /\ req[r] \in Request
  BY DEF FailoverTypeOK, RequestsTypeOK
<1>2. CASE Select(r)
  <2>1. PICK a \in Account : req' = [req EXCEPT ![r].pc = "refresh", ![r].acct = a]
    BY <1>2 DEF Select
  <2>2. req'[r] = [req[r] EXCEPT !.pc = "refresh", !.acct = a]
    BY <1>1, <2>1
  <2>. QED  BY <1>1, <2>2 DEF Request
<1>3. CASE PostLimited(r)
  <2>1. PICK c, n : req' = [req EXCEPT ![r].pc = "limited", ![r].code = c,
                                       ![r].cool = n, ![r].until = now + n]
    BY <1>3 DEF PostLimited
  <2>2. req'[r] = [req[r] EXCEPT !.pc = "limited", !.code = c, !.cool = n, !.until = now + n]
    BY <1>1, <2>1
  <2>. QED  BY <1>1, <2>2 DEF Request
<1>4. CASE CoolDown(r)
  <2>1. req'[r] = [req[r] EXCEPT !.pc = "upsert", !.cool = 0]
    BY <1>1, <1>4 DEF CoolDown
  <2>. QED  BY <1>1, <2>1 DEF Request
<1>. QED  BY <1>2, <1>3, <1>4

\* Another request's record is left alone, and this one stands before the queue only
\* after it has written the window.
LEMMA AtEnsure ==
    ASSUME FailoverTypeOK, NEW r \in Requests, Arrive(r) \/ Handle(r)
    PROVE  /\ \A s \in Requests : s # r => req'[s] = req[s]
           /\ req'[r].pc = "ensure" => RecordWindow(r) /\ req'[r].acct = req[r].acct
           /\ req[r].pc = "ensure" => ScheduleProbe(r)
<1>1. \A s \in Requests : s # r => req'[s] = req[s]
  BY DEF FailoverTypeOK, RequestsTypeOK, Arrive, Handle, Select, GiveUp, RefreshValid,
         RefreshStored, RefreshDenied, RefreshFailed, PostFailed, PostLimited, PostOther,
         PostOk, CoolDown, RecordWindow, ScheduleProbe, Reply, Goto, NextAttempt, NextAttemptWith
<1>2. req[r].pc = "ensure" => ScheduleProbe(r)
  BY DEF Arrive, Handle, Select, GiveUp, RefreshValid, RefreshStored, RefreshDenied,
         RefreshFailed, PostFailed, PostLimited, PostOther, PostOk, CoolDown, RecordWindow, At
<1>3. req \in [Requests -> Request]
  BY DEF FailoverTypeOK, RequestsTypeOK
<1>4. RecordWindow(r) => req'[r].acct = req[r].acct
  BY <1>3 DEF RecordWindow, Goto, Request
<1>5. ~RecordWindow(r) => req'[r].pc # "ensure"
  <2>1. CASE Select(r) \/ PostLimited(r) \/ CoolDown(r)
    BY <2>1, GoesOn
  <2>2. CASE Arrive(r) \/ GiveUp(r) \/ PostOk(r)
    <3>1. CASE Arrive(r)
      BY <1>3, <3>1 DEF Arrive, NewRequest
    <3>2. ASSUME NEW answer, Reply(r, answer) PROVE req'[r].pc = "idle"
      BY <1>3, <3>2 DEF Reply, NewRequest
    <3>3. CASE GiveUp(r) \/ PostOk(r)
      BY <3>2, <3>3 DEF GiveUp, PostOk
    <3>. QED  BY <2>2, <3>1, <3>3
  <2>3. CASE PostOther(r) \/ ScheduleProbe(r)
    <3>1. PICK c : NextAttemptWith(r, c)
      BY <2>3 DEF PostOther, ScheduleProbe
    <3>2. req'[r] = [req[r] EXCEPT !.pc = "select", !.attempt = @ + 1, !.lastErr = TRUE,
                                   !.lastCode = c, !.code = "none", !.until = 0]
      BY <1>3, <3>1 DEF NextAttemptWith
    <3>. QED  BY <1>3, <3>2 DEF Request
  <2>4. CASE RefreshDenied(r) \/ RefreshFailed(r) \/ PostFailed(r)
    BY <1>3, <2>4 DEF RefreshDenied, RefreshFailed, PostFailed, NextAttempt, Request
  <2>5. CASE RefreshValid(r) \/ RefreshStored(r)
    BY <1>3, <2>5 DEF RefreshValid, RefreshStored, Goto, Request
  <2>. QED  BY <2>1, <2>2, <2>3, <2>4, <2>5 DEF Handle
<1>. QED  BY <1>1, <1>2, <1>4, <1>5

\* A request learns of a limit by queueing the probe.
LEMMA LimitHeard ==
    ASSUME FailoverTypeOK, NEW r \in Requests, Arrive(r) \/ Handle(r)
    PROVE  {req'[r].lastCode, req'[r].answer} \cap {"429"} # {} =>
              {req[r].lastCode, req[r].answer} \cap {"429"} # {} \/ ScheduleProbe(r)
<1>1. req \in [Requests -> Request]
  BY DEF FailoverTypeOK, RequestsTypeOK
<1>2. CASE Arrive(r)
  BY <1>1, <1>2 DEF Arrive, NewRequest
<1>3. CASE GiveUp(r)
  BY <1>1, <1>3 DEF GiveUp, Reply, FinalAnswer, NewRequest
<1>4. CASE PostOk(r)
  BY <1>1, <1>4 DEF PostOk, Reply, NewRequest
<1>5. CASE PostOther(r)
  BY <1>1, <1>5 DEF PostOther, NextAttemptWith, Request
<1>6. CASE RefreshDenied(r) \/ RefreshFailed(r) \/ PostFailed(r)
  BY <1>1, <1>6 DEF RefreshDenied, RefreshFailed, PostFailed, NextAttempt, Request
<1>7. CASE RefreshValid(r) \/ RefreshStored(r) \/ RecordWindow(r)
  BY <1>1, <1>7 DEF RefreshValid, RefreshStored, RecordWindow, Goto, Request
<1>8. CASE Select(r) \/ PostLimited(r) \/ CoolDown(r)
  BY <1>8, GoesOn
<1>. QED  BY <1>2, <1>3, <1>4, <1>5, <1>6, <1>7, <1>8 DEF Handle

LEMMA LimitInvInit == AloneInit => LimitInv
<1>. SUFFICES ASSUME AloneInit PROVE LimitInv
  OBVIOUS
<1>1. StoreTypeOK
  <2>1. 1 \in Time /\ 1..InitAccounts \subseteq Account /\ InitAccounts + 1 \in 1..(MaxAccount + 1)
    BY StoreAssumption DEF Time, Account
  <2>2. NewAccount \in AccountRow /\ NoWindow \in QuotaWindow /\ NoEvent \in QueueRow
    BY DEF NewAccount, AccountRow, AuthStatus, NoWindow, QuotaWindow, NoEvent, QueueRow
  <2>. QED  BY <2>1, <2>2 DEF AloneInit, StoreInit, StoreTypeOK, TablesTypeOK
<1>2. \A r \in Requests : req[r].pc = "idle" /\ req[r].lastCode = "none" /\ req[r].answer = "none"
  BY DEF AloneInit, FailoverInit, NoRequests, NewRequest
<1>3. RequestsTypeOK
  <2>1. [NewRequest EXCEPT !.pc = "idle"] \in Request
    BY DEF NewRequest, Request, RequestPC, Code, Answer
  <2>. QED  BY <1>2, <2>1 DEF AloneInit, FailoverInit, NoRequests, RequestsTypeOK, Holding
<1>4. \A a \in Account : ~Exhausted(a)
  BY DEF AloneInit, StoreInit, NoWindow, Exhausted
<1>. QED
  BY <1>1, <1>2, <1>3, <1>4
     DEF LimitInv, FailoverTypeOK, WindowIsScheduled, LimitAnsweredAfterSchedule, At

LEMMA LimitInvNext ==
    ASSUME DbMayFail = FALSE, LimitInv, [FailoverNext]_failoverVars
    PROVE  LimitInv'
<1>1. FailoverTypeOK /\ FailoverTypeOK'
  BY LoopType DEF LimitInv
<1>2. ASSUME NEW r \in Requests, Arrive(r) \/ Handle(r) PROVE LimitInv'
  <2>1. WindowIsScheduled'
    <3>. SUFFICES ASSUME NEW a \in Account, Exhausted(a)'
                  PROVE  \/ queue'[a].queued
                         \/ \E s \in Requests : req'[s].pc = "ensure" /\ req'[s].acct = a
      BY DEF WindowIsScheduled, At
    <3>1. CASE Exhausted(a) /\ queue[a].queued
      BY <1>1, <1>2, <3>1, LimitsStay
    <3>2. CASE Exhausted(a) /\ ~queue[a].queued
      <4>1. PICK s \in Requests : req[s].pc = "ensure" /\ req[s].acct = a
        BY <3>2 DEF LimitInv, WindowIsScheduled, At
      <4>2. CASE s = r
        BY <1>1, <1>2, <4>1, <4>2, AtEnsure, Probed
      <4>3. CASE s # r
        BY <1>1, <1>2, <4>1, <4>3, AtEnsure
      <4>. QED  BY <4>2, <4>3
    <3>3. CASE ~Exhausted(a)
      <4>1. RecordWindow(r) /\ a = req[r].acct
        BY <1>1, <1>2, <3>3, LimitTables, Recorded DEF Exhausted
      <4>2. req'[r].pc = "ensure" /\ req'[r].acct = req[r].acct
        BY <1>1, <4>1 DEF RecordWindow, Goto, FailoverTypeOK, RequestsTypeOK, Request
      <4>. QED  BY <4>1, <4>2
    <3>. QED  BY <3>1, <3>2, <3>3
  <2>2. ASSUME NEW s \in Requests, At(s, "ensure")' PROVE Exhausted(req[s].acct)'
                                                        /\ req'[s].acct = req[s].acct
    <3>1. CASE s = r
      BY <1>1, <1>2, <2>2, <3>1, AtEnsure, Recorded DEF At
    <3>2. CASE s # r
      <4>1. req'[s] = req[s] /\ At(s, "ensure")
        BY <1>1, <1>2, <2>2, <3>2, AtEnsure DEF At
      <4>2. req[s].acct \in Account /\ Exhausted(req[s].acct)
        BY <1>1, <4>1 DEF LimitInv, FailoverTypeOK, RequestsTypeOK, At, Holding
      <4>. QED  BY <1>1, <1>2, <4>1, <4>2, LimitsStay
    <3>. QED  BY <3>1, <3>2
  <2>3. LimitAnsweredAfterSchedule'
    <3>. SUFFICES ASSUME NEW s \in Requests,
                         {req'[s].lastCode, req'[s].answer} \cap {"429"} # {}
                  PROVE  \E a \in Account : Exhausted(a)' /\ queue'[a].queued
      BY DEF LimitAnsweredAfterSchedule
    <3>1. CASE {req[s].lastCode, req[s].answer} \cap {"429"} # {}
      <4>1. PICK a \in Account : Exhausted(a) /\ queue[a].queued
        BY <3>1 DEF LimitInv, LimitAnsweredAfterSchedule
      <4>. QED  BY <1>1, <1>2, <4>1, LimitsStay
    <3>2. CASE {req[s].lastCode, req[s].answer} \cap {"429"} = {}
      <4>1. s = r /\ ScheduleProbe(r)
        BY <1>1, <1>2, <3>2, AtEnsure, LimitHeard
      <4>2. req[r].acct \in Account /\ queue'[req[r].acct].queued
        BY <1>1, <4>1, Probed
      <4>3. Exhausted(req[r].acct)
        BY <4>1 DEF LimitInv, ScheduleProbe
      <4>. QED  BY <1>1, <1>2, <4>2, <4>3, LimitsStay
    <3>. QED  BY <3>1, <3>2
  <2>. QED  BY <1>1, <2>1, <2>2, <2>3 DEF LimitInv, Exhausted
<1>3. CASE UNCHANGED <<windows, queue, req>>
  BY <1>1, <1>3
     DEF LimitInv, WindowIsScheduled, LimitAnsweredAfterSchedule, Exhausted, At
<1>. QED
  BY <1>2, <1>3 DEF FailoverNext, Clients, Tick, failoverVars, store, tables

LEMMA LimitInvariant ==
    ASSUME DbMayFail = FALSE
    PROVE  FailoverSpec => []LimitInv
  BY LimitInvInit, LimitInvNext, PTL DEF FailoverSpec

-----------------------------------------------------------------------------
\* As long as no write is lost, an exhausted window has its probe queued or a request
\* about to queue it, however many requests write the same account's rows.
THEOREM WindowsAreScheduled ==
    ASSUME DbMayFail = FALSE
    PROVE  FailoverSpec => []WindowIsScheduled
<1>1. LimitInv => WindowIsScheduled
  BY DEF LimitInv
<1>. QED  BY <1>1, LimitInvariant, PTL

\* As long as no write is lost, no client hears of an exhausted quota before the
\* probe that ends it is queued.
THEOREM LimitsAreScheduled ==
    ASSUME DbMayFail = FALSE
    PROVE  FailoverSpec => []LimitAnsweredAfterSchedule
<1>1. LimitInv => LimitAnsweredAfterSchedule
  BY DEF LimitInv
<1>. QED  BY <1>1, LimitInvariant, PTL

-----------------------------------------------------------------------------
(* Cooldowns and windows. *)

\* Two requests hold one account.
Shared == \E r, s \in Requests : r # s /\ {req[r].pc, req[s].pc} \subseteq Holding
                                       /\ req[r].acct = req[s].acct

\* The account a request was given had rested, so its window, if it has one, had been
\* reset; and the cooldown a limit sets ends no earlier than the window written for it.
RestInv ==
    \A r \in Requests :
        /\ req[r].pc \in {"refresh", "post", "limited"} => accounts[req[r].acct].cooldown <= now
        /\ req[r].pc = "limited" => req[r].until <= now + req[r].cool
        /\ req[r].pc = "upsert" /\ req[r].acct \in rows
             => req[r].until <= accounts[req[r].acct].cooldown

Covered == \A a \in rows : Exhausted(a) /\ windows[a].resetAt > now
                             => accounts[a].cooldown >= windows[a].resetAt

CoverInv == RestInv /\ Covered

LEMMA Fields ==
    ASSUME FailoverTypeOK
    PROVE  /\ now \in Nat /\ rows \subseteq Account
           /\ accounts \in [Account -> AccountRow] /\ windows \in [Account -> QuotaWindow]
           /\ req \in [Requests -> Request]
           /\ \A r \in Requests : /\ req[r].until \in Nat /\ req[r].cool \in Nat
                                  /\ req[r].pc \in Holding => req[r].acct \in Account
           /\ \A a \in Account : accounts[a].cooldown \in Nat /\ windows[a].resetAt \in Nat
<1>1. /\ now \in Nat /\ rows \subseteq Account
      /\ accounts \in [Account -> AccountRow] /\ windows \in [Account -> QuotaWindow]
      /\ req \in [Requests -> Request]
      /\ \A r \in Requests : req[r].pc \in Holding => req[r].acct \in Account
  BY DEF FailoverTypeOK, StoreTypeOK, TablesTypeOK, RequestsTypeOK, Time
<1>2. \A r \in Requests : req[r].until \in Nat /\ req[r].cool \in Nat
  BY <1>1 DEF Request
<1>3. \A a \in Account : accounts[a].cooldown \in Nat /\ windows[a].resetAt \in Nat
  BY <1>1 DEF AccountRow, QuotaWindow
<1>. QED  BY <1>1, <1>2, <1>3

\* A request's record after a step, as far as the cover goes by it.
LEMMA RecordAfter ==
    ASSUME FailoverTypeOK, NEW r \in Requests, Arrive(r) \/ Handle(r)
    PROVE  /\ \A s \in Requests : s # r => req'[s] = req[s]
           /\ req'[r].pc \in {"refresh", "post"} =>
                \/ /\ accounts' = accounts /\ req'[r].acct \in Account /\ Healthy(req'[r].acct)
                \/ /\ RefreshValid(r) \/ RefreshStored(r)
                   /\ req'[r].acct = req[r].acct
           /\ req'[r].pc = "limited" =>
                PostLimited(r) /\ req'[r].acct = req[r].acct /\ req'[r].until = now + req'[r].cool
           /\ req'[r].pc = "upsert" =>
                /\ CoolDown(r) /\ req'[r].acct = req[r].acct /\ req'[r].until = req[r].until
<1>. /\ req \in [Requests -> Request] /\ req[r] \in Request
  BY Fields
<1>1. \A s \in Requests : s # r => req'[s] = req[s]
  BY AtEnsure
<1>2. CASE Arrive(r)
  BY <1>1, <1>2 DEF Arrive, NewRequest
<1>3. CASE Select(r)
  <2>1. PICK a \in Account : Healthy(a) /\ req' = [req EXCEPT ![r].pc = "refresh", ![r].acct = a]
    BY <1>3 DEF Select, GetHealthyAccountForModel
  <2>2. req'[r] = [req[r] EXCEPT !.pc = "refresh", !.acct = a]
    BY <2>1
  <2>3. req'[r].pc = "refresh" /\ req'[r].acct = a
    BY <2>2 DEF Request
  <2>4. accounts' = accounts
    BY <1>3 DEF Select, store, tables
  <2>. QED  BY <1>1, <2>1, <2>3, <2>4
<1>4. CASE GiveUp(r) \/ PostOk(r)
  <2>1. PICK answer : Reply(r, answer)
    BY <1>4 DEF GiveUp, PostOk
  <2>2. req'[r].pc = "idle"
    BY <2>1 DEF Reply, NewRequest
  <2>. QED  BY <1>1, <2>2
<1>5. CASE RefreshValid(r) \/ RefreshStored(r)
  <2>1. req'[r].pc = "post" /\ req'[r].acct = req[r].acct
    BY <1>5 DEF RefreshValid, RefreshStored, Goto, Request
  <2>. QED  BY <1>1, <1>5, <2>1
<1>6. CASE RefreshDenied(r) \/ RefreshFailed(r) \/ PostFailed(r)
  <2>1. req'[r].pc = "select"
    BY <1>6 DEF RefreshDenied, RefreshFailed, PostFailed, NextAttempt, Request
  <2>. QED  BY <1>1, <2>1
<1>7. CASE PostOther(r) \/ ScheduleProbe(r)
  <2>1. PICK c : NextAttemptWith(r, c)
    BY <1>7 DEF PostOther, ScheduleProbe
  <2>2. req'[r] = [req[r] EXCEPT !.pc = "select", !.attempt = @ + 1, !.lastErr = TRUE,
                                 !.lastCode = c, !.code = "none", !.until = 0]
    BY <2>1 DEF NextAttemptWith
  <2>3. req'[r].pc = "select"
    BY <2>2 DEF Request
  <2>. QED  BY <1>1, <2>3
<1>8. CASE PostLimited(r)
  <2>1. PICK c, n : req' = [req EXCEPT ![r].pc = "limited", ![r].code = c,
                                       ![r].cool = n, ![r].until = now + n]
    BY <1>8 DEF PostLimited
  <2>2. req'[r] = [req[r] EXCEPT !.pc = "limited", !.code = c, !.cool = n, !.until = now + n]
    BY <2>1
  <2>3. req'[r].pc = "limited" /\ req'[r].acct = req[r].acct /\ req'[r].until = now + req'[r].cool
    BY <2>2 DEF Request
  <2>. QED  BY <1>1, <1>8, <2>3
<1>9. CASE CoolDown(r)
  <2>1. req'[r] = [req[r] EXCEPT !.pc = "upsert", !.cool = 0]
    BY <1>9 DEF CoolDown
  <2>2. req'[r].pc = "upsert" /\ req'[r].acct = req[r].acct /\ req'[r].until = req[r].until
    BY <2>1 DEF Request
  <2>. QED  BY <1>1, <1>9, <2>2
<1>10. CASE RecordWindow(r)
  <2>1. req'[r].pc = "ensure"
    BY <1>10 DEF RecordWindow, Goto, Request
  <2>. QED  BY <1>1, <2>1
<1>. QED  BY <1>2, <1>3, <1>4, <1>5, <1>6, <1>7, <1>8, <1>9, <1>10 DEF Handle

\* Which cooldowns a step moves: only the one of the account it holds.
LEMMA CooldownAfter ==
    ASSUME DbMayFail = FALSE, FailoverTypeOK, NEW r \in Requests, Arrive(r) \/ Handle(r)
    PROVE  /\ now' = now /\ rows' = rows
           /\ \A a \in Account :
                \/ accounts'[a].cooldown = accounts[a].cooldown
                \/ /\ a = req[r].acct /\ a \in rows
                   /\ req[r].pc \in {"refresh", "post", "limited"}
           /\ CoolDown(r) /\ req[r].acct \in rows
                => accounts'[req[r].acct].cooldown = now + req[r].cool
           /\ RefreshValid(r) \/ RefreshStored(r) \/ PostLimited(r)
                => \A a \in Account : accounts'[a].cooldown = accounts[a].cooldown
<1>. /\ accounts \in [Account -> AccountRow] /\ now \in Nat /\ rows \subseteq Account
     /\ req[r].pc \in Holding => req[r].acct \in Account
  BY Fields
<1>0. now' = now /\ rows' = rows
  BY DEF Arrive, Handle, Select, GiveUp, RefreshValid, RefreshStored, RefreshDenied,
         RefreshFailed, PostFailed, PostLimited, PostOther, PostOk, CoolDown, RecordWindow,
         ScheduleProbe, UpdateAccountTokens, SetAccountStatus, MarkAccountFailed,
         MarkAccountSuccess, UpdateAccount, UpsertQuotaWindow, EnsureQuotaRecovery,
         SetQueueRow, WriteLost, store, tables
<1>1. ASSUME NEW row, UpdateAccount(req[r].acct, row)
      PROVE  /\ \A a \in Account : a # req[r].acct => accounts'[a] = accounts[a]
             /\ req[r].acct \in rows => accounts'[req[r].acct] = row
             /\ req[r].acct \notin rows => accounts' = accounts
  BY <1>1 DEF UpdateAccount
<1>2. CASE accounts' = accounts /\ ~CoolDown(r)
  BY <1>0, <1>2
<1>3. CASE RefreshStored(r) \/ RefreshDenied(r)
  <2>1. req[r].acct \in Account /\ accounts[req[r].acct] \in AccountRow /\ req[r].pc = "refresh"
    BY <1>3 DEF RefreshStored, RefreshDenied, At, Holding
  <2>2. PICK row : /\ UpdateAccount(req[r].acct, row)
                   /\ row.cooldown = accounts[req[r].acct].cooldown
    <3>1. CASE RefreshStored(r)
      <4>1. [accounts[req[r].acct] EXCEPT !.auth = "active"].cooldown = accounts[req[r].acct].cooldown
        BY <2>1 DEF AccountRow
      <4>. QED  BY <3>1, <4>1 DEF RefreshStored, UpdateAccountTokens
    <3>2. CASE RefreshDenied(r)
      <4>1. [accounts[req[r].acct] EXCEPT !.enabled = TRUE, !.auth = "reauthRequired"].cooldown
              = accounts[req[r].acct].cooldown
        BY <2>1 DEF AccountRow
      <4>. QED  BY <3>2, <4>1 DEF RefreshDenied, SetAccountStatus, WriteLost
    <3>. QED  BY <1>3, <3>1, <3>2
  <2>3. \A a \in Account : accounts'[a].cooldown = accounts[a].cooldown
    BY <1>1, <2>1, <2>2
  <2>4. ~CoolDown(r)
    BY <2>1 DEF CoolDown, At
  <2>. QED  BY <1>0, <2>3, <2>4
<1>4. CASE RefreshFailed(r) \/ PostFailed(r) \/ PostOk(r)
  <2>1. req[r].acct \in Account /\ req[r].pc \in {"refresh", "post"}
    BY <1>4 DEF RefreshFailed, PostFailed, PostOk, At, Holding
  <2>2. PICK row : UpdateAccount(req[r].acct, row)
    BY <1>4 DEF RefreshFailed, PostFailed, PostOk, MarkAccountFailed, MarkAccountSuccess, WriteLost
  <2>3. \A a \in Account : \/ accounts'[a].cooldown = accounts[a].cooldown
                           \/ a = req[r].acct /\ a \in rows
    BY <1>1, <2>2
  <2>4. ~CoolDown(r)
    BY <2>1 DEF CoolDown, At
  <2>5. RefreshValid(r) \/ RefreshStored(r) \/ PostLimited(r)
          => accounts' = accounts \/ RefreshStored(r)
    BY DEF RefreshValid, PostLimited, store, tables
  <2>. QED  BY <1>0, <1>3, <2>1, <2>3, <2>4, <2>5
<1>5. CASE CoolDown(r)
  <2>1. req[r].acct \in Account /\ accounts[req[r].acct] \in AccountRow /\ req[r].pc = "limited"
    BY <1>5 DEF CoolDown, At, Holding
  <2>. DEFINE row == [accounts[req[r].acct] EXCEPT !.cooldown = now + req[r].cool]
  <2>2. UpdateAccount(req[r].acct, row)
    BY <1>5 DEF CoolDown, MarkAccountFailed, WriteLost
  <2>3. row.cooldown = now + req[r].cool
    BY <2>1 DEF AccountRow
  <2>4. ~(RefreshValid(r) \/ RefreshStored(r) \/ PostLimited(r))
    BY <2>1 DEF RefreshValid, RefreshStored, PostLimited, At
  <2>. HIDE DEF row
  <2>5. \A a \in Account : \/ accounts'[a].cooldown = accounts[a].cooldown
                           \/ a = req[r].acct /\ a \in rows
    BY <1>1, <2>2
  <2>. QED  BY <1>0, <1>1, <2>1, <2>2, <2>3, <2>4, <2>5
<1>6. CASE \/ Arrive(r) \/ Select(r) \/ GiveUp(r) \/ RefreshValid(r) \/ PostLimited(r)
           \/ PostOther(r) \/ RecordWindow(r) \/ ScheduleProbe(r)
  <2>1. accounts' = accounts
    BY <1>6 DEF Arrive, Select, GiveUp, RefreshValid, PostLimited, PostOther, RecordWindow,
                ScheduleProbe, UpsertQuotaWindow, EnsureQuotaRecovery, SetQueueRow, WriteLost,
                store, tables
  <2>. QED  BY <1>2, <1>5, <2>1
<1>. QED  BY <1>3, <1>4, <1>5, <1>6 DEF Handle

LEMMA RestNext ==
    ASSUME DbMayFail = FALSE, FailoverTypeOK, ~Shared, RestInv, NEW r \in Requests,
           Arrive(r) \/ Handle(r)
    PROVE  RestInv'
<1>0. now' = now /\ rows' = rows /\ now \in Nat
  BY CooldownAfter, Fields
<1>1. ASSUME NEW s \in Requests, s # r
      PROVE  /\ req'[s] = req[s]
             /\ req[s].pc \in {"refresh", "post", "limited", "upsert"} =>
                  /\ req[s].acct \in Account
                  /\ accounts'[req[s].acct].cooldown = accounts[req[s].acct].cooldown
  <2>1. req'[s] = req[s]
    BY <1>1, RecordAfter
  <2>2. ASSUME req[s].pc \in {"refresh", "post", "limited", "upsert"}
        PROVE  /\ req[s].acct \in Account
               /\ accounts'[req[s].acct].cooldown = accounts[req[s].acct].cooldown
    <3>1. req[s].acct \in Account /\ req[s].pc \in Holding
      BY <2>2, Fields DEF Holding
    <3>2. ~(req[s].acct = req[r].acct /\ req[r].pc \in {"refresh", "post", "limited"})
      BY <1>1, <3>1 DEF Shared, Holding
    <3>. QED  BY <3>1, <3>2, CooldownAfter
  <2>. QED  BY <2>1, <2>2
<1>2. req'[r].pc \in {"refresh", "post"} => accounts'[req'[r].acct].cooldown <= now
  <2>1. CASE accounts' = accounts /\ req'[r].acct \in Account /\ Healthy(req'[r].acct)
    BY <2>1 DEF Healthy
  <2>2. CASE (RefreshValid(r) \/ RefreshStored(r)) /\ req'[r].acct = req[r].acct
    <3>1. req[r].pc = "refresh" /\ req[r].acct \in Account
      BY <2>2, Fields DEF RefreshValid, RefreshStored, At, Holding
    <3>2. accounts'[req[r].acct].cooldown = accounts[req[r].acct].cooldown
      BY <2>2, <3>1, CooldownAfter
    <3>. QED  BY <2>2, <3>1, <3>2 DEF RestInv
  <2>. QED  BY <2>1, <2>2, RecordAfter
<1>3. req'[r].pc = "limited" => /\ accounts'[req'[r].acct].cooldown <= now
                                /\ req'[r].until <= now + req'[r].cool
  <2>. SUFFICES ASSUME req'[r].pc = "limited"
                PROVE  /\ accounts'[req'[r].acct].cooldown <= now
                       /\ req'[r].until <= now + req'[r].cool
    OBVIOUS
  <2>1. PostLimited(r) /\ req'[r].acct = req[r].acct /\ req'[r].until = now + req'[r].cool
    BY RecordAfter
  <2>2. req[r].pc = "post" /\ req[r].acct \in Account
    BY <2>1, Fields DEF PostLimited, At, Holding
  <2>3. accounts'[req[r].acct].cooldown = accounts[req[r].acct].cooldown
    BY <2>1, <2>2, CooldownAfter
  <2>4. req'[r].cool \in Nat
    <3>1. FailoverTypeOK'
      BY ChatType DEF Clients
    <3>. QED  BY <3>1 DEF FailoverTypeOK, RequestsTypeOK, Request
  <2>. QED  BY <1>0, <2>1, <2>2, <2>3, <2>4 DEF RestInv
<1>4. req'[r].pc = "upsert" /\ req'[r].acct \in rows
        => req'[r].until <= accounts'[req'[r].acct].cooldown
  <2>. SUFFICES ASSUME req'[r].pc = "upsert", req'[r].acct \in rows
                PROVE  req'[r].until <= accounts'[req'[r].acct].cooldown
    OBVIOUS
  <2>1. CoolDown(r) /\ req'[r].acct = req[r].acct /\ req'[r].until = req[r].until
    BY RecordAfter
  <2>2. accounts'[req[r].acct].cooldown = now + req[r].cool
    BY <2>1, CooldownAfter
  <2>3. req[r].until <= now + req[r].cool
    BY <2>1 DEF CoolDown, At, RestInv
  <2>. QED  BY <2>1, <2>2, <2>3
<1>5. ASSUME NEW s \in Requests
      PROVE  /\ req'[s].pc \in {"refresh", "post", "limited"}
                  => accounts'[req'[s].acct].cooldown <= now'
             /\ req'[s].pc = "limited" => req'[s].until <= now' + req'[s].cool
             /\ req'[s].pc = "upsert" /\ req'[s].acct \in rows'
                  => req'[s].until <= accounts'[req'[s].acct].cooldown
  <2>1. CASE s = r
    BY <1>0, <1>2, <1>3, <1>4, <2>1
  <2>2. CASE s # r
    BY <1>0, <1>1, <2>2 DEF RestInv
  <2>. QED  BY <2>1, <2>2
<1>. QED  BY <1>5 DEF RestInv

LEMMA CoveredNext ==
    ASSUME DbMayFail = FALSE, FailoverTypeOK, RestInv, Covered, NEW r \in Requests,
           Arrive(r) \/ Handle(r)
    PROVE  Covered'
<1>. SUFFICES ASSUME NEW a \in rows, Exhausted(a)', windows'[a].resetAt > now
              PROVE  accounts'[a].cooldown >= windows'[a].resetAt
  BY CooldownAfter DEF Covered
<1>0. a \in Account /\ now \in Nat /\ accounts[a].cooldown \in Nat /\ windows[a].resetAt \in Nat
  BY Fields
<1>1. CASE RecordWindow(r)
  <2>1. req[r].acct \in Account /\ req[r].pc = "upsert"
    BY <1>1, Fields DEF RecordWindow, At, Holding
  <2>2. windows' = [windows EXCEPT ![req[r].acct] =
                      [known |-> TRUE, remaining |-> 0, resetAt |-> req[r].until]]
        /\ accounts' = accounts
    BY <1>1 DEF RecordWindow, UpsertQuotaWindow, WriteLost
  <2>3. CASE a = req[r].acct
    <3>1. windows'[a].resetAt = req[r].until
      BY <2>1, <2>2, <2>3, Fields
    <3>2. req[r].until <= accounts[a].cooldown /\ req[r].until \in Nat
      BY <2>1, <2>3, Fields DEF RestInv
    <3>. QED  BY <1>0, <2>2, <3>1, <3>2
  <2>4. CASE a # req[r].acct
    <3>1. windows'[a] = windows[a]
      BY <2>2, <2>4, <1>0, Fields
    <3>. QED  BY <2>2, <3>1 DEF Covered, Exhausted
  <2>. QED  BY <2>3, <2>4
<1>2. CASE ~RecordWindow(r)
  <2>1. windows' = windows
    BY <1>2, LimitTables
  <2>2. accounts[a].cooldown >= windows[a].resetAt /\ accounts[a].cooldown > now
    <3>1. accounts[a].cooldown >= windows[a].resetAt
      BY <2>1 DEF Covered, Exhausted
    <3>. QED  BY <1>0, <2>1, <3>1
  <2>3. CASE accounts'[a].cooldown = accounts[a].cooldown
    BY <2>1, <2>2, <2>3
  <2>4. CASE a = req[r].acct /\ req[r].pc \in {"refresh", "post", "limited"}
    <3>1. accounts[a].cooldown <= now
      BY <2>4 DEF RestInv
    <3>. QED  BY <1>0, <2>2, <3>1
  <2>. QED  BY <1>0, <2>3, <2>4, CooldownAfter
<1>. QED  BY <1>1, <1>2

LEMMA CoverNext ==
    ASSUME DbMayFail = FALSE, FailoverTypeOK, ~Shared, CoverInv, [FailoverNext]_failoverVars
    PROVE  CoverInv'
<1>1. CASE Clients
  <2>1. PICK r \in Requests : Arrive(r) \/ Handle(r)
    BY <1>1 DEF Clients
  <2>. QED  BY <2>1, RestNext, CoveredNext DEF CoverInv
<1>2. CASE Tick
  <2>1. now' \in Nat /\ now <= now' /\ now \in Nat
    BY <1>2, Fields DEF Tick, AdvanceClock
  <2>2. accounts' = accounts /\ windows' = windows /\ rows' = rows /\ req' = req
    BY <1>2 DEF Tick, tables
  <2>3. RestInv'
    <3>1. ASSUME NEW s \in Requests
          PROVE  /\ req[s].pc \in {"refresh", "post", "limited"}
                      => accounts[req[s].acct].cooldown <= now'
                 /\ req[s].pc = "limited" => req[s].until <= now' + req[s].cool
      <4>1. req[s].until \in Nat /\ req[s].cool \in Nat
        BY Fields
      <4>2. ASSUME req[s].pc \in {"refresh", "post", "limited"}
            PROVE  accounts[req[s].acct].cooldown <= now'
        <5>1. req[s].acct \in Account
          BY <4>2, Fields DEF Holding
        <5>2. accounts[req[s].acct].cooldown <= now /\ accounts[req[s].acct].cooldown \in Nat
          BY <4>2, <5>1, Fields DEF CoverInv, RestInv
        <5>. QED  BY <2>1, <5>2
      <4>3. req[s].pc = "limited" => req[s].until <= now + req[s].cool
        BY DEF CoverInv, RestInv
      <4>. QED  BY <2>1, <4>1, <4>2, <4>3
    <3>. QED  BY <2>2, <3>1 DEF CoverInv, RestInv
  <2>4. Covered'
    <3>1. \A a \in rows : windows[a].resetAt \in Nat
      BY Fields
    <3>. QED  BY <2>1, <2>2, <3>1 DEF CoverInv, Covered, Exhausted
  <2>. QED  BY <2>3, <2>4 DEF CoverInv
<1>3. CASE UNCHANGED failoverVars
  BY <1>3 DEF failoverVars, store, tables, CoverInv, RestInv, Covered, Exhausted
<1>. QED  BY <1>1, <1>2, <1>3 DEF FailoverNext

\* As long as no write is lost and no two requests hold one account, an account rests as
\* long as its exhausted window lasts, whatever later attempts set its cooldown to.
THEOREM WindowsAreCovered ==
    ASSUME DbMayFail = FALSE
    PROVE  FailoverSpec => CooldownCoversWindow
<1>1. AloneInit => CoverInv
  <2>. SUFFICES ASSUME AloneInit PROVE CoverInv
    OBVIOUS
  <2>1. \A r \in Requests : req[r].pc = "idle"
    BY DEF AloneInit, FailoverInit, NoRequests, NewRequest
  <2>2. \A a \in Account : ~Exhausted(a)
    BY DEF AloneInit, StoreInit, NoWindow, Exhausted
  <2>3. rows \subseteq Account
    BY LimitInvInit, Fields DEF LimitInv
  <2>. QED  BY <2>1, <2>2, <2>3 DEF CoverInv, RestInv, Covered
<1>2. LimitInv /\ ~Shared /\ CoverInv /\ [FailoverNext]_failoverVars => CoverInv'
  BY CoverNext DEF LimitInv
<1>3. CoverInv => Covered
  BY DEF CoverInv
<1>. QED
  BY <1>1, <1>2, <1>3, LimitInvariant, PTL
     DEF FailoverSpec, CooldownCoversWindow, Shared, Covered

-----------------------------------------------------------------------------
(* The end of a request. *)

Rank == [pc \in RequestPC |->
           CASE pc = "select" -> 5 [] pc = "refresh" -> 4 [] pc = "post" -> 3
             [] pc = "limited" -> 2 [] pc = "upsert" -> 1 [] OTHER -> 0]

\* What is left of a request at most, counted in steps of its own.
StepsLeft(r) == 6 * (MaxRetries - req[r].attempt) + Rank[req[r].pc]

\* No attempt begins beyond the last.
AttemptsInv ==
    \A r \in Requests : /\ req[r].attempt <= MaxRetries
                        /\ req[r].pc \in Holding => req[r].attempt < MaxRetries

\* Where a step takes its request.
LEMMA StepGoes ==
    ASSUME FailoverTypeOK, NEW r \in Requests, Handle(r)
    PROVE  \/ req'[r].pc = "idle" /\ req'[r].attempt = 0
           \/ /\ req'[r].attempt = req[r].attempt
              /\ \/ /\ req[r].pc = "select" /\ req'[r].pc = "refresh"
                    /\ req[r].attempt < MaxRetries
                 \/ req[r].pc = "refresh" /\ req'[r].pc = "post"
                 \/ req[r].pc = "post" /\ req'[r].pc = "limited"
                 \/ req[r].pc = "limited" /\ req'[r].pc = "upsert"
                 \/ req[r].pc = "upsert" /\ req'[r].pc = "ensure"
           \/ /\ req[r].pc \in Holding /\ req'[r].pc = "select"
              /\ req'[r].attempt = req[r].attempt + 1
<1>. req \in [Requests -> Request] /\ req[r] \in Request /\ req[r].attempt \in Nat
  BY DEF FailoverTypeOK, RequestsTypeOK, Request
<1>1. CASE GiveUp(r) \/ PostOk(r)
  <2>1. PICK answer : Reply(r, answer)
    BY <1>1 DEF GiveUp, PostOk
  <2>. QED  BY <2>1 DEF Reply, NewRequest
<1>2. CASE Select(r)
  <2>1. PICK a \in Account : req' = [req EXCEPT ![r].pc = "refresh", ![r].acct = a]
    BY <1>2 DEF Select
  <2>2. req'[r] = [req[r] EXCEPT !.pc = "refresh", !.acct = a]
    BY <2>1
  <2>. QED  BY <1>2, <2>2 DEF Select, At, Request
<1>3. CASE RefreshValid(r) \/ RefreshStored(r)
  BY <1>3 DEF RefreshValid, RefreshStored, Goto, At, Request
<1>4. CASE RefreshDenied(r) \/ RefreshFailed(r) \/ PostFailed(r)
  <2>1. req'[r] = [req[r] EXCEPT !.pc = "select", !.attempt = @ + 1, !.lastErr = TRUE]
    BY <1>4 DEF RefreshDenied, RefreshFailed, PostFailed, NextAttempt
  <2>2. req'[r].pc = "select" /\ req'[r].attempt = req[r].attempt + 1
    BY <2>1 DEF Request
  <2>3. req[r].pc \in Holding
    BY <1>4 DEF RefreshDenied, RefreshFailed, PostFailed, At, Holding
  <2>. QED  BY <2>2, <2>3
<1>5. CASE PostOther(r) \/ ScheduleProbe(r)
  <2>1. PICK c : NextAttemptWith(r, c)
    BY <1>5 DEF PostOther, ScheduleProbe
  <2>2. req'[r] = [req[r] EXCEPT !.pc = "select", !.attempt = @ + 1, !.lastErr = TRUE,
                                 !.lastCode = c, !.code = "none", !.until = 0]
    BY <2>1 DEF NextAttemptWith
  <2>3. req'[r].pc = "select" /\ req'[r].attempt = req[r].attempt + 1
    BY <2>2 DEF Request
  <2>4. req[r].pc \in Holding
    BY <1>5 DEF PostOther, ScheduleProbe, At, Holding
  <2>. QED  BY <2>3, <2>4
<1>6. CASE PostLimited(r)
  <2>1. PICK c, n : req' = [req EXCEPT ![r].pc = "limited", ![r].code = c,
                                       ![r].cool = n, ![r].until = now + n]
    BY <1>6 DEF PostLimited
  <2>2. req'[r] = [req[r] EXCEPT !.pc = "limited", !.code = c, !.cool = n, !.until = now + n]
    BY <2>1
  <2>. QED  BY <1>6, <2>2 DEF PostLimited, At, Request
<1>7. CASE CoolDown(r)
  <2>1. req'[r] = [req[r] EXCEPT !.pc = "upsert", !.cool = 0]
    BY <1>7 DEF CoolDown
  <2>. QED  BY <1>7, <2>1 DEF CoolDown, At, Request
<1>8. CASE RecordWindow(r)
  BY <1>8 DEF RecordWindow, Goto, At, Request
<1>. QED  BY <1>1, <1>2, <1>3, <1>4, <1>5, <1>6, <1>7, <1>8 DEF Handle

LEMMA AttemptsNext ==
    ASSUME FailoverTypeOK, AttemptsInv, [FailoverNext]_failoverVars
    PROVE  AttemptsInv'
<1>0. /\ MaxRetries \in Nat /\ req \in [Requests -> Request]
      /\ \A r \in Requests : req[r].attempt \in Nat
  BY FailoverAssumption DEF FailoverTypeOK, RequestsTypeOK, Request
<1>1. ASSUME NEW r \in Requests, Arrive(r) \/ Handle(r) PROVE AttemptsInv'
  <2>1. \A s \in Requests : s # r => req'[s] = req[s]
    BY <1>1, AtEnsure
  <2>2. /\ req'[r].attempt <= MaxRetries
        /\ req'[r].pc \in Holding => req'[r].attempt < MaxRetries
    <3>1. CASE Arrive(r)
      <4>1. req'[r] = NewRequest
        BY <1>0, <3>1 DEF Arrive
      <4>. QED  BY <1>0, <4>1 DEF NewRequest, Holding
    <3>2. CASE Handle(r)
      BY <1>0, <3>2, StepGoes DEF AttemptsInv, Holding
    <3>. QED  BY <1>1, <3>1, <3>2
  <2>. QED  BY <2>1, <2>2 DEF AttemptsInv
<1>2. CASE req' = req
  BY <1>2 DEF AttemptsInv
<1>. QED  BY <1>1, <1>2 DEF FailoverNext, Clients, Tick, failoverVars

\* Whatever the upstream answers and the other requests do, each step of a request
\* answers it or leaves fewer of its steps to take, of which there are finitely many: no
\* request tries accounts for ever.
THEOREM RequestsEnd ==
    FailoverSpec =>
        [][\A r \in Requests :
             /\ StepsLeft(r) \in 0..(6 * MaxRetries + 5)
             /\ Handle(r) => At(r, "idle")' \/ StepsLeft(r)' < StepsLeft(r)]_failoverVars
<1>1. AloneInit => FailoverTypeOK /\ AttemptsInv
  <2>1. AloneInit => FailoverTypeOK
    BY LimitInvInit DEF LimitInv
  <2>2. AloneInit => \A r \in Requests : req[r].attempt = 0 /\ req[r].pc = "idle"
    BY DEF AloneInit, FailoverInit, NoRequests, NewRequest
  <2>. QED  BY <2>1, <2>2, FailoverAssumption DEF AttemptsInv, Holding
<1>2. FailoverTypeOK /\ AttemptsInv /\ [FailoverNext]_failoverVars => AttemptsInv'
  BY AttemptsNext
<1>3. ASSUME FailoverTypeOK, AttemptsInv, NEW r \in Requests
      PROVE  /\ StepsLeft(r) \in 0..(6 * MaxRetries + 5)
             /\ Handle(r) => At(r, "idle")' \/ StepsLeft(r)' < StepsLeft(r)
  <2>1. /\ MaxRetries \in Nat /\ req[r].attempt \in Nat /\ req[r].attempt <= MaxRetries
        /\ req[r].pc \in RequestPC
    BY <1>3, FailoverAssumption DEF FailoverTypeOK, RequestsTypeOK, Request, AttemptsInv
  <2>2. /\ Rank["select"] = 5 /\ Rank["refresh"] = 4 /\ Rank["post"] = 3
        /\ Rank["limited"] = 2 /\ Rank["upsert"] = 1 /\ Rank["ensure"] = 0
        /\ \A pc \in RequestPC : Rank[pc] \in 0..5
    BY DEF Rank, RequestPC
  <2>3. StepsLeft(r) \in 0..(6 * MaxRetries + 5)
    BY <2>1, <2>2 DEF StepsLeft
  <2>4. ASSUME Handle(r) PROVE At(r, "idle")' \/ StepsLeft(r)' < StepsLeft(r)
    <3>1. CASE req'[r].pc = "idle"
      BY <3>1 DEF At
    <3>2. CASE req[r].pc \in Holding /\ req'[r].pc = "select" /\ req'[r].attempt = req[r].attempt + 1
      <4>1. 6 * (MaxRetries - (req[r].attempt + 1)) + 5 < 6 * (MaxRetries - req[r].attempt)
        BY <2>1
      <4>. QED  BY <2>1, <2>2, <3>2, <4>1 DEF StepsLeft
    <3>3. CASE req'[r].attempt = req[r].attempt
      BY <1>3, <2>1, <2>2, <2>4, <3>1, <3>2, <3>3, StepGoes DEF StepsLeft
    <3>. QED  BY <1>3, <2>4, <3>1, <3>2, <3>3, StepGoes
  <2>. QED  BY <2>3, <2>4
<1>4. FailoverTypeOK /\ AttemptsInv /\ [FailoverNext]_failoverVars
        => [\A r \in Requests :
              /\ StepsLeft(r) \in 0..(6 * MaxRetries + 5)
              /\ Handle(r) => At(r, "idle")' \/ StepsLeft(r)' < StepsLeft(r)]_failoverVars
  BY <1>3
<1>. QED  BY <1>1, <1>2, <1>4, LoopType, PTL DEF FailoverSpec

-----------------------------------------------------------------------------
(* The composition. *)

-----------------------------------------------------------------------------
(* Inductive invariants. *)

\* The deadlines of the two tables.
TableDeadlines ==
    /\ \A a \in Account : accounts[a].cooldown <= now + MaxDelay
    /\ DueBounded

\* No goroutine's local time is ahead of the clock, and no local or stored
\* deadline is further ahead than the longest delay.
DeadlinesInv ==
    /\ ticks.worker <= now /\ ticks.reconcile <= now /\ worker.now <= now
    /\ worker.ev.due <= now + MaxDelay
    /\ \A ev \in worker.batch : ev.due <= now + MaxDelay
    /\ \A r \in Requests : req[r].cool <= MaxDelay /\ req[r].until <= now + MaxDelay
    /\ TableDeadlines

\* The worker holds an event at most once, and only between claim and return.
HandInv ==
    /\ worker.pc \in {"boot", "wait", "enqueue"} => worker.batch = {}
    /\ \A e, f \in worker.batch : e.acct = f.acct => e = f
    /\ worker.pc \in Busy => \A e \in worker.batch : e.acct # worker.ev.acct
    /\ ClaimedStillQueued

\* With every write reaching the tables, an event in a table or in a hand has
\* its window behind it; so the worker never gets to the UPDATE.
ExhaustedInv ==
    /\ QueuedImpliesExhausted
    /\ \A r \in Requests : At(r, "ensure") => req[r].acct \in Account /\ Exhausted(req[r].acct)
    /\ worker.pc # "clear"

\* No goroutine works for an id that was never handed out.
IdsInv ==
    /\ \A a \in rows : a < nextId
    /\ \A r \in Requests : req[r].acct < nextId
    /\ \A a \in Handed \cup worker.todo : a < nextId
    /\ NewIdsAreClean

-----------------------------------------------------------------------------
(* Type correctness. *)

\* What the worker's record may be rewritten to.
LEMMA WorkerRecordType ==
    ASSUME RecoveryTypeOK
    PROVE  /\ NoHand \in Event /\ Waiting \in Worker /\ Booting \in Worker
           /\ EmptyTicks \in Ticks
           /\ worker.ev \in Event /\ worker.batch \subseteq Event
           /\ worker.todo \subseteq Account /\ worker.now \in Nat
           /\ \A pc \in WorkerPC, b \in SUBSET Event, e \in Event :
                [worker EXCEPT !.pc = pc, !.batch = b, !.ev = e] \in Worker
           /\ \A pc \in WorkerPC : [worker EXCEPT !.pc = pc] \in Worker
           /\ \A pc \in WorkerPC, e \in Event :
                [worker EXCEPT !.pc = pc, !.ev = e] \in Worker
<1>1. NoHand \in Event
  BY StoreAssumption DEF NoHand, Event, Account
<1>2. Booting \in Worker
  BY <1>1 DEF Booting, Worker, WorkerPC
<1>3. Waiting \in Worker
  BY <1>2 DEF Waiting, Worker, WorkerPC
<1>4. EmptyTicks \in Ticks
  BY RecoveryAssumption DEF EmptyTicks, Ticks
<1>. QED  BY <1>1, <1>2, <1>3, <1>4 DEF RecoveryTypeOK, Worker

\* An event that is put off.
LEMMA PutOffType ==
    ASSUME StoreTypeOK, RecoveryTypeOK, NEW ev \in Event
    PROVE  Retried(ev) \in Event /\ AfterCooldown(ev) \in Event
<1>1. ev.attempts \in Nat /\ ev.acct \in Account
  BY DEF Event
<1>2. Bump(ev.attempts) \in 1..AttemptCap /\ Bump(ev.attempts) \in Nat
  BY <1>1, RecoveryAssumption DEF Bump
<1>3. accounts[ev.acct].cooldown \in Nat
  BY <1>1 DEF StoreTypeOK, TablesTypeOK, AccountRow
<1>4. AfterCooldown(ev) \in Event
  <2>. DEFINE n == Bump(ev.attempts)  c == accounts[ev.acct].cooldown
  <2>1. AfterCooldown(ev) = [ev EXCEPT !.attempts = n, !.due = c]
    BY DEF AfterCooldown
  <2>2. n \in Nat /\ c \in Nat
    BY <1>2, <1>3
  <2>. HIDE DEF n, c
  <2>. QED  BY <2>1, <2>2 DEF Event
<1>5. Retried(ev) \in Event
  <2>. DEFINE n == Bump(ev.attempts)  t == worker.now + Backoff(n)
  <2>1. Retried(ev) = [ev EXCEPT !.attempts = n, !.due = t]
    BY DEF Retried
  <2>2. n \in Nat /\ Backoff(n) \in Nat
    BY <1>2, RecoveryAssumption
  <2>3. worker.now \in Nat
    BY WorkerRecordType
  <2>4. t \in Nat
    BY <2>2, <2>3
  <2>. HIDE DEF n, t
  <2>. QED  BY <2>1, <2>2, <2>4 DEF Event
<1>. QED  BY <1>4, <1>5

LEMMA ReconcileType ==
    ASSUME RecoveryTypeOK, NEW t \in Nat, Reconcile(t)
    PROVE  worker' \in Worker
<1>1. PICK T \in SUBSET Account :
          worker' = IF T = {} THEN Waiting
                    ELSE [Waiting EXCEPT !.pc = "enqueue", !.now = t, !.todo = T]
  BY DEF Reconcile
<1>2. Waiting \in Worker
  BY WorkerRecordType
<1>3. [Waiting EXCEPT !.pc = "enqueue", !.now = t, !.todo = T] \in Worker
  BY <1>2 DEF Worker, WorkerPC
<1>. QED  BY <1>1, <1>2, <1>3

\* What a claim takes, and what it leaves in the table.
LEMMA ClaimType ==
    ASSUME StoreTypeOK, RecoveryTypeOK, NEW t \in Nat, NEW T \in SUBSET Account, Claim(t, T)
    PROVE  TablesTypeOK' /\ worker' \in Worker
<1>1. \A a \in Account : queue[a] \in QueueRow
  BY DEF StoreTypeOK, TablesTypeOK
<1>2. t + Lease \in Nat
  BY RecoveryAssumption
<1>3. TablesTypeOK'
  <2>. DEFINE u == t + Lease
  <2>1. \A a \in Account : queue'[a] = [queue[a] EXCEPT !.due = u] \/ queue'[a] = queue[a]
    BY DEF Claim, ClaimDueRecoveries
  <2>. HIDE DEF u
  <2>2. \A a \in Account : [queue[a] EXCEPT !.due = u] \in QueueRow
    BY <1>1, <1>2 DEF QueueRow, u
  <2>3. queue' \in [Account -> QueueRow]
    <3>1. queue' = [a \in Account |-> queue'[a]]
      BY DEF Claim, ClaimDueRecoveries
    <3>. QED  BY <1>1, <2>1, <2>2, <3>1
  <2>. QED  BY <2>3 DEF Claim, ClaimDueRecoveries, StoreTypeOK, TablesTypeOK
<1>4. InHand(T) \subseteq Event
  BY <1>1 DEF InHand, Event, QueueRow
<1>5. Waiting \in Worker
  BY WorkerRecordType
<1>6. [Waiting EXCEPT !.pc = "probe", !.now = t, !.batch = InHand(T)] \in Worker
  BY <1>4, <1>5 DEF Worker, WorkerPC
<1>. QED  BY <1>3, <1>5, <1>6 DEF Claim

LEMMA WorkerType ==
    ASSUME StoreTypeOK, RecoveryTypeOK, WorkerStep
    PROVE  StoreTypeOK' /\ RecoveryTypeOK'
<1>1. UNCHANGED store => StoreTypeOK'
  BY DEF store, tables, StoreTypeOK, TablesTypeOK
<1>2. UNCHANGED now /\ TablesTypeOK' => StoreTypeOK'
  BY DEF StoreTypeOK
<1>3. worker \in Worker /\ ticks \in Ticks /\ now \in Nat
  BY StoreAssumption DEF RecoveryTypeOK, StoreTypeOK, Time
<1>4. UNCHANGED ticks /\ worker' \in Worker => RecoveryTypeOK'
  BY <1>3 DEF RecoveryTypeOK
<1>5. /\ worker.ev \in Event /\ worker.ev.acct \in Account /\ worker.now \in Nat
      /\ worker.ev.attempts \in Nat /\ worker.ev.due \in Nat
      /\ worker.todo \subseteq Account
  BY WorkerRecordType DEF Event
<1>6. NextEvent => worker' \in Worker
  <2>1. /\ Waiting \in Worker
        /\ [worker EXCEPT !.pc = "probe", !.ev = NoHand] \in Worker
    BY WorkerRecordType DEF WorkerPC
  <2>. QED  BY <2>1 DEF NextEvent
<1>7. \A pc \in WorkerPC : Proceed(pc) => worker' \in Worker
  BY WorkerRecordType DEF Proceed
<1>8. CASE ReconcileAtStart
  BY <1>1, <1>3, <1>4, <1>8, ReconcileType DEF ReconcileAtStart
<1>9. CASE ReconcileOnTick
  <2>1. ticks.reconcile \in Nat
    BY <1>3 DEF Ticks
  <2>2. ticks' \in Ticks
    BY <1>3, <1>9 DEF ReconcileOnTick, Ticks
  <2>3. worker' \in Worker
    BY <1>9, <2>1, ReconcileType DEF ReconcileOnTick
  <2>. QED  BY <1>1, <1>9, <2>2, <2>3 DEF ReconcileOnTick, RecoveryTypeOK
<1>10. CASE Enqueue
  <2>1. PICK a \in worker.todo :
            /\ EnsureQuotaRecovery(a, 0, worker.now)
            /\ worker' = IF worker.todo = {a} THEN Waiting
                         ELSE [worker EXCEPT !.todo = @ \ {a}]
    BY <1>10 DEF Enqueue
  <2>2. a \in Account
    BY <1>5, <2>1
  <2>3. TablesTypeOK'
    BY <1>5, <2>1, <2>2, StatementType
  <2>4. [worker EXCEPT !.todo = @ \ {a}] \in Worker
    BY <1>3 DEF Worker
  <2>5. worker' \in Worker
    BY <2>1, <2>4, WorkerRecordType
  <2>. QED  BY <1>2, <1>4, <1>10, <2>3, <2>5 DEF Enqueue
<1>11. CASE ClaimOnTick
  <2>1. ticks.worker \in Nat
    BY <1>3 DEF Ticks
  <2>2. ticks' \in Ticks
    BY <1>3, <1>11 DEF ClaimOnTick, Ticks
  <2>3. TablesTypeOK' /\ worker' \in Worker
    <3>1. CASE \E T \in SUBSET Account : Claim(ticks.worker, T)
      BY <2>1, <3>1, ClaimType
    <3>2. CASE WriteLost /\ worker' = Waiting
      BY <3>2, WriteLostType, WorkerRecordType DEF StoreTypeOK
    <3>. QED  BY <1>11, <3>1, <3>2 DEF ClaimOnTick
  <2>. QED  BY <1>2, <1>11, <2>2, <2>3 DEF ClaimOnTick, RecoveryTypeOK
<1>12. CASE Probe
  <2>0. PICK ev \in worker.batch :
            \E e \in {ev, Retried(ev), AfterCooldown(ev)},
               pc \in {"ack", "reschedule", "refresh"} :
                 worker' = [worker EXCEPT !.pc = pc, !.batch = @ \ {ev}, !.ev = e]
    BY <1>12 DEF Probe
  <2>1. PICK e \in {ev, Retried(ev), AfterCooldown(ev)},
             pc \in {"ack", "reschedule", "refresh"} :
            worker' = [worker EXCEPT !.pc = pc, !.batch = @ \ {ev}, !.ev = e]
    BY <2>0
  <2>2. ev \in Event /\ worker.batch \ {ev} \in SUBSET Event
    BY <2>1, WorkerRecordType
  <2>3. e \in Event
    BY <2>2, PutOffType
  <2>4. pc \in WorkerPC
    BY DEF WorkerPC
  <2>5. worker' \in Worker
    BY <2>1, <2>2, <2>3, <2>4, WorkerRecordType
  <2>. QED  BY <1>1, <1>4, <1>12, <2>5 DEF Probe
<1>13. CASE ProbeValid
  BY <1>1, <1>4, <1>7, <1>13 DEF ProbeValid, WorkerPC
<1>14. CASE ProbeStored
  BY <1>2, <1>4, <1>5, <1>7, <1>14, StatementType DEF ProbeStored, WorkerPC
<1>15. CASE ProbeDenied
  <2>1. TRUE \in BOOLEAN /\ "reauthRequired" \in AuthStatus
    BY DEF AuthStatus
  <2>. QED  BY <1>2, <1>4, <1>5, <1>7, <1>15, <2>1, StatementType DEF ProbeDenied, WorkerPC
<1>16. CASE ProbeFailed
  <2>1. Retried(worker.ev) \in Event
    BY <1>5, PutOffType
  <2>2. [worker EXCEPT !.pc = "reschedule", !.ev = Retried(worker.ev)] \in Worker
    BY <2>1, WorkerRecordType DEF WorkerPC
  <2>. QED  BY <1>1, <1>4, <1>16, <2>2 DEF ProbeFailed
<1>17. CASE CountExhausted
  BY <1>1, <1>4, <1>7, <1>17 DEF CountExhausted, WorkerPC
<1>18. CASE Clear
  BY <1>2, <1>4, <1>5, <1>7, <1>18, StatementType DEF Clear, WorkerPC
<1>19. CASE Reschedule
  BY <1>2, <1>4, <1>5, <1>6, <1>19, StatementType DEF Reschedule
<1>20. CASE Ack
  BY <1>2, <1>4, <1>5, <1>6, <1>20, StatementType DEF Ack
<1>. QED
  BY <1>8, <1>9, <1>10, <1>11, <1>12, <1>13, <1>14, <1>15, <1>16, <1>17, <1>18, <1>19,
     <1>20 DEF WorkerStep

LEMMA AdminType ==
    ASSUME TypeOK, Admin
    PROVE  TypeOK'
<1>1. /\ StoreTypeOK /\ TablesTypeOK /\ patch \in Patch /\ now \in Time
      /\ patch.acct \in Account /\ patch.enabled \in BOOLEAN /\ patch.auth \in AuthStatus
  BY DEF TypeOK, FailoverTypeOK, StoreTypeOK, Patch
<1>2. SUFFICES TablesTypeOK' /\ patch' \in Patch
  BY <1>1 DEF Admin, TypeOK, FailoverTypeOK, RequestsTypeOK, RecoveryTypeOK, StoreTypeOK
<1>3. NewAccount \in AccountRow
  BY DEF NewAccount, AccountRow, AuthStatus
<1>4. CASE PatchWrite
  <2>1. TablesTypeOK'
    BY <1>1, <1>4, StatementType DEF PatchWrite
  <2>2. NoPatch \in Patch
    BY StoreAssumption DEF NoPatch, Patch, Account, AuthStatus
  <2>. QED  BY <1>4, <2>1, <2>2 DEF PatchWrite
<1>5. CASE Import
  BY <1>1, <1>5, StoreAssumption DEF Import, InsertAccount, TablesTypeOK, Account
<1>6. ASSUME NEW a \in Account, PatchRead(a)
      PROVE  TablesTypeOK' /\ patch' \in Patch
  <2>1. accounts[a].enabled \in BOOLEAN /\ accounts[a].auth \in AuthStatus
    BY <1>1 DEF TablesTypeOK, AccountRow
  <2>2. patch' \in Patch
    BY <1>6, <2>1 DEF PatchRead, Patch
  <2>. QED  BY <1>1, <1>6, <2>2, WriteLostType DEF PatchRead
<1>7. ASSUME NEW a \in Account, Delete(a)
      PROVE  TablesTypeOK' /\ patch' \in Patch
  BY <1>1, <1>3, <1>7 DEF Delete, DeleteAccount, TablesTypeOK
<1>8. ASSUME NEW a \in Account, Reauth(a)
      PROVE  TablesTypeOK' /\ patch' \in Patch
  BY <1>1, <1>8, StatementType DEF Reauth
<1>9. ASSUME NEW a \in Account, Sync(a)
      PROVE  TablesTypeOK' /\ patch' \in Patch
  BY <1>1, <1>9 DEF Sync, ReplaceAccountCapabilities, TablesTypeOK
<1>. QED  BY <1>4, <1>5, <1>6, <1>7, <1>8, <1>9 DEF Admin

LEMMA NoRequestsType == NoRequests \in [Requests -> Request]
                          /\ \A r \in Requests : NoRequests[r].pc \notin Holding
<1>1. [NewRequest EXCEPT !.pc = "idle"] \in Request
  BY DEF NewRequest, Request, RequestPC, Code, Answer
<1>2. [NewRequest EXCEPT !.pc = "idle"].pc \notin Holding
  BY DEF NewRequest, Holding
<1>. QED  BY <1>1, <1>2 DEF NoRequests

LEMMA InitType == Init => TypeOK
<1>. SUFFICES ASSUME Init
              PROVE  TypeOK
  OBVIOUS
<1>1. StoreTypeOK
  <2>1. NewAccount \in AccountRow /\ NoWindow \in QuotaWindow /\ NoEvent \in QueueRow
    BY DEF NewAccount, AccountRow, AuthStatus, NoWindow, QuotaWindow, NoEvent, QueueRow
  <2>2. rows \subseteq Account /\ nextId \in 1..(MaxAccount + 1) /\ now \in Time
    BY StoreAssumption DEF Init, StoreInit, Account, Time
  <2>. QED  BY <2>1, <2>2 DEF Init, StoreInit, StoreTypeOK, TablesTypeOK
<1>2. RequestsTypeOK
  BY NoRequestsType DEF Init, FailoverInit, RequestsTypeOK
<1>3. RecoveryTypeOK
  <2>1. NoHand \in Event
    BY StoreAssumption DEF NoHand, Event, Account
  <2>2. Booting \in Worker
    BY <2>1 DEF Booting, Worker, WorkerPC
  <2>3. EmptyTicks \in Ticks
    BY RecoveryAssumption DEF EmptyTicks, Ticks
  <2>. QED  BY <2>2, <2>3 DEF Init, RecoveryInit, RecoveryTypeOK
<1>4. patch \in Patch /\ crashes \in Nat
  BY StoreAssumption DEF Init, NoPatch, Patch, Account, AuthStatus
<1>. QED  BY <1>1, <1>2, <1>3, <1>4 DEF TypeOK, FailoverTypeOK

LEMMA NextType == TypeOK /\ [Next]_vars => TypeOK'
<1>. SUFFICES ASSUME TypeOK, [Next]_vars
              PROVE  TypeOK'
  OBVIOUS
<1>. USE DEF TypeOK
<1>1. ASSUME NEW r \in Requests, Chat(r)
      PROVE  TypeOK'
  BY <1>1, ChatType DEF Chat, RecoveryTypeOK
<1>2. CASE Recovery
  BY <1>2, WorkerType DEF Recovery, FailoverTypeOK, RequestsTypeOK
<1>3. CASE Admin
  BY <1>3, AdminType
<1>4. CASE Clock
  <2>1. now' \in Time /\ now' \in Nat
    BY <1>4, StoreAssumption DEF Clock, AdvanceClock, FailoverTypeOK, StoreTypeOK, Time
  <2>2. StoreTypeOK'
    BY <1>4, <2>1, WriteLostType DEF Clock, FailoverTypeOK, StoreTypeOK
  <2>3. ticks' \in Ticks
    <3>. DEFINE phase == (ticks.phase + 1) % ReconcileEvery
    <3>1. phase \in 0..(ReconcileEvery - 1)
      BY RecoveryAssumption DEF RecoveryTypeOK, Ticks
    <3>. HIDE DEF phase
    <3>2. Offer(ticks.worker, now') \in Nat /\ Offer(ticks.reconcile, now') \in Nat
            /\ ticks.reconcile \in Nat
      BY <2>1 DEF Offer, RecoveryTypeOK, Ticks
    <3>3. ticks' = [worker |-> Offer(ticks.worker, now'),
                    reconcile |-> IF phase = 0 THEN Offer(ticks.reconcile, now')
                                  ELSE ticks.reconcile,
                    phase |-> phase]
      BY <1>4 DEF Clock, FireTickers, phase
    <3>. QED  BY <3>1, <3>2, <3>3 DEF Ticks
  <2>. QED  BY <1>4, <2>2, <2>3 DEF Clock, FailoverTypeOK, RequestsTypeOK, RecoveryTypeOK
<1>5. CASE Crash
  <2>1. StoreTypeOK'
    BY <1>5 DEF Crash, store, tables, FailoverTypeOK, StoreTypeOK, TablesTypeOK
  <2>2. RequestsTypeOK'
    BY <1>5, NoRequestsType DEF Crash, RequestsTypeOK
  <2>3. RecoveryTypeOK'
    BY <1>5, WorkerRecordType DEF Crash, RecoveryTypeOK
  <2>4. (patch \in Patch)' /\ (crashes \in Nat)'
    BY <1>5, StoreAssumption DEF Crash, NoPatch, Patch, Account, AuthStatus
  <2>. QED  BY <2>1, <2>2, <2>3, <2>4 DEF FailoverTypeOK
<1>6. CASE UNCHANGED vars
  BY <1>6 DEF vars, store, tables, FailoverTypeOK, StoreTypeOK, TablesTypeOK,
              RequestsTypeOK, RecoveryTypeOK
<1>. QED  BY <1>1, <1>2, <1>3, <1>4, <1>5, <1>6 DEF Next

\* Type correctness: whatever the interleaving of handlers, worker, administrator
\* and crashes, every row, record and channel keeps its shape, and a request
\* past its selection holds the id of an account.
THEOREM TypeCorrect == Spec => []TypeOK
<1>. QED  BY InitType, NextType, PTL DEF Spec

-----------------------------------------------------------------------------
(* A claimed event stays in the table. *)

\* Outside the worker an event is queued or overwritten, never removed.
LEMMA ChatQueues ==
    ASSUME TypeOK, NEW r \in Requests, Arrive(r) \/ Handle(r)
    PROVE  \A b \in Account : queue[b].queued => queue'[b].queued
<1>. \A b \in Account : queue[b] \in QueueRow
  BY DEF TypeOK, FailoverTypeOK, StoreTypeOK, TablesTypeOK
<1>1. CASE ScheduleProbe(r)
  BY <1>1 DEF ScheduleProbe, EnsureQuotaRecovery, SetQueueRow, WriteLost, tables,
              TypeOK, FailoverTypeOK, StoreTypeOK, TablesTypeOK
<1>2. CASE UNCHANGED queue
  BY <1>2
<1>3. ~ScheduleProbe(r) => UNCHANGED queue
  BY DEF Handle, Arrive, Select, GiveUp, RefreshValid, RefreshStored, RefreshDenied,
         RefreshFailed, PostFailed, PostLimited, PostOther, PostOk, CoolDown, RecordWindow,
         UpdateAccountTokens, SetAccountStatus, MarkAccountFailed, MarkAccountSuccess,
         UpsertQuotaWindow, UpdateAccount, WriteLost, store, tables
<1>. QED  BY <1>1, <1>2, <1>3

LEMMA AdminLeavesQueue == Admin => UNCHANGED <<queue, windows, worker, req, ticks, now>>
  BY DEF Admin, PatchRead, PatchWrite, Import, Delete, Reauth, Sync, SetAccountStatus,
         UpdateAccountTokens, UpdateAccount, InsertAccount, DeleteAccount,
         ReplaceAccountCapabilities, WriteLost, tables

LEMMA HandInit == Init => HandInv
  BY DEF Init, RecoveryInit, Booting, HandInv, ClaimedStillQueued, Handed, Busy

\* Returning from one event to the rest of the batch.
LEMMA NextEventHand ==
    ASSUME TypeOK, HandInv, NextEvent, worker.pc \in Busy,
           \A b \in Account \ {worker.ev.acct} : queue[b].queued => queue'[b].queued
    PROVE  HandInv'
<1>1. worker \in Worker /\ worker.batch \subseteq Event
  BY WorkerRecordType DEF TypeOK, RecoveryTypeOK
<1>2. CASE worker.batch = {}
  <2>1. worker' = Waiting
    BY <1>2 DEF NextEvent
  <2>. QED  BY <2>1 DEF HandInv, ClaimedStillQueued, Handed, Busy, Waiting, Booting
<1>3. CASE worker.batch # {}
  <2>1. worker'.pc = "probe" /\ worker'.batch = worker.batch
    BY <1>1, <1>3 DEF NextEvent, Worker
  <2>2. \A e \in worker.batch : e.acct \in Account \ {worker.ev.acct} /\ queue[e.acct].queued
    BY <1>1 DEF HandInv, ClaimedStillQueued, Handed, Event
  <2>. QED  BY <2>1, <2>2 DEF HandInv, ClaimedStillQueued, Handed, Busy
<1>. QED  BY <1>2, <1>3

LEMMA WorkerHand ==
    ASSUME TypeOK, HandInv, WorkerStep
    PROVE  HandInv'
<1>1. /\ worker \in Worker /\ worker.batch \subseteq Event /\ worker.ev \in Event
      /\ \A b \in Account : queue[b] \in QueueRow
      /\ queue \in [Account -> QueueRow]
  BY WorkerRecordType DEF TypeOK, FailoverTypeOK, StoreTypeOK, TablesTypeOK, RecoveryTypeOK
<1>2. worker.ev.acct \in Account
  BY <1>1 DEF Event
<1>. USE DEF HandInv, ClaimedStillQueued, Handed, Busy
<1>3. worker'.batch = {} /\ worker'.pc \notin Busy => HandInv'
  OBVIOUS
<1>4. Waiting.batch = {} /\ Waiting.pc = "wait"
  BY DEF Waiting, Booting
<1>5. ASSUME NEW t, Reconcile(t)
      PROVE  HandInv'
  <2>1. worker'.batch = {} /\ worker'.pc \in {"wait", "enqueue"}
    BY <1>5 DEF Reconcile, Waiting, Booting
  <2>. QED  BY <1>3, <2>1
<1>6. CASE ReconcileAtStart \/ ReconcileOnTick
  BY <1>5, <1>6 DEF ReconcileAtStart, ReconcileOnTick
<1>7. CASE Enqueue
  <2>1. worker'.batch = {} /\ worker'.pc \in {"wait", "enqueue"}
    BY <1>1, <1>4, <1>7 DEF Enqueue, Worker
  <2>. QED  BY <1>3, <2>1
<1>8. CASE ClaimOnTick
  <2>1. CASE WriteLost /\ worker' = Waiting
    BY <1>3, <1>4, <2>1
  <2>2. ASSUME NEW T \in SUBSET Account, Claim(ticks.worker, T)
        PROVE  HandInv'
    <3>1. \A a \in T : queue[a].queued /\ queue'[a].queued
      BY <1>1, <2>2 DEF Claim, ClaimDueRecoveries, QueueRow
    <3>2. CASE T = {}
      BY <1>3, <1>4, <2>2, <3>2 DEF Claim
    <3>3. CASE T # {}
      <4>1. worker'.pc = "probe" /\ worker'.batch = InHand(T)
        BY <2>2, <3>3 DEF Claim, Waiting, Booting
      <4>. QED  BY <3>1, <4>1 DEF InHand
    <3>. QED  BY <3>2, <3>3
  <2>. QED  BY <1>8, <2>1, <2>2 DEF ClaimOnTick
<1>9. CASE Probe
  <2>1. PICK ev \in worker.batch :
            \E e \in {ev, Retried(ev), AfterCooldown(ev)},
               pc \in {"ack", "reschedule", "refresh"} :
                 worker' = [worker EXCEPT !.pc = pc, !.batch = @ \ {ev}, !.ev = e]
    BY <1>9 DEF Probe
  <2>2. PICK e \in {ev, Retried(ev), AfterCooldown(ev)},
             pc \in {"ack", "reschedule", "refresh"} :
            worker' = [worker EXCEPT !.pc = pc, !.batch = @ \ {ev}, !.ev = e]
    BY <2>1
  <2>3. ev \in Event
    BY <1>1, <2>1
  <2>4. e.acct = ev.acct
    BY <2>2, <2>3 DEF Retried, AfterCooldown, Event
  <2>5. /\ worker'.pc = pc /\ worker'.pc \in Busy
        /\ worker'.batch = worker.batch \ {ev} /\ worker'.ev.acct = ev.acct
    BY <1>1, <2>2, <2>4 DEF Worker
  <2>6. queue' = queue
    BY <1>9 DEF Probe, store, tables
  <2>. QED  BY <2>1, <2>5, <2>6
<1>10. CASE ProbeValid \/ ProbeStored \/ ProbeDenied \/ CountExhausted \/ Clear
  <2>1. /\ worker.pc \in {"refresh", "count", "clear"}
        /\ \E pc \in {"count", "ack", "clear"} : worker' = [worker EXCEPT !.pc = pc]
    BY <1>10 DEF ProbeValid, ProbeStored, ProbeDenied, CountExhausted, Clear, Proceed
  <2>2. queue' = queue
    BY <1>10 DEF ProbeValid, ProbeStored, ProbeDenied, CountExhausted, Clear,
         UpdateAccountTokens, SetAccountStatus, ClearCooldown, UpdateAccount, WriteLost,
         store, tables
  <2>3. worker'.pc \in Busy /\ worker'.batch = worker.batch /\ worker'.ev = worker.ev
    BY <1>1, <2>1 DEF Worker
  <2>. QED  BY <2>1, <2>2, <2>3
<1>11. CASE ProbeFailed
  <2>1. /\ worker'.pc = "reschedule" /\ worker'.batch = worker.batch
        /\ worker'.ev.acct = worker.ev.acct /\ queue' = queue
    BY <1>1, <1>11 DEF ProbeFailed, Retried, Worker, Event, store, tables
  <2>. QED  BY <1>11, <2>1 DEF ProbeFailed
<1>12. CASE Reschedule
  <2>1. \A b \in Account \ {worker.ev.acct} : queue[b].queued => queue'[b].queued
    BY <1>1, <1>12 DEF Reschedule, RescheduleQuotaRecovery, SetQueueRow, WriteLost, tables
  <2>. QED  BY <1>12, <2>1, NextEventHand DEF Reschedule
<1>13. CASE Ack
  <2>1. \A b \in Account \ {worker.ev.acct} : queue[b].queued => queue'[b].queued
    BY <1>1, <1>13 DEF Ack, AckQuotaRecovery, SetQueueRow, WriteLost, tables
  <2>. QED  BY <1>13, <2>1, NextEventHand DEF Ack
<1>. QED  BY <1>6, <1>7, <1>8, <1>9, <1>10, <1>11, <1>12, <1>13 DEF WorkerStep

LEMMA HandNext == TypeOK /\ HandInv /\ [Next]_vars => HandInv'
<1>. SUFFICES ASSUME TypeOK, HandInv, [Next]_vars
              PROVE  HandInv'
  OBVIOUS
<1>0. worker.batch \subseteq Event /\ worker.ev \in Event
  BY WorkerRecordType DEF TypeOK
<1>1. Handed \subseteq Account
  BY <1>0 DEF Handed, Event
<1>2. ASSUME NEW r \in Requests, Chat(r)
      PROVE  HandInv'
  BY <1>1, <1>2, ChatQueues DEF Chat, HandInv, ClaimedStillQueued, Handed
<1>3. CASE Recovery
  BY <1>3, WorkerHand DEF Recovery
<1>4. CASE Admin \/ Clock \/ UNCHANGED vars
  <2>1. UNCHANGED <<worker, queue>>
    BY <1>4, AdminLeavesQueue DEF Clock, vars, store, tables
  <2>. QED  BY <2>1 DEF HandInv, ClaimedStillQueued, Handed
<1>5. CASE Crash
  BY <1>5 DEF Crash, Booting, HandInv, ClaimedStillQueued, Handed, Busy
<1>. QED  BY <1>2, <1>3, <1>4, <1>5 DEF Next

\* A claimed event is still in the table until the worker acknowledges it, with
\* any number of accounts, requests, lost writes and crashes: killing the
\* process at any point of runDue loses no event.
THEOREM ClaimedStays == Spec => []ClaimedStillQueued
<1>1. HandInv => ClaimedStillQueued
  BY DEF HandInv
<1>. QED  BY <1>1, TypeCorrect, HandInit, HandNext, PTL DEF Spec

-----------------------------------------------------------------------------
(* What is queued is exhausted, and the worker changes no cooldown. *)

\* Nothing in the program raises a window's remaining above zero.
LEMMA ExhaustedStays ==
    ASSUME TypeOK, [Next]_vars, NEW a \in Account, Exhausted(a)
    PROVE  Exhausted(a)'
<1>. windows \in [Account -> QuotaWindow]
  BY DEF TypeOK, FailoverTypeOK, StoreTypeOK, TablesTypeOK
<1>1. ASSUME NEW r \in Requests, Chat(r)
      PROVE  Exhausted(a)'
  <2>1. CASE RecordWindow(r)
    BY <2>1 DEF RecordWindow, UpsertQuotaWindow, WriteLost, tables, Exhausted
  <2>2. ~RecordWindow(r) => UNCHANGED windows
    BY <1>1 DEF Chat, Handle, Arrive, Select, GiveUp, RefreshValid, RefreshStored, RefreshDenied,
         RefreshFailed, PostFailed, PostLimited, PostOther, PostOk, CoolDown, ScheduleProbe,
         UpdateAccountTokens, SetAccountStatus, MarkAccountFailed, MarkAccountSuccess,
         EnsureQuotaRecovery, SetQueueRow, UpdateAccount, WriteLost, store, tables
  <2>. QED  BY <2>1, <2>2 DEF Exhausted
<1>2. CASE Recovery
  <2>1. UNCHANGED windows
    BY <1>2 DEF Recovery, WorkerStep, ReconcileAtStart, ReconcileOnTick, Enqueue, ClaimOnTick,
         Claim, ClaimDueRecoveries, Probe, ProbeValid, ProbeStored, ProbeDenied, ProbeFailed,
         CountExhausted, Clear, Reschedule, Ack, EnsureQuotaRecovery, RescheduleQuotaRecovery,
         AckQuotaRecovery, SetQueueRow, UpdateAccountTokens, SetAccountStatus, ClearCooldown,
         UpdateAccount, WriteLost, store, tables
  <2>. QED  BY <2>1 DEF Exhausted
<1>3. CASE Admin \/ Clock \/ Crash \/ UNCHANGED vars
  <2>1. UNCHANGED windows
    BY <1>3, AdminLeavesQueue DEF Clock, Crash, vars, store, tables
  <2>. QED  BY <2>1 DEF Exhausted
<1>. QED  BY <1>1, <1>2, <1>3 DEF Next

LEMMA ExhaustedInit == Init => ExhaustedInv
  BY DEF Init, StoreInit, FailoverInit, RecoveryInit, NoRequests, NewRequest, Booting, NoEvent,
         ExhaustedInv, QueuedImpliesExhausted, Handed, Busy, At

LEMMA ChatExhausted ==
    ASSUME DbMayFail = FALSE, TypeOK, ExhaustedInv, NEW r \in Requests, Chat(r)
    PROVE  ExhaustedInv'
<1>1. \A a \in Account : Exhausted(a) => Exhausted(a)'
  BY ExhaustedStays DEF Next
<1>2. worker' = worker /\ req \in [Requests -> Request]
  BY DEF Chat, TypeOK, FailoverTypeOK, RequestsTypeOK
<1>3. /\ queue \in [Account -> QueueRow] /\ windows \in [Account -> QuotaWindow]
      /\ \A q \in Requests : req[q].pc \in Holding => req[q].acct \in Account
  BY DEF TypeOK, FailoverTypeOK, StoreTypeOK, TablesTypeOK, RequestsTypeOK
<1>4. \A q \in Requests \ {r} : req'[q] = req[q]
  BY <1>2 DEF Chat, Handle, Arrive, Select, GiveUp, RefreshValid, RefreshStored, RefreshDenied,
       RefreshFailed, PostFailed, PostLimited, PostOther, PostOk, CoolDown, RecordWindow,
       ScheduleProbe, Reply, NextAttempt, NextAttemptWith, Goto
<1>5. SUFFICES /\ \A a \in Account : queue'[a].queued => queue[a].queued \/ Exhausted(a)
               /\ (At(r, "ensure") => req[r].acct \in Account /\ Exhausted(req[r].acct))'
  BY <1>1, <1>2, <1>4 DEF ExhaustedInv, QueuedImpliesExhausted, Handed, At
<1>6. CASE RecordWindow(r)
  <2>1. /\ req[r].acct \in Account /\ req'[r].acct = req[r].acct
    BY <1>2, <1>3, <1>6 DEF RecordWindow, At, Goto, Holding, Request
  <2>2. /\ windows'[req[r].acct].known
        /\ windows'[req[r].acct].remaining = 0
    BY <1>3, <1>6, <2>1 DEF RecordWindow, UpsertQuotaWindow, WriteLost
  <2>3. queue' = queue
    BY <1>6 DEF RecordWindow, UpsertQuotaWindow, WriteLost, tables
  <2>. QED  BY <2>1, <2>2, <2>3 DEF Exhausted
<1>7. CASE ScheduleProbe(r)
  <2>1. req[r].acct \in Account /\ Exhausted(req[r].acct)
    BY <1>7 DEF ScheduleProbe, ExhaustedInv
  <2>2. \A a \in Account \ {req[r].acct} : queue'[a] = queue[a]
    BY <1>3, <1>7 DEF ScheduleProbe, EnsureQuotaRecovery, SetQueueRow, WriteLost, tables
  <2>3. req'[r].pc = "select"
    BY <1>2, <1>7 DEF ScheduleProbe, NextAttemptWith, Request
  <2>. QED  BY <2>1, <2>2, <2>3 DEF At
<1>8. CASE ~RecordWindow(r) /\ ~ScheduleProbe(r)
  <2>1. queue' = queue
    BY <1>8 DEF Chat, Handle, Arrive, Select, GiveUp, RefreshValid, RefreshStored, RefreshDenied,
         RefreshFailed, PostFailed, PostLimited, PostOther, PostOk, CoolDown,
         UpdateAccountTokens, SetAccountStatus, MarkAccountFailed, MarkAccountSuccess,
         UpdateAccount, WriteLost, store, tables
  <2>2. req'[r].pc # "ensure"
    <3>1. \A ans : Reply(r, ans) => req'[r].pc = "idle"
      BY <1>2 DEF Reply, NewRequest
    <3>2. NextAttempt(r) => req'[r].pc = "select"
      BY <1>2 DEF NextAttempt, Request
    <3>3. \A c : NextAttemptWith(r, c) => req'[r].pc = "select"
      BY <1>2 DEF NextAttemptWith, Request
    <3>4. \A pc : Goto(r, pc) => req'[r].pc = pc
      BY <1>2 DEF Goto, Request
    <3>5. CASE Arrive(r)
      BY <1>2, <3>5 DEF Arrive, NewRequest
    <3>6. CASE Select(r) \/ PostLimited(r) \/ CoolDown(r)
      <4>1. Select(r) => req'[r].pc = "refresh"
        BY <1>2 DEF Select, Request
      <4>2. CoolDown(r) => req'[r].pc = "upsert"
        BY <1>2 DEF CoolDown, Request
      <4>3. ASSUME NEW c, NEW n, NEW t,
                   req' = [req EXCEPT ![r].pc = "limited", ![r].code = c,
                                      ![r].cool = n, ![r].until = t]
            PROVE  req'[r].pc = "limited"
        BY <1>2, <4>3 DEF Request
      <4>4. PostLimited(r) => req'[r].pc = "limited"
        BY <4>3 DEF PostLimited
      <4>. QED  BY <3>6, <4>1, <4>2, <4>4
    <3>7. CASE \/ GiveUp(r) \/ PostOk(r) \/ RefreshDenied(r) \/ RefreshFailed(r)
               \/ PostFailed(r) \/ PostOther(r) \/ RefreshValid(r) \/ RefreshStored(r)
      BY <3>1, <3>2, <3>3, <3>4, <3>7
         DEF GiveUp, PostOk, RefreshDenied, RefreshFailed, PostFailed, PostOther, RefreshValid,
             RefreshStored
    <3>. QED  BY <1>8, <3>5, <3>6, <3>7 DEF Chat, Handle
  <2>. QED  BY <2>1, <2>2 DEF At
<1>. QED  BY <1>6, <1>7, <1>8

LEMMA WorkerExhausted ==
    ASSUME DbMayFail = FALSE, TypeOK, ExhaustedInv, Recovery
    PROVE  ExhaustedInv'
<1>1. \A a \in Account : Exhausted(a) => Exhausted(a)'
  BY ExhaustedStays DEF Next
<1>2. /\ worker \in Worker /\ worker.batch \subseteq Event /\ worker.ev \in Event
      /\ worker.todo \subseteq Account
      /\ queue \in [Account -> QueueRow]
  BY WorkerRecordType DEF TypeOK, FailoverTypeOK, StoreTypeOK, TablesTypeOK, RecoveryTypeOK
<1>3. /\ \A a \in Account : queue[a].queued \/ a \in Handed \cup worker.todo => Exhausted(a)
      /\ worker.pc # "clear" /\ ~DbMayFail
  BY DEF ExhaustedInv, QueuedImpliesExhausted
<1>. DEFINE Kept == /\ \A a \in Account : \/ queue'[a].queued
                                          \/ a \in Handed'
                                          \/ a \in worker'.todo
                                          => Exhausted(a)
                    /\ worker'.pc # "clear"
<1>4. SUFFICES Kept
  BY <1>1 DEF ExhaustedInv, QueuedImpliesExhausted, Recovery, At
<1>5. Waiting.batch = {} /\ Waiting.pc = "wait" /\ Waiting.todo = {}
  BY DEF Waiting, Booting
<1>. USE DEF Handed, Busy
<1>6. ASSUME NEW t, Reconcile(t), UNCHANGED store
      PROVE  Kept
  <2>1. PICK T \in SUBSET Account :
            /\ T \subseteq {a \in Account : Exhausted(a)}
            /\ worker' = IF T = {} THEN Waiting
                         ELSE [Waiting EXCEPT !.pc = "enqueue", !.now = t, !.todo = T]
    BY <1>3, <1>6 DEF Reconcile, ListDueQuotaWindows
  <2>2. worker'.pc \in {"wait", "enqueue"} /\ worker'.batch = {} /\ worker'.todo = T
    BY <1>5, <2>1 DEF Waiting, Booting
  <2>. QED  BY <1>3, <1>6, <2>1, <2>2 DEF store, tables
<1>7. CASE ReconcileAtStart \/ ReconcileOnTick
  BY <1>6, <1>7 DEF ReconcileAtStart, ReconcileOnTick
<1>8. CASE Enqueue
  <2>1. PICK a \in worker.todo :
            /\ EnsureQuotaRecovery(a, 0, worker.now)
            /\ worker' = IF worker.todo = {a} THEN Waiting
                         ELSE [worker EXCEPT !.todo = @ \ {a}]
    BY <1>8 DEF Enqueue
  <2>2. \A b \in Account : queue'[b].queued => b = a \/ queue[b].queued
    BY <1>2, <2>1 DEF EnsureQuotaRecovery, SetQueueRow, WriteLost, tables
  <2>3. \/ worker'.pc = "wait" /\ worker'.batch = {} /\ worker'.todo = {}
        \/ /\ worker'.pc = worker.pc /\ worker'.batch = worker.batch
           /\ worker'.ev = worker.ev /\ worker'.todo \subseteq worker.todo
    BY <1>2, <1>5, <2>1 DEF Worker
  <2>. QED  BY <1>3, <2>1, <2>2, <2>3
<1>9. CASE ClaimOnTick
  <2>1. PICK T \in SUBSET Account : Claim(ticks.worker, T)
    BY <1>3, <1>9 DEF ClaimOnTick, WriteLost
  <2>2. /\ \A a \in T : queue[a].queued
        /\ \A b \in Account : queue'[b].queued => queue[b].queued
    BY <1>2, <2>1 DEF Claim, ClaimDueRecoveries, QueueRow
  <2>3. worker'.pc \in {"wait", "probe"} /\ worker'.todo = {}
          /\ worker'.batch \in {{}, InHand(T)}
    BY <2>1 DEF Claim, Waiting, Booting
  <2>. QED  BY <1>3, <2>2, <2>3 DEF InHand
<1>10. CASE Probe
  <2>1. PICK ev \in worker.batch :
            \E e \in {ev, Retried(ev), AfterCooldown(ev)},
               pc \in {"ack", "reschedule", "refresh"} :
                 worker' = [worker EXCEPT !.pc = pc, !.batch = @ \ {ev}, !.ev = e]
    BY <1>10 DEF Probe
  <2>2. PICK e \in {ev, Retried(ev), AfterCooldown(ev)},
             pc \in {"ack", "reschedule", "refresh"} :
            worker' = [worker EXCEPT !.pc = pc, !.batch = @ \ {ev}, !.ev = e]
    BY <2>1
  <2>3. ev \in Event
    BY <1>2, <2>1
  <2>4. e.acct = ev.acct
    BY <2>2, <2>3 DEF Retried, AfterCooldown, Event
  <2>5. /\ worker'.pc = pc /\ worker'.todo = worker.todo
        /\ worker'.batch = worker.batch \ {ev} /\ worker'.ev.acct = ev.acct
    BY <1>2, <2>2, <2>4 DEF Worker
  <2>6. queue' = queue
    BY <1>10 DEF Probe, store, tables
  <2>. QED  BY <1>3, <2>1, <2>5, <2>6
<1>11. CASE ProbeValid \/ ProbeStored \/ ProbeDenied \/ CountExhausted \/ Clear
  <2>0. worker.pc = "count" => Exhausted(worker.ev.acct)
    BY <1>2, <1>3 DEF Event
  <2>1. /\ worker.pc \in {"refresh", "count"}
        /\ \E pc \in {"count", "ack"} : worker' = [worker EXCEPT !.pc = pc]
    BY <1>3, <1>11, <2>0 DEF ProbeValid, ProbeStored, ProbeDenied, CountExhausted, Clear, Proceed
  <2>2. queue' = queue
    BY <1>11 DEF ProbeValid, ProbeStored, ProbeDenied, CountExhausted, Clear,
         UpdateAccountTokens, SetAccountStatus, ClearCooldown, UpdateAccount, WriteLost,
         store, tables
  <2>3. /\ worker'.pc \in {"count", "ack"} /\ worker'.batch = worker.batch
        /\ worker'.ev = worker.ev /\ worker'.todo = worker.todo
    BY <1>2, <2>1 DEF Worker
  <2>. QED  BY <1>3, <2>1, <2>2, <2>3
<1>12. CASE ProbeFailed
  <2>1. /\ worker'.pc = "reschedule" /\ worker'.batch = worker.batch
        /\ worker'.ev.acct = worker.ev.acct /\ queue' = queue /\ worker'.todo = worker.todo
    BY <1>2, <1>12 DEF ProbeFailed, Retried, Worker, Event, store, tables
  <2>. QED  BY <1>3, <1>12, <2>1 DEF ProbeFailed
<1>13. CASE Reschedule \/ Ack
  <2>1. \A b \in Account : queue'[b].queued => queue[b].queued
    BY <1>2, <1>13 DEF Reschedule, RescheduleQuotaRecovery, Ack, AckQuotaRecovery, SetQueueRow,
                       NoEvent, WriteLost, tables
  <2>2. \/ worker'.pc = "wait" /\ worker'.batch = {} /\ worker'.todo = {}
        \/ /\ worker'.pc = "probe" /\ worker'.batch = worker.batch
           /\ worker'.todo = worker.todo
    BY <1>2, <1>5, <1>13 DEF Reschedule, Ack, NextEvent, Worker
  <2>. QED  BY <1>3, <2>1, <2>2
<1>. QED
  BY <1>7, <1>8, <1>9, <1>10, <1>11, <1>12, <1>13 DEF Recovery, WorkerStep

LEMMA ExhaustedNext ==
    ASSUME DbMayFail = FALSE
    PROVE  TypeOK /\ ExhaustedInv /\ [Next]_vars => ExhaustedInv'
<1>. SUFFICES ASSUME TypeOK, ExhaustedInv, [Next]_vars
              PROVE  ExhaustedInv'
  OBVIOUS
<1>1. \A a \in Account : Exhausted(a) => Exhausted(a)'
  BY ExhaustedStays
<1>2. CASE Admin \/ Clock \/ UNCHANGED vars
  <2>1. UNCHANGED <<worker, queue, req, windows>>
    BY <1>2, AdminLeavesQueue DEF Clock, vars, store, tables
  <2>. QED  BY <2>1 DEF ExhaustedInv, QueuedImpliesExhausted, Handed, Exhausted, At
<1>3. CASE Crash
  <2>1. UNCHANGED <<queue, windows>>
    BY <1>3 DEF Crash, store, tables
  <2>2. \A r \in Requests : req'[r].pc = "idle"
    BY <1>3 DEF Crash, NoRequests, NewRequest
  <2>. QED  BY <1>3, <2>1, <2>2 DEF Crash, Booting, ExhaustedInv, QueuedImpliesExhausted,
                                    Handed, Busy, Exhausted, At
<1>. QED  BY <1>2, <1>3, ChatExhausted, WorkerExhausted DEF Next

\* As long as no write is lost, every event queued or in the worker's hands is for
\* an account whose window reads exhausted, and so is every window reconcile has
\* still to queue.
THEOREM QueuedAreExhausted ==
    ASSUME DbMayFail = FALSE
    PROVE  Spec => []QueuedImpliesExhausted
<1>1. ExhaustedInv => QueuedImpliesExhausted
  BY DEF ExhaustedInv
<1>2. TypeOK /\ ExhaustedInv /\ [Next]_vars => ExhaustedInv'
  BY ExhaustedNext
<1>. QED  BY <1>1, <1>2, TypeCorrect, ExhaustedInit, PTL DEF Spec

\* As long as no write is lost, the recovery worker changes no cooldown: the
\* UPDATE of ClearAccountCooldownIfQuotaRecovered is never reached.
THEOREM RecoveryLeavesCooldowns ==
    ASSUME DbMayFail = FALSE
    PROVE  Spec => RecoveryKeepsCooldowns
<1>1. ASSUME TypeOK, ExhaustedInv, WorkerStep, NEW a \in rows
      PROVE  accounts'[a].cooldown = accounts[a].cooldown
  <2>1. ~Clear
    BY <1>1 DEF ExhaustedInv, Clear
  <2>2. CASE ProbeStored \/ ProbeDenied
    <3>1. accounts \in [Account -> AccountRow]
      BY <1>1 DEF TypeOK, FailoverTypeOK, StoreTypeOK, TablesTypeOK
    <3>2. worker.ev.acct \in Account /\ a \in Account
      BY <1>1, WorkerRecordType DEF TypeOK, FailoverTypeOK, StoreTypeOK, TablesTypeOK, Event
    <3>. DEFINE b == worker.ev.acct
    <3>3. ASSUME NEW row, UpdateAccount(b, row), row.cooldown = accounts[b].cooldown
          PROVE  accounts'[a].cooldown = accounts[a].cooldown
      BY <3>1, <3>2, <3>3 DEF UpdateAccount
    <3>4. /\ [accounts[b] EXCEPT !.auth = "active"].cooldown = accounts[b].cooldown
          /\ [accounts[b] EXCEPT !.enabled = TRUE, !.auth = "reauthRequired"].cooldown
                = accounts[b].cooldown
      BY <3>1, <3>2 DEF AccountRow
    <3>5. \/ WriteLost
          \/ UpdateAccount(b, [accounts[b] EXCEPT !.auth = "active"])
          \/ UpdateAccount(b, [accounts[b] EXCEPT !.enabled = TRUE, !.auth = "reauthRequired"])
      BY <2>2 DEF ProbeStored, ProbeDenied, UpdateAccountTokens, SetAccountStatus
    <3>. QED  BY <3>3, <3>4, <3>5 DEF WriteLost, tables
  <2>3. ~ProbeStored /\ ~ProbeDenied => accounts' = accounts
    BY <1>1, <2>1 DEF WorkerStep, ReconcileAtStart, ReconcileOnTick, Enqueue, ClaimOnTick,
         Claim, ClaimDueRecoveries, Probe, ProbeValid, ProbeFailed,
         CountExhausted, Reschedule, Ack, EnsureQuotaRecovery, RescheduleQuotaRecovery,
         AckQuotaRecovery, SetQueueRow, WriteLost, store, tables
  <2>. QED  BY <2>2, <2>3
<1>2. TypeOK /\ ExhaustedInv =>
        [WorkerStep => \A a \in rows : accounts'[a].cooldown = accounts[a].cooldown]_vars
  BY <1>1
<1>3. TypeOK /\ ExhaustedInv /\ [Next]_vars => ExhaustedInv'
  BY ExhaustedNext
<1>. QED  BY <1>2, <1>3, TypeCorrect, ExhaustedInit, PTL DEF Spec, RecoveryKeepsCooldowns

-----------------------------------------------------------------------------
(* No account inherits what a deleted one left behind. *)

LEMMA IdsInit == Init => IdsInv
<1>. SUFFICES ASSUME Init
              PROVE  IdsInv
  OBVIOUS
<1>1. /\ nextId = InitAccounts + 1 /\ nextId \in Nat /\ nextId > 0
      /\ \A a \in rows : a < nextId
  BY StoreAssumption DEF Init, StoreInit
<1>2. \A r \in Requests : req[r].acct = 0
  BY DEF Init, FailoverInit, NoRequests, NewRequest
<1>3. Handed = {} /\ worker.todo = {}
  BY DEF Init, RecoveryInit, Booting, Handed, Busy
<1>4. NewIdsAreClean
  <2>. SUFFICES ASSUME NEW a \in Account, a >= nextId
                PROVE  ~windows[a].known /\ ~queue[a].queued /\ ~caps[a]
    BY DEF NewIdsAreClean
  <2>1. a \notin rows
    BY <1>1 DEF Account
  <2>2. caps[a] = (a \in rows)
    BY DEF Init, StoreInit
  <2>. QED  BY <2>1, <2>2 DEF Init, StoreInit, NoWindow, NoEvent
<1>. QED  BY <1>1, <1>2, <1>3, <1>4 DEF IdsInv

\* A chat step works for the account of its request, picked among the rows.
LEMMA ChatIds ==
    ASSUME TypeOK, IdsInv, NEW r \in Requests, Chat(r)
    PROVE  IdsInv'
<1>1. /\ req \in [Requests -> Request] /\ rows \subseteq Account /\ nextId \in Nat
      /\ queue \in [Account -> QueueRow] /\ windows \in [Account -> QuotaWindow]
      /\ nextId > 0
  BY StoreAssumption DEF TypeOK, FailoverTypeOK, RequestsTypeOK, StoreTypeOK, TablesTypeOK
<1>2. UNCHANGED <<rows, nextId, caps, worker>>
  BY DEF Chat, Handle, Arrive, Select, GiveUp, RefreshValid, RefreshStored, RefreshDenied,
       RefreshFailed, PostFailed, PostLimited, PostOther, PostOk, CoolDown, RecordWindow,
       ScheduleProbe, UpdateAccountTokens, SetAccountStatus, MarkAccountFailed,
       MarkAccountSuccess, UpsertQuotaWindow, EnsureQuotaRecovery, SetQueueRow,
       UpdateAccount, WriteLost, store, tables
<1>3. \A a \in Account : windows'[a].known => windows[a].known \/ a = req[r].acct
  <2>1. CASE RecordWindow(r)
    BY <1>1, <2>1 DEF RecordWindow, UpsertQuotaWindow, WriteLost, tables
  <2>2. ~RecordWindow(r) => UNCHANGED windows
    BY DEF Chat, Handle, Arrive, Select, GiveUp, RefreshValid, RefreshStored, RefreshDenied,
         RefreshFailed, PostFailed, PostLimited, PostOther, PostOk, CoolDown, ScheduleProbe,
         UpdateAccountTokens, SetAccountStatus, MarkAccountFailed, MarkAccountSuccess,
         EnsureQuotaRecovery, SetQueueRow, UpdateAccount, WriteLost, store, tables
  <2>. QED  BY <2>1, <2>2
<1>4. \A a \in Account : queue'[a].queued => queue[a].queued \/ a = req[r].acct
  <2>1. CASE ScheduleProbe(r)
    BY <1>1, <2>1 DEF ScheduleProbe, EnsureQuotaRecovery, SetQueueRow, WriteLost, tables
  <2>2. ~ScheduleProbe(r) => UNCHANGED queue
    BY DEF Chat, Handle, Arrive, Select, GiveUp, RefreshValid, RefreshStored, RefreshDenied,
         RefreshFailed, PostFailed, PostLimited, PostOther, PostOk, CoolDown, RecordWindow,
         UpdateAccountTokens, SetAccountStatus, MarkAccountFailed, MarkAccountSuccess,
         UpsertQuotaWindow, UpdateAccount, WriteLost, store, tables
  <2>. QED  BY <2>1, <2>2
<1>5. \A q \in Requests : req'[q].acct \in {req[q].acct, 0} \cup rows
  <2>1. \A ans : Reply(r, ans) => \A q \in Requests : req'[q].acct \in {req[q].acct, 0}
    BY <1>1 DEF Reply, NewRequest
  <2>2. /\ NextAttempt(r) => \A q \in Requests : req'[q].acct = req[q].acct
        /\ \A c : NextAttemptWith(r, c) => \A q \in Requests : req'[q].acct = req[q].acct
        /\ \A pc : Goto(r, pc) => \A q \in Requests : req'[q].acct = req[q].acct
    <3>1. NextAttempt(r) => \A q \in Requests : req'[q].acct = req[q].acct
      BY <1>1 DEF NextAttempt, Request
    <3>2. \A c : NextAttemptWith(r, c) => \A q \in Requests : req'[q].acct = req[q].acct
      BY <1>1 DEF NextAttemptWith, Request
    <3>3. \A pc : Goto(r, pc) => \A q \in Requests : req'[q].acct = req[q].acct
      BY <1>1 DEF Goto, Request
    <3>. QED  BY <3>1, <3>2, <3>3
  <2>3. CASE Arrive(r)
    BY <1>1, <2>3 DEF Arrive, NewRequest
  <2>4. CASE Select(r)
    <3>1. PICK a \in rows : req' = [req EXCEPT ![r].pc = "refresh", ![r].acct = a]
      BY <2>4 DEF Select, GetHealthyAccountForModel, Healthy, Serving
    <3>. QED  BY <1>1, <3>1 DEF Request
  <2>5. CASE CoolDown(r)
    BY <1>1, <2>5 DEF CoolDown, Request
  <2>6. ASSUME NEW c, NEW n, NEW t,
               req' = [req EXCEPT ![r].pc = "limited", ![r].code = c,
                                  ![r].cool = n, ![r].until = t]
        PROVE  \A q \in Requests : req'[q].acct = req[q].acct
    BY <1>1, <2>6 DEF Request
  <2>7. CASE PostLimited(r)
    BY <2>6, <2>7 DEF PostLimited
  <2>8. CASE \/ GiveUp(r) \/ PostOk(r) \/ RefreshDenied(r) \/ RefreshFailed(r)
             \/ PostFailed(r) \/ PostOther(r) \/ RefreshValid(r) \/ RefreshStored(r)
             \/ RecordWindow(r) \/ ScheduleProbe(r)
    BY <2>1, <2>2, <2>8
       DEF GiveUp, PostOk, RefreshDenied, RefreshFailed, PostFailed, PostOther, RefreshValid,
           RefreshStored, RecordWindow, ScheduleProbe
  <2>. QED  BY <2>3, <2>4, <2>5, <2>7, <2>8 DEF Chat, Handle
<1>6. \A q \in Requests : req'[q].acct < nextId
  BY <1>1, <1>5 DEF IdsInv
<1>7. NewIdsAreClean'
  <2>1. req[r].acct < nextId
    BY DEF IdsInv
  <2>2. \A a \in Account : a >= nextId => a # req[r].acct
    BY <1>1, <2>1 DEF Account
  <2>. QED  BY <1>2, <1>3, <1>4, <2>2 DEF IdsInv, NewIdsAreClean
<1>. QED  BY <1>2, <1>6, <1>7 DEF IdsInv, Handed

LEMMA WorkerIds ==
    ASSUME TypeOK, IdsInv, Recovery
    PROVE  IdsInv'
<1>1. /\ worker \in Worker /\ worker.batch \subseteq Event /\ worker.ev \in Event
      /\ worker.todo \subseteq Account /\ nextId \in Nat
      /\ queue \in [Account -> QueueRow]
  <2>1. worker \in Worker /\ worker.batch \subseteq Event /\ worker.ev \in Event
          /\ worker.todo \subseteq Account
    BY WorkerRecordType DEF TypeOK, RecoveryTypeOK
  <2>2. nextId \in Nat /\ queue \in [Account -> QueueRow]
    BY StoreAssumption DEF TypeOK, FailoverTypeOK, StoreTypeOK, TablesTypeOK
  <2>. QED  BY <2>1, <2>2
<1>2. UNCHANGED <<rows, nextId, caps, windows, req>>
  BY DEF Recovery, WorkerStep, ReconcileAtStart, ReconcileOnTick, Enqueue, ClaimOnTick,
         Claim, ClaimDueRecoveries, Probe, ProbeValid, ProbeStored, ProbeDenied, ProbeFailed,
         CountExhausted, Clear, Reschedule, Ack, EnsureQuotaRecovery, RescheduleQuotaRecovery,
         AckQuotaRecovery, SetQueueRow, UpdateAccountTokens, SetAccountStatus, ClearCooldown,
         UpdateAccount, WriteLost, store, tables
<1>3. \A a \in Account : \/ queue[a].queued
                         \/ windows[a].known
                         \/ a \in Handed \cup worker.todo
                         => a < nextId
  BY <1>1 DEF IdsInv, NewIdsAreClean, Account
<1>4. SUFFICES \A a \in Account : \/ queue'[a].queued
                                  \/ a \in Handed'
                                  \/ a \in worker'.todo
                                  => \/ queue[a].queued
                                     \/ windows[a].known
                                     \/ a \in Handed \cup worker.todo
  <2>1. Handed' \subseteq Account /\ worker'.todo \subseteq Account
    <3>1. TypeOK'
      BY NextType DEF Next
    <3>2. worker' \in Worker
      BY <3>1 DEF TypeOK, RecoveryTypeOK
    <3>. QED  BY <3>2 DEF Handed, Worker, Event
  <2>. QED  BY <1>1, <1>2, <1>3, <1>4, <2>1 DEF IdsInv, NewIdsAreClean, Account
<1>5. Waiting.batch = {} /\ Waiting.pc = "wait" /\ Waiting.todo = {}
  BY DEF Waiting, Booting
<1>. USE DEF Handed, Busy
<1>6. CASE ReconcileAtStart \/ ReconcileOnTick
  <2>1. ASSUME NEW t, Reconcile(t)
        PROVE  /\ worker'.pc \in {"wait", "enqueue"} /\ worker'.batch = {}
               /\ worker'.todo \subseteq {a \in Account : windows[a].known}
    BY <2>1 DEF Reconcile, ListDueQuotaWindows, Exhausted, Waiting, Booting
  <2>2. UNCHANGED queue
    BY <1>6 DEF ReconcileAtStart, ReconcileOnTick, store, tables
  <2>. QED  BY <1>6, <2>1, <2>2 DEF ReconcileAtStart, ReconcileOnTick
<1>7. CASE Enqueue
  <2>1. PICK a \in worker.todo :
            /\ EnsureQuotaRecovery(a, 0, worker.now)
            /\ worker' = IF worker.todo = {a} THEN Waiting
                         ELSE [worker EXCEPT !.todo = @ \ {a}]
    BY <1>7 DEF Enqueue
  <2>2. \A b \in Account : queue'[b].queued => b = a \/ queue[b].queued
    BY <1>1, <2>1 DEF EnsureQuotaRecovery, SetQueueRow, WriteLost, tables
  <2>3. \/ worker'.pc = "wait" /\ worker'.batch = {} /\ worker'.todo = {}
        \/ /\ worker'.pc = worker.pc /\ worker'.batch = worker.batch
           /\ worker'.ev = worker.ev /\ worker'.todo \subseteq worker.todo
    BY <1>1, <1>5, <2>1 DEF Worker
  <2>. QED  BY <2>1, <2>2, <2>3
<1>8. CASE ClaimOnTick
  <2>1. CASE WriteLost /\ worker' = Waiting
    BY <1>5, <2>1 DEF WriteLost, tables
  <2>2. ASSUME NEW T \in SUBSET Account, Claim(ticks.worker, T)
        PROVE  \A a \in Account : queue'[a].queued \/ a \in Handed' \cup worker'.todo
                                    => queue[a].queued
    <3>1. /\ \A a \in T : queue[a].queued
          /\ \A b \in Account : queue'[b].queued => queue[b].queued
      BY <1>1, <2>2 DEF Claim, ClaimDueRecoveries, QueueRow
    <3>2. worker'.pc \in {"wait", "probe"} /\ worker'.todo = {}
            /\ worker'.batch \in {{}, InHand(T)}
      BY <2>2 DEF Claim, Waiting, Booting
    <3>. QED  BY <3>1, <3>2 DEF InHand
  <2>. QED  BY <1>8, <2>1, <2>2 DEF ClaimOnTick
<1>9. CASE Probe
  <2>1. PICK ev \in worker.batch :
            \E e \in {ev, Retried(ev), AfterCooldown(ev)},
               pc \in {"ack", "reschedule", "refresh"} :
                 worker' = [worker EXCEPT !.pc = pc, !.batch = @ \ {ev}, !.ev = e]
    BY <1>9 DEF Probe
  <2>2. PICK e \in {ev, Retried(ev), AfterCooldown(ev)},
             pc \in {"ack", "reschedule", "refresh"} :
            worker' = [worker EXCEPT !.pc = pc, !.batch = @ \ {ev}, !.ev = e]
    BY <2>1
  <2>3. ev \in Event
    BY <1>1, <2>1
  <2>4. e.acct = ev.acct
    BY <2>2, <2>3 DEF Retried, AfterCooldown, Event
  <2>5. /\ worker'.todo = worker.todo
        /\ worker'.batch = worker.batch \ {ev} /\ worker'.ev.acct = ev.acct
    BY <1>1, <2>2, <2>4 DEF Worker
  <2>6. queue' = queue
    BY <1>9 DEF Probe, store, tables
  <2>. QED  BY <2>1, <2>5, <2>6
<1>10. CASE ProbeValid \/ ProbeStored \/ ProbeDenied \/ CountExhausted \/ Clear
  <2>1. /\ worker.pc \in Busy
        /\ \E pc \in Busy : worker' = [worker EXCEPT !.pc = pc]
    BY <1>10 DEF ProbeValid, ProbeStored, ProbeDenied, CountExhausted, Clear, Proceed
  <2>2. queue' = queue
    BY <1>10 DEF ProbeValid, ProbeStored, ProbeDenied, CountExhausted, Clear,
         UpdateAccountTokens, SetAccountStatus, ClearCooldown, UpdateAccount, WriteLost,
         store, tables
  <2>3. worker'.batch = worker.batch /\ worker'.ev = worker.ev /\ worker'.todo = worker.todo
    BY <1>1, <2>1 DEF Worker
  <2>. QED  BY <2>1, <2>2, <2>3
<1>11. CASE ProbeFailed
  <2>1. /\ worker'.batch = worker.batch /\ worker'.todo = worker.todo
        /\ worker'.ev.acct = worker.ev.acct /\ queue' = queue
    BY <1>1, <1>11 DEF ProbeFailed, Retried, Worker, Event, store, tables
  <2>. QED  BY <1>11, <2>1 DEF ProbeFailed
<1>12. CASE Reschedule \/ Ack
  <2>1. \A b \in Account : queue'[b].queued => queue[b].queued
    BY <1>1, <1>12 DEF Reschedule, RescheduleQuotaRecovery, Ack, AckQuotaRecovery, SetQueueRow,
                       NoEvent, WriteLost, tables
  <2>2. \/ worker'.pc = "wait" /\ worker'.batch = {} /\ worker'.todo = {}
        \/ /\ worker'.pc = "probe" /\ worker'.batch = worker.batch
           /\ worker'.todo = worker.todo
    BY <1>1, <1>5, <1>12 DEF Reschedule, Ack, NextEvent, Worker
  <2>. QED  BY <2>1, <2>2
<1>. QED
  BY <1>6, <1>7, <1>8, <1>9, <1>10, <1>11, <1>12 DEF Recovery, WorkerStep

LEMMA IdsNext == TypeOK /\ IdsInv /\ [Next]_vars => IdsInv'
<1>. SUFFICES ASSUME TypeOK, IdsInv, [Next]_vars
              PROVE  IdsInv'
  OBVIOUS
<1>1. rows \subseteq Account /\ nextId \in Nat /\ nextId > 0 /\ caps \in [Account -> BOOLEAN]
  BY StoreAssumption DEF TypeOK, FailoverTypeOK, StoreTypeOK, TablesTypeOK
<1>. USE DEF IdsInv, NewIdsAreClean, Handed, Account
<1>2. CASE Admin
  <2>1. UNCHANGED <<queue, windows, worker, req>>
    BY <1>2, AdminLeavesQueue
  <2>2. CASE Import
    <3>1. nextId' = nextId + 1 /\ rows' = rows \cup {nextId} /\ caps' = caps
      BY <2>2 DEF Import, InsertAccount
    <3>2. Handed \cup worker.todo \subseteq Account
      BY WorkerRecordType DEF TypeOK, Event
    <3>3. \A r \in Requests : req[r].acct \in Account \cup {0}
      BY DEF TypeOK, FailoverTypeOK, RequestsTypeOK, Request
    <3>4. \A a \in Account \cup {0} : a < nextId => a < nextId + 1
      BY <1>1
    <3>5. \A a \in Account : a >= nextId + 1 => a >= nextId
      BY <1>1
    <3>. QED  BY <1>1, <2>1, <3>1, <3>2, <3>3, <3>4, <3>5
  <2>3. ASSUME NEW a \in Account, Delete(a)
        PROVE  IdsInv'
    BY <2>1, <2>3 DEF Delete, DeleteAccount
  <2>4. ASSUME NEW a \in Account, Sync(a)
        PROVE  IdsInv'
    BY <1>1, <2>1, <2>4 DEF Sync, ReplaceAccountCapabilities
  <2>5. CASE UNCHANGED <<rows, nextId, caps>>
    BY <2>1, <2>5
  <2>6. PatchWrite \/ (\E a \in Account : PatchRead(a) \/ Reauth(a))
          => UNCHANGED <<rows, nextId, caps>>
    BY DEF PatchWrite, PatchRead, Reauth, SetAccountStatus, UpdateAccountTokens, UpdateAccount,
           WriteLost, tables
  <2>. QED  BY <1>2, <2>2, <2>3, <2>4, <2>5, <2>6 DEF Admin
<1>3. CASE Clock \/ UNCHANGED vars
  BY <1>3 DEF Clock, vars, store, tables
<1>4. CASE Crash
  BY <1>1, <1>4 DEF Crash, NoRequests, NewRequest, Booting, Busy, store, tables
<1>. QED  BY <1>2, <1>3, <1>4, ChatIds, WorkerIds DEF Next

\* Account ids are never reused, and no handler or worker step, however late,
\* writes for an id that was never handed out: an imported account starts with
\* no window, no event and no capability.
THEOREM FreshIdsClean == Spec => []NewIdsAreClean
<1>1. IdsInv => NewIdsAreClean
  BY DEF IdsInv
<1>. QED  BY <1>1, TypeCorrect, IdsInit, IdsNext, PTL DEF Spec

-----------------------------------------------------------------------------
(* Deadlines. *)

LEMMA Delays == /\ MaxDelay \in Nat /\ Lease \in Nat /\ FailCooldown \in Nat
                /\ Lease <= MaxDelay /\ FailCooldown <= MaxDelay /\ Cooldown503 <= MaxDelay
                /\ MaxBackoff \in Nat /\ MaxBackoff <= MaxDelay
                /\ \A c \in Cooldowns429 : c <= MaxDelay
  BY FailoverAssumption, RecoveryAssumption, GatewayAssumption

\* A statement that is given a deadline within bounds stores no other.
LEMMA StatementDeadlines ==
    ASSUME StoreTypeOK, TableDeadlines, NEW a \in Account, UNCHANGED now
    PROVE  /\ UpdateAccountTokens(a) => TableDeadlines'
           /\ \A e \in BOOLEAN, s \in AuthStatus : SetAccountStatus(a, e, s) => TableDeadlines'
           /\ \A n \in Nat : n <= MaxDelay /\ MarkAccountFailed(a, n) => TableDeadlines'
           /\ MarkAccountSuccess(a) => TableDeadlines'
           /\ ClearCooldown(a) => TableDeadlines'
           /\ \A t \in Nat : UpsertQuotaWindow(a, 0, t) => TableDeadlines'
           /\ \A n, t \in Nat :
                t <= now + MaxDelay /\ EnsureQuotaRecovery(a, n, t) => TableDeadlines'
           /\ \A n, t \in Nat :
                t <= now + MaxDelay /\ RescheduleQuotaRecovery(a, n, t) => TableDeadlines'
           /\ AckQuotaRecovery(a) => TableDeadlines'
<1>1. /\ accounts \in [Account -> AccountRow] /\ accounts[a] \in AccountRow
      /\ queue \in [Account -> QueueRow] /\ queue[a] \in QueueRow
      /\ now \in Nat /\ MaxDelay \in Nat
  BY StoreAssumption, Delays DEF StoreTypeOK, TablesTypeOK, Time
<1>2. WriteLost => TableDeadlines'
  BY DEF WriteLost, tables, TableDeadlines, DueBounded
<1>3. ASSUME NEW row \in AccountRow, row.cooldown <= now + MaxDelay, UpdateAccount(a, row)
      PROVE  TableDeadlines'
  BY <1>1, <1>3 DEF UpdateAccount, TableDeadlines, DueBounded
<1>4. ASSUME NEW row \in QueueRow, row.due <= now + MaxDelay, SetQueueRow(a, row)
      PROVE  TableDeadlines'
  BY <1>1, <1>4 DEF SetQueueRow, TableDeadlines, DueBounded
<1>5. accounts[a].cooldown <= now + MaxDelay
  BY DEF TableDeadlines
<1>6. UpdateAccountTokens(a) => TableDeadlines'
  <2>. DEFINE row == [accounts[a] EXCEPT !.auth = "active"]
  <2>1. row \in AccountRow /\ row.cooldown = accounts[a].cooldown
    BY <1>1 DEF AccountRow, AuthStatus
  <2>. QED  BY <1>3, <1>5, <2>1 DEF UpdateAccountTokens
<1>7. ASSUME NEW e \in BOOLEAN, NEW s \in AuthStatus
      PROVE  SetAccountStatus(a, e, s) => TableDeadlines'
  <2>. DEFINE row == [accounts[a] EXCEPT !.enabled = e, !.auth = s]
  <2>1. row \in AccountRow /\ row.cooldown = accounts[a].cooldown
    BY <1>1 DEF AccountRow
  <2>. QED  BY <1>2, <1>3, <1>5, <2>1 DEF SetAccountStatus
<1>8. ASSUME NEW n \in Nat, n <= MaxDelay
      PROVE  MarkAccountFailed(a, n) => TableDeadlines'
  <2>. DEFINE t == now + n  row == [accounts[a] EXCEPT !.cooldown = t]
  <2>1. t \in Nat /\ t <= now + MaxDelay
    BY <1>1, <1>8
  <2>2. MarkAccountFailed(a, n) => UpdateAccount(a, row) \/ WriteLost
    BY DEF MarkAccountFailed
  <2>. HIDE DEF t
  <2>3. row \in AccountRow /\ row.cooldown = t
    BY <1>1, <2>1 DEF AccountRow
  <2>. QED  BY <1>2, <1>3, <2>1, <2>2, <2>3
<1>9. MarkAccountSuccess(a) => TableDeadlines'
  <2>. DEFINE row == [accounts[a] EXCEPT !.cooldown = 0, !.lastUsed = now]
  <2>1. row \in AccountRow
    BY <1>1 DEF AccountRow
  <2>2. row.cooldown = 0
    BY <1>1 DEF AccountRow
  <2>3. 0 <= now + MaxDelay
    BY <1>1
  <2>. QED  BY <1>2, <1>3, <2>1, <2>2, <2>3 DEF MarkAccountSuccess
<1>10. ClearCooldown(a) => TableDeadlines'
  <2>. DEFINE row == [accounts[a] EXCEPT !.cooldown = 0]
  <2>1. row \in AccountRow /\ row.cooldown = 0 /\ 0 <= now + MaxDelay
    BY <1>1 DEF AccountRow
  <2>. QED  BY <1>2, <1>3, <2>1 DEF ClearCooldown
<1>11. \A t \in Nat : UpsertQuotaWindow(a, 0, t) => TableDeadlines'
  BY <1>2 DEF UpsertQuotaWindow, TableDeadlines, DueBounded
<1>12. ASSUME NEW n \in Nat, NEW t \in Nat, t <= now + MaxDelay
       PROVE  EnsureQuotaRecovery(a, n, t) => TableDeadlines'
  <2>. DEFINE row == [queued |-> TRUE, attempts |-> n, due |-> t]
  <2>1. row \in QueueRow /\ row.due = t
    BY DEF QueueRow
  <2>. QED  BY <1>2, <1>4, <1>12, <2>1 DEF EnsureQuotaRecovery
<1>13. ASSUME NEW n \in Nat, NEW t \in Nat, t <= now + MaxDelay
       PROVE  RescheduleQuotaRecovery(a, n, t) => TableDeadlines'
  <2>. DEFINE row == [queued |-> queue[a].queued,
                      attempts |-> IF queue[a].queued THEN n ELSE 0,
                      due |-> IF queue[a].queued THEN t ELSE 0]
  <2>1. row \in QueueRow /\ row.due <= now + MaxDelay
    BY <1>1, <1>13 DEF QueueRow
  <2>. QED  BY <1>2, <1>4, <2>1 DEF RescheduleQuotaRecovery
<1>14. AckQuotaRecovery(a) => TableDeadlines'
  <2>1. NoEvent \in QueueRow /\ NoEvent.due <= now + MaxDelay
    BY <1>1 DEF NoEvent, QueueRow
  <2>. QED  BY <1>2, <1>4, <2>1 DEF AckQuotaRecovery
<1>. QED
  BY <1>6, <1>7, <1>8, <1>9, <1>10, <1>11, <1>12, <1>13, <1>14

LEMMA DeadlinesInit == Init => DeadlinesInv
<1>. SUFFICES ASSUME Init
              PROVE  DeadlinesInv
  OBVIOUS
<1>1. now = 1 /\ 0 <= now + MaxDelay /\ 0 <= now
  BY Delays DEF Init, StoreInit
<1>2. ticks.worker = 0 /\ ticks.reconcile = 0 /\ worker.now = 0 /\ worker.ev.due = 0
        /\ worker.batch = {}
  BY DEF Init, RecoveryInit, Booting, EmptyTicks, NoHand
<1>3. \A r \in Requests : req[r].cool = 0 /\ req[r].until = 0
  BY DEF Init, FailoverInit, NoRequests, NewRequest
<1>4. \A a \in Account : accounts[a].cooldown = 0 /\ queue[a].due = 0
  BY DEF Init, StoreInit, NewAccount, NoEvent
<1>. QED  BY <1>1, <1>2, <1>3, <1>4, Delays DEF DeadlinesInv, TableDeadlines, DueBounded

\* A request's own deadlines, after any of its steps.
LEMMA RequestDeadlines ==
    ASSUME TypeOK, DeadlinesInv, NEW r \in Requests, Chat(r)
    PROVE  \A q \in Requests : req'[q].cool <= MaxDelay /\ req'[q].until <= now + MaxDelay
<1>1. /\ req \in [Requests -> Request] /\ now \in Nat
      /\ 0 <= MaxDelay /\ 0 <= now + MaxDelay
  BY StoreAssumption, Delays DEF TypeOK, FailoverTypeOK, RequestsTypeOK, StoreTypeOK, Time
<1>2. \A q \in Requests : req[q].cool <= MaxDelay /\ req[q].until <= now + MaxDelay
  BY DEF DeadlinesInv
<1>. DEFINE Kept(q) == /\ req'[q].cool \in {0, req[q].cool}
                       /\ req'[q].until \in {0, req[q].until}
<1>3. \A ans : Reply(r, ans) => \A q \in Requests : Kept(q)
  BY <1>1 DEF Reply, NewRequest
<1>4. NextAttempt(r) => \A q \in Requests : Kept(q)
  BY <1>1 DEF NextAttempt, Request
<1>5. \A c : NextAttemptWith(r, c) => \A q \in Requests : Kept(q)
  BY <1>1 DEF NextAttemptWith, Request
<1>6. \A pc : Goto(r, pc) => \A q \in Requests : Kept(q)
  BY <1>1 DEF Goto, Request
<1>7. CASE Arrive(r)
  BY <1>1, <1>2, <1>7 DEF Arrive, NewRequest
<1>8. CASE Select(r)
  BY <1>1, <1>2, <1>8 DEF Select, Request
<1>9. CASE CoolDown(r)
  BY <1>1, <1>2, <1>9 DEF CoolDown, Request
<1>10. CASE PostLimited(r)
  <2>1. \A c \in {"429", "503"} :
          \A n \in IF c = "429" THEN Cooldowns429 ELSE {Cooldown503} : n \in Nat /\ n <= MaxDelay
    BY Delays, FailoverAssumption
  <2>2. PICK c \in {"429", "503"} :
            \E n \in IF c = "429" THEN Cooldowns429 ELSE {Cooldown503} :
              req' = [req EXCEPT ![r].pc = "limited", ![r].code = c,
                                 ![r].cool = n, ![r].until = now + n]
    BY <1>10 DEF PostLimited
  <2>3. PICK n \in Nat : /\ n <= MaxDelay
                         /\ req' = [req EXCEPT ![r].pc = "limited", ![r].code = c,
                                               ![r].cool = n, ![r].until = now + n]
    BY <2>1, <2>2
  <2>. DEFINE t == now + n
  <2>4. t <= now + MaxDelay
    BY <1>1, <2>3, Delays
  <2>5. req' = [req EXCEPT ![r].pc = "limited", ![r].code = c,
                           ![r].cool = n, ![r].until = t]
    BY <2>3
  <2>. HIDE DEF t
  <2>6. req'[r].cool = n /\ req'[r].until = t
    BY <1>1, <2>5 DEF Request
  <2>7. \A q \in Requests \ {r} : req'[q] = req[q]
    BY <1>1, <2>5
  <2>. QED  BY <1>2, <2>3, <2>4, <2>6, <2>7
<1>11. CASE \/ GiveUp(r) \/ PostOk(r) \/ RefreshDenied(r) \/ RefreshFailed(r)
            \/ PostFailed(r) \/ PostOther(r) \/ RefreshValid(r) \/ RefreshStored(r)
            \/ RecordWindow(r) \/ ScheduleProbe(r)
  <2>1. \A q \in Requests : Kept(q)
    BY <1>3, <1>4, <1>5, <1>6, <1>11
       DEF GiveUp, PostOk, RefreshDenied, RefreshFailed, PostFailed, PostOther, RefreshValid,
           RefreshStored, RecordWindow, ScheduleProbe
  <2>. QED  BY <1>1, <1>2, <2>1
<1>. QED  BY <1>7, <1>8, <1>9, <1>10, <1>11 DEF Chat, Handle

LEMMA ChatDeadlines ==
    ASSUME TypeOK, DeadlinesInv, NEW r \in Requests, Chat(r)
    PROVE  DeadlinesInv'
<1>. DEFINE a == req[r].acct
<1>1. StoreTypeOK /\ TableDeadlines /\ req[r] \in Request
        /\ (req[r].pc \in Holding => a \in Account)
  BY DEF TypeOK, FailoverTypeOK, RequestsTypeOK, DeadlinesInv
<1>2. UNCHANGED <<now, worker, ticks>>
  BY DEF Chat, Handle, Arrive, Select, GiveUp, RefreshValid, RefreshStored, RefreshDenied,
       RefreshFailed, PostFailed, PostLimited, PostOther, PostOk, CoolDown, RecordWindow,
       ScheduleProbe, store
<1>3. req[r].cool \in Nat /\ req[r].cool <= MaxDelay
        /\ req[r].until \in Nat /\ req[r].until <= now + MaxDelay
  BY <1>1 DEF DeadlinesInv, Request
<1>4. ASSUME At(r, "refresh") \/ At(r, "post") \/ At(r, "limited") \/ At(r, "upsert")
               \/ At(r, "ensure")
      PROVE  a \in Account
  BY <1>1, <1>4 DEF At, Holding
<1>5. TableDeadlines'
  <2>1. UNCHANGED store => TableDeadlines'
    BY <1>1 DEF store, tables, TableDeadlines, DueBounded
  <2>2. CASE Arrive(r) \/ Select(r) \/ GiveUp(r) \/ RefreshValid(r) \/ PostLimited(r)
               \/ PostOther(r)
    BY <2>1, <2>2 DEF Arrive, Select, GiveUp, RefreshValid, PostLimited, PostOther
  <2>3. CASE RefreshStored(r)
    BY <1>1, <1>2, <1>4, <2>3, StatementDeadlines DEF RefreshStored
  <2>4. CASE RefreshDenied(r)
    <3>. TRUE \in BOOLEAN /\ "reauthRequired" \in AuthStatus
      BY DEF AuthStatus
    <3>. QED  BY <1>1, <1>2, <1>4, <2>4, StatementDeadlines DEF RefreshDenied
  <2>5. CASE RefreshFailed(r) \/ PostFailed(r)
    BY <1>1, <1>2, <1>4, <2>5, Delays, StatementDeadlines DEF RefreshFailed, PostFailed
  <2>6. CASE CoolDown(r)
    BY <1>1, <1>2, <1>3, <1>4, <2>6, StatementDeadlines DEF CoolDown
  <2>7. CASE RecordWindow(r)
    BY <1>1, <1>2, <1>3, <1>4, <2>7, StatementDeadlines DEF RecordWindow
  <2>8. CASE ScheduleProbe(r)
    BY <1>1, <1>2, <1>3, <1>4, <2>8, StatementDeadlines DEF ScheduleProbe
  <2>9. CASE PostOk(r)
    BY <1>1, <1>2, <1>4, <2>9, StatementDeadlines DEF PostOk
  <2>. QED  BY <2>2, <2>3, <2>4, <2>5, <2>6, <2>7, <2>8, <2>9 DEF Chat, Handle
<1>. QED  BY <1>2, <1>5, RequestDeadlines DEF DeadlinesInv

\* What a step of the worker may do to its record: the time it was passed is
\* never ahead of the clock, and no deadline in its hands is out of bounds.
WorkerDeadlines ==
    /\ worker.now <= now
    /\ worker.ev.due <= now + MaxDelay
    /\ \A ev \in worker.batch : ev.due <= now + MaxDelay

LEMMA WorkerRecordDeadlines ==
    ASSUME TypeOK, DeadlinesInv, Recovery
    PROVE  WorkerDeadlines' /\ ticks'.worker <= now /\ ticks'.reconcile <= now
<1>1. /\ now \in Nat /\ MaxDelay \in Nat /\ MaxBackoff <= MaxDelay /\ MaxBackoff \in Nat
      /\ 0 <= now + MaxDelay /\ 0 <= now /\ now' = now
  <2>1. now' = now
    BY DEF Recovery, WorkerStep, ReconcileAtStart, ReconcileOnTick, Enqueue, ClaimOnTick, Probe,
         ProbeValid, ProbeStored, ProbeDenied, ProbeFailed, CountExhausted, Clear, Reschedule,
         Ack, store
  <2>. QED  BY <2>1, StoreAssumption, Delays DEF TypeOK, FailoverTypeOK, StoreTypeOK, Time
<1>2. WorkerDeadlines /\ ticks.worker <= now /\ ticks.reconcile <= now
        /\ (\A a \in Account : queue[a].due <= now + MaxDelay)
        /\ (\A a \in Account : accounts[a].cooldown <= now + MaxDelay)
  BY DEF DeadlinesInv, WorkerDeadlines, TableDeadlines, DueBounded
<1>3. worker \in Worker /\ ticks \in Ticks /\ worker.now \in Nat
        /\ worker.batch \subseteq Event /\ worker.ev \in Event
  BY WorkerRecordType DEF TypeOK, RecoveryTypeOK
<1>4. ticks'.worker <= now /\ ticks'.reconcile <= now
  <2>1. \/ ticks' = ticks
        \/ ticks' = [ticks EXCEPT !.worker = 0]
        \/ ticks' = [ticks EXCEPT !.reconcile = 0]
    BY DEF Recovery, WorkerStep, ReconcileAtStart, ReconcileOnTick, Enqueue, ClaimOnTick, Probe,
         ProbeValid, ProbeStored, ProbeDenied, ProbeFailed, CountExhausted, Clear, Reschedule,
         Ack
  <2>. QED  BY <1>1, <1>2, <1>3, <2>1 DEF Ticks
<1>. SUFFICES WorkerDeadlines'
  BY <1>4
<1>5. Waiting.now = 0 /\ Waiting.ev.due = 0 /\ Waiting.batch = {}
  BY DEF Waiting, Booting, NoHand
<1>6. worker' = Waiting => WorkerDeadlines'
  BY <1>1, <1>5 DEF WorkerDeadlines
<1>7. ASSUME NEW ev \in Event
      PROVE  Retried(ev).due <= now + MaxDelay
  <2>. DEFINE n == Bump(ev.attempts)  d == worker.now + Backoff(n)
  <2>1. n \in 1..AttemptCap
    BY RecoveryAssumption DEF Bump, Event
  <2>2. Backoff(n) \in 1..MaxBackoff
    BY <2>1, RecoveryAssumption
  <2>3. d <= now + MaxDelay
    BY <1>1, <1>2, <1>3, <2>2 DEF WorkerDeadlines
  <2>4. Retried(ev) = [ev EXCEPT !.attempts = n, !.due = d]
    BY DEF Retried
  <2>. HIDE DEF n, d
  <2>. QED  BY <2>3, <2>4 DEF Event
<1>8. CASE ReconcileAtStart \/ ReconcileOnTick
  <2>1. ASSUME NEW t \in Nat, t <= now, Reconcile(t)
        PROVE  WorkerDeadlines'
    <3>1. worker' = Waiting \/ \E T \in SUBSET Account :
            worker' = [Waiting EXCEPT !.pc = "enqueue", !.now = t, !.todo = T]
      BY <2>1 DEF Reconcile
    <3>2. \A T \in SUBSET Account :
            worker' = [Waiting EXCEPT !.pc = "enqueue", !.now = t, !.todo = T]
              => worker'.now = t /\ worker'.ev.due = 0 /\ worker'.batch = {}
      BY DEF Waiting, Booting, NoHand
    <3>. QED  BY <1>1, <1>6, <2>1, <3>1, <3>2 DEF WorkerDeadlines
  <2>2. ticks.reconcile \in Nat
    BY <1>3 DEF Ticks
  <2>. QED  BY <1>1, <1>2, <1>8, <2>1, <2>2 DEF ReconcileAtStart, ReconcileOnTick
<1>9. CASE Enqueue
  <2>1. \/ worker' = Waiting
        \/ worker'.now = worker.now /\ worker'.ev = worker.ev /\ worker'.batch = worker.batch
    BY <1>3, <1>9 DEF Enqueue, Worker
  <2>. QED  BY <1>1, <1>2, <1>6, <2>1 DEF WorkerDeadlines
<1>10. CASE ClaimOnTick
  <2>1. ASSUME NEW T \in SUBSET Account, Claim(ticks.worker, T)
        PROVE  WorkerDeadlines'
    <3>1. worker' = Waiting \/
            worker' = [Waiting EXCEPT !.pc = "probe", !.now = ticks.worker, !.batch = InHand(T)]
      BY <2>1 DEF Claim
    <3>2. CASE worker' = [Waiting EXCEPT !.pc = "probe", !.now = ticks.worker,
                                         !.batch = InHand(T)]
      <4>1. worker'.now = ticks.worker /\ worker'.ev.due = 0 /\ worker'.batch = InHand(T)
        BY <3>2 DEF Waiting, Booting, NoHand
      <4>2. \A ev \in InHand(T) : ev.due <= now + MaxDelay
        BY <1>2 DEF InHand
      <4>. QED  BY <1>1, <1>2, <4>1, <4>2 DEF WorkerDeadlines
    <3>. QED  BY <1>6, <3>1, <3>2
  <2>. QED  BY <1>6, <1>10, <2>1 DEF ClaimOnTick
<1>11. CASE Probe
  <2>1. PICK ev \in worker.batch :
            \E e \in {ev, Retried(ev), AfterCooldown(ev)},
               pc \in {"ack", "reschedule", "refresh"} :
                 worker' = [worker EXCEPT !.pc = pc, !.batch = @ \ {ev}, !.ev = e]
    BY <1>11 DEF Probe
  <2>2. PICK e \in {ev, Retried(ev), AfterCooldown(ev)},
             pc \in {"ack", "reschedule", "refresh"} :
            worker' = [worker EXCEPT !.pc = pc, !.batch = @ \ {ev}, !.ev = e]
    BY <2>1
  <2>3. ev \in Event /\ ev.due <= now + MaxDelay /\ ev.acct \in Account
    BY <1>2, <1>3, <2>1 DEF WorkerDeadlines, Event
  <2>4. AfterCooldown(ev).due <= now + MaxDelay
    <3>. DEFINE c == accounts[ev.acct].cooldown  n == Bump(ev.attempts)
    <3>1. AfterCooldown(ev) = [ev EXCEPT !.attempts = n, !.due = c]
      BY DEF AfterCooldown
    <3>2. c <= now + MaxDelay
      BY <1>2, <2>3
    <3>. HIDE DEF c, n
    <3>. QED  BY <2>3, <3>1, <3>2 DEF Event
  <2>5. e.due <= now + MaxDelay
    BY <1>7, <2>2, <2>3, <2>4
  <2>6. worker'.now = worker.now /\ worker'.batch = worker.batch \ {ev} /\ worker'.ev = e
    BY <1>3, <2>2 DEF Worker
  <2>. QED  BY <1>1, <1>2, <2>5, <2>6 DEF WorkerDeadlines
<1>12. CASE ProbeFailed
  <2>1. /\ worker'.now = worker.now /\ worker'.batch = worker.batch
        /\ worker'.ev = Retried(worker.ev)
    BY <1>3, <1>12 DEF ProbeFailed, Worker
  <2>. QED  BY <1>1, <1>2, <1>3, <1>7, <2>1 DEF WorkerDeadlines
<1>13. CASE ProbeValid \/ ProbeStored \/ ProbeDenied \/ CountExhausted \/ Clear
  <2>1. \E pc \in WorkerPC : worker' = [worker EXCEPT !.pc = pc]
    BY <1>13 DEF ProbeValid, ProbeStored, ProbeDenied, CountExhausted, Clear, Proceed, WorkerPC
  <2>2. worker'.now = worker.now /\ worker'.batch = worker.batch /\ worker'.ev = worker.ev
    BY <1>3, <2>1 DEF Worker
  <2>. QED  BY <1>1, <1>2, <2>2 DEF WorkerDeadlines
<1>14. CASE Reschedule \/ Ack
  <2>1. \/ worker' = Waiting
        \/ worker'.now = worker.now /\ worker'.batch = worker.batch /\ worker'.ev = NoHand
    BY <1>3, <1>14 DEF Reschedule, Ack, NextEvent, Worker
  <2>2. NoHand.due = 0
    BY DEF NoHand
  <2>. QED  BY <1>1, <1>2, <1>6, <2>1, <2>2 DEF WorkerDeadlines
<1>. QED
  BY <1>8, <1>9, <1>10, <1>11, <1>12, <1>13, <1>14 DEF Recovery, WorkerStep

LEMMA WorkerTableDeadlines ==
    ASSUME TypeOK, DeadlinesInv, Recovery
    PROVE  TableDeadlines'
<1>1. StoreTypeOK /\ TableDeadlines /\ now \in Nat /\ MaxDelay \in Nat
  BY StoreAssumption, Delays DEF TypeOK, FailoverTypeOK, StoreTypeOK, DeadlinesInv, Time
<1>2. worker.ev.acct \in Account /\ worker.ev.attempts \in Nat /\ worker.ev.due \in Nat
        /\ worker.todo \subseteq Account /\ worker.now \in Nat
  BY WorkerRecordType DEF TypeOK, Event
<1>3. worker.now <= now + MaxDelay /\ worker.ev.due <= now + MaxDelay /\ ticks.worker <= now
  BY <1>1, <1>2 DEF DeadlinesInv
<1>4. UNCHANGED store \/ (UNCHANGED now /\ WriteLost) => TableDeadlines'
  BY <1>1 DEF store, tables, TableDeadlines, DueBounded, WriteLost
<1>5. CASE ReconcileAtStart \/ ReconcileOnTick \/ Probe \/ ProbeValid \/ ProbeFailed
             \/ CountExhausted
  BY <1>4, <1>5 DEF ReconcileAtStart, ReconcileOnTick, Probe, ProbeValid, ProbeFailed,
                    CountExhausted
<1>6. CASE Enqueue
  <2>1. PICK a \in worker.todo : EnsureQuotaRecovery(a, 0, worker.now)
    BY <1>6 DEF Enqueue
  <2>2. a \in Account
    BY <1>2, <2>1
  <2>. QED  BY <1>1, <1>2, <1>3, <1>6, <2>1, <2>2, StatementDeadlines DEF Enqueue
<1>7. CASE ClaimOnTick
  <2>1. ASSUME NEW T \in SUBSET Account, Claim(ticks.worker, T), UNCHANGED now
        PROVE  TableDeadlines'
    <3>. DEFINE d == ticks.worker + Lease
    <3>1. PICK leased \in SUBSET T :
            queue' = [a \in Account |->
                        IF a \in leased THEN [queue[a] EXCEPT !.due = d] ELSE queue[a]]
      BY <2>1 DEF Claim, ClaimDueRecoveries
    <3>5. UNCHANGED accounts
      BY <2>1 DEF Claim, ClaimDueRecoveries
    <3>2. ticks.worker \in Nat
      BY DEF TypeOK, RecoveryTypeOK, Ticks
    <3>3. d <= now + MaxDelay
      BY <1>1, <1>3, <3>2, Delays
    <3>4. queue \in [Account -> QueueRow]
      BY <1>1 DEF StoreTypeOK, TablesTypeOK
    <3>. HIDE DEF d
    <3>. QED  BY <1>1, <2>1, <3>1, <3>3, <3>4, <3>5 DEF TableDeadlines, DueBounded, QueueRow
  <2>. QED  BY <1>4, <1>7, <2>1 DEF ClaimOnTick
<1>8. CASE ProbeStored
  BY <1>1, <1>2, <1>8, StatementDeadlines DEF ProbeStored
<1>9. CASE ProbeDenied
  <2>. TRUE \in BOOLEAN /\ "reauthRequired" \in AuthStatus
    BY DEF AuthStatus
  <2>. QED  BY <1>1, <1>2, <1>9, StatementDeadlines DEF ProbeDenied
<1>10. CASE Clear
  BY <1>1, <1>2, <1>10, StatementDeadlines DEF Clear
<1>11. CASE Reschedule
  BY <1>1, <1>2, <1>3, <1>11, StatementDeadlines DEF Reschedule
<1>12. CASE Ack
  BY <1>1, <1>2, <1>12, StatementDeadlines DEF Ack
<1>. QED
  BY <1>5, <1>6, <1>7, <1>8, <1>9, <1>10, <1>11, <1>12 DEF Recovery, WorkerStep

LEMMA AdminDeadlines ==
    ASSUME TypeOK, DeadlinesInv, Admin
    PROVE  DeadlinesInv'
<1>1. StoreTypeOK /\ TableDeadlines /\ patch \in Patch /\ now \in Nat /\ MaxDelay \in Nat
  BY StoreAssumption, Delays DEF TypeOK, FailoverTypeOK, StoreTypeOK, DeadlinesInv, Time
<1>2. UNCHANGED <<queue, windows, worker, req, ticks, now>>
  BY AdminLeavesQueue
<1>3. TableDeadlines'
  <2>1. UNCHANGED accounts => TableDeadlines'
    BY <1>1, <1>2 DEF TableDeadlines, DueBounded
  <2>2. CASE PatchWrite
    <3>1. patch.acct \in Account /\ patch.enabled \in BOOLEAN /\ patch.auth \in AuthStatus
      BY <1>1 DEF Patch
    <3>. QED  BY <1>1, <1>2, <2>2, <3>1, StatementDeadlines DEF PatchWrite
  <2>3. ASSUME NEW a \in Account, Reauth(a)
        PROVE  TableDeadlines'
    BY <1>1, <1>2, <2>3, StatementDeadlines DEF Reauth
  <2>4. ASSUME NEW a \in Account, Delete(a)
        PROVE  TableDeadlines'
    <3>1. accounts' = [accounts EXCEPT ![a] = NewAccount]
      BY <2>4 DEF Delete, DeleteAccount
    <3>2. accounts \in [Account -> AccountRow]
      BY <1>1 DEF StoreTypeOK, TablesTypeOK
    <3>3. NewAccount.cooldown = 0 /\ 0 <= now + MaxDelay
      BY <1>1 DEF NewAccount
    <3>. QED  BY <1>1, <1>2, <3>1, <3>2, <3>3 DEF TableDeadlines, DueBounded
  <2>5. Import \/ (\E a \in Account : PatchRead(a) \/ Sync(a)) => UNCHANGED accounts
    BY DEF Import, InsertAccount, PatchRead, Sync, ReplaceAccountCapabilities, tables
  <2>. QED  BY <2>1, <2>2, <2>3, <2>4, <2>5 DEF Admin
<1>. QED  BY <1>2, <1>3 DEF DeadlinesInv

LEMMA LaterBound ==
    ASSUME NEW t \in Nat, NEW u \in Nat, t <= u, NEW d \in Nat
    PROVE  \A n \in Nat : n <= t + d => n <= u + d
  OBVIOUS

\* Time only moves the bound.
LEMMA ClockDeadlines ==
    ASSUME TypeOK, DeadlinesInv, Clock
    PROVE  DeadlinesInv'
<1>1. now \in Nat /\ now' \in Nat /\ now <= now' /\ MaxDelay \in Nat
  BY StoreAssumption, Delays
     DEF Clock, AdvanceClock, TypeOK, FailoverTypeOK, StoreTypeOK, Time
<1>2. /\ worker \in Worker /\ ticks \in Ticks /\ req \in [Requests -> Request]
      /\ accounts \in [Account -> AccountRow] /\ queue \in [Account -> QueueRow]
      /\ worker.ev \in Event /\ worker.batch \subseteq Event
  <2>1. worker.ev \in Event /\ worker.batch \subseteq Event
    BY WorkerRecordType DEF TypeOK
  <2>. QED  BY <2>1 DEF TypeOK, RecoveryTypeOK, FailoverTypeOK, RequestsTypeOK, StoreTypeOK,
                        TablesTypeOK
<1>3. \A n \in Nat : n <= now + MaxDelay => n <= now' + MaxDelay
  BY <1>1, LaterBound
<1>4. \A n \in Nat : n <= now => n <= now'
  BY <1>1
<1>5. UNCHANGED <<tables, req, worker>>
  BY DEF Clock
<1>6. ticks'.worker <= now' /\ ticks'.reconcile <= now'
  <2>1. ticks.worker \in Nat /\ ticks.reconcile \in Nat
          /\ ticks.worker <= now /\ ticks.reconcile <= now
    BY <1>2 DEF DeadlinesInv, Ticks
  <2>2. ticks'.worker = Offer(ticks.worker, now')
          /\ ticks'.reconcile \in {ticks.reconcile, Offer(ticks.reconcile, now')}
    BY DEF Clock, FireTickers
  <2>. QED  BY <1>1, <1>4, <2>1, <2>2 DEF Offer
<1>7. worker'.now <= now' /\ worker'.ev.due <= now' + MaxDelay
        /\ \A ev \in worker'.batch : ev.due <= now' + MaxDelay
  BY <1>2, <1>3, <1>4, <1>5 DEF DeadlinesInv, Worker, Event
<1>8. \A r \in Requests : req'[r].cool <= MaxDelay /\ req'[r].until <= now' + MaxDelay
  BY <1>2, <1>3, <1>5 DEF DeadlinesInv, Request
<1>9. TableDeadlines'
  BY <1>2, <1>3, <1>5 DEF DeadlinesInv, TableDeadlines, DueBounded, tables, AccountRow, QueueRow
<1>. QED  BY <1>6, <1>7, <1>8, <1>9 DEF DeadlinesInv

LEMMA DeadlinesNext == TypeOK /\ DeadlinesInv /\ [Next]_vars => DeadlinesInv'
<1>. SUFFICES ASSUME TypeOK, DeadlinesInv, [Next]_vars
              PROVE  DeadlinesInv'
  OBVIOUS
<1>1. now \in Nat /\ 0 <= now + MaxDelay /\ 0 <= now /\ 0 <= MaxDelay
  BY StoreAssumption, Delays DEF TypeOK, FailoverTypeOK, StoreTypeOK, Time
<1>2. CASE Recovery
  <2>1. UNCHANGED <<req, now>>
    BY <1>2 DEF Recovery, WorkerStep, ReconcileAtStart, ReconcileOnTick, Enqueue, ClaimOnTick,
         Probe, ProbeValid, ProbeStored, ProbeDenied, ProbeFailed, CountExhausted, Clear,
         Reschedule, Ack, store
  <2>. QED  BY <1>2, <2>1, WorkerRecordDeadlines, WorkerTableDeadlines
            DEF DeadlinesInv, WorkerDeadlines
<1>3. CASE Crash
  <2>1. /\ ticks'.worker = 0 /\ ticks'.reconcile = 0 /\ worker'.now = 0
        /\ worker'.ev.due = 0 /\ worker'.batch = {} /\ UNCHANGED store
        /\ \A r \in Requests : req'[r].cool = 0 /\ req'[r].until = 0
    BY <1>3 DEF Crash, Booting, EmptyTicks, NoHand, NoRequests, NewRequest
  <2>2. TableDeadlines'
    BY <2>1 DEF DeadlinesInv, TableDeadlines, DueBounded, store, tables
  <2>. QED  BY <1>1, <2>1, <2>2 DEF DeadlinesInv, store
<1>4. CASE UNCHANGED vars
  BY <1>4 DEF DeadlinesInv, TableDeadlines, DueBounded, vars, store, tables
<1>. QED  BY <1>2, <1>3, <1>4, ChatDeadlines, AdminDeadlines, ClockDeadlines DEF Next

\* Whatever tick, lease, backoff or cooldown a deadline came from, no recovery
\* event is parked for longer than the longest delay the code computes.
THEOREM DeadlinesBounded == Spec => []DueBounded
<1>1. DeadlinesInv => DueBounded
  BY DEF DeadlinesInv, TableDeadlines
<1>. QED  BY <1>1, TypeCorrect, DeadlinesInit, DeadlinesNext, PTL DEF Spec

-----------------------------------------------------------------------------
(* The retry delay. *)

\* A round of the loop of backoff, and its first m values.
Round(maximum, n, i, v) == IF i <= n /\ v < maximum THEN 2 * v ELSE v

Doubling(base, maximum, n, m, f) ==
    f = [i \in 1..m |-> IF i = 1 THEN base ELSE Round(maximum, n, i, f[i - 1])]

Rounds(base, maximum, n, m, f) ==
    \A i \in 1..m : f[i] = IF i = 1 THEN base ELSE Round(maximum, n, i, f[i - 1])

LEMMA DoublingAt ==
    ASSUME NEW base, NEW maximum, NEW n, NEW m \in Nat, NEW f, Doubling(base, maximum, n, m, f)
    PROVE  Rounds(base, maximum, n, m, f)
<1>. DEFINE h == [j \in 1..m |-> IF j = 1 THEN base ELSE Round(maximum, n, j, f[j - 1])]
<1>1. f = h
  BY DEF Doubling
<1>2. \A i \in 1..m : h[i] = IF i = 1 THEN base ELSE Round(maximum, n, i, f[i - 1])
  OBVIOUS
<1>. HIDE DEF h
<1>. QED  BY <1>1, <1>2 DEF Rounds

LEMMA DoublingExists ==
    ASSUME NEW base, NEW maximum, NEW n, NEW m \in Nat
    PROVE  \E f : Doubling(base, maximum, n, m, f)
<1>. DEFINE S == {k \in Nat : \E f : Doubling(base, maximum, n, k, f)}
<1>1. 0 \in S
  <2>1. Doubling(base, maximum, n, 0, [i \in 1..0 |-> base])
    BY DEF Doubling
  <2>. QED  BY <2>1
<1>2. ASSUME NEW k \in Nat, k \in S PROVE k + 1 \in S
  <2>1. PICK f : Rounds(base, maximum, n, k, f)
    BY <1>2, DoublingAt
  <2>. DEFINE g == [i \in 1..(k + 1) |-> IF i =< k THEN f[i]
                                         ELSE IF i = 1 THEN base
                                         ELSE Round(maximum, n, i, f[i - 1])]
              h == [i \in 1..(k + 1) |-> IF i = 1 THEN base
                                         ELSE Round(maximum, n, i, g[i - 1])]
  <2>2. ASSUME NEW i \in 1..(k + 1)
        PROVE  g[i] = IF i = 1 THEN base ELSE Round(maximum, n, i, g[i - 1])
    <3>1. CASE i = k + 1
      <4>1. i # 1 => i - 1 \in 1..(k + 1) /\ i - 1 =< k
        BY <3>1
      <4>. QED  BY <3>1, <4>1
    <3>2. CASE i =< k
      <4>0. i \in 1..k /\ (i # 1 => i - 1 \in 1..(k + 1) /\ i - 1 =< k)
        BY <3>2
      <4>1. f[i] = IF i = 1 THEN base ELSE Round(maximum, n, i, f[i - 1])
        BY <2>1, <4>0 DEF Rounds
      <4>. QED  BY <3>2, <4>0, <4>1
    <3>. QED  BY <3>1, <3>2
  <2>3. /\ g = [i \in 1..(k + 1) |-> g[i]] /\ h = [i \in 1..(k + 1) |-> h[i]]
        /\ \A i \in 1..(k + 1) : g[i] = h[i]
    BY <2>2
  <2>4. g = h
    <3>. HIDE DEF g, h
    <3>. QED  BY <2>3
  <2>5. Doubling(base, maximum, n, k + 1, g)
    <3>1. g = [i \in 1..(k + 1) |-> IF i = 1 THEN base
                                    ELSE Round(maximum, n, i, g[i - 1])]
      <4>. HIDE DEF g
      <4>. QED  BY <2>4 DEF h
    <3>. HIDE DEF g
    <3>. QED  BY <3>1 DEF Doubling
  <2>. QED  BY <2>5
<1>. HIDE DEF S
<1>3. Nat \subseteq S
  BY <1>1, <1>2, SetInduction
<1>. QED  BY <1>3 DEF S

LEMMA BackoffIs ==
    ASSUME NEW base, NEW maximum, NEW n \in Nat
    PROVE  \E f : /\ Rounds(base, maximum, n, n + 1, f)
                  /\ backoff(base, maximum, n)
                        = IF f[n + 1] > maximum THEN maximum ELSE f[n + 1]
<1>1. \E f : Doubling(base, maximum, n, n + 1, f)
  BY DoublingExists
<1>2. PICK f : f = CHOOSE h : Doubling(base, maximum, n, n + 1, h)
  OBVIOUS
<1>3. Doubling(base, maximum, n, n + 1, f)
  BY <1>1, <1>2
<1>4. backoff(base, maximum, n) = IF f[n + 1] > maximum THEN maximum ELSE f[n + 1]
  BY <1>2 DEF backoff, Doubling, Round
<1>5. Rounds(base, maximum, n, n + 1, f)
  <2>1. n + 1 \in Nat
    OBVIOUS
  <2>. QED  BY <1>3, <2>1, DoublingAt
<1>. QED  BY <1>4, <1>5

LEMMA DoublingType ==
    ASSUME NEW base \in Nat \ {0}, NEW maximum \in Nat, NEW n \in Nat, NEW m \in Nat, NEW f,
           Rounds(base, maximum, n, m, f)
    PROVE  \A i \in 1..m : f[i] \in Nat /\ base =< f[i]
<1>. DEFINE S == {k \in Nat : k + 1 \in 1..m => f[k + 1] \in Nat /\ base =< f[k + 1]}
<1>0. \A i \in 1..m : f[i] = IF i = 1 THEN base ELSE Round(maximum, n, i, f[i - 1])
  BY DEF Rounds
<1>1. 0 \in S
  BY <1>0
<1>2. ASSUME NEW k \in Nat, k \in S PROVE k + 1 \in S
  <2>. SUFFICES ASSUME k + 1 + 1 \in 1..m PROVE f[k + 1 + 1] \in Nat /\ base =< f[k + 1 + 1]
    OBVIOUS
  <2>1. k + 1 \in 1..m /\ (k + 1 + 1) - 1 = k + 1 /\ k + 1 + 1 # 1
    OBVIOUS
  <2>2. f[k + 1] \in Nat /\ base =< f[k + 1]
    BY <1>2, <2>1
  <2>3. f[k + 1 + 1] = 2 * f[k + 1] \/ f[k + 1 + 1] = f[k + 1]
    BY <1>0, <2>1 DEF Round
  <2>. QED  BY <2>2, <2>3
<1>3. Nat \subseteq S
  <2>. HIDE DEF S
  <2>. QED  BY <1>1, <1>2, SetInduction
<1>4. ASSUME NEW i \in 1..m PROVE f[i] \in Nat /\ base =< f[i]
  <2>1. i - 1 \in S /\ (i - 1) + 1 = i
    BY <1>3
  <2>. QED  BY <2>1
<1>. QED  BY <1>4

\* One attempt more does not change the values up to it.
LEMMA DoublingAgrees ==
    ASSUME NEW base, NEW maximum, NEW n \in Nat, NEW f, NEW g,
           Rounds(base, maximum, n, n + 1, f), Rounds(base, maximum, n + 1, n + 1 + 1, g)
    PROVE  Agree(f, g, n)
<1>. DEFINE S == {k \in Nat : k + 1 \in 1..n => f[k + 1] = g[k + 1]}
<1>0. /\ \A i \in 1..(n + 1) :
            f[i] = IF i = 1 THEN base ELSE Round(maximum, n, i, f[i - 1])
      /\ \A i \in 1..(n + 1 + 1) :
            g[i] = IF i = 1 THEN base ELSE Round(maximum, n + 1, i, g[i - 1])
  BY DEF Rounds
<1>1. 0 \in S
  <2>1. 1 \in 1..n => 1 \in 1..(n + 1) /\ 1 \in 1..(n + 1 + 1)
    OBVIOUS
  <2>. QED  BY <1>0, <2>1
<1>2. ASSUME NEW k \in Nat, k \in S PROVE k + 1 \in S
  <2>. SUFFICES ASSUME k + 1 + 1 \in 1..n PROVE f[k + 1 + 1] = g[k + 1 + 1]
    OBVIOUS
  <2>1. /\ k + 1 \in 1..n /\ (k + 1 + 1) - 1 = k + 1 /\ k + 1 + 1 # 1
        /\ k + 1 + 1 <= n /\ k + 1 + 1 <= n + 1
        /\ k + 1 + 1 \in 1..(n + 1) /\ k + 1 + 1 \in 1..(n + 1 + 1)
    OBVIOUS
  <2>2. f[k + 1] = g[k + 1]
    BY <1>2, <2>1
  <2>3. /\ f[k + 1 + 1] = Round(maximum, n, k + 1 + 1, f[k + 1])
        /\ g[k + 1 + 1] = Round(maximum, n + 1, k + 1 + 1, g[k + 1])
    BY <1>0, <2>1
  <2>. QED  BY <2>1, <2>2, <2>3 DEF Round
<1>3. Nat \subseteq S
  <2>. HIDE DEF S
  <2>. QED  BY <1>1, <1>2, SetInduction
<1>4. ASSUME NEW i \in 1..n PROVE f[i] = g[i]
  <2>1. i - 1 \in S /\ (i - 1) + 1 = i
    BY <1>3
  <2>. QED  BY <2>1
<1>. QED  BY <1>4 DEF Agree

\* The delay begins with the base, doubles with each attempt and stops at the maximum:
\* it is what the recovery worker's assumptions say of it, for every attempt.
THEOREM BackoffDoubles ==
    ASSUME NEW base \in Nat \ {0}, NEW maximum \in Nat, base <= maximum, NEW n \in Nat
    PROVE  /\ backoff(base, maximum, n) \in base..maximum
           /\ n <= 1 => backoff(base, maximum, n) = base
           /\ n > 0 => backoff(base, maximum, n + 1)
                         = IF 2 * backoff(base, maximum, n) > maximum THEN maximum
                           ELSE 2 * backoff(base, maximum, n)
<1>1. PICK f : /\ Rounds(base, maximum, n, n + 1, f)
               /\ backoff(base, maximum, n) = IF f[n + 1] > maximum THEN maximum ELSE f[n + 1]
  BY BackoffIs
<1>2. /\ \A i \in 1..(n + 1) :
            f[i] = IF i = 1 THEN base ELSE Round(maximum, n, i, f[i - 1])
      /\ \A i \in 1..(n + 1) : f[i] \in Nat /\ base =< f[i]
  <2>1. n + 1 \in Nat
    OBVIOUS
  <2>. QED  BY <1>1, <2>1, DoublingType DEF Rounds
<1>3. n > 0 => f[n + 1] = f[n]
  <2>1. n > 0 => n + 1 \in 1..(n + 1) /\ n + 1 # 1 /\ (n + 1) - 1 = n /\ ~(n + 1 <= n)
    OBVIOUS
  <2>. QED  BY <1>2, <2>1 DEF Round
<1>4. backoff(base, maximum, n) \in base..maximum
  <2>1. n + 1 \in 1..(n + 1)
    OBVIOUS
  <2>2. f[n + 1] \in Nat /\ base =< f[n + 1]
    BY <1>2, <2>1
  <2>. QED  BY <1>1, <2>2
<1>5. ASSUME n <= 1 PROVE backoff(base, maximum, n) = base
  <2>1. f[n + 1] = base
    <3>1. CASE n = 0
      BY <1>2, <3>1
    <3>2. CASE n = 1
      <4>1. f[1] = base
        BY <1>2
      <4>. QED  BY <1>3, <3>2, <4>1
    <3>. QED  BY <1>5, <3>1, <3>2
  <2>. QED  BY <1>1, <2>1
<1>6. ASSUME n > 0
      PROVE  backoff(base, maximum, n + 1)
               = IF 2 * backoff(base, maximum, n) > maximum THEN maximum
                 ELSE 2 * backoff(base, maximum, n)
  <2>1. PICK g : /\ Rounds(base, maximum, n + 1, n + 1 + 1, g)
                 /\ backoff(base, maximum, n + 1)
                      = IF g[n + 1 + 1] > maximum THEN maximum ELSE g[n + 1 + 1]
    <3>1. n + 1 \in Nat
      OBVIOUS
    <3>. QED  BY <3>1, BackoffIs
  <2>2. g[n + 1 + 1] = g[n + 1]
    <3>1. /\ n + 1 + 1 \in 1..(n + 1 + 1) /\ n + 1 + 1 # 1 /\ (n + 1 + 1) - 1 = n + 1
          /\ ~(n + 1 + 1 <= n + 1) /\ n + 1 \in Nat /\ n + 1 + 1 \in Nat
      OBVIOUS
    <3>2. g[n + 1 + 1] = IF n + 1 + 1 = 1 THEN base
                         ELSE Round(maximum, n + 1, n + 1 + 1, g[(n + 1 + 1) - 1])
      BY <2>1, <3>1 DEF Rounds
    <3>. QED  BY <3>1, <3>2 DEF Round
  <2>3. g[n + 1] = IF g[n] < maximum THEN 2 * g[n] ELSE g[n]
    <3>1. /\ n + 1 \in 1..(n + 1 + 1) /\ n + 1 # 1 /\ (n + 1) - 1 = n
          /\ n + 1 <= n + 1 /\ n + 1 + 1 \in Nat
      BY <1>6
    <3>2. g[n + 1] = IF n + 1 = 1 THEN base
                     ELSE Round(maximum, n + 1, n + 1, g[(n + 1) - 1])
      BY <2>1, <3>1 DEF Rounds
    <3>. QED  BY <3>1, <3>2 DEF Round
  <2>4. f[n] = g[n] /\ f[n] \in Nat
    <3>1. n \in 1..n /\ n \in 1..(n + 1)
      BY <1>6
    <3>2. Agree(f, g, n)
      BY <1>1, <2>1, DoublingAgrees
    <3>. QED  BY <1>2, <3>1, <3>2 DEF Agree
  <2>5. backoff(base, maximum, n) = IF f[n] > maximum THEN maximum ELSE f[n]
    BY <1>1, <1>3, <1>6
  <2>6. backoff(base, maximum, n + 1) = IF g[n + 1] > maximum THEN maximum ELSE g[n + 1]
    BY <2>1, <2>2
  <2>. QED  BY <2>3, <2>4, <2>5, <2>6
<1>. QED  BY <1>4, <1>5, <1>6
=============================================================================
