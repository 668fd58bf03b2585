---------------------------- MODULE ChatFailover ----------------------------
(***************************************************************************)
(* POST /v1/chat/completions: the loop of handleChat that tries accounts    *)
(* until one answers.  net/http runs every request in a goroutine of its    *)
(* own, so the steps of several requests interleave with each other and     *)
(* with the other users of the tables.                                     *)
(*                                                                         *)
(* A step ends where the code next touches the tables or the network: the   *)
(* upstream's reply is a choice, and the statement that follows it is part  *)
(* of the step that receives it, except after a 429 or 503, whose handling  *)
(* reads the clock first and then issues three statements.                  *)
(* The body of the reply, its conversion and the usage counters are not     *)
(* followed.                                                               *)
(***************************************************************************)
EXTENDS AccountStore

CONSTANTS
    Requests,       \* requests that may be in flight at once
    MaxRetries,     \* attempts of one request (5)
    FailCooldown,   \* cooldown after a failed refresh or connection (60 s)
    Cooldown503,    \* cooldown after a 503 (300 s)
    Cooldowns429    \* cooldowns a 429 may ask for (2 s or more, 3600 s unparsed)

ASSUME FailoverAssumption ==
    /\ MaxRetries \in Nat
    /\ FailCooldown \in Nat \ {0}
    /\ Cooldown503 \in Nat \ {0}
    /\ Cooldowns429 \subseteq Nat \ {0}

VARIABLE
    req             \* what each request's goroutine holds

failoverVars == <<store, req>>

-----------------------------------------------------------------------------
(* Types. *)

RequestPC == {"idle", "select", "refresh", "post", "limited", "upsert", "ensure"}
Code == {"none", "429", "503", "other"}
Answer == {"none", "200", "429", "503", "502"}

Request == [pc : RequestPC,
            attempt : Nat,              \* the loop variable
            acct : Account \cup {0},    \* acct.ID of the last attempt, 0 before it
            cool : Nat,                 \* the local cooldown
            until : Nat,                \* the local now + cooldown
            code : Code,                \* the pending status, and lastCode
            lastCode : Code,
            lastErr : BOOLEAN,          \* lastErr != nil
            answer : Answer]            \* the reply to the client

\* Where the goroutine works for the account it selected.
Holding == {"refresh", "post", "limited", "upsert", "ensure"}

RequestsTypeOK ==
    /\ req \in [Requests -> Request]
    /\ \A r \in Requests : req[r].pc \in Holding => req[r].acct \in Account

FailoverTypeOK == StoreTypeOK /\ RequestsTypeOK

NewRequest == [pc |-> "select", attempt |-> 0, acct |-> 0, cool |-> 0, until |-> 0,
               code |-> "none", lastCode |-> "none", lastErr |-> FALSE,
               answer |-> "none"]

NoRequests == [r \in Requests |-> [NewRequest EXCEPT !.pc = "idle"]]

FailoverInit == req = NoRequests

-----------------------------------------------------------------------------
(* Steps of one request. *)

At(r, pc) == req[r].pc = pc
Goto(r, pc) == req' = [req EXCEPT ![r].pc = pc]

\* The reply has been written: only the client's view of it is kept.
Reply(r, answer) ==
    req' = [req EXCEPT ![r] = [NewRequest EXCEPT !.pc = "idle", !.answer = answer]]

\* "continue" with lastErr set.
NextAttempt(r) ==
    req' = [req EXCEPT ![r].pc = "select", ![r].attempt = @ + 1, ![r].lastErr = TRUE]

\* A variation: the loop variable is left alone.
NextAttemptWith_uncounted(r, code) ==
    req' = [req EXCEPT ![r].pc = "select", ![r].lastErr = TRUE,
                       ![r].lastCode = code, ![r].code = "none", ![r].until = 0]

\* "continue" with lastCode set to the code received.
NextAttemptWith(r, code) ==
    req' = [req EXCEPT ![r].pc = "select", ![r].attempt = @ + 1, ![r].lastErr = TRUE,
                       ![r].lastCode = code, ![r].code = "none", ![r].until = 0]

Arrive(r) ==
    /\ At(r, "idle")
    /\ req' = [req EXCEPT ![r] = NewRequest]
    /\ UNCHANGED store

Select(r) ==
    /\ At(r, "select")
    /\ req[r].attempt < MaxRetries
    /\ \E a \in Account :
         /\ GetHealthyAccountForModel(a)
         /\ req' = [req EXCEPT ![r].pc = "refresh", ![r].acct = a]
    /\ UNCHANGED store

\* The loop is over: attempts used up, or no account healthy, or the read failed.
FinalAnswer(r) ==
    IF req[r].lastCode \in {"429", "503"} THEN req[r].lastCode
    ELSE IF req[r].lastErr THEN "502" ELSE "503"

GiveUp(r) ==
    /\ At(r, "select")
    /\ req[r].attempt >= MaxRetries \/ DbMayFail \/ \A a \in Account : ~Healthy(a)
    /\ Reply(r, FinalAnswer(r))
    /\ UNCHANGED store

\* RefreshAndStore finds the access token still valid.
RefreshValid(r) ==
    /\ At(r, "refresh")
    /\ Goto(r, "post")
    /\ UNCHANGED store

\* The token endpoint rotated the tokens; the new pair is saved.
RefreshStored(r) ==
    /\ At(r, "refresh")
    /\ Goto(r, "post")
    /\ UpdateAccountTokens(req[r].acct)
    /\ UNCHANGED now

\* invalid_grant, refresh_denied or missing_refresh_token.
RefreshDenied(r) ==
    /\ At(r, "refresh")
    /\ NextAttempt(r)
    /\ SetAccountStatus(req[r].acct, TRUE, "reauthRequired")
    /\ UNCHANGED now

\* Any other failure of the refresh: network, decryption, saving the tokens.
RefreshFailed(r) ==
    /\ At(r, "refresh")
    /\ NextAttempt(r)
    /\ MarkAccountFailed(req[r].acct, FailCooldown)
    /\ UNCHANGED now

\* No reply: connection refused or reset, proxy failure, client gone.
PostFailed(r) ==
    /\ At(r, "post")
    /\ NextAttempt(r)
    /\ MarkAccountFailed(req[r].acct, FailCooldown)
    /\ UNCHANGED now

\* 429 or 503: the cooldown is chosen and the clock is read.
PostLimited(r) ==
    /\ At(r, "post")
    /\ \E code \in {"429", "503"} :
         \E cool \in IF code = "429" THEN Cooldowns429 ELSE {Cooldown503} :
           req' = [req EXCEPT ![r].pc = "limited", ![r].code = code,
                              ![r].cool = cool, ![r].until = now + cool]
    /\ UNCHANGED store

\* Variations: the cooldown of any failure, the next attempt at once, and the
\* event without its window.
CoolDown_short(r) ==
    /\ At(r, "limited")
    /\ req' = [req EXCEPT ![r].pc = "upsert", ![r].cool = 0]
    /\ MarkAccountFailed(req[r].acct, FailCooldown)
    /\ UNCHANGED now

CoolDown_only(r) ==
    /\ At(r, "limited")
    /\ NextAttemptWith(r, req[r].code)
    /\ MarkAccountFailed(req[r].acct, req[r].cool)
    /\ UNCHANGED now

CoolDown_windowless(r) ==
    /\ At(r, "limited")
    /\ req' = [req EXCEPT ![r].pc = "ensure", ![r].cool = 0]
    /\ MarkAccountFailed(req[r].acct, req[r].cool)
    /\ UNCHANGED now

CoolDown(r) ==
    /\ At(r, "limited")
    /\ req' = [req EXCEPT ![r].pc = "upsert", ![r].cool = 0]
    /\ MarkAccountFailed(req[r].acct, req[r].cool)
    /\ UNCHANGED now

\* A variation: no probe is scheduled for the window.
RecordWindow_unscheduled(r) ==
    /\ At(r, "upsert")
    /\ NextAttemptWith(r, req[r].code)
    /\ UpsertQuotaWindow(req[r].acct, 0, req[r].until)
    /\ UNCHANGED now

RecordWindow(r) ==
    /\ At(r, "upsert")
    /\ Goto(r, "ensure")
    /\ UpsertQuotaWindow(req[r].acct, 0, req[r].until)
    /\ UNCHANGED now

ScheduleProbe(r) ==
    /\ At(r, "ensure")
    /\ NextAttemptWith(r, req[r].code)
    /\ EnsureQuotaRecovery(req[r].acct, 0, req[r].until)
    /\ UNCHANGED now

\* Any other status but 200 leaves the account as it is.
PostOther(r) ==
    /\ At(r, "post")
    /\ NextAttemptWith(r, "other")
    /\ UNCHANGED store

PostOk(r) ==
    /\ At(r, "post")
    /\ Reply(r, "200")
    /\ MarkAccountSuccess(req[r].acct)
    /\ UNCHANGED now

Handle(r) ==
    \/ Select(r) \/ GiveUp(r)
    \/ RefreshValid(r) \/ RefreshStored(r) \/ RefreshDenied(r) \/ RefreshFailed(r)
    \/ PostFailed(r) \/ PostLimited(r) \/ PostOther(r) \/ PostOk(r)
    \/ CoolDown(r) \/ RecordWindow(r) \/ ScheduleProbe(r)

Clients == \E r \in Requests : Arrive(r) \/ Handle(r)

Tick == AdvanceClock /\ UNCHANGED <<tables, req>>

FailoverNext == Clients \/ Tick

\* Every call of the loop returns: the HTTP client gives up after its timeout.
FailoverFairness == \A r \in Requests : WF_failoverVars(Handle(r))

AloneInit == StoreInit /\ FailoverInit

\* The loop alone, no recovery worker and no administrator.
FailoverSpec ==
    /\ AloneInit
    /\ [][FailoverNext]_failoverVars
    /\ FailoverFairness

-----------------------------------------------------------------------------
(* What the loop promises. *)

\* Every request gets an answer, whatever the upstream replies to each
\* attempt and however the other requests move the accounts meanwhile.
EveryRequestAnswered == \A r \in Requests : ~At(r, "idle") ~> At(r, "idle")

\* An exhausted quota window is never forgotten: its probe is queued, or the
\* request that has just written the window is about to queue it
\* (server.go:212-226, three statements that no transaction joins).
WindowIsScheduled ==
    \A a \in Account : Exhausted(a) =>
        \/ queue[a].queued
        \/ \E r \in Requests : At(r, "ensure") /\ req[r].acct = a

\* As long as no two requests use one account at a time, a window never
\* outlasts the cooldown that enforces it, although the two are computed from
\* different clock readings (server.go:208-219) and later attempts set shorter
\* cooldowns.  Two requests on one account do break it: the success or the
\* one-minute failure of the one overwrites the hour the other has just set.
CooldownCoversWindow ==
    []~(\E r, s \in Requests : r # s /\ {req[r].pc, req[s].pc} \subseteq Holding
                                   /\ req[r].acct = req[s].acct)
        => [](\A a \in rows : Exhausted(a) /\ windows[a].resetAt > now
                                => accounts[a].cooldown >= windows[a].resetAt)

\* The client hears of an exhausted quota only once a probe is queued.
LimitAnsweredAfterSchedule ==
    \A r \in Requests :
        {req[r].lastCode, req[r].answer} \cap {"429"} # {} =>
            \E a \in Account : Exhausted(a) /\ queue[a].queued

\* server.go:237 "don't cooldown for 400/401, just try next": the attempt after
\* such a status goes to another account whenever another one is healthy.
TriesNextAccount ==
    [][\A r \in Requests :
         /\ Select(r)
         /\ req[r].lastCode = "other"
         /\ \E b \in Account \ {req[r].acct} : Healthy(b)
         => req'[r].acct # req[r].acct]_failoverVars

\* server.go:248 "All accounts quota-exhausted for this model": when a request
\* ends with 429, every account in service for the model has an exhausted window.
AllExhaustedMeansAll ==
    [][\A r \in Requests :
         ~At(r, "idle") /\ req'[r].answer = "429" =>
            \A a \in Account : Serving(a) /\ caps[a] => Exhausted(a)]_failoverVars
=============================================================================
