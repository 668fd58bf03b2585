--------------------------- MODULE QuotaRecovery ---------------------------
(***************************************************************************)
(* The quota recovery worker of internal/recovery/recovery.go: one          *)
(* goroutine that selects over two tickers.  Every second it claims the     *)
(* events that are due and probes their accounts one after the other; every *)
(* minute, and once at the start, it queues a probe for each exhausted      *)
(* window whose reset time has passed.                                     *)
(*                                                                         *)
(* A ticker's channel holds one value: the worker may receive a time long   *)
(* past, and ticks that find the channel full are dropped.  The worker      *)
(* computes every deadline from the time it received, not from the clock.   *)
(* Steps end at the statements of the tables and at the token endpoint's    *)
(* reply, as in the chat loop.                                             *)
(***************************************************************************)
EXTENDS AccountStore

CONSTANTS
    ClaimLimit,     \* events claimed at once (25)
    ReconcileLimit, \* windows read at once (1000)
    Lease,          \* how far a claim pushes an event back (120 s)
    ReconcileEvery, \* ticks of the worker between two of the reconciler (60)
    AttemptCap,     \* bound: attempts are not counted beyond this
    Backoff(_),     \* the retry delay by attempt
    MaxBackoff      \* its upper limit (30 min)

ASSUME RecoveryAssumption ==
    /\ ClaimLimit \in Nat \ {0}
    /\ ReconcileLimit \in Nat \ {0}
    /\ Lease \in Nat \ {0}
    /\ ReconcileEvery \in Nat \ {0}
    /\ AttemptCap \in Nat \ {0}
    /\ MaxBackoff \in Nat \ {0}
    /\ \A n \in 1..AttemptCap : Backoff(n) \in 1..MaxBackoff

VARIABLES
    worker,         \* the locals of Run, runDue, runOne and reconcile
    ticks           \* the channels of the two tickers

recoveryVars == <<store, worker, ticks>>

-----------------------------------------------------------------------------
(* Types. *)

WorkerPC == {"boot", "wait", "enqueue", "probe", "refresh", "reschedule",
             "count", "clear", "ack"}

Event == [acct : Account, attempts : Nat, due : Nat]

Worker == [pc : WorkerPC,
           now : Nat,               \* the time passed down, 0 in the select
           todo : SUBSET Account,   \* windows left for this reconcile
           batch : SUBSET Event,    \* claimed events left for this runDue
           ev : Event]              \* the event of this runOne

Ticks == [worker : Nat, reconcile : Nat, phase : 0..(ReconcileEvery - 1)]

RecoveryTypeOK == worker \in Worker /\ ticks \in Ticks

NoHand == [acct |-> 1, attempts |-> 0, due |-> 0]
Booting == [pc |-> "boot", now |-> 0, todo |-> {}, batch |-> {}, ev |-> NoHand]
Waiting == [Booting EXCEPT !.pc = "wait"]
EmptyTicks == [worker |-> 0, reconcile |-> 0, phase |-> 0]

RecoveryInit == worker = Booting /\ ticks = EmptyTicks

-----------------------------------------------------------------------------
(* The tickers: a full channel drops the tick. *)

Offer(channel, t) == IF channel = 0 THEN t ELSE channel

FireTickers ==
    LET phase == (ticks.phase + 1) % ReconcileEvery
    IN  ticks' = [worker |-> Offer(ticks.worker, now'),
                  reconcile |-> IF phase = 0 THEN Offer(ticks.reconcile, now')
                                ELSE ticks.reconcile,
                  phase |-> phase]

-----------------------------------------------------------------------------
(* reconcile *)

\* The windows are listed; a failed read ends the call.
Reconcile(t) ==
    \E T \in SUBSET Account :
        /\ ListDueQuotaWindows(T, t, ReconcileLimit) \/ (DbMayFail /\ T = {})
        /\ worker' = IF T = {} THEN Waiting
                     ELSE [Waiting EXCEPT !.pc = "enqueue", !.now = t, !.todo = T]

ReconcileAtStart ==
    /\ worker.pc = "boot"
    /\ Reconcile(now)
    /\ UNCHANGED <<store, ticks>>

ReconcileOnTick ==
    /\ worker.pc = "wait"
    /\ ticks.reconcile # 0
    /\ ticks' = [ticks EXCEPT !.reconcile = 0]
    /\ Reconcile(ticks.reconcile)
    /\ UNCHANGED store

\* One turn of the loop over the windows: attempts start again from zero.
Enqueue ==
    /\ worker.pc = "enqueue"
    /\ \E a \in worker.todo :
         /\ EnsureQuotaRecovery(a, 0, worker.now)
         /\ worker' = IF worker.todo = {a} THEN Waiting
                      ELSE [worker EXCEPT !.todo = @ \ {a}]
    /\ UNCHANGED <<now, ticks>>

-----------------------------------------------------------------------------
(* runDue and runOne *)

InHand(T) == {[acct |-> a, attempts |-> queue[a].attempts, due |-> queue[a].due] : a \in T}

Claim(t, T) ==
    /\ ClaimDueRecoveries(T, t, ClaimLimit, Lease)
    /\ worker' = IF T = {} THEN Waiting
                 ELSE [Waiting EXCEPT !.pc = "probe", !.now = t, !.batch = InHand(T)]

\* A variation: the time first received is used for ever.
ClaimOnTick_stale ==
    /\ worker.pc = "wait"
    /\ ticks.worker # 0
    /\ \/ \E T \in SUBSET Account : Claim(ticks.worker, T)
       \/ WriteLost /\ worker' = Waiting
    /\ UNCHANGED <<now, ticks>>

\* A transaction that fails leaves the events as they were.
ClaimOnTick ==
    /\ worker.pc = "wait"
    /\ ticks.worker # 0
    /\ ticks' = [ticks EXCEPT !.worker = 0]
    /\ \/ \E T \in SUBSET Account : Claim(ticks.worker, T)
       \/ WriteLost /\ worker' = Waiting
    /\ UNCHANGED now

Bump(n) == IF n < AttemptCap THEN n + 1 ELSE AttemptCap

Retried(ev) ==
    LET n == Bump(ev.attempts)
    IN  [ev EXCEPT !.attempts = n, !.due = worker.now + Backoff(n)]

\* A variation: the backoff is added to the end of the cooldown.
AfterCooldown_added(ev) ==
    LET n == Bump(ev.attempts)
    IN  [ev EXCEPT !.attempts = n, !.due = accounts[ev.acct].cooldown + Backoff(n)]

AfterCooldown(ev) ==
    [ev EXCEPT !.attempts = Bump(@), !.due = accounts[ev.acct].cooldown]

\* GetAccount, and the branches that need no probe.
Probe ==
    /\ worker.pc = "probe"
    /\ \E ev \in worker.batch :
         LET Hand(pc, e) == worker' = [worker EXCEPT !.pc = pc, !.batch = @ \ {ev}, !.ev = e]
             cooling == accounts[ev.acct].cooldown > worker.now
             serving == accounts[ev.acct].enabled /\ accounts[ev.acct].auth = "active"
         IN  /\ \A other \in worker.batch : ev.due <= other.due
             /\ \/ (ev.acct \notin rows \/ DbMayFail) /\ Hand("reschedule", Retried(ev))
                \/ /\ ev.acct \in rows
                   /\ \/ ~serving /\ Hand("ack", ev)
                      \/ serving /\ cooling /\ Hand("reschedule", AfterCooldown(ev))
                      \/ serving /\ ~cooling /\ Hand("refresh", ev)
    /\ UNCHANGED <<store, ticks>>

Proceed(pc) == worker' = [worker EXCEPT !.pc = pc]

\* The token is still valid: no request leaves the gateway.
ProbeValid ==
    /\ worker.pc = "refresh"
    /\ Proceed("count")
    /\ UNCHANGED <<store, ticks>>

ProbeStored ==
    /\ worker.pc = "refresh"
    /\ Proceed("count")
    /\ UpdateAccountTokens(worker.ev.acct)
    /\ UNCHANGED <<now, ticks>>

ProbeDenied ==
    /\ worker.pc = "refresh"
    /\ Proceed("ack")
    /\ SetAccountStatus(worker.ev.acct, TRUE, "reauthRequired")
    /\ UNCHANGED <<now, ticks>>

\* Any other failure, the 30 s timeout of the probe among them.
ProbeFailed ==
    /\ worker.pc = "refresh"
    /\ worker' = [worker EXCEPT !.pc = "reschedule", !.ev = Retried(@)]
    /\ UNCHANGED <<store, ticks>>

\* A variation: the count is not looked at.
CountExhausted_ignored ==
    /\ worker.pc = "count"
    /\ Proceed("clear")
    /\ UNCHANGED <<store, ticks>>

\* ClearAccountCooldownIfQuotaRecovered counts first and updates after; a count
\* that fails is read as zero.
CountExhausted ==
    /\ worker.pc = "count"
    /\ \/ Exhausted(worker.ev.acct) /\ Proceed("ack")
       \/ (~Exhausted(worker.ev.acct) \/ DbMayFail) /\ Proceed("clear")
    /\ UNCHANGED <<store, ticks>>

Clear ==
    /\ worker.pc = "clear"
    /\ Proceed("ack")
    /\ ClearCooldown(worker.ev.acct)
    /\ UNCHANGED <<now, ticks>>

\* Return from runOne, to the next event or to the select.
NextEvent ==
    worker' = IF worker.batch = {} THEN Waiting
              ELSE [worker EXCEPT !.pc = "probe", !.ev = NoHand]

Reschedule ==
    /\ worker.pc = "reschedule"
    /\ NextEvent
    /\ RescheduleQuotaRecovery(worker.ev.acct, worker.ev.attempts, worker.ev.due)
    /\ UNCHANGED <<now, ticks>>

Ack ==
    /\ worker.pc = "ack"
    /\ NextEvent
    /\ AckQuotaRecovery(worker.ev.acct)
    /\ UNCHANGED <<now, ticks>>

WorkerStep ==
    \/ ReconcileAtStart \/ ReconcileOnTick \/ Enqueue
    \/ ClaimOnTick \/ Probe
    \/ ProbeValid \/ ProbeStored \/ ProbeDenied \/ ProbeFailed
    \/ CountExhausted \/ Clear \/ Reschedule \/ Ack
=============================================================================
