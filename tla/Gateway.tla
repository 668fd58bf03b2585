------------------------------ MODULE Gateway ------------------------------
(***************************************************************************)
(* The running gateway: the chat handlers and the recovery worker over the  *)
(* tables they share, with the administrator's handlers, the capability     *)
(* sync and the crash of the process.                                      *)
(*                                                                         *)
(* A crash loses what the goroutines hold and keeps the tables; the process *)
(* that starts again sees them as the statements that completed left them.  *)
(* The sync is followed here only by what it ends with, the replacement of  *)
(* an account's capabilities.                                              *)
(***************************************************************************)
EXTENDS ChatFailover, QuotaRecovery

CONSTANTS
    AdminOps,       \* the administrator's calls this instance makes
    MaxCrashes,     \* bound: crashes of the process
    MaxDelay        \* the longest of the delays above

ASSUME GatewayAssumption ==
    /\ MaxDelay \in Nat
    /\ \A delay \in {Lease, MaxBackoff, FailCooldown, Cooldown503} \cup Cooldowns429 :
         delay <= MaxDelay
    /\ AdminOps \subseteq {"patch", "delete", "import", "reauth", "sync"}
    /\ MaxCrashes \in Nat

VARIABLES
    patch,          \* what a PATCH of an account holds between its statements
    crashes         \* crashes so far

adminVars == <<patch, crashes>>
vars == <<store, req, worker, ticks, patch, crashes>>

-----------------------------------------------------------------------------
Patch == [busy : BOOLEAN, acct : Account, enabled : BOOLEAN, auth : AuthStatus]

NoPatch == [busy |-> FALSE, acct |-> 1, enabled |-> FALSE, auth |-> "active"]

TypeOK ==
    /\ FailoverTypeOK
    /\ RecoveryTypeOK
    /\ patch \in Patch
    /\ crashes \in Nat

Init ==
    /\ StoreInit
    /\ FailoverInit
    /\ RecoveryInit
    /\ patch = NoPatch
    /\ crashes = 0

-----------------------------------------------------------------------------
(* The administrator. *)

\* The row is read and merged with the fields the body gives...
PatchRead(a) ==
    /\ "patch" \in AdminOps
    /\ ~patch.busy
    /\ a \in rows
    /\ \E enabled \in BOOLEAN, auth \in AuthStatus,
          given \in SUBSET {"enabled", "auth_status"} :
         patch' = [busy |-> TRUE, acct |-> a,
                   enabled |-> IF "enabled" \in given THEN enabled ELSE accounts[a].enabled,
                   auth |-> IF "auth_status" \in given THEN auth ELSE accounts[a].auth]
    /\ UNCHANGED tables

\* ... and both columns are written back.
PatchWrite ==
    /\ patch.busy
    /\ patch' = NoPatch
    /\ SetAccountStatus(patch.acct, patch.enabled, patch.auth)

Delete(a) ==
    /\ "delete" \in AdminOps
    /\ DeleteAccount(a)
    /\ UNCHANGED patch

Import ==
    /\ "import" \in AdminOps
    /\ InsertAccount
    /\ UNCHANGED patch

\* POST /api/admin/reauth: no check that the account exists or asked for it.
Reauth(a) ==
    /\ "reauth" \in AdminOps
    /\ UpdateAccountTokens(a)
    /\ UNCHANGED patch

Sync(a) ==
    /\ "sync" \in AdminOps
    /\ a < nextId
    /\ \E listed \in BOOLEAN : ReplaceAccountCapabilities(a, listed)
    /\ UNCHANGED patch

Admin ==
    /\ \/ PatchWrite \/ Import
       \/ \E a \in Account : PatchRead(a) \/ Delete(a) \/ Reauth(a) \/ Sync(a)
    /\ UNCHANGED <<now, req, worker, ticks, crashes>>

-----------------------------------------------------------------------------
(* The process. *)

Crash ==
    /\ crashes < MaxCrashes
    /\ crashes' = crashes + 1
    /\ req' = NoRequests
    /\ worker' = Booting /\ ticks' = EmptyTicks
    /\ patch' = NoPatch
    /\ UNCHANGED store

Clock ==
    /\ AdvanceClock
    /\ FireTickers
    /\ UNCHANGED <<tables, req, worker, patch, crashes>>

Chat(r) == (Arrive(r) \/ Handle(r)) /\ UNCHANGED <<worker, ticks, patch, crashes>>

Recovery == WorkerStep /\ UNCHANGED <<req, patch, crashes>>

Next ==
    \/ \E r \in Requests : Chat(r)
    \/ Recovery
    \/ Admin
    \/ Clock
    \/ Crash

\* Handlers and worker keep running: every call they make has a timeout.  The
\* select picks at random among the ready tickers, so neither is passed over
\* for ever.  Nothing forces a client, an administrator or a crash.
Fairness ==
    /\ WF_vars(Clock)
    /\ \A r \in Requests : WF_vars(Handle(r) /\ UNCHANGED <<worker, ticks, patch, crashes>>)
    /\ WF_vars(Recovery)
    /\ SF_vars(ClaimOnTick /\ UNCHANGED <<req, patch, crashes>>)
    /\ SF_vars(ReconcileOnTick /\ UNCHANGED <<req, patch, crashes>>)

Spec == Init /\ [][Next]_vars /\ Fairness

-----------------------------------------------------------------------------
(* What the composition promises. *)

\* Events the worker has claimed and not yet finished with.
Busy == {"refresh", "reschedule", "count", "clear", "ack"}
Handed == {ev.acct : ev \in worker.batch}
            \cup (IF worker.pc \in Busy THEN {worker.ev.acct} ELSE {})

\* A probe is only ever queued or under way for an account whose quota window
\* reads exhausted: a 429 writes the window before it queues the event
\* (server.go:212-226), reconcile queues what it read from the windows, and
\* nothing sets a window's remaining above zero.
QueuedImpliesExhausted ==
    \A a \in Account :
        \/ queue[a].queued
        \/ a \in Handed \cup worker.todo
        => Exhausted(a)

\* A claim does not take the event out of the table: until the worker is done
\* with it, a crash leaves it to be claimed again when the lease has run out.
ClaimedStillQueued == \A a \in Handed : queue[a].queued

\* No event is parked for longer than the longest delay the code computes,
\* although deadlines come from ticks, backoffs, leases and cooldowns.
DueBounded == \A a \in Account : queue[a].due <= now + MaxDelay

\* No step of the worker changes any account's cooldown: what is queued is
\* exhausted, and an exhausted account fails the test before the UPDATE.
RecoveryKeepsCooldowns ==
    [][WorkerStep => \A a \in rows : accounts'[a].cooldown = accounts[a].cooldown]_vars

\* An account id never handed out has nothing on record, so an imported account
\* inherits no window, event or capability of one that was deleted, although
\* DeleteAccount leaves those and late writers add more (db.go:248-251).
NewIdsAreClean ==
    \A a \in Account : a >= nextId =>
        ~windows[a].known /\ ~queue[a].queued /\ ~caps[a]

\* A due event is claimed, whatever crashes and stale ticks come between, unless
\* a newer 429 pushes it back first, or more events are due than one claim takes: then
\* a reconcile may put those of accounts probed before level with it again each time,
\* and nothing says which of them a claim prefers (recovery.go:136, db.go:590).
Due(a) == queue[a].queued /\ queue[a].due <= now
Crowded == Cardinality({a \in Account : Due(a)}) > ClaimLimit

DueIsClaimed ==
    \A a \in Account : Due(a) ~> a \in Handed \/ queue[a].due > now \/ Crowded

\* A window past its reset has a probe queued in the end, the one whose
\* writer crashed between window and event included, unless a newer 429 moves
\* the window first.
PastResetIsQueued ==
    \A a \in Account :
        Exhausted(a) /\ windows[a].resetAt <= now
            ~> queue[a].queued \/ windows[a].resetAt > now

\* recovery.go:119 "Token refresh succeeded - clear cooldown and quota window".
ProbeClearsWindow ==
    [][worker.pc \in {"count", "clear"} /\ worker'.pc = "ack" =>
         ~Exhausted(worker.ev.acct)' /\ accounts'[worker.ev.acct].cooldown = 0]_vars
=============================================================================
