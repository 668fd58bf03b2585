# grok2api-small: a TLA+ verification project

The program under `src/` is a gateway in Go. It offers an OpenAI-style chat completion API and
answers it with a pool of upstream accounts: it picks an account, refreshes its OAuth token,
converts the request, posts it, fails over to another account when one is limited, and lets a
background worker bring limited accounts back. This directory holds TLA+ modules for the parts of
it that have state worth following, the TLC configurations that check them, and TLAPS proofs.

Contents: [inventory](#inventory) · [plan](#plan) · [modules and code](#modules-and-code) ·
[runs](#runs) · [fairness](#fairness) · [disagreements found](#disagreements-found) ·
[proofs](#proofs) · [only model-checked](#only-model-checked) · [not modelled](#not-modelled)

## Inventory

Paths are relative to `src/internal/` unless they start with `src/`.

| Component | State it keeps | Operations | Talks to |
|---|---|---|---|
| Account store `db/db.go` | SQLite tables: accounts, quota windows, recovery queue, capabilities, routes, usage, keys | one method per statement or transaction | everybody; one connection, so statements never overlap |
| Chat failover loop `server/server.go` | locals of one handler: account, attempt, last code and error | select, refresh, post, classify the reply, cool down, record the window, queue a probe, answer | store, token refresh, upstream, stream converter |
| Quota recovery worker `recovery/recovery.go` | one goroutine: two tickers, the claimed batch, the event in hand | claim, probe, reschedule, acknowledge; reconcile windows with the queue | store, token refresh |
| Chat exchange `server/server.go`, `upstream/client.go` | locals of one attempt | let in by key, convert, dial, classify, pass on a stream or a whole reply, charge | the components below; the loop above runs it once per attempt |
| Administrator `server/admin.go` | nothing between calls but a PATCH's merged row | patch, delete, import, reauthenticate, sync | store, model sync |
| Sessions and API keys `server/admin.go`, `server.go`, `db/db.go` | a map of sessions in the process, the table of keys, the password file | log in and out, let in; generate, list, delete and match keys | every admin call, every client call |
| Token refresh `upstream/jwt.go`, `client.go` | the copy of the token pair a goroutine read | check expiry, ask the token endpoint, store the pair, or have the account flagged | store, token endpoint |
| Model sync `sync/sync.go` | a semaphore of ten, a WaitGroup, a task per account | list models, replace capabilities, add missing routes | store, token refresh, upstream |
| Proxy rotation `upstream/proxy.go` | list, modification time and index, process-wide and without a lock | load the file, pick the next proxy | every outgoing request |
| Reasoning cache `converter/reasoning.go` | map from tool call to proof, mutex, 2048 entries, 30 minutes | Set, Get, sweep, evict | tool-call turns |
| Tool-call turns `converter/reasoning.go`, `chat.go`, `response.go` | none (the client holds the conversation) | capture proofs from an output, replay them in a request | reasoning cache, client, upstream |
| SOCKS dialler `upstream/proxy.go` | a connection, two buffers | method, login, connect: write a request, read a reply | the proxy |
| Stream converter `converter/stream.go` | started, finished, tools by item, usage | one handler per upstream event, close | upstream, client |
| Usage counters `db/db.go`, `server.go` | a row per account and day | one upsert per answered request | store |
| Request conversion `converter/chat.go`, rate-limit parsing `upstream/ratelimit.go`, cipher `crypto/crypto.go`, page `server/webui.*` | none | pure functions | |
| Scripts `src/scripts/bulk_import.py`, `src/reauth_watchdog.py` | checkpoint file | import, reauthenticate | the admin API |

What is hard in it, and which correctness properties follow:

* **Requests share accounts without reserving them.** `net/http` runs a goroutine for each
  request; a pick does not mark the account, and what one request writes (cooldown, success)
  another overwrites. Every request must still be answered, a 429 must be on record as a window and
  a queued probe before the client hears of it, and the window must not outlast the cooldown that
  enforces it.
* **Nothing that belongs together is written together.** Cooldown, window and event are three
  statements, a PATCH is a read and a write, count and insert of a route are two. A crash or another
  goroutine can come between any two of them.
* **The worker works with old time and old events.** It computes deadlines from the tick it
  received, its claim is a lease, and by the time it acknowledges an event a newer one may have
  taken its row. No event may be lost, parked too long or acted on for an account that is not
  exhausted; due events must be claimed in the end.
* **Refresh tokens may be good for one use.** Several goroutines send the same one. The account
  must not end up without a live token, nor flagged for reauthentication while it has one.
* **The proxy list is a data race.** A slice is two words, written while others read them.
* **Proofs come back in later requests.** They must return with the call they led to, and no other,
  through a cache that expires and evicts.
* **A SOCKS reply may come in pieces.** The dialler reads once for each reply and looks at single
  bytes. What is left of one reply must not pass for the next, nor be handed to TLS.
* **A cooldown is read out of prose.** Several texts of a reply may speak of a limit, in an order
  that differs from run to run, with durations that overflow; an account must not be used again
  before the upstream said so.
* **Two descriptions of one thing.** Web search filters come from two places, tools and tool choice
  are rewritten apart: a search must not get loose from its filters, a choice not miss its tool.
* **What is remembered may be old.** Sessions outlive the password, keys are deleted from old
  listings, usage is held until a stream ends: each must have the effect its name says, once.
* **Streams break anywhere.** Whatever the upstream sends and wherever it or the client stops, the
  client must see a well-formed stream.

`PROJECT.json` lists each hazard at its line with the properties that would catch it.

## Plan

The order follows the importance of the behaviour; each composed module comes after its parts.

1. *(done)* `AccountStore`, `ChatFailover`, `QuotaRecovery`, `Backoff`, then `Gateway`, which
   composes them with the administrator, the sync's result and crashes.
2. *(done)* `TokenRefresh`, `ModelSync`, `ProxyRotation`: one shared resource each, taken by itself.
3. *(done)* `ReasoningCache`, then `ToolTurns`, which uses it; `ChatStream` (abstract), then
   `StreamConverter`, which implements it.
4. *(done)* Proofs about `Gateway` and `ReasoningCache`.
5. *(done)* The inside of one attempt: `RequestConversion`, `RateLimit`, `SocksDial`, and
   `ChatExchange`, which composes them with `StreamConverter` and counts the tokens.
6. *(done)* `Access` (sessions and keys), part of `ChatExchange` too; imports in `TokenRefresh`.
7. *(done)* Proofs about `ChatFailover`, `TokenRefresh`, `ModelSync`, `ProxyRotation`, `SocksDial`,
   `Access`, and the rest of `ReasoningCache`.
8. *(done)* Lemmas about sequences (`SequenceLemmas`), and with them the proofs about
   `StreamConverter`, `ToolTurns`, `RequestConversion`, `RateLimit` and `ChatExchange`, the
   refinement of `ChatStream` among them; the cover of windows by cooldowns, the rotation, the
   retry delay.
9. *(next)* The listing of models with its effort aliases against what `handleChat` strips again;
   several models in `AccountStore`, so that the selection's capabilities matter to the failover loop.
10. *(next)* A proof that `ChatExchange`'s outcomes are the choices `ChatFailover` offers for a post,
   so that the two descriptions of an attempt are tied by more than their constants.

## Modules and code

A module's action is one handler step of the code: it ends where the code next touches the
tables, the network or another goroutine's memory. `PROJECT.json` maps each definition to its lines.
Operators whose name has a suffix after an underscore (`CoolDown_only`) and a comment that starts
with "A variation" are not part of the model: each is a way its definition could have been coded
wrongly, kept to show that a property notices.

**`AccountStore`** is `db/db.go`. `SetMaxOpenConns(1)` makes a statement, or a transaction, one
atomic step. One model and one quota mode (the code writes only `"build"`) are followed. A row is a
record with the columns some guard reads. Where callers drop the error of a statement, `WriteLost`
is the statement that failed; the constant `DbMayFail` turns it on. A claim is one transaction in
which an UPDATE that fails is passed over, so under `DbMayFail` any part of the batch may keep its
old due time. Deletion leaves windows, events and capabilities behind, as the code does.

**`ChatFailover`** is the loop of `handleChat`. A request record holds the handler's locals. The
cooldown a 429 asks for is a choice from `Cooldowns429`; `now + cooldown` is computed once
(`PostLimited`) and the three statements that follow are three actions (`CoolDown`, `RecordWindow`,
`ScheduleProbe`), because others run between them. The cooldown itself is relative to the clock of
the statement, not of the computation.

**`QuotaRecovery`** is `recovery.go`. A ticker's channel holds one time, further ticks are dropped,
and all deadlines are computed from the time received. `Backoff` is the doubling loop as a recursive
function. A probe that finds the access token still valid asks nobody (`ProbeValid`).

**`Gateway`** runs both over one store with `PatchRead`/`PatchWrite`, `Delete`, `Import`, `Reauth`,
`Sync`, and `Crash`, which drops everything a goroutine holds and keeps the tables. `AdminOps`
selects the administrator's calls of an instance.

**`TokenRefresh`** takes one account and the goroutines that use it: each reads the row, and
`RefreshAndStore` works with that copy. The endpoint is external, with one of three policies: it
replaces the refresh token whenever it is used, sends the same again, or leaves it out of the reply,
in which case the code stores the empty string over the old one. `Reauth` stores the pair of a new
device grant, or an access token alone, with the empty string for the other, or fails. `lost` remembers
whether a granted pair was lost (with a reply, a write or a crash), the owner ended the session, or a
reauthentication emptied the stored token. The account begins
with an import: `ImportGranted` and `InsertAccount` are the two halves of `handleAdminImport`, run by
several handlers with the same token, as a client that retries does. The first row is the account that
is followed, further ones are counted in `rows`.

**`ModelSync`** takes several executions of `SyncAll` at once, each with its own semaphore, and a
task per account. Listing, replacing the capabilities, counting the routes of a model and inserting
one are separate steps. `faulty` remembers whether a statement failed or the process crashed.

**`ProxyRotation`** splits `NextProxy` at each access to shared memory: the atomic time, the two
words of the slice (pointer and length, written in either order), the atomic index. `Garbage` is what
lies behind the end of an array. `MCProxy` gives the lists.

**`ReasoningCache`** is Set and Get under the mutex. `last` is a history of the Sets.
**`ToolTurns`** extends it with one conversation: an output arrives, its proofs are captured in one
pass (`Captures`, a recursive function over the items) and stored one by one, the client sends the conversation back, and `convertMessages`
asks the cache for each call. Another conversation stores proofs meanwhile. `Follows` defines, without
a pass, which call a proof belongs to; the history `given` is made of it.

**`ChatStream`** is the abstract specification: what a streamed chat completion promises to whoever
reads it. **`StreamConverter`** is `stream.go`, event by event and write by write. A write to a client
that has gone away changes nothing the client sees; whether `finished` is then set depends on which
write notices. The arguments of an announcement are an input of `toolStart` that nothing uses. It is shown to implement `ChatStream` under the
refinement mapping `Stream`, which reads phase, number of calls and last chunk off what was sent. The
tokens used go from the event's report through the local `usage` to `lastUsage`, which the second
call of `done` at the end of the stream writes again.

**`RequestConversion`** is `chat.go` as pure operators: a request is a record of messages, tools, the
web search flag and a tool choice; `Refused` is every error return, `ConvertChatRequest` the result.
A text is a member of a set and a content is a sequence of parts; fields that are copied without a
look at them are left out.

**`RateLimit`** is `ratelimit.go` with its caller's lower bound. A text is what the patterns find in it: a
usage sentence, the mark `resets in:`, durations. `RawText` is the body as it came, searched first, in
which JSON escapes may hide a sentence and digits in other fields may look like durations; `Tried`
gives the orders in which Go may visit the texts. Durations are whole seconds with an int64 scaled
down (`Half`), so that they wrap as they do in the code.

**`SocksDial`** is `dialSOCKS5` over a connection that delivers bytes in any portions: `Arrived` is what
one Read may return, `wire` what has not been read. The proxy answers each request once and may fall
silent at any time. The buffer of the method reply is used again for the login reply, stale byte
included. A request is not followed beyond the answer it brings.

**`Access`** has a session per login (token to expiry), the password file as a version, and the keys as
rows with ids that are never reused. Administrators delete keys from what they listed last; a failed
DELETE is answered as a success, so both outcomes are steps. Every handler touches the map or the
table once, so each is one step.

**`ChatExchange`** runs one attempt from the key to the charge: `Administer` (steps of `Access`) until the
client enters, then `Ask`, `Convert` or `Refuse`, `Post`, `Dial` (steps of `SocksDial`), and one of a
limit, another status, a stream (steps of `StreamConverter`) or a whole reply, then `recordUsage` or
`chargeReply`. `ChatFailover` is the loop around it: its choice from `Cooldowns429` is what `Limited`
computes here, its `PostFailed` is `PostFails`, its `PostOk` starts what follows a status 200. A stage
starts from a blank state and drops what nothing reads any more, so the state spaces of the stages add
up rather than multiply. `MCExchange` enumerates the requests, limits and replies. `Selection` holds
`Selected`, the filter that several of the conversions use: `SelectSeq` in a form a proof can expand.

## Runs

| Run | Question | Instance, and why it is enough |
|---|---|---|
| `failover_pair` | Two requests contend for one account: is each answered, is every window scheduled before the client hears of the 429, does a cooldown cover its window as long as the two do not overlap? | one account forces every conflict; two attempts let a second failure follow a first; cooldowns of 1 and 2 ticks against 1 tick for failures distinguish longer from shorter |
| `gateway_recovery` | Chat loop, worker, reauthentication, sync and a crash: types; is only what is exhausted queued, is nothing parked too long, does the worker leave cooldowns alone, are due events claimed and past windows queued? | one account, so a claim of one is never too small (see the condition of `DueIsClaimed` below); two ticks of backoff before the limit, a lease of two ticks, a reconcile every second tick, cooldowns of 1 and 3 ticks: each delay is shorter than one other and longer than one other; one crash can hit every intermediate state |
| `gateway_lossy` | Any dropped error, with patches, deletions and imports: does a claimed event stay in the table, does a new account start clean? | the second id is only handed out by an import, before or after the first was deleted; batches of two |
| `token_refresh` | Two imports of one token, then three goroutines, one of them a sync: is the live token ever lost other than with a reply, a write, a crash or a reauthentication that brings none, does a token that works once make two accounts; without overlap, is only a dead token flagged? | three goroutines let a third act between the winner and the loser; two importers overlap at each step, two rows show a second account; four tokens allow two generations and a reauthentication |
| `model_sync` | Two overlapping `SyncAll`, failing listings and statements, crashes: does each return, do the rows of a model stay within the slots, is what can be served listed? | one slot per run makes the other account wait; three rows are one more than the bound allows |
| `proxy_rotation` | Two callers, two edits of the file: is the rotation fair over one list, and which overlaps does it take to use an old, missing or torn list? | lists of length 0, 1 and 2 make each pair of words distinct; two edits let a file change during a load and after it |
| `tool_turns` | Two outputs of up to three items and a foreign conversation: does a proof come back with its own call only, and always while the cache must still hold it? | three items hold a proof, something between, and a call; a cache of two is full at once; five ticks let entries expire |
| `chat_exchange` | Keys and sessions: who is let in, and does a key last until its own row is deleted? Conversion: are texts, filters and choices kept? Dial: is a connection granted, clean, closed on failure? Limits: does an account rest as long as asked, whatever the order of the texts? Streams: well-formed, every delta delivered, ended? Is each exchange charged once? | two administrators with a listing each, three keys (one deleted, one left, one that could take its id), two logins, a session of two ticks in a clock of three; contents of up to two parts, up to two messages or two tools, every pair of filter lists up to one more than the cap; two texts in each shape of body and three in some (`LongBodies`), durations below and above half an int64; every cut of the replies in a buffer that holds them; streams of up to five events over two tool calls, broken off or abandoned anywhere. The two calls are symmetric: an item's name is only ever compared |
| `tries_next`, `all_exhausted`, `probe_clears`, `flagged_permanent` | one disagreement each, see below | the smallest instance that shows it |

All bounds are constants: `MaxAccount`, `MaxTime` (the clock saturates), `AttemptCap`, `MaxCrashes`,
`MaxTokens`, `MaxRows`, `MaxLogins`, `MaxKeys`, `MaxPasswords`, `MaxClock`, `MaxEdits`, `IndexCycle` (a multiple of every list length, so that counting
modulo it changes no pick), `MaxItems`, `MaxTurns`, `MaxEvents`. A tick of the clock stands for the
shortest delay of the component; what matters is the order of the delays, not their sizes. Once the
clock has saturated, nothing further expires, so the liveness properties are about what is due by
then.

Conditions in the properties are there because the code needs them:

* `CooldownCoversWindow` assumes that no two requests use one account at a time. When two do, the
  success (`cooldown = 0`) or the one-minute failure of one overwrites the cooldown the other's 429
  has just set, although its window is still exhausted.
* `QueuedImpliesExhausted` and `RecoveryKeepsCooldowns` need `DbMayFail = FALSE`: if the window's
  write fails, the probe is queued without it, and a successful probe then clears the cooldown.
* `DueIsClaimed` excludes moments at which more events are due than one claim takes (`Crowded`; 25 in
  the code). Every reconcile makes the events of all exhausted accounts due at once, those probed
  before included, and a claim takes the first ones by time, in an order of the database's own among
  equals. With two accounts, a claim of one and that condition dropped, TLC shows it: after each reconcile
  the claim takes the same account's event, and the other's is never taken. With the condition the
  property and `PastResetIsQueued` hold in that instance too (`MaxAccount = InitAccounts = 2`,
  `ReconcileLimit = 2`, `MaxTime = 2`, every delay and `AttemptCap` 1, no administrator, no crash:
  634,734 states). It is not among the runs because it takes minutes without a crash, and a crash is
  what `gateway_recovery` is about.
* `LiveTokenKept` excludes an endpoint that leaves the refresh token out of its reply, and what comes
  after a reauthentication without a refresh token: `POST /api/admin/reauth` requires the access token
  only, and stores the empty string over the stored refresh token (`admin.go:275`). An endpoint
  that rotates only sometimes would break it too: a late store of the old token overwrites the new.
* `SoleLoadIsCurrent` assumes that no two loads overlap, `UsesFilesList` that nobody reads or loads
  the list while it is replaced. Without the first an old list can stay under the new file's time;
  without the second a call at start-up goes direct although a list is there, or reads past the end
  of an array.
* `DuplicatesBounded` and `CapabilityListed` assume that no statement failed and the process did not
  crash during a sync: a crash between the capabilities and the routes leaves a model that can be
  served but is not listed until the next sync.
* `ImportedOnce` is about an endpoint that rotates. If a refresh token can be used again, each repeated
  import makes another account with it: nothing compares it with those in the table.
* `NeverEarly` is about a 429 with a usage sentence that can be read, in a text the code heeds
  (`Heeded`), whose durations fit. Beyond the width
  of a duration the sum turns negative and a default is taken; without the sentence, or for a 503, the
  Retry-After header is not read. `OneOutcome` excludes an object of which several
  texts may be heeded, where the order in which Go visits a map does decide, and a date, which depends
  on the fraction of the second.
* `ChoiceIsOffered` is about functions: a choice of `web_search_preview` is sent unchanged, although the
  tool itself is renamed. `SearchAsAsked` holds each tool of the request to its own filters and place,
  and admits one search more: the one `web_search_options` asks for, behind the tools. Beside a
  `web_search_preview` tool that is a second search without its filters, because the code looks for the
  type `web_search` only (`chat.go:70`); the property admits it there, and nowhere else.
* `TextsKept` leaves out the roles the code does not name, whose messages it drops, and the parts of
  types other than `text` and `image_url`, which it drops too.
* `DeltasArrive` is about deltas. Arguments that come with the announcement of a call
  (`response.output_item.added`) never reach the client: the converter keeps them in its map and sends
  an empty string (`stream.go:101`). An upstream that announces a call whole is told by its name only.
* `EndIsTold` asks for the reason of streams that were completed; one that broke off or failed is told
  the reason of a complete one, as there is no other.
* `WholeRepliesDecide` assumes that every Read gets a whole reply: a reply in two pieces fails a dial
  the proxy granted, or leaves bytes that TLS then stumbles over (`Dialled`).
* `AdmittedIsLogin` promises no more than the code keeps: a new password leaves old sessions open.

Deadlock is checked except in `chat_exchange`, which is over when the attempt is, and in the two `TokenRefresh` runs, whose endpoint stops issuing tokens at
`MaxTokens`, so that goroutines may be left waiting for a grant.

## Fairness

* `ChatFailover`, `Gateway`: weak fairness for the steps of each request and of the worker, because
  every call they make ends: the HTTP client has a timeout, a probe has one of 30 seconds, SQLite
  waits at most its busy timeout, and the Go scheduler runs every goroutine that can run. Nothing
  is assumed of clients, administrators and crashes, nor of what the upstream answers.
* `Gateway`: strong fairness for receiving from each ticker. A `select` with several channels
  ready chooses among them at random, so neither is passed over for ever; weak fairness would not
  do, as a ticker is not ready continuously while the worker is busy. The clock advances (weak).
* `ModelSync`: weak fairness for each task and for the return of a run; strong fairness for taking
  a slot, because senders that wait on the semaphore's channel queue in order.
* The other modules state safety only. In `SocksDial` nothing would justify fairness: the reads have no
  deadline, so a dial to a silent proxy never ends, although the post that wanted it does.

## Disagreements found

Each has a run that TLC ends with a counterexample, and an entry in `PROJECT.json` that quotes the
line.

1. `flagged_permanent`: two goroutines refresh one account whose token rotates. The second is refused
   for the old token and flags the account `reauthRequired`, after the first has stored a live pair.
   `server.go:166` takes the refusal for a permanent one.
2. `tries_next`: after a 400 or 401 the loop should "just try next" (`server.go:237`), but nothing
   about the account changed, so the selection returns it again, until the attempts are used up.
3. `all_exhausted`: `lastCode` keeps an earlier attempt's 429, and the client reads that all accounts
   are exhausted (`server.go:248`) when the last failures were of another kind.
4. `probe_clears`: a successful probe should "clear cooldown and quota window" (`recovery.go:119`).
   Nothing ever raises a window's `remaining`, so the function called finds the account exhausted and
   does nothing; the window is probed again at every reconcile, for ever. The cooldown only ends by
   its own time.

Also met, without a run of their own, as no text of the repository says otherwise: the listing keeps a
model that every account has dropped (`db.go:330` means that case to be a model not synced yet); the two
races on the proxy list above; the arguments of an announcement that are dropped, the second search
without filters, the refresh token emptied by a reauthentication, and the events that a reconcile can
keep from ever being claimed, each under its property above.

## Proofs

Eight modules hold the theorems that `PROJECT.json` lists and the lemmas they rest on. Every theorem is
for all values of the constants that satisfy the modules' `ASSUME`s: what is a natural number, which
delays are positive, which delay is the longest (`StoreAssumption`, `FailoverAssumption`,
`RecoveryAssumption`, `GatewayAssumption`), that the cap on the index is a multiple of every list's
length (`ProxyAssumption`), that a conversation's calls are among all calls and
a blank stands for neither a call nor a proof (`TurnsAssumption`), how the durations' units compare with the width of a duration
(`RateLimitAssumption`), that the enumerated requests, limits and replies are ones a client or an
upstream can send (`ExchangeAssumption`). TLC evaluates each of them in a run. Nothing else is assumed:
theorems that need `DbMayFail = FALSE` state it as their hypothesis, and conditions such as "no two
requests hold one account" are part of the property itself, as listed above.

`GatewayProofs`, about the chat loop alone, the composition and the retry delay:

| Theorem | Invariant used | Argument |
|---|---|---|
| `TypeCorrect` | `TypeOK` itself | inductive; one lemma per statement (`StatementType`), per step of a request (`ChatType`), of the worker (`WorkerType`) and of the administrator (`AdminType`) |
| `WindowsAreScheduled`, `LimitsAreScheduled` | `LimitInv` | adds that a request about to queue a probe has written its window; what one request does to the tables never undoes what another relies on, as no statement of the loop takes a window or an event away. Needs `DbMayFail = FALSE` |
| `WindowsAreCovered` | `CoverInv` | `CooldownCoversWindow` is not inductive: it needs that an account in a request's hands has rested (`RestInv`), for then its old window has been reset and may lose its cover, and that between the cooldown and the window of one 429 the cooldown is the later of the two, although its clock was read later. Only the holder moves an account's cooldown (`CooldownAfter`), which is where the condition that no two requests hold one account comes in. Needs `DbMayFail = FALSE` |
| `ClaimedStays` | `HandInv` | `ClaimedStillQueued` is not inductive: it also needs that the event in hand is none of the rest of the batch, otherwise acknowledging the one would take away the other. Holds with failing writes too, and with every administrator |
| `QueuedAreExhausted` | `ExhaustedInv` | adds what is true between two statements: a request that has written its window and not yet queued the event still has an exhausted window. Needs `DbMayFail = FALSE` |
| `RecoveryLeavesCooldowns` | `ExhaustedInv` | an action property: the only step that could change a cooldown is `Clear`, reached only when the count read zero, which for an account in hand it never does. Needs `DbMayFail = FALSE` |
| `FreshIdsClean` | `IdsInv` | whoever holds an account, in whatever local, holds an id already handed out; so no late write reaches a new one |
| `DeadlinesBounded` | `DeadlinesInv` | bounds every place a deadline passes through: the queue, the cooldowns, the request's `until` and `cool`, the worker's `now`, batch and event, and both tickers |
| `RequestsEnd` | `AttemptsInv` | an action property with a ranking: `StepsLeft` counts the attempts a request has left and, within one, its place between `select` and `ensure`. Each of its own steps answers it or lowers the rank, whatever the upstream answers and the others do; no attempt begins beyond `MaxRetries` (`AttemptsInv`), so the rank stays in `0..(6 * MaxRetries + 5)` |
| `BackoffDoubles` | - | about the operator `backoff`: it begins with the base, doubles and stops at the maximum, so it satisfies what `RecoveryAssumption` asks of the constant `Backoff`. By induction over the rounds of the loop |

`ExchangeProofs`, about `ChatExchange` and its parts without a module of their own:

| Theorem | Invariant used | Argument |
|---|---|---|
| `AdmissionIsLogin`, `KeysLast` | `AccessInv` | an entry of the map is the expiry of an open login or nothing; a row's id is its secret's, so a listing, however old, names the secret it showed |
| `NoUngrantedTunnel`, `RepliesDecide` | `SocksInv` | lists which bytes can be unread at each step: of the method reply only its last byte can be left over, and in front of the connect reply it moves the version, 5, to where the code is looked for. Any address, any buffer of four bytes or more |
| `TextsArrive`, `SearchesStayBounded`, `ChoicesAreOffered` | `RequestInv` | what is posted is the conversion of the request the client sent: the tools given, in their places, and at most the one that is added behind them (`PostedTools`); the rest is about the conversion as an operator, for requests with any number of messages, parts, tools and domains |
| `RestsAreLongEnough`, `OrderDoesNotShow` | `ReplyInv` | a cooldown belongs to the reply it was read from; the rest is about the parse of one, for bodies with any number of texts and durations: the sum of the durations wraps, but of those that fit it cannot |
| `ChargesAreExact` | `CountInv` and `ConverterInv` | nothing is charged before the end, and `lastUsage` is what the completed event reported, if there was one |
| `ExchangeTypes` | `ExchangeInv` | the conjunction of the above with `DialInv` (the dialler has not begun before the post) and the converter's invariants |
| `ExchangeStreams`, `PartsKeepTheirPromises` | `ExchangeInv` | by refinement: a step of the exchange is a step of `Access`, of `SocksDial` and of `StreamConverter`, or leaves it alone, so each keeps what was proved of it by itself |

The modules that stand on one component each:

| Theorems | Invariant used | Argument |
|---|---|---|
| `ConverterProofs`: `ConverterTypes`, `OutputIsChatStream` | `ConverterInv` | the locals agree with the events read (`ReceivedInv`), the chunks sent with the phase of the stream (`OutputInv`); then each write is a step of `ChatStream`, or none. Streams of any length over any items |
| `ConverterProofs`: `ContentArrives`, `EndTellsReason` | `ConverterInv`, `IndexInv`, `ContentInv` | a tool's index is the number of items announced before it; what is sent and about to be sent is the image of what was received, event by event |
| `TurnsProofs`: `CacheBounded` | `SizeInv` | adds that the set of entries is finite, and `EvictMakesRoom` that whatever an eviction leaves has room for one more |
| `TurnsProofs`: `ProofsKept` | `KeptInv` | entries have distinct times, and of those newer than an entry there are no more than Sets since; the oldest of a full cache thus has seen a whole cache of them |
| `TurnsProofs`: `ProofsAreTheirOwn`, `ProofsComeBack`, `CacheKeepsItsPromises` | `TurnsInv` | the capture finds what `Follows` defines, by induction over the items (`TurnsTyped`, `GivenInv`); what is stored under a call is the proof it followed (`StoredInv`), and what the client's copy lacks is due to have left the cache (`InputInv`). Any number of turns, parallel calls and other conversations |
| `TokenRefreshProofs`: `TokenTypes`, `TokenSurvives`, `OneAccountPerToken` | `TokenInv` | every token held anywhere was issued (`Issued`); under rotation a token that has been spent is live nowhere (`SpentOnce`) and a granted pair in flight is in one hand, and is not what the row holds, be it a token or the empty string a reauthentication left (`InFlight`), so a store never covers a newer live token |
| `TokenRefreshProofs`: `DeadWhenFlagged` | `DeniedIsDead` | along a behaviour without overlap, what a goroutine was denied is still what the row holds when it flags the account |
| `ModelSyncProofs`: `SyncTypes`, `DuplicatesAreBounded`, `CapabilitiesAreListed` | `SyncInv` | the slots taken are the goroutines that hold one; rows of a model plus goroutines about to add one never exceed the slots of all runs, since each counted zero rows while holding its slot (an injection of finite sets); a capability without a row has a goroutine on its way to add it |
| `ProxyProofs`: `ProxyTypes`, `SoleLoad`, `FilesListUsed` | `TypedInv`, `CurrentInv`, `UsesInv` | the first holds of any interleaving; the others follow a single load from the time it stores through the two words of the list to the words a caller reads, as long as the stated overlap does not occur |
| `ProxyProofs`: `TurnsAreTaken` | `RotationInv` | every length in use is that of some list, a torn one's too, so the index starts over at a multiple of it (`IndexTurns`), and the last position is the index's, modulo the length. Any interleaving and any loads in between |

`SequenceLemmas` states what the others need of concatenation, flattening and filtering. The library's
induction theorems take an operator as a parameter, which the provers cannot instantiate, so
`SetInduction` and `SeqInduction` are stated with a set in place of it: that brings what recursive
functions (`Total`, `Captures`, `backoff`), filters and maps over sequences compute for every input
within reach.

Two properties were false as first stated, and no run had shown it: `NeverEarly` and `OneOutcome` spoke
of every text with a usage sentence, but the code takes the first one it can read, and a sentence whose
numbers do not fit is passed over. With the two texts of the old instance the difference did not show;
the attempt to prove it did, and both are now about the text that is heeded (`Heeded`), with bodies of
three texts in the run.

The types of `TokenRefresh` and `ModelSync` are proved only, no run checks them. The temporal step of
each theorem combines the initial-state lemma and the step lemma.

## Only model-checked

* Liveness (`EveryRequestAnswered`, `DueIsClaimed`, `PastResetIsQueued`, `SyncAllReturns`): the
  prover has no support for reasoning about fairness and `ENABLED`. Every other property of a run
  that passes is also a theorem. Of `EveryRequestAnswered` the half without fairness is proved:
  `RequestsEnd` bounds the steps of a request, and fairness only has to make them happen.
* That the code breaks the four properties under [disagreements](#disagreements-found): a
  counterexample is a run.

## Not modelled

* Of a request the fields that are copied; of a limit the team and model, which are only logged; of a
  usage row its day and the split into prompt and completion; of a key its flag for model aliases, and
  the listing of models that reads it; the failure counter and the sync-state table, which nothing reads.
* The cipher, the transport apart from its SOCKS5 dialler, the web page, and the device authorization
  calls, which the server never makes.
* The scripts outside `internal/`. They call the admin API without an administrator's token, so each
  call is answered 401 since the middleware was added; the import and reauthentication handlers they
  aim at are modelled with callers that are let in.
* Several models and quota modes in `AccountStore`: a model only narrows which accounts the selection
  sees, and the code writes one mode.
