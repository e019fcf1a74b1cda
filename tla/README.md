# TLA+ models of the Vecto / TG_Koll_Web back end

The repository is a multi-tenant social-automation service: a FastAPI application
(`webapp/`) over one SQLite file, with an automation runner (`social_automation/`),
a video library (`video_core/`), a Telegram bot and front ends. The models here are
about the part where a mistake costs money or cannot be undone: the point wallet,
the purchase and renewal of proxies at an outside supplier, the task queue that runs
paid work, the videos rendered by a paid provider, the posts published on social
platforms, and the plans that create such posts cycle after cycle.

`PROJECT.json` lists components, runs, mutants, the lines each definition stands
for, hazards and theorems. Run a model with
`tlc -workers 2 -config Tasks.cfg MCTaskQueue`, check the proofs of a module with
`tlapm BillingProofs.tla`; the other proof modules are `SumTheorems`, `TaskQueueProofs`,
`ProxyPurchaseProofs`, `ProxyRenewalProofs`, `SocialTasksProofs`, `AutomationPlansProofs`
and `VideoCheckpointsProofs`.

## 1. Inventory

### What the code runs on

* SQLite in WAL mode, foreign keys on, busy timeout 3 s. `db()` (`webapp/db.py:20`)
  commits when its block ends and rolls back on an exception. A block that starts
  with `BEGIN IMMEDIATE` is atomic and excludes every other writer. A block that only
  does `SELECT` and later `UPDATE` is not: Python's `sqlite3` opens its transaction
  at the first write, so the read may be stale by then.
* Synchronous endpoints run in a thread pool, hence concurrently. Worker threads and
  periodic jobs run in the same process; several processes may run the proxy worker.
* Calls to suppliers lie between two transactions.

### Components

| Component | State | Operations | Correct when |
|---|---|---|---|
| Billing (`commercial_billing.py`) | wallets, ledger, reservations, image grants, orders, subscriptions and their months | reserve, settle, release, refund; adjust; create, approve, reject, cancel, refund orders; terminate | the ledger explains the wallet; a hold ends once; cash never exceeds what was paid; revoked benefits stay revoked; paid months do not overlap |
| Proxy purchase (`proxy_purchases.py`, `proxy_purchase_api.py`) | quotes, orders, owned items | quote, create order, reconcile, deliver, sync, resolve by hand, monthly free proxy | one supplier order per purchase; points charged with delivery only; never released while the supplier may have an order |
| Proxy renewal (`proxy_purchases.py`) | schedule rows with lease, baseline, reservation | switch, three passes of the worker, resolve by hand | as many charges as extensions, in both directions |
| Supplier adapters (`proxy_providers/`) | credentials | quote, execute, read, extend | a lost answer is not taken for a refusal |
| Supplier webhooks | event rows | record, claim, process | each event leads to a reconciliation |
| Task queue (`server.py`) | task rows, in-memory queue, cancel events, worker threads | create, put, cancel, delete, claim, run, finish, recover at start-up | points held exactly while the task is active; charged for results; started once; ends |
| Video workbench (`video_workbench.py`, `video_core/`) | checkpoint, completed segments and provider task id in the task's row; the provider's tasks | submit, poll, checkpoint, complete, cancel, resume as a child, recover at start-up | a completed segment is not paid for again; segments end up in their place; every task ends |
| Social tasks (`social_automation_api.py`) | task rows, daily quota slots, reservations, leases, batch reservations; controls of the running browser sessions | create, claim, recover, arm, confirm, finish, retry, cancel, stop all, clear, take over, shut down | a post goes out once and in order; points are charged for what went out and returned otherwise; quota kept; nothing is clicked after a cancellation was answered |
| Automation plans (`social_automation_api.py`) | plan rows with claim token, lease and cycle; task rows in preparation | create, materialize, reconcile, cancel, delete, sweep | cycles whole and one after the other; a stopped plan is quiet; nothing stays in preparation |
| Runner and live browser (`runner.py`, `live_browser.py`) | pages, sessions | drive a page, guard the click, look for a post | only the part the social tasks see is modelled |
| Remote fetch worker (`worker_server.py`) | jobs and leases | claim, heartbeat, result | a job's result is taken once |
| Proxy pool and administration | pool rows, assignments | assign, test, retire | no exclusive proxy shared |
| E-mail governance | limits and counters | reserve, send, report | limits kept under concurrent sends |
| CRM | imports, rotation, watchdog | import, rotate, revive | rotation skips nobody; stuck tasks are revived once |
| Authentication, governance, Telegram, `tool_r18`, front ends | sessions, settings, messages | | not protocol code |

How they interact: the task queue, the social tasks and both proxy components create
their row and a **reservation** of Billing in one transaction, and later settle or
release it together with the change of status. The proxy worker runs every 60 s
(webhooks, reconciliation, sync of assets, renewals), each part within its own
exception boundary. `create_app` runs the recovery of tasks before it starts the
worker threads.

Hard behaviours: interleaved requests that check before they lock; a process that
stops between two transactions around a paid call; answers that are lost, late or
lack a field; stale readings applied in the wrong order; recovery of half-done work;
a click that cannot be taken back, made under a lock that another process does not see;
claims that run out while their owner is still at work.
Each is listed at its line under `hazards` in `PROJECT.json`.

## 2. Modules and the code they model

One committed transaction is one action; a refused call rolls back and is no step.
What a thread read before a supplier call or before its transaction is kept in the
thread's local state and applied by a later action.

**Billing.** `wallet`, `resv`, `grant`, `order`, `sub`, `period` are the tables of the
same meaning. The ledger is reduced to what its invariants need: the set `posted` of
idempotency keys, and `booked`, the sums of both amount columns per user, per
reservation and per order. `InsertLedger` drops a row whose key exists, as
`INSERT OR IGNORE` does, so a movement under a used key would show as a difference
between wallet and ledger. `HoldPoints` spends unpaid points before cash-backed ones;
`SettleReservation` splits a partial settlement back. An image grant is named by the
order that pays for it and the month it belongs to. Time is counted in months.
Simplifications: order quantity 1 and one subscription per order;
`review_order(cancelled)` is `CancelOrder`; `claim_reservation` only checks and is no
step; one source of extra points for a new user.

**ProxyPurchase.** `call[t]` is the local state of a request, the worker or an
administrator's request: begin → lock → execute → record → observe → apply. The
supplier's side (`supplier`) is external: it knows for which purchase an order was
placed even when the answer is lost or lacks an id. `Bind` may bind the wrong order when
`Mistakes` holds. `Crash` ends a thread between any two actions. `get_order` and
`get_order_proxies` are one read.

Webhook events are part of this module, because what they do is a reconciliation: a
worker claims an event (`ClaimEvent`), finds its purchase by the supplier's id
(`MatchEvent`, `Unmatched`), runs the same observe and apply steps as everybody else, and
ends the event (`EndEvent`) with what came of it.

**ProxyRenewal.** One schedule row. Expiry dates are counted in paid periods; 0 is an
expiry the supplier did not tell. Reservations are named by the expiry in their key.
`work[w]` is the thread of a worker or of a request. Everything that asks the supplier and
then writes goes through `Take` (what it selected), `Read...` (what the call told) and
`Apply...` (the transaction that writes it, by then perhaps stale): the passes over missing
expiries and uncertain outcomes, `admin_resolve_renewal`, `reconcile_order` of the delivered
order (active, ended, waiting) and `sync_active_assets`. `month` is the last period that is
within three days of its end, or over; a row is due when its period is, or when a failure has
set `next_attempt_at` minutes ahead (`soon`). `Judged` is the comparison of an expiry with the
time, left open within those last days. When a lease runs out is left open too, so a thread may
outlive its lease at any point.

`NextMonth` assumes that no call to the supplier takes from one period into the next: the
calls time out in seconds (`proxycheap.py:118`), the jobs follow each other every 60 s
(`proxy_purchase_api.py:721`), and a period is a month or more.

`Events` selects what may happen beside the workers: `crash`, `switch`, `reconcile`, `admin`,
`local error` (the transaction after an extension fails), `no expiry` (a reading lacks
it), `read rejected` (the read that confirms an extension is refused), `ended` (the proxy
has ended, or waits), `overdue` (a renewal stays undone for a whole period) and `late`: an
extension may pass a reading of another thread that is still on its way to a row or an asset.
Nothing in the code excludes any of them; a run or theorem that leaves one out says so, and
section 6 says what happens with it.

A `SELECT` of the row directly before its transaction, without a call to the supplier between
them, is merged with it in `TryLater`, `ProviderError` and `ConfirmNotExtended`, and so is the
order's row in `SetOrderRenewal` and the read of the row after the update in `Claim`. `now`, which
a job reads once when it starts, is the clock at each step.

**TaskQueue.** `row` and `hold` are the status of the task and of its reservation;
`posts` are the archive files, `ckpt` what recovery reads of a video checkpoint;
`queue`, `control`, `worker` and `client` belong to the process and are lost when it
stops. `CancelRead`/`CancelApply`/`Signal` and `DeleteRead`/`DeleteApply` are the parts
of one request that other threads can come between. `PutFails` is the transaction after
`queue.Full`. `WorkerFails` is an exception that leaves `_task_worker`; `HandleError`
and `HandlerFails` are the two outcomes of the handler in `_task_queue_worker`.
`Restart` is one action, because recovery runs before any thread starts and a stop in
the middle of it rolls back or is repeated from the start. It takes the rows in an
arbitrary order because `created_at` has seconds only.

**SocialTasks.** `task`, `slot`, `hold`, `lease`, `resv` are a task's row, its slot in the
daily quota, its point reservation, its worker lease and its batch reservation. A row's
`mark` is how far the payload says a submission got, `conf` is 0 or one more than the
confirmation attempts of a submitted post (such a row is only looked for, never clicked
again), `result` what the stored result allows (`noretry`, `review`). `run[p][a]` is the
browser session of process `p` for account `a`: claimed → start → (next) → work → armed →
ready → posted → leaving. From `armed` to the click the session holds
`publish_submit_lock`, so requests that signal it wait (`MaySignal`). `req` is a cancel,
stop-all or clear request between its transactions. `clicks` is the platform's side: how
often the irreversible click was made for a task, and `post[t]` are the tasks about the same
post as far as `t` knows: itself, the one it retries, and so on. A shutdown saves rows one at
a time while runners go on (`SaveShutdown`), a crash loses sessions and leaves leases behind, a stall lets a lease run out under a runner
that still works. `ClaimTask` includes the sweep of finished reservations that
`_claim_next_task` begins with. Not in the model: accounts that depend on each other's
login, previews, CRM tasks, matrix campaigns, a take-over that reaches a Threads session after
its click (`runner.py:14732`; here a session is handed over before it; mark and confirmation are
committed by then), clicks a person makes in the live browser,
administrators' waived slots, limits on the number of parallel sessions; one request of a
client is served at a time.

**Escrow** is the abstract specification of paid work: hold, do the work at most once,
charge, or return when the work was not done and never will be. `PaidSpec` of SocialTasks is
its specification under the mapping `Jobs <- Publish, money <- Money, done <- Done`.
Purchases and queued tasks do not implement it: an administrator may on purpose give points
back for delivered work.

**AutomationPlans.** `plan` is the plan's row with status, cycle, claim token, claimed cycle
and whether the claim's lease is fresh; `task` the rows of all cycles, named as
`_automation_plan_task_id` names them; `mat[p]` what process `p` does under its plan lock.
`CreateCheck`/`CreateInsert`, and `Claim`/`CheckItem`/`CreateItem`/`Finish` are the separate
transactions of creating a plan and materializing a cycle. A claim that ran out is taken
over while the old owner may go on (`Stalls`). `Age` and `SweepStale` are the 600 s sweep.
`DisableAccount` and `DeleteAccount` are the two transactions of deleting the account, which
takes its plans along. The run of a queued task is reduced to its outcome; SocialTasks has the detail.

**VideoCheckpoints.** A row has its input (`resume`, the provider task a restart handed over,
and `have`, inherited segments), its checkpoint (`stage`, `pid`, `done`) and its output
(`out`). `job` lists the provider's tasks in the order it accepted, and charged, them. A
segment goes submit → post → register → mark → poll → won, and each step that writes the
checkpoint is its own transaction. `Resume` makes a child of a failed or cancelled task.
`Recovered` is what `_resume_pending_tasks` does to one row. The two runners differ as in the
code: the short video stops at the first failure and hands the resumed provider task to one
segment, the digital human goes on and hands it to each. Not in the model: images, audio,
scripts, regeneration of one segment, a full queue when a row is queued or recovered. A segment
is one provider task; one of the digital human may need several (`source_backend.py:1961`). The
digital human copies inherited segments to its own directory (`digital_human_pipeline.py:718`),
where the model leaves them with the parent. A success without a local file
(`source_backend.py:3826`, `digital_human_pipeline.py:767`) is a failed segment here.

`MC*` modules fix the instances, `*Proofs` modules hold the proofs about the module they are
named after, `SumTheorems` the lemmas about sums over finite sets that two of them need.

## 3. Runs

| Run | States | What it shows |
|---|---|---|
| `billing_points` | 420 k | wallet = ledger; holds and orders accounted for once; cash within credit and within what was paid; finished reservations stay finished; images held by running work stay covered by their grant |
| `billing_subscriptions` | 410 k | paid months never overlap, the subscription ends with its last live month; nothing flows back into a revoked grant |
| `purchase_races` | 1.85 M | bought at most once; charged with delivery only; never given back while the supplier has an order |
| `purchase_calm` | 59 k | without crashes every hold stays within reach, an order known at the supplier ends, and a webhook event does not stay claimed |
| `renewal_all` | 2.86 M | with every event but `no expiry` and `late`, the owner is never charged for more periods than were added |
| `renewal_workers` | 11 k | with `crash`, `late` and `ended`, every extension is charged or on hold, and is charged in the end unless the proxy ends before |
| `tasks` | 731 k | held exactly while active; charged for results; started once; stopped for good; every task ends |
| `social_publish` | 462 k | Threads posts and a batch of two under crash, shutdown, cancel, clear and retry: each post once and in order, rows and quota slots consistent, no click after an answered cancellation, points as Escrow promises |
| `social_stop` | 260 k | Instagram posts in two processes with stop-all, take-over, crashes, stalls and a change of day: each post once, no day over its limit |
| `social_ends` | 220 k | a post and a comment under every request and a crash or shutdown: points on hold are charged or returned in the end |
| `plans` | 139 k | two processes materialize a plan with crashes and stalls, while it is cancelled or its account deleted: cycles whole and in order, a stopped plan is quiet, nothing stays behind |
| `video` | 1.67 M | two segments, a resumed task and two restarts: no completed segment is paid for again, segments in their place, every task ends |

Bounds and why they are enough. Billing: one user (users share no row), two holds so that
two can overlap on one wallet or grant, up to three orders so that a refund can come
between two renewals, wallets up to 3 points. Purchases: two threads, two quotes, two
keys and two supplier orders, the least for every race over a key, a quote or a proxy
(`ProxyOf` gives the same proxy to both); in `purchase_calm` one order and one event, which
two threads handle. Renewal: two workers; `MaxExpiry` 2 in `renewal_all`
(with it TLC finds all double charges of section 6), and 3 (two renewals after each other) in
`renewal_workers`; `ChargedForExtension` was also checked with 3 for `crash`, `admin`,
`local error`, `read rejected`, `ended`, `late` and `overdue` (316 k states). Tasks: a post task and a video task (which acts like a plain one until
it has a checkpoint), two workers and two requests, a queue of one place so that it is full,
one restart. Social tasks: a batch of two and a third task that can only be its retry, or
two tasks of one account that compete for a limit of one; two confirmation attempts, so that
one is lost and one is the last; one fault and one request, which may fall between any two
transactions. Plans: two items and two cycles, so that a crash can fall between items and
a cycle follows another; two faults, so that a taken-over claim is taken over again.
Videos: two segments and two restarts, three provider tasks (one segment more than needed
once), one child. Symmetry is used for holds, orders, threads, quotes, keys and processes
where the run has no liveness property. Deadlock is not checked: all of these systems may
come to rest.

Each property has a mutant of the code (`Mut...`, directly before the definition it
replaces) that breaks it.

### Fairness

* ProxyPurchase: a thread finishes what it began (no crashes in `purchase_calm`). The
  worker takes the orders least recently synced first, every 60 s, so none is passed over
  for ever (strong fairness per order). The supplier decides pending orders and does not
  leave out the endpoint of an active proxy for ever. The last two are assumptions about
  the supplier; without them an order may really stay open.
* ProxyRenewal: the same for uncertain rows, and the supplier tells the expiry in the end.
  Crashes remain possible at every point. `ExtensionCharged` ends with the charge or with the row
  marked `ended`, which no pass looks at again.
* TaskQueue: requests run to their end, workers take what is queued, and runners return
  (their provider calls have timeouts). `TaskEnds` excludes states with a dead worker thread.
* SocialTasks: each process' worker loop claims, sweeps and recovers as long as there is
  something to do; a session goes on to its end (pages have timeouts); a request that was
  begun is finished; a stopped process is started again by its supervisor; a lease nobody
  renews runs out. `HoldsEnd` leaves out outcomes under review, which wait for a person, and
  tasks that wait for the quota of another day.
* AutomationPlans: the worker loop of each process materializes, reconciles and sweeps; queued
  tasks run; the lease of a dead process runs out. No fairness for stalls, crashes or requests.
* VideoCheckpoints: the worker of a row goes on, and a poll ends (`video_task_timeout_seconds`).

## 4. Proofs

Every invariant, action property and refinement that a run checks is also a theorem, for every
value of the constants that the module's `ASSUME` allows (types, disjoint names, finite
tables; in SocialTasks also that a task is in one batch, all of one account). Some theorems
have a further hypothesis; it names an event with which the code does not keep the property,
and section 6 has the counterexample. Each run satisfies the hypotheses of its properties.
None of the seven hypotheses of `EachExtensionPaid` can be dropped: each of these events alone
breaks `ExtensionsPaid`. Of `NothingForNothing` neither can: `no expiry` with `reconcile`, and
`late` with `reconcile` or `switch`, break `ChargedForExtension`.

| Property | Theorem | Hypothesis |
|---|---|---|
| Billing: `TypeOK`, `CashWithinCredit`, `WalletMatchesLedger`, `HoldsAccountedFor`, `OrdersAccountedFor` | `TypeCorrect` and the next four, from `Accounting` | |
| `FinishedForever` | `FinishedStaysFinished` | |
| `HeldImagesCovered`, `RevokedStaysRevoked`, `PeriodsDisjoint` | `ImagesCovered`, `RevokedForGood`, `MonthsDisjoint`, from `Entitlements` | |
| `CashBackedByPayments` | `CashIsPaidFor` | |
| TaskQueue: `TypeOK` | `QueueTypes` | |
| `HoldFollowsRow`, `ChargedForResult`, `StartedOnce`, `StoppedForGood` | `HeldWhileActive`, `ResultsCharged`, `RunnersStartedOnce`, `StopsStay` | the key of a deleted task is not sent again (`~KeyReuse`) |
| ProxyPurchase: `TypeOK`, `ExecutedOnce`, `NeverReleasedBlindly`, `SettledWithDelivery` | `PurchaseTypes`, `BoughtOnce`, `NoBlindRelease`, `ChargedOnDelivery` | |
| `NoOrphanedHold` | `HoldsWithinReach` | no crash, no wrong binding (`~Crashes`, `~Mistakes`) |
| ProxyRenewal: `TypeOK` | `RenewalTypes` | |
| `ChargedForExtension` | `NothingForNothing` | readings carry the expiry (`~Gaps`); no extension passes an unwritten reading, or nobody reconciles or switches (`Late => ~Upserts /\ ~Switches`) |
| `ExtensionsPaid` | `EachExtensionPaid` | the row is left to the workers and renewed in time (`~Switches`, `~Upserts`, `~Admins`, `~LocalErrors`, `~Rejections`, `~Gaps`, `~Overdue`) |
| SocialTasks: `PostedOnce`, `PostsInOrder` | `NeverPostedTwice`, `OnceAndInOrder`, from `Invariant` | |
| `RowsConsistent` (its types: `SocialTypes`, without hypothesis) | `SlotsConsistent` | not both retries and take-overs |
| `DailyLimit` | `LimitRespected` | no batches |
| `FirstsWithinLimit` (in no run: see below) | `FirstsLimited` | |
| `PaidSpec` | `ImplementsEscrow` | neither stop-all nor take-over |
| `QuietAfterCancel` | `SilenceAfterCancel` | one process |
| AutomationPlans: `StoppedIsQuiet`, `CyclesConsistent` | `StoppedPlansQuiet`, `CyclesKeepOrder` | |
| VideoCheckpoints: `SegmentsConsistent`, `NeverRemade` | `RightSegments`, `PaidSegmentsKept` | |

None of these properties is inductive. What follows is what had to be added, and why.

**Billing** (3895 obligations). `IInv`: a movement reaches the ledger only if its key is new, so
one has to know which keys are used: `KeysTellStatus` ties a used key to a status its
reservation or order cannot return from, and `ClosedIsEmpty` does the same for the first use
of a wallet. A settlement returns `credit - sCredit`, which is not negative only because a held
row was priced as `(qty - images) * rate` with nothing settled yet: `HeldIsPriced`. The proof is
one lemma per action, on top of `TouchBooks` and `MoveBooks` (what opening a wallet and one
ledger movement do to wallet and sums) and frame lemmas for what an action leaves alone.
`EntInv`, the invariant of images and months, has one part per grant, reservation, order and
subscription. What is left of a grant and the *sum* of what running work holds of it fit in
it; a revoked grant is held by nobody, which is why nothing can flow back; live months are
apart, all over by the end of their subscription, and an active one ends with one of them, so
that a renewal that starts there cannot overlap. `LedgerInv` says of each user that the cash
column of the user's ledger and what the user's reservations took fit in what the user's
approved orders brought in; it is an inequality because an administrator's deduction may take cash
away. A refund takes the order's points out of both sides at once.

**SumTheorems** (309 obligations). `SumFunctionOnSet` is defined by choosing elements one after
the other, and the induction theorems of the library cannot be instantiated with a predicate
by the installed provers. The lemmas are therefore proved by a least counterexample: the
subsets of a finite set are well-founded under inclusion (`FS_StrictSubsetOrderingWellFounded`,
`WFMin`), and a set of counterexamples without a least member is empty. From this come that
sums are integers (or natural numbers), that any element may be taken out first, that equal
functions have equal sums, and that a change of one element changes the sum by as much.

**TaskQueue** (1334 obligations). `QueueTypes` needs `BusyWithTask` (a thread that is not idle
has a task). `HeldWhileActive` needs `FreshHoldsNothing` and `DeletesFinished`: deletion does not
look at the status again, so the invariant must say that what it read cannot become active
before it deletes. For charges and starts, `HolderInv`: a task is in one place, with one
request, at one position of the queue or with one worker (`OneHolder`), its holder finds the row
as the last one left it unless it was cancelled meanwhile (`RowsInHand`), and until it starts its
runner was not started since the last restart (`RunsCounted`).

**ProxyPurchase** (1578 obligations). `Inv`: while a request talks to the supplier, its order
is `reserved` without id and no other thread is there for the same key (`PlacedAlone`); before
the call, and after a refusal, the supplier has nothing for the key (`NothingPlaced`); each order
has a quote of its own that is used up (`QuotesUsed`), which carries "once per key" (`OneEach`)
over to "once per quote"; an unused key left no trace (`UnusedKeys`). `HeldInv` for
`NoOrphanedHold`: rows and requests know only their own supplier's order, and an order is active
or expired only after its points were charged.

**ProxyRenewal** (2400 obligations). `ChargeInv`: the period in a reservation's key lies before
the one its row or thread knows of, and the supplier has gone at least that far; so the
settled keys are distinct periods the supplier has left behind, and there are no more of them
than extensions. What makes it inductive is `FreshReadings`: an expiry about to be written to
the row or the asset is the supplier's current one. `ReadingsStay` shows that every step keeps
it but an extension that passes a reading, which is what `Late` is about. `PayInv`, for the
other direction, relates row, threads and supplier: the row's expiry is the supplier's or one
period behind, and then only between an extension and its completion. A thread is `Busy` with a
period (`Of`) while it may still settle or release its hold; at most one thread renews, it owns
the row (`Owned`), and nobody else is `Busy` when it claims; a thread left over from a finished
period (`Behind`) finds the row `Quiet`, and one without reservation (`Passive`) can only end its
job. A renewed row is not due before the next period is (`Waiting`), and by then every thread has
returned: here the assumption about the clock enters. Every earlier period then has a held or
settled reservation.

**SocialTasks** (7058 obligations). `SInv`: what the row, its slot and its claim are where a
session stands at each place (`RowOK`, `RunOK`); one session submits for a row (`OneSender`); a
Threads post that a retry is about was not clicked and never will be, or the retry only looks
for it (`RetryOK`); rows to be deleted have ended (`Clearing`). About forty-five actions, each with
loops over rows, would make that proof unreadable. It is cut in two: `NextStep` shows that each
action is a `Step`, which says of every row that it makes one of 15 kinds of changes (enters, is
taken, armed, confirmed, requeued, fails, ...), of every session one of 6, and of clicks, retries and
requests what bounds them; `StepKeeps` shows that `Step` preserves each part of `SInv`. The later
theorems use `Step` too.

* `SlotsKept`: a row that ended without a submission has given its slot back. It is kept if only
  submitted posts are looked for (no retries) or no row waits for a person (no take-overs).
* `WithinLimit`, for the posts that are claimed one by one, which are all but the later items of
  batches: those that count for execution (`Started`), and those of each day, stay within the
  limit; no slot is of a later day than today; and none of these rows has a reservation
  (`FirstsFree`), so that a session takes it only through the check in `_claim_next_task`. The check
  counts the later items too, which makes it stricter, never weaker. `FirstsFreeKept` goes through
  the actions once for the reservations: only `ClaimTail` makes any, behind the item it starts
  from. `FirstsLimited` says what is left of the limit whatever batches there are; with none it is
  `DailyLimit`. TLC found no violation of `FirstsWithinLimit` with a batch of two, two processes, retries and a
  crash, in the instance where `DailyLimit` fails.
* `PaidInv`: points of an active row are on hold, those of a submitted one on hold or charged, and
  what was submitted has everything before it in its batch published, so a batch that fails drops
  nothing submitted. `EscrowStep` maps the step of each row to a step of `Escrow` or a stutter.
* `QuietInv`: the row of a session that holds `publish_submit_lock` is live, or it was cancelled
  by a request that still has to signal this session, and waits for its lock. The `Calm` lemmas go
  through the actions once more, because `Step` forgets who holds a lock.

**AutomationPlans** (1343 obligations). `PlanInv`: a cycle is claimed after the one before it has
succeeded, a process that creates item `k` has seen all earlier items made, and tasks wait or
run in the current cycle of an active plan only. The last one is why a stopped plan is quiet:
rows in preparation become queued in the same transaction that activates the cycle.

**VideoCheckpoints** (1452 obligations). `DoneKept`: what a checkpoint lists as completed is in
the row's own directory and the worker has it. `InOrder`, for the first short video of a chain:
segments are made one after the other, so a provider task that the checkpoint calls running
belongs to the first segment without a file, which is the one a restart gives it to.

Model-checked only: liveness (`BoundOrderEnds`, `EventsSettle`, `ExtensionCharged`, `HoldsEnd`,
`NothingLeftBehind`, both `TaskEnds`). It rests on weak and strong fairness, hence on ENABLED,
which this prover does not handle.

## 5. Not modelled

Within modelled components: the schema migration of `bootstrap_billing`, the price catalogue,
evidence files; HTTP, parsing, signatures and credentials of the supplier adapters; the
runners behind the task queue other than videos, cancellation at the remote provider,
artefact files, event rows; what section 2 lists for each module.

Whole components: page automation in `runner.py`, cryptography, formatting and front ends are
out of a model checker's reach or hold no protocol. E-mail governance (a daily limit and leases
of delivery attempts) and the remote fetch worker (a job table with claims) do have protocols
of their own; they move no points and their work can be repeated, so they come after the
components above. The CRM works on one tenant's rows per request, its watchdog only
classifies. The repository is large (about 150 000 lines of implementation), and most of it is
page automation, prompt and payload construction, forms and listings; the models cover the
transactions that decide about money and irreversible actions, a small share of the lines.

## 6. Where the code falls short of what it says

Each is a behaviour of the model that TLC finds when the named instance is checked; none of
the runs above includes it. The formulas are in the modules.

Purchases and renewals:

* `NoOrphanedHold` with `Crashes = TRUE`: a process that stops after the hold is committed and
  before the supplier's answer is recorded leaves an order in `reserved`, which no operation
  accepts (`proxy_purchases.py:1182`).
* `OneFreeProxy` with `MaxFree = 2`, two quotes and two supplier orders: the comment at
  `proxy_purchase_api.py:198` says concurrent
  clicks converge on one key; they do not when the second counts the attempts after the first
  has its order.
* `ChargedForExtension` with `Events = {"reconcile", "no expiry"}`: a reading without expiry,
  written while a renewal is being quoted, sets the baseline to 0, and the unchanged expiry is
  later charged as an extension (`proxy_purchases.py:1912`).
* `ChargedForExtension` with `{"reconcile", "late"}`: `reconcile_order` reads the expiry before its
  transaction (`:1479`), a renewal completes meanwhile, and the upsert (`:1557`) puts the old
  expiry back into the row and leaves the new key. The row is due again, its next attempt has the
  old expiry for a baseline, and the first extension is charged a second time. With
  `{"switch", "late"}` the sync (`:2183`) puts the old expiry back into the asset, and switching
  renewal on copies it to the row (`:1752`); with `{"no expiry", "late"}` the pass over missing
  expiries writes it to the row (`:1802`).
* `ExtensionsPaid` with `{"no expiry"}`: two workers read a missing expiry; the first applies it,
  claims, reserves and extends; the update of the second, which names the row only, turns
  `extending` back to `scheduled` (`:1802`). When the lease runs out, the row is claimed again
  under the key that is on hold: a quote error releases the points of the extension that was made,
  or, if the first worker died, the next one extends a second time for the same hold.
* `ExtensionsPaid` with `Events = {"read rejected"}`: the refusal of the read that confirms an
  extension is taken for the refusal of the extension, and its points are released
  (`proxy_purchases.py:1940`); with `{"switch"}`: the owner turns renewal on again while it is
  being quoted, the row is `scheduled` (`:1741`) and claimed by a second worker, whose points the
  quote error of the first releases; with `{"local error"}` and two
  workers (`:1958`); with `{"admin"}`: "not extended" is confirmed while the outcome is open, and
  the points of an extension the supplier did make are released (`:2013`); with `{"reconcile"}` and
  two workers: the reconciliation of an order puts its row back from `quoting` to `scheduled`
  (`:1557`), a second worker claims and reserves when the lease runs out, and the quote error of the
  first releases the second's points before its extension (`:1873`); with `{"overdue"}`: a row that is
  a period behind is due again as soon as it is renewed, a slow pass over uncertain outcomes makes
  it `scheduled` while the next renewal is being quoted, and the rest is the same. All of them with
  `MaxExpiry = 3` and two workers.
* `NoAbort` with `Events = {"switch"}`: an uncertain row without
  reservation whose expiry has moved raises `BillingError` out of the whole pass (`:1827`).
* `RefundedNotInUse`: an administrator may confirm a supplier refund for an active order, and
  the asset stays in use (`:1672`).
* A process that stops between claim and reservation leaves a renewal in `quoting`, which no
  pass selects (`:1845`); one that stops in an event leaves it in `processing` (`:2124`). An
  event that comes before the supplier's order id is recorded is `unmatched` for good; the
  periodic reconciliation makes up for it.

Task queue and videos:

* `HoldFollowsRow` with `KeyReuse = TRUE`: deleting a post task removes its alias too, the key
  makes the same task id again, and `reserve_charge` returns the finished reservation, so the
  second run is free (`server.py:12958`).
* A post task that starts between the two parts of a cancellation is cancelled although
  running ones are refused with 409 (`server.py:12568`). Its points are released and its late
  result is discarded.
* A worker thread ends for good when the handler of its error raises, which it always does
  for a task deleted meanwhile (`server.py:744`).
* `NoDuplicateWork` of VideoCheckpoints: recovery says that "automatic retry was blocked to
  prevent duplicate paid work" (`server.py:2306`), but blocks only a submission without any
  provider task id. The id of an earlier segment hides the submission of a later one, and a
  stop between the registration of the id and the next checkpoint loses it.
* The digital human hands a resumed provider task to every segment it still has to make; a
  child inherits its parent's stale resume id; the recovery of a child replaces the segments
  it inherited by those of its own checkpoint; the late worker of a cancelled parent deletes
  files its child has inherited. `RightSegment` is therefore stated for the first short video
  of a chain only.

Social tasks and plans:

* `PostsPaid` with `Requests = {"stop_all"}`: stop-all passes rows without payload to
  `_release_task_billing_reservation`, so a post that was armed, and may go out, is refunded
  (`social_automation_api.py:8917`); the single cancellation charges it. Deleting the account
  passes the same kind of rows (`:7274`).
* `PaidSpec` with `"takeover"` in `Requests`: the recovery of a row in `need_manual` returns the
  points of a post that was submitted before the take-over (`:10332`). The recovery of an
  orphaned comment returns its points too (`:10412`).
* A batch is cancelled by signalling the control of its first item only (`:8683`), which is
  not registered when a later item was resumed; and a cancellation served by another process
  cannot stop a click. `QuietAfterCancel` says what is left.
* Shutdown marks a confirmation that was queued again, but is still registered, as failed with
  unknown outcome (`:11845`).
* The rest of a batch is reserved without a check of the daily limit (`:9985`). `LimitRespected`
  therefore assumes that tasks are no batches, and `FirstsLimited` counts the others only.
* Two retries of one failed post that was never submitted may both go out: `retry_social_task`
  (`:8953`) copies the row and does not look for other copies. `PostedOnce` speaks of a task and those it
  retries.
* `NoLostSlot` with `Requests = {"retry", "takeover"}`: a retry that only looks for its post has a slot
  although nothing was submitted for its own row; when its browser is taken over and the row ends,
  the slot stays. `SlotsConsistent` assumes that one of the two does not occur.
* A plain failure of an Instagram post after it was armed may be retried (`:14159`, `:8966`), so
  it may go out twice; `PostedOnce` says so. A comment whose check failed is sent again (`:14125`).
* Retrying a Threads post with its confirmation context charges a second time for the look at
  the profile; clearing a task under review leaves its points on hold.
* Rows in preparation that the sweep cancelled are taken as made by the next claimant, so its
  cycle fails; a materializer that lost its claim cancels the cycle of the new claimant
  (`:1758`). The check for conflicting plans and the INSERT are two transactions (`:1978`).

## 7. Plan

1. `QuietAfterCancel` for several processes and requests served by the process that runs the
   session.
2. *E-mail governance* (limits under concurrent sends), *remote fetch* jobs, the proxy pool.
