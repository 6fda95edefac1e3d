# TLA+ development for Meridian V2

Meridian V2 is a TypeScript process that opens, manages and closes liquidity
positions on Solana (Meteora DLMM pools). It decides from market data, but what
makes it hard is the write path: every deploy, close, claim and rebalance is a
stored *action* that goes through a queue, a chain whose answers may be lost, a
reconciler that runs beside the queue, and a process that may die between any
two writes to its files. This directory holds TLA+ models of that path, the TLC
runs that check them, and proofs checked by TLAPS.

Paths below are relative to the repository; source paths start with `src/`.

## 1. Inventory

| Component | State | Operations | Correct when | Modelled by |
|---|---|---|---|---|
| Lifecycles (`src/domain/stateMachines`) | none; two tables | `canTransition…`, `transition…` | every status write follows them | `Lifecycle` |
| Keyed lock (`src/infra/locks`) | map key → tail promise | `withLock`, `isLocked` | exclusive, first come first served, no entry dropped while in use | `KeyedLock`, `FifoLock` |
| Action queue and repository (`src/app/services/ActionQueue.ts`, `src/adapters/storage/ActionRepository.ts`) | `actions.json`, pause flag, two sets of locks | enqueue, claim, run, finalize, fail, requeue, pause, resume | one active write per wallet, one action per key, no lost update, no unexplained second submission, everything concluded | `ActionQueue`, `WriteLedger` |
| File store (`src/adapters/storage/FileStore.ts`) | a file with its `.tmp`, `.bak` and unique names | read, write, update, remove, recover | requests are atomic across failing calls and crashes | `FileStore`, `AtomicFile` |
| Deploy and close (`processDeployAction`, `processCloseAction`, `finalizeClose`, …) | action results, stored position | request, handle, confirm, time out, swap | the store says of the chain only what is so; effects happen once | `PositionFlow` |
| Reconciler and startup recovery (`reconcilePortfolio`, `runStartupRecoveryChecklist`) | none of its own; an in-memory pass | three passes over actions, interrupted actions, wallet snapshot | submitted actions are concluded, store and chain come together | `PositionFlow`, `ClaimFlow`, `ActionQueue` |
| Meteora gateway (`src/adapters/dlmm`) | caches of recent deploys and open positions | deploy, close, claim, get, list | answers are success, failure or ambiguity, and each is worth what its callers take it for | `MeteoraGateway`; its answers in the flows |
| Claim flow (`processClaimFeesAction`, `finalizeClaimFees`, …) | action results with their phases, stored position | request, handle, confirm, swap, redeploy, resume | each effect at most once and in order, the phase tells the truth, claim and position come to rest | `ClaimFlow` |
| Rebalance flow (`processRebalanceAction`, `finalizeRebalance`) | action results with their phases, two positions | close leg, redeploy leg, confirm, time out, resume | the capital moves once, to a successor the store can name; the outcome says where it is | `RebalanceFlow`, `Relocation` |
| Scheduler metadata (`src/infra/scheduler`) | a JSON file with a state per worker | tryStartRun, finishRun, recover | one run per worker at a time, none blocked without cause | `Runtime` |
| Runtime owner lock (`src/runtime/RuntimeOwnerLock.ts`) | `meridian.lock` | acquire, take over, heartbeat, release | one process per data directory, or not for long | `OwnerLock`, `Runtime` |
| Supervisor and live loop (`src/runtime`) | timers, flags, the last portfolio state | startup, ticks, auto-deploy | ticks go on; deploys stay within the limits | `Runtime`, `Cycles` |
| Management, risk and rebalance rules (`src/domain/rules`) | none | pure decisions | emergencies come first, limits hold | `ManagementRules`, `RiskRules`, `Cycles` |
| Operator commands, AI review of rebalances | stop flag, breaker snapshot | request, trip, clear, review | the same limits as for the timers | `Cycles` |
| Screening rules, learning, other gateways, configuration, simulation | own files or none | — | outside the write path | not modelled |

How they interact. Use cases (management, auto-deploy, an operator) store an
action under an idempotency key. Timers call the queue, which claims one action
per wallet, takes the wallet lock and then the position lock, and runs the
handler; the handler talks to the chain through the gateway and answers
`WAITING_CONFIRMATION` when something was or may have been submitted. A second
timer calls the reconciler, which asks the gateway what the chain shows and
finishes those actions. All of them read and write `actions.json` and
`positions.json` through the file store. After a crash, startup recovery turns
`RUNNING` actions into waiting ones.

Where it is hard. *Interleaving*: the queue and the reconciler are two tasks of
one event loop, and each `await` lets the other in; the reconciler is given no
locks by the runtime and makes its own; the management tick, the screening tick
and the operator decide on snapshots that are old when the request is stored.
*Two processes*: a lock file is all that separates them, and it can be taken
from a process that is only slow. *Partial failure*: nearly every
operation is two or three writes, each of which can throw, with catch blocks
that write again. *Crashes*: between submission and the first write, between
the writes, between the file store's renames. *Delivery*: an RPC error after a
submission says nothing about the transaction. *Stale copies*: records are
written back whole from copies taken before an `await`. `PROJECT.json` lists
these hazards line by line, with the properties aimed at each.

## 2. Plan

The modules were written from the inside of the write path outwards, and so
they read best: `Lifecycle`, `KeyedLock`, `ActionQueue`, `FileStore`, then the
flows `PositionFlow`, `ClaimFlow` and `RebalanceFlow`, each over the queue's
guarantees, then what surrounds them: `MeteoraGateway` below, `OwnerLock` and
`Runtime` around the process, `RiskRules`, `ManagementRules` and `Cycles` above,
where the requests come from. Each level uses what the one before it shows:
the flows let no handler run while an action waits because `ActionQueue` proves
one active write per wallet; `Cycles` lets an action end in the ways the flows
allow.

Every safety property of a passing run is stated by a theorem, the action
properties and the abstract specifications included. What would add most next:
abstract specifications of the safety part of `PositionFlow` and `ClaimFlow`,
as `RebalanceFlow` has one; proofs about the rules (`RiskRules`,
`ManagementRules`) by themselves; a second wallet in `Cycles`; the rate limiter
of `src/app/services/MeteoraDetailRateLimiter.ts`, which only screening uses.

The modules are written for both tools: parameters are CONSTANTS with named
assumptions, there is one action per step between two awaits, invariants are
conjunctions of named parts, and no module with a theorem reaches a RECURSIVE
operator.

## 3. Modules

**`Lifecycle`** has the two transition tables of
`src/domain/stateMachines` as relations, and the status sets the queue uses.
The other modules test their writes against it.

**`FifoLock` / `KeyedLock`**. `KeyedLock` follows the promise chain of
`withLock`: a call reads the tail of its key, replaces it by a promise that
settles after both its own work and that tail, waits, works, and deletes the
entry when it is still the tail. `Enter`, `Admit`, `Leave` and `Settle` are the
points where other calls can run; a rejected task leaves like one that
succeeds. `FifoLock` is the ticket lock it implements.

**`WriteLedger` / `ActionQueue`**. The variables are the stored status of each
action (`status`), the process (`booted`, `paused`, each worker's place in
`processNext`, its claimed action and its handler's answer, the queue of each
lock), and observers for submissions and faults. Repository calls are atomic
because `FileStore` serialises them; each await is a step. A handler may submit
and then returns one of its three statuses or throws. A failing write of the
outcome unwinds both locks and is followed by the requeue, which may fail as
well. `Crash` keeps only the store; `RecoverStale` and `Boot` are the startup
checklist. The locks' queues are those of `FifoLock`, so what is proved of
`KeyedLock` is what is used here. `Conclude` is the reconciler seen from the
queue; it may come or not. `WriteLedger` hides all this: keys are recorded once, a wallet has one
write in flight, nothing settled is taken up again.

**`AtomicFile` / `FileStore`**. One action per file-system call of `FileStore.ts`:
the repair of a directory a crash left behind, the three renames of a
replacement, the undo of a failed one, the three removals. Every call may fail
(`Fault`), the process may die between any two, and `access()` may fail on a
file that exists (`MaxBlind`). A request is served alone, which is what the
per-path lock gives. `AtomicFile` is what the repositories expect, with what
they cannot: a removal is best effort, an error after two failed calls leaves
the new contents in doubt, and after three a `.tmp` whose cleanups failed can
come back in place of what was written since.

**`PositionFlow`**. One position from its deploy to its close. Stores: action
statuses, the deploy's `positionId` and the closes' `submissionAmbiguous` from
the result payloads, and the stored position under its own id and under the
placeholder that startup recovery makes up. Chain: the position and each
transaction, which lands or expires in its own time. Process: one queue task
(`worker`), one reconciler task (`tick`), and the gateway's `recentDeploys`
(`known`). The steps of a handler or a finalizer are the stretches between two
awaits that something else can observe: a finalizer's reads are joined with its
first write because no handler can run while its action waits for confirmation
(the one active write per wallet, proved in `ActionQueueProofs`); the snapshot
pass consults no action, so its snapshot, its reads and its writes are steps of
their own. Writes of the use cases may fail, with every catch block modelled,
and so may the gateway's answer with which a close is finalized; the finalizer of a deploy
answers a failing read as it answers a failing first write, by throwing with
nothing stored, so that one action stands for both.

The third writer of a position is the management tick
(`src/app/usecases/runManagementCycle.ts:466`). It lists the records that are
`OPEN` (`ListManaged`) and, when the peak of one has grown, writes the whole
record back, status included, without lock and without reading it again
(`RefreshPeak`); otherwise it lets go of it (`LetGo`). `managed` is the record in
its hands; `reopened` remembers that the write replaced a `CLOSED` one. The same
three steps are in `ClaimFlow` and `RebalanceFlow`; what else the tick does is in
`Cycles`.

**`ClaimFlow`**. The claims of one open position, cut into steps like
`PositionFlow`. `mode` says what the request wants after the claim: nothing, a
swap (`autoSwap`), or a swap and a redeploy of its output (`autoCompound`).
`result` is what the handler stored of the claimed amount, `phase` the phase of
`autoSwap` or `autoCompound` in the payload, which the finalizer writes before
and after each effect and reads when it resumes. `counted`, `swaps` and
`redeploys` count the effects. The finalizer's steps are its writes: the
position, the action, then `runClaimPostProcessing`, then `OPEN` and `DONE`.
`handsLocksDown` is chosen once, from `Wirings`, between two callers of
`finalizeClaimFees` for a claim that is already `RECONCILING`:
`recoverReconcilingAction`, which holds the wallet's lock and passes that same
lock on (TRUE, the runtime: the call never returns), and a caller without locks,
such as the tests in `tests/unit/claimFlow.test.ts` (FALSE). What the phases are
for can be seen only in the second, so the run has both. The queue's write of
the outcome may fail after the claim was sent (`FinishFails`): the action goes
back to `RETRY_QUEUED` (`Requeue`), its handler runs again, refuses a position
that is `CLAIMING` and ends the action `FAILED`, and the position stays as it
is. `unreported` has such claims.

**`Relocation` / `RebalanceFlow`**. `processRebalanceAction` closes the old
position on the chain and stores the phase `CLOSE_SUBMITTED`; everything else,
the deploy of the successor included, is done by `finalizeRebalance` in the
reconciler's pass. Its writes are the steps: the close recorded, the intent
marker `REDEPLOY_SUBMITTING`, `deployLiquidity`, the result
`REDEPLOY_SUBMITTED` with the successor's id, the successor's record, the
verdict. A pass that finds one of these phases goes on from there; the intent
marker without a result is never followed by a second deploy but timed out.
`misreported` keeps the deploys for which the gateway threw a plain error
although something was under way (see `MeteoraGateway`): the flow then aborts
and nothing in the code can know better. Where the finalizer reads the gateway
the read may fail: in the close leg the catch block marks the old position and
ends the action `TIMED_OUT` (`CloseCaught`), elsewhere the pass ends with nothing
written (`ReadFails`). The management tick may write back the record of the old
position or of a successor. `Relocation` is what it implements:
the capital is released, then sent on once.

**`MeteoraGateway`**. An operation is a sequence of transactions (`call.todo`);
each is simulated, sent, and either confirmed or answered by an error whose
text decides: transient ones are signed anew and sent again, the ambiguous ones
become `AmbiguousSubmissionError`, others are thrown as they are. An attempt
whose answer was lost stays in `flight` and lands later or never. The readers
list the open positions through `openPositionsCache` and answer single
positions from `recentDeploys`. `src/adapters/dlmm/DlmmGateway.ts:23` promises
callers that any other error means that nothing was sent;
`PlainErrorMovedNothing` says exactly how far that is so, with `call.doubt`
marking an attempt that was given up for a retry or for a text outside the list.

**`OwnerLock` / `Runtime`**. `OwnerLock` has the lock file with one action per
system call of a start and of a heartbeat: a start that finds the file reads it,
removes it when its record is stale or does not parse, and creates it anew;
a heartbeat reads, compares, truncates and writes. `removedLive` remembers that
a start removed the file of a process that still lives. `Runtime` puts the
program around it: the recovery of `RUNNING` workers, the startup cycle, the
timers with their in-process flag, `tryStartRun` and `finishRun` on the shared
scheduler file, errors, shutdown and death.

**`RiskRules`, `ManagementRules`**. The pure rules as operators: the blocking
rules of `evaluatePortfolioRisk` with the breaker derived from the day's loss,
and the priority list of `evaluateManagementAction` with the validator of AI
decisions. Market data is abstracted to the facts that the list tells apart.

**`Cycles`**. Who asks for writes. Each requester (`req`) is a task with its
snapshot; between the snapshot and the request lie the calls the code makes.
The stores are positions, actions by idempotency key, the stop flag and the
breaker snapshot; the process keeps the last portfolio's breaker (`prev`) and
what it loaded at the start (`loaded`). Queue, handlers and finalizers are
`Start` and `Finish` with the outcomes of the flows, the reconciler is
`Reconcile`. An action is its key, because `enqueue` returns the stored action
for a key that was used before, whatever became of it.

## 4. Runs

| Run | Checks | Shows |
|---|---|---|
| `KeyedLock` | `MutualExclusion`, `LockedWhileBusy`, `ImplementsFifoLock` | four calls on two keys, in every order of entering, leaving and settling |
| `ActionQueue` | `OneActiveWritePerWallet`, `ClaimedActionIsUntouched`, `HandlersAreExclusive`, `FaultsAreContained`, `EveryActionIsConcluded`, `StatusesFollowTheLifecycle`, `ImplementsWriteLedger` | two queue runs over three actions of two wallets, two sharing a key; with fairness, an action is concluded unless one of its own wallet waits for ever for the reconciler or has lost its worker |
| `FileStore` | `ImplementsAtomicFile` | atomic requests under four failing calls and two crashes |
| `PositionFlow` | `TypeOK`, `DoneMeansDone`, `SwapAtMostOnce`, `ClosedIsFinal`, `SubmittedIsConcluded`, `StoreFollowsTheChain` | a deploy and two closes with two out of one failing call, one crash and one record written back |
| `ClaimFlow` | `EffectsInOrder`, `DoneTellsRedeploy`, `ReportedClaimIsConcluded`, `PositionFollowsTheChain` | a claim of each mode under both wirings, resumed after any two failing calls, crashes or records written back |
| `RebalanceFlow` | `TypeOK`, `SuccessorIsTraceable`, `OutcomeTellsWhereCapitalIs`, `MovesCapitalOnce`, `SubmittedIsConcluded` | two rebalances of one position with three out of two failing calls, one crash and one record written back |
| `MeteoraGateway` | `SuccessMeansDone`, `PlainErrorMovedNothing`, `ClosedIsNotServed` | a deploy and one more operation, each transaction with one retry, beside a reader |
| `Runtime` | `TypeOK`, `OneRunPerWorker`, `BlockedHasCause`, `SplitBrainEnds`, `EveryWorkerKeepsRunning` | two starts over what an earlier one left, with two pauses or failing calls |
| `Cycles` | `TypeOK`, `QuotaHoldsButForRaces`, `BreakerForgottenHasCause`, `WritesOverlapOnlyByRace`, `EmergencyCloses`, `GoneIsNoticed` | four requesters over two positions, an AI that may decide rebalances, losses, restarts, skipped ticks |

What the passing runs show beyond the names: several guarantees of this code
hold with an exception, and the property says which. Two processes can own the
directory at once, but only after one removed the lock file of another that
lives, and then one of them ends; `docs/REPO_SUMMARY.md:33`, by which the lock
prevents it, is right short of that case. The hourly quota can be overrun, but
only by deploys requested on a snapshot that another request had overtaken.
The breaker can be forgotten, but only for the three causes listed. An
emergency close that failed is never repeated under its key, so
`EmergencyCloses` excepts a position whose close is spent; and an action that
never ends keeps its wallet busy and every close of the wallet out, so it holds
only where no action runs for ever. A `CLOSED` record can become `OPEN` again
with nothing failing, but only by the management tick's write of a record that it
listed before (`ClosedIsFinal`; `DoneMeansDone` and `OutcomeTellsWhereCapitalIs`
except it as `reopened`); the snapshot pass finds and marks it
(`StoreFollowsTheChain`). `EveryActionIsConcluded` excepts the actions of a
wallet of which one waits for ever for a reconciler that does not conclude it
(`LeftToOthers`), and says that no other wallet is held up by it. The liveness of
`ClaimFlow` excepts the reconciler that waits for a lock of its own
(`StandsStill`: only in the runtime's wiring, and only after a failing call or a
crash), claims whose submission the queue could not store (`unreported`) and
claims that startup recovery found `RUNNING`.

Three runs end in a violation, each of a statement made in the repository:

- `PositionFlowRace` (`ConfirmedCloseIsNotTimedOut`). Nothing fails. The close
  has been submitted and confirmed by the gateway, the snapshot pass sees that
  the position is gone and marks it `RECONCILIATION_REQUIRED`, and the
  finalizer, which expects `CLOSING`, ends the action `TIMED_OUT`: no post-close
  swap, and the position is left marked. `progress/DEBT_AND_DECISIONS.md:449`
  says that a recoverable close must not be forced onto the missing-snapshot
  path; item N15 of that file (line 115) foresees the race for the day the
  reconciler runs periodically, which `src/runtime/runLive.ts:980` now does.
- `ClaimFlowStuck` (`ReconcilingClaimIsResumed`). One write of the finalizer
  fails and leaves the claim `RECONCILING`. The next tick's recovery takes the
  wallet's lock and calls `finalizeClaimFees`, which asks for the same lock; the
  lock is not reentrant (`src/infra/locks/KeyedLock.ts`), so neither returns,
  and every later call for the wallet queues behind them. Shown with the wiring
  of `src/app/usecases/reconcilePortfolio.ts:526`, although
  `progress/PROGRESS.md:710` counts the resumption of interrupted claims as
  done.
- `CyclesBreaker` (`BreakerShutsTheGates`). The loss limit was reached, the
  management tick holds the breaker, the day ends and with it the day's loss.
  The tick goes to `COOLDOWN`; the gates before an automatic deploy
  (`src/runtime/createRuntimeSupervisor.ts:819`) build a portfolio without the
  earlier state, see no breaker, and request. They test for `COOLDOWN` two
  statements later, where it can never be. `Meridian_V2_PRD_Greenfield.md:530`
  says that an active breaker refuses every new deploy.

Known limits, modelled and not counted as findings. The recovery of `FileStore`
acts on `exists()`, which takes every error of `access()` for absence;
`RecoveryOnlyWhenMissing` fails with one such error (`MaxBlind = 1`), and the
run assumes that `access()` tells the truth. A crash between a deploy's
transaction and its first store write leaves a position on the chain that no
pass looks for (`PositionFlow`; the deploy is not reported done). A simple swap
after a claim whose amount is unavailable is passed over and its phase stays
`PENDING_SWAP` (`ClaimFlow`). A claim that startup recovery found `RUNNING` is
never finalized, because the result it makes up has no `reason`. A claim that
the queue requeued after it was sent ends `FAILED` and leaves its position
`CLAIMING` (`src/app/usecases/processClaimFeesAction.ts:195`,
`src/app/services/ActionQueue.ts:145`). A management tick that is overtaken by a
close makes the `CLOSED` position `OPEN` until the next snapshot pass
(`src/app/usecases/runManagementCycle.ts:482`). A rebalance
that crashed between the redeploy's result and the successor's record, and whose
successor is closed elsewhere before the next pass, is never concluded:
`finalizeRebalance` throws each time (`SubmittedIsConcluded` excepts it as
`Vanished`).

**Bounds.** All are CONSTANTS or sets given in the `.cfg` files. Three actions
with two wallets and a shared key are the fewest with both a conflict and
independence; two workers, because every race in the queue is between two
(the live timers start one run at a time, `runLive.ts:957`, but the supervisor's
`runActionQueueTick` and the class itself take concurrent callers, which is what
its locks and the atomic claim are for; the proofs hold for any number);
two faults in the flows, because the failure of a write and of its compensation
is the longest chain the code handles, and four in the file store, where the
third one has an effect of its own; one crash of the queue, since recovery only
reads statuses and a second one finds the same states, but two of the file
store, where the second can hit the repair of the first. Three file contents
tell old, new and stale apart. Two closes let a second one be requested while
traces of the first remain. One claim is enough for `ClaimFlow`: a second is
taken only when no write is active, its handler goes on only if the position is
`OPEN` (or in management) again, and its effects are counted by itself; the
proofs hold for any number. Two failing calls, two crashes or one of each let a
resumed claim be interrupted again, which is where an effect could be repeated.
`MaxEvents` bounds the failing calls, the crashes and the records written back
(`MaxPeaks`) of one behaviour together: two in `PositionFlow` and `ClaimFlow`,
any two of them in any order, and three in `RebalanceFlow`, one of each kind or
both failing calls with another. It is an assumption of the runs alone; the
proofs hold for any bounds. `submissions` and `swaps` are unbounded in the type
and bounded by the faults.

Two rebalances let a second one find what a failed first one left. In
`MeteoraGateway` a deploy and one more operation are enough because nothing but
the position and the two caches outlives a call; one retry has both outcomes,
sent again and given up. In `Runtime` a third start would find what the
second finds; a single worker stands for each, since a worker's state is written
under its own name, and it is the one with the extra way to skip. The proofs
hold for any number of each. In `Cycles` two positions share a pool and a
token; the limits are two positions and one deploy an hour, so that the quota
is what binds and the second position can be the one too many. `Scenarios` says
which of the rare events (a finding of the rules, a command, a loss, a restart,
a tick that is skipped, ...) happen in one behaviour, each once: the pairs whose
combination the properties are about, because all of them together are out of
reach. Events of one scenario happen in any order and at any step. A candidate
with another payload counts as another candidate. The five reads of
`buildPortfolioState` are one step: they are started together, and what could
change between them is what can change right after them. One AI mode is
checked, the one that lets it decide; `DryRun` is off, which only removes
requests.

Deadlock checking is off where a run may end with nothing left to do (all
calls made, all actions concluded, both processes ended); it is on for
`FileStore`, where a new request is always possible, and for `Cycles`, whose
timers never stop. Symmetry is used over workers and file contents,
never in a run with a liveness property.

**Fairness.** Weak fairness of each worker's step, of the reconciler's steps
and of booting: I/O settles, `src/runtime/runLive.ts` calls both tasks from
timers for as long as it runs, and a process that died is started again. The
chain's part is that a transaction lands or expires. No fairness is assumed of
requests, faults, crashes, pauses or resumes, nor of the management tick:
`EveryActionIsConcluded` holds only where the operator leaves the queue running.
Nothing is assumed of `Conclude` in `ActionQueue` either: what the reconciler
leaves for ever is an exception of the property. That it concludes what
was submitted is `SubmittedIsConcluded` of `PositionFlow` for deploys and closes,
that of `RebalanceFlow` for rebalances, which excepts `Vanished`, and
`ReportedClaimIsConcluded` of `ClaimFlow` for claims, which excepts the runtime's
wiring once a call has failed. An action is submitted once, so that
`SubmittedIsConcluded` can say it of all actions together: again and again none
is waiting. `ClaimFlow` also assumes that the gateway's cache
of recent deploys expires (`Forget`; `pruneEphemeralCaches` drops an entry by its
age). Its liveness properties leave out claims that startup recovery found
`RUNNING`: the result it makes up has no `reason`, the schema demands one, and
`finalizeClaimFees` throws on every tick (hazards,
`runStartupRecoveryChecklist.ts`). `RebalanceFlow` is fair like `PositionFlow`.

In `Runtime` the steps of a process that has begun are weakly fair; nothing makes
an operator start one, and nothing makes it pause, fail or die. `SplitBrainEnds`
assumes in its statement that heartbeats are not always under way, which ten
seconds between two of them give. `EveryWorkerKeepsRunning` excepts a worker
blocked as in `BlockedHasCause`. In `Cycles` each step of the management tick
is weakly fair, and `Judge` strongly: the snapshot it needs may fail, but not
for ever. Starting actions and the reconciler are weakly fair. Finishing them is
not, because a claim may never end; that every action ends is the condition of
`EmergencyCloses`. Screening, operator and events are
given none.

Every property of a passing run has a mutant: a form of a modelled definition
that a plausible mistake would produce (kept in the module, marked `Mutant:`),
under which TLC finds the property violated.

## 5. Proofs

`StoreProofs` is about what the stores rest on, the lock of a path and the
renames of its file. For any finite or infinite sets of calls and keys
`ChainInv` is inductive: tails belong to their keys, each call awaits its
predecessor, a settled tail vouches for every earlier call, and calls are
served in order. `LockIsExclusive`, `LockIsVisible` and the refinement
`ChainRefinesFifo` (the safety part of `ImplementsFifoLock`; that waiting ends
is checked by TLC) follow from it. Exclusion alone is not inductive: nothing in
it says that a settled promise means that the *whole* chain before it is done.

Its second part proves, for any contents, failing calls and crashes, that the
renames implement the atomic file (`FileIsAtomic`, the whole of
`ImplementsAtomicFile`). The hypothesis is `MaxBlind = 0`: `access()` tells the
truth, without which it is false (section 4). `FileInv` says at every call
where the old contents are: in what the directory stands for during the repair
(`Repaired`), in the file or under `.bak` during a replacement (`Replaced`), and
in one of the two in the catch block unless the new contents are under `.tmp`
(`Undone`). The bookkeeping that makes it inductive is `StaleTmp`: a `.tmp`
beside the file costs two failed calls, and one that survives the next
recovery's cleanup a third. `RecoveryKeepsTheFile` proves
`RecoveryOnlyWhenMissing` under the same hypothesis.

`ActionQueueProofs` proves, for any number of actions, wallets, positions,
workers, faults and crashes, the invariant `Inv`: the type invariant; the lock
queues contain exactly the workers whose stage says so, once each, with the
active one at the head (`LinesMatchStages`); a claimed action is `RUNNING` and
has one worker; a wallet has one active write; a key has one action. The first
half is needed because release is `Tail`, which is right only if the releasing
worker is at the head; the middle one because the outcome is written from the
copy taken at the claim, so the transition that is legal for `RUNNING` must be
applied to a record that still is. Proofs go action by action, with a lemma
for each group of steps. From `Inv` follow `TypeIsCorrect`,
`WalletHasOneActiveWrite`, `KeyHasOneAction`, `ClaimIsExclusive`,
`HandlersExclude`, the action property `LifecycleIsFollowed`, and the
refinement `QueueImplementsLedger`. `FaultsContained` needs an accounting on top
of it (`Counted`): whoever may still send a transaction for an action has sent
no more than writes have failed, and a `RUNNING` action has its worker unless
two writes failed or the process was restarted. The assumptions are the named ASSUMEs of
the modules: ids are naturals, the fields of an action have their types, and
the marks for "none" are no members of the sets.

`ClaimFlowProofs` proves, for any number of claims, faults and crashes and for
both wirings, that `Inv` is inductive: `OneSwapPerClaim`,
`SwapsFollowLandedClaims`, `OneRedeployAfterSwap`, `AmountCountedOnce` and
`ClaimTypes` follow from it. None of them is inductive alone. What holds the
argument together is that a stored phase tells how far the effects went
(`PhaseIsTrue`), that the swap step is reached only from a stored marker and
before any swap (`SwapStep`), that a stored amount vouches for the transaction
(`ResultIsTrue`), that each task owns the action it works on (`WorkerOwns`,
`TickOwns`, with one active write per wallet), and that nothing has happened to a
claim nobody submitted (`EarlyIsClean`). For the fees, `CountedOnce` says that a
counted claim never finds the position `CLAIMING` again: no other handler can
store that status while a claim waits. The proof has a lemma for the types and
one for the rest of `Inv` for each group of steps: the handler, the steps
around the two tasks, the reconciler's looks, its verdicts, and what follows a
claim.

`ClaimEffectsInOrder` is the conjunction the run checks. `DoneTellsTheRedeploy`
adds `RedeployKnown`: an enqueued redeploy is recorded in the phase, or the turn
that enqueued it has yet to record it, or a later turn will find it under its
key, unless two calls or processes have failed.

`PositionFlowProofs` proves, for any number of closes, faults and crashes,
`TypeCorrect`, `DoneIsDone`, `SwappedAtMostOnce` and the action property
`ClosedForGood`, with the management tick among the steps. The queue task and the reconciler read in one step and write in
another, so the invariant says of each step what still holds of what was read:
one action is active (`OneActive`), the queue task writes a position only while
it is not `CLOSED` (`Working`), each step of the reconciler has an action in the
status that led there and a snapshot that never writes over a `CLOSED` position
(`Ticking`), a position is reported or closed only once it has been on the chain
(`Existed`, `Fresh`, `Addressed`), and what a finished action, or the step about
to finish it, has established (`Concluded`, `Swapping`). A record in the
management tick's hands (`managed`) was `OPEN` when it was listed, so the position
has been on the chain; the write-back is the one step after which a `DONE` close
may have an `OPEN` record, and it sets `reopened`. The four promises are
consequences of it; none is inductive, because the write that breaks one was
decided some steps earlier. The assumptions are that the deploy is not a close
and the mark for "none" neither.

`MeteoraGatewayProofs` proves, for any number of calls and attempts, wide and
narrow deploys, `TypeCorrect`, `SuccessIsDone`, `PlainErrorsMovedNothing` and
`ClosedNotServed`. Here the difficulty is that attempts of calls that have ended
still land. `StepsMatch` fits the transactions left to the step; `NoDoubt` says
that as long as no attempt of the call was given up at most one is under way and
no transaction ahead has taken effect; `Deploying`, `OnlyClaims` and `Closing`
say what the landed transactions have made of the position, with
deploys and closes apart; and `ReadersAreTold` that a listing begun before the
close ended is known to be overtaken.

`RebalanceFlowProofs` proves, for any number of rebalances, faults and crashes,
`RebalanceTypes`, `SuccessorsAreTraceable`, `OutcomesTellWhereCapitalIs` and the
refinement `CapitalMovesOnce`. The inductive invariant is `TypeOK` with: who
works on which action at each step (`Turns`), which statuses go with which
phase (`PhaseFits`), what the close's transaction and the chain say together
(`CloseFits`), what the old position's record may be (`RecordFits`), what a
deploy that was sent leaves in the action (`DeployFits`), and what a verdict
implies (`OutcomeFits`). The promises are not inductive alone: that no second
deploy is sent rests on the intent marker being stored before the first one and,
since the record of the old position may be written back as `OPEN`, on the settled
amounts, which only the rebalance whose own close landed has.

`RuntimeProofs` proves, for any number of starts, workers and slips,
`RuntimeTypes`, `WorkersRunOnce` and `BlockedWorkersHaveCause`. What makes them
inductive is that until `removedLive` at most one process is past the creation
of the file and the file is its own (`LockIsExclusive`), that only such a
process runs workers (`RunsAreOwned`), and that a `RUNNING` worker is held by a
run unless a write was lost (`RunningIsHeld`).

`CyclesProofs` proves, for any positions, limits, facts, review mode, number of
automatic deploys and combination of events, dry run or not, `TypeCorrect`,
`QuotaKept`, `BreakerRemembered` and the action property `OverlapsAreRaces`. The
assumptions are the ASSUMEs of `Cycles` and `RiskRules`: the positions are
listed once each, the policy's limits are numbers. The argument is about
snapshots that grow old. `Evolved` says how any step may change the stores:
nothing stored is forgotten, what has ended has ended, a deploy counted in the
hour is a new action. It follows that what a snapshot counted still bounds what
counts of it (`Counts`) and that only what it showed live can be live of what
it knew (`Grounded`), however many steps lie between snapshot and request;
`RequestsFit` is that, for each requester at the step where it matters. The
rules then refuse a request unless the snapshot showed nothing live and a count
below the limit, so what exceeds either was stored after the snapshot, which is
what `raced` records. Even the types need a part of it: a review is of a
position of the tick's list (`ReviewsPosition`). For the breaker, `BreakerInv`
says where the last report is kept while the tick is at rest (`Remembered`),
and that a tick under way carries it (`Underway`).

Only model-checked: all liveness, with the fair part of `ImplementsFifoLock`,
and the three statements of the repository that runs refute. Liveness under
fairness and ENABLED are outside the prover's reach and stay with TLC, as do
induction over data and RECURSIVE operators.

## 6. Not modelled

Amounts, prices and accounting; a claim without a swap gateway or without a
queue to redeploy through; the journal and the learning hooks, which are
best effort and behind the status writes; formatting and parsing of payloads,
except for the fields named above; the loss of power and `fsync`; a failing write
of the outcome in the `Finish` of `PositionFlow` and `RebalanceFlow` (in
`ActionQueue` and `ClaimFlow` it may fail), so that no deploy is submitted twice by
the requeue, which would need a second position; a listing of the snapshot pass
that fails, which ends the pass with nothing written; of the management tick all
but its write-back in the flows, which have one position each (its rules and
requests are in `Cycles`); a snapshot whose five reads see different
moments. How screening makes its shortlist (scores, filters, enrichment budget
and the rate limit of detail requests), the rebalance planner's arithmetic and
the AI's reviews of candidates are choices here: any shortlist, any plan, any
order. Whole components not modelled are listed in `PROJECT.json` with the
reason.
