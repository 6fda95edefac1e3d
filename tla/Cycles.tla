------------------------------- MODULE Cycles -------------------------------
(***************************************************************************)
(* Who asks for writes: the management tick, the screening tick with its   *)
(* automatic deploys, the operator's commands and the deploy that compounds*)
(* a claim.  They run interleaved in one process, each decides on a        *)
(* snapshot of the stores, and between the snapshot and the request lie    *)
(* calls of gateways, simulations and AI reviews.                          *)
(*                                                                         *)
(* What the queue, the handlers and the finalizers do with a request is    *)
(* the subject of PositionFlow, ClaimFlow and RebalanceFlow; here an       *)
(* action is queued, executed and concluded.  Every position holds one     *)
(* unit of the wallet.                                                     *)
(***************************************************************************)
EXTENDS RiskRules, ManagementRules, Sequences, Functions

CONSTANTS
  Order,         \* the positions, in the order of their ids
  PoolOf, TokensOf,
  Funds,         \* the value of the wallet, its positions included
  Facts,         \* the sets of facts an evaluation may find
  Ai,            \* aiRebalanceMode, or "off"
  DryRun,
  MaxAutoDeploysPerCycle,
  None,
  Scenarios      \* bound: which events may happen together, each once

Positions == {Order[i] : i \in DOMAIN Order}

Events == {"fact", "command", "trip", "loss", "restart", "skip", "depart",
           "rise", "hour", "unsaved"}

ASSUME ScenariosAreEvents == Scenarios \subseteq SUBSET Events
ASSUME NothingToFind == {{}, {"incomplete"}} \subseteq Facts
ASSUME OrderNamesEachPosition ==
  Order \in Seq(Positions) /\ IsInjective(Order)
ASSUME PositionsHaveMarkets ==
  /\ PoolOf \in [Positions -> Pools]
  /\ TokensOf \in [Positions -> SUBSET Tokens]

(* An action is its idempotency key: what it does, to which position, why. *)
Reasons == {"emergency", "hardExit", "trailing", "feeless", "aiExit", "operator"}

Key(type, p, reason) == <<type, p, reason>>

Deploy(p) == Key("DEPLOY", p, "payload")
Claim(p, reason) == Key("CLAIM_FEES", p, reason)
Rebalance(p) == Key("REBALANCE", p, "payload")

Deploys == {Deploy(p) : p \in Positions}
Claims == {Claim(p, r) : p \in Positions, r \in {"threshold", "claimOnly"}}
Keys == Deploys \cup Claims \cup {Rebalance(p) : p \in Positions}
        \cup {Key("CLOSE", p, r) : p \in Positions, r \in Reasons}

Requesters == {"management", "screening", "operator", "compound"}
Steps == {"idle", "next", "review", "check", "request", "shortlist",
          "loop", "asked"}
Hints == {"none", "OFF", "ON", "COOLDOWN"}

VARIABLES
  (* the stores *)
  position,   \* "none", "OPEN", "BUSY" (an action works on it), "MARKED"
              \* (RECONCILIATION_REQUIRED) or "CLOSED"
  rising,     \* positions whose stored profit is above their stored peak
  action,     \* the stored actions by key
  stop,       \* stopAllDeploys
  saved,      \* the persisted circuit breaker snapshot
  (* outside *)
  onChain,    \* positions that exist on the chain
  loss,       \* the journal's loss of the day reaches the limit
  recent,     \* deploys requested in the last hour
  (* the process *)
  prev,       \* previousPortfolioState's breaker
  loaded,     \* persistedCircuitBreakerSnapshot; "unread" is undefined
  req,        \* the requesters
  (* observers *)
  raced,      \* deploys stored after an action their snapshot did not show
  owed,       \* the breaker the last tick reported, whatever the process has
              \* kept of it
  forgot,     \* something has happened since that loses it
  events

stores == <<position, rising, action, stop, saved>>
outside == <<onChain, loss, recent>>
process == <<prev, loaded, req>>
observers == <<raced, owed, forgot>>
vars == <<stores, outside, process, observers, events>>

---------------------------------------------------------------------------
(* Snapshots *)

Live == {k \in Keys : action[k] \in {"QUEUED", "RUNNING"}}
Stored == {k \in Keys : action[k] # "none"}
Active == {p \in Positions : position[p] \in {"OPEN", "BUSY", "MARKED"}}

\* countRecentNewDeploys: what failed does not count.
RecentDeploys == {k \in recent : action[k] # "FAILED"}

\* A mutant of Lifecycle: no cooldown.
LifecycleAtOnce(hint) == IF loss THEN "ON" ELSE "OFF"

\* resolveCircuitBreakerLifecycle.  A cooldown that has elapsed is a hint OFF.
Lifecycle(hint) ==
  IF loss THEN "ON"
  ELSE IF hint \in {"ON", "COOLDOWN"} THEN "COOLDOWN"
  ELSE "OFF"

NoSnap == [active |-> {}, live |-> {}, known |-> {}, recent |-> 0,
           loss |-> FALSE, breaker |-> "none", spare |-> 0]

\* buildPortfolioState and the count of deploys, with the breaker's hint.
\* "known" is for the properties: what was stored when the snapshot was taken.
Snap(hint) ==
  [active |-> Active, live |-> Live, known |-> Stored,
   recent |-> Cardinality(RecentDeploys), loss |-> loss,
   breaker |-> Lifecycle(hint), spare |-> 0]

\* A dry run counts its deploys only against the hour's limit.
Extra(s) == IF DryRun THEN 0 ELSE s.spare

\* A mutant of Pending: only this cycle's deploys.
PendingUnseen(s) == AtLeast(Extra(s), 0)

Pending(s) == AtLeast(Cardinality(s.live) + Extra(s), 0)

\* The portfolio in the terms of the risk rules.  "spare" are the deploys a
\* screening tick has made since, or minus one for the claim that asks.
Portfolio(s) ==
  LET value == Cardinality(s.active)
      idle == AtLeast(Funds - value, 0)
      reserved == AtMost(idle, Policy.minReserve)
  IN [equity |-> idle + value, reserved |-> reserved,
      available |-> AtLeast(idle - reserved, 0),
      open |-> value + AtLeast(Extra(s), 0),
      pending |-> Pending(s),
      loss |-> IF s.loss THEN idle + value ELSE 0, solPrice |-> 1,
      breaker |-> s.breaker,
      byPool |-> [pool \in Pools |->
                    Cardinality({p \in s.active : PoolOf[p] = pool})],
      byToken |-> [t \in Tokens |->
                     Cardinality({p \in s.active : t \in TokensOf[p]})]]

DeployRequest(p, s) ==
  [type |-> "DEPLOY", amount |-> 1, released |-> 0, pool |-> PoolOf[p],
   tokens |-> TokensOf[p], fromPools |-> {}, fromTokens |-> {},
   rebalances |-> 0, recent |-> s.recent + AtLeast(s.spare, 0)]

RebalanceRequest(p) ==
  [type |-> "REBALANCE", amount |-> 1, released |-> 1, pool |-> PoolOf[p],
   tokens |-> TokensOf[p], fromPools |-> {PoolOf[p]},
   fromTokens |-> TokensOf[p], rebalances |-> 0, recent |-> 0]

CloseRequest ==
  [type |-> "CLOSE", amount |-> 0, released |-> 0, pool |-> NoPool,
   tokens |-> {}, fromPools |-> {}, fromTokens |-> {}, rebalances |-> 0,
   recent |-> 0]

---------------------------------------------------------------------------
(* Requests *)

Idle == [step |-> "idle", todo |-> {}, rose |-> {}, key |-> None,
         snap |-> NoSnap, hint |-> "none"]

\* enqueue: an action with the same key, whatever became of it, is returned
\* in place of a new one.
Enqueue(k, s) ==
  /\ action' = [action EXCEPT ![k] = IF @ = "none" THEN "QUEUED" ELSE @]
  /\ IF k \in Deploys /\ action[k] = "none"
       THEN /\ recent' = recent \cup {k}
            /\ raced' = IF Stored \subseteq s.known THEN raced ELSE raced \cup {k}
       ELSE UNCHANGED <<recent, raced>>

\* requestDeploy: the flag as it is now, the rules on the caller's snapshot.
MayDeploy(p, s) ==
  ~stop /\ RiskAllows(Portfolio(s), DeployRequest(p, s))

\* requestRebalance: position and flag as they are now, the rules likewise.
MayRebalance(p, s) ==
  /\ position[p] = "OPEN"
  /\ ~stop
  /\ RiskAllows(Portfolio(s), RebalanceRequest(p))

\* What the request checks when it is made.
Requestable(k, s) ==
  CASE k[1] = "DEPLOY" -> MayDeploy(k[2], s)
    [] k[1] = "REBALANCE" -> MayRebalance(k[2], s)
    [] OTHER -> position[k[2]] = "OPEN"

\* One of the bounded events.
Event(kind) ==
  /\ kind \notin events
  /\ events' = events \cup {kind}
  /\ \E scenario \in Scenarios : events' \subseteq scenario

At(r, step) == req[r].step = step
Goto(r, state) == req' = [req EXCEPT ![r] = state]
Leave(r) == Goto(r, Idle)

\* A request that is refused throws.
Ask(r, k, s, accepted) ==
  IF Requestable(k, s)
    THEN Enqueue(k, s) /\ Goto(r, accepted)
    ELSE Leave(r) /\ UNCHANGED <<action, recent, raced>>

---------------------------------------------------------------------------
(* The management tick *)

Tick == req["management"]

\* A mutant of NewPeaks: the peak is written without comparing.
AllPeaks(listed) == listed

\* maybeRefreshPeakPnl.
NewPeaks(listed) == listed \cap rising

\* A mutant of Hint: what was persisted is used before it is read.
HintUnread(stored) == IF prev # "none" THEN prev ELSE loaded

Hint(stored) == IF prev # "none" THEN prev ELSE stored

\* The positions are listed once; the breaker's hint is the process's, or
\* what was persisted before the restart.
BeginManagement ==
  LET listed == {p \in Positions : position[p] = "OPEN"} IN
  /\ At("management", "idle")
  /\ loaded' = IF loaded = "unread" THEN saved ELSE loaded
  /\ Goto("management",
          [Idle EXCEPT !.step = "next", !.todo = listed,
                       !.rose = NewPeaks(listed),
                       !.hint = Hint(loaded')])
  /\ UNCHANGED <<stores, outside, prev, observers, events>>

\* Of a snapshot that is no longer used the breaker is kept.
Summary(s) == [NoSnap EXCEPT !.breaker = s.breaker]

FirstOf(todo) == Order[CHOOSE i \in DOMAIN Order :
                         /\ Order[i] \in todo
                         /\ \A j \in 1..(i - 1) : Order[j] \notin todo]

Current == FirstOf(Tick.todo)

\* On to the next position.
Pass(tick) == [tick EXCEPT !.step = "next", !.todo = @ \ {Current}, !.key = None,
                           !.snap = Summary(@)]
Skip == Pass(Tick)

\* A new peak is written into the record that was listed, status and all.
RefreshPeak ==
  /\ At("management", "next")
  /\ Tick.todo # {}
  /\ Current \in Tick.rose
  /\ position' = [position EXCEPT ![Current] = "OPEN"]
  /\ rising' = rising \ {Current}
  /\ Goto("management", [Tick EXCEPT !.rose = @ \ {Current}])
  /\ UNCHANGED <<action, stop, saved, outside, prev, loaded, raced, owed,
                 forgot, events>>

\* The position's peak is settled, and the snapshot comes next.
Judging == At("management", "next") /\ Tick.todo # {} /\ Current \notin Tick.rose

\* A close or a claim by the rules: next, is anything under way?
Act(tick, type, reason) ==
  IF DryRun THEN Pass(tick)
  ELSE [tick EXCEPT !.step = "check", !.key = Key(type, Current, reason)]

\* What the tick does with a decision.  A partial close has no handler.
AfterDecision(d, s) ==
  LET judged == [Tick EXCEPT !.snap = Summary(s), !.hint = s.breaker] IN
  CASE d.type \in {"CLOSE", "CLAIM_FEES"} -> Act(judged, d.type, d.reason)
    [] d.type = "REBALANCE" ->
         [judged EXCEPT !.step = "review", !.key = Rebalance(Current), !.snap = s]
    [] OTHER -> Pass(judged)

\* The snapshot, the signals (incomplete ones when the provider fails) and
\* the evaluation.
Judge(p) ==
  /\ Judging
  /\ p = Current
  /\ \E facts \in Facts :
       LET s == Snap(Tick.hint) IN
       /\ Goto("management", AfterDecision(Evaluate(facts, s.breaker), s))
       /\ IF facts \in {{}, {"incomplete"}} THEN UNCHANGED events
                                           ELSE Event("fact")
  /\ UNCHANGED <<stores, outside, prev, loaded, observers>>

\* A balance or a price that is old makes buildPortfolioState throw, and with
\* it the tick.
JudgeFails ==
  /\ Judging
  /\ Leave("management")
  /\ UNCHANGED <<stores, outside, prev, loaded, observers, events>>

\* findActiveWriteActionForPosition, which looks at the whole wallet.
ActiveWrite == Live # {}

CheckActive ==
  /\ At("management", "check")
  /\ Goto("management",
          IF ActiveWrite THEN Skip
          ELSE [Tick EXCEPT !.step = "request", !.snap.live = Live,
                            !.snap.known = Stored])
  /\ UNCHANGED <<stores, outside, prev, loaded, observers, events>>

\* The close and the redeploy are simulated when an AI has decided.
SimulationsAllow(decision, flaws) ==
  (Ai # "off" /\ decision = "rebalance_same_pool")
    => DecisionAllowed(decision, flaws, TRUE)

\* The flag as it is now, the rules on the snapshot that was judged.
Permitted ==
  ~stop /\ RiskAllows(Portfolio(Tick.snap), RebalanceRequest(Current)) /\ ~DryRun

ClaimOnly == Act(Tick, "CLAIM_FEES", "claimOnly")
Exit == Act(Tick, "CLOSE", "aiExit")

\* The AI's review, the planner, the drift of the active bin, the simulations,
\* the flag and the rules.
AfterReview(review) ==
  LET allowed == DecisionAllowed(review.decision, review.flaws, FALSE)
      decision == IF allowed THEN review.decision ELSE "hold"
      binding == Ai = "constrained_action"
  IN CASE Ai = "dry_run" -> Skip
       [] binding /\ decision = "hold" -> Skip
       [] binding /\ decision = "claim_only" -> ClaimOnly
       [] binding /\ decision = "exit" -> Exit
       [] OTHER -> IF SimulationsAllow(decision, review.flaws) /\ Permitted
                     THEN [Tick EXCEPT !.step = "request"] ELSE Skip

ReviewRebalance ==
  /\ At("management", "review")
  /\ \E review \in Reviews : Goto("management", AfterReview(review))
  /\ UNCHANGED <<stores, outside, prev, loaded, observers, events>>

\* No planner, no plan, or a bin that has drifted since the review.
PlanMissing ==
  /\ At("management", "review")
  /\ Goto("management", Skip)
  /\ UNCHANGED <<stores, outside, prev, loaded, observers, events>>

RequestManaged ==
  /\ At("management", "request")
  /\ Ask("management", Tick.key, Tick.snap, Skip)
  /\ UNCHANGED <<position, rising, stop, saved, onChain, loss, prev, loaded,
                 owed, forgot, events>>

\* setCircuitBreakerSnapshot.  It may fail, and only the log says so.
Persist(breaker) ==
  \/ /\ saved' = IF breaker = "none" THEN saved ELSE breaker
     /\ UNCHANGED events
  \/ /\ breaker \notin {"none", saved}
     /\ Event("unsaved")
     /\ UNCHANGED saved

\* The last snapshot becomes the process's; without one it keeps what it had.
EndManagement ==
  LET seen == Tick.snap.breaker # "none"
      next == IF seen THEN Tick.snap.breaker ELSE prev
  IN /\ At("management", "next")
     /\ Tick.todo = {}
     /\ prev' = next
     /\ loaded' = "none"
     /\ Persist(next)
     /\ owed' = IF seen THEN next ELSE owed
     /\ forgot' = IF seen THEN FALSE ELSE forgot \/ next = "none"
     /\ Leave("management")
     /\ UNCHANGED <<position, rising, action, stop, outside, raced>>

\* The worker is still marked RUNNING: there is no result, and no state.
SkippedTick ==
  /\ Event("skip")
  /\ At("management", "idle")
  /\ prev' = "none"
  /\ loaded' = "none"
  /\ forgot' = TRUE
  /\ UNCHANGED <<stores, outside, req, raced, owed>>

Management ==
  \/ BeginManagement \/ RefreshPeak \/ (\E p \in Positions : Judge(p))
  \/ JudgeFails \/ CheckActive \/ ReviewRebalance \/ PlanMissing
  \/ RequestManaged \/ EndManagement \/ SkippedTick

---------------------------------------------------------------------------
(* The screening tick *)

Scan == req["screening"]

\* evaluateScreeningCapacitySkip, then the worker.  The shortlist is every
\* candidate; which of them come to nothing is RejectCandidate's choice.
BeginScreening ==
  LET shortlist == {p \in Positions : position[p] = "none"} IN
  /\ At("screening", "idle")
  /\ Cardinality(Active) + Cardinality(Live \cap Deploys)
       < Policy.maxConcurrentPositions
  /\ Cardinality(RecentDeploys) < Policy.maxNewDeploysPerHour
  /\ shortlist # {}
  /\ Goto("screening", [Idle EXCEPT !.step = "shortlist", !.todo = shortlist])
  /\ UNCHANGED <<stores, outside, prev, loaded, observers, events>>

\* The gates before the reviews.  No earlier state is given to the snapshot.
OpenForDeploys(s) ==
  /\ ~stop
  /\ s.breaker \notin {"ON", "COOLDOWN"}
  /\ Cardinality(s.active) < Policy.maxConcurrentPositions
  /\ s.live = {}
  /\ s.recent < Policy.maxNewDeploysPerHour

\* The price, and of the shortlist what is paired with SOL; pool and tokens are
\* looked up again, and a candidate for which that fails is kept.
SolPairs(shortlist) == SUBSET shortlist

ScreenShortlist ==
  LET s == Snap("none") IN
  /\ At("screening", "shortlist")
  /\ \E pairs \in SolPairs(Scan.todo) :
       IF OpenForDeploys(s) /\ pairs # {}
         THEN Goto("screening", [Scan EXCEPT !.step = "loop", !.todo = pairs,
                                             !.snap = s])
         ELSE Leave("screening")
  /\ UNCHANGED <<stores, outside, prev, loaded, observers, events>>

\* orderCandidatesByAiStrategyConfidence: without a review the score orders
\* them, so any candidate may be the next.
NextCandidates == Scan.todo

\* One candidate: the rules and the balance, with the deploys of this cycle
\* counted in, then the request.
AutoDeploy(p) ==
  LET rest == [Scan EXCEPT !.todo = @ \ {p}]
      one == [rest EXCEPT !.snap.spare = @ + 1,
                          !.snap.known = @ \cup {Deploy(p)}]
      offered == /\ RiskAllows(Portfolio(Scan.snap), DeployRequest(p, Scan.snap))
                 /\ Portfolio(Scan.snap).available >= 1
      requested == offered /\ ~DryRun /\ MayDeploy(p, Scan.snap)
  IN /\ At("screening", "loop")
     /\ p \in NextCandidates
     /\ Scan.snap.spare < MaxAutoDeploysPerCycle
     /\ Goto("screening", IF offered /\ (requested \/ DryRun) THEN one ELSE rest)
     /\ IF requested THEN Enqueue(Deploy(p), Scan.snap)
                     ELSE UNCHANGED <<action, recent, raced>>
     /\ UNCHANGED <<position, rising, stop, saved, onChain, loss, prev, loaded,
                    owed, forgot, events>>

\* The validator rejects the strategy, the simulation fails, an error.
RejectCandidate(p) ==
  /\ At("screening", "loop")
  /\ p \in NextCandidates
  /\ Goto("screening", [Scan EXCEPT !.todo = @ \ {p}])
  /\ UNCHANGED <<stores, outside, prev, loaded, observers, events>>

EndScreening ==
  /\ At("screening", "loop")
  /\ Scan.todo = {} \/ Scan.snap.spare >= MaxAutoDeploysPerCycle
  /\ Leave("screening")
  /\ UNCHANGED <<stores, outside, prev, loaded, observers, events>>

Screening ==
  \/ BeginScreening \/ ScreenShortlist \/ EndScreening
  \/ \E p \in Positions : AutoDeploy(p) \/ RejectCandidate(p)

---------------------------------------------------------------------------
(* The operator *)

Commanded(p) ==
  {Key("CLOSE", p, "operator"), Deploy(p), Rebalance(p)}

\* The command's own check, then the snapshot; no earlier state is given.
Command(k) ==
  /\ Event("command")
  /\ At("operator", "idle")
  /\ \/ k[1] = "CLOSE" /\ \A l \in Live : l \in Deploys \/ l[2] # k[2]
     \/ k[1] # "CLOSE" /\ ~stop
  /\ Goto("operator", [Idle EXCEPT !.step = "request", !.key = k,
                                   !.snap = Snap("none")])
  /\ UNCHANGED <<stores, outside, prev, loaded, observers>>

\* A close asks the rules here; the other requests ask them themselves.
RequestCommanded ==
  LET ask == req["operator"] IN
  /\ At("operator", "request")
  /\ IF ask.key[1] = "CLOSE" /\ ~RiskAllows(Portfolio(ask.snap), CloseRequest)
       THEN Leave("operator") /\ UNCHANGED <<action, recent, raced>>
       ELSE Ask("operator", ask.key, ask.snap, Idle)
  /\ UNCHANGED <<position, rising, stop, saved, onChain, loss, prev, loaded,
                 owed, forgot, events>>

Trip ==
  /\ Event("trip")
  /\ ~stop
  /\ stop' = TRUE
  /\ UNCHANGED <<position, rising, action, saved, outside, process, observers>>

Clear ==
  /\ stop
  /\ stop' = FALSE
  /\ UNCHANGED <<position, rising, action, saved, outside, process, observers,
                 events>>

Operator ==
  \/ RequestCommanded \/ Trip \/ Clear
  \/ \E p \in Positions : \E k \in Commanded(p) : Command(k)

---------------------------------------------------------------------------
(* The deploy of a claim's proceeds *)

\* buildCompoundDeployRiskGuard: the claim that asks is not counted.
BeginCompound(p) ==
  /\ At("compound", "idle")
  /\ position[p] = "none"
  /\ \E k \in Claims :
       /\ action[k] = "RUNNING"
       /\ Goto("compound", [Idle EXCEPT !.step = "request", !.key = Deploy(p),
                                        !.snap = [Snap("none") EXCEPT !.spare = -1]])
  /\ UNCHANGED <<stores, outside, prev, loaded, observers, events>>

RequestCompound ==
  LET ask == req["compound"] IN
  /\ At("compound", "request")
  /\ Ask("compound", ask.key, ask.snap, [Idle EXCEPT !.step = "asked"])
  /\ UNCHANGED <<position, rising, stop, saved, onChain, loss, prev, loaded,
                 owed, forgot, events>>

Compound == RequestCompound \/ \E p \in Positions : BeginCompound(p)

---------------------------------------------------------------------------
(* The queue and the reconciliation tick *)

\* nextQueued: nothing of the wallet may be under way.
Start(k) ==
  /\ ~DryRun
  /\ action[k] = "QUEUED"
  /\ \A l \in Keys : action[l] # "RUNNING"
  /\ LET fits == IF k \in Deploys THEN position[k[2]] = "none" /\ ~stop
                 ELSE position[k[2]] = "OPEN" /\ (k[1] = "REBALANCE" => ~stop)
     IN /\ action' = [action EXCEPT ![k] = IF fits THEN "RUNNING" ELSE "FAILED"]
        /\ position' = IF fits THEN [position EXCEPT ![k[2]] = "BUSY"] ELSE position
  /\ UNCHANGED <<rising, stop, saved, outside, process, observers, events>>

\* How the executions, confirmations and finalizers may leave the position
\* (PositionFlow, ClaimFlow, RebalanceFlow); it is open after a claim that
\* fails, too.
Outcomes(k) ==
  LET p == k[2]
      to(status, result, chain) == [position |-> [position EXCEPT ![p] = status],
                                    result |-> result, onChain |-> chain]
  IN CASE k[1] = "DEPLOY" -> {to("OPEN", "DONE", onChain \cup {p}),
                              to("none", "FAILED", onChain)}
       [] k[1] = "CLOSE" -> {to("CLOSED", "DONE", onChain \ {p}),
                             to("OPEN", "FAILED", onChain),
                             to("MARKED", "FAILED", onChain)}
       [] k[1] = "CLAIM_FEES" -> {to("OPEN", "DONE", onChain)}
       [] k[1] = "REBALANCE" ->
            {[position |-> [position EXCEPT ![p] = "CLOSED", ![q] = "OPEN"],
              result |-> "DONE", onChain |-> (onChain \ {p}) \cup {q}] :
               q \in {r \in Positions : position[r] = "none" /\ PoolOf[r] = PoolOf[p]}}
            \cup {to("OPEN", "FAILED", onChain)}

Finish(k) ==
  /\ action[k] = "RUNNING"
  /\ k \in Claims => req["compound"].step \in {"idle", "asked"}
  /\ \E o \in Outcomes(k) :
       /\ position' = o.position
       /\ onChain' = o.onChain
       /\ action' = [action EXCEPT ![k] = o.result]
  /\ IF k \in Claims THEN Leave("compound") ELSE UNCHANGED req
  /\ UNCHANGED <<rising, stop, saved, loss, recent, prev, loaded, observers,
                 events>>

\* What the chain says of a position nobody works on.
Reconcile(p) ==
  /\ \/ /\ position[p] = "OPEN"
        /\ p \notin onChain
        /\ position' = [position EXCEPT ![p] = "MARKED"]
     \/ /\ position[p] = "MARKED"
        /\ p \in onChain
        /\ \A k \in Live : k[2] # p
        /\ position' = [position EXCEPT ![p] = "OPEN"]
  /\ UNCHANGED <<rising, action, stop, saved, outside, process, observers,
                 events>>

\* syncOpenPosition: the position's profit is above its peak.
Rise(p) ==
  /\ Event("rise")
  /\ position[p] = "OPEN"
  /\ p \in onChain \ rising
  /\ rising' = rising \cup {p}
  /\ UNCHANGED <<position, action, stop, saved, outside, process, observers>>

---------------------------------------------------------------------------
(* The world and the clock *)

\* The owner closes the position elsewhere.
Depart(p) ==
  /\ Event("depart")
  /\ p \in onChain
  /\ onChain' = onChain \ {p}
  /\ UNCHANGED <<stores, loss, recent, process, observers>>

LossReached ==
  /\ Event("loss")
  /\ ~loss
  /\ loss' = TRUE
  /\ UNCHANGED <<stores, onChain, recent, process, observers>>

\* The journal of the new day has no loss.
NextDay ==
  /\ loss
  /\ loss' = FALSE
  /\ UNCHANGED <<stores, onChain, recent, process, observers, events>>

HourPasses ==
  /\ Event("hour")
  /\ recent # {}
  /\ recent' = {}
  /\ UNCHANGED <<stores, onChain, loss, process, observers>>

Cooled(hint) == IF hint = "COOLDOWN" THEN "OFF" ELSE hint

\* A tick under way goes by the time it began.
CooldownElapses ==
  /\ "COOLDOWN" \in {prev, loaded, saved, owed}
  /\ prev' = Cooled(prev)
  /\ loaded' = Cooled(loaded)
  /\ saved' = Cooled(saved)
  /\ owed' = Cooled(owed)
  /\ UNCHANGED <<position, rising, action, stop, outside, req, raced, forgot, events>>

Restart ==
  /\ Event("restart")
  /\ prev' = "none"
  /\ loaded' = "unread"
  /\ req' = [r \in Requesters |-> Idle]
  /\ forgot' = (forgot \/ saved # owed)
  /\ UNCHANGED <<stores, outside, raced, owed>>

World ==
  \/ LossReached \/ NextDay \/ HourPasses \/ CooldownElapses \/ Restart
  \/ \E p \in Positions : Depart(p) \/ Rise(p) \/ Reconcile(p)
  \/ \E k \in Keys : Start(k) \/ Finish(k)

Init ==
  /\ position = [p \in Positions |-> "none"]
  /\ rising = {}
  /\ action = [k \in Keys |-> "none"]
  /\ stop = FALSE
  /\ saved = "none"
  /\ onChain = {}
  /\ loss = FALSE
  /\ recent = {}
  /\ prev = "none"
  /\ loaded = "unread"
  /\ req = [r \in Requesters |-> Idle]
  /\ raced = {}
  /\ owed = "none"
  /\ forgot = FALSE
  /\ events = {}

Next == Management \/ Screening \/ Operator \/ Compound \/ World

Spec == Init /\ [][Next]_vars

\* The scheduler runs every tick again and again, a tick that has begun goes
\* on, and a snapshot does not fail every time.  An action that has begun need
\* not end.
Fairness ==
  /\ WF_vars(BeginManagement) /\ WF_vars(RefreshPeak) /\ WF_vars(CheckActive)
  /\ WF_vars(ReviewRebalance) /\ WF_vars(RequestManaged) /\ WF_vars(EndManagement)
  /\ WF_vars(RequestCompound)
  /\ \A p \in Positions : SF_vars(Judge(p)) /\ WF_vars(Reconcile(p))
  /\ WF_vars(\E k \in Keys : Start(k))

FairSpec == Spec /\ Fairness

---------------------------------------------------------------------------
(* Properties *)

Snaps ==
  [active : SUBSET Positions, live : SUBSET Keys, known : SUBSET Keys,
   recent : Nat, loss : BOOLEAN, breaker : Hints, spare : Int]

Requests ==
  [step : Steps, todo : SUBSET Positions, rose : SUBSET Positions,
   key : Keys \cup {None}, snap : Snaps, hint : Hints]

\* The state has its type.
TypeOK ==
  /\ position \in [Positions -> {"none", "OPEN", "BUSY", "MARKED", "CLOSED"}]
  /\ action \in [Keys -> {"none", "QUEUED", "RUNNING", "DONE", "FAILED"}]
  /\ rising \cup onChain \subseteq Positions
  /\ recent \cup raced \subseteq Deploys
  /\ {stop, loss, forgot} \subseteq BOOLEAN
  /\ {saved, prev, owed} \subseteq Hints
  /\ loaded \in Hints \cup {"unread"}
  /\ req \in [Requesters -> Requests]
  /\ events \subseteq Events

\* Two writes are under way together only by a race: when a request is stored,
\* nothing is live that its requester knew to be live, but for the claim whose
\* proceeds are deployed.
WritesOverlapOnlyByRace ==
  [][\A k \in Keys, r \in Requesters :
       action[k] = "none" /\ action'[k] # "none" /\ req'[r] # req[r] =>
         \A l \in Live \cap req[r].snap.known :
           r = "compound" /\ l \in Claims /\ action[l] = "RUNNING"]_vars

\* An hour sees no more deploys than the limit, whoever asked for them, but
\* for deploys requested on a snapshot that had been overtaken.
QuotaHoldsButForRaces ==
  Cardinality(RecentDeploys \ raced) <= Policy.maxNewDeploysPerHour

\* A snapshot of the management tick shows no breaker although the last report
\* did, and its cooldown has not elapsed: only after a restart on an unsaved
\* report, a tick that was skipped, or a first tick without open positions.
BreakerForgottenHasCause ==
  Tick.snap.breaker = "OFF" /\ owed \in {"ON", "COOLDOWN"} => forgot

\* A request for an emergency's close that has been made before, and failed,
\* is answered with the failure.
Spent(p) == action[Key("CLOSE", p, "emergency")] \in {"DONE", "FAILED"}

\* A position is closed once the loss of the day is reached, unless its one
\* emergency close is spent.  And unless an action runs for ever: whatever its
\* position, it keeps the wallet busy, and no close is asked for.
EmergencyCloses ==
  []<>(\A k \in Keys : action[k] # "RUNNING") => \A p \in Positions :
    position[p] = "OPEN" /\ loss ~> position[p] # "OPEN" \/ ~loss \/ Spent(p)

\* A position that has left the chain does not stay open in the store, though
\* ticks write back records they read earlier.
GoneIsNoticed ==
  \A p \in Positions :
    <>[](p \notin onChain) => <>[](position[p] # "OPEN")

\* The gates before automatic deploys are shut while the process holds the
\* breaker as active, cooldown included.  (They are not: the snapshot they go
\* by is built without the earlier state.)
BreakerShutsTheGates ==
  [][At("screening", "shortlist") /\ req'["screening"].step = "loop" =>
       prev \notin {"ON", "COOLDOWN"}]_vars
=============================================================================
