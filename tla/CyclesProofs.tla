---------------------------- MODULE CyclesProofs ----------------------------
(***************************************************************************)
(* What the cycles keep to whatever the configuration, the positions and   *)
(* the events: writes overlap and the limit of deploys per hour is overrun *)
(* by races only, and the breaker is forgotten for the named causes only.  *)
(***************************************************************************)
EXTENDS Cycles, FiniteSetTheorems, TLAPS

-----------------------------------------------------------------------------
(* Finite sets *)

LEMMA PositionsFinite == IsFiniteSet(Positions)
<1>1. IsFiniteSet(1..Len(Order)) /\ DOMAIN Order = 1..Len(Order)
  BY OrderNamesEachPosition, FS_Interval
<1>2. Order \in Surjection(1..Len(Order), Positions)
  BY <1>1, OrderNamesEachPosition DEF Surjection, Positions
<1> QED
  BY <1>1, <1>2, FS_Surjection

LEMMA TripleFinite ==
  ASSUME NEW a, NEW b, NEW c
  PROVE  IsFiniteSet({a, b, c})
<1>1. IsFiniteSet({a}) /\ IsFiniteSet({b}) /\ IsFiniteSet({c})
  BY FS_Singleton
<1>2. IsFiniteSet({a} \cup {b} \cup {c})
  BY <1>1, FS_Union
<1>3. {a, b, c} = {a} \cup {b} \cup {c}
  OBVIOUS
<1> QED
  BY <1>2, <1>3

LEMMA KeysFinite == IsFiniteSet(Keys)
<1> DEFINE types == {"DEPLOY", "CLOSE", "CLOSE"} \cup {"CLAIM_FEES", "REBALANCE", "REBALANCE"}
           reasons == {"emergency", "hardExit", "trailing"}
                      \cup {"feeless", "aiExit", "operator"}
                      \cup {"payload", "threshold", "claimOnly"}
           pairs == types \X Positions
           triples == {<<t[1], t[2], r>> : t \in pairs, r \in reasons}
           f == [x \in pairs \X reasons |-> <<x[1][1], x[1][2], x[2]>>]
<1>1. IsFiniteSet(types) /\ IsFiniteSet(reasons)
  BY TripleFinite, FS_Union
<1> HIDE DEF types, reasons
<1>2. IsFiniteSet(pairs)
  BY <1>1, PositionsFinite, FS_Product
<1> HIDE DEF pairs
<1>3. IsFiniteSet(pairs \X reasons)
  BY <1>1, <1>2, FS_Product
<1>4. f \in Surjection(pairs \X reasons, triples)
  <2>1. f \in [pairs \X reasons -> triples]
    OBVIOUS
  <2>2. ASSUME NEW y \in triples
        PROVE  \E x \in pairs \X reasons : f[x] = y
    <3>1. PICK t \in pairs, r \in reasons : y = <<t[1], t[2], r>>
      OBVIOUS
    <3>2. <<t, r>> \in pairs \X reasons /\ f[<<t, r>>] = y
      BY <3>1
    <3> QED
      BY <3>2
  <2> HIDE DEF f, triples
  <2> QED
    BY <2>1, <2>2 DEF Surjection
<1>5. IsFiniteSet(triples)
  <2> HIDE DEF f, triples
  <2> QED
    BY <1>3, <1>4, FS_Surjection
<1>6. Keys \subseteq triples
  <2> SUFFICES ASSUME NEW k \in Keys PROVE k \in triples
    OBVIOUS
  <2>1. PICK type \in types, p \in Positions, r \in reasons : k = <<type, p, r>>
    BY DEF Keys, Deploys, Deploy, Claims, Claim, Rebalance, Key, Reasons, types, reasons
  <2>2. <<type, p>> \in pairs
    BY DEF pairs
  <2> QED
    BY <2>1, <2>2
<1> QED
  BY <1>5, <1>6, FS_Subset

LEMMA RecentCounts ==
  ASSUME recent \subseteq Deploys
  PROVE  Cardinality(RecentDeploys) \in Nat
<1>1. IsFiniteSet(RecentDeploys)
  BY KeysFinite, FS_Subset DEF RecentDeploys, Keys
<1> QED
  BY <1>1, FS_CardinalityType

-----------------------------------------------------------------------------
(* Types *)

LEMMA SnapType ==
  ASSUME TypeOK, NEW hint
  PROVE  Snap(hint) \in Snaps
<1>1. Cardinality(RecentDeploys) \in Nat
  BY RecentCounts DEF TypeOK
<1>2. Lifecycle(hint) \in Hints
  BY DEF Lifecycle, Hints
<1> QED
  BY <1>1, <1>2 DEF Snap, Snaps, Active, Live, Stored, TypeOK

LEMMA IdleType == Idle \in Requests /\ NoSnap \in Snaps
  BY DEF Idle, NoSnap, Requests, Snaps, Steps, Hints

LEMMA RequestType ==
  ASSUME NEW q \in Requests
  PROVE  /\ q.step \in Steps /\ q.todo \in SUBSET Positions
         /\ q.rose \in SUBSET Positions /\ q.key \in Keys \cup {None}
         /\ q.snap \in Snaps /\ q.hint \in Hints
         /\ q.snap.breaker \in Hints /\ q.snap.spare \in Int
         /\ q.snap.known \in SUBSET Keys /\ q.snap.live \in SUBSET Keys
         /\ q.snap.recent \in Nat
  BY DEF Requests, Snaps

\* The types but for the requesters, whose steps are typed one by one.
StoreTypes ==
  /\ position \in [Positions -> {"none", "OPEN", "BUSY", "MARKED", "CLOSED"}]
  /\ action \in [Keys -> {"none", "QUEUED", "RUNNING", "DONE", "FAILED"}]
  /\ rising \cup onChain \subseteq Positions
  /\ recent \cup raced \subseteq Deploys
  /\ {stop, loss, forgot} \subseteq BOOLEAN
  /\ {saved, prev, owed} \subseteq Hints
  /\ loaded \in Hints \cup {"unread"}
  /\ events \subseteq Events

LEMMA TypeParts == TypeOK <=> StoreTypes /\ req \in [Requesters -> Requests]
  BY DEF TypeOK, StoreTypes

LEMMA GotoType ==
  ASSUME req \in [Requesters -> Requests], NEW r \in Requesters,
         NEW q \in Requests, Goto(r, q)
  PROVE  req' \in [Requesters -> Requests]
  BY DEF Goto

LEMMA SummaryType ==
  ASSUME NEW s \in Snaps
  PROVE  Summary(s) \in Snaps
<1>1. s.breaker \in Hints
  BY DEF Snaps
<1>2. NoSnap \in Snaps
  BY IdleType
<1> QED
  BY <1>1, <1>2 DEF Summary, Snaps

LEMMA KeyTypes ==
  ASSUME NEW p \in Positions
  PROVE  /\ Deploy(p) \in Deploys /\ Deploy(p) \in Keys
         /\ Rebalance(p) \in Keys
         /\ \A r \in Reasons : Key("CLOSE", p, r) \in Keys
         /\ \A r \in {"threshold", "claimOnly"} : Key("CLAIM_FEES", p, r) \in Keys
  BY DEF Deploys, Keys, Claims, Claim, Deploy

\* A decision that becomes a request, as the tick can name it.
Actable == {<<"CLOSE", r>> : r \in Reasons}
           \cup {<<"CLAIM_FEES", r>> : r \in {"threshold", "claimOnly"}}

LEMMA PassType ==
  ASSUME NEW q \in Requests
  PROVE  Pass(q) \in Requests
<1>1. Summary(q.snap) \in Snaps
  BY RequestType, SummaryType
<1> QED
  BY <1>1, RequestType DEF Pass, Requests, Steps

LEMMA ActType ==
  ASSUME NEW q \in Requests, NEW type, NEW reason,
         <<type, reason>> \in Actable, Current \in Positions
  PROVE  Act(q, type, reason) \in Requests
<1>1. Key(type, Current, reason) \in Keys
  BY KeyTypes DEF Actable
<1>2. [q EXCEPT !.step = "check", !.key = Key(type, Current, reason)] \in Requests
  BY <1>1 DEF Requests, Steps
<1> QED
  BY <1>2, PassType DEF Act

LEMMA DecisionType ==
  ASSUME NEW facts, NEW breaker
  PROVE  LET d == Evaluate(facts, breaker) IN
         /\ d.type \in {"CLOSE", "CLAIM_FEES"} => <<d.type, d.reason>> \in Actable
         /\ d.type \in {"CLOSE", "CLAIM_FEES", "PARTIAL_CLOSE", "REBALANCE", "HOLD",
                        "RECONCILE_ONLY"}
  BY DEF Evaluate, Maintenance, Decision, Actable, Reasons

LEMMA AfterDecisionType ==
  ASSUME req \in [Requesters -> Requests], Current \in Positions,
         NEW s \in Snaps, NEW facts
  PROVE  AfterDecision(Evaluate(facts, s.breaker), s) \in Requests
<1> DEFINE d == Evaluate(facts, s.breaker)
           judged == [Tick EXCEPT !.snap = Summary(s), !.hint = s.breaker]
<1>1. Tick \in Requests
  BY DEF Tick, Requesters
<1>2. Summary(s) \in Snaps /\ s.breaker \in Hints
  BY SummaryType DEF Snaps
<1>3. judged \in Requests
  BY <1>1, <1>2 DEF Requests
<1>4. [judged EXCEPT !.step = "review", !.key = Rebalance(Current), !.snap = s]
        \in Requests
  BY <1>3, KeyTypes DEF Requests, Steps
<1>5. d.type \in {"CLOSE", "CLAIM_FEES"} => Act(judged, d.type, d.reason) \in Requests
  BY <1>3, ActType, DecisionType
<1>6. Pass(judged) \in Requests
  BY <1>3, PassType
<1> HIDE DEF d, judged
<1>7. AfterDecision(d, s) \in Requests
  BY <1>4, <1>5, <1>6 DEF AfterDecision, judged
<1> QED
  BY <1>7 DEF d

LEMMA AfterReviewType ==
  ASSUME req \in [Requesters -> Requests], Current \in Positions, NEW review
  PROVE  AfterReview(review) \in Requests
<1>1. Tick \in Requests
  BY DEF Tick, Requesters
<1>2. Skip \in Requests
  BY <1>1, PassType DEF Skip
<1>3. ClaimOnly \in Requests /\ Exit \in Requests
  BY <1>1, ActType DEF ClaimOnly, Exit, Actable, Reasons
<1>4. [Tick EXCEPT !.step = "request"] \in Requests
  BY <1>1 DEF Requests, Steps
<1> QED
  BY <1>2, <1>3, <1>4 DEF AfterReview

LEMMA EventType ==
  ASSUME NEW kind, Event(kind)
  PROVE  events' \subseteq Events
  BY ScenariosAreEvents DEF Event

LEMMA EnqueueType ==
  ASSUME StoreTypes, NEW k, NEW s, Enqueue(k, s),
         UNCHANGED <<position, rising, stop, saved, onChain, loss, prev, loaded,
                     owed, forgot, events>>
  PROVE  StoreTypes'
<1>1. action' \in [Keys -> {"none", "QUEUED", "RUNNING", "DONE", "FAILED"}]
  BY DEF Enqueue, StoreTypes
<1>2. recent' \cup raced' \subseteq Deploys
  BY DEF Enqueue, StoreTypes
<1> QED
  BY <1>1, <1>2 DEF StoreTypes

LEMMA AskType ==
  ASSUME TypeOK, NEW r \in Requesters, NEW k, NEW s, NEW q \in Requests,
         Ask(r, k, s, q),
         UNCHANGED <<position, rising, stop, saved, onChain, loss, prev, loaded,
                     owed, forgot, events>>
  PROVE  TypeOK'
<1>1. StoreTypes /\ req \in [Requesters -> Requests]
  BY TypeParts
<1>2. CASE Requestable(k, s)
  <2>1. StoreTypes'
    BY <1>1, <1>2, EnqueueType DEF Ask
  <2>2. req' \in [Requesters -> Requests]
    BY <1>1, <1>2, GotoType DEF Ask
  <2> QED
    BY <2>1, <2>2 DEF TypeOK, StoreTypes
<1>3. CASE ~Requestable(k, s)
  <2>1. StoreTypes'
    BY <1>1, <1>3 DEF Ask, StoreTypes
  <2>2. req' \in [Requesters -> Requests]
    BY <1>1, <1>3, GotoType, IdleType DEF Ask, Leave
  <2> QED
    BY <2>1, <2>2 DEF TypeOK, StoreTypes
<1> QED
  BY <1>2, <1>3

\* What is reviewed is a position of the tick's list.
ReviewsPosition == Tick.step = "review" => Current \in Positions

LEMMA ManagementType ==
  ASSUME TypeOK, ReviewsPosition, Management
  PROVE  TypeOK'
<1> USE DEF stores, outside, observers
<1>r. "management" \in Requesters
  BY DEF Requesters
<1>t. StoreTypes /\ req \in [Requesters -> Requests] /\ Tick \in Requests
  BY <1>r, TypeParts DEF Tick
<1>p. (StoreTypes /\ req \in [Requesters -> Requests])' => TypeOK'
  BY DEF TypeOK, StoreTypes
<1>s. Skip \in Requests
  BY <1>t, PassType DEF Skip
<1>1. CASE BeginManagement
  <2>1. loaded' \in Hints \cup {"unread"} /\ StoreTypes'
    BY <1>1, <1>t DEF BeginManagement, StoreTypes
  <2>2. Hint(loaded') \in Hints
    BY <1>1, <1>t DEF BeginManagement, StoreTypes, Hint
  <2>3. PICK todo \in SUBSET Positions, rose \in SUBSET Positions, hint \in Hints :
          Goto("management", [Idle EXCEPT !.step = "next", !.todo = todo,
                                          !.rose = rose, !.hint = hint])
    BY <1>1, <2>2 DEF BeginManagement, NewPeaks
  <2>4. [Idle EXCEPT !.step = "next", !.todo = todo, !.rose = rose, !.hint = hint]
          \in Requests
    BY IdleType DEF Requests, Steps
  <2> QED
    BY <2>1, <2>3, <2>4, <1>r, <1>t, <1>p, GotoType
<1>2. CASE RefreshPeak
  <2>1. [Tick EXCEPT !.rose = @ \ {Current}] \in Requests
    BY <1>t DEF Requests
  <2>2. position' \in [Positions -> {"none", "OPEN", "BUSY", "MARKED", "CLOSED"}]
    BY <1>2, <1>t DEF RefreshPeak, StoreTypes
  <2>3. StoreTypes'
    BY <1>2, <2>2, <1>t DEF RefreshPeak, StoreTypes
  <2> QED
    BY <1>2, <2>1, <2>3, <1>r, <1>t, <1>p, GotoType DEF RefreshPeak
<1>3. ASSUME NEW p \in Positions, Judge(p)
      PROVE  TypeOK'
  <2>1. Snap(Tick.hint) \in Snaps
    BY SnapType
  <2>2. PICK s \in Snaps, facts \in Facts :
          /\ Goto("management", AfterDecision(Evaluate(facts, s.breaker), s))
          /\ UNCHANGED events \/ Event("fact")
    BY <1>3, <2>1 DEF Judge
  <2>3. AfterDecision(Evaluate(facts, s.breaker), s) \in Requests
    BY <1>3, <1>t, AfterDecisionType DEF Judge
  <2>4. events' \subseteq Events
    BY <2>2, <1>t, EventType DEF StoreTypes
  <2>5. StoreTypes'
    BY <1>3, <2>4, <1>t DEF Judge, StoreTypes
  <2> QED
    BY <2>2, <2>3, <2>5, <1>r, <1>t, <1>p, GotoType
<1>4. CASE JudgeFails
  <2>1. StoreTypes'
    BY <1>4, <1>t DEF JudgeFails, StoreTypes
  <2> QED
    BY <1>4, <2>1, <1>r, <1>t, <1>p, GotoType, IdleType DEF JudgeFails, Leave
<1>5. CASE CheckActive
  <2>1. Live \subseteq Keys /\ Stored \subseteq Keys
    BY DEF Live, Stored
  <2>2. [Tick EXCEPT !.step = "request", !.snap.live = Live, !.snap.known = Stored]
          \in Requests
    BY <2>1, <1>t DEF Requests, Snaps, Steps
  <2>3. StoreTypes'
    BY <1>5, <1>t DEF CheckActive, StoreTypes
  <2> QED
    BY <1>5, <2>2, <2>3, <1>s, <1>r, <1>t, <1>p, GotoType DEF CheckActive
<1>6. CASE ReviewRebalance \/ PlanMissing
  <2>1. StoreTypes'
    BY <1>6, <1>t DEF ReviewRebalance, PlanMissing, StoreTypes
  <2>2. Current \in Positions
    BY <1>6 DEF ReviewRebalance, PlanMissing, ReviewsPosition, At, Tick
  <2>3. PICK q \in Requests : Goto("management", q)
    BY <1>6, <1>s, <1>t, <2>2, AfterReviewType DEF ReviewRebalance, PlanMissing
  <2> QED
    BY <2>1, <2>3, <1>r, <1>t, <1>p, GotoType
<1>7. CASE RequestManaged
  BY <1>7, <1>s, <1>r, AskType DEF RequestManaged
<1>8. CASE EndManagement
  <2> DEFINE seen == Tick.snap.breaker # "none"
             next == IF seen THEN Tick.snap.breaker ELSE prev
  <2>1. next \in Hints
    BY <1>t, RequestType DEF StoreTypes
  <2>2. saved' \in Hints /\ events' \subseteq Events
    BY <1>8, <1>t, <2>1, EventType DEF EndManagement, Persist, StoreTypes
  <2>3. owed' \in Hints /\ prev' \in Hints /\ loaded' \in Hints
    BY <1>8, <1>t, <2>1 DEF EndManagement, StoreTypes, Hints
  <2>4. forgot' \in BOOLEAN
    BY <1>8, <1>t DEF EndManagement, StoreTypes
  <2>5. StoreTypes'
    BY <1>8, <2>2, <2>3, <2>4, <1>t DEF EndManagement, StoreTypes
  <2> QED
    BY <1>8, <2>5, <1>r, <1>t, <1>p, GotoType, IdleType DEF EndManagement, Leave
<1>9. CASE SkippedTick
  <2>1. StoreTypes'
    BY <1>9, <1>t, EventType DEF SkippedTick, StoreTypes, Hints
  <2> QED
    BY <1>9, <2>1, <1>t, <1>p DEF SkippedTick
<1> QED
  BY <1>1, <1>2, <1>3, <1>4, <1>5, <1>6, <1>7, <1>8, <1>9 DEF Management

LEMMA ScreeningType ==
  ASSUME TypeOK, Screening
  PROVE  TypeOK'
<1> USE DEF stores, outside, observers
<1>r. "screening" \in Requesters
  BY DEF Requesters
<1>t. StoreTypes /\ req \in [Requesters -> Requests] /\ Scan \in Requests
  BY <1>r, TypeParts DEF Scan
<1>p. (StoreTypes /\ req \in [Requesters -> Requests])' => TypeOK'
  BY DEF TypeOK, StoreTypes
<1>1. CASE BeginScreening
  <2>1. StoreTypes'
    BY <1>1, <1>t DEF BeginScreening, StoreTypes
  <2>2. PICK todo \in SUBSET Positions :
          Goto("screening", [Idle EXCEPT !.step = "shortlist", !.todo = todo])
    BY <1>1 DEF BeginScreening
  <2>3. [Idle EXCEPT !.step = "shortlist", !.todo = todo] \in Requests
    BY IdleType DEF Requests, Steps
  <2> QED
    BY <2>1, <2>2, <2>3, <1>r, <1>t, <1>p, GotoType
<1>2. CASE ScreenShortlist
  <2>1. StoreTypes'
    BY <1>2, <1>t DEF ScreenShortlist, StoreTypes
  <2>2. PICK pairs \in SUBSET Scan.todo :
          \/ Goto("screening", [Scan EXCEPT !.step = "loop", !.todo = pairs,
                                            !.snap = Snap("none")])
          \/ Goto("screening", Idle)
    BY <1>2 DEF ScreenShortlist, SolPairs, Leave
  <2>3. Snap("none") \in Snaps
    BY SnapType
  <2>4. [Scan EXCEPT !.step = "loop", !.todo = pairs, !.snap = Snap("none")]
          \in Requests
    BY <2>3, <1>t, RequestType DEF Requests, Steps
  <2> QED
    BY <2>1, <2>2, <2>4, <1>r, <1>t, <1>p, GotoType, IdleType
<1>3. CASE EndScreening
  <2>1. StoreTypes'
    BY <1>3, <1>t DEF EndScreening, StoreTypes
  <2> QED
    BY <1>3, <2>1, <1>r, <1>t, <1>p, GotoType, IdleType DEF EndScreening, Leave
<1>4. ASSUME NEW p \in Positions, AutoDeploy(p)
      PROVE  TypeOK'
  <2> DEFINE rest == [Scan EXCEPT !.todo = @ \ {p}]
             one == [rest EXCEPT !.snap.spare = @ + 1,
                                 !.snap.known = @ \cup {Deploy(p)}]
  <2>1. rest \in Requests
    BY <1>t DEF Requests
  <2>2. Deploy(p) \in Keys
    BY KeyTypes
  <2>3. one \in Requests
    <3>1. rest.snap \in Snaps
      BY <2>1, RequestType
    <3>2. ASSUME NEW s \in Snaps
          PROVE  [s EXCEPT !.spare = @ + 1, !.known = @ \cup {Deploy(p)}] \in Snaps
      <4>1. s.spare + 1 \in Int /\ s.known \cup {Deploy(p)} \in SUBSET Keys
        BY <2>2 DEF Snaps
      <4>2. ASSUME NEW n \in Int, NEW m \in SUBSET Keys
            PROVE  [s EXCEPT !.spare = n, !.known = m] \in Snaps
        BY DEF Snaps
      <4> QED
        BY <4>1, <4>2
    <3>3. one = [rest EXCEPT !.snap = [rest.snap EXCEPT
                   !.spare = @ + 1, !.known = @ \cup {Deploy(p)}]]
      BY <2>1 DEF Requests, Snaps
    <3> HIDE DEF rest, one
    <3> QED
      BY <2>1, <3>1, <3>2, <3>3 DEF Requests
  <2>4. Goto("screening", one) \/ Goto("screening", rest)
    BY <1>4 DEF AutoDeploy
  <2>5. StoreTypes'
    <3>1. CASE Enqueue(Deploy(p), Scan.snap)
      BY <1>4, <3>1, <1>t, EnqueueType DEF AutoDeploy
    <3>2. CASE UNCHANGED <<action, recent, raced>>
      BY <1>4, <3>2, <1>t DEF AutoDeploy, StoreTypes
    <3> QED
      BY <1>4, <3>1, <3>2 DEF AutoDeploy
  <2> HIDE DEF rest, one
  <2> QED
    BY <2>1, <2>3, <2>4, <2>5, <1>r, <1>t, <1>p, GotoType
<1>5. ASSUME NEW p \in Positions, RejectCandidate(p)
      PROVE  TypeOK'
  <2>1. StoreTypes'
    BY <1>5, <1>t DEF RejectCandidate, StoreTypes
  <2>2. [Scan EXCEPT !.todo = @ \ {p}] \in Requests
    BY <1>t DEF Requests
  <2> QED
    BY <1>5, <2>1, <2>2, <1>r, <1>t, <1>p, GotoType DEF RejectCandidate
<1> QED
  BY <1>1, <1>2, <1>3, <1>4, <1>5 DEF Screening

LEMMA OperatorType ==
  ASSUME TypeOK, Operator
  PROVE  TypeOK'
<1> USE DEF stores, outside, process, observers
<1>r. "operator" \in Requesters
  BY DEF Requesters
<1>t. StoreTypes /\ req \in [Requesters -> Requests]
  BY TypeParts
<1>p. (StoreTypes /\ req \in [Requesters -> Requests])' => TypeOK'
  BY DEF TypeOK, StoreTypes
<1>1. CASE RequestCommanded
  <2> DEFINE ask == req["operator"]
  <2>1. CASE Ask("operator", ask.key, ask.snap, Idle)
    BY <1>1, <2>1, <1>r, AskType, IdleType DEF RequestCommanded
  <2>2. CASE Leave("operator") /\ UNCHANGED <<action, recent, raced>>
    <3>1. StoreTypes'
      BY <1>1, <2>2, <1>t DEF RequestCommanded, StoreTypes
    <3> QED
      BY <2>2, <3>1, <1>r, <1>t, <1>p, GotoType, IdleType DEF Leave
  <2> QED
    BY <1>1, <2>1, <2>2 DEF RequestCommanded
<1>2. CASE Trip \/ Clear
  <2>1. StoreTypes'
    BY <1>2, <1>t, EventType DEF Trip, Clear, StoreTypes
  <2> QED
    BY <1>2, <2>1, <1>t, <1>p DEF Trip, Clear
<1>3. ASSUME NEW p \in Positions, NEW k \in Commanded(p), Command(k)
      PROVE  TypeOK'
  <2>1. StoreTypes'
    BY <1>3, <1>t, EventType DEF Command, StoreTypes
  <2>2. k \in Keys
    BY KeyTypes DEF Commanded, Reasons
  <2>3. Snap("none") \in Snaps
    BY SnapType
  <2>4. [Idle EXCEPT !.step = "request", !.key = k, !.snap = Snap("none")] \in Requests
    BY <2>2, <2>3, IdleType DEF Requests, Steps
  <2> QED
    BY <1>3, <2>1, <2>4, <1>r, <1>t, <1>p, GotoType DEF Command
<1> QED
  BY <1>1, <1>2, <1>3 DEF Operator

LEMMA CompoundType ==
  ASSUME TypeOK, Compound
  PROVE  TypeOK'
<1> USE DEF stores, outside, process, observers
<1>r. "compound" \in Requesters
  BY DEF Requesters
<1>t. StoreTypes /\ req \in [Requesters -> Requests]
  BY TypeParts
<1>p. (StoreTypes /\ req \in [Requesters -> Requests])' => TypeOK'
  BY DEF TypeOK, StoreTypes
<1>1. CASE RequestCompound
  <2>1. [Idle EXCEPT !.step = "asked"] \in Requests
    BY IdleType DEF Requests, Steps
  <2> QED
    BY <1>1, <2>1, <1>r, AskType DEF RequestCompound
<1>2. ASSUME NEW p \in Positions, BeginCompound(p)
      PROVE  TypeOK'
  <2>1. StoreTypes'
    BY <1>2, <1>t DEF BeginCompound, StoreTypes
  <2>2. Goto("compound", [Idle EXCEPT !.step = "request", !.key = Deploy(p),
                                      !.snap = [Snap("none") EXCEPT !.spare = -1]])
    BY <1>2 DEF BeginCompound
  <2>3. [Snap("none") EXCEPT !.spare = -1] \in Snaps
    BY SnapType DEF Snaps
  <2>4. [Idle EXCEPT !.step = "request", !.key = Deploy(p),
                     !.snap = [Snap("none") EXCEPT !.spare = -1]] \in Requests
    BY <2>3, KeyTypes, IdleType DEF Requests, Steps
  <2> QED
    BY <2>1, <2>2, <2>4, <1>r, <1>t, <1>p, GotoType
<1> QED
  BY <1>1, <1>2 DEF Compound

LEMMA OutcomeType ==
  ASSUME StoreTypes, NEW k \in Keys, NEW o \in Outcomes(k)
  PROVE  /\ o.position \in [Positions -> {"none", "OPEN", "BUSY", "MARKED", "CLOSED"}]
         /\ o.result \in {"DONE", "FAILED"}
         /\ o.onChain \subseteq Positions
<1>1. k[2] \in Positions /\ k[1] \in {"DEPLOY", "CLOSE", "CLAIM_FEES", "REBALANCE"}
  BY DEF Keys, Deploys, Deploy, Claims, Claim, Rebalance, Key
<1>2. CASE k[1] # "REBALANCE"
  BY <1>1, <1>2 DEF Outcomes, StoreTypes
<1>3. CASE k[1] = "REBALANCE"
  BY <1>1, <1>3 DEF Outcomes, StoreTypes
<1> QED
  BY <1>2, <1>3

LEMMA WorldType ==
  ASSUME TypeOK, World
  PROVE  TypeOK'
<1> USE DEF stores, outside, process, observers
<1>t. StoreTypes /\ req \in [Requesters -> Requests]
  BY TypeParts
<1>p. (StoreTypes /\ req \in [Requesters -> Requests])' => TypeOK'
  BY DEF TypeOK, StoreTypes
<1>1. CASE LossReached \/ NextDay \/ HourPasses
  <2>1. StoreTypes'
    BY <1>1, <1>t, EventType DEF LossReached, NextDay, HourPasses, StoreTypes
  <2> QED
    BY <1>1, <2>1, <1>t, <1>p DEF LossReached, NextDay, HourPasses
<1>2. CASE CooldownElapses
  <2>1. {saved', prev', owed'} \subseteq Hints /\ loaded' \in Hints \cup {"unread"}
    BY <1>2, <1>t DEF CooldownElapses, Cooled, StoreTypes, Hints
  <2>2. StoreTypes'
    BY <1>2, <2>1, <1>t DEF CooldownElapses, StoreTypes
  <2> QED
    BY <1>2, <2>2, <1>t, <1>p DEF CooldownElapses
<1>3. CASE Restart
  <2>1. forgot' \in BOOLEAN
    BY <1>3, <1>t DEF Restart, StoreTypes
  <2>2. StoreTypes'
    BY <1>3, <2>1, <1>t, EventType DEF Restart, StoreTypes, Hints
  <2>3. req' \in [Requesters -> Requests]
    BY <1>3, IdleType DEF Restart
  <2> QED
    BY <2>2, <2>3, <1>p
<1>4. ASSUME NEW p \in Positions, Depart(p) \/ Rise(p) \/ Reconcile(p)
      PROVE  TypeOK'
  <2>1. events' \subseteq Events
    BY <1>4, <1>t, EventType DEF Depart, Rise, Reconcile, StoreTypes
  <2>2. rising' \cup onChain' \subseteq Positions
    BY <1>4, <1>t DEF Depart, Rise, Reconcile, StoreTypes
  <2>3. position' \in [Positions -> {"none", "OPEN", "BUSY", "MARKED", "CLOSED"}]
    BY <1>4, <1>t DEF Depart, Rise, Reconcile, StoreTypes
  <2>4. StoreTypes'
    BY <1>4, <2>1, <2>2, <2>3, <1>t DEF Depart, Rise, Reconcile, StoreTypes
  <2> QED
    BY <1>4, <2>4, <1>t, <1>p DEF Depart, Rise, Reconcile
<1>5. ASSUME NEW k \in Keys, Start(k)
      PROVE  TypeOK'
  <2>1. action' \in [Keys -> {"none", "QUEUED", "RUNNING", "DONE", "FAILED"}]
    BY <1>5, <1>t DEF Start, StoreTypes
  <2>2. position' \in [Positions -> {"none", "OPEN", "BUSY", "MARKED", "CLOSED"}]
    BY <1>5, <1>t DEF Start, StoreTypes
  <2>3. StoreTypes'
    BY <1>5, <2>1, <2>2, <1>t DEF Start, StoreTypes
  <2> QED
    BY <1>5, <2>3, <1>t, <1>p DEF Start
<1>6. ASSUME NEW k \in Keys, Finish(k)
      PROVE  TypeOK'
  <2>1. PICK o \in Outcomes(k) :
          position' = o.position /\ onChain' = o.onChain
          /\ action' = [action EXCEPT ![k] = o.result]
    BY <1>6 DEF Finish
  <2>2. /\ position' \in [Positions -> {"none", "OPEN", "BUSY", "MARKED", "CLOSED"}]
        /\ onChain' \subseteq Positions
        /\ action' \in [Keys -> {"none", "QUEUED", "RUNNING", "DONE", "FAILED"}]
    BY <2>1, <1>t, OutcomeType DEF StoreTypes
  <2>3. StoreTypes'
    BY <1>6, <2>2, <1>t DEF Finish, StoreTypes
  <2>4. req' \in [Requesters -> Requests]
    BY <1>6, <1>t, GotoType, IdleType DEF Finish, Leave, Requesters
  <2> QED
    BY <2>3, <2>4, <1>p
<1> QED
  BY <1>1, <1>2, <1>3, <1>4, <1>5, <1>6 DEF World

LEMMA InitType == Init => TypeOK
<1> SUFFICES ASSUME Init PROVE TypeOK
  OBVIOUS
<1>1. req \in [Requesters -> Requests]
  BY IdleType DEF Init
<1>2. StoreTypes
  BY DEF Init, StoreTypes, Hints
<1> QED
  BY <1>1, <1>2, TypeParts

LEMMA StepType ==
  ASSUME TypeOK, ReviewsPosition, [Next]_vars
  PROVE  TypeOK'
<1>1. CASE Next
  BY <1>1, ManagementType, ScreeningType, OperatorType, CompoundType, WorldType
     DEF Next
<1>2. CASE UNCHANGED vars
  BY <1>2 DEF vars, stores, outside, process, observers, TypeOK
<1> QED
  BY <1>1, <1>2

-----------------------------------------------------------------------------
(* Who moves *)

\* A requester's state is changed by its own steps, or reset.
LEMMA OthersWait ==
  ASSUME TypeOK, Next, NEW r \in Requesters
  PROVE  \/ req'[r] = req[r] \/ req'[r] = Idle
         \/ r = "management" /\ Management
         \/ r = "screening" /\ Screening
         \/ r = "operator" /\ Operator
         \/ r = "compound" /\ Compound
<1> USE DEF stores, outside, process, observers
<1>t. req \in [Requesters -> Requests]
  BY DEF TypeOK
<1>g. ASSUME NEW q, NEW state, Goto(q, state)
      PROVE  q # r => req'[r] = req[r]
  BY <1>t, <1>g DEF Goto
<1>a. ASSUME NEW q, NEW k, NEW s, NEW state, Ask(q, k, s, state)
      PROVE  q # r => req'[r] = req[r]
  BY <1>a, <1>g DEF Ask, Leave
<1>1. CASE Management
  <2>1. CASE RequestManaged
    BY <2>1, <1>a, <1>1 DEF RequestManaged
  <2>2. CASE ~RequestManaged
    BY <2>2, <1>g, <1>1
       DEF Management, BeginManagement, RefreshPeak, Judge, JudgeFails, CheckActive,
           ReviewRebalance, PlanMissing, EndManagement, SkippedTick, Leave
  <2> QED
    BY <2>1, <2>2
<1>2. CASE Screening
  BY <1>2, <1>g DEF Screening, BeginScreening, ScreenShortlist, EndScreening,
                    AutoDeploy, RejectCandidate, Leave
<1>3. CASE Operator
  BY <1>3, <1>g, <1>a DEF Operator, RequestCommanded, Trip, Clear, Command, Leave
<1>4. CASE Compound
  BY <1>4, <1>g, <1>a DEF Compound, RequestCompound, BeginCompound
<1>5. CASE World
  <2>1. CASE Restart
    BY <2>1 DEF Restart
  <2>2. ASSUME NEW k \in Keys, Finish(k)
        PROVE  req'[r] = req[r] \/ req'[r] = Idle
    BY <2>2, <1>t DEF Finish, Leave, Goto
  <2>3. CASE ~Restart /\ ~\E k \in Keys : Finish(k)
    BY <1>5, <2>3 DEF World, LossReached, NextDay, HourPasses, CooldownElapses,
                      Depart, Rise, Reconcile, Start
  <2> QED
    BY <2>1, <2>2, <2>3
<1> QED
  BY <1>1, <1>2, <1>3, <1>4, <1>5 DEF Next

-----------------------------------------------------------------------------
(* The breaker *)

Raised == {"ON", "COOLDOWN"}

\* The last report raised the breaker, and nothing has lost it.
Told == owed \in Raised /\ ~forgot

\* The process still has what was reported last, or will read it.
Remembered ==
  \/ prev = owed
  \/ prev = "none" /\ loaded = owed
  \/ prev = "none" /\ loaded = "unread" /\ saved = owed

\* A tick under way that goes by a raised breaker.
Underway(q, told) ==
  /\ q.step # "idle"
  /\ told => q.hint \in Raised /\ q.snap.breaker \in Raised \cup {"none"}

Resting(q) == q.step = "idle" /\ q.snap.breaker = "none"

BreakerInv ==
  /\ Told => Remembered
  /\ Resting(Tick) \/ Underway(Tick, Told)

LEMMA PassUnderway ==
  ASSUME NEW q \in Requests, NEW told \in BOOLEAN, Underway(q, told)
  PROVE  Underway(Pass(q), told)
<1>1. Pass(q).step = "next" /\ Pass(q).hint = q.hint
  BY DEF Pass, Requests
<1>2. Pass(q).snap = Summary(q.snap)
  BY DEF Pass, Requests
<1>3. Summary(q.snap).breaker = q.snap.breaker
  BY DEF Summary, NoSnap
<1> QED
  BY <1>1, <1>2, <1>3 DEF Underway

LEMMA ActUnderway ==
  ASSUME NEW q \in Requests, NEW told \in BOOLEAN, Underway(q, told),
         NEW type, NEW reason
  PROVE  Underway(Act(q, type, reason), told)
<1> DEFINE c == [q EXCEPT !.step = "check", !.key = Key(type, Current, reason)]
<1>1. c.step = "check" /\ c.hint = q.hint /\ c.snap = q.snap
  BY DEF Requests
<1> HIDE DEF c
<1>2. Underway(c, told)
  BY <1>1 DEF Underway
<1> QED
  BY <1>2, PassUnderway DEF Act, c

LEMMA AfterDecisionUnderway ==
  ASSUME Tick \in Requests, Tick.step # "idle", NEW s \in Snaps, NEW facts,
         NEW told \in BOOLEAN, told => s.breaker \in Raised
  PROVE  Underway(AfterDecision(Evaluate(facts, s.breaker), s), told)
<1> DEFINE d == Evaluate(facts, s.breaker)
           judged == [Tick EXCEPT !.snap = Summary(s), !.hint = s.breaker]
<1>1. Summary(s) \in Snaps /\ s.breaker \in Hints /\ Summary(s).breaker = s.breaker
  BY SummaryType DEF Snaps, Summary, NoSnap
<1>2. judged \in Requests
  BY <1>1 DEF Requests
<1>3. judged.hint = s.breaker /\ judged.snap = Summary(s) /\ judged.step = Tick.step
  BY DEF Requests
<1>4. Underway([judged EXCEPT !.step = "review", !.key = Rebalance(Current),
                              !.snap = s], told)
  <2> DEFINE c == [judged EXCEPT !.step = "review", !.key = Rebalance(Current),
                                 !.snap = s]
  <2>1. c.step = "review" /\ c.hint = s.breaker /\ c.snap = s
    BY <1>2, <1>3 DEF Requests
  <2> HIDE DEF c
  <2>2. Underway(c, told)
    BY <2>1 DEF Underway
  <2> QED
    BY <2>2 DEF c
<1> HIDE DEF d, judged
<1>5. Underway(judged, told)
  BY <1>1, <1>3 DEF Underway
<1>6. Underway(AfterDecision(d, s), told)
  BY <1>2, <1>4, <1>5, PassUnderway, ActUnderway DEF AfterDecision, judged
<1> QED
  BY <1>6 DEF d

LEMMA AfterReviewUnderway ==
  ASSUME Tick \in Requests, NEW review, NEW told \in BOOLEAN, Underway(Tick, told)
  PROVE  Underway(AfterReview(review), told)
<1>1. Underway(Skip, told) /\ Underway(ClaimOnly, told) /\ Underway(Exit, told)
  BY PassUnderway, ActUnderway DEF Skip, ClaimOnly, Exit
<1>2. Underway([Tick EXCEPT !.step = "request"], told)
  BY DEF Underway, Requests
<1> QED
  BY <1>1, <1>2 DEF AfterReview

LEMMA ManagementKeepsBreaker ==
  ASSUME TypeOK, BreakerInv, Management
  PROVE  BreakerInv'
<1> USE DEF stores, outside, observers
<1>t. StoreTypes /\ req \in [Requesters -> Requests] /\ Tick \in Requests
  BY TypeParts DEF Tick, Requesters
<1>g. ASSUME NEW q, Goto("management", q)
      PROVE  Tick' = q
  BY <1>t, <1>g DEF Goto, Tick, Requesters
<1>i. Resting(Idle)
  BY DEF Resting, Idle, NoSnap
<1>b. Told \in BOOLEAN /\ (Told => Remembered)
  BY DEF Told, BreakerInv
<1>u. Tick.step # "idle" => Underway(Tick, Told) /\ Underway(Skip, Told)
  BY <1>t, <1>b, PassUnderway DEF BreakerInv, Resting, Skip
<1>1. CASE BeginManagement
  <2>1. UNCHANGED <<prev, saved, owed, forgot>> /\ Told' = Told
    BY <1>1 DEF BeginManagement, Told
  <2>2. Told' => Remembered' /\ Hint(loaded') \in Raised
    BY <1>1, <1>b, <2>1 DEF BeginManagement, Remembered, Told, Hint, Raised
  <2>3. PICK todo, rose :
          Goto("management", [Idle EXCEPT !.step = "next", !.todo = todo,
                                          !.rose = rose, !.hint = Hint(loaded')])
    BY <1>1 DEF BeginManagement
  <2>4. Tick' = [Idle EXCEPT !.step = "next", !.todo = todo, !.rose = rose,
                             !.hint = Hint(loaded')]
    BY <2>3, <1>g
  <2>5. Tick'.step = "next" /\ Tick'.hint = Hint(loaded') /\ Tick'.snap.breaker = "none"
    BY <2>4 DEF Idle, NoSnap
  <2> QED
    BY <2>2, <2>5 DEF BreakerInv, Underway
<1>2. CASE RefreshPeak
  <2>1. Told' = Told /\ Remembered' = Remembered
    BY <1>2 DEF RefreshPeak, Told, Remembered
  <2>2. Tick'.step = "next" /\ Tick'.hint = Tick.hint /\ Tick'.snap = Tick.snap
    BY <1>2, <1>t, <1>g DEF RefreshPeak, Requests, At, Tick
  <2>3. Underway(Tick, Told)
    BY <1>2, <1>u DEF RefreshPeak, At, Tick
  <2> QED
    BY <1>b, <2>1, <2>2, <2>3 DEF BreakerInv, Underway
<1>3. ASSUME NEW p \in Positions, Judge(p)
      PROVE  BreakerInv'
  <2>1. Told' = Told /\ Remembered' = Remembered
    BY <1>3 DEF Judge, Told, Remembered
  <2>2. Tick.step = "next" /\ Underway(Tick, Told)
    BY <1>3, <1>u DEF Judge, Judging, At, Tick
  <2>3. Snap(Tick.hint) \in Snaps
    BY SnapType
  <2>4. Told => Snap(Tick.hint).breaker \in Raised
    BY <2>2 DEF Underway, Snap, Lifecycle, Raised
  <2>5. PICK facts \in Facts :
          Tick' = AfterDecision(Evaluate(facts, Snap(Tick.hint).breaker), Snap(Tick.hint))
    BY <1>3, <1>g DEF Judge
  <2>6. Underway(Tick', Told)
    BY <2>2, <2>3, <2>4, <2>5, <1>t, <1>b, AfterDecisionUnderway
  <2> QED
    BY <1>b, <2>1, <2>6 DEF BreakerInv
<1>4. CASE JudgeFails
  <2>1. Told' = Told /\ Remembered' = Remembered /\ Tick' = Idle
    BY <1>4, <1>g DEF JudgeFails, Leave, Told, Remembered
  <2> QED
    BY <1>b, <1>i, <2>1 DEF BreakerInv
<1>5. CASE CheckActive
  <2>1. Told' = Told /\ Remembered' = Remembered
    BY <1>5 DEF CheckActive, Told, Remembered
  <2>2. Underway(Tick, Told) /\ Underway(Skip, Told)
    BY <1>5, <1>u DEF CheckActive, At, Tick
  <2> DEFINE c == [Tick EXCEPT !.step = "request", !.snap.live = Live,
                               !.snap.known = Stored]
  <2>3. c.step = "request" /\ c.hint = Tick.hint /\ c.snap.breaker = Tick.snap.breaker
    BY <1>t, RequestType DEF Requests, Snaps
  <2>4. Tick' = Skip \/ Tick' = c
    BY <1>5, <1>g DEF CheckActive
  <2> HIDE DEF c
  <2>5. Underway(c, Told)
    BY <2>2, <2>3 DEF Underway
  <2> QED
    BY <1>b, <2>1, <2>2, <2>4, <2>5 DEF BreakerInv
<1>6. CASE ReviewRebalance \/ PlanMissing
  <2>1. Told' = Told /\ Remembered' = Remembered
    BY <1>6 DEF ReviewRebalance, PlanMissing, Told, Remembered
  <2>2. Underway(Tick, Told) /\ Underway(Skip, Told)
    BY <1>6, <1>u DEF ReviewRebalance, PlanMissing, At, Tick
  <2>3. Tick' = Skip \/ \E review \in Reviews : Tick' = AfterReview(review)
    BY <1>6, <1>g DEF ReviewRebalance, PlanMissing
  <2>4. Underway(Tick', Told)
    BY <2>2, <2>3, <1>t, <1>b, AfterReviewUnderway
  <2> QED
    BY <1>b, <2>1, <2>4 DEF BreakerInv
<1>7. CASE RequestManaged
  <2>1. Told' = Told /\ Remembered' = Remembered
    BY <1>7 DEF RequestManaged, Ask, Enqueue, Told, Remembered
  <2>2. Underway(Skip, Told)
    BY <1>7, <1>u DEF RequestManaged, At, Tick
  <2>3. Tick' = Skip \/ Tick' = Idle
    BY <1>7, <1>g DEF RequestManaged, Ask, Leave
  <2> QED
    BY <1>b, <1>i, <2>1, <2>2, <2>3 DEF BreakerInv
<1>8. CASE EndManagement
  <2>1. Tick' = Idle
    BY <1>8, <1>g DEF EndManagement, Leave
  <2>2. CASE Tick.snap.breaker # "none"
    BY <1>8, <1>i, <2>1, <2>2 DEF EndManagement, BreakerInv, Told, Remembered
  <2>3. CASE Tick.snap.breaker = "none"
    BY <1>8, <1>i, <1>b, <2>1, <2>3
       DEF EndManagement, BreakerInv, Told, Remembered
  <2> QED
    BY <2>2, <2>3
<1>9. CASE SkippedTick
  <2>1. ~Told' /\ Tick' = Tick /\ Tick.step = "idle"
    BY <1>9 DEF SkippedTick, Told, At, Tick
  <2>2. Resting(Tick)
    BY <2>1 DEF BreakerInv, Underway
  <2> QED
    BY <2>1, <2>2 DEF BreakerInv
<1> QED
  BY <1>1, <1>2, <1>3, <1>4, <1>5, <1>6, <1>7, <1>8, <1>9 DEF Management

LEMMA StepKeepsBreaker ==
  ASSUME TypeOK, BreakerInv, [Next]_vars
  PROVE  BreakerInv'
<1> USE DEF stores, outside, process, observers
<1>t. req \in [Requesters -> Requests] /\ "management" \in Requesters
  BY DEF TypeOK, Requesters
<1>1. CASE Management
  BY <1>1, ManagementKeepsBreaker
<1>2. CASE CooldownElapses
  <2>1. Tick' = Tick /\ forgot' = forgot /\ owed' = Cooled(owed)
    BY <1>2 DEF CooldownElapses, Tick
  <2>2. Told' => Told /\ owed' = owed
    BY <2>1 DEF Told, Cooled, Raised
  <2>3. Told' => Remembered'
    BY <1>2, <2>2 DEF BreakerInv, CooldownElapses, Remembered, Cooled
  <2> QED
    BY <2>1, <2>2, <2>3 DEF BreakerInv, Underway
<1>3. CASE Restart
  <2>1. Tick' = Idle
    BY <1>3, <1>t DEF Restart, Tick
  <2>2. Told' => Remembered'
    BY <1>3 DEF Restart, Told, Remembered
  <2> QED
    BY <2>1, <2>2 DEF BreakerInv, Resting, Idle, NoSnap
<1>4. CASE ~Management /\ ~CooldownElapses /\ ~Restart
  <2>1. Next => Screening \/ Operator \/ Compound \/ World
    BY <1>4 DEF Next
  <2>2. UNCHANGED <<prev, loaded, saved, owed, forgot>>
    <3>1. CASE Screening \/ Operator \/ Compound
      BY <3>1 DEF Screening, BeginScreening, ScreenShortlist, EndScreening, AutoDeploy,
           RejectCandidate, Operator, RequestCommanded, Trip, Clear, Command,
           Compound, RequestCompound, BeginCompound
    <3>2. CASE World
      BY <1>4, <3>2 DEF World, LossReached, NextDay, HourPasses, Depart, Rise,
           Reconcile, Start, Finish
    <3> QED
      BY <2>1, <3>1, <3>2 DEF vars
  <2>3. Tick' = Tick \/ Tick' = Idle
    BY <1>4, <1>t, OthersWait DEF Tick, vars
  <2>4. Told' = Told /\ Remembered' = Remembered
    BY <2>2 DEF Told, Remembered
  <2> QED
    BY <2>3, <2>4 DEF BreakerInv, Resting, Idle, NoSnap
<1> QED
  BY <1>1, <1>2, <1>3, <1>4

-----------------------------------------------------------------------------
(* Snapshots and what becomes of them: the operators take the stored       *)
(* actions and the hour's deploys as arguments, now and after a step.      *)

\* The deploys a snapshot has counted and that still count.
Covered(s, stored, hour) ==
  {k \in s.known \cap Deploys :
     stored[k] = "none" \/ (k \in hour /\ stored[k] # "FAILED")}

Counts(s, stored, hour) ==
  Cardinality(Covered(s, stored, hour)) <= s.recent + AtLeast(s.spare, 0)

\* What the snapshot knew is stored, and only what it showed as live is live.
Grounded(s, stored) ==
  \A k \in s.known :
    /\ stored[k] # "none"
    /\ stored[k] \in {"QUEUED", "RUNNING"} => k \in s.live

\* How a step may change the stores: nothing is forgotten, what has ended has
\* ended, and a deploy of the hour is a new action.
Evolved(stored, hour, storedNext, hourNext) ==
  /\ \A k \in Keys :
       /\ stored[k] # "none" => storedNext[k] # "none"
       /\ stored[k] \in {"DONE", "FAILED"} => storedNext[k] = stored[k]
  /\ \A k \in hourNext \ hour : stored[k] = "none" /\ storedNext[k] # "none"

LEMMA CountsLast ==
  ASSUME NEW s \in Snaps, NEW a, NEW d, NEW b, NEW e,
         Evolved(a, d, b, e), Counts(s, a, d)
  PROVE  Counts(s, b, e)
<1>1. Covered(s, b, e) \subseteq Covered(s, a, d)
  BY DEF Covered, Evolved, Snaps, Deploys, Keys
<1>2. Covered(s, a, d) \subseteq Keys
  BY DEF Covered, Deploys, Keys
<1>3. /\ IsFiniteSet(Covered(s, a, d))
      /\ Cardinality(Covered(s, b, e)) <= Cardinality(Covered(s, a, d))
  BY <1>1, <1>2, KeysFinite, FS_Subset
<1>4. Cardinality(Covered(s, a, d)) \in Nat /\ Cardinality(Covered(s, b, e)) \in Nat
  BY <1>1, <1>3, FS_CardinalityType, FS_Subset
<1>5. s.recent + AtLeast(s.spare, 0) \in Int
  BY DEF Snaps, AtLeast
<1> QED
  BY <1>3, <1>4, <1>5 DEF Counts

LEMMA GroundedLasts ==
  ASSUME NEW s \in Snaps, NEW a \in [Keys -> {"none", "QUEUED", "RUNNING", "DONE", "FAILED"}],
         NEW b, NEW d, NEW e, Evolved(a, d, b, e), Grounded(s, a)
  PROVE  Grounded(s, b)
  BY DEF Grounded, Evolved, Snaps

LEMMA FreshSnapshot ==
  ASSUME TypeOK, NEW hint
  PROVE  /\ Counts(Snap(hint), action, recent)
         /\ Grounded(Snap(hint), action)
         /\ Snap(hint).spare = 0
<1> DEFINE s == Snap(hint)
<1>1. s \in Snaps /\ s.spare = 0 /\ s.known = Stored /\ s.live = Live
      /\ s.recent = Cardinality(RecentDeploys)
  BY SnapType DEF Snap
<1> HIDE DEF s
<1>2. Grounded(s, action)
  BY <1>1 DEF Grounded, Stored, Live
<1>3. Covered(s, action, recent) \subseteq RecentDeploys
  BY <1>1 DEF Covered, Stored, RecentDeploys
<1>4. RecentDeploys \subseteq Keys
  BY DEF RecentDeploys, TypeOK, Keys
<1>5. /\ IsFiniteSet(RecentDeploys)
      /\ Cardinality(Covered(s, action, recent)) <= Cardinality(RecentDeploys)
  BY <1>3, <1>4, KeysFinite, FS_Subset
<1>6. Cardinality(RecentDeploys) + AtLeast(0, 0) = Cardinality(RecentDeploys)
  BY <1>5, FS_CardinalityType DEF AtLeast
<1>7. Counts(s, action, recent)
  BY <1>1, <1>5, <1>6 DEF Counts
<1> QED
  BY <1>1, <1>2, <1>7 DEF s

\* A requester of writes is a request away from its snapshot.
ManagedFits(q, stored) ==
  /\ q.step \in {"check", "review", "request"} =>
       q.key \in Keys \ Deploys /\ q.snap.spare = 0
  /\ q.step = "review" => FirstOf(q.todo) \in Positions /\ q.key[1] = "REBALANCE"
  /\ q.step = "request" => q.key[1] = "REBALANCE" \/ q.snap.live = {}
  /\ q.step \in {"review", "request"} => Grounded(q.snap, stored)

\* A dry run counts deploys that are not stored; nothing is asked for then.
ScreenedFits(q, stored, hour) ==
  q.step = "loop" => /\ q.snap.spare \in Nat
                     /\ Counts(q.snap, stored, hour)
                     /\ q.snap.spare = 0 => Grounded(q.snap, stored)

CommandedFits(q, stored, hour) ==
  q.step = "request" => /\ q.key \in Keys
                        /\ q.key[1] \in {"CLOSE", "DEPLOY", "REBALANCE"}
                        /\ q.snap.spare = 0
                        /\ Counts(q.snap, stored, hour)
                        /\ Grounded(q.snap, stored)

\* The claim whose proceeds are deployed waits for the answer.
CompoundedFits(q, stored, hour) ==
  q.step = "request" => /\ q.key \in Deploys
                        /\ q.snap.spare = -1
                        /\ Counts(q.snap, stored, hour)
                        /\ Grounded(q.snap, stored)
                        /\ \E k \in Claims \cap q.snap.live : stored[k] = "RUNNING"

LEMMA FitsLast ==
  ASSUME NEW q \in Requests,
         NEW a \in [Keys -> {"none", "QUEUED", "RUNNING", "DONE", "FAILED"}],
         NEW b, NEW d, NEW e, Evolved(a, d, b, e)
  PROVE  /\ ManagedFits(q, a) => ManagedFits(q, b)
         /\ ScreenedFits(q, a, d) => ScreenedFits(q, b, e)
         /\ CommandedFits(q, a, d) => CommandedFits(q, b, e)
         /\ (\A k \in Claims : a[k] = "RUNNING" => b[k] = "RUNNING")
              => (CompoundedFits(q, a, d) => CompoundedFits(q, b, e))
<1>1. q.snap \in Snaps
  BY RequestType
<1>2. Grounded(q.snap, a) => Grounded(q.snap, b)
  BY <1>1, GroundedLasts
<1>3. Counts(q.snap, a, d) => Counts(q.snap, b, e)
  BY <1>1, CountsLast
<1>4. ManagedFits(q, a) => ManagedFits(q, b)
  BY <1>2 DEF ManagedFits
<1>5. ScreenedFits(q, a, d) => ScreenedFits(q, b, e)
  BY <1>2, <1>3 DEF ScreenedFits
<1>6. CommandedFits(q, a, d) => CommandedFits(q, b, e)
  BY <1>2, <1>3 DEF CommandedFits
<1>7. (\A k \in Claims : a[k] = "RUNNING" => b[k] = "RUNNING")
        => (CompoundedFits(q, a, d) => CompoundedFits(q, b, e))
  BY <1>2, <1>3 DEF CompoundedFits
<1> QED
  BY <1>4, <1>5, <1>6, <1>7

-----------------------------------------------------------------------------
(* How the steps change the stores *)

LEMMA EnqueueEvolves ==
  ASSUME TypeOK, NEW k, NEW s, Enqueue(k, s)
  PROVE  Evolved(action, recent, action', recent') /\ raced \subseteq raced'
<1>1. action \in [Keys -> {"none", "QUEUED", "RUNNING", "DONE", "FAILED"}]
  BY DEF TypeOK
<1>2. \A l \in Keys : action[l] # "none" => action'[l] = action[l]
  BY <1>1 DEF Enqueue
<1>3. \A l \in recent' \ recent : l = k /\ k \in Deploys /\ action[k] = "none"
  BY DEF Enqueue
<1>4. k \in Deploys /\ action[k] = "none" => action'[k] # "none"
  BY <1>1 DEF Enqueue, Keys
<1>5. raced \subseteq raced'
  BY DEF Enqueue
<1> QED
  BY <1>2, <1>3, <1>4, <1>5 DEF Evolved

LEMMA QuietEvolves ==
  ASSUME TypeOK, action' = action, recent' \subseteq recent
  PROVE  Evolved(action, recent, action', recent')
  BY DEF Evolved

LEMMA NextEvolves ==
  ASSUME TypeOK, Next
  PROVE  Evolved(action, recent, action', recent') /\ raced \subseteq raced'
<1> USE DEF stores, outside, process, observers
<1>t. action \in [Keys -> {"none", "QUEUED", "RUNNING", "DONE", "FAILED"}]
  BY DEF TypeOK
<1>a. ASSUME NEW r, NEW k, NEW s, NEW state, Ask(r, k, s, state)
      PROVE  Evolved(action, recent, action', recent') /\ raced \subseteq raced'
  BY <1>a, EnqueueEvolves, QuietEvolves DEF Ask
<1>1. CASE Management
  <2>1. CASE RequestManaged
    BY <2>1, <1>a DEF RequestManaged
  <2>2. CASE ~RequestManaged
    <3>1. UNCHANGED <<action, recent, raced>>
      BY <2>2, <1>1
         DEF Management, BeginManagement, RefreshPeak, Judge, JudgeFails, CheckActive,
             ReviewRebalance, PlanMissing, EndManagement, SkippedTick
    <3> QED
      BY <3>1, QuietEvolves
  <2> QED
    BY <2>1, <2>2
<1>2. CASE Screening
  <2>1. ASSUME NEW p \in Positions, AutoDeploy(p)
        PROVE  Evolved(action, recent, action', recent') /\ raced \subseteq raced'
    <3>1. Enqueue(Deploy(p), Scan.snap) \/ UNCHANGED <<action, recent, raced>>
      BY <2>1 DEF AutoDeploy
    <3> QED
      BY <3>1, EnqueueEvolves, QuietEvolves
  <2>2. CASE ~\E p \in Positions : AutoDeploy(p)
    <3>1. UNCHANGED <<action, recent, raced>>
      BY <1>2, <2>2 DEF Screening, BeginScreening, ScreenShortlist, EndScreening,
                        RejectCandidate
    <3> QED
      BY <3>1, QuietEvolves
  <2> QED
    BY <2>1, <2>2
<1>3. CASE Operator
  <2>1. CASE RequestCommanded
    BY <2>1, <1>a, QuietEvolves DEF RequestCommanded
  <2>2. CASE ~RequestCommanded
    BY <1>3, <2>2, QuietEvolves DEF Operator, Trip, Clear, Command
  <2> QED
    BY <2>1, <2>2
<1>4. CASE Compound
  <2>1. CASE RequestCompound
    BY <2>1, <1>a DEF RequestCompound
  <2>2. CASE ~RequestCompound
    BY <1>4, <2>2, QuietEvolves DEF Compound, BeginCompound
  <2> QED
    BY <2>1, <2>2
<1>5. CASE World
  <2>1. ASSUME NEW k \in Keys, Start(k)
        PROVE  Evolved(action, recent, action', recent') /\ raced \subseteq raced'
    BY <2>1, <1>t DEF Start, Evolved
  <2>2. ASSUME NEW k \in Keys, Finish(k)
        PROVE  Evolved(action, recent, action', recent') /\ raced \subseteq raced'
    <3>1. PICK o \in Outcomes(k) : action' = [action EXCEPT ![k] = o.result]
      BY <2>2 DEF Finish
    <3>2. o.result \in {"DONE", "FAILED"}
      BY <3>1, OutcomeType, TypeParts
    <3> QED
      BY <2>2, <3>1, <3>2, <1>t DEF Finish, Evolved
  <2>3. CASE ~\E k \in Keys : Start(k) \/ Finish(k)
    <3>1. UNCHANGED <<action, raced>> /\ recent' \subseteq recent
      BY <1>5, <2>3 DEF World, LossReached, NextDay, HourPasses, CooldownElapses,
                        Restart, Depart, Rise, Reconcile
    <3> QED
      BY <3>1, QuietEvolves
  <2> QED
    BY <2>1, <2>2, <2>3
<1> QED
  BY <1>1, <1>2, <1>3, <1>4, <1>5 DEF Next

\* A claim under way does not end under the deploy of its proceeds.
LEMMA ClaimsWait ==
  ASSUME TypeOK, Next, req["compound"].step = "request",
         req'["compound"] = req["compound"], NEW c \in Claims, action[c] = "RUNNING"
  PROVE  action'[c] = "RUNNING"
<1> USE DEF stores, outside, process, observers
<1>t. action \in [Keys -> {"none", "QUEUED", "RUNNING", "DONE", "FAILED"}] /\ c \in Keys
  BY DEF TypeOK, Keys
<1>e. ASSUME NEW k, NEW s, Enqueue(k, s)
      PROVE  action'[c] = "RUNNING"
  BY <1>e, <1>t DEF Enqueue
<1>a. ASSUME NEW r, NEW k, NEW s, NEW state, Ask(r, k, s, state)
      PROVE  action'[c] = "RUNNING"
  BY <1>a, <1>e DEF Ask
<1>1. CASE Management
  BY <1>1, <1>a DEF Management, BeginManagement, RefreshPeak, Judge, JudgeFails,
     CheckActive, ReviewRebalance, PlanMissing, RequestManaged, EndManagement, SkippedTick
<1>2. CASE Screening
  BY <1>2, <1>e DEF Screening, BeginScreening, ScreenShortlist, EndScreening, AutoDeploy,
                    RejectCandidate
<1>3. CASE Operator \/ Compound
  BY <1>3, <1>a DEF Operator, RequestCommanded, Trip, Clear, Command, Compound,
                    RequestCompound, BeginCompound
<1>4. CASE World
  <2>1. ASSUME NEW k \in Keys, Start(k)
        PROVE  action'[c] = "RUNNING"
    BY <2>1, <1>t DEF Start
  <2>2. ASSUME NEW k \in Keys, Finish(k)
        PROVE  action'[c] = "RUNNING"
    <3>1. k \notin Claims
      BY <2>2 DEF Finish
    <3> QED
      BY <2>2, <3>1, <1>t DEF Finish
  <2>3. CASE ~\E k \in Keys : Start(k) \/ Finish(k)
    BY <1>4, <2>3 DEF World, LossReached, NextDay, HourPasses, CooldownElapses,
                      Restart, Depart, Rise, Reconcile
  <2> QED
    BY <2>1, <2>2, <2>3
<1> QED
  BY <1>1, <1>2, <1>3, <1>4 DEF Next

-----------------------------------------------------------------------------
(* The requesters keep to their snapshots *)

LEMMA AsideFits ==
  ASSUME NEW q, q.step \notin {"check", "review", "request"}, NEW b
  PROVE  ManagedFits(q, b)
  BY DEF ManagedFits

LEMMA PassFits ==
  ASSUME NEW q \in Requests, NEW b
  PROVE  ManagedFits(Pass(q), b)
<1>1. Pass(q).step = "next"
  BY DEF Pass, Requests
<1> QED
  BY <1>1, AsideFits

LEMMA ActFits ==
  ASSUME NEW q \in Requests, q.snap.spare = 0, NEW type, NEW reason, NEW b,
         <<type, reason>> \in Actable, Current \in Positions
  PROVE  ManagedFits(Act(q, type, reason), b)
<1> DEFINE c == [q EXCEPT !.step = "check", !.key = Key(type, Current, reason)]
<1>1. Key(type, Current, reason) \in Keys \ Deploys
  BY KeyTypes DEF Actable, Deploys, Deploy, Key
<1>2. c.step = "check" /\ c.key = Key(type, Current, reason) /\ c.snap = q.snap
  BY DEF Requests
<1> HIDE DEF c
<1>3. ManagedFits(c, b)
  BY <1>1, <1>2 DEF ManagedFits
<1> QED
  BY <1>3, PassFits DEF Act, c

LEMMA RebalanceKey ==
  ASSUME NEW p \in Positions
  PROVE  Rebalance(p) \in Keys \ Deploys /\ Rebalance(p)[1] = "REBALANCE"
  BY KeyTypes DEF Rebalance, Key, Deploys, Deploy

LEMMA AfterDecisionFits ==
  ASSUME Tick \in Requests, Current \in Positions, NEW s \in Snaps, NEW facts,
         NEW b, Grounded(s, b), s.spare = 0
  PROVE  ManagedFits(AfterDecision(Evaluate(facts, s.breaker), s), b)
<1> DEFINE d == Evaluate(facts, s.breaker)
           judged == [Tick EXCEPT !.snap = Summary(s), !.hint = s.breaker]
           c == [judged EXCEPT !.step = "review", !.key = Rebalance(Current), !.snap = s]
<1>1. Summary(s) \in Snaps /\ s.breaker \in Hints
  BY SummaryType DEF Snaps
<1>2. judged \in Requests
  BY <1>1 DEF Requests
<1>3. c.step = "review" /\ c.key = Rebalance(Current) /\ c.snap = s /\ c.todo = Tick.todo
  BY DEF Requests
<1>s. judged.snap.spare = 0
  BY DEF Requests, Summary, NoSnap
<1>4. d.type \in {"CLOSE", "CLAIM_FEES"} => <<d.type, d.reason>> \in Actable
  BY DecisionType
<1> HIDE DEF d, judged, c
<1>5. ManagedFits(c, b)
  BY <1>3, RebalanceKey DEF ManagedFits, Current
<1>6. ManagedFits(AfterDecision(d, s), b)
  BY <1>2, <1>s, <1>4, <1>5, PassFits, ActFits DEF AfterDecision, judged, c
<1> QED
  BY <1>6 DEF d

LEMMA AfterReviewFits ==
  ASSUME Tick \in Requests, Tick.step = "review", NEW b, ManagedFits(Tick, b),
         NEW review
  PROVE  ManagedFits(AfterReview(review), b)
<1> DEFINE c == [Tick EXCEPT !.step = "request"]
<1>0. Current \in Positions /\ Tick.snap.spare = 0
  BY DEF ManagedFits, Current
<1>1. ManagedFits(Skip, b) /\ ManagedFits(ClaimOnly, b) /\ ManagedFits(Exit, b)
  BY <1>0, PassFits, ActFits DEF Skip, ClaimOnly, Exit, Actable, Reasons
<1>2. c.step = "request" /\ c.key = Tick.key /\ c.snap = Tick.snap
  BY DEF Requests
<1> HIDE DEF c
<1>3. ManagedFits(c, b)
  BY <1>2 DEF ManagedFits
<1> QED
  BY <1>1, <1>3 DEF AfterReview, c

LEMMA ManagementFits ==
  ASSUME TypeOK, ManagedFits(Tick, action), Management
  PROVE  ManagedFits(Tick, action)'
<1> USE DEF stores, outside, observers
<1>t. req \in [Requesters -> Requests] /\ Tick \in Requests
  BY DEF TypeOK, Tick, Requesters
<1>g. ASSUME NEW q, Goto("management", q)
      PROVE  Tick' = q
  BY <1>t, <1>g DEF Goto, Tick, Requesters
<1>i. ManagedFits(Idle, action')
  BY AsideFits DEF Idle
<1>s. ManagedFits(Skip, action')
  BY <1>t, PassFits DEF Skip
<1>1. CASE BeginManagement
  <2>1. PICK todo, rose, hint :
          Goto("management", [Idle EXCEPT !.step = "next", !.todo = todo,
                                          !.rose = rose, !.hint = hint])
    BY <1>1 DEF BeginManagement
  <2>2. Tick' = [Idle EXCEPT !.step = "next", !.todo = todo, !.rose = rose,
                             !.hint = hint]
    BY <2>1, <1>g
  <2>3. Tick'.step = "next"
    BY <2>2 DEF Idle
  <2> QED
    BY <2>3, AsideFits
<1>2. CASE RefreshPeak
  <2>1. Tick'.step = "next"
    BY <1>2, <1>t, <1>g DEF RefreshPeak, Requests, At, Tick
  <2> QED
    BY <2>1, AsideFits
<1>3. ASSUME NEW p \in Positions, Judge(p)
      PROVE  ManagedFits(Tick, action)'
  <2>1. Snap(Tick.hint) \in Snaps /\ Grounded(Snap(Tick.hint), action)
        /\ Snap(Tick.hint).spare = 0
    BY SnapType, FreshSnapshot
  <2>2. PICK facts \in Facts :
          Tick' = AfterDecision(Evaluate(facts, Snap(Tick.hint).breaker), Snap(Tick.hint))
    BY <1>3, <1>g DEF Judge
  <2>3. Current \in Positions /\ action' = action
    BY <1>3 DEF Judge
  <2>4. ManagedFits(Tick', action)
    BY <2>1, <2>2, <2>3, <1>t, AfterDecisionFits
  <2> QED
    BY <2>3, <2>4
<1>4. CASE JudgeFails \/ EndManagement
  BY <1>4, <1>g, <1>i DEF JudgeFails, EndManagement, Leave
<1>5. CASE CheckActive
  <2> DEFINE c == [Tick EXCEPT !.step = "request", !.snap.live = Live,
                               !.snap.known = Stored]
  <2>1. CASE ActiveWrite
    BY <1>5, <2>1, <1>g, <1>s DEF CheckActive
  <2>2. CASE ~ActiveWrite
    <3>1. Tick' = c /\ action' = action /\ Live = {} /\ Tick.step = "check"
      BY <1>5, <2>2, <1>g DEF CheckActive, ActiveWrite, At, Tick
    <3>2. c.step = "request" /\ c.key = Tick.key /\ c.snap.live = Live
          /\ c.snap.known = Stored /\ c.snap.spare = Tick.snap.spare
      BY <1>t, RequestType DEF Requests, Snaps
    <3> HIDE DEF c
    <3>3. Grounded(c.snap, action)
      BY <3>2 DEF Grounded, Stored, Live
    <3>4. ManagedFits(c, action)
      BY <3>1, <3>2, <3>3 DEF ManagedFits
    <3> QED
      BY <3>1, <3>4
  <2> QED
    BY <2>1, <2>2
<1>6. CASE ReviewRebalance \/ PlanMissing
  <2>1. action' = action /\ Tick.step = "review"
    BY <1>6 DEF ReviewRebalance, PlanMissing, At, Tick
  <2>2. Tick' = Skip \/ \E review \in Reviews : Tick' = AfterReview(review)
    BY <1>6, <1>g DEF ReviewRebalance, PlanMissing
  <2>3. ManagedFits(Tick', action)
    BY <2>1, <2>2, <1>t, <1>s, AfterReviewFits
  <2> QED
    BY <2>1, <2>3
<1>7. CASE RequestManaged
  <2>1. Tick' = Skip \/ Tick' = Idle
    BY <1>7, <1>g DEF RequestManaged, Ask, Leave
  <2> QED
    BY <2>1, <1>s, <1>i
<1>8. CASE SkippedTick
  <2>1. Tick' = Tick /\ action' = action
    BY <1>8 DEF SkippedTick, Tick
  <2> QED
    BY <2>1
<1> QED
  BY <1>1, <1>2, <1>3, <1>4, <1>5, <1>6, <1>7, <1>8 DEF Management

LEMMA CountsOneMore ==
  ASSUME NEW s \in Snaps, s.spare \in Nat, NEW t \in Snaps, NEW k, NEW a, NEW d,
         t.known = s.known \cup {k}, t.spare = s.spare + 1, t.recent = s.recent,
         Counts(s, a, d)
  PROVE  Counts(t, a, d)
<1>1. Covered(s, a, d) \subseteq Keys
  BY DEF Covered, Deploys, Keys
<1>2. IsFiniteSet(Covered(s, a, d)) /\ Cardinality(Covered(s, a, d)) \in Nat
  BY <1>1, KeysFinite, FS_Subset, FS_CardinalityType
<1>3. /\ IsFiniteSet(Covered(s, a, d) \cup {k})
      /\ Cardinality(Covered(s, a, d) \cup {k}) <= Cardinality(Covered(s, a, d)) + 1
  <2> DEFINE c == Covered(s, a, d)
  <2> HIDE DEF c
  <2>1. IsFiniteSet(c) /\ Cardinality(c) \in Nat
    BY <1>2 DEF c
  <2>2. /\ IsFiniteSet(c \cup {k})
        /\ Cardinality(c \cup {k}) = IF k \in c THEN Cardinality(c) ELSE Cardinality(c) + 1
    BY <2>1, FS_AddElement
  <2>3. Cardinality(c \cup {k}) <= Cardinality(c) + 1
    BY <2>1, <2>2
  <2> QED
    BY <2>2, <2>3 DEF c
<1>4. Covered(t, a, d) \subseteq Covered(s, a, d) \cup {k}
  BY DEF Covered
<1>5. /\ Cardinality(Covered(t, a, d)) <= Cardinality(Covered(s, a, d) \cup {k})
      /\ Cardinality(Covered(t, a, d)) \in Nat
      /\ Cardinality(Covered(s, a, d) \cup {k}) \in Nat
      /\ Cardinality(Covered(s, a, d)) \in Nat
  BY <1>2, <1>3, <1>4, FS_Subset, FS_CardinalityType
<1>6. /\ t.recent + AtLeast(t.spare, 0) = s.recent + AtLeast(s.spare, 0) + 1
      /\ s.recent + AtLeast(s.spare, 0) \in Int
  BY DEF AtLeast, Snaps
<1>7. Cardinality(Covered(s, a, d)) <= s.recent + AtLeast(s.spare, 0)
  BY DEF Counts
<1>8. Cardinality(Covered(t, a, d)) <= t.recent + AtLeast(t.spare, 0)
  BY <1>3, <1>5, <1>6, <1>7
<1> QED
  BY <1>8 DEF Counts

LEMMA ScreeningFits ==
  ASSUME TypeOK, ScreenedFits(Scan, action, recent), Screening
  PROVE  ScreenedFits(Scan, action, recent)'
<1> USE DEF stores, outside, observers
<1>t. /\ req \in [Requesters -> Requests] /\ Scan \in Requests
      /\ action \in [Keys -> {"none", "QUEUED", "RUNNING", "DONE", "FAILED"}]
  BY DEF TypeOK, Scan, Requesters
<1>g. ASSUME NEW q, Goto("screening", q)
      PROVE  Scan' = q
  BY <1>t, <1>g DEF Goto, Scan, Requesters
<1>e. Evolved(action, recent, action', recent')
  BY NextEvolves DEF Next
<1>k. ASSUME NEW q, q.step = "loop", q.snap = Scan.snap, Scan.step = "loop", Scan' = q
      PROVE  ScreenedFits(Scan, action, recent)'
  <2>1. ScreenedFits(Scan, action', recent')
    BY <1>e, <1>t, FitsLast
  <2>2. ScreenedFits(q, action', recent')
    BY <2>1, <1>k DEF ScreenedFits
  <2> QED
    BY <2>2, <1>k
<1>1. CASE BeginScreening
  <2>1. PICK todo : Scan' = [Idle EXCEPT !.step = "shortlist", !.todo = todo]
    BY <1>1, <1>g DEF BeginScreening
  <2>2. Scan'.step = "shortlist"
    BY <2>1 DEF Idle
  <2> QED
    BY <2>2 DEF ScreenedFits
<1>2. CASE ScreenShortlist
  <2>1. PICK pairs \in SUBSET Scan.todo :
          \/ Goto("screening", [Scan EXCEPT !.step = "loop", !.todo = pairs,
                                            !.snap = Snap("none")])
          \/ Goto("screening", Idle)
    BY <1>2 DEF ScreenShortlist, SolPairs, Leave
  <2>2. \/ Scan' = [Scan EXCEPT !.step = "loop", !.todo = pairs, !.snap = Snap("none")]
        \/ Scan' = Idle
    BY <2>1, <1>g
  <2>3. action' = action /\ recent' = recent
    BY <1>2 DEF ScreenShortlist
  <2>4. Scan'.step = "loop" => Scan'.snap = Snap("none")
    <3>1. [Scan EXCEPT !.step = "loop", !.todo = pairs, !.snap = Snap("none")].snap
            = Snap("none")
      BY <1>t DEF Requests
    <3>2. Idle.step # "loop"
      BY DEF Idle
    <3> QED
      BY <2>2, <3>1, <3>2
  <2>5. /\ Counts(Snap("none"), action, recent)
        /\ Grounded(Snap("none"), action) /\ Snap("none").spare = 0
    BY FreshSnapshot
  <2> QED
    BY <2>3, <2>4, <2>5 DEF ScreenedFits
<1>3. CASE EndScreening
  BY <1>3, <1>g DEF EndScreening, Leave, ScreenedFits, Idle
<1>4. ASSUME NEW p \in Positions, AutoDeploy(p)
      PROVE  ScreenedFits(Scan, action, recent)'
  <2> DEFINE rest == [Scan EXCEPT !.todo = @ \ {p}]
             one == [rest EXCEPT !.snap.spare = @ + 1,
                                 !.snap.known = @ \cup {Deploy(p)}]
  <2>1. Scan' = one \/ Scan' = rest
    BY <1>4, <1>g DEF AutoDeploy
  <2>2. Scan.step = "loop"
    BY <1>4 DEF AutoDeploy, At, Scan
  <2>3. CASE Scan' = rest
    <3>1. rest.step = "loop" /\ rest.snap = Scan.snap
      BY <2>2, <1>t DEF Requests
    <3> QED
      BY <2>2, <2>3, <3>1, <1>k
  <2>4. CASE Scan' = one
    <3>1. Scan' \in Requests
      BY ScreeningType DEF TypeOK, Scan, Requesters
    <3>2. /\ one.snap.known = Scan.snap.known \cup {Deploy(p)}
          /\ one.snap.spare = Scan.snap.spare + 1 /\ one.snap.recent = Scan.snap.recent
      BY <1>t DEF Requests, Snaps
    <3>3. Scan.snap \in Snaps /\ Scan'.snap \in Snaps
      BY <3>1, <1>t, RequestType
    <3>4. Scan.snap.spare \in Nat /\ Counts(Scan.snap, action', recent')
      BY <2>2, <3>3, <1>e, CountsLast DEF ScreenedFits
    <3> HIDE DEF one, rest
    <3>5. Counts(Scan'.snap, action', recent')
      BY <2>4, <3>2, <3>3, <3>4, CountsOneMore
    <3>6. Scan'.snap.spare \in Nat /\ Scan'.snap.spare # 0
      BY <2>4, <3>2, <3>4
    <3> QED
      BY <3>5, <3>6 DEF ScreenedFits
  <2> HIDE DEF one, rest
  <2> QED
    BY <2>1, <2>3, <2>4
<1>5. ASSUME NEW p \in Positions, RejectCandidate(p)
      PROVE  ScreenedFits(Scan, action, recent)'
  <2>1. Scan' = [Scan EXCEPT !.todo = @ \ {p}] /\ Scan.step = "loop"
    BY <1>5, <1>g DEF RejectCandidate, At, Scan
  <2>2. [Scan EXCEPT !.todo = @ \ {p}].step = "loop"
        /\ [Scan EXCEPT !.todo = @ \ {p}].snap = Scan.snap
    BY <2>1, <1>t DEF Requests
  <2> QED
    BY <2>1, <2>2, <1>k
<1> QED
  BY <1>1, <1>2, <1>3, <1>4, <1>5 DEF Screening

LEMMA OperatorFits ==
  ASSUME TypeOK, CommandedFits(req["operator"], action, recent), Operator
  PROVE  CommandedFits(req["operator"], action, recent)'
<1> USE DEF stores, outside, process, observers
<1>t. req \in [Requesters -> Requests]
  BY DEF TypeOK
<1>g. ASSUME NEW q, Goto("operator", q)
      PROVE  req'["operator"] = q
  BY <1>t, <1>g DEF Goto, Requesters
<1>i. CommandedFits(Idle, action', recent')
  BY DEF CommandedFits, Idle
<1>1. CASE RequestCommanded
  BY <1>1, <1>g, <1>i DEF RequestCommanded, Ask, Leave
<1>2. CASE Trip \/ Clear
  <2>1. UNCHANGED <<req, action, recent>>
    BY <1>2 DEF Trip, Clear
  <2> QED
    BY <2>1
<1>3. ASSUME NEW p \in Positions, NEW k \in Commanded(p), Command(k)
      PROVE  CommandedFits(req["operator"], action, recent)'
  <2> DEFINE q == [Idle EXCEPT !.step = "request", !.key = k, !.snap = Snap("none")]
  <2>1. req'["operator"] = q /\ action' = action /\ recent' = recent
    BY <1>3, <1>g DEF Command
  <2>2. q.key = k /\ q.snap = Snap("none")
    BY DEF Idle
  <2>3. k \in Keys
    BY KeyTypes DEF Commanded, Reasons
  <2>4. k[1] \in {"CLOSE", "DEPLOY", "REBALANCE"}
    BY DEF Commanded, Key, Deploy, Rebalance
  <2> HIDE DEF q
  <2>5. CommandedFits(q, action, recent)
    BY <2>2, <2>3, <2>4, FreshSnapshot DEF CommandedFits
  <2> QED
    BY <2>1, <2>5
<1> QED
  BY <1>1, <1>2, <1>3 DEF Operator

LEMMA CompoundFits ==
  ASSUME TypeOK, CompoundedFits(req["compound"], action, recent), Compound
  PROVE  CompoundedFits(req["compound"], action, recent)'
<1> USE DEF stores, outside, process, observers
<1>t. req \in [Requesters -> Requests]
  BY DEF TypeOK
<1>g. ASSUME NEW q, Goto("compound", q)
      PROVE  req'["compound"] = q
  BY <1>t, <1>g DEF Goto, Requesters
<1>1. CASE RequestCompound
  <2>1. req'["compound"] = Idle \/ req'["compound"] = [Idle EXCEPT !.step = "asked"]
    BY <1>1, <1>g DEF RequestCompound, Ask, Leave
  <2>2. req'["compound"].step # "request"
    BY <2>1 DEF Idle
  <2> QED
    BY <2>2 DEF CompoundedFits
<1>2. ASSUME NEW p \in Positions, BeginCompound(p)
      PROVE  CompoundedFits(req["compound"], action, recent)'
  <2> DEFINE fresh == Snap("none")
             s == [fresh EXCEPT !.spare = -1]
             q == [Idle EXCEPT !.step = "request", !.key = Deploy(p), !.snap = s]
  <2>1. PICK c \in Claims : action[c] = "RUNNING" /\ req'["compound"] = q
    BY <1>2, <1>g DEF BeginCompound
  <2>2. action' = action /\ recent' = recent
    BY <1>2 DEF BeginCompound
  <2>3. q.key = Deploy(p) /\ q.snap = s
    BY DEF Idle
  <2>4. /\ s.known = fresh.known /\ s.live = fresh.live /\ s.recent = fresh.recent
        /\ s.spare = -1 /\ fresh.live = Live
    BY DEF Snap
  <2>5. Counts(fresh, action, recent) /\ Grounded(fresh, action) /\ fresh.spare = 0
    BY FreshSnapshot
  <2> HIDE DEF fresh, s, q
  <2>6. Grounded(s, action)
    BY <2>4, <2>5 DEF Grounded
  <2>7. Counts(s, action, recent)
    BY <2>4, <2>5 DEF Counts, Covered, AtLeast
  <2>8. c \in Claims \cap s.live
    BY <2>1, <2>4 DEF Live, Keys
  <2>9. CompoundedFits(q, action, recent)
    BY <2>1, <2>3, <2>4, <2>6, <2>7, <2>8, KeyTypes DEF CompoundedFits
  <2> QED
    BY <2>1, <2>2, <2>9
<1> QED
  BY <1>1, <1>2 DEF Compound

\* Every requester's state fits the stores.
RequestsFit ==
  /\ ManagedFits(Tick, action)
  /\ ScreenedFits(Scan, action, recent)
  /\ CommandedFits(req["operator"], action, recent)
  /\ CompoundedFits(req["compound"], action, recent)

LEMMA StepFits ==
  ASSUME TypeOK, RequestsFit, Next
  PROVE  RequestsFit'
<1>t. /\ req \in [Requesters -> Requests]
      /\ action \in [Keys -> {"none", "QUEUED", "RUNNING", "DONE", "FAILED"}]
  BY DEF TypeOK
<1>r. /\ "management" \in Requesters /\ "screening" \in Requesters
      /\ "operator" \in Requesters /\ "compound" \in Requesters
  BY DEF Requesters
<1>q. Tick \in Requests /\ Scan \in Requests /\ req["operator"] \in Requests
      /\ req["compound"] \in Requests
  BY <1>t, <1>r DEF Tick, Scan
<1>e. Evolved(action, recent, action', recent')
  BY NextEvolves
<1>i. /\ ManagedFits(Idle, action') /\ ScreenedFits(Idle, action', recent')
      /\ CommandedFits(Idle, action', recent') /\ CompoundedFits(Idle, action', recent')
  BY DEF ManagedFits, ScreenedFits, CommandedFits, CompoundedFits, Idle
<1>f. RequestsFit
  OBVIOUS
<1>1. ManagedFits(Tick, action)'
  <2>1. ManagedFits(Tick, action')
    BY <1>q, <1>t, <1>e, <1>f, FitsLast DEF RequestsFit
  <2>2. Tick' = Tick \/ Tick' = Idle \/ Management
    BY <1>r, OthersWait DEF Tick
  <2> QED
    BY <2>1, <2>2, <1>i, <1>f, ManagementFits DEF RequestsFit
<1>2. ScreenedFits(Scan, action, recent)'
  <2>1. ScreenedFits(Scan, action', recent')
    BY <1>q, <1>t, <1>e, <1>f, FitsLast DEF RequestsFit
  <2>2. Scan' = Scan \/ Scan' = Idle \/ Screening
    BY <1>r, OthersWait DEF Scan
  <2> QED
    BY <2>1, <2>2, <1>i, <1>f, ScreeningFits DEF RequestsFit
<1>3. CommandedFits(req["operator"], action, recent)'
  <2>1. CommandedFits(req["operator"], action', recent')
    BY <1>q, <1>t, <1>e, <1>f, FitsLast DEF RequestsFit
  <2>2. req'["operator"] = req["operator"] \/ req'["operator"] = Idle \/ Operator
    BY <1>r, OthersWait
  <2> QED
    BY <2>1, <2>2, <1>i, <1>f, OperatorFits DEF RequestsFit
<1>4. CompoundedFits(req["compound"], action, recent)'
  <2>1. req'["compound"] = req["compound"] \/ req'["compound"] = Idle \/ Compound
    BY <1>r, OthersWait
  <2>2. CASE req'["compound"] = req["compound"] /\ req["compound"].step = "request"
    <3>1. \A c \in Claims : action[c] = "RUNNING" => action'[c] = "RUNNING"
      BY <2>2, ClaimsWait
    <3>2. CompoundedFits(req["compound"], action', recent')
      BY <3>1, <1>q, <1>t, <1>e, <1>f, FitsLast DEF RequestsFit
    <3> QED
      BY <2>2, <3>2
  <2>3. CASE req'["compound"] = req["compound"] /\ req["compound"].step # "request"
    BY <2>3 DEF CompoundedFits
  <2> QED
    BY <2>1, <2>2, <2>3, <1>i, <1>f, CompoundFits DEF RequestsFit
<1> QED
  BY <1>1, <1>2, <1>3, <1>4 DEF RequestsFit

-----------------------------------------------------------------------------
(* What the rules refuse *)

LEMMA RulesRefuseWrites ==
  ASSUME NEW portfolio, NEW request, RiskAllows(portfolio, request),
         request.type \in {"CLOSE", "DEPLOY", "REBALANCE"}
  PROVE  ~(portfolio.pending >= 1)
  BY DEF RiskAllows, BlockingRules, WriteRule, Rule

LEMMA RulesRefuseDeploys ==
  ASSUME NEW portfolio, NEW request, RiskAllows(portfolio, request),
         request.type = "DEPLOY"
  PROVE  ~(request.recent >= Policy.maxNewDeploysPerHour)
  BY DEF RiskAllows, BlockingRules, CountRules, Rule

LEMMA NoneLive ==
  ASSUME NEW s \in Snaps, ~(Portfolio(s).pending >= 1)
  PROVE  /\ s.spare \in Nat => s.live = {}
         /\ s.spare = -1 => \A k, l \in s.live : k = l
         /\ s.spare \in Nat /\ ~DryRun => s.spare = 0
<1>1. IsFiniteSet(s.live) /\ Cardinality(s.live) \in Nat
  BY KeysFinite, FS_Subset, FS_CardinalityType DEF Snaps
<1>2. Portfolio(s).pending = Pending(s)
  BY DEF Portfolio
<1>3. s.spare \in Int /\ Extra(s) \in Int
  BY DEF Extra, Snaps
<1>4. Cardinality(s.live) + Extra(s) < 1
  BY <1>1, <1>2, <1>3 DEF Pending, AtLeast
<1>5. ASSUME s.spare \in Nat PROVE s.live = {} /\ (~DryRun => s.spare = 0)
  <2>1. Cardinality(s.live) = 0 /\ (~DryRun => s.spare = 0)
    BY <1>1, <1>3, <1>4, <1>5 DEF Extra
  <2> QED
    BY <2>1, <1>1, FS_EmptySet
<1>6. ASSUME s.spare = -1 PROVE \A k, l \in s.live : k = l
  <2>1. Cardinality(s.live) = 0 \/ Cardinality(s.live) = 1
    BY <1>1, <1>3, <1>4, <1>6 DEF Extra
  <2>2. s.live = {} \/ \E k : s.live = {k}
    BY <2>1, <1>1, FS_EmptySet, FS_Singleton
  <2> QED
    BY <2>2
<1> QED
  BY <1>5, <1>6

\* An action is stored: by whom, on which snapshot.
StoredBy(r, k) ==
  /\ Enqueue(k, req[r].snap)
  /\ \A q \in Requesters : req'[q] # req[q] => q = r
  /\ k \in Deploys => /\ MayDeploy(k[2], req[r].snap)
                      /\ Counts(req[r].snap, action, recent)
  /\ \A l \in Live \cap req[r].snap.known :
       r = "compound" /\ l \in Claims /\ action[l] = "RUNNING"

LEMMA DeployKey ==
  ASSUME NEW k \in Deploys
  PROVE  k[2] \in Positions /\ k[1] = "DEPLOY" /\ k = Deploy(k[2]) /\ k \in Keys
  BY DEF Deploys, Deploy, Key, Keys

LEMMA StoredOnRequest ==
  ASSUME TypeOK, RequestsFit, Next, NEW k \in Keys, action[k] = "none",
         action'[k] # "none"
  PROVE  \E r \in Requesters : StoredBy(r, k)
<1> USE DEF stores, outside, process, observers
<1>t. /\ req \in [Requesters -> Requests]
      /\ action \in [Keys -> {"none", "QUEUED", "RUNNING", "DONE", "FAILED"}]
  BY DEF TypeOK
<1>r. /\ "management" \in Requesters /\ "screening" \in Requesters
      /\ "operator" \in Requesters /\ "compound" \in Requesters
  BY DEF Requesters
<1>g. ASSUME NEW r \in Requesters, NEW state, Goto(r, state)
      PROVE  \A q \in Requesters : req'[q] # req[q] => q = r
  BY <1>t, <1>g DEF Goto
<1>e. ASSUME NEW l, NEW s, Enqueue(l, s)
      PROVE  l = k
  BY <1>e, <1>t DEF Enqueue
<1>a. ASSUME NEW r \in Requesters, NEW l, NEW s, NEW state, Ask(r, l, s, state)
      PROVE  /\ l = k /\ Requestable(k, s) /\ Enqueue(k, s)
             /\ \A q \in Requesters : req'[q] # req[q] => q = r
  <2>1. Requestable(l, s) /\ Enqueue(l, s) /\ Goto(r, state)
    BY <1>a DEF Ask
  <2>2. l = k
    BY <2>1, <1>e
  <2> QED
    BY <2>1, <2>2, <1>g
<1>l. ASSUME NEW s, Grounded(s, action), s.live = {}
      PROVE  Live \cap s.known = {}
  BY <1>l DEF Grounded, Live
<1>1. CASE RequestManaged
  <2>1. /\ Tick.key = k /\ Requestable(k, Tick.snap) /\ Enqueue(k, Tick.snap)
        /\ \A q \in Requesters : req'[q] # req[q] => q = "management"
    BY <1>1, <1>a, <1>r DEF RequestManaged
  <2>2. Tick.step = "request" /\ Tick.snap \in Snaps
    BY <1>1, <1>t, <1>r, RequestType DEF RequestManaged, At, Tick
  <2>3. /\ k \notin Deploys /\ Tick.snap.spare = 0 /\ Grounded(Tick.snap, action)
        /\ k[1] = "REBALANCE" \/ Tick.snap.live = {}
    BY <2>1, <2>2 DEF RequestsFit, ManagedFits
  <2>4. Tick.snap.live = {}
    <3>1. CASE k[1] = "REBALANCE"
      <4>1. RiskAllows(Portfolio(Tick.snap), RebalanceRequest(k[2]))
        BY <2>1, <3>1 DEF Requestable, MayRebalance
      <4>2. ~(Portfolio(Tick.snap).pending >= 1)
        BY <4>1, RulesRefuseWrites DEF RebalanceRequest
      <4> QED
        BY <4>2, <2>2, <2>3, NoneLive
    <3> QED
      BY <2>3, <3>1
  <2> QED
    BY <2>1, <2>3, <2>4, <1>l, <1>r DEF StoredBy, Tick
<1>2. ASSUME NEW p \in Positions, AutoDeploy(p)
      PROVE  \E r \in Requesters : StoredBy(r, k)
  <2>1. Enqueue(Deploy(p), Scan.snap) /\ MayDeploy(p, Scan.snap) /\ ~DryRun
    BY <1>2 DEF AutoDeploy
  <2>2. k = Deploy(p) /\ k[2] = p
    BY <2>1, <1>e DEF Deploy, Key
  <2>3. \A q \in Requesters : req'[q] # req[q] => q = "screening"
    BY <1>2, <1>g, <1>r DEF AutoDeploy
  <2>4. Scan.step = "loop" /\ Scan.snap \in Snaps
    BY <1>2, <1>t, <1>r, RequestType DEF AutoDeploy, At, Scan
  <2>5. ~(Portfolio(Scan.snap).pending >= 1)
    BY <2>1, RulesRefuseWrites DEF MayDeploy, DeployRequest
  <2>6. /\ Scan.snap.live = {} /\ Counts(Scan.snap, action, recent)
        /\ Grounded(Scan.snap, action)
    BY <2>1, <2>4, <2>5, NoneLive DEF RequestsFit, ScreenedFits
  <2> QED
    BY <2>1, <2>2, <2>3, <2>6, <1>l, <1>r DEF StoredBy, Scan
<1>3. CASE RequestCommanded
  <2> DEFINE ask == req["operator"]
  <2>1. /\ Ask("operator", ask.key, ask.snap, Idle)
        /\ ask.key[1] = "CLOSE" => RiskAllows(Portfolio(ask.snap), CloseRequest)
    BY <1>3 DEF RequestCommanded
  <2>2. /\ ask.key = k /\ Requestable(k, ask.snap) /\ Enqueue(k, ask.snap)
        /\ \A q \in Requesters : req'[q] # req[q] => q = "operator"
    BY <2>1, <1>a, <1>r
  <2>3. ask.step = "request" /\ ask.snap \in Snaps
    BY <1>3, <1>t, <1>r, RequestType DEF RequestCommanded, At
  <2>4. /\ k[1] \in {"CLOSE", "DEPLOY", "REBALANCE"} /\ ask.snap.spare = 0
        /\ Counts(ask.snap, action, recent) /\ Grounded(ask.snap, action)
    BY <2>2, <2>3 DEF RequestsFit, CommandedFits
  <2>5. ~(Portfolio(ask.snap).pending >= 1)
    <3>1. CASE k[1] = "CLOSE"
      BY <2>1, <2>2, <3>1, RulesRefuseWrites DEF CloseRequest
    <3>2. CASE k[1] = "DEPLOY"
      BY <2>2, <3>2, RulesRefuseWrites DEF Requestable, MayDeploy, DeployRequest
    <3>3. CASE k[1] = "REBALANCE"
      BY <2>2, <3>3, RulesRefuseWrites DEF Requestable, MayRebalance, RebalanceRequest
    <3> QED
      BY <2>4, <3>1, <3>2, <3>3
  <2>6. ask.snap.live = {}
    BY <2>3, <2>4, <2>5, NoneLive
  <2>7. k \in Deploys => MayDeploy(k[2], ask.snap)
    BY <2>2, DeployKey DEF Requestable
  <2> QED
    BY <2>2, <2>4, <2>6, <2>7, <1>l, <1>r DEF StoredBy
<1>4. CASE RequestCompound
  <2> DEFINE ask == req["compound"]
  <2>1. /\ ask.key = k /\ Requestable(k, ask.snap) /\ Enqueue(k, ask.snap)
        /\ \A q \in Requesters : req'[q] # req[q] => q = "compound"
    BY <1>4, <1>a, <1>r DEF RequestCompound
  <2>2. ask.step = "request" /\ ask.snap \in Snaps
    BY <1>4, <1>t, <1>r, RequestType DEF RequestCompound, At
  <2>3. /\ k \in Deploys /\ ask.snap.spare = -1
        /\ Counts(ask.snap, action, recent) /\ Grounded(ask.snap, action)
    BY <2>1, <2>2 DEF RequestsFit, CompoundedFits
  <2>4. PICK c \in Claims \cap ask.snap.live : action[c] = "RUNNING"
    BY <2>2 DEF RequestsFit, CompoundedFits
  <2>5. MayDeploy(k[2], ask.snap)
    BY <2>1, <2>3, DeployKey DEF Requestable
  <2>6. \A l \in ask.snap.live : l = c
    BY <2>2, <2>3, <2>4, <2>5, RulesRefuseWrites, NoneLive DEF MayDeploy, DeployRequest
  <2>7. \A l \in Live \cap ask.snap.known : l \in Claims /\ action[l] = "RUNNING"
    BY <2>3, <2>4, <2>6 DEF Grounded, Live
  <2> QED
    BY <2>1, <2>3, <2>5, <2>7, <1>r DEF StoredBy
<1>5. CASE /\ ~RequestManaged /\ ~RequestCommanded /\ ~RequestCompound
           /\ ~\E p \in Positions : AutoDeploy(p)
  <2>1. action'[k] = "none"
    <3>1. CASE World
      <4>1. ASSUME NEW l \in Keys, Start(l) \/ Finish(l)
            PROVE  action'[k] = "none"
        BY <4>1, <1>t DEF Start, Finish
      <4>2. CASE ~\E l \in Keys : Start(l) \/ Finish(l)
        BY <3>1, <4>2 DEF World, LossReached, NextDay, HourPasses, CooldownElapses,
                          Restart, Depart, Rise, Reconcile
      <4> QED
        BY <4>1, <4>2
    <3>2. CASE ~World
      <4>1. action' = action
        BY <1>5, <3>2
           DEF Next, Management, BeginManagement, RefreshPeak, Judge, JudgeFails,
               CheckActive, ReviewRebalance, PlanMissing, EndManagement, SkippedTick,
               Screening, BeginScreening, ScreenShortlist, EndScreening, RejectCandidate,
               Operator, Trip, Clear, Command, Compound, BeginCompound
      <4> QED
        BY <4>1
    <3> QED
      BY <3>1, <3>2
  <2> QED
    BY <2>1
<1> QED
  BY <1>1, <1>2, <1>3, <1>4, <1>5

-----------------------------------------------------------------------------
(* The limit of deploys per hour *)

RecentStored == \A k \in recent : action[k] # "none"

LEMMA SmallerQuota ==
  ASSUME TypeOK, QuotaHoldsButForRaces,
         RecentDeploys' \ raced' \subseteq RecentDeploys \ raced
  PROVE  QuotaHoldsButForRaces'
<1> DEFINE now == RecentDeploys \ raced
           after == RecentDeploys' \ raced'
<1>1. now \subseteq Keys
  BY DEF RecentDeploys, TypeOK, Keys
<1>2. IsFiniteSet(now) /\ after \in SUBSET now /\ Cardinality(now) <= Policy.maxNewDeploysPerHour
  BY <1>1, KeysFinite, FS_Subset DEF QuotaHoldsButForRaces
<1>3. Policy.maxNewDeploysPerHour \in Nat
  BY PolicyIsConfigured DEF PolicyFields
<1> HIDE DEF now, after
<1>4. /\ Cardinality(after) <= Cardinality(now)
      /\ Cardinality(now) \in Nat /\ Cardinality(after) \in Nat
  BY <1>2, FS_Subset, FS_CardinalityType
<1>5. Cardinality(after) <= Policy.maxNewDeploysPerHour
  BY <1>2, <1>3, <1>4
<1> QED
  BY <1>5 DEF after, QuotaHoldsButForRaces

LEMMA StepKeepsQuota ==
  ASSUME TypeOK, TypeOK', RequestsFit, RecentStored, QuotaHoldsButForRaces, Next
  PROVE  QuotaHoldsButForRaces'
<1>e. Evolved(action, recent, action', recent') /\ raced \subseteq raced'
  BY NextEvolves
<1>1. ASSUME NEW k \in Deploys, action[k] = "none", action'[k] # "none"
      PROVE  QuotaHoldsButForRaces'
  <2>1. k \in Keys
    BY DeployKey
  <2>2. PICK r \in Requesters : StoredBy(r, k)
    BY <1>1, <2>1, StoredOnRequest
  <2>3. PICK s \in Snaps : s = req[r].snap
    BY RequestType DEF TypeOK
  <2>4. Enqueue(k, s) /\ MayDeploy(k[2], s) /\ Counts(s, action, recent)
    BY <2>2, <2>3 DEF StoredBy
  <2>5. /\ recent' = recent \cup {k}
        /\ raced' = IF Stored \subseteq s.known THEN raced ELSE raced \cup {k}
    BY <1>1, <2>4 DEF Enqueue
  <2>6. RecentDeploys' \subseteq RecentDeploys \cup {k}
    BY <2>5, <1>e DEF RecentDeploys, Evolved, TypeOK, Keys
  <2>7. CASE ~(Stored \subseteq s.known)
    <3>1. RecentDeploys' \ raced' \subseteq RecentDeploys \ raced
      BY <2>5, <2>6, <2>7
    <3> QED
      BY <3>1, SmallerQuota
  <2>8. CASE Stored \subseteq s.known
    <3> DEFINE c == Covered(s, action, recent)
    <3>1. RecentDeploys \subseteq c
      BY <2>8 DEF RecentStored, RecentDeploys, Covered, Stored, TypeOK, Keys
    <3>2. c \subseteq Keys
      BY DEF Covered, Deploys, Keys
    <3>3. Cardinality(c) < Policy.maxNewDeploysPerHour
      <4>1. ~(s.recent + AtLeast(s.spare, 0) >= Policy.maxNewDeploysPerHour)
        BY <2>4, RulesRefuseDeploys DEF MayDeploy, DeployRequest
      <4>2. s.recent + AtLeast(s.spare, 0) \in Int /\ Policy.maxNewDeploysPerHour \in Nat
        BY PolicyIsConfigured DEF PolicyFields, Snaps, AtLeast
      <4>3. Cardinality(c) <= s.recent + AtLeast(s.spare, 0)
        BY <2>4 DEF Counts
      <4>4. Cardinality(c) \in Nat
        BY <3>2, KeysFinite, FS_Subset, FS_CardinalityType
      <4> HIDE DEF c
      <4> QED
        BY <4>1, <4>2, <4>3, <4>4
    <3> HIDE DEF c
    <3>4. IsFiniteSet(c) /\ Cardinality(c) \in Nat
      BY <3>2, KeysFinite, FS_Subset, FS_CardinalityType
    <3>5. /\ IsFiniteSet(c \cup {k})
          /\ Cardinality(c \cup {k}) = IF k \in c THEN Cardinality(c) ELSE Cardinality(c) + 1
      BY <3>4, FS_AddElement
    <3>6. RecentDeploys' \ raced' \in SUBSET (c \cup {k})
      BY <2>6, <3>1
    <3>7. /\ Cardinality(RecentDeploys' \ raced') <= Cardinality(c \cup {k})
          /\ Cardinality(RecentDeploys' \ raced') \in Nat
      BY <3>5, <3>6, FS_Subset, FS_CardinalityType
    <3>8. Policy.maxNewDeploysPerHour \in Nat
      BY PolicyIsConfigured DEF PolicyFields
    <3>9. Cardinality(RecentDeploys' \ raced') <= Policy.maxNewDeploysPerHour
      BY <3>3, <3>4, <3>5, <3>7, <3>8
    <3> QED
      BY <3>9 DEF QuotaHoldsButForRaces
  <2> QED
    BY <2>7, <2>8
<1>2. CASE \A k \in Deploys : action[k] = "none" => action'[k] = "none"
  <2>1. recent' \subseteq recent
    BY <1>2, <1>e DEF Evolved, TypeOK
  <2>2. RecentDeploys' \subseteq RecentDeploys
    BY <2>1, <1>e DEF RecentDeploys, Evolved, TypeOK, Keys
  <2>3. RecentDeploys' \ raced' \subseteq RecentDeploys \ raced
    BY <2>2, <1>e
  <2> QED
    BY <2>3, SmallerQuota
<1> QED
  BY <1>1, <1>2

-----------------------------------------------------------------------------
(* The theorems *)

IInv ==
  /\ TypeOK
  /\ BreakerInv
  /\ RequestsFit
  /\ RecentStored
  /\ QuotaHoldsButForRaces

LEMMA Initially == Init => IInv
<1> SUFFICES ASSUME Init PROVE IInv
  OBVIOUS
<1>r. \A r \in Requesters : req[r] = Idle
  BY DEF Init
<1>1. TypeOK
  BY InitType
<1>2. BreakerInv
  BY <1>r DEF Init, BreakerInv, Told, Raised, Resting, Tick, Idle, NoSnap, Requesters
<1>3. RequestsFit
  BY <1>r DEF RequestsFit, ManagedFits, ScreenedFits, CommandedFits, CompoundedFits,
              Tick, Scan, Idle, Requesters
<1>4. RecentStored /\ RecentDeploys \ raced = {}
  BY DEF Init, RecentStored, RecentDeploys
<1>5. QuotaHoldsButForRaces
  BY <1>4, FS_EmptySet, PolicyIsConfigured DEF QuotaHoldsButForRaces, PolicyFields
<1> QED
  BY <1>1, <1>2, <1>3, <1>4, <1>5 DEF IInv

LEMMA Inductive == IInv /\ [Next]_vars => IInv'
<1> SUFFICES ASSUME IInv, [Next]_vars PROVE IInv'
  OBVIOUS
<1>i. TypeOK /\ BreakerInv /\ RequestsFit /\ RecentStored /\ QuotaHoldsButForRaces
  BY DEF IInv
<1>1. TypeOK'
  <2>1. ReviewsPosition
    BY <1>i DEF RequestsFit, ManagedFits, ReviewsPosition, Current
  <2> QED
    BY <2>1, <1>i, StepType
<1>2. BreakerInv'
  BY <1>i, StepKeepsBreaker
<1>3. CASE UNCHANGED vars
  <2>1. RequestsFit'
    BY <1>3, <1>i DEF vars, stores, outside, process, RequestsFit, Tick, Scan
  <2>2. RecentStored' /\ QuotaHoldsButForRaces'
    BY <1>3, <1>i DEF vars, stores, outside, observers, RecentStored,
                      QuotaHoldsButForRaces, RecentDeploys
  <2> QED
    BY <1>1, <1>2, <2>1, <2>2 DEF IInv
<1>4. CASE Next
  <2>1. RequestsFit'
    BY <1>4, <1>i, StepFits
  <2>2. RecentStored'
    BY <1>4, <1>i, NextEvolves DEF RecentStored, Evolved, TypeOK, Keys
  <2>3. QuotaHoldsButForRaces'
    BY <1>4, <1>i, <1>1, StepKeepsQuota
  <2> QED
    BY <1>1, <1>2, <2>1, <2>2, <2>3 DEF IInv
<1> QED
  BY <1>3, <1>4

LEMMA Invariance == Spec => []IInv
  BY Initially, Inductive, PTL DEF Spec

\* The state has its type, whatever the ticks, the operator and the compound
\* deploy do in between one another's snapshots and requests.
THEOREM TypeCorrect == Spec => []TypeOK
<1>1. IInv => TypeOK
  BY DEF IInv
<1> QED
  BY <1>1, Invariance, PTL

\* An hour sees no more deploys than maxNewDeploysPerHour (countRecentNewDeploys
\* and the rules), but for those requested on an overtaken snapshot.
THEOREM QuotaKept == Spec => []QuotaHoldsButForRaces
<1>1. IInv => QuotaHoldsButForRaces
  BY DEF IInv
<1> QED
  BY <1>1, Invariance, PTL

\* The management tick forgets a raised breaker (previousPortfolioState and the
\* persisted snapshot) for the named causes only.
THEOREM BreakerRemembered == Spec => []BreakerForgottenHasCause
<1>1. IInv => BreakerForgottenHasCause
  BY DEF IInv, BreakerInv, Told, Raised, Resting, Underway, BreakerForgottenHasCause,
         TypeOK
<1> QED
  BY <1>1, Invariance, PTL

\* A request is stored while an action its snapshot showed is live only for the
\* deploy of a running claim's proceeds (the rules' activeWrite,
\* findActiveWriteActionForPosition).
THEOREM OverlapsAreRaces == Spec => WritesOverlapOnlyByRace
<1> DEFINE Alone ==
      \A k \in Keys, r \in Requesters :
        action[k] = "none" /\ action'[k] # "none" /\ req'[r] # req[r] =>
          \A l \in Live \cap req[r].snap.known :
            r = "compound" /\ l \in Claims /\ action[l] = "RUNNING"
<1>1. IInv /\ [Next]_vars => [Alone]_vars
  <2> SUFFICES ASSUME IInv, Next PROVE Alone
    OBVIOUS
  <2> SUFFICES ASSUME NEW k \in Keys, NEW r \in Requesters, action[k] = "none",
                      action'[k] # "none", req'[r] # req[r]
               PROVE  \A l \in Live \cap req[r].snap.known :
                        r = "compound" /\ l \in Claims /\ action[l] = "RUNNING"
    OBVIOUS
  <2>1. PICK q \in Requesters : StoredBy(q, k)
    BY StoredOnRequest DEF IInv
  <2>2. q = r
    BY <2>1 DEF StoredBy
  <2> QED
    BY <2>1, <2>2 DEF StoredBy
<1>2. WritesOverlapOnlyByRace <=> [][Alone]_vars
  BY PTL DEF WritesOverlapOnlyByRace
<1> QED
  BY <1>1, <1>2, Invariance, PTL DEF Spec
=============================================================================
