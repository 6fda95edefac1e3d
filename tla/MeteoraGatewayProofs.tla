------------------------ MODULE MeteoraGatewayProofs ------------------------
(***************************************************************************)
(* Proofs about MeteoraGateway, for any number of attempts per transaction *)
(* and of calls: what a success and a plain error tell, and what the       *)
(* readers are served after a close.                                       *)
(*                                                                         *)
(* The difficulty is the attempts that outlive their answer.  Inv says     *)
(* which transactions each operation has ahead of it, which attempts of    *)
(* the present call may be on their way or have landed, as long as none    *)
(* was given up, and what the position is once certain ones have landed.   *)
(***************************************************************************)
EXTENDS MeteoraGateway, TLAPS

CallSteps == Ended \cup {"preflight", "send", "await", "inspect", "settle"}

\* What an operation may still have to send.
TodoLists(op) ==
  CASE op = "none"    -> {<<>>}
    [] op = "deploy"  -> {<<"open">>, <<>>}
    [] op = "wide"    -> {<<"create", "extend", "add">>, <<"extend", "add">>, <<"add">>, <<>>}
    [] op = "claim"   -> {<<"claim">>, <<>>}
    [] op = "partial" -> {<<"part">>, <<>>}
    [] op = "close"   -> {<<"claim">>, <<"closeEmpty">>, <<"remove", "closeEmpty">>,
                          <<"removeAndClose">>, <<>>}

Listings == [shows : {"nothing", "none", "open"}, overtaken : BOOLEAN]

Todos == UNION {TodoLists(op) : op \in Ops \cup {"none"}}

CallTyped ==
  /\ call \in [n : 0..MaxCalls, op : Ops \cup {"none"}, step : CallSteps, todo : Todos,
               attempt : 1..MaxAttempts, claimed : BOOLEAN, doubt : BOOLEAN]
  /\ call.todo \in TodoLists(call.op)

TypeOK ==
  /\ pos \in {"absent", "empty", "funded", "closed"}
  /\ CallTyped
  /\ flight \subseteq Attempts /\ landed \subseteq Attempts
  /\ known \in BOOLEAN /\ cache \in Listings /\ reader \in Listings

\* A call has something to send while it sends, and nothing when it succeeds.
\* Only the claim before a close is inspected.
StepsMatch ==
  /\ call.op = "none" <=> call.step = "idle"
  /\ call.n = 0 <=> call.op = "none"
  /\ call.step \in {"preflight", "send", "await", "ambiguous"} => call.todo # <<>>
  /\ call.step \in {"settle", "success"} => call.todo = <<>>
  /\ call.step = "inspect" => call.op = "close" /\ call.todo \in {<<>>, <<"claim">>}
  /\ call.step = "error" =>
       call.todo # <<"add">> /\ (call.todo = <<>> => call.op = "close")

Waits(f) == call.step \in {"await", "ambiguous"} /\ f = This

\* While no attempt of the call was given up, at most the present one is on its
\* way, and a transaction still ahead has not taken effect, nor any one twice.
NoDoubt ==
  ~call.doubt =>
    /\ \A f \in Pending : f \notin landed /\ Waits(f)
    /\ \A f \in landed, i \in DOMAIN call.todo : f.tx = call.todo[i] => Waits(f)
    /\ \A f, g \in landed : f.tx = g.tx => f = g

\* The attempts of a close, until its position was inspected.
OnlyClaims ==
  call.op = "close" /\ (call.todo = <<"claim">> \/ call.step = "inspect") =>
    \A f \in landed \cup Pending : f.tx = "claim"

\* The transactions of a deploy, the first call, are the only ones there are,
\* and the position is what those that landed have made it.
NarrowDeploy ==
  call.op = "deploy" =>
    /\ \A f \in flight \cup landed : f.tx = "open"
    /\ pos = IF landed = {} THEN "absent" ELSE "funded"
    /\ call.step \in {"settle", "success"} => landed # {}

WideDeploy ==
  call.op = "wide" =>
    /\ \A f \in flight \cup landed : f.tx \in {"create", "extend", "add"}
    /\ pos # "closed"
    /\ pos = "funded" <=> \E f \in landed : f.tx = "add"
    /\ call.todo \in {<<"create", "extend", "add">>, <<"extend", "add">>} =>
         \A f \in flight \cup landed : f.tx # "add"
    /\ call.step \in {"settle", "success"} => pos = "funded"

Deploying ==
  /\ call.op = "none" => flight = {} /\ landed = {} /\ pos = "absent"
  /\ call.op \in Deploys => \A f \in flight : f.attempt # 0
  /\ NarrowDeploy /\ WideDeploy

Closing ==
  call.op = "close" =>
    /\ \A f \in landed : f.tx \in {"closeEmpty", "removeAndClose"} => pos = "closed"
    /\ call.step \in {"settle", "success"} => pos = "closed"

\* After a close no listing that shows the position passes for a fresh one.
ReadersAreTold ==
  call.op = "close" /\ call.step = "success" =>
    /\ ~known
    /\ cache.shows = "open" => cache.overtaken
    /\ reader.shows = "open" => reader.overtaken

Inv ==
  /\ TypeOK /\ StepsMatch /\ NoDoubt /\ OnlyClaims /\ Deploying /\ Closing
  /\ ReadersAreTold

-----------------------------------------------------------------------------
(* What an operation has ahead *)

\* Its lists name transactions, each once, and their tails are lists of it.
LEMMA TodosAreLists ==
  ASSUME NEW op \in Ops \cup {"none"}, NEW s \in TodoLists(op), s # <<>>
  PROVE  /\ Head(s) \in Txs /\ Tail(s) \in TodoLists(op)
         /\ 1 \in DOMAIN s /\ s[1] = Head(s)
         /\ \A i \in DOMAIN Tail(s) : Tail(s)[i] # Head(s) /\ i + 1 \in DOMAIN s
                                      /\ Tail(s)[i] = s[i + 1]
         /\ Len(s) > 1 <=> Tail(s) # <<>>
<1> USE DEF Ops, Deploys, Txs, TodoLists
<1>1. CASE op \in {"deploy", "claim", "partial"}
  <2>1. PICK t \in Txs : s = <<t>>
    BY <1>1
  <2>2. /\ Head(s) = t /\ Tail(s) = <<>> /\ Len(s) = 1 /\ DOMAIN s = {1} /\ s[1] = t
        /\ DOMAIN Tail(s) = {}
    BY <2>1
  <2> QED
    BY <1>1, <2>2
<1>2. CASE op = "wide"
  <2>1. CASE s = <<"create", "extend", "add">>
    BY <1>2, <2>1
  <2>2. CASE s = <<"extend", "add">>
    BY <1>2, <2>2
  <2>3. CASE s = <<"add">>
    BY <1>2, <2>3
  <2> QED
    BY <1>2, <2>1, <2>2, <2>3
<1>3. CASE op = "close"
  <2>1. CASE s = <<"remove", "closeEmpty">>
    BY <1>3, <2>1
  <2>2. CASE s \in {<<"claim">>, <<"closeEmpty">>, <<"removeAndClose">>}
    <3>1. PICK t \in Txs : s = <<t>>
      BY <2>2
    <3>2. /\ Head(s) = t /\ Tail(s) = <<>> /\ Len(s) = 1 /\ DOMAIN s = {1} /\ s[1] = t
          /\ DOMAIN Tail(s) = {}
      BY <3>1
    <3> QED
      BY <1>3, <3>2
  <2> QED
    BY <1>3, <2>1, <2>2
<1> QED
  BY <1>1, <1>2, <1>3
-----------------------------------------------------------------------------
(* The types *)

\* While a call has something to send, the next transaction has its type.
LEMMA TxIsTyped ==
  ASSUME TypeOK, call.todo # <<>>
  PROVE  Tx \in Txs /\ This \in Attempts /\ This.tx = Tx /\ This.attempt = call.attempt
<1>1. call.op \in Ops \cup {"none"} /\ call.todo \in TodoLists(call.op)
  BY DEF TypeOK, CallTyped
<1>2. Tx \in Txs
  BY <1>1, TodosAreLists DEF Tx
<1>3. call.attempt \in 0..MaxAttempts
  BY AttemptsArePositive DEF TypeOK, CallTyped
<1> QED
  BY <1>2, <1>3 DEF This, Attempts

Starts == DeployNarrow \/ DeployWide \/ ClaimFees \/ PartialClose \/ ClosePosition

\* A new call: the numbers of the attempts in flight are forgotten.
LEMMA StartFacts ==
  ASSUME TypeOK, NEW op \in Ops, NEW s \in TodoLists(op), Start(op, s)
  PROVE  /\ CallTyped'
         /\ call'.op = op /\ call'.todo = s /\ call'.step = "preflight"
         /\ call'.n = call.n + 1 /\ call'.attempt = 1 /\ ~call'.doubt
         /\ landed' = {} /\ flight' \subseteq Attempts
         /\ \A f \in flight' : f.attempt = 0 /\ \E g \in flight : f.tx = g.tx
         /\ flight = {} => flight' = {}
<1>1. call.n + 1 \in 0..MaxCalls
  BY CallsAreNatural DEF Start, TypeOK, CallTyped
<1>2. call' = [n |-> call.n + 1, op |-> op, step |-> "preflight", todo |-> s, attempt |-> 1,
               claimed |-> FALSE, doubt |-> FALSE]
  BY DEF Start, Idle
<1>3. s \in Todos
  BY DEF Todos
<1>4. 1 \in 1..MaxAttempts
  BY AttemptsArePositive
<1>5. CallTyped'
  BY <1>1, <1>2, <1>3, <1>4 DEF CallTyped, CallSteps
<1>6. landed' = {} /\ flight' = {[f EXCEPT !.attempt = 0] : f \in flight}
  BY DEF Start
<1>7. ASSUME NEW f \in flight
      PROVE  LET g == [f EXCEPT !.attempt = 0]
             IN  g \in Attempts /\ g.attempt = 0 /\ g.tx = f.tx
  <2>1. f \in Attempts /\ 0 \in 0..MaxAttempts
    BY AttemptsArePositive DEF TypeOK
  <2> QED
    BY <2>1 DEF Attempts
<1> QED
  BY <1>2, <1>5, <1>6, <1>7

\* The beginning of a call keeps the types.
LEMMA StartsKeepTypes ==
  ASSUME TypeOK, Starts
  PROVE  TypeOK'
<1>1. Listing \in Listings
  BY DEF Listing, Listings
<1>2. /\ <<"open">> \in TodoLists("deploy") /\ <<"create", "extend", "add">> \in TodoLists("wide")
      /\ <<"claim">> \in TodoLists("claim") /\ <<"part">> \in TodoLists("partial")
      /\ <<"claim">> \in TodoLists("close")
  BY DEF TodoLists
<1>3. \E op \in Ops : \E s \in TodoLists(op) : Start(op, s)
  <2>1. {"deploy", "wide", "claim", "partial", "close"} \subseteq Ops
    BY DEF Ops, Deploys
  <2> QED
    BY <1>2, <2>1 DEF Starts, DeployNarrow, DeployWide, ClaimFees, PartialClose, ClosePosition
<1>4. CallTyped' /\ landed' = {} /\ flight' \subseteq Attempts
  BY <1>3, StartFacts
<1>5. pos' = pos /\ known' = known /\ reader' = reader /\ cache' \in Listings
  BY <1>1 DEF Starts, DeployNarrow, DeployWide, ClaimFees, PartialClose, ClosePosition,
              StartKeeps, reads, TypeOK
<1> QED
  BY <1>4, <1>5 DEF TypeOK

\* What the steps of a call assign to it.
LEMMA OperateFacts ==
  ASSUME TypeOK, StepsMatch, Operate
  PROVE  /\ CallTyped'
         /\ call'.op = call.op /\ call'.n = call.n
         /\ call'.todo # call.todo => Confirmed \/ Inspect
<1> USE DEF TypeOK
<1>1. /\ call \in [n : 0..MaxCalls, op : Ops \cup {"none"}, step : CallSteps, todo : Todos,
                   attempt : 1..MaxAttempts, claimed : BOOLEAN, doubt : BOOLEAN]
      /\ call.todo \in TodoLists(call.op)
  BY DEF CallTyped
<1>2. ASSUME NEW step \in CallSteps, To(step)
      PROVE  CallTyped' /\ call'.op = call.op /\ call'.n = call.n /\ call'.todo = call.todo
  BY <1>1, <1>2 DEF To, CallTyped
<1>3. \A outcome \in CallSteps : Thrown(outcome) \in CallSteps
  BY DEF Thrown, CallSteps, Ended
<1>4. ASSUME NEW error, NEW doubt \in BOOLEAN, Catch(error, doubt)
      PROVE  CallTyped' /\ call'.op = call.op /\ call'.n = call.n /\ call'.todo = call.todo
  <2>1. Outcome(error) \in CallSteps
    BY DEF Outcome, CallSteps, Ended
  <2>2. Thrown(Outcome(error)) \in CallSteps /\ "send" \in CallSteps
    BY <1>3, <2>1 DEF CallSteps
  <2>3. (call.doubt \/ doubt) \in BOOLEAN
    OBVIOUS
  <2>4. CASE error \in Transient /\ call.attempt < MaxAttempts
    <3>1. call.attempt + 1 \in 1..MaxAttempts
      BY <1>1, <2>4, AttemptsArePositive
    <3>2. call' = [call EXCEPT !.step = "send", !.attempt = @ + 1, !.doubt = @ \/ doubt]
      BY <1>4, <2>4 DEF Catch
    <3> QED
      BY <1>1, <2>2, <2>3, <3>1, <3>2 DEF CallTyped
  <2>5. CASE ~(error \in Transient /\ call.attempt < MaxAttempts)
    <3>1. call' = [call EXCEPT !.step = Thrown(Outcome(error)), !.doubt = @ \/ doubt]
      BY <1>4, <2>5 DEF Catch
    <3> QED
      BY <1>1, <2>2, <2>3, <3>1 DEF CallTyped
  <2> QED
    BY <2>4, <2>5
<1>5. CASE Preflight \/ Broadcast \/ Settle
  <2>1. \E step \in CallSteps : To(step)
    BY <1>3, <1>5 DEF Preflight, Broadcast, Settle, Throw, CallSteps, Ended
  <2> QED
    BY <1>2, <2>1
<1>6. CASE Refused \/ FailedOnChain \/ AnswerLost
  <2>1. \A error : GivenUp(error) \in BOOLEAN
    BY DEF GivenUp
  <2>2. \E error : \E doubt \in BOOLEAN : Catch(error, doubt)
    BY <1>6, <2>1 DEF Refused, FailedOnChain, AnswerLost
  <2> QED
    BY <1>4, <2>2
<1>7. CASE Confirmed
  <2>1. call.todo # <<>>
    BY <1>7 DEF Confirmed, StepsMatch
  <2>2. Tail(call.todo) \in TodoLists(call.op)
    BY <1>1, <2>1, TodosAreLists
  <2>3. Tail(call.todo) \in Todos
    BY <1>1, <2>2 DEF Todos
  <2>4. (call.claimed \/ InClaimOfClose) \in BOOLEAN /\ 1 \in 1..MaxAttempts
    BY AttemptsArePositive
  <2>5. \E step \in CallSteps :
          call' = [call EXCEPT !.attempt = 1, !.todo = Tail(@),
                               !.claimed = @ \/ InClaimOfClose, !.step = step]
    BY <1>7 DEF Confirmed, CallSteps
  <2> QED
    BY <1>1, <1>7, <2>2, <2>3, <2>4, <2>5 DEF CallTyped
<1>8. CASE Inspect
  <2>1. CASE To("error")
    BY <1>2, <2>1 DEF CallSteps, Ended
  <2>2. CASE call' = [call EXCEPT !.step = "preflight", !.attempt = 1,
                        !.todo = Remainder(pos = "funded", call.claimed)]
    <3>1. call.op = "close"
      BY <1>8 DEF Inspect, StepsMatch
    <3>2. Remainder(pos = "funded", call.claimed) \in TodoLists("close")
      BY DEF Remainder, TodoLists
    <3>3. Remainder(pos = "funded", call.claimed) \in Todos
      BY <3>2 DEF Todos, Ops
    <3>4. 1 \in 1..MaxAttempts /\ "preflight" \in CallSteps
      BY AttemptsArePositive DEF CallSteps
    <3> QED
      BY <1>1, <1>8, <2>2, <3>1, <3>2, <3>3, <3>4 DEF CallTyped
  <2> QED
    BY <1>8, <2>1, <2>2 DEF Inspect
<1> QED
  BY <1>5, <1>6, <1>7, <1>8 DEF Operate

\* The steps of a call keep the types.
LEMMA OperateKeepsTypes ==
  ASSUME TypeOK, StepsMatch, Operate
  PROVE  TypeOK'
<1>1. CallTyped'
  BY OperateFacts
<1>2. UNCHANGED <<pos, landed>>
  BY DEF Operate, Preflight, Broadcast, Refused, FailedOnChain, AnswerLost, Confirmed, Inspect,
         Settle, CallKeeps, chain
<1>3. flight' \subseteq Attempts
  <2>1. CASE Broadcast
    <3>1. This \in Attempts
      BY <2>1, TxIsTyped DEF Broadcast, StepsMatch
    <3> QED
      BY <2>1, <3>1 DEF Broadcast, TypeOK
  <2>2. CASE ~Broadcast
    BY <2>2 DEF Operate, Preflight, Refused, FailedOnChain, AnswerLost, Confirmed, Inspect,
                Settle, CallKeeps, chain, TypeOK
  <2> QED
    BY <2>1, <2>2
<1>4. known' \in BOOLEAN /\ cache' \in Listings /\ reader' \in Listings
  <2>1. CASE Settle
    <3>1. (call.op = "close" /\ reader # NoListing) \in BOOLEAN
      OBVIOUS
    <3>2. NoListing \in Listings
      BY DEF NoListing, Listings
    <3>3. cache' = NoListing /\ known' \in BOOLEAN
      BY <2>1 DEF Settle, UpdateCaches, TypeOK
    <3>4. reader' \in Listings
      BY <2>1, <3>1 DEF Settle, TypeOK, Listings
    <3> QED
      BY <3>2, <3>3, <3>4
  <2>2. CASE ~Settle
    BY <2>2 DEF Operate, Preflight, Broadcast, Refused, FailedOnChain, AnswerLost, Confirmed,
                Inspect, CallKeeps, reads, TypeOK
  <2> QED
    BY <2>1, <2>2
<1> QED
  BY <1>1, <1>2, <1>3, <1>4 DEF TypeOK

Around == Drop \/ Fetch \/ Fetched \/ Expire \/ Prune \/ \E f \in flight : Land(f)

\* What happens around a call keeps the types.
LEMMA AroundKeepsTypes ==
  ASSUME TypeOK, Around
  PROVE  TypeOK'
<1>1. call' = call
  BY DEF Around, Drop, Fetch, Fetched, Expire, Prune, Land
<1>2. CallTyped'
  BY <1>1 DEF TypeOK, CallTyped
<1>3. Listing \in Listings /\ NoListing \in Listings
  BY DEF Listing, NoListing, Listings
<1>4. known' \in BOOLEAN /\ cache' \in Listings /\ reader' \in Listings
  BY <1>3 DEF Around, Drop, Fetch, Fetched, Expire, Prune, Land, reads, TypeOK
<1>5. /\ flight' \subseteq Attempts /\ landed' \subseteq Attempts
      /\ pos' \in {"absent", "empty", "funded", "closed"}
  <2>1. ASSUME NEW f \in flight, Land(f)
        PROVE  /\ flight' \subseteq Attempts /\ landed' \subseteq Attempts
               /\ pos' \in {"absent", "empty", "funded", "closed"}
    <3>1. f \in Attempts /\ f.tx \in Txs
      BY DEF TypeOK, Attempts
    <3>2. \A tx \in Txs : Effect(tx).to \in {"absent", "empty", "funded", "closed"}
      BY DEF Effect, Txs
    <3> QED
      BY <2>1, <3>1, <3>2 DEF Land, TypeOK
  <2>2. CASE Drop
    BY <2>2 DEF Drop, TypeOK
  <2>3. CASE Fetch \/ Fetched \/ Expire \/ Prune
    BY <2>3 DEF Fetch, Fetched, Expire, Prune, chain, TypeOK
  <2> QED
    BY <2>1, <2>2, <2>3 DEF Around
<1> QED
  BY <1>2, <1>4, <1>5 DEF TypeOK
-----------------------------------------------------------------------------
(* The beginning of a call *)

\* Nothing of the new call is under way, and only the first call deploys.
LEMMA StartsKeepInv ==
  ASSUME Inv, Starts
  PROVE  Inv'
<1> USE DEF Inv
<1>1. PICK op \in Ops : \E s \in TodoLists(op) :
        Start(op, s) /\ s # <<>> /\ (op \in Deploys => call.n = 0)
  <2>1. /\ <<"open">> \in TodoLists("deploy") /\ <<"claim">> \in TodoLists("claim")
        /\ <<"create", "extend", "add">> \in TodoLists("wide")
        /\ <<"part">> \in TodoLists("partial") /\ <<"claim">> \in TodoLists("close")
        /\ {"deploy", "wide", "claim", "partial", "close"} \subseteq Ops
        /\ Deploys = {"deploy", "wide"}
    BY DEF TodoLists, Ops, Deploys
  <2> QED
    BY <2>1 DEF Starts, DeployNarrow, DeployWide, ClaimFees, PartialClose, ClosePosition
<1>2. PICK s \in TodoLists(op) :
        Start(op, s) /\ s # <<>> /\ (op \in Deploys => call.n = 0)
  BY <1>1
<1>3. /\ call'.op = op /\ call'.todo = s /\ call'.step = "preflight"
      /\ call'.n = call.n + 1 /\ call'.attempt = 1 /\ ~call'.doubt
      /\ landed' = {}
      /\ \A f \in flight' : f.attempt = 0
      /\ flight = {} => flight' = {}
  BY <1>2, StartFacts
<1>4. Pending' = {}
  BY <1>3 DEF Pending
<1>5. pos' = pos
  BY DEF Starts, DeployNarrow, DeployWide, ClaimFees, PartialClose, ClosePosition, StartKeeps
<1>6. call'.n # 0 /\ op # "none"
  BY <1>3 DEF TypeOK, CallTyped, Ops, Deploys
<1>7. StepsMatch'
  BY <1>2, <1>3, <1>6 DEF StepsMatch
<1>8. NoDoubt' /\ OnlyClaims' /\ Closing' /\ ReadersAreTold'
  BY <1>3, <1>4 DEF NoDoubt, OnlyClaims, Closing, ReadersAreTold
<1>9. Deploying'
  <2>1. ASSUME op \in Deploys
        PROVE  flight' = {} /\ pos' = "absent"
    BY <1>2, <1>3, <1>5, <2>1 DEF StepsMatch, Deploying
  <2>2. NarrowDeploy' /\ WideDeploy'
    BY <1>3, <2>1 DEF NarrowDeploy, WideDeploy, Deploys
  <2> QED
    BY <1>3, <1>6, <2>1, <2>2 DEF Deploying
<1> QED
  BY <1>7, <1>8, <1>9, StartsKeepTypes

-----------------------------------------------------------------------------
(* The steps of a call *)

\* Where an error leads while something is to be sent.
LEMMA ThrownFacts ==
  ASSUME TypeOK, call.todo # <<>>, NEW outcome \in {"error", "ambiguous"}
  PROVE  /\ Thrown(outcome) \in {"inspect", "error", "ambiguous"}
         /\ Thrown(outcome) = "inspect" => call.op = "close" /\ call.todo = <<"claim">>
         /\ Thrown(outcome) = "error" => call.todo # <<"add">>
         /\ outcome = "ambiguous" => Thrown(outcome) = "ambiguous"
<1>1. call.op \in Ops \cup {"none"} /\ call.todo \in TodoLists(call.op)
  BY DEF TypeOK, CallTyped
<1>2. ASSUME call.op = "close", Tx = "claim"
      PROVE  call.todo = <<"claim">>
  BY <1>1, <1>2 DEF TodoLists, Tx
<1>3. ASSUME call.todo = <<"add">>
      PROVE  AfterCreation
  <2>1. call.op = "wide"
    BY <1>1, <1>3 DEF TodoLists, Ops, Deploys
  <2> QED
    BY <1>3, <2>1 DEF AfterCreation, Tx
<1> QED
  BY <1>2, <1>3 DEF Thrown, InClaimOfClose

Attempting == Preflight \/ Broadcast \/ Refused \/ FailedOnChain \/ AnswerLost

\* What the steps about one attempt leave alone, and where they lead.
LEMMA AttemptingFacts ==
  ASSUME TypeOK, StepsMatch, Attempting
  PROVE  /\ call.todo # <<>>
         /\ call'.todo = call.todo /\ call'.op = call.op /\ call'.n = call.n
         /\ call'.step \in {"send", "await", "inspect", "error", "ambiguous"}
         /\ call'.step = "inspect" => call.op = "close" /\ call.todo = <<"claim">>
         /\ call'.step = "error" => call.todo # <<"add">>
         /\ call.doubt => call'.doubt
         /\ pos' = pos /\ landed' = landed
<1>1. call.todo # <<>>
  BY DEF Attempting, Preflight, Broadcast, Refused, FailedOnChain, AnswerLost, StepsMatch
<1>2. pos' = pos /\ landed' = landed
  BY DEF Attempting, Preflight, Broadcast, Refused, FailedOnChain, AnswerLost, CallKeeps, chain
<1>3. call \in [n : 0..MaxCalls, op : Ops \cup {"none"}, step : CallSteps, todo : Todos,
                attempt : 1..MaxAttempts, claimed : BOOLEAN, doubt : BOOLEAN]
  BY DEF TypeOK, CallTyped
<1>4. CASE Preflight \/ Broadcast
  <2>1. To("send") \/ To("await") \/ To(Thrown("error"))
    BY <1>4 DEF Preflight, Broadcast, Throw
  <2> QED
    BY <1>1, <1>2, <1>3, <2>1, ThrownFacts DEF To
<1>5. CASE Refused \/ FailedOnChain \/ AnswerLost
  <2>1. PICK error, doubt : Catch(error, doubt)
    BY <1>5 DEF Refused, FailedOnChain, AnswerLost
  <2>2. Outcome(error) \in {"error", "ambiguous"}
    BY DEF Outcome
  <2> QED
    BY <1>1, <1>2, <1>3, <2>1, <2>2, ThrownFacts DEF Catch
<1> QED
  BY <1>4, <1>5 DEF Attempting

\* A call goes from one step to the next.
LEMMA OperateKeepsStepsMatch ==
  ASSUME TypeOK, StepsMatch, Operate
  PROVE  StepsMatch'
<1>1. call.step \notin {"idle", "error", "success", "ambiguous"}
  BY DEF Operate, Preflight, Broadcast, Refused, FailedOnChain, AnswerLost, Confirmed, Inspect,
         Settle
<1>2. call.op # "none" /\ call.n # 0
  BY <1>1 DEF StepsMatch
<1>3. /\ call \in [n : 0..MaxCalls, op : Ops \cup {"none"}, step : CallSteps, todo : Todos,
                   attempt : 1..MaxAttempts, claimed : BOOLEAN, doubt : BOOLEAN]
      /\ call.todo \in TodoLists(call.op)
  BY DEF TypeOK, CallTyped
<1>4. CASE Attempting
  BY <1>2, <1>4, AttemptingFacts DEF StepsMatch
<1>5. CASE Confirmed
  <2>1. /\ call.todo # <<>>
        /\ call'.op = call.op /\ call'.n = call.n /\ call'.todo = Tail(call.todo)
        /\ call'.step = IF InClaimOfClose THEN "inspect"
                        ELSE IF Len(call.todo) > 1 THEN "preflight" ELSE "settle"
    BY <1>3, <1>5 DEF Confirmed, StepsMatch
  <2>2. Len(call.todo) > 1 <=> Tail(call.todo) # <<>>
    BY <1>3, <2>1, TodosAreLists
  <2>3. ASSUME InClaimOfClose
        PROVE  Tail(call.todo) = <<>> /\ call.op = "close"
    <3>1. call.op = "close" /\ call.todo = <<"claim">>
      BY <1>3, <2>1, <2>3 DEF InClaimOfClose, Tx, TodoLists
    <3> QED
      BY <3>1
  <2> QED
    BY <1>2, <2>1, <2>2, <2>3 DEF StepsMatch
<1>6. CASE Inspect
  <2>1. call.op = "close" /\ call.todo \in {<<>>, <<"claim">>}
    BY <1>6 DEF Inspect, StepsMatch
  <2>2. CASE To("error")
    <3>1. call.todo # <<"add">>
      BY <2>1
    <3>2. /\ call'.op = "close" /\ call'.n = call.n /\ call'.todo = call.todo
          /\ call'.step = "error"
      BY <1>3, <2>1, <2>2 DEF To
    <3> QED
      BY <1>2, <3>1, <3>2, <2>1 DEF StepsMatch
  <2>3. CASE call' = [call EXCEPT !.step = "preflight", !.attempt = 1,
                        !.todo = Remainder(pos = "funded", call.claimed)]
    <3>1. Remainder(pos = "funded", call.claimed) # <<>>
      BY DEF Remainder
    <3> QED
      BY <1>2, <1>3, <2>3, <3>1 DEF StepsMatch
  <2> QED
    BY <1>6, <2>2, <2>3 DEF Inspect
<1>7. CASE Settle
  BY <1>2, <1>3, <1>7 DEF Settle, To, StepsMatch
<1> QED
  BY <1>4, <1>5, <1>6, <1>7 DEF Operate, Attempting

\* What is in flight changes by a broadcast only.
LEMMA OperateKeepsChain ==
  ASSUME Operate
  PROVE  /\ pos' = pos /\ landed' = landed
         /\ ~Broadcast => flight' = flight
         /\ Broadcast => flight' = flight \cup {This}
<1>1. CASE Broadcast
  BY <1>1 DEF Broadcast
<1>2. CASE ~Broadcast
  <2>1. UNCHANGED chain
    BY <1>2 DEF Operate, Preflight, Refused, FailedOnChain, AnswerLost, Confirmed, Inspect,
                Settle, CallKeeps
  <2> QED
    BY <1>2, <2>1 DEF chain
<1> QED
  BY <1>1, <1>2

\* An attempt counts as settled only when it is, unless it was given up.
LEMMA OperateKeepsNoDoubt ==
  ASSUME Inv, Operate
  PROVE  NoDoubt'
<1> USE DEF Inv
<1>1. SUFFICES ASSUME ~call'.doubt
      PROVE  /\ \A f \in Pending' : f \notin landed' /\ Waits(f)'
             /\ \A f \in landed', i \in DOMAIN call'.todo : f.tx = call'.todo[i] => Waits(f)'
             /\ \A f, g \in landed' : f.tx = g.tx => f = g
  BY DEF NoDoubt
<1>2. /\ call \in [n : 0..MaxCalls, op : Ops \cup {"none"}, step : CallSteps, todo : Todos,
                   attempt : 1..MaxAttempts, claimed : BOOLEAN, doubt : BOOLEAN]
      /\ call.todo \in TodoLists(call.op)
  BY DEF TypeOK, CallTyped
<1>3. ~call.doubt
  <2>1. CASE Attempting
    BY <1>1, <2>1, AttemptingFacts
  <2>2. CASE Confirmed \/ Inspect \/ Settle
    BY <1>1, <1>2, <2>2 DEF Confirmed, Inspect, Settle, To
  <2> QED
    BY <2>1, <2>2 DEF Operate, Attempting
<1>4. /\ \A f \in Pending : f \notin landed /\ Waits(f)
      /\ \A f \in landed, i \in DOMAIN call.todo : f.tx = call.todo[i] => Waits(f)
      /\ \A f, g \in landed : f.tx = g.tx => f = g
  BY <1>3 DEF NoDoubt
<1>5. pos' = pos /\ landed' = landed
  BY OperateKeepsChain
<1>6. ASSUME Pending' = {}, call'.todo = call.todo,
             \A f \in landed, i \in DOMAIN call.todo : f.tx # call.todo[i]
      PROVE  /\ \A f \in Pending' : f \notin landed' /\ Waits(f)'
             /\ \A f \in landed', i \in DOMAIN call'.todo : f.tx = call'.todo[i] => Waits(f)'
             /\ \A f, g \in landed' : f.tx = g.tx => f = g
  BY <1>4, <1>5, <1>6
<1>7. ASSUME call.step \notin {"await", "ambiguous"}
      PROVE  Pending = {} /\ \A f \in landed, i \in DOMAIN call.todo : f.tx # call.todo[i]
  BY <1>4, <1>7 DEF Waits
<1>8. ASSUME flight' = flight
      PROVE  Pending' = Pending
  BY <1>8 DEF Pending
<1>9. CASE Preflight \/ Refused
  <2>1. flight' = flight /\ call.step \in {"preflight", "send"} /\ Attempting
    BY <1>9 DEF Attempting, Preflight, Refused, CallKeeps, chain
  <2>2. Pending' = {} /\ call'.todo = call.todo
    BY <1>7, <1>8, <2>1, AttemptingFacts
  <2> QED
    BY <1>6, <1>7, <2>1, <2>2
<1>10. CASE Broadcast
  <2>1. /\ This \in Attempts /\ This.tx = Tx
        /\ 1 \in DOMAIN call.todo /\ call.todo[1] = Tx /\ call.step = "send"
    BY <1>2, <1>10, TxIsTyped, TodosAreLists DEF Broadcast, StepsMatch, Tx
  <2>2. This \notin landed
    BY <1>7, <2>1
  <2>3. call'.step = "await" /\ call'.todo = call.todo /\ This' = This
    BY <1>2, <1>10 DEF Broadcast, To, This, Tx
  <2>4. Pending' \subseteq {This}
    BY <1>7, <1>10, <2>1 DEF Broadcast, Pending
  <2>5. Waits(This)'
    BY <2>3 DEF Waits
  <2> QED
    BY <1>4, <1>5, <1>7, <2>1, <2>2, <2>3, <2>4, <2>5 DEF Waits
<1>11. CASE FailedOnChain
  <2>1. This \notin flight /\ This \notin landed /\ flight' = flight
    BY <1>11 DEF FailedOnChain, CallKeeps, chain
  <2>2. Pending = {} /\ \A f \in landed, i \in DOMAIN call.todo : f.tx # call.todo[i]
    BY <1>4, <2>1 DEF Waits, Pending
  <2>3. Pending' = {} /\ call'.todo = call.todo
    BY <1>8, <1>11, <2>1, <2>2, AttemptingFacts DEF Attempting
  <2> QED
    BY <1>6, <2>2, <2>3
<1>12. CASE AnswerLost
  <2>1. PICK error \in {"busy", "timeout", "expired"} : Catch(error, GivenUp(error))
    BY <1>12 DEF AnswerLost
  <2>2. ~GivenUp(error)
    BY <1>1, <1>2, <2>1 DEF Catch
  <2>3. error \in AmbiguousTexts /\ ~(error \in Transient /\ call.attempt < MaxAttempts)
    BY <2>2 DEF GivenUp
  <2>4. call' = [call EXCEPT !.step = Thrown("ambiguous"), !.doubt = @ \/ GivenUp(error)]
    BY <2>1, <2>3 DEF Catch, Outcome
  <2>5. call'.step = "ambiguous" /\ call'.todo = call.todo /\ call'.attempt = call.attempt
    BY <1>2, <1>12, <2>4, ThrownFacts, AttemptingFacts DEF Attempting
  <2>6. call.step = "await" /\ flight' = flight
    BY <1>12 DEF AnswerLost, CallKeeps, chain
  <2>7. \A f : Waits(f)' <=> Waits(f)
    BY <2>5, <2>6 DEF Waits, This, Tx
  <2> QED
    BY <1>4, <1>5, <1>8, <2>5, <2>6, <2>7
<1>13. CASE Confirmed
  <2>1. This \in landed /\ call.todo # <<>> /\ flight' = flight /\ call'.todo = Tail(call.todo)
    BY <1>2, <1>13 DEF Confirmed, StepsMatch, CallKeeps, chain
  <2>2. Pending' = {}
    BY <1>4, <1>8, <2>1 DEF Waits
  <2>3. \A i \in DOMAIN Tail(call.todo) :
          /\ Tail(call.todo)[i] # Tx
          /\ i + 1 \in DOMAIN call.todo /\ Tail(call.todo)[i] = call.todo[i + 1]
    BY <1>2, <2>1, TodosAreLists DEF Tx
  <2>4. \A f \in landed, i \in DOMAIN Tail(call.todo) : f.tx # Tail(call.todo)[i]
    BY <1>4, <2>1, <2>3, TxIsTyped DEF Waits
  <2> QED
    BY <1>4, <1>5, <2>1, <2>2, <2>4
<1>14. CASE Inspect
  <2>1. /\ flight' = flight /\ call.step = "inspect" /\ call.op = "close"
        /\ \A f \in landed : f.tx = "claim"
    BY <1>14 DEF Inspect, CallKeeps, chain, StepsMatch, OnlyClaims
  <2>2. Pending' = {}
    BY <1>7, <1>8, <2>1
  <2>3. CASE To("error")
    <3>1. call'.todo = call.todo
      BY <1>2, <2>3 DEF To
    <3> QED
      BY <1>6, <1>7, <2>1, <2>2, <3>1
  <2>4. CASE call' = [call EXCEPT !.step = "preflight", !.attempt = 1,
                        !.todo = Remainder(pos = "funded", call.claimed)]
    <3>1. call'.todo = Remainder(pos = "funded", call.claimed)
      BY <1>2, <2>4
    <3>2. \A i \in DOMAIN call'.todo : call'.todo[i] # "claim"
      BY <3>1 DEF Remainder
    <3> QED
      BY <1>4, <1>5, <2>1, <2>2, <3>2
  <2> QED
    BY <1>14, <2>3, <2>4 DEF Inspect
<1>15. CASE Settle
  <2>1. call'.todo = call.todo /\ flight' = flight /\ call.step = "settle"
    BY <1>2, <1>15 DEF Settle, To, chain
  <2> QED
    BY <1>6, <1>7, <1>8, <2>1
<1> QED
  BY <1>9, <1>10, <1>11, <1>12, <1>13, <1>14, <1>15 DEF Operate
\* A close sends nothing but its claim until its position was inspected.
LEMMA OperateKeepsOnlyClaims ==
  ASSUME Inv, Operate
  PROVE  OnlyClaims'
<1> USE DEF Inv
<1>1. SUFFICES ASSUME call'.op = "close", call'.todo = <<"claim">> \/ call'.step = "inspect"
      PROVE  \A f \in landed' \cup Pending' : f.tx = "claim"
  BY DEF OnlyClaims
<1>2. /\ call \in [n : 0..MaxCalls, op : Ops \cup {"none"}, step : CallSteps, todo : Todos,
                   attempt : 1..MaxAttempts, claimed : BOOLEAN, doubt : BOOLEAN]
      /\ call.todo \in TodoLists(call.op)
  BY DEF TypeOK, CallTyped
<1>3. call.op = "close"
  BY <1>1, OperateFacts
<1>4. call.todo = <<"claim">> \/ call.step = "inspect"
  <2>1. CASE Attempting
    BY <1>1, <2>1, AttemptingFacts
  <2>2. CASE Confirmed
    <3>1. /\ call'.todo = Tail(call.todo) /\ call.todo # <<>>
          /\ call'.step = "inspect" => InClaimOfClose
      BY <1>2, <2>2 DEF Confirmed, StepsMatch
    <3>2. Tail(call.todo) # <<"claim">>
      <4>1. call.todo \in {<<"claim">>, <<"closeEmpty">>, <<"remove", "closeEmpty">>,
                           <<"removeAndClose">>}
        BY <1>2, <1>3, <3>1 DEF TodoLists
      <4>2. CASE call.todo = <<"remove", "closeEmpty">>
        <5>1. Tail(call.todo) = <<"closeEmpty">>
          BY <4>2
        <5> QED
          BY <5>1
      <4>3. CASE call.todo # <<"remove", "closeEmpty">>
        <5>1. PICK tx \in Txs : call.todo = <<tx>>
          BY <4>1, <4>3 DEF Txs
        <5>2. Tail(call.todo) = <<>>
          BY <5>1
        <5> QED
          BY <5>2
      <4> QED
        BY <4>2, <4>3
    <3> QED
      BY <1>1, <1>2, <1>3, <3>1, <3>2 DEF InClaimOfClose, Tx, TodoLists
  <2>3. CASE Inspect \/ Settle
    <3>1. CASE Settle
      BY <1>1, <1>2, <3>1 DEF Settle, To, StepsMatch
    <3>2. CASE Inspect
      BY <3>2 DEF Inspect
    <3> QED
      BY <2>3, <3>1, <3>2
  <2> QED
    BY <2>1, <2>2, <2>3 DEF Operate, Attempting
<1>5. \A f \in landed \cup Pending : f.tx = "claim"
  BY <1>3, <1>4 DEF OnlyClaims
<1>6. landed' = landed /\ (~Broadcast => flight' = flight)
      /\ (Broadcast => flight' = flight \cup {This})
  BY OperateKeepsChain
<1>7. ASSUME Broadcast
      PROVE  This.tx = "claim"
  <2>1. call.todo # <<>> /\ call.todo = <<"claim">>
    BY <1>4, <1>7 DEF Broadcast, StepsMatch
  <2> QED
    BY <2>1 DEF This, Tx
<1> QED
  BY <1>5, <1>6, <1>7 DEF Pending

\* A deploy ends when its last transaction has landed.
LEMMA OperateKeepsDeploying ==
  ASSUME Inv, Operate
  PROVE  Deploying'
<1> USE DEF Inv
<1>1. /\ call \in [n : 0..MaxCalls, op : Ops \cup {"none"}, step : CallSteps, todo : Todos,
                   attempt : 1..MaxAttempts, claimed : BOOLEAN, doubt : BOOLEAN]
      /\ call.todo \in TodoLists(call.op)
  BY DEF TypeOK, CallTyped
<1>2. call'.op = call.op /\ call.op # "none"
  <2>1. call.step # "idle"
    BY DEF Operate, Preflight, Broadcast, Refused, FailedOnChain, AnswerLost, Confirmed,
           Inspect, Settle
  <2> QED
    BY <2>1, OperateFacts DEF StepsMatch
<1>3. /\ pos' = pos /\ landed' = landed
      /\ ~Broadcast => flight' = flight
      /\ Broadcast => flight' = flight \cup {This}
  BY OperateKeepsChain
<1>4. ASSUME Broadcast
      PROVE  call.todo # <<>> /\ This.tx = Head(call.todo) /\ This.attempt # 0
  BY <1>1, <1>4 DEF Broadcast, StepsMatch, This, Tx
<1>5. ASSUME call'.step \in {"settle", "success"}
      PROVE  \/ call.step \in {"settle", "success"}
             \/ /\ This \in landed /\ This.tx = Head(call.todo) /\ call.todo # <<>>
                /\ ~(Len(call.todo) > 1)
  <2>1. CASE Attempting
    BY <1>5, <2>1, AttemptingFacts
  <2>2. CASE Confirmed
    BY <1>1, <1>5, <2>2 DEF Confirmed, StepsMatch, This, Tx
  <2>3. CASE Inspect
    BY <1>1, <1>5, <2>3 DEF Inspect, To
  <2>4. CASE Settle
    BY <2>4 DEF Settle
  <2> QED
    BY <2>1, <2>2, <2>3, <2>4 DEF Operate, Attempting
<1>6. call.op \in Deploys => \A f \in flight' : f.attempt # 0
  BY <1>3, <1>4 DEF Deploying
<1>7. NarrowDeploy'
  <2>1. SUFFICES ASSUME call.op = "deploy"
        PROVE  /\ \A f \in flight' \cup landed' : f.tx = "open"
               /\ pos' = IF landed' = {} THEN "absent" ELSE "funded"
               /\ call'.step \in {"settle", "success"} => landed' # {}
    BY <1>2 DEF NarrowDeploy
  <2>2. call.todo # <<>> => Head(call.todo) = "open"
    BY <1>1, <2>1 DEF TodoLists
  <2> QED
    BY <1>3, <1>4, <1>5, <2>1, <2>2 DEF Deploying, NarrowDeploy
<1>8. WideDeploy'
  <2>1. SUFFICES ASSUME call.op = "wide"
        PROVE  /\ \A f \in flight' \cup landed' : f.tx \in {"create", "extend", "add"}
               /\ pos' # "closed"
               /\ pos' = "funded" <=> \E f \in landed' : f.tx = "add"
               /\ call'.todo \in {<<"create", "extend", "add">>, <<"extend", "add">>} =>
                    \A f \in flight' \cup landed' : f.tx # "add"
               /\ call'.step \in {"settle", "success"} => pos' = "funded"
    BY <1>2 DEF WideDeploy
  <2> DEFINE Early == {<<"create", "extend", "add">>, <<"extend", "add">>}
  <2>2. call.todo \in {<<"create", "extend", "add">>, <<"extend", "add">>, <<"add">>, <<>>}
    BY <1>1, <2>1 DEF TodoLists
  <2>3. /\ call.todo # <<>> => Head(call.todo) \in {"create", "extend", "add"}
        /\ call.todo \in Early => Head(call.todo) # "add" /\ Len(call.todo) > 1
        /\ call.todo # <<>> /\ call.todo \notin Early => Head(call.todo) = "add"
    BY <2>2
  <2>4. call'.todo \in Early => call.todo \in Early
    <3>1. CASE Confirmed
      <4>1. call'.todo = Tail(call.todo)
        BY <1>1, <3>1 DEF Confirmed
      <4>2. Tail(<<"add">>) \notin Early /\ Tail(<<>>) \notin Early
        <5>1. Tail(<<"add">>) = <<>>
          OBVIOUS
        <5> QED
          BY <5>1
      <4>3. call.todo # <<>>
        BY <3>1 DEF Confirmed, StepsMatch
      <4> QED
        BY <2>2, <4>1, <4>2, <4>3
    <3>2. CASE ~Confirmed
      <4>1. ~Inspect
        BY <2>1 DEF Inspect, StepsMatch
      <4> QED
        BY <3>2, <4>1, OperateFacts
    <3> QED
      BY <3>1, <3>2
  <2>5. /\ \A f \in flight \cup landed : f.tx \in {"create", "extend", "add"}
        /\ pos # "closed"
        /\ pos = "funded" <=> \E f \in landed : f.tx = "add"
        /\ call.todo \in Early => \A f \in flight \cup landed : f.tx # "add"
        /\ call.step \in {"settle", "success"} => pos = "funded"
    BY <2>1 DEF Deploying, WideDeploy
  <2>6. \A f \in flight' \cup landed' :
          f.tx \in {"create", "extend", "add"} /\ (call.todo \in Early => f.tx # "add")
    BY <1>3, <1>4, <2>3, <2>5
  <2>7. call'.step \in {"settle", "success"} => pos = "funded"
    BY <1>5, <2>3, <2>5
  <2> QED
    BY <1>3, <2>4, <2>5, <2>6, <2>7
<1> QED
  BY <1>2, <1>6, <1>7, <1>8 DEF Deploying

\* A close ends when the position is closed.
LEMMA OperateKeepsClosing ==
  ASSUME Inv, Operate
  PROVE  Closing'
<1> USE DEF Inv
<1>1. SUFFICES ASSUME call.op = "close"
      PROVE  /\ \A f \in landed' : f.tx \in {"closeEmpty", "removeAndClose"} => pos' = "closed"
             /\ call'.step \in {"settle", "success"} => pos' = "closed"
  BY OperateFacts DEF Closing
<1>2. /\ call \in [n : 0..MaxCalls, op : Ops \cup {"none"}, step : CallSteps, todo : Todos,
                   attempt : 1..MaxAttempts, claimed : BOOLEAN, doubt : BOOLEAN]
      /\ call.todo \in TodoLists(call.op)
  BY DEF TypeOK, CallTyped
<1>3. pos' = pos /\ landed' = landed
  BY OperateKeepsChain
<1>4. call'.step \in {"settle", "success"} => pos = "closed"
  <2>1. CASE Attempting
    BY <2>1, AttemptingFacts
  <2>2. CASE Confirmed
    <3>1. SUFFICES ASSUME ~InClaimOfClose, ~(Len(call.todo) > 1)
          PROVE  pos = "closed"
      BY <1>2, <2>2 DEF Confirmed
    <3>2. call.todo # <<>> /\ This \in landed
      BY <2>2 DEF Confirmed, StepsMatch
    <3>3. call.todo \in {<<"claim">>, <<"closeEmpty">>, <<"remove", "closeEmpty">>,
                         <<"removeAndClose">>}
      BY <1>1, <1>2, <3>2 DEF TodoLists
    <3>4. Head(call.todo) # "claim"
      BY <1>1, <3>1 DEF InClaimOfClose, Tx
    <3>5. call.todo # <<"remove", "closeEmpty">> /\ call.todo # <<"claim">>
      BY <3>1, <3>4
    <3>6. Head(call.todo) \in {"closeEmpty", "removeAndClose"}
      BY <3>3, <3>5
    <3> QED
      BY <1>1, <3>2, <3>6 DEF Closing, This, Tx
  <2>3. CASE Inspect
    BY <1>2, <2>3 DEF Inspect, To
  <2>4. CASE Settle
    BY <1>1, <2>4 DEF Settle, Closing
  <2> QED
    BY <2>1, <2>2, <2>3, <2>4 DEF Operate, Attempting
<1> QED
  BY <1>1, <1>3, <1>4 DEF Closing

\* The caches follow the end of a close.
LEMMA OperateKeepsReadersAreTold ==
  ASSUME Inv, Operate
  PROVE  ReadersAreTold'
<1> USE DEF Inv
<1>1. SUFFICES ASSUME call.op = "close", call'.step = "success"
      PROVE  /\ ~known'
             /\ cache'.shows = "open" => cache'.overtaken
             /\ reader'.shows = "open" => reader'.overtaken
  BY OperateFacts DEF ReadersAreTold
<1>2. call \in [n : 0..MaxCalls, op : Ops \cup {"none"}, step : CallSteps, todo : Todos,
                attempt : 1..MaxAttempts, claimed : BOOLEAN, doubt : BOOLEAN]
  BY DEF TypeOK, CallTyped
<1>3. Settle
  <2>1. ~Attempting
    BY <1>1, AttemptingFacts
  <2>2. ~Confirmed /\ ~Inspect
    BY <1>1, <1>2 DEF Confirmed, Inspect, To
  <2> QED
    BY <2>1, <2>2 DEF Operate, Attempting
<1>4. ~known' /\ cache' = NoListing
  BY <1>1, <1>3 DEF Settle, UpdateCaches, Deploys
<1>5. reader \in Listings /\ reader' = [reader EXCEPT !.overtaken = reader # NoListing]
  <2>1. (call.op = "close" /\ reader # NoListing) = (reader # NoListing)
    BY <1>1
  <2> QED
    BY <1>3, <2>1 DEF Settle, TypeOK
<1>6. reader'.shows = "open" => reader'.overtaken
  <2>1. reader'.shows = reader.shows /\ reader'.overtaken = (reader # NoListing)
    BY <1>5 DEF Listings
  <2>2. NoListing.shows = "nothing"
    BY DEF NoListing
  <2> QED
    BY <2>1, <2>2
<1> QED
  BY <1>4, <1>6 DEF NoListing
-----------------------------------------------------------------------------
(* Around a call *)

\* What lands was in flight, and takes effect where it can.
LEMMA LandFacts ==
  ASSUME TypeOK, NEW f \in flight, Land(f)
  PROVE  /\ f.tx \in Txs /\ f.attempt \in Nat
         /\ call' = call /\ flight' = flight \ {f}
         /\ landed' \subseteq landed \cup {f} /\ landed \subseteq landed'
         /\ f.attempt # 0 => f \in landed'
         /\ f.attempt = 0 => landed' = landed
         /\ pos # "closed"
         /\ f.tx = "open" => pos = "absent" /\ pos' = "funded"
         /\ f.tx = "add" => pos' = "funded"
         /\ f.tx \in {"create", "extend"} => pos # "funded" /\ pos' = "empty"
         /\ f.tx \in {"closeEmpty", "removeAndClose"} => pos' = "closed"
<1>1. f.tx \in Txs /\ f.attempt \in Nat
  <2>1. f \in Attempts
    BY DEF TypeOK
  <2>2. \A n \in 0..MaxAttempts : n \in Nat
    BY AttemptsArePositive
  <2> QED
    BY <2>1, <2>2 DEF Attempts
<1>2. pos \in Effect(f.tx).from /\ pos' = Effect(f.tx).to
  BY DEF Land
<1>3. /\ "closed" \notin Effect(f.tx).from
      /\ f.tx = "open" => Effect(f.tx) = [from |-> {"absent"}, to |-> "funded"]
      /\ f.tx = "add" => Effect(f.tx).to = "funded"
      /\ f.tx \in {"create", "extend"} => "funded" \notin Effect(f.tx).from
                                          /\ Effect(f.tx).to = "empty"
      /\ f.tx \in {"closeEmpty", "removeAndClose"} => Effect(f.tx).to = "closed"
  BY <1>1 DEF Effect, Txs
<1> QED
  BY <1>1, <1>2, <1>3 DEF Land

\* What the other steps around a call leave alone.
LEMMA AsideFacts ==
  ASSUME Drop \/ Fetch \/ Fetched \/ Expire \/ Prune
  PROVE  /\ call' = call /\ pos' = pos /\ landed' = landed /\ flight' \subseteq flight
BY DEF Drop, Fetch, Fetched, Expire, Prune, chain

\* An attempt that lands is the present one, unless it was given up.
LEMMA AroundKeepsNoDoubt ==
  ASSUME Inv, Around
  PROVE  NoDoubt'
<1> USE DEF Inv
<1>1. CASE Drop \/ Fetch \/ Fetched \/ Expire \/ Prune
  <2>1. call' = call /\ landed' = landed /\ Pending' \subseteq Pending
    BY <1>1, AsideFacts DEF Pending
  <2>2. \A f : Waits(f)' <=> Waits(f)
    BY <2>1 DEF Waits, This, Tx
  <2> QED
    BY <2>1, <2>2 DEF NoDoubt
<1>2. ASSUME NEW f \in flight, Land(f)
      PROVE  NoDoubt'
  <2>1. /\ f.attempt \in Nat
        /\ call' = call /\ flight' = flight \ {f}
        /\ landed' \subseteq landed \cup {f} /\ landed \subseteq landed'
        /\ f.attempt = 0 => landed' = landed
    BY <1>2, LandFacts
  <2>2. \A g : Waits(g)' <=> Waits(g)
    BY <2>1 DEF Waits, This, Tx
  <2>3. SUFFICES ASSUME ~call.doubt
        PROVE  /\ \A g \in Pending' : g \notin landed' /\ Waits(g)'
               /\ \A g \in landed', i \in DOMAIN call.todo : g.tx = call.todo[i] => Waits(g)'
               /\ \A g, h \in landed' : g.tx = h.tx => g = h
    BY <2>1 DEF NoDoubt
  <2>4. /\ \A g \in Pending : g \notin landed /\ Waits(g)
        /\ \A g \in landed, i \in DOMAIN call.todo : g.tx = call.todo[i] => Waits(g)
        /\ \A g, h \in landed : g.tx = h.tx => g = h
    BY <2>3 DEF NoDoubt
  <2>5. Pending' = Pending \ {f}
    BY <2>1 DEF Pending
  <2>6. CASE f.attempt = 0
    BY <2>1, <2>2, <2>4, <2>5, <2>6
  <2>7. CASE f.attempt # 0
    <3>1. f \in Pending /\ Waits(f)
      BY <2>1, <2>4, <2>7 DEF Pending
    <3>2. call.todo # <<>> /\ call.todo \in TodoLists(call.op) /\ call.op \in Ops \cup {"none"}
      BY <3>1 DEF Waits, StepsMatch, TypeOK, CallTyped
    <3>3. f.tx = Tx /\ 1 \in DOMAIN call.todo /\ call.todo[1] = Tx
      BY <3>1, <3>2, TxIsTyped, TodosAreLists DEF Waits, Tx
    <3>4. \A g \in landed : g.tx = f.tx => g = f
      BY <2>4, <3>1, <3>3 DEF Waits
    <3> QED
      BY <2>1, <2>2, <2>4, <2>5, <3>1, <3>4
  <2> QED
    BY <2>6, <2>7
<1> QED
  BY <1>1, <1>2 DEF Around

\* Nothing that lands changes what a close or a deploy tells.
LEMMA AroundKeepsPosition ==
  ASSUME Inv, Around
  PROVE  OnlyClaims' /\ Deploying' /\ Closing'
<1> USE DEF Inv
<1>1. CASE Drop \/ Fetch \/ Fetched \/ Expire \/ Prune
  <2>1. /\ call' = call /\ pos' = pos /\ landed' = landed /\ flight' \subseteq flight
        /\ Pending' \subseteq Pending
    BY <1>1, AsideFacts DEF Pending
  <2>2. OnlyClaims' /\ Closing'
    BY <2>1 DEF OnlyClaims, Closing
  <2>3. NarrowDeploy' /\ WideDeploy'
    BY <2>1 DEF Deploying, NarrowDeploy, WideDeploy
  <2> QED
    BY <2>1, <2>2, <2>3 DEF Deploying
<1>2. ASSUME NEW f \in flight, Land(f)
      PROVE  OnlyClaims' /\ Deploying' /\ Closing'
  <2>1. /\ f.tx \in Txs /\ f.attempt \in Nat
        /\ call' = call /\ flight' = flight \ {f}
        /\ landed' \subseteq landed \cup {f} /\ landed \subseteq landed'
        /\ f.attempt # 0 => f \in landed'
        /\ f.attempt = 0 => landed' = landed
        /\ pos # "closed"
        /\ f.tx = "open" => pos = "absent" /\ pos' = "funded"
        /\ f.tx = "add" => pos' = "funded"
        /\ f.tx \in {"create", "extend"} => pos # "funded" /\ pos' = "empty"
        /\ f.tx \in {"closeEmpty", "removeAndClose"} => pos' = "closed"
    BY <1>2, LandFacts
  <2>2. OnlyClaims'
    <3>1. landed' \cup Pending' \subseteq landed \cup Pending
      BY <2>1 DEF Pending
    <3> QED
      BY <2>1, <3>1 DEF OnlyClaims
  <2>3. Closing'
    BY <2>1 DEF Closing
  <2>4. call.op # "none" /\ (call.op \in Deploys => f.attempt # 0)
    BY DEF Deploying
  <2>5. NarrowDeploy'
    BY <2>1, <2>4 DEF Deploying, NarrowDeploy, Deploys
  <2>6. WideDeploy'
    <3>1. SUFFICES ASSUME call.op = "wide"
          PROVE  WideDeploy'
      BY <2>1 DEF WideDeploy
    <3>2. f.tx \in {"create", "extend", "add"} /\ landed' = landed \cup {f}
      BY <2>1, <2>4, <3>1 DEF Deploying, WideDeploy, Deploys
    <3>3. CASE f.tx = "add"
      BY <2>1, <3>1, <3>2, <3>3 DEF Deploying, WideDeploy
    <3>4. CASE f.tx \in {"create", "extend"}
      BY <2>1, <3>1, <3>2, <3>4 DEF Deploying, WideDeploy
    <3> QED
      BY <3>2, <3>3, <3>4
  <2> QED
    BY <2>1, <2>2, <2>3, <2>4, <2>5, <2>6 DEF Deploying
<1> QED
  BY <1>1, <1>2 DEF Around

\* A listing fetched after a close shows no position.
LEMMA AroundKeepsReadersAreTold ==
  ASSUME Inv, Around
  PROVE  ReadersAreTold'
<1> USE DEF Inv
<1>1. call' = call
  BY DEF Around, Drop, Fetch, Fetched, Expire, Prune, Land
<1>2. SUFFICES ASSUME call.op = "close", call.step = "success"
      PROVE  /\ ~known'
             /\ cache'.shows = "open" => cache'.overtaken
             /\ reader'.shows = "open" => reader'.overtaken
  BY <1>1 DEF ReadersAreTold
<1>3. /\ ~known /\ (cache.shows = "open" => cache.overtaken)
      /\ (reader.shows = "open" => reader.overtaken)
  BY <1>2 DEF ReadersAreTold
<1>4. Listing.shows # "open" /\ NoListing.shows # "open"
  BY <1>2 DEF Closing, Listing, NoListing
<1> QED
  BY <1>3, <1>4 DEF Around, Drop, Fetch, Fetched, Expire, Prune, Land, reads

-----------------------------------------------------------------------------
(* The theorems *)

LEMMA InitHasInv ==
  Init => Inv
<1> SUFFICES ASSUME Init
    PROVE  Inv
  OBVIOUS
<1> USE DEF Init, Idle, NoListing
<1>1. CallTyped
  <2>1. <<>> \in TodoLists("none")
    BY DEF TodoLists
  <2>2. <<>> \in Todos
    BY <2>1 DEF Todos
  <2>3. 0 \in 0..MaxCalls /\ 1 \in 1..MaxAttempts /\ "idle" \in CallSteps
    BY CallsAreNatural, AttemptsArePositive DEF CallSteps, Ended
  <2> QED
    BY <2>1, <2>2, <2>3 DEF CallTyped
<1>2. TypeOK
  BY <1>1 DEF TypeOK, Listings
<1>3. StepsMatch /\ NoDoubt /\ OnlyClaims /\ Deploying /\ Closing /\ ReadersAreTold
  BY DEF StepsMatch, NoDoubt, OnlyClaims, Deploying, NarrowDeploy, WideDeploy, Closing,
         ReadersAreTold, Pending, Deploys
<1> QED
  BY <1>2, <1>3 DEF Inv

LEMMA NextKeepsInv ==
  Inv /\ [Next]_vars => Inv'
<1> SUFFICES ASSUME Inv, [Next]_vars
    PROVE  Inv'
  OBVIOUS
<1>1. CASE Starts
  BY <1>1, StartsKeepInv
<1>2. CASE Operate
  BY <1>2, OperateKeepsTypes, OperateKeepsStepsMatch, OperateKeepsNoDoubt,
     OperateKeepsOnlyClaims, OperateKeepsDeploying, OperateKeepsClosing,
     OperateKeepsReadersAreTold DEF Inv
<1>3. CASE Around
  <2>1. StepsMatch'
    <3>1. call' = call
      BY <1>3 DEF Around, Drop, Fetch, Fetched, Expire, Prune, Land
    <3> QED
      BY <3>1 DEF Inv, StepsMatch
  <2> QED
    BY <1>3, <2>1, AroundKeepsTypes, AroundKeepsNoDoubt, AroundKeepsPosition,
       AroundKeepsReadersAreTold DEF Inv
<1>4. CASE UNCHANGED vars
  BY <1>4 DEF vars, Inv, TypeOK, CallTyped, StepsMatch, NoDoubt, OnlyClaims, Deploying,
              NarrowDeploy, WideDeploy, Closing, ReadersAreTold, Pending, Waits, This, Tx
<1> QED
  BY <1>1, <1>2, <1>3, <1>4 DEF Next, Starts, Around

\* At any time the call, the attempts and the readers are as Inv says.
THEOREM GatewayInvariant == Spec => []Inv
BY InitHasInv, NextKeepsInv, PTL DEF Spec

\* Every variable keeps its type.
THEOREM TypeCorrect == Spec => []TypeOK
<1>1. Inv => TypeOK
  BY DEF Inv
<1> QED
  BY <1>1, GatewayInvariant, PTL

\* A call that returns has done what it was called for, and each of its
\* transactions once unless it gave one up.
THEOREM SuccessIsDone == Spec => []SuccessMeansDone
<1>1. Inv => SuccessMeansDone
  <2> SUFFICES ASSUME Inv, call.step = "success"
      PROVE  /\ call.op \in Deploys => pos = "funded"
             /\ call.op = "close" => pos = "closed"
             /\ ~call.doubt => \A f, g \in landed : f.tx = g.tx => f = g
    BY DEF SuccessMeansDone
  <2> QED
    BY DEF Inv, Deploying, NarrowDeploy, WideDeploy, Deploys, Closing, NoDoubt
<1> QED
  BY <1>1, GatewayInvariant, PTL

\* A plain error leaves nothing of its transaction done or on its way, unless an
\* attempt was given up; and no funds in a wide position.
THEOREM PlainErrorsMovedNothing == Spec => []PlainErrorMovedNothing
<1>1. Inv => PlainErrorMovedNothing
  <2> SUFFICES ASSUME Inv, call.step = "error"
      PROVE  /\ ~call.doubt => Pending = {}
                               /\ \A f \in landed : call.todo # <<>> => f.tx # Tx
             /\ call.op = "wide" => pos \in {"absent", "empty"}
                                    /\ \A f \in Pending : f.tx # "add"
    BY DEF PlainErrorMovedNothing
  <2> USE DEF Inv
  <2>1. call.op \in Ops \cup {"none"} /\ call.todo \in TodoLists(call.op)
    BY DEF TypeOK, CallTyped
  <2>2. ASSUME ~call.doubt
        PROVE  Pending = {} /\ \A f \in landed : call.todo # <<>> => f.tx # Tx
    <3>1. call.todo # <<>> => 1 \in DOMAIN call.todo /\ call.todo[1] = Tx
      BY <2>1, TodosAreLists DEF Tx
    <3> QED
      BY <2>2, <3>1 DEF NoDoubt, Waits
  <2>3. ASSUME call.op = "wide"
        PROVE  pos \in {"absent", "empty"} /\ \A f \in Pending : f.tx # "add"
    <3>1. call.todo \in {<<"create", "extend", "add">>, <<"extend", "add">>}
      <4>1. call.todo # <<"add">> /\ call.todo # <<>>
        BY <2>3 DEF StepsMatch
      <4> QED
        BY <2>1, <2>3, <4>1 DEF TodoLists
    <3>2. \A f \in flight \cup landed : f.tx # "add"
      BY <2>3, <3>1 DEF Deploying, WideDeploy
    <3> QED
      BY <2>3, <3>2 DEF Deploying, WideDeploy, TypeOK, Pending
  <2> QED
    BY <2>2, <2>3
<1> QED
  BY <1>1, GatewayInvariant, PTL

\* A closed position is not served as open, except from a listing that was on
\* its way when the close ended.
THEOREM ClosedNotServed == Spec => []ClosedIsNotServed
<1>1. Inv => ClosedIsNotServed
  BY DEF Inv, ReadersAreTold, ClosedIsNotServed, Served
<1> QED
  BY <1>1, GatewayInvariant, PTL
=============================================================================
