--------------------------- MODULE MeteoraGateway ---------------------------
(***************************************************************************)
(* MeteoraSdkDlmmGateway over the life of one position.  An operation is a *)
(* sequence of transactions; each is simulated, then sent and awaited, and *)
(* sent again, newly signed, when the error's text is on the list of the   *)
(* transient ones.  An attempt whose answer was lost may land at any later *)
(* time.  Beside it the readers go through a cache of the open positions   *)
(* and the map of recent deploys.                                          *)
(*                                                                         *)
(* SDK arrays of transactions are one each, except that the creation of a  *)
(* wide position has two; amounts are left out.                            *)
(***************************************************************************)
EXTENDS Naturals, Sequences, FiniteSets

CONSTANTS
  MaxAttempts,   \* RpcSubmitRetryDelaysMs has one entry less
  MaxCalls       \* bound: operations called in the life of the position

ASSUME AttemptsArePositive == MaxAttempts \in Nat \ {0}
ASSUME CallsAreNatural == MaxCalls \in Nat

VARIABLES
  pos,      \* the position on the chain: "absent", "empty", "funded", "closed"
  call,     \* the operation under way, or the last one
  flight,   \* attempts broadcast and not yet settled
  landed,   \* attempts of this call that took effect
  known,    \* the position is in recentDeploys
  cache,    \* openPositionsCache
  reader    \* a listing under way

chain == <<pos, flight, landed>>
reads == <<known, cache, reader>>
vars == <<pos, call, flight, landed, known, cache, reader>>

Deploys == {"deploy", "wide"}
Ops == Deploys \cup {"close", "claim", "partial"}
Txs == {"open", "create", "extend", "add", "claim", "remove", "removeAndClose",
        "closeEmpty", "part"}

(* The attempts at a transaction are numbered; 0 is one of an earlier call. *)
Attempts == [tx : Txs, attempt : 0..MaxAttempts]

(* A transaction takes effect in the states of "from" and fails in others. *)
Effect(tx) ==
  CASE tx = "open"           -> [from |-> {"absent"}, to |-> "funded"]
    [] tx = "create"         -> [from |-> {"absent"}, to |-> "empty"]
    [] tx = "extend"         -> [from |-> {"empty"}, to |-> "empty"]
    [] tx = "add"            -> [from |-> {"empty", "funded"}, to |-> "funded"]
    [] tx = "remove"         -> [from |-> {"funded"}, to |-> "empty"]
    [] tx = "removeAndClose" -> [from |-> {"funded"}, to |-> "closed"]
    [] tx = "closeEmpty"     -> [from |-> {"empty"}, to |-> "closed"]
    [] tx \in {"claim", "part"} -> [from |-> {"funded"}, to |-> "funded"]

(* The listing a fetch returns; it is overtaken when a close succeeds before *)
(* it arrives.                                                               *)
NoListing == [shows |-> "nothing", overtaken |-> FALSE]
Listing ==
  [shows |-> IF pos \in {"empty", "funded"} THEN "open" ELSE "none", overtaken |-> FALSE]

Idle == [n |-> 0, op |-> "none", step |-> "idle", todo |-> <<>>, attempt |-> 1,
         claimed |-> FALSE, doubt |-> FALSE]

Init ==
  /\ pos = "absent" /\ flight = {} /\ landed = {}
  /\ call = Idle
  /\ known = FALSE /\ cache = NoListing /\ reader = NoListing

Ended == {"idle", "success", "error", "ambiguous"}
Tx == Head(call.todo)
This == [tx |-> Tx, attempt |-> call.attempt]

-----------------------------------------------------------------------------
(* The operations *)

CallKeeps == UNCHANGED <<chain, reads>>
StartKeeps == UNCHANGED <<pos, reads>>
To(step) == call' = [call EXCEPT !.step = step]

Start(op, todo) ==
  /\ call.step \in Ended /\ call.n < MaxCalls
  /\ call' = [Idle EXCEPT !.n = call.n + 1, !.op = op, !.step = "preflight", !.todo = todo]
  /\ flight' = {[f EXCEPT !.attempt = 0] : f \in flight} /\ landed' = {}

\* deployLiquidity: a key is generated for each call, so a position is the
\* subject of one deploy.  Requests it refuses send nothing.
DeployNarrow ==
  /\ call.n = 0 /\ Start("deploy", <<"open">>)
  /\ StartKeeps

DeployWide ==
  /\ call.n = 0 /\ Start("wide", <<"create", "extend", "add">>)
  /\ StartKeeps

ClaimFees ==
  /\ call.n > 0 /\ Start("claim", <<"claim">>)
  /\ StartKeeps

PartialClose ==
  /\ call.n > 0 /\ pos = "funded" /\ Start("partial", <<"part">>)
  /\ StartKeeps

\* closePosition lists the positions, then claims the fees.
ClosePosition ==
  /\ call.n > 0 /\ Start("close", <<"claim">>)
  /\ cache' \in {cache, Listing}
  /\ UNCHANGED <<pos, known, reader>>

\* An error leaves the operation; the claim before a close may fail, and the
\* funds of a wide deploy may not.
InClaimOfClose == call.op = "close" /\ Tx = "claim"
AfterCreation == call.op = "wide" /\ Tx = "add"

Thrown(outcome) ==
  IF InClaimOfClose /\ outcome = "error" THEN "inspect"
  ELSE IF AfterCreation THEN "ambiguous"
  ELSE outcome

Throw(outcome) == To(Thrown(outcome))

\* simulateOrThrow, and whatever the SDK may refuse before it.
Preflight ==
  /\ call.step = "preflight"
  /\ To("send") \/ Throw("error")
  /\ CallKeeps

Broadcast ==
  /\ call.step = "send"
  /\ flight' = flight \cup {This}
  /\ To("await")
  /\ UNCHANGED <<pos, landed, reads>>

\* What an error's text is taken for: isTransientRpcSubmitError and
\* isAmbiguousRpcSubmitError.
Transient == {"busy", "timeout"}
AmbiguousTexts == {"timeout", "expired"}

\* Mutant: an error is an error.
PlainOutcome(error) == "error"

Outcome(error) == IF error \in AmbiguousTexts THEN "ambiguous" ELSE "error"

\* The catch block of sendTransactionWithPreflight.
Catch(error, doubt) ==
  IF error \in Transient /\ call.attempt < MaxAttempts
  THEN call' = [call EXCEPT !.step = "send", !.attempt = @ + 1, !.doubt = @ \/ doubt]
  ELSE call' = [call EXCEPT !.step = Thrown(Outcome(error)), !.doubt = @ \/ doubt]

\* The node refuses the transaction, or is not reached: nothing was sent.
Refused ==
  /\ call.step = "send"
  /\ \E error \in {"refused", "busy", "timeout"} : Catch(error, FALSE)
  /\ CallKeeps

\* It was broadcast and failed on the chain.
FailedOnChain ==
  /\ call.step = "await" /\ This \notin flight \cup landed
  /\ Catch("refused", FALSE)
  /\ CallKeeps

\* It was broadcast, and the wait for it ends with an error: the attempt is
\* sent again, or its error reported.
GivenUp(error) ==
  \/ error \notin AmbiguousTexts
  \/ error \in Transient /\ call.attempt < MaxAttempts

AnswerLost ==
  /\ call.step = "await"
  /\ \E error \in {"busy", "timeout", "expired"} : Catch(error, GivenUp(error))
  /\ CallKeeps

\* Confirmed: the next transaction, or the operation's last part.
Confirmed ==
  /\ call.step = "await" /\ This \in landed
  /\ call' = [call EXCEPT !.attempt = 1, !.todo = Tail(@), !.claimed = @ \/ InClaimOfClose,
       !.step = IF InClaimOfClose THEN "inspect"
                ELSE IF Len(call.todo) > 1 THEN "preflight" ELSE "settle"]
  /\ CallKeeps

\* Mutant: the account is left open after its liquidity was removed.
RemainderLeftOpen(hasLiquidity, claimed) ==
  IF ~hasLiquidity THEN <<"closeEmpty">>
  ELSE IF claimed THEN <<"remove">> ELSE <<"removeAndClose">>

\* What closePosition has still to send.
Remainder(hasLiquidity, claimed) ==
  IF ~hasLiquidity THEN <<"closeEmpty">>
  ELSE IF claimed THEN <<"remove", "closeEmpty">> ELSE <<"removeAndClose">>

\* loadWritablePositionState; it throws when there is no position to read.
Inspect ==
  /\ call.step = "inspect"
  /\ \/ To("error")
     \/ /\ pos \in {"empty", "funded"}
        /\ call' = [call EXCEPT !.step = "preflight", !.attempt = 1,
             !.todo = Remainder(pos = "funded", call.claimed)]
  /\ CallKeeps

\* Mutant: the listing is kept.
KeepListing ==
  /\ known' = IF call.op \in Deploys THEN TRUE ELSE known /\ call.op # "close"
  /\ UNCHANGED cache

\* The caches follow the write.
UpdateCaches ==
  /\ known' = IF call.op \in Deploys THEN TRUE ELSE known /\ call.op # "close"
  /\ cache' = NoListing

Settle ==
  /\ call.step = "settle"
  /\ To("success") /\ UpdateCaches
  /\ reader' = [reader EXCEPT !.overtaken = call.op = "close" /\ reader # NoListing]
  /\ UNCHANGED chain

Operate ==
  \/ Preflight \/ Broadcast \/ Refused \/ FailedOnChain \/ AnswerLost
  \/ Confirmed \/ Inspect \/ Settle

-----------------------------------------------------------------------------
(* The chain, the readers and the clock *)

\* An attempt in flight takes effect at any time, unless it fails or expires;
\* one that was given up may as well stay in flight for ever.
Land(f) ==
  /\ f \in flight /\ flight' = flight \ {f}
  /\ pos \in Effect(f.tx).from /\ pos' = Effect(f.tx).to
  /\ landed' = IF f.attempt = 0 THEN landed ELSE landed \cup {f}
  /\ UNCHANGED <<call, reads>>

Drop ==
  /\ call.step = "await" /\ This \in flight
  /\ flight' = flight \ {This}
  /\ UNCHANGED <<pos, landed, call, reads>>

\* listPositionsForWallet without a fresh listing: the fetch and its answer
\* are apart, and the answer is cached when it comes.
Fetch ==
  /\ cache = NoListing /\ reader = NoListing
  /\ reader' = Listing
  /\ UNCHANGED <<chain, call, known, cache>>

Fetched ==
  /\ reader # NoListing
  /\ cache' = reader /\ reader' = NoListing
  /\ UNCHANGED <<chain, call, known>>

\* A listing is served for PositionsCacheTtlMs.
Expire ==
  /\ cache # NoListing
  /\ cache' = NoListing
  /\ UNCHANGED <<chain, call, known, reader>>

\* pruneEphemeralCaches
Prune ==
  /\ known /\ known' = FALSE
  /\ UNCHANGED <<chain, call, cache, reader>>

\* What getPosition answers.
Served == cache.shows = "open" \/ known

-----------------------------------------------------------------------------

Next ==
  \/ DeployNarrow \/ DeployWide \/ ClaimFees \/ PartialClose \/ ClosePosition
  \/ Operate \/ Drop \/ Fetch \/ Fetched \/ Expire \/ Prune
  \/ \E f \in flight : Land(f)

Spec == Init /\ [][Next]_vars

-----------------------------------------------------------------------------
(* Properties *)

\* The attempts of the call that may still land.
Pending == {f \in flight : f.attempt > 0}

\* A call that returns has done what it was called for: the position is funded
\* or closed, although attempts of earlier calls land in between, and each of
\* its transactions took effect once unless an attempt was given up and sent
\* again.
SuccessMeansDone ==
  call.step = "success" =>
    /\ call.op \in Deploys => pos = "funded"
    /\ call.op = "close" => pos = "closed"
    /\ ~call.doubt => \A f, g \in landed : f.tx = g.tx => f = g

\* The handlers end an action FAILED on any error but AmbiguousSubmissionError.
\* Such an error leaves nothing under way and nothing of its transaction done,
\* unless an attempt had been broadcast before and given up for a text that
\* does not count as ambiguous, or to be sent again.  And whatever was given up:
\* a wide deploy has then moved no funds.
PlainErrorMovedNothing ==
  call.step = "error" =>
    /\ ~call.doubt => Pending = {} /\ \A f \in landed : call.todo # <<>> => f.tx # Tx
    /\ call.op = "wide" => pos \in {"absent", "empty"}
                           /\ \A f \in Pending : f.tx # "add"

\* getPosition does not answer OPEN after a successful close, except from a
\* listing that was on its way when the close ended.
ClosedIsNotServed ==
  call.op = "close" /\ call.step = "success" /\ Served => cache.overtaken
=============================================================================
