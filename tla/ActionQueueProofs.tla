------------------------- MODULE ActionQueueProofs -------------------------
(***************************************************************************)
(* The action queue, for any number of actions, wallets, positions and     *)
(* workers, and for any bound on faults and crashes: typing, mutual        *)
(* exclusion of handlers, one active write per wallet, one action per      *)
(* idempotency key, what failed writes cost, and the implementation of     *)
(* WriteLedger.                                                            *)
(***************************************************************************)
EXTENDS ActionQueue, TLAPS

-----------------------------------------------------------------------------
(* Lines: the queue of a lock, a sequence of distinct workers *)

\* s lists the members of S, each once.
IsLine(s, S) ==
  /\ s \in Seq(Workers)
  /\ \A i \in 1..Len(s) : s[i] \in S
  /\ \A w \in S : \E i \in 1..Len(s) : s[i] = w
  /\ \A i, j \in 1..Len(s) : s[i] = s[j] => i = j

\* Asking for a lock: w joins at the end, and the holder keeps its place.
LEMMA JoinLine ==
  ASSUME NEW s, NEW S, IsLine(s, S), NEW w \in Workers, w \notin S
  PROVE  /\ IsLine(Append(s, w), S \cup {w})
         /\ \A v \in S : Head(s) = v => Head(Append(s, w)) = v
<1> DEFINE t == Append(s, w)
<1>1. /\ s \in Seq(Workers) /\ t \in Seq(Workers) /\ Len(t) = Len(s) + 1
      /\ Len(s) \in Nat
      /\ \A i \in 1..Len(s) : t[i] = s[i]
      /\ t[Len(s) + 1] = w
  BY DEF IsLine
<1>2. \A i \in 1..Len(t) : i = Len(t) \/ i \in 1..Len(s)
  BY <1>1
<1>3. \A i \in 1..Len(t) : t[i] \in S \cup {w}
  BY <1>1, <1>2 DEF IsLine
<1>4. \A v \in S \cup {w} : \E i \in 1..Len(t) : t[i] = v
  <2> TAKE v \in S \cup {w}
  <2>1. CASE v = w
    BY <1>1, <2>1
  <2>2. CASE v \in S
    <3>1. PICK i \in 1..Len(s) : s[i] = v
      BY <2>2 DEF IsLine
    <3> QED BY <1>1, <3>1
  <2> QED BY <2>1, <2>2
<1>5. \A i, j \in 1..Len(t) : t[i] = t[j] => i = j
  BY <1>1, <1>2 DEF IsLine
<1>6. ASSUME NEW v \in S, Head(s) = v PROVE Head(t) = v
  <2>1. Len(s) >= 1
    BY <1>1 DEF IsLine
  <2> QED BY <1>1, <1>6, <2>1
<1> HIDE DEF t
<1> QED BY <1>1, <1>3, <1>4, <1>5, <1>6 DEF IsLine, t

\* Releasing a lock: its holder leaves from the front.
LEMMA LeaveLine ==
  ASSUME NEW s, NEW S, IsLine(s, S), NEW w \in S, Head(s) = w
  PROVE  IsLine(Tail(s), S \ {w})
<1> DEFINE t == Tail(s)
<1>1. s \in Seq(Workers) /\ Len(s) \in Nat /\ Len(s) >= 1 /\ s[1] = w
  BY DEF IsLine
<1>2. /\ t \in Seq(Workers) /\ Len(t) = Len(s) - 1
      /\ \A i \in 1..Len(t) : t[i] = s[i + 1] /\ i + 1 \in 1..Len(s)
  BY <1>1
<1> HIDE DEF t
<1>3. \A i \in 1..Len(t) : t[i] \in S \ {w}
  BY <1>1, <1>2, SMTT(20) DEF IsLine
<1>4. \A v \in S \ {w} : \E i \in 1..Len(t) : t[i] = v
  <2> TAKE v \in S \ {w}
  <2>1. PICK i \in 1..Len(s) : s[i] = v
    BY DEF IsLine
  <2>2. i # 1 /\ i - 1 \in 1..Len(t)
    BY <1>1, <1>2, <2>1
  <2>3. t[i - 1] = v
    BY <1>2, <2>1, <2>2
  <2> QED BY <2>2, <2>3
<1>5. ASSUME NEW i \in 1..Len(t), NEW j \in 1..Len(t), t[i] = t[j] PROVE i = j
  <2>1. s[i + 1] = s[j + 1] /\ i + 1 \in 1..Len(s) /\ j + 1 \in 1..Len(s)
    BY <1>2, <1>5
  <2>2. i + 1 = j + 1
    BY <2>1 DEF IsLine
  <2> QED BY <1>2, <2>2
<1> QED BY <1>2, <1>3, <1>4, <1>5 DEF IsLine, t

-----------------------------------------------------------------------------
(* The inductive invariant *)

OnWalletLine ==
  {"walletWait", "positionWait", "handling", "returned", "written", "unwinding"}
OnPositionLine == OnWalletLine \ {"walletWait"}
HoldingWallet == OnWalletLine \ {"walletWait"}
HoldingPosition == OnPositionLine \ {"positionWait"}

WalletQueue(k) ==
  {w \in Workers : stage[w] \in OnWalletLine /\ WalletOf[job[w]] = k}
PositionQueue(p) ==
  {w \in Workers : stage[w] \in OnPositionLine /\ PositionOf[job[w]] = p}

\* The locks' queues hold exactly the workers whose stage says so, and a
\* worker past its wait is at the head.
LinesMatchStages ==
  /\ \A k \in Wallets : IsLine(walletLine[k], WalletQueue(k))
  /\ \A p \in Positions : IsLine(positionLine[p], PositionQueue(p))
  /\ \A w \in Workers :
       stage[w] \in HoldingWallet => Head(walletLine[WalletOf[job[w]]]) = w
  /\ \A w \in Workers :
       stage[w] \in HoldingPosition /\ PositionOf[job[w]] # NoPosition
         => Head(positionLine[PositionOf[job[w]]]) = w

\* No worker lives while the process is down, and one that is back from its
\* handler has an outcome to write.
WorkersAreSane ==
  /\ ~booted => \A w \in Workers : stage[w] = "idle"
  /\ \A w \in Workers : stage[w] = "returned" => outcome[w] \in Outcomes

Inv ==
  /\ TypeOK
  /\ WorkersAreSane
  /\ LinesMatchStages
  /\ ClaimedActionIsUntouched
  /\ OneActiveWritePerWallet
  /\ OneActionPerKey

\* An empty store, idle workers, free locks.
LEMMA InitInv == Init => Inv
<1> SUFFICES ASSUME Init PROVE Inv
  OBVIOUS
<1>1. TypeOK
  <2>1. <<>> \in Seq(Workers) /\ 0 \in 0..MaxFaults /\ 0 \in 0..MaxCrashes
    BY BoundsAreNatural
  <2>2. status \in [Actions -> ActionStatuses \cup {"ABSENT"}]
    BY DEF Init
  <2>3. /\ stage \in [Workers -> Stages]
        /\ job \in [Workers -> Actions \cup {NoAction}]
        /\ \A w \in Workers : stage[w] = "idle" <=> job[w] = NoAction
    BY DEF Init, Stages
  <2>4. /\ outcome \in [Workers -> Outcomes \cup {NoOutcome}]
        /\ submitted \in [Workers -> BOOLEAN]
        /\ booted \in BOOLEAN /\ paused \in BOOLEAN
    BY DEF Init
  <2>5. /\ walletLine \in [Wallets -> Seq(Workers)]
        /\ positionLine \in [Positions -> Seq(Workers)]
        /\ submissions \in [Actions -> Nat]
    BY <2>1 DEF Init
  <2>6. faults \in 0..MaxFaults /\ crashes \in 0..MaxCrashes
    BY <2>1 DEF Init
  <2> QED BY <2>2, <2>3, <2>4, <2>5, <2>6 DEF TypeOK
<1>4. WorkersAreSane
  BY DEF Init, WorkersAreSane
<1>2. LinesMatchStages
  <2>1. \A w \in Workers : stage[w] \notin OnWalletLine
    BY DEF Init, OnWalletLine
  <2>2. /\ \A k \in Wallets : WalletQueue(k) = {}
        /\ \A p \in Positions : PositionQueue(p) = {}
    BY <2>1 DEF WalletQueue, PositionQueue, OnPositionLine
  <2>3. IsLine(<<>>, {})
    BY DEF IsLine
  <2> QED BY <2>1, <2>2, <2>3
          DEF Init, LinesMatchStages, HoldingWallet, HoldingPosition, OnPositionLine
<1>3. ClaimedActionIsUntouched /\ OneActiveWritePerWallet /\ OneActionPerKey
  BY DEF Init, ClaimedActionIsUntouched, OneActiveWritePerWallet, OneActionPerKey,
         ActiveWriteStatuses, Stored
<1> QED BY <1>1, <1>2, <1>3, <1>4 DEF Inv

-----------------------------------------------------------------------------
(* The locks' queues *)

\* A worker that is not idle works for an action.
LEMMA JobIsAction ==
  ASSUME TypeOK, NEW w \in Workers, stage[w] # "idle"
  PROVE  /\ job[w] \in Actions
         /\ WalletOf[job[w]] \in Wallets
         /\ PositionOf[job[w]] \in Positions \cup {NoPosition}
  BY WalletOfType, PositionOfType DEF TypeOK

\* A step that touches no lock keeps the queues right when it moves no worker
\* in or out of them and promotes nobody.
LEMMA SameLines ==
  ASSUME LinesMatchStages, UNCHANGED locks,
         \A w \in Workers :
           /\ stage'[w] \in OnWalletLine <=> stage[w] \in OnWalletLine
           /\ stage'[w] \in OnPositionLine <=> stage[w] \in OnPositionLine
           /\ stage'[w] \in HoldingPosition <=> stage[w] \in HoldingPosition
           /\ stage[w] \in OnWalletLine => job'[w] = job[w]
  PROVE  LinesMatchStages'
<1>1. walletLine' = walletLine /\ positionLine' = positionLine
  BY DEF locks
<1>2. \A k : WalletQueue(k)' = WalletQueue(k)
  BY DEF WalletQueue
<1>3. \A p : PositionQueue(p)' = PositionQueue(p)
  BY DEF PositionQueue, OnPositionLine
<1>4. /\ \A k \in Wallets : IsLine(walletLine[k], WalletQueue(k))'
      /\ \A p \in Positions : IsLine(positionLine[p], PositionQueue(p))'
  BY <1>1, <1>2, <1>3 DEF LinesMatchStages, IsLine
<1>5. \A w \in Workers : stage'[w] \in HoldingWallet =>
        stage[w] \in HoldingWallet /\ job'[w] = job[w]
  BY DEF HoldingWallet, OnPositionLine
<1>6. \A w \in Workers : stage'[w] \in HoldingPosition =>
        stage[w] \in HoldingPosition /\ job'[w] = job[w]
  BY DEF HoldingPosition, OnPositionLine
<1> QED BY <1>1, <1>4, <1>5, <1>6 DEF LinesMatchStages

\* Asking for the wallet lock.
LEMMA QueueForWalletLines ==
  ASSUME TypeOK, LinesMatchStages, NEW w \in Workers, QueueForWallet(w)
  PROVE  walletLine' \in [Wallets -> Seq(Workers)] /\ LinesMatchStages'
<1> DEFINE k0 == WalletOf[job[w]]
<1>1. k0 \in Wallets /\ job[w] \in Actions
  BY JobIsAction DEF QueueForWallet
<1>2. /\ walletLine' = [walletLine EXCEPT ![k0] = Append(walletLine[k0], w)]
      /\ stage[w] = "claimed" /\ stage' = [stage EXCEPT ![w] = "walletWait"]
      /\ job' = job /\ positionLine' = positionLine
      /\ walletLine \in [Wallets -> Seq(Workers)] /\ stage \in [Workers -> Stages]
  BY DEF QueueForWallet, TypeOK
<1>3. /\ WalletQueue(k0)' = WalletQueue(k0) \cup {w} /\ w \notin WalletQueue(k0)
      /\ \A k \in Wallets : k # k0 => WalletQueue(k)' = WalletQueue(k)
      /\ \A p \in Positions : PositionQueue(p)' = PositionQueue(p)
  BY <1>2 DEF WalletQueue, PositionQueue, OnWalletLine, OnPositionLine
<1>4. /\ IsLine(Append(walletLine[k0], w), WalletQueue(k0) \cup {w})
      /\ \A v \in WalletQueue(k0) :
           Head(walletLine[k0]) = v => Head(Append(walletLine[k0], w)) = v
  <2> HIDE DEF k0
  <2>1. IsLine(walletLine[k0], WalletQueue(k0)) /\ w \notin WalletQueue(k0)
    BY <1>1, <1>3 DEF LinesMatchStages
  <2> QED BY <2>1, JoinLine
<1>5. \A k \in Wallets : IsLine(walletLine[k], WalletQueue(k))'
  <2>1. \A k \in Wallets : IsLine(walletLine'[k], WalletQueue(k)')
    BY <1>1, <1>2, <1>3, <1>4 DEF LinesMatchStages
  <2> QED BY <2>1 DEF IsLine
<1>6. \A p \in Positions : IsLine(positionLine[p], PositionQueue(p))'
  <2>1. \A p \in Positions : IsLine(positionLine'[p], PositionQueue(p)')
    BY <1>2, <1>3 DEF LinesMatchStages
  <2> QED BY <2>1 DEF IsLine
<1>7. \A v \in Workers : stage'[v] \in HoldingWallet => Head(walletLine'[WalletOf[job'[v]]]) = v
  <2> SUFFICES ASSUME NEW v \in Workers, stage'[v] \in HoldingWallet
               PROVE  Head(walletLine'[WalletOf[job[v]]]) = v
    BY <1>2
  <2>1. v # w /\ stage[v] \in HoldingWallet
    BY <1>2 DEF HoldingWallet
  <2>2. Head(walletLine[WalletOf[job[v]]]) = v
    BY <2>1 DEF LinesMatchStages
  <2>3. CASE WalletOf[job[v]] = k0
    <3>1. v \in WalletQueue(k0)
      BY <2>1, <2>3 DEF WalletQueue, HoldingWallet
    <3> QED BY <1>1, <1>2, <1>4, <2>2, <2>3, <3>1
  <2>4. CASE WalletOf[job[v]] # k0
    <3>1. WalletOf[job[v]] \in Wallets
      BY <2>1, JobIsAction DEF HoldingWallet, OnWalletLine
    <3> QED BY <1>2, <2>2, <2>4, <3>1
  <2> QED BY <2>3, <2>4
<1>8. \A v \in Workers :
        stage'[v] \in HoldingPosition /\ PositionOf[job'[v]] # NoPosition
          => Head(positionLine'[PositionOf[job'[v]]]) = v
  BY <1>2 DEF LinesMatchStages, HoldingPosition, OnPositionLine, OnWalletLine
<1>9. walletLine' \in [Wallets -> Seq(Workers)]
  BY <1>1, <1>2
<1> QED BY <1>5, <1>6, <1>7, <1>8, <1>9 DEF LinesMatchStages

\* Being granted the wallet lock, and asking for the position lock.
LEMMA HoldWalletLines ==
  ASSUME TypeOK, LinesMatchStages, NEW w \in Workers, HoldWallet(w)
  PROVE  positionLine' \in [Positions -> Seq(Workers)] /\ LinesMatchStages'
<1> DEFINE p0 == PositionOf[job[w]]
<1>1. /\ stage[w] = "walletWait"
      /\ Head(walletLine[WalletOf[job[w]]]) = w
      /\ stage \in [Workers -> Stages]
      /\ positionLine \in [Positions -> Seq(Workers)]
      /\ job' = job /\ walletLine' = walletLine
  BY DEF HoldWallet, TypeOK
<1>2. p0 \in Positions \cup {NoPosition} /\ NoPosition \notin Positions
  BY <1>1, JobIsAction, NoPositionIsNoPosition
<1>3. \E x \in {"handling", "positionWait"} : stage' = [stage EXCEPT ![w] = x]
  BY DEF HoldWallet
<1>4. \A k \in Wallets : IsLine(walletLine[k], WalletQueue(k))'
  <2>1. \A k \in Wallets : WalletQueue(k)' = WalletQueue(k)
    BY <1>1, <1>3 DEF WalletQueue, OnWalletLine
  <2>2. \A k \in Wallets : IsLine(walletLine'[k], WalletQueue(k)')
    BY <1>1, <2>1 DEF LinesMatchStages
  <2> QED BY <2>2 DEF IsLine
<1>5. \A v \in Workers :
        stage'[v] \in HoldingWallet => Head(walletLine'[WalletOf[job'[v]]]) = v
  BY <1>1, <1>3 DEF LinesMatchStages, HoldingWallet, OnWalletLine
<1>6. CASE p0 = NoPosition
  <2>1. positionLine' = positionLine /\ stage' = [stage EXCEPT ![w] = "handling"]
    BY <1>6 DEF HoldWallet
  <2>2. \A p \in Positions : PositionQueue(p)' = PositionQueue(p)
    BY <1>1, <1>2, <1>6, <2>1 DEF PositionQueue, OnPositionLine, OnWalletLine
  <2>3. \A p \in Positions : IsLine(positionLine'[p], PositionQueue(p)')
    BY <2>1, <2>2 DEF LinesMatchStages
  <2>4. \A p \in Positions : IsLine(positionLine[p], PositionQueue(p))'
    BY <2>3 DEF IsLine
  <2>5. \A v \in Workers :
          stage'[v] \in HoldingPosition /\ PositionOf[job'[v]] # NoPosition
            => Head(positionLine'[PositionOf[job'[v]]]) = v
    BY <1>1, <1>6, <2>1
       DEF LinesMatchStages, HoldingPosition, OnPositionLine, OnWalletLine
  <2> QED BY <1>1, <1>4, <1>5, <2>1, <2>4, <2>5 DEF LinesMatchStages
<1>7. CASE p0 # NoPosition
  <2>1. /\ p0 \in Positions
        /\ positionLine' = [positionLine EXCEPT ![p0] = Append(positionLine[p0], w)]
        /\ stage' = [stage EXCEPT ![w] = "positionWait"]
    BY <1>2, <1>7 DEF HoldWallet
  <2>2. /\ PositionQueue(p0)' = PositionQueue(p0) \cup {w} /\ w \notin PositionQueue(p0)
        /\ \A p \in Positions : p # p0 => PositionQueue(p)' = PositionQueue(p)
    BY <1>1, <2>1 DEF PositionQueue, OnPositionLine, OnWalletLine
  <2>3. /\ IsLine(Append(positionLine[p0], w), PositionQueue(p0) \cup {w})
        /\ \A v \in PositionQueue(p0) :
             Head(positionLine[p0]) = v => Head(Append(positionLine[p0], w)) = v
    <3> HIDE DEF p0
    <3>1. IsLine(positionLine[p0], PositionQueue(p0)) /\ w \notin PositionQueue(p0)
      BY <2>1, <2>2 DEF LinesMatchStages
    <3> QED BY <3>1, JoinLine
  <2>4. \A p \in Positions : IsLine(positionLine'[p], PositionQueue(p)')
    BY <1>1, <2>1, <2>2, <2>3 DEF LinesMatchStages
  <2>5. \A p \in Positions : IsLine(positionLine[p], PositionQueue(p))'
    BY <2>4 DEF IsLine
  <2>6. \A v \in Workers :
          stage'[v] \in HoldingPosition /\ PositionOf[job'[v]] # NoPosition
            => Head(positionLine'[PositionOf[job'[v]]]) = v
    <3> SUFFICES ASSUME NEW v \in Workers, stage'[v] \in HoldingPosition,
                        PositionOf[job[v]] # NoPosition
                 PROVE  Head(positionLine'[PositionOf[job[v]]]) = v
      BY <1>1
    <3>1. v # w /\ stage[v] \in HoldingPosition
      BY <1>1, <2>1 DEF HoldingPosition, OnPositionLine, OnWalletLine
    <3>2. Head(positionLine[PositionOf[job[v]]]) = v
      BY <3>1 DEF LinesMatchStages
    <3>3. PositionOf[job[v]] \in Positions
      BY <3>1, JobIsAction DEF HoldingPosition, OnPositionLine, OnWalletLine
    <3>4. CASE PositionOf[job[v]] = p0
      <4>1. v \in PositionQueue(p0)
        BY <3>1, <3>4 DEF PositionQueue, HoldingPosition
      <4> QED BY <1>1, <2>1, <2>3, <3>2, <3>4, <4>1
    <3>5. CASE PositionOf[job[v]] # p0
      BY <1>1, <2>1, <3>2, <3>3, <3>5
    <3> QED BY <3>4, <3>5
  <2>7. positionLine' \in [Positions -> Seq(Workers)]
    BY <1>1, <2>1
  <2> QED BY <1>4, <1>5, <2>5, <2>6, <2>7 DEF LinesMatchStages
<1> QED BY <1>6, <1>7

\* Being granted the position lock.
LEMMA HoldPositionLines ==
  ASSUME TypeOK, LinesMatchStages, NEW w \in Workers, HoldPosition(w)
  PROVE  LinesMatchStages'
<1>1. /\ stage[w] = "positionWait" /\ stage' = [stage EXCEPT ![w] = "handling"]
      /\ Head(positionLine[PositionOf[job[w]]]) = w
      /\ stage \in [Workers -> Stages]
      /\ job' = job /\ walletLine' = walletLine /\ positionLine' = positionLine
  BY DEF HoldPosition, TypeOK, locks
<1>2. /\ \A k : WalletQueue(k)' = WalletQueue(k)
      /\ \A p : PositionQueue(p)' = PositionQueue(p)
  BY <1>1 DEF WalletQueue, PositionQueue, OnPositionLine, OnWalletLine
<1>3. /\ \A k \in Wallets : IsLine(walletLine[k], WalletQueue(k))'
      /\ \A p \in Positions : IsLine(positionLine[p], PositionQueue(p))'
  BY <1>1, <1>2, SMTT(20) DEF LinesMatchStages, IsLine
<1>4. /\ \A v \in Workers :
           stage'[v] \in HoldingWallet => Head(walletLine'[WalletOf[job'[v]]]) = v
      /\ \A v \in Workers :
           stage'[v] \in HoldingPosition /\ PositionOf[job'[v]] # NoPosition
             => Head(positionLine'[PositionOf[job'[v]]]) = v
  BY <1>1 DEF LinesMatchStages, HoldingWallet, HoldingPosition, OnPositionLine, OnWalletLine
<1> QED BY <1>3, <1>4 DEF LinesMatchStages

\* Releasing both locks on the way out of the handler.
LEMMA LeaveLines ==
  ASSUME TypeOK, LinesMatchStages, NEW w \in Workers,
         stage[w] \in {"written", "unwinding"}, LeaveLocks(w),
         NEW x \in {"idle", "requeueing"}, stage' = [stage EXCEPT ![w] = x],
         \A v \in Workers : v # w => job'[v] = job[v]
  PROVE  /\ walletLine' \in [Wallets -> Seq(Workers)]
         /\ positionLine' \in [Positions -> Seq(Workers)]
         /\ LinesMatchStages'
<1> DEFINE k0 == WalletOf[job[w]]
           p0 == PositionOf[job[w]]
<1>1. /\ walletLine' = [walletLine EXCEPT ![k0] = Tail(walletLine[k0])]
      /\ positionLine' = [p \in Positions |->
           IF p = p0 THEN Tail(positionLine[p]) ELSE positionLine[p]]
      /\ stage \in [Workers -> Stages]
      /\ walletLine \in [Wallets -> Seq(Workers)]
      /\ positionLine \in [Positions -> Seq(Workers)]
  BY DEF LeaveLocks, TypeOK
<1>2. k0 \in Wallets /\ p0 \in Positions \cup {NoPosition} /\ NoPosition \notin Positions
  BY JobIsAction, NoPositionIsNoPosition
<1>3. /\ \A k \in Wallets : WalletQueue(k)' =
           IF k = k0 THEN WalletQueue(k) \ {w} ELSE WalletQueue(k)
      /\ \A p \in Positions : PositionQueue(p)' =
           IF p = p0 THEN PositionQueue(p) \ {w} ELSE PositionQueue(p)
      /\ w \in WalletQueue(k0)
      /\ w \in PositionQueue(p0)
  BY <1>1 DEF WalletQueue, PositionQueue, OnPositionLine, OnWalletLine
<1>4. IsLine(Tail(walletLine[k0]), WalletQueue(k0) \ {w})
  <2> HIDE DEF k0
  <2>1. IsLine(walletLine[k0], WalletQueue(k0)) /\ w \in WalletQueue(k0)
    BY <1>2, <1>3 DEF LinesMatchStages
  <2>2. Head(walletLine[k0]) = w
    BY DEF LinesMatchStages, HoldingWallet, OnWalletLine, k0
  <2> QED BY <2>1, <2>2, LeaveLine
<1>5. ASSUME p0 \in Positions
      PROVE  IsLine(Tail(positionLine[p0]), PositionQueue(p0) \ {w})
  <2>1. Head(positionLine[p0]) = w
    BY <1>2, <1>5 DEF LinesMatchStages, HoldingPosition, OnPositionLine, OnWalletLine
  <2> HIDE DEF p0
  <2>2. IsLine(positionLine[p0], PositionQueue(p0)) /\ w \in PositionQueue(p0)
    BY <1>3, <1>5 DEF LinesMatchStages
  <2> QED BY <2>1, <2>2, LeaveLine
<1>6. \A k \in Wallets : IsLine(walletLine[k], WalletQueue(k))'
  <2>1. \A k \in Wallets : IsLine(walletLine'[k], WalletQueue(k)')
    BY <1>1, <1>2, <1>3, <1>4 DEF LinesMatchStages
  <2> QED BY <2>1 DEF IsLine
<1>7. \A p \in Positions : IsLine(positionLine[p], PositionQueue(p))'
  <2>1. \A p \in Positions : IsLine(positionLine'[p], PositionQueue(p)')
    BY <1>1, <1>3, <1>5 DEF LinesMatchStages
  <2> QED BY <2>1 DEF IsLine
\* Whoever still holds a lock holds another one: only one worker is first.
<1>8. \A v \in Workers :
        stage'[v] \in HoldingWallet => Head(walletLine'[WalletOf[job'[v]]]) = v
  <2> SUFFICES ASSUME NEW v \in Workers, stage'[v] \in HoldingWallet
               PROVE  Head(walletLine'[WalletOf[job'[v]]]) = v
    OBVIOUS
  <2>1. v # w /\ stage[v] \in HoldingWallet /\ job'[v] = job[v]
    BY <1>1 DEF HoldingWallet, OnWalletLine
  <2>2. Head(walletLine[WalletOf[job[v]]]) = v /\ Head(walletLine[k0]) = w
    BY <2>1 DEF LinesMatchStages, HoldingWallet, OnWalletLine
  <2>3. WalletOf[job[v]] \in Wallets
    BY <2>1, JobIsAction DEF HoldingWallet, OnWalletLine
  <2> QED BY <1>1, <2>1, <2>2, <2>3
<1>9. \A v \in Workers :
        stage'[v] \in HoldingPosition /\ PositionOf[job'[v]] # NoPosition
          => Head(positionLine'[PositionOf[job'[v]]]) = v
  <2> SUFFICES ASSUME NEW v \in Workers, stage'[v] \in HoldingPosition,
                      PositionOf[job'[v]] # NoPosition
               PROVE  Head(positionLine'[PositionOf[job'[v]]]) = v
    OBVIOUS
  <2>1. v # w /\ stage[v] \in HoldingPosition /\ job'[v] = job[v]
    BY <1>1 DEF HoldingPosition, OnPositionLine, OnWalletLine
  <2>2. Head(positionLine[PositionOf[job[v]]]) = v
    BY <2>1 DEF LinesMatchStages
  <2>3. p0 # NoPosition => Head(positionLine[p0]) = w
    BY DEF LinesMatchStages, HoldingPosition, OnPositionLine, OnWalletLine
  <2>4. PositionOf[job[v]] \in Positions
    BY <2>1, JobIsAction DEF HoldingPosition, OnPositionLine, OnWalletLine
  <2> QED BY <1>1, <1>2, <2>1, <2>2, <2>3, <2>4
<1>10. /\ walletLine' \in [Wallets -> Seq(Workers)]
       /\ positionLine' \in [Positions -> Seq(Workers)]
  <2>1. Tail(walletLine[k0]) \in Seq(Workers)
    BY <1>4 DEF IsLine
  <2>2. p0 \in Positions => Tail(positionLine[p0]) \in Seq(Workers)
    BY <1>5 DEF IsLine
  <2> QED BY <1>1, <1>2, <2>1, <2>2
<1> QED BY <1>6, <1>7, <1>8, <1>9, <1>10 DEF LinesMatchStages

-----------------------------------------------------------------------------
(* The steps *)

StatusInv == ClaimedActionIsUntouched /\ OneActiveWritePerWallet /\ OneActionPerKey

\* A step of a worker that writes no status and takes no action.
LEMMA WorkerKeepsStatus ==
  ASSUME Inv, NEW w \in Workers, UNCHANGED <<status, job>>, stage[w] # "idle",
         stage[w] # "written", NEW x \in Stages, stage' = [stage EXCEPT ![w] = x]
  PROVE  StatusInv'
  BY DEF Inv, TypeOK, StatusInv, ClaimedActionIsUntouched, OneActiveWritePerWallet,
         OneActionPerKey, Stored

\* A worker that retires takes nothing with it.
LEMMA RetireKeepsStatus ==
  ASSUME Inv, NEW w \in Workers, UNCHANGED status, Retire(w)
  PROVE  StatusInv'
  BY DEF Inv, TypeOK, StatusInv, Retire, ClaimedActionIsUntouched,
         OneActiveWritePerWallet, OneActionPerKey, Stored

\* A step of nobody's that moves a stored action which is not RUNNING, and
\* makes it active only if it was.
LEMMA OutsideWrite ==
  ASSUME Inv, UNCHANGED <<stage, job>>, NEW a \in Actions, NEW x,
         status' = [status EXCEPT ![a] = x], Stored(a),
         status[a] # "RUNNING",
         x \in ActiveWriteStatuses => status[a] \in ActiveWriteStatuses
  PROVE  StatusInv'
  BY DEF Inv, TypeOK, StatusInv, ClaimedActionIsUntouched, OneActiveWritePerWallet,
         OneActionPerKey, Stored

\* The type of what a worker's step assigns.
LEMMA StageType ==
  ASSUME Inv, NEW w \in Workers, NEW x \in Stages \ {"idle"}, stage[w] # "idle",
         stage' = [stage EXCEPT ![w] = x], UNCHANGED job
  PROVE  /\ stage' \in [Workers -> Stages]
         /\ job' \in [Workers -> Actions \cup {NoAction}]
         /\ \A v \in Workers : stage'[v] = "idle" <=> job'[v] = NoAction
  BY DEF Inv, TypeOK

\* A worker that retires is idle and free of its action.
LEMMA RetireType ==
  ASSUME Inv, NEW w \in Workers, Retire(w)
  PROVE  /\ stage' \in [Workers -> Stages]
         /\ job' \in [Workers -> Actions \cup {NoAction}]
         /\ \A v \in Workers : stage'[v] = "idle" <=> job'[v] = NoAction
         /\ outcome' \in [Workers -> Outcomes \cup {NoOutcome}]
         /\ submitted' \in [Workers -> BOOLEAN]
<1>1. /\ stage' \in [Workers -> Stages]
      /\ job' \in [Workers -> Actions \cup {NoAction}]
      /\ \A v \in Workers : stage'[v] = "idle" <=> job'[v] = NoAction
  BY DEF Inv, TypeOK, Retire, Stages
<1>2. outcome' \in [Workers -> Outcomes \cup {NoOutcome}]
  BY DEF Inv, TypeOK, Retire
<1>3. submitted' \in [Workers -> BOOLEAN]
  BY DEF Inv, TypeOK, Retire
<1> QED BY <1>1, <1>2, <1>3

\* Fewer faults than the bound leave room for one more.
LEMMA OneMoreFault ==
  ASSUME TypeOK, faults < MaxFaults
  PROVE  faults + 1 \in 0..MaxFaults
  BY BoundsAreNatural DEF TypeOK

\* Requests, operator commands, confirmations and recovery leave the workers
\* alone.
LEMMA OutsideSteps ==
  ASSUME Inv,
         \/ \E a \in Actions : Enqueue(a) \/ Conclude(a) \/ RecoverStale(a)
         \/ Pause \/ Resume \/ Boot
  PROVE  Inv'
<1> USE DEF Inv
<1>1. UNCHANGED <<stage, job, outcome, locks, submitted, submissions, crashes>>
  BY DEF Enqueue, Conclude, RecoverStale, Pause, Resume, Boot, counters
<1>2. LinesMatchStages'
  BY <1>1, SameLines
<1>3. WorkersAreSane'
  BY <1>1 DEF Enqueue, Conclude, RecoverStale, Pause, Resume, Boot, WorkersAreSane
<1>4. UNCHANGED <<walletLine, positionLine>>
  BY <1>1 DEF locks
<1>5. booted' \in BOOLEAN /\ paused' \in BOOLEAN
  BY DEF Enqueue, Conclude, RecoverStale, Pause, Resume, Boot, TypeOK
<1>6. faults' \in 0..MaxFaults
  BY OneMoreFault DEF Enqueue, Conclude, RecoverStale, Pause, Resume, Boot, TypeOK, counters
<1>7. ASSUME NEW a \in Actions, Enqueue(a) PROVE StatusInv' /\ status' \in [Actions -> ActionStatuses \cup {"ABSENT"}]
  <2>1. /\ status' = [status EXCEPT ![a] = "QUEUED"] /\ status[a] = "ABSENT"
        /\ \A b \in Actions : Stored(b) => KeyOf[b] # KeyOf[a]
    BY <1>7 DEF Enqueue, Stored
  <2> QED BY <1>1, <2>1 DEF TypeOK, StatusInv, ClaimedActionIsUntouched,
            OneActiveWritePerWallet, OneActionPerKey, Stored, ActionStatuses, ActiveWriteStatuses
<1>8. ASSUME NEW a \in Actions, Conclude(a) PROVE StatusInv' /\ status' \in [Actions -> ActionStatuses \cup {"ABSENT"}]
  <2>1. PICK x \in {"RECONCILING", "DONE", "FAILED", "TIMED_OUT"} :
          /\ status[a] \in {"WAITING_CONFIRMATION", "RECONCILING"}
          /\ status' = [status EXCEPT ![a] = x]
    BY <1>8 DEF Conclude
  <2>2. StatusInv'
    BY <1>1, <2>1, OutsideWrite DEF Stored, ActiveWriteStatuses
  <2> QED BY <2>1, <2>2 DEF TypeOK, ActionStatuses
<1>9. ASSUME NEW a \in Actions, RecoverStale(a) PROVE StatusInv' /\ status' \in [Actions -> ActionStatuses \cup {"ABSENT"}]
  <2>1. /\ status' = [status EXCEPT ![a] = "WAITING_CONFIRMATION"]
        /\ status[a] = "RUNNING" /\ \A w \in Workers : stage[w] = "idle"
    BY <1>9 DEF RecoverStale, WorkersAreSane
  <2> QED BY <1>1, <2>1 DEF TypeOK, StatusInv, ClaimedActionIsUntouched,
            OneActiveWritePerWallet, OneActionPerKey, Stored, ActionStatuses, ActiveWriteStatuses
<1>10. ASSUME Pause \/ Resume \/ Boot PROVE StatusInv' /\ status' \in [Actions -> ActionStatuses \cup {"ABSENT"}]
  <2>1. status' = status
    BY <1>10 DEF Pause, Resume, Boot
  <2> QED BY <1>1, <2>1 DEF TypeOK, StatusInv, ClaimedActionIsUntouched,
            OneActiveWritePerWallet, OneActionPerKey, Stored
<1>11. StatusInv' /\ status' \in [Actions -> ActionStatuses \cup {"ABSENT"}]
  BY <1>7, <1>8, <1>9, <1>10
<1>12. TypeOK'
  BY <1>1, <1>4, <1>5, <1>6, <1>11 DEF TypeOK
<1> QED BY <1>2, <1>3, <1>11, <1>12 DEF StatusInv

\* The claim is the one step that makes an action active; the wallet has no
\* other.
LEMMA ClaimStep ==
  ASSUME Inv, NEW w \in Workers, Claim(w)
  PROVE  Inv'
<1> USE DEF Inv
<1>1. PICK a \in Actions :
        /\ Claimable(a)
        /\ status' = [status EXCEPT ![a] = "RUNNING"]
        /\ job' = [job EXCEPT ![w] = a]
  BY DEF Claim
<1>2. /\ stage[w] = "idle" /\ stage' = [stage EXCEPT ![w] = "claimed"] /\ booted
      /\ UNCHANGED <<booted, paused, outcome, walletLine, positionLine,
                     submitted, submissions, faults, crashes>>
  BY DEF Claim, locks, counters
<1>3. /\ status[a] \in ProcessableStatuses /\ a # NoAction
      /\ \A b \in Actions : WalletOf[b] = WalletOf[a] => status[b] \notin ActiveWriteStatuses
  BY <1>1, NoActionIsNoAction DEF Claimable, WalletIsBusy
<1>4. StatusInv'
  <2>1. ClaimedActionIsUntouched'
    BY <1>1, <1>2, <1>3 DEF TypeOK, ClaimedActionIsUntouched, ProcessableStatuses
  <2>2. OneActiveWritePerWallet'
    BY <1>1, <1>3 DEF TypeOK, OneActiveWritePerWallet
  <2>3. OneActionPerKey'
    BY <1>1, <1>3 DEF TypeOK, OneActionPerKey, Stored, ProcessableStatuses
  <2> QED BY <2>1, <2>2, <2>3 DEF StatusInv
<1>5. LinesMatchStages'
  <2>1. \A v \in Workers :
           /\ stage'[v] \in OnWalletLine <=> stage[v] \in OnWalletLine
           /\ stage'[v] \in OnPositionLine <=> stage[v] \in OnPositionLine
           /\ stage'[v] \in HoldingPosition <=> stage[v] \in HoldingPosition
           /\ stage[v] \in OnWalletLine => job'[v] = job[v]
    BY <1>1, <1>2 DEF TypeOK, OnWalletLine, OnPositionLine, HoldingPosition
  <2> QED BY <1>2, <2>1, SameLines DEF locks
<1>6. WorkersAreSane'
  BY <1>2 DEF WorkersAreSane, TypeOK
<1>7. TypeOK'
  <2>1. status' \in [Actions -> ActionStatuses \cup {"ABSENT"}]
    BY <1>1 DEF TypeOK, ActionStatuses
  <2>2. /\ stage' \in [Workers -> Stages]
        /\ job' \in [Workers -> Actions \cup {NoAction}]
        /\ \A v \in Workers : stage'[v] = "idle" <=> job'[v] = NoAction
    BY <1>1, <1>2, <1>3 DEF TypeOK, Stages
  <2> QED BY <1>2, <2>1, <2>2 DEF TypeOK
<1> QED BY <1>4, <1>5, <1>6, <1>7 DEF StatusInv

\* Waiting for and being granted the locks.
LEMMA LockSteps ==
  ASSUME Inv, NEW w \in Workers,
         QueueForWallet(w) \/ HoldWallet(w) \/ HoldPosition(w)
  PROVE  Inv'
<1> USE DEF Inv
<1>1. /\ LinesMatchStages'
      /\ walletLine' \in [Wallets -> Seq(Workers)]
      /\ positionLine' \in [Positions -> Seq(Workers)]
  <2>1. CASE QueueForWallet(w)
    BY <2>1, QueueForWalletLines DEF QueueForWallet, TypeOK
  <2>2. CASE HoldWallet(w)
    BY <2>2, HoldWalletLines DEF HoldWallet, TypeOK
  <2>3. CASE HoldPosition(w)
    BY <2>3, HoldPositionLines DEF HoldPosition, TypeOK, locks
  <2> QED BY <2>1, <2>2, <2>3
<1>2. /\ UNCHANGED <<status, booted, paused, job, outcome, submitted,
                     submissions, faults, crashes>>
      /\ stage[w] \in {"claimed", "walletWait", "positionWait"}
  BY DEF QueueForWallet, HoldWallet, HoldPosition, counters
<1>3. PICK x \in {"walletWait", "positionWait", "handling"} :
        stage' = [stage EXCEPT ![w] = x]
  BY DEF QueueForWallet, HoldWallet, HoldPosition
<1>4. x \in Stages \ {"idle"}
  BY DEF Stages
<1>5. StatusInv'
  BY <1>2, <1>3, <1>4, WorkerKeepsStatus
<1>6. WorkersAreSane'
  BY <1>2, <1>3 DEF WorkersAreSane, TypeOK
<1>7. TypeOK'
  <2>1. /\ stage' \in [Workers -> Stages]
        /\ job' \in [Workers -> Actions \cup {NoAction}]
        /\ \A v \in Workers : stage'[v] = "idle" <=> job'[v] = NoAction
    BY <1>2, <1>3, <1>4, StageType
  <2> QED BY <1>1, <1>2, <2>1 DEF TypeOK
<1> QED BY <1>1, <1>5, <1>6, <1>7 DEF StatusInv

\* While it holds its locks the worker moves within the same queues.
LEMMA HeldLines ==
  ASSUME TypeOK, LinesMatchStages, NEW w \in Workers, UNCHANGED <<locks, job>>,
         NEW x \in {"handling", "returned", "written", "unwinding"},
         stage[w] \in {"handling", "returned"}, stage' = [stage EXCEPT ![w] = x]
  PROVE  LinesMatchStages'
<1>1. \A v \in Workers :
         /\ stage'[v] \in OnWalletLine <=> stage[v] \in OnWalletLine
         /\ stage'[v] \in OnPositionLine <=> stage[v] \in OnPositionLine
         /\ stage'[v] \in HoldingPosition <=> stage[v] \in HoldingPosition
         /\ stage[v] \in OnWalletLine => job'[v] = job[v]
  BY DEF TypeOK, OnWalletLine, OnPositionLine, HoldingPosition
<1> QED BY <1>1, SameLines

\* The handler submits, settles, and may fail to save its outcome.
LEMMA HandlerSteps ==
  ASSUME Inv, NEW w \in Workers, Submit(w) \/ Return(w) \/ WriteOutcomeFails(w)
  PROVE  Inv'
<1> USE DEF Inv
<1>1. /\ UNCHANGED <<status, booted, paused, job, locks, walletLine, positionLine, crashes>>
      /\ stage[w] \in {"handling", "returned"}
  BY DEF Submit, Return, WriteOutcomeFails, counters, locks
<1>2. PICK x \in {"handling", "returned", "unwinding"} : stage' = [stage EXCEPT ![w] = x]
  BY <1>1 DEF Submit, Return, WriteOutcomeFails, TypeOK
<1>3. LinesMatchStages'
  BY <1>1, <1>2, HeldLines
<1>4. StatusInv'
  BY <1>1, <1>2, WorkerKeepsStatus DEF Stages
<1>5. outcome' \in [Workers -> Outcomes \cup {NoOutcome}]
  BY DEF Submit, Return, WriteOutcomeFails, TypeOK
<1>6. WorkersAreSane'
  <2>1. ~booted' => \A v \in Workers : stage'[v] = "idle"
    BY <1>1, <1>2 DEF WorkersAreSane
  <2>2. \A v \in Workers : stage'[v] = "returned" => outcome'[v] \in Outcomes
    <3>1. CASE Submit(w) \/ WriteOutcomeFails(w)
      BY <3>1 DEF Submit, WriteOutcomeFails, WorkersAreSane, TypeOK
    <3>2. CASE Return(w)
      BY <3>2 DEF Return, WorkersAreSane, TypeOK
    <3> QED BY <3>1, <3>2
  <2> QED BY <2>1, <2>2 DEF WorkersAreSane
<1>7. faults' \in 0..MaxFaults
  BY OneMoreFault DEF Submit, Return, WriteOutcomeFails, TypeOK, counters
<1>8. submitted' \in [Workers -> BOOLEAN]
  BY DEF Submit, Return, WriteOutcomeFails, TypeOK
<1>9. submissions' \in [Actions -> Nat]
  BY DEF Submit, Return, WriteOutcomeFails, TypeOK
<1>10. /\ stage' \in [Workers -> Stages]
       /\ job' \in [Workers -> Actions \cup {NoAction}]
       /\ \A v \in Workers : stage'[v] = "idle" <=> job'[v] = NoAction
  BY <1>1, <1>2, StageType DEF Stages
<1>11. TypeOK'
  BY <1>1, <1>5, <1>7, <1>8, <1>9, <1>10 DEF TypeOK
<1> QED BY <1>3, <1>4, <1>6, <1>11 DEF StatusInv

\* The outcome is written over a record that nobody touched since the claim.
LEMMA WriteOutcomeStep ==
  ASSUME Inv, NEW w \in Workers, WriteOutcome(w)
  PROVE  /\ Inv'
         /\ job[w] \in Actions /\ status[job[w]] = "RUNNING"
         /\ \E x \in {"WAITING_CONFIRMATION", "FAILED", "ABORTED"} :
              status' = [status EXCEPT ![job[w]] = x]
<1> USE DEF Inv
<1>1. /\ stage[w] = "returned" /\ stage' = [stage EXCEPT ![w] = "written"]
      /\ UNCHANGED <<booted, paused, job, outcome, locks, walletLine, positionLine,
                     submitted, submissions, faults, crashes>>
  BY DEF WriteOutcome, counters, locks
<1>2. job[w] \in Actions /\ status[job[w]] = "RUNNING"
  BY <1>1, JobIsAction DEF ClaimedActionIsUntouched
<1>3. PICK x \in {"WAITING_CONFIRMATION", "FAILED", "ABORTED"} :
        status' = [status EXCEPT ![job[w]] = x]
  BY <1>1 DEF WriteOutcome, WrittenStatus, WorkersAreSane, Outcomes
<1>4. LinesMatchStages'
  BY <1>1, HeldLines
<1>5. StatusInv'
  <2>1. ClaimedActionIsUntouched'
    BY <1>1, <1>2, <1>3 DEF TypeOK, ClaimedActionIsUntouched
  <2>2. OneActiveWritePerWallet'
    BY <1>2, <1>3 DEF TypeOK, OneActiveWritePerWallet, ActiveWriteStatuses
  <2>3. OneActionPerKey'
    BY <1>2, <1>3 DEF TypeOK, OneActionPerKey, Stored
  <2> QED BY <2>1, <2>2, <2>3 DEF StatusInv
<1>6. WorkersAreSane'
  BY <1>1 DEF WorkersAreSane, TypeOK
<1>7. TypeOK'
  <2>1. status' \in [Actions -> ActionStatuses \cup {"ABSENT"}]
    BY <1>3 DEF TypeOK, ActionStatuses
  <2>2. /\ stage' \in [Workers -> Stages]
        /\ job' \in [Workers -> Actions \cup {NoAction}]
        /\ \A v \in Workers : stage'[v] = "idle" <=> job'[v] = NoAction
    BY <1>1, StageType DEF Stages
  <2> QED BY <1>1, <2>1, <2>2 DEF TypeOK
<1> QED BY <1>2, <1>3, <1>4, <1>5, <1>6, <1>7 DEF StatusInv

\* The way out: the locks are released, and the worker retires or goes on to
\* requeue its action.
LEMMA LeaveSteps ==
  ASSUME Inv, NEW w \in Workers, Finish(w) \/ Unwind(w)
  PROVE  Inv'
<1> USE DEF Inv
<1>1. /\ UNCHANGED <<status, booted, paused, submissions, faults, crashes>>
      /\ stage[w] \in {"written", "unwinding"} /\ LeaveLocks(w)
  BY DEF Finish, Unwind, counters
<1>2. PICK x \in {"idle", "requeueing"} : stage' = [stage EXCEPT ![w] = x]
  BY DEF Finish, Unwind, Retire
<1>3. \A v \in Workers : v # w => job'[v] = job[v]
  BY DEF Finish, Unwind, Retire, TypeOK
<1>4. /\ LinesMatchStages'
      /\ walletLine' \in [Wallets -> Seq(Workers)]
      /\ positionLine' \in [Positions -> Seq(Workers)]
  BY <1>1, <1>2, <1>3, LeaveLines
<1>5. StatusInv'
  BY <1>1, WorkerKeepsStatus, RetireKeepsStatus DEF Finish, Unwind, Stages
<1>6. WorkersAreSane'
  BY <1>1, <1>2 DEF WorkersAreSane, TypeOK, Finish, Unwind, Retire
<1>7. /\ stage' \in [Workers -> Stages]
      /\ job' \in [Workers -> Actions \cup {NoAction}]
      /\ \A v \in Workers : stage'[v] = "idle" <=> job'[v] = NoAction
      /\ outcome' \in [Workers -> Outcomes \cup {NoOutcome}]
      /\ submitted' \in [Workers -> BOOLEAN]
  <2>1. CASE Finish(w)
    BY <2>1, RetireType DEF Finish
  <2>2. CASE Unwind(w)
    <3>1. /\ stage' = [stage EXCEPT ![w] = "requeueing"] /\ stage[w] # "idle"
          /\ UNCHANGED <<job, outcome, submitted>>
      BY <2>2 DEF Unwind
    <3> QED BY <3>1, StageType DEF Stages, TypeOK
  <2> QED BY <2>1, <2>2
<1>8. TypeOK'
  BY <1>1, <1>4, <1>7 DEF TypeOK
<1> QED BY <1>4, <1>5, <1>6, <1>8 DEF StatusInv

\* After the outcome could not be saved, the action is requeued, or left.
LEMMA RequeueSteps ==
  ASSUME Inv, NEW w \in Workers, Requeue(w) \/ RequeueFails(w)
  PROVE  /\ Inv'
         /\ Requeue(w) => /\ job[w] \in Actions /\ status[job[w]] = "RUNNING"
                          /\ status' = [status EXCEPT ![job[w]] = "RETRY_QUEUED"]
<1> USE DEF Inv
<1>1. /\ UNCHANGED <<booted, paused, locks, walletLine, positionLine, submissions, crashes>>
      /\ stage[w] = "requeueing" /\ Retire(w)
      /\ stage' = [stage EXCEPT ![w] = "idle"]
      /\ job' = [job EXCEPT ![w] = NoAction]
      /\ outcome' = [outcome EXCEPT ![w] = NoOutcome]
  BY DEF Requeue, RequeueFails, Retire, counters, locks
<1>2. job[w] \in Actions /\ status[job[w]] = "RUNNING"
  BY <1>1, JobIsAction DEF ClaimedActionIsUntouched
<1>3. LinesMatchStages'
  <2>1. \A v \in Workers :
           /\ stage'[v] \in OnWalletLine <=> stage[v] \in OnWalletLine
           /\ stage'[v] \in OnPositionLine <=> stage[v] \in OnPositionLine
           /\ stage'[v] \in HoldingPosition <=> stage[v] \in HoldingPosition
           /\ stage[v] \in OnWalletLine => job'[v] = job[v]
    BY <1>1 DEF TypeOK, OnWalletLine, OnPositionLine, HoldingPosition
  <2> QED BY <1>1, <2>1, SameLines
<1>4. StatusInv' /\ status' \in [Actions -> ActionStatuses \cup {"ABSENT"}]
  <2>1. CASE Requeue(w)
    <3>1. status' = [status EXCEPT ![job[w]] = "RETRY_QUEUED"]
      BY <2>1 DEF Requeue
    <3>2. ClaimedActionIsUntouched'
      BY <1>1, <1>2, <3>1 DEF TypeOK, ClaimedActionIsUntouched
    <3>3. OneActiveWritePerWallet'
      BY <1>2, <3>1 DEF TypeOK, OneActiveWritePerWallet, ActiveWriteStatuses
    <3>4. OneActionPerKey'
      BY <1>2, <3>1 DEF TypeOK, OneActionPerKey, Stored
    <3> QED BY <3>1, <3>2, <3>3, <3>4 DEF StatusInv, TypeOK, ActionStatuses
  <2>2. CASE RequeueFails(w)
    BY <1>1, <2>2, RetireKeepsStatus DEF RequeueFails, TypeOK
  <2> QED BY <2>1, <2>2
<1>5. WorkersAreSane'
  BY <1>1 DEF WorkersAreSane, TypeOK
<1>6. faults' \in 0..MaxFaults
  BY OneMoreFault DEF Requeue, RequeueFails, TypeOK, counters
<1>7. TypeOK'
  BY <1>1, <1>4, <1>6, RetireType DEF TypeOK
<1>8. Requeue(w) => status' = [status EXCEPT ![job[w]] = "RETRY_QUEUED"]
  BY DEF Requeue
<1> QED BY <1>2, <1>3, <1>4, <1>5, <1>7, <1>8 DEF StatusInv

\* A crash leaves only the store.
LEMMA CrashStep ==
  ASSUME Inv, Crash
  PROVE  Inv'
<1> USE DEF Inv
<1>1. LinesMatchStages'
  <2>1. /\ \A w \in Workers : stage'[w] \notin OnWalletLine
        /\ \A k \in Wallets : walletLine'[k] = <<>>
        /\ \A p \in Positions : positionLine'[p] = <<>>
    BY DEF Crash, OnWalletLine
  <2>2. /\ \A k : WalletQueue(k)' = {}
        /\ \A p : PositionQueue(p)' = {}
    BY <2>1 DEF WalletQueue, PositionQueue, OnPositionLine
  <2>3. /\ \A k \in Wallets : IsLine(walletLine[k], WalletQueue(k))'
        /\ \A p \in Positions : IsLine(positionLine[p], PositionQueue(p))'
    <3>1. IsLine(<<>>, {})
      BY DEF IsLine
    <3>2. /\ \A k \in Wallets : IsLine(walletLine'[k], WalletQueue(k)')
          /\ \A p \in Positions : IsLine(positionLine'[p], PositionQueue(p)')
      BY <2>1, <2>2, <3>1
    <3> QED BY <3>2 DEF IsLine
  <2> QED BY <2>1, <2>3 DEF LinesMatchStages, HoldingWallet, HoldingPosition, OnPositionLine
<1>2. StatusInv' /\ WorkersAreSane'
  BY DEF Crash, StatusInv, ClaimedActionIsUntouched, OneActiveWritePerWallet,
         OneActionPerKey, Stored, WorkersAreSane
<1>3. TypeOK'
  <2>1. /\ stage' \in [Workers -> Stages]
        /\ job' \in [Workers -> Actions \cup {NoAction}]
        /\ \A w \in Workers : stage'[w] = "idle" <=> job'[w] = NoAction
    BY DEF Crash, Stages
  <2>2. /\ outcome' \in [Workers -> Outcomes \cup {NoOutcome}]
        /\ submitted' \in [Workers -> BOOLEAN]
        /\ booted' \in BOOLEAN /\ paused' \in BOOLEAN
    BY DEF Crash
  <2>3. /\ walletLine' \in [Wallets -> Seq(Workers)]
        /\ positionLine' \in [Positions -> Seq(Workers)]
    BY DEF Crash
  <2>4. /\ status' = status /\ submissions' = submissions /\ faults' = faults
        /\ crashes' \in 0..MaxCrashes
    BY BoundsAreNatural DEF Crash, TypeOK
  <2> QED BY <2>1, <2>2, <2>3, <2>4 DEF TypeOK
<1> QED BY <1>1, <1>2, <1>3 DEF StatusInv

\* Every step keeps the invariant.
LEMMA NextInv == Inv /\ [Next]_vars => Inv'
<1> SUFFICES ASSUME Inv, [Next]_vars PROVE Inv'
  OBVIOUS
<1>1. CASE UNCHANGED vars
  BY <1>1 DEF vars, Inv, TypeOK, WorkersAreSane, LinesMatchStages, IsLine, WalletQueue,
              PositionQueue, ClaimedActionIsUntouched, OneActiveWritePerWallet,
              OneActionPerKey, Stored
<1>2. CASE \/ \E a \in Actions : Enqueue(a) \/ Conclude(a) \/ RecoverStale(a)
           \/ Pause \/ Resume \/ Boot
  BY <1>2, OutsideSteps
<1>3. CASE Crash
  BY <1>3, CrashStep
<1>4. CASE \E w \in Workers : WorkerStep(w)
  BY <1>4, ClaimStep, LockSteps, HandlerSteps, WriteOutcomeStep, LeaveSteps, RequeueSteps
     DEF WorkerStep
<1> QED BY <1>1, <1>2, <1>3, <1>4 DEF Next

\* The strengthened invariant holds in every reachable state, for any number
\* of actions, wallets, workers, failing writes and crashes.
THEOREM QueueInvariant == Spec => []Inv
<1> QED BY InitInv, NextInv, PTL DEF Spec

-----------------------------------------------------------------------------
(* Theorems *)

\* Every variable has its type in every reachable state.
THEOREM TypeIsCorrect == Spec => []TypeOK
<1>1. Inv => TypeOK
  BY DEF Inv
<1> QED BY <1>1, QueueInvariant, PTL

\* A wallet never has two active writes.
THEOREM WalletHasOneActiveWrite == Spec => []OneActiveWritePerWallet
<1>1. Inv => OneActiveWritePerWallet
  BY DEF Inv
<1> QED BY <1>1, QueueInvariant, PTL

\* Two stored actions never share an idempotency key.
THEOREM KeyHasOneAction == Spec => []OneActionPerKey
<1>1. Inv => OneActionPerKey
  BY DEF Inv
<1> QED BY <1>1, QueueInvariant, PTL

\* From its claim to its worker's write an action is RUNNING and that
\* worker's alone, so the write from the claimed copy loses no update.
THEOREM ClaimIsExclusive == Spec => []ClaimedActionIsUntouched
<1>1. Inv => ClaimedActionIsUntouched
  BY DEF Inv
<1> QED BY <1>1, QueueInvariant, PTL

\* A handler runs only at the head of its locks' queues.
THEOREM HandlersExclude == Spec => []HandlersAreExclusive
<1>1. Inv => HandlersAreExclusive
  BY DEF Inv, LinesMatchStages, HandlersAreExclusive, HoldingWallet, HoldingPosition,
         OnPositionLine, OnWalletLine
<1> QED BY <1>1, QueueInvariant, PTL

-----------------------------------------------------------------------------
(* What a failed write costs *)

Unclaimed == {"ABSENT"} \cup ProcessableStatuses
Unsent(w) ==
  stage[w] \in {"claimed", "walletWait", "positionWait", "handling"} /\ ~submitted[w]
GivenUp(w) == stage[w] \in {"unwinding", "requeueing"}

\* A failed write is paid before the action runs again: whoever may still
\* send a transaction for an action, or hand it to somebody who may, has sent
\* no more than there were failed writes.
RunsAreCounted ==
  /\ \A a \in Actions : submissions[a] <= faults + 1
  /\ \A a \in Actions : status[a] \in Unclaimed => submissions[a] <= faults
  /\ \A w \in Workers : Unsent(w) \/ GivenUp(w) => submissions[job[w]] <= faults
  /\ \A w \in Workers :
       stage[w] \in {"idle", "claimed", "walletWait", "positionWait"} => ~submitted[w]

\* A RUNNING action has its worker, unless two writes failed or the process
\* was restarted.
OrphansAreCounted ==
  /\ \A w \in Workers : GivenUp(w) => faults >= 1
  /\ \A w \in Workers : stage[w] = "written" => status[job[w]] \notin Unclaimed \cup {"RUNNING"}
  /\ ~booted => crashes >= 1
  /\ \A a \in Actions : status[a] = "RUNNING" =>
       faults >= 2 \/ crashes >= 1 \/ \E w \in Workers : Holds(w, a)

Counted == RunsAreCounted /\ OrphansAreCounted

\* No step takes back a failed write, a crash or a transaction.
LEMMA CountsGrow ==
  ASSUME Inv, [Next]_vars
  PROVE  /\ faults \in Nat /\ faults' \in Nat /\ (faults' = faults \/ faults' = faults + 1)
         /\ crashes \in Nat /\ crashes' \in Nat /\ (crashes' = crashes \/ crashes' = crashes + 1)
         /\ \A a \in Actions : submissions[a] \in Nat /\ submissions'[a] \in Nat
<1>1. TypeOK /\ TypeOK'
  BY NextInv DEF Inv
<1>2. faults' = faults \/ faults' = faults + 1
  BY DEF Next, vars, Enqueue, Conclude, RecoverStale, WorkerStep, Claim, QueueForWallet,
         HoldWallet, HoldPosition, Submit, Return, WriteOutcome, WriteOutcomeFails, Finish,
         Unwind, Requeue, RequeueFails, Pause, Resume, Crash, Boot, counters
<1>3. crashes' = crashes \/ crashes' = crashes + 1
  BY DEF Next, vars, Enqueue, Conclude, RecoverStale, WorkerStep, Claim, QueueForWallet,
         HoldWallet, HoldPosition, Submit, Return, WriteOutcome, WriteOutcomeFails, Finish,
         Unwind, Requeue, RequeueFails, Pause, Resume, Crash, Boot, counters
<1> QED
  BY <1>1, <1>2, <1>3, BoundsAreNatural DEF TypeOK

\* Requests, operator commands, confirmations and the recovery.
LEMMA OutsideKeepsCounted ==
  ASSUME Inv, Counted,
         \/ \E a \in Actions : Enqueue(a) \/ Conclude(a) \/ RecoverStale(a)
         \/ Pause \/ Resume \/ Boot \/ Crash \/ UNCHANGED vars
  PROVE  Counted'
<1> USE DEF Inv
<1>1. /\ faults \in Nat /\ faults' \in Nat /\ (faults' = faults \/ faults' = faults + 1)
      /\ crashes \in Nat /\ crashes' \in Nat /\ (crashes' = crashes \/ crashes' = crashes + 1)
      /\ \A a \in Actions : submissions[a] \in Nat /\ submissions'[a] \in Nat
  BY CountsGrow DEF Next
<1>2. submissions' = submissions
  BY DEF Enqueue, Conclude, RecoverStale, Pause, Resume, Boot, Crash, vars
<1>3. \A a \in Actions :
        /\ status'[a] \in Unclaimed => status[a] \in Unclaimed
        /\ status'[a] = "RUNNING" => status[a] = "RUNNING"
  <2>1. ASSUME NEW a \in Actions, Enqueue(a)
        PROVE  \A b \in Actions : /\ status'[b] \in Unclaimed => status[b] \in Unclaimed
                                  /\ status'[b] = "RUNNING" => status[b] = "RUNNING"
    BY <2>1 DEF Enqueue, Stored, Unclaimed, TypeOK
  <2>2. ASSUME NEW a \in Actions, Conclude(a) \/ RecoverStale(a)
        PROVE  \A b \in Actions : /\ status'[b] \in Unclaimed => status[b] \in Unclaimed
                                  /\ status'[b] = "RUNNING" => status[b] = "RUNNING"
    BY <2>2 DEF Conclude, RecoverStale, Unclaimed, ProcessableStatuses, TypeOK
  <2> QED
    BY <2>1, <2>2 DEF Pause, Resume, Boot, Crash, vars
<1>4. CASE Crash
  <2>1. crashes' >= 1 /\ faults' = faults
    BY <1>1, <1>4 DEF Crash
  <2>2. \A w \in Workers : stage'[w] = "idle" /\ ~submitted'[w]
    BY <1>4 DEF Crash
  <2>3. RunsAreCounted'
    BY <1>1, <1>2, <1>3, <2>1, <2>2 DEF Counted, RunsAreCounted, Unsent, GivenUp
  <2>4. OrphansAreCounted'
    BY <2>1, <2>2 DEF OrphansAreCounted, GivenUp
  <2> QED
    BY <2>3, <2>4 DEF Counted
<1>5. CASE ~Crash
  <2>1. UNCHANGED <<stage, job, submitted>> /\ (booted' = booted \/ booted' = TRUE)
    BY <1>5 DEF Enqueue, Conclude, RecoverStale, Pause, Resume, Boot, vars
  <2>2. RunsAreCounted'
    <3>1. \A w \in Workers : Unsent(w) \/ GivenUp(w) => submissions[job[w]] \in Nat
      BY <1>1, JobIsAction DEF Unsent, GivenUp
    <3>2. \A w \in Workers : Unsent(w) \/ GivenUp(w) => submissions[job[w]] <= faults'
      BY <1>1, <3>1 DEF Counted, RunsAreCounted
    <3>3. \A a \in Actions : /\ submissions[a] <= faults' + 1
                             /\ status[a] \in Unclaimed => submissions[a] <= faults'
      BY <1>1 DEF Counted, RunsAreCounted
    <3> QED
      BY <1>2, <1>3, <2>1, <3>2, <3>3 DEF Counted, RunsAreCounted, Unsent, GivenUp
  <2>3. \A w \in Workers : stage'[w] = "written" =>
          status'[job'[w]] \notin Unclaimed \cup {"RUNNING"}
    <3>1. \A w \in Workers : stage[w] = "written" => job[w] \in Actions
      BY JobIsAction
    <3> QED
      BY <1>3, <2>1, <3>1 DEF Counted, OrphansAreCounted
  <2>4. OrphansAreCounted'
    BY <1>1, <1>3, <2>1, <2>3 DEF Counted, OrphansAreCounted, GivenUp, Holds
  <2> QED
    BY <2>2, <2>4 DEF Counted
<1> QED
  BY <1>4, <1>5

\* A worker's step up to its handler's answer: the claim takes an action
\* without a spare transaction, and the handler sends one.
LEMMA RunKeepsCounted ==
  ASSUME Inv, Counted, NEW w \in Workers,
         Claim(w) \/ QueueForWallet(w) \/ HoldWallet(w) \/ HoldPosition(w) \/ Submit(w)
         \/ Return(w)
  PROVE  Counted'
<1> USE DEF Inv
<1>1. /\ faults \in Nat /\ faults' \in Nat /\ (faults' = faults \/ faults' = faults + 1)
      /\ crashes \in Nat /\ crashes' = crashes /\ booted' = booted
      /\ \A a \in Actions : submissions[a] \in Nat /\ submissions'[a] \in Nat
  BY CountsGrow DEF Next, WorkerStep, Claim, QueueForWallet, HoldWallet, HoldPosition, Submit,
                    Return, counters
<1>2. \A v \in Workers \ {w} :
        stage'[v] = stage[v] /\ job'[v] = job[v] /\ submitted'[v] = submitted[v]
  BY DEF Claim, QueueForWallet, HoldWallet, HoldPosition, Submit, Return, TypeOK
<1>3. \A v \in Workers : stage[v] # "idle" => job[v] \in Actions
  BY JobIsAction
<1>4. CASE Claim(w)
  <2>1. PICK a \in Actions :
          /\ status[a] \in ProcessableStatuses
          /\ status' = [status EXCEPT ![a] = "RUNNING"]
          /\ job'[w] = a
    BY <1>4 DEF Claim, Claimable, TypeOK
  <2>2. /\ stage[w] = "idle" /\ stage'[w] = "claimed" /\ submitted' = submitted
        /\ UNCHANGED <<submissions, faults>>
    BY <1>4 DEF Claim, counters, TypeOK
  <2>3. status'[a] = "RUNNING" /\ \A b \in Actions \ {a} : status'[b] = status[b]
    BY <2>1 DEF TypeOK
  <2>4. \A v \in Workers : stage[v] = "written" => job[v] # a
    BY <2>1 DEF Counted, OrphansAreCounted, Unclaimed
  <2>5. RunsAreCounted'
    BY <1>2, <1>3, <2>1, <2>2, <2>3
    DEF Counted, RunsAreCounted, Unsent, GivenUp, Unclaimed, ProcessableStatuses
  <2>6. \A v \in Workers : stage'[v] = "written" => status'[job'[v]] \notin Unclaimed \cup {"RUNNING"}
    BY <1>2, <1>3, <2>2, <2>3, <2>4 DEF Counted, OrphansAreCounted
  <2>7. \A b \in Actions : \A v \in Workers : Holds(v, b) => Holds(v, b)'
    BY <1>2, <2>2 DEF Holds
  <2>8. Holds(w, a)'
    BY <2>1, <2>2 DEF Holds
  <2>9. OrphansAreCounted'
    BY <1>1, <1>2, <2>2, <2>3, <2>6, <2>7, <2>8 DEF Counted, OrphansAreCounted, GivenUp
  <2> QED
    BY <2>5, <2>9 DEF Counted
<1>5. CASE ~Claim(w)
  <2>1. /\ status' = status /\ job' = job
        /\ stage[w] \in {"claimed", "walletWait", "positionWait", "handling"}
        /\ stage'[w] \in {"walletWait", "positionWait", "handling", "returned"}
    BY <1>5 DEF QueueForWallet, HoldWallet, HoldPosition, Submit, Return, TypeOK
  <2>2. OrphansAreCounted'
    BY <1>1, <1>2, <2>1 DEF Counted, OrphansAreCounted, GivenUp, Holds
  <2>3. CASE ~Submit(w)
    <3>1. submissions' = submissions /\ submitted' = submitted
      BY <1>5, <2>3 DEF QueueForWallet, HoldWallet, HoldPosition, Return
    <3>2. stage'[w] \in {"walletWait", "positionWait"} =>
            stage[w] \in {"claimed", "walletWait", "positionWait"}
      BY <1>5, <2>3 DEF QueueForWallet, HoldWallet, HoldPosition, Return, TypeOK
    <3>3. \A v \in Workers : Unsent(v) \/ GivenUp(v) => submissions[job[v]] <= faults'
      BY <1>1, <1>3 DEF Counted, RunsAreCounted, Unsent, GivenUp
    <3>4. \A a \in Actions : /\ submissions[a] <= faults' + 1
                             /\ status[a] \in Unclaimed => submissions[a] <= faults'
      BY <1>1 DEF Counted, RunsAreCounted
    <3>5. RunsAreCounted'
      BY <1>2, <2>1, <3>1, <3>2, <3>3, <3>4 DEF Counted, RunsAreCounted, Unsent, GivenUp
    <3> QED
      BY <2>2, <3>5 DEF Counted
  <2>4. CASE Submit(w)
    <3>1. /\ stage[w] = "handling" /\ stage' = stage /\ ~submitted[w] /\ submitted'[w]
          /\ submissions'[job[w]] = submissions[job[w]] + 1
          /\ \A a \in Actions \ {job[w]} : submissions'[a] = submissions[a]
          /\ faults' = faults
      BY <1>3, <2>4 DEF Submit, counters, TypeOK
    <3>2. submissions[job[w]] <= faults /\ status[job[w]] = "RUNNING"
      BY <3>1 DEF Counted, RunsAreCounted, Unsent, ClaimedActionIsUntouched
    <3>3. \A v \in Workers \ {w} : Unsent(v) \/ GivenUp(v) => job[v] # job[w]
      BY <3>1 DEF ClaimedActionIsUntouched, Unsent, GivenUp
    <3>4. \A a \in Actions : submissions'[a] <= faults + 1
      <4>1. submissions'[job[w]] <= faults + 1
        BY <1>1, <1>3, <3>1, <3>2
      <4> QED
        BY <3>1, <4>1 DEF Counted, RunsAreCounted
    <3>5. \A a \in Actions : status'[a] \in Unclaimed => submissions'[a] <= faults
      BY <2>1, <3>1, <3>2 DEF Counted, RunsAreCounted, Unclaimed, ProcessableStatuses
    <3>6. \A v \in Workers : (Unsent(v) \/ GivenUp(v))' => v # w /\ (Unsent(v) \/ GivenUp(v))
      BY <1>2, <3>1 DEF Unsent, GivenUp
    <3>7. \A v \in Workers : (Unsent(v) \/ GivenUp(v))' => submissions'[job[v]] <= faults
      BY <1>3, <3>1, <3>3, <3>6 DEF Counted, RunsAreCounted, Unsent, GivenUp
    <3>8. \A v \in Workers : stage'[v] \in {"idle", "claimed", "walletWait", "positionWait"} =>
            ~submitted'[v]
      BY <1>2, <3>1 DEF Counted, RunsAreCounted
    <3> QED
      BY <2>1, <2>2, <3>1, <3>4, <3>5, <3>7, <3>8 DEF Counted, RunsAreCounted
  <2> QED
    BY <2>3, <2>4
<1> QED
  BY <1>4, <1>5

\* A worker's step from its handler's answer on: the write that fails is paid
\* before the action is handed on.
LEMMA EndKeepsCounted ==
  ASSUME Inv, Counted, NEW w \in Workers,
         WriteOutcome(w) \/ WriteOutcomeFails(w) \/ Finish(w) \/ Unwind(w) \/ Requeue(w)
         \/ RequeueFails(w)
  PROVE  Counted'
<1> USE DEF Inv
<1>1. /\ faults \in Nat /\ faults' \in Nat /\ (faults' = faults \/ faults' = faults + 1)
      /\ crashes \in Nat /\ crashes' = crashes /\ booted' = booted
      /\ \A a \in Actions : submissions[a] \in Nat
      /\ submissions' = submissions
  BY CountsGrow DEF Next, WorkerStep, WriteOutcome, WriteOutcomeFails, Finish, Unwind, Requeue,
                    RequeueFails, counters
<1>2. \A v \in Workers \ {w} :
        stage'[v] = stage[v] /\ job'[v] = job[v] /\ submitted'[v] = submitted[v]
  BY DEF WriteOutcome, WriteOutcomeFails, Finish, Unwind, Requeue, RequeueFails, Retire, TypeOK
<1>3. \A v \in Workers : stage[v] # "idle" => job[v] \in Actions
  BY JobIsAction
<1>4. \A v \in Workers : Unsent(v) \/ GivenUp(v) => submissions[job[v]] <= faults'
  BY <1>1, <1>3 DEF Counted, RunsAreCounted, Unsent, GivenUp
<1>5. \A a \in Actions : /\ submissions[a] <= faults' + 1
                         /\ status[a] \in Unclaimed => submissions[a] <= faults'
  BY <1>1 DEF Counted, RunsAreCounted
<1>6. \A a \in Actions, v \in Workers \ {w} : Holds(v, a)' <=> Holds(v, a)
  BY <1>2 DEF Holds
<1>7. CASE WriteOutcome(w)
  <2>1. /\ job[w] \in Actions /\ status[job[w]] = "RUNNING"
        /\ status'[job[w]] \in {"WAITING_CONFIRMATION", "FAILED", "ABORTED"}
        /\ \A b \in Actions \ {job[w]} : status'[b] = status[b]
    BY <1>7, WriteOutcomeStep DEF TypeOK
  <2>2. /\ stage'[w] = "written" /\ job' = job /\ submitted' = submitted
        /\ faults' = faults
    BY <1>7 DEF WriteOutcome, counters, TypeOK
  <2>3. \A v \in Workers : stage[v] = "written" => job[v] # job[w]
    BY <2>1 DEF Counted, OrphansAreCounted
  <2>4. RunsAreCounted'
    BY <1>1, <1>2, <1>4, <1>5, <2>1, <2>2
    DEF Counted, RunsAreCounted, Unsent, GivenUp, Unclaimed, ProcessableStatuses
  <2>5. \A v \in Workers : stage'[v] = "written" => status'[job'[v]] \notin Unclaimed \cup {"RUNNING"}
    BY <1>2, <1>3, <2>1, <2>2, <2>3
    DEF Counted, OrphansAreCounted, Unclaimed, ProcessableStatuses
  <2>6. \A a \in Actions : status'[a] = "RUNNING" =>
          faults' >= 2 \/ crashes' >= 1 \/ \E v \in Workers : Holds(v, a)'
    <3> SUFFICES ASSUME NEW a \in Actions, status'[a] = "RUNNING", ~(faults >= 2), ~(crashes >= 1)
                 PROVE  \E v \in Workers : Holds(v, a)'
      BY <1>1, <2>2
    <3>1. a # job[w] /\ status[a] = "RUNNING"
      BY <2>1
    <3>2. PICK v \in Workers : Holds(v, a)
      BY <3>1 DEF Counted, OrphansAreCounted
    <3> QED
      BY <1>6, <3>1, <3>2 DEF Holds
  <2>7. OrphansAreCounted'
    BY <1>1, <1>2, <2>2, <2>5, <2>6 DEF Counted, OrphansAreCounted, GivenUp
  <2> QED
    BY <2>4, <2>7 DEF Counted
<1>8. CASE WriteOutcomeFails(w) \/ Unwind(w)
  <2>1. /\ status' = status /\ job' = job /\ submitted' = submitted
        /\ stage[w] \in {"returned", "unwinding"}
        /\ stage'[w] \in {"unwinding", "requeueing"}
        /\ stage[w] = "unwinding" \/ faults' = faults + 1
    BY <1>8 DEF WriteOutcomeFails, Unwind, TypeOK
  <2>2. submissions[job[w]] <= faults' /\ faults' >= 1
    <3>1. CASE stage[w] = "unwinding"
      BY <1>1, <1>4, <3>1 DEF Counted, OrphansAreCounted, GivenUp
    <3>2. CASE faults' = faults + 1
      BY <1>1, <1>3, <2>1, <3>2 DEF Counted, RunsAreCounted
    <3> QED
      BY <2>1, <3>1, <3>2
  <2>3. RunsAreCounted'
    BY <1>1, <1>2, <1>4, <1>5, <2>1, <2>2 DEF Counted, RunsAreCounted, Unsent, GivenUp
  <2>4. OrphansAreCounted'
    BY <1>1, <1>2, <2>1, <2>2 DEF Counted, OrphansAreCounted, GivenUp, Holds
  <2> QED
    BY <2>3, <2>4 DEF Counted
<1>9. CASE Finish(w) \/ RequeueFails(w)
  <2>1. /\ status' = status /\ stage'[w] = "idle" /\ ~submitted'[w]
        /\ \/ stage[w] = "written"
           \/ stage[w] = "requeueing" /\ faults' = faults + 1
    BY <1>9 DEF Finish, RequeueFails, Retire, TypeOK
  <2>2. RunsAreCounted'
    BY <1>1, <1>2, <1>4, <1>5, <2>1 DEF Counted, RunsAreCounted, Unsent, GivenUp
  <2>3. \A a \in Actions : status'[a] = "RUNNING" =>
          faults' >= 2 \/ crashes' >= 1 \/ \E v \in Workers : Holds(v, a)'
    <3> SUFFICES ASSUME NEW a \in Actions, status[a] = "RUNNING", ~(faults' >= 2), ~(crashes >= 1)
                 PROVE  \E v \in Workers : Holds(v, a)'
      BY <1>1, <2>1
    <3>1. stage[w] = "written"
      BY <1>1, <2>1 DEF Counted, OrphansAreCounted, GivenUp
    <3>2. PICK v \in Workers : Holds(v, a)
      BY <1>1 DEF Counted, OrphansAreCounted
    <3>3. v # w
      BY <3>1, <3>2 DEF Counted, OrphansAreCounted, Holds
    <3> QED
      BY <1>6, <3>2, <3>3
  <2>4. OrphansAreCounted'
    BY <1>1, <1>2, <2>1, <2>3 DEF Counted, OrphansAreCounted, GivenUp
  <2> QED
    BY <2>2, <2>4 DEF Counted
<1>10. CASE Requeue(w)
  <2>1. /\ job[w] \in Actions /\ status[job[w]] = "RUNNING"
        /\ status'[job[w]] = "RETRY_QUEUED"
        /\ \A b \in Actions \ {job[w]} : status'[b] = status[b]
    BY <1>10, RequeueSteps DEF TypeOK
  <2>2. /\ stage[w] = "requeueing" /\ stage'[w] = "idle" /\ ~submitted'[w]
        /\ faults' = faults
    BY <1>10 DEF Requeue, Retire, counters, TypeOK
  <2>3. submissions[job[w]] <= faults'
    BY <1>4, <2>2 DEF GivenUp
  <2>4. RunsAreCounted'
    BY <1>1, <1>2, <1>4, <1>5, <2>1, <2>2, <2>3
    DEF Counted, RunsAreCounted, Unsent, GivenUp
  <2>5. \A v \in Workers : stage'[v] = "written" => status'[job'[v]] \notin Unclaimed \cup {"RUNNING"}
    BY <1>2, <1>3, <2>1, <2>2 DEF Counted, OrphansAreCounted
  <2>6. \A a \in Actions : status'[a] = "RUNNING" =>
          faults' >= 2 \/ crashes' >= 1 \/ \E v \in Workers : Holds(v, a)'
    <3> SUFFICES ASSUME NEW a \in Actions, status'[a] = "RUNNING", ~(faults >= 2), ~(crashes >= 1)
                 PROVE  \E v \in Workers : Holds(v, a)'
      BY <1>1, <2>2
    <3>1. a # job[w] /\ status[a] = "RUNNING"
      BY <2>1
    <3>2. PICK v \in Workers : Holds(v, a)
      BY <3>1 DEF Counted, OrphansAreCounted
    <3> QED
      BY <1>6, <3>1, <3>2 DEF Holds
  <2>7. OrphansAreCounted'
    BY <1>1, <1>2, <2>2, <2>5, <2>6 DEF Counted, OrphansAreCounted, GivenUp
  <2> QED
    BY <2>4, <2>7 DEF Counted
<1> QED
  BY <1>7, <1>8, <1>9, <1>10

\* Two failed writes make an orphan, or a restart whose recovery fails; and an
\* action is sent again only after a failed write.
THEOREM FaultsContained == Spec => []FaultsAreContained
<1>1. Init => Counted
  BY DEF Init, Counted, RunsAreCounted, OrphansAreCounted, Unsent, GivenUp
<1>2. Inv /\ Counted /\ [Next]_vars => Counted'
  BY OutsideKeepsCounted, RunKeepsCounted, EndKeepsCounted DEF Next, WorkerStep
<1>3. Inv /\ Counted => FaultsAreContained
  <2> SUFFICES ASSUME Inv, Counted PROVE FaultsAreContained
    OBVIOUS
  <2>1. faults \in Nat /\ crashes \in Nat /\ \A a \in Actions : submissions[a] \in Nat
    BY BoundsAreNatural DEF Inv, TypeOK
  <2>2. \A a \in Actions : submissions[a] <= 1 + faults
    BY <2>1 DEF Counted, RunsAreCounted
  <2>3. faults <= 1 /\ crashes = 0 => \A a \in Actions : ~Orphaned(a)
    BY <2>1 DEF Counted, OrphansAreCounted, Orphaned
  <2> QED
    BY <2>2, <2>3 DEF FaultsAreContained
<1> QED
  BY <1>1, <1>2, <1>3, QueueInvariant, PTL DEF Spec

-----------------------------------------------------------------------------
(* The queue implements the ledger *)

Phase == [a \in Actions |-> PhaseOf(status[a])]

\* The phase of every status.
LEMMA PhaseTable ==
  /\ PhaseOf("ABSENT") = "unknown"
  /\ \A x \in ProcessableStatuses : PhaseOf(x) = "pending"
  /\ \A x \in ActiveWriteStatuses : PhaseOf(x) = "inFlight"
  /\ \A x \in TerminalStatuses : PhaseOf(x) = "settled"
  BY DEF PhaseOf, ProcessableStatuses, ActiveWriteStatuses, TerminalStatuses

\* What a phase says of the status behind it.
LEMMA PhaseMeaning ==
  ASSUME TypeOK, NEW a \in Actions
  PROVE  /\ PhaseOf(status[a]) = "unknown" <=> ~Stored(a)
         /\ PhaseOf(status[a]) = "inFlight" <=> status[a] \in ActiveWriteStatuses
  BY DEF TypeOK, PhaseOf, Stored, ActionStatuses, ProcessableStatuses, ActiveWriteStatuses

\* A write of one status is a write of one phase.
LEMMA PhaseWrite ==
  ASSUME TypeOK, NEW a \in Actions, NEW x, status' = [status EXCEPT ![a] = x]
  PROVE  Phase' = [Phase EXCEPT ![a] = PhaseOf(x)]
  BY DEF TypeOK, Phase

\* Every write of a status, with what the writer knows of the old one.
LEMMA StatusWrites ==
  ASSUME Inv, [Next]_vars
  PROVE  \/ UNCHANGED status
         \/ \E a \in Actions : Enqueue(a)
         \/ \E a \in Actions : status[a] \in ProcessableStatuses /\ Claimable(a)
              /\ status' = [status EXCEPT ![a] = "RUNNING"]
         \/ \E a \in Actions, x \in {"WAITING_CONFIRMATION", "FAILED", "ABORTED", "RETRY_QUEUED"} :
              /\ status[a] = "RUNNING"
              /\ status' = [status EXCEPT ![a] = x]
         \/ \E a \in Actions, x \in {"RECONCILING", "DONE", "FAILED", "TIMED_OUT"} :
              /\ status[a] \in {"WAITING_CONFIRMATION", "RECONCILING"}
              /\ CanTransitionAction(status[a], x)
              /\ status' = [status EXCEPT ![a] = x]
<1>1. CASE UNCHANGED vars
  BY <1>1 DEF vars
<1>2. CASE Pause \/ Resume \/ Crash \/ Boot
  BY <1>2 DEF Pause, Resume, Crash, Boot
<1>3. CASE \E a \in Actions : Enqueue(a) \/ Conclude(a) \/ RecoverStale(a)
  BY <1>3 DEF Conclude, RecoverStale
<1>4. ASSUME NEW w \in Workers, WorkerStep(w)
      PROVE  \/ UNCHANGED status
             \/ Claim(w) \/ WriteOutcome(w) \/ Requeue(w)
  BY <1>4 DEF WorkerStep, QueueForWallet, HoldWallet, HoldPosition, Submit, Return,
              WriteOutcomeFails, Finish, Unwind, RequeueFails
<1>5. ASSUME NEW w \in Workers, Claim(w)
      PROVE  \E a \in Actions : status[a] \in ProcessableStatuses /\ Claimable(a)
               /\ status' = [status EXCEPT ![a] = "RUNNING"]
  BY <1>5 DEF Claim, Claimable
<1>6. ASSUME NEW w \in Workers, WriteOutcome(w) \/ Requeue(w)
      PROVE  \E a \in Actions, x \in {"WAITING_CONFIRMATION", "FAILED", "ABORTED", "RETRY_QUEUED"} :
               /\ status[a] = "RUNNING"
               /\ status' = [status EXCEPT ![a] = x]
  BY <1>6, WriteOutcomeStep, RequeueSteps
<1> QED BY <1>1, <1>2, <1>3, <1>4, <1>5, <1>6 DEF Next

\* Terminal actions are final, and every write follows the table.
THEOREM LifecycleIsFollowed == Spec => StatusesFollowTheLifecycle
<1>1. ASSUME Inv, [Next]_vars, NEW a \in Actions, status'[a] # status[a]
      PROVE  \/ status[a] = "ABSENT" /\ status'[a] = "QUEUED"
             \/ CanTransitionAction(status[a], status'[a]) /\ status[a] \notin TerminalStatuses
             \/ status[a] = "RUNNING" /\ status'[a] = "RETRY_QUEUED"
  <2> USE DEF Inv, TypeOK
  <2>1. CASE \E b \in Actions : Enqueue(b)
    BY <1>1, <2>1 DEF Enqueue, Stored
  <2>2. CASE \E b \in Actions : status[b] \in ProcessableStatuses
               /\ status' = [status EXCEPT ![b] = "RUNNING"]
    BY <1>1, <2>2 DEF CanTransitionAction, ActionLifecycle, ProcessableStatuses, TerminalStatuses
  <2>3. CASE \E b \in Actions, x \in {"WAITING_CONFIRMATION", "FAILED", "ABORTED", "RETRY_QUEUED"} :
               status[b] = "RUNNING" /\ status' = [status EXCEPT ![b] = x]
    BY <1>1, <2>3 DEF CanTransitionAction, ActionLifecycle, TerminalStatuses
  <2>4. CASE \E b \in Actions, x \in {"RECONCILING", "DONE", "FAILED", "TIMED_OUT"} :
               /\ status[b] \in {"WAITING_CONFIRMATION", "RECONCILING"}
               /\ CanTransitionAction(status[b], x)
               /\ status' = [status EXCEPT ![b] = x]
    BY <1>1, <2>4 DEF TerminalStatuses
  <2> QED BY <1>1, <2>1, <2>2, <2>3, <2>4, StatusWrites
<1>2. Inv /\ [Next]_vars =>
        [\A a \in Actions : status'[a] # status[a] =>
           \/ status[a] = "ABSENT" /\ status'[a] = "QUEUED"
           \/ CanTransitionAction(status[a], status'[a]) /\ status[a] \notin TerminalStatuses
           \/ status[a] = "RUNNING" /\ status'[a] = "RETRY_QUEUED"]_vars
  BY <1>1
<1> QED BY <1>2, QueueInvariant, PTL DEF Spec, StatusesFollowTheLifecycle

\* Workers, locks, faults and restarts hidden, the queue is the ledger: keys
\* are recorded once, a wallet has one write in flight, nothing settled is
\* taken up again.
THEOREM QueueImplementsLedger == Spec => ImplementsWriteLedger
<1>1. Init => Ledger!Init
  BY PhaseTable DEF Init, Ledger!Init
<1>2. ASSUME Inv, [Next]_vars PROVE Ledger!Next \/ Phase' = Phase
  <2>1. TypeOK
    BY <1>2 DEF Inv
  <2>2. ASSUME NEW a \in Actions, Enqueue(a) PROVE Ledger!Record(a)
    <3>1. /\ ~Stored(a) /\ \A b \in Actions : Stored(b) => KeyOf[b] # KeyOf[a]
          /\ status' = [status EXCEPT ![a] = "QUEUED"] /\ PhaseOf("QUEUED") = "pending"
      BY <2>2, PhaseTable DEF Enqueue, ProcessableStatuses
    <3>2. Phase' = [Phase EXCEPT ![a] = "pending"]
      BY <2>1, <3>1, PhaseWrite
    <3>3. Phase[a] = "unknown" /\ \A b \in Actions : Phase[b] # "unknown" => KeyOf[b] # KeyOf[a]
      BY <2>1, <3>1, PhaseMeaning DEF Phase
    <3> QED BY <3>2, <3>3 DEF Ledger!Record, Phase
  <2>3. ASSUME NEW a \in Actions, status[a] \in ProcessableStatuses, Claimable(a),
               status' = [status EXCEPT ![a] = "RUNNING"]
        PROVE  Ledger!Start(a)
    <3>1. Phase' = [Phase EXCEPT ![a] = "inFlight"]
      <4>1. PhaseOf("RUNNING") = "inFlight"
        BY PhaseTable DEF ActiveWriteStatuses
      <4> QED BY <2>1, <2>3, <4>1, PhaseWrite
    <3>2. Phase[a] = "pending" /\ \A b \in Actions : Phase[b] = "inFlight" => WalletOf[b] # WalletOf[a]
      BY <2>1, <2>3, PhaseMeaning, PhaseTable DEF Phase, Claimable, WalletIsBusy
    <3> QED BY <3>1, <3>2 DEF Ledger!Start, Phase
  <2>4. ASSUME NEW a \in Actions, status[a] \in ActiveWriteStatuses, NEW x \in ActionStatuses,
               x # "QUEUED", status' = [status EXCEPT ![a] = x]
        PROVE  Ledger!TakeBack(a) \/ Ledger!Conclude(a) \/ Phase' = Phase
    <3>1. Phase[a] = "inFlight" /\ Phase' = [Phase EXCEPT ![a] = PhaseOf(x)]
      BY <2>1, <2>4, PhaseWrite, PhaseTable DEF Phase
    <3>2. PhaseOf(x) \in {"pending", "inFlight", "settled"}
      BY DEF PhaseOf, ActionStatuses
    <3>3. CASE PhaseOf(x) = "inFlight"
      BY <3>1, <3>3 DEF Phase
    <3>4. CASE PhaseOf(x) = "pending"
      BY <3>1, <3>4 DEF Ledger!TakeBack, Phase
    <3>5. CASE PhaseOf(x) = "settled"
      BY <3>1, <3>5 DEF Ledger!Conclude, Phase
    <3> QED BY <3>2, <3>3, <3>4, <3>5
  <2>5. UNCHANGED status => Phase' = Phase
    BY DEF Phase
  <2>6. ASSUME NEW a \in Actions,
               NEW x \in {"WAITING_CONFIRMATION", "FAILED", "ABORTED", "RETRY_QUEUED",
                          "RECONCILING", "DONE", "TIMED_OUT"},
               status[a] \in {"RUNNING", "WAITING_CONFIRMATION", "RECONCILING"},
               status' = [status EXCEPT ![a] = x]
        PROVE  Ledger!Next \/ Phase' = Phase
    BY <2>4, <2>6 DEF ActiveWriteStatuses, ActionStatuses, Ledger!Next
  <2> QED BY <1>2, <2>2, <2>3, <2>5, <2>6, StatusWrites DEF Ledger!Next
<1>3. Inv /\ [Next]_vars => [Ledger!Next]_Phase
  BY <1>2
<1> QED BY <1>1, <1>3, QueueInvariant, PTL DEF Spec, ImplementsWriteLedger, Ledger!Spec, Phase

=============================================================================
