------------------------- MODULE RwaProcurementProofs -------------------------
(***************************************************************************)
(* Proofs about RwaProcurement, for every value of its constants: the Map  *)
(* of orders, the evidence behind each of them and the counts of the       *)
(* dashboard, in every run of the process and across restarts.             *)
(*                                                                         *)
(* The invariants of the two halves are taken from their own proofs, PD    *)
(* and OL, which are instances of their own: the first lemmas say that     *)
(* these define the same steps as Demand and Life.                         *)
(***************************************************************************)
EXTENDS RwaProcurement, FiniteSetTheorems, TLAPS

PD == INSTANCE PoolDemandProofs
OL == INSTANCE OrderLifecycleProofs

\* The constants are as the proofs about the halves suppose.
LEMMA Assumed == PD!DemandAssumption /\ OL!LifecycleAssumption
  BY ProcurementAssumption
     DEF Demand!DemandAssumption, PD!DemandAssumption,
         Life!LifecycleAssumption, OL!LifecycleAssumption

-----------------------------------------------------------------------------
(* Demand and PD are the same. *)

\* The sum is the same in both instances of PoolDemand.
LEMMA SameSum == \A f : Demand!Sum(f) = PD!Sum(f)
  BY DEF Demand!Sum, PD!Sum, Demand!FoldFunction, PD!FoldFunction,
         Demand!FoldFunctionOnSet, PD!FoldFunctionOnSet,
         Demand!MapThenFoldSet, PD!MapThenFoldSet

\* So is the size of a set, and it is the size.
LEMMA SameCount ==
  ASSUME NEW S
  PROVE  Demand!Cardinality(S) = Cardinality(S) /\ PD!Cardinality(S) = Cardinality(S)
  BY DEF Demand!Cardinality, PD!Cardinality, Cardinality

\* So is the set of a list's members.
LEMMA SameToSet ==
  ASSUME NEW s
  PROVE  Demand!ToSet(s) = PD!ToSet(s)
  BY DEF Demand!ToSet, PD!ToSet

\* So are the totals over commitments.
LEMMA SameTotals ==
  ASSUME NEW ids
  PROVE  /\ Demand!Quantity(ids) = PD!Quantity(ids)
         /\ Demand!Notional(ids) = PD!Notional(ids)
         /\ Demand!Retailers(ids) = PD!Retailers(ids)
  BY SameSum, SameCount DEF Demand!Quantity, PD!Quantity, Demand!Notional, PD!Notional,
                            Demand!Retailers, PD!Retailers

\* So are what makes a pool open, its commitments and when it can aggregate.
LEMMA SamePool ==
  ASSUME NEW p
  PROVE  /\ Demand!Open(p) = PD!Open(p)
         /\ Demand!CommitmentsOf(p) = PD!CommitmentsOf(p)
         /\ Demand!CanAggregate(p) = PD!CanAggregate(p)
<1>1. Demand!CommitmentsOf(p) = PD!CommitmentsOf(p)
  BY DEF Demand!CommitmentsOf, PD!CommitmentsOf
<1> QED BY <1>1, SameTotals DEF Demand!Open, PD!Open, Demand!CanAggregate, PD!CanAggregate

\* So is the order a pool's commitments make.
LEMMA SameOrder ==
  ASSUME NEW p, NEW ids
  PROVE  Demand!OrderOf(p, ids) = PD!OrderOf(p, ids)
<1>1. \A n, d : Demand!ToFixed2(n, d) = PD!ToFixed2(n, d)
  BY DEF Demand!ToFixed2, PD!ToFixed2, Demand!Abs, PD!Abs
<1> QED BY <1>1, SameTotals DEF Demand!OrderOf, PD!OrderOf, Demand!UnitPrices, PD!UnitPrices

\* So are the verdict on a merchant and its bootstrapped profile.
LEMMA SameProfile ==
  ASSUME NEW m
  PROVE  /\ Demand!Verdict(m) = PD!Verdict(m)
         /\ Demand!Bootstrapped(m) = PD!Bootstrapped(m)
  BY DEF Demand!Verdict, PD!Verdict, Demand!Bootstrapped, PD!Bootstrapped

\* So is which merchants a pool accepts.
LEMMA SameAcceptable ==
  ASSUME NEW p, NEW m
  PROVE  Demand!Acceptable(p, m) = PD!Acceptable(p, m)
  BY SameProfile, SameToSet DEF Demand!Acceptable, PD!Acceptable

\* So is the aggregation of a pool.
LEMMA SameAggregate ==
  ASSUME NEW p, Demand!Aggregate(p)
  PROVE  PD!Aggregate(p)
  BY SamePool, SameOrder DEF Demand!Aggregate, PD!Aggregate

\* So is the creation of a pool.
LEMMA SamePoolCreation ==
  ASSUME NEW p, Demand!PoolCreation(p)
  PROVE  PD!PoolCreation(p)
  BY DEF Demand!PoolCreation, PD!PoolCreation, Demand!CreatePool, PD!CreatePool,
         Demand!PoolMined, PD!PoolMined, Demand!PoolOpened, PD!PoolOpened,
         Demand!PoolFailed, PD!PoolFailed

\* So is the verification of a merchant.
LEMMA SameVerification ==
  ASSUME NEW m, Demand!VerifyMerchant(m)
  PROVE  PD!VerifyMerchant(m)
  BY SameProfile DEF Demand!VerifyMerchant, PD!VerifyMerchant

\* So is the seeding of demo demand.
LEMMA SameSeed ==
  ASSUME NEW p, NEW ids, NEW quantity, NEW price, Demand!Seed(p, ids, quantity, price)
  PROVE  PD!Seed(p, ids, quantity, price)
<1>1. Demand!SeedList(p, ids) = PD!SeedList(p, ids)
  BY DEF Demand!SeedList, PD!SeedList
<1>2. \A list, accepted : Demand!Seeded(p, list, quantity, price, accepted) =>
                            PD!Seeded(p, list, quantity, price, accepted)
  BY SameProfile, SameAcceptable DEF Demand!Seeded, PD!Seeded
<1> QED BY <1>1, <1>2, SamePool DEF Demand!Seed, PD!Seed

\* So is a commitment.
LEMMA SameCommitment ==
  ASSUME NEW p, Demand!Commitment(p)
  PROVE  PD!Commitment(p)
  BY SamePool, SameProfile, SameAcceptable, SameSeed
     DEF Demand!Commitment, PD!Commitment, Demand!CommitOrder, PD!CommitOrder,
         Demand!RefuseCommitment, PD!RefuseCommitment

-----------------------------------------------------------------------------
(* Life and OL are the same. *)

\* An order is known in one instance of OrderLifecycle as in the other.
LEMMA SameKnown ==
  ASSUME NEW o
  PROVE  Life!Known(o) = OL!Known(o)
  BY DEF Life!Known, OL!Known

\* The total of repayments is the same in both.
LEMMA SameTotal == \A reps : Life!Total(reps) = OL!Total(reps)
  BY DEF Life!Total, OL!Total, Life!FoldLeft, OL!FoldLeft, Life!Max, OL!Max,
         Life!MapThenFoldSet, OL!MapThenFoldSet

\* So is what a handler writes.
LEMMA SameOutcome ==
  ASSUME NEW op, NEW rec, NEW tx, NEW amount
  PROVE  Life!Outcome(op, rec, tx, amount) = OL!Outcome(op, rec, tx, amount)
<1>1. \A x : Life!Covered(x) = OL!Covered(x)
  BY SameTotal DEF Life!Covered, OL!Covered
<1>2. Life!Repaid(rec, tx, amount) = OL!Repaid(rec, tx, amount)
  BY <1>1 DEF Life!Repaid, OL!Repaid
<1> QED BY <1>2 DEF Life!Outcome, OL!Outcome, Life!Tokenized, OL!Tokenized,
                    Life!Settled, OL!Settled, Life!BridgePrepared, OL!BridgePrepared

\* So are the cents a call can carry.
LEMMA SameCarried == \A amount : Life!Carried(amount) = OL!Carried(amount)
  BY DEF Life!Carried, OL!Carried, Life!Cents, OL!Cents

\* So is the start of a call.
LEMMA SameCall ==
  ASSUME NEW r, NEW op, NEW o, NEW amount, Life!Call(r, op, o, amount)
  PROVE  OL!Call(r, op, o, amount)
  BY SameOutcome, SameKnown, SameCarried DEF Life!Call, OL!Call

\* So are the handlers of a request.
LEMMA SameHandlers ==
  ASSUME NEW r, Life!Handlers(r)
  PROVE  OL!Handlers(r)
  BY SameCall DEF Life!Handlers, OL!Handlers, Life!Tokenize, OL!Tokenize, Life!Settle, OL!Settle,
                  Life!PrepareBridge, OL!PrepareBridge, Life!RecordRepayment, OL!RecordRepayment

\* So are the gateway's answers.
LEMMA SameGateway ==
  ASSUME NEW r, Life!Gateway(r)
  PROVE  OL!Gateway(r)
<1>1. CASE Life!Resume(r)
  BY <1>1, SameOutcome DEF Life!Resume, OL!Resume, OL!Gateway
<1>2. CASE ~Life!Resume(r)
  BY <1>2 DEF Life!Gateway, OL!Gateway, Life!Broadcast, OL!Broadcast, Life!Mine, OL!Mine,
              Life!Revert, OL!Revert, Life!Execute, OL!Execute, Life!Reverted, OL!Reverted,
              Life!RpcError, OL!RpcError, Life!Abandon, OL!Abandon
<1> QED BY <1>1, <1>2

\* So is the entry of an order.
LEMMA SameEntry ==
  ASSUME NEW o, Life!Aggregate(o)
  PROVE  OL!Aggregate(o)
  BY DEF Life!Aggregate, OL!Aggregate, Life!Blank, OL!Blank

\* So is the financing without a call.
LEMMA SameFinance ==
  ASSUME NEW o, NEW amount, Life!Finance(o, amount)
  PROVE  OL!Finance(o, amount)
  BY SameKnown DEF Life!Finance, OL!Finance

\* So is the restart.
LEMMA SameRestart ==
  ASSUME Life!Restart
  PROVE  OL!Restart
  BY SameKnown DEF Life!Restart, OL!Restart, Life!Blank, OL!Blank

-----------------------------------------------------------------------------
(* Every step of the service is one of each half, but for the restart, which *)
(* for pools, merchants, commitments and orders is a new start.              *)

\* Every step of the composition is a step or a stutter of the lifecycle.
LEMMA StepOfLife == [Next]_vars => [OL!Next]_OL!vars
<1> SUFFICES ASSUME [Next]_vars PROVE [OL!Next]_OL!vars
  OBVIOUS
<1>1. CASE \E p \in Pools, o \in Orders : Aggregate(p, o)
  BY <1>1, SameEntry DEF Aggregate, OL!Next
<1>2. CASE CollectDemand \/ UNCHANGED vars
  BY <1>2 DEF CollectDemand, vars, OL!vars
<1>3. CASE CarryOn
  BY <1>3, SameFinance, SameHandlers, SameGateway DEF CarryOn, OL!Next
<1>4. CASE Restart
  BY <1>4, SameRestart DEF Restart, OL!Next
<1> QED BY <1>1, <1>2, <1>3, <1>4 DEF Next

\* Every step of the composition is one of the demand's, a stutter of it, or
\* the restart that puts it back to its beginning.
LEMMA StepOfDemand == [Next]_vars => [PD!Next]_PD!vars \/ PD!Init'
<1> SUFFICES ASSUME [Next]_vars PROVE [PD!Next]_PD!vars \/ PD!Init'
  OBVIOUS
<1>1. ASSUME NEW p \in Pools, NEW o \in Orders, Aggregate(p, o)
      PROVE  PD!Next
  BY <1>1, SameAggregate DEF Aggregate, PD!Next
<1>2. CASE CollectDemand
  BY <1>2, SameVerification, SamePoolCreation, SameCommitment DEF CollectDemand, PD!Next
<1>3. CASE CarryOn \/ UNCHANGED vars
  BY <1>3 DEF CarryOn, vars, PD!vars
<1>4. CASE Restart
  BY <1>4 DEF Restart, PD!Init, Demand!NoPools, PD!NoPools, Demand!NoMerchants, PD!NoMerchants
<1> QED BY <1>1, <1>2, <1>3, <1>4 DEF Next

\* The state of each half is as its own proofs say, at all times.
Halves == PD!Inv /\ OL!Inv /\ OL!WaitsOnlyLive

\* The invariants of both halves hold in every reachable state of the composition.
LEMMA AlwaysHalves == Spec => []Halves
<1>1. Init => PD!Init /\ OL!Init
  BY DEF Init, Demand!Init, PD!Init, Life!Init, OL!Init, Life!Blank, OL!Blank,
         Demand!NoPools, PD!NoPools, Demand!NoMerchants, PD!NoMerchants
<1>2. PD!Init => PD!Inv
  BY Assumed, PD!InitInv
<1>3. PD!Inv /\ [PD!Next]_PD!vars => PD!Inv'
  BY Assumed, PD!NextInv
<1>4. OL!Init => OL!Inv /\ OL!WaitsOnlyLive
  BY Assumed, OL!InitInv DEF OL!Init, OL!WaitsOnlyLive
<1>5. OL!Inv /\ [OL!Next]_OL!vars => OL!Inv'
  BY Assumed, OL!NextInv
<1>6. OL!Inv /\ OL!WaitsOnlyLive /\ [OL!Next]_OL!vars => OL!WaitsOnlyLive'
  BY Assumed, OL!WaitsOnlyLiveKept DEF OL!Inv
<1> QED BY <1>1, <1>2, <1>3, <1>4, <1>5, <1>6, StepOfLife, StepOfDemand, PTL DEF Spec, Halves

\* What each half promises on its own it keeps in the whole service, where a
\* restart empties the Maps of both at once and leaves the chain as it is.
Promises ==
  /\ Demand!CommitmentsPermitted /\ Demand!OrdersSound
  /\ Life!StatusJustified /\ Life!RecordsBacked /\ Life!AcknowledgedCredited

\* The promises about commitments, orders, records and repayments hold in
\* every run of the process, not only in the first.
THEOREM PromisesAlwaysKept == Spec => []Promises
<1>1. ASSUME PD!Inv
      PROVE  /\ Demand!CommitmentsPermitted /\ Demand!OrdersSound
  <2>1. Demand!CommitmentsPermitted
    BY <1>1, SamePool, SameToSet DEF PD!Inv, PD!CommitmentsPermitted, PD!Permitted,
                                     Demand!CommitmentsPermitted, Demand!Permitted
  <2>2. Demand!OrdersSound
    <3>1. \A n, d : Demand!ToFixed2(n, d) = PD!ToFixed2(n, d)
      BY DEF Demand!ToFixed2, PD!ToFixed2, Demand!Abs, PD!Abs
    <3> QED BY <1>1, <3>1, SameTotals DEF PD!Inv, PD!OrdersSound, Demand!OrdersSound
  <2> QED BY <2>1, <2>2
<1>2. ASSUME OL!Inv
      PROVE  Life!StatusJustified /\ Life!RecordsBacked /\ Life!AcknowledgedCredited
  <2>1. Life!StatusJustified
    BY <1>2, SameTotal DEF OL!Inv, OL!StatusJustified, OL!Justified, OL!Covered,
                           Life!StatusJustified, Life!Justified, Life!Covered
  <2>2. Life!RecordsBacked
    BY <1>2 DEF OL!Inv, OL!RecordsBacked, OL!RecordBacked, OL!CreditedOnce, OL!Backed,
                Life!RecordsBacked, Life!RecordBacked, Life!CreditedOnce, Life!Backed
  <2>3. Life!AcknowledgedCredited
    BY <1>2, SameKnown DEF OL!Inv, OL!AcknowledgedCredited, Life!AcknowledgedCredited
  <2> QED BY <2>1, <2>2, <2>3
<1>3. Halves => Promises
  BY <1>1, <1>2 DEF Halves, Promises
<1> QED BY <1>3, AlwaysHalves, PTL

-----------------------------------------------------------------------------
(* The lifecycle as it is promised. *)

\* The service, restarts included, is a lifecycle of orders: what pools and
\* commitments do to it is to decide when an order enters.
LEMMA ServiceIsLifecycle == Spec => OL!Spec
<1>1. Init => OL!Init
  BY DEF Init, Life!Init, OL!Init, Life!Blank, OL!Blank
<1> QED BY <1>1, StepOfLife, PTL DEF Spec, OL!Spec

\* The two instances of the ledger of repayments have the same steps.
LEMMA SameLedger == [OL!Ledger!Next]_OL!Ledger!vars => [Life!Ledger!Next]_Life!Ledger!vars
<1>1. ASSUME NEW r, NEW o, NEW amount, OL!Ledger!Claim(r, o, amount)
      PROVE  Life!Ledger!Claim(r, o, amount)
  BY <1>1 DEF OL!Ledger!Claim, Life!Ledger!Claim, OL!Ledger!Claimed, Life!Ledger!Claimed,
         Life!Repaying, OL!Repaying
<1>2. ASSUME NEW r, NEW o, NEW amount, OL!Ledger!Believe(r, o, amount)
      PROVE  Life!Ledger!Believe(r, o, amount)
  BY <1>2 DEF OL!Ledger!Believe, Life!Ledger!Believe, OL!Ledger!Claimed,
         Life!Ledger!Claimed, OL!Ledger!CreditedTo, Life!Ledger!CreditedTo,
         Life!Repaying, OL!Repaying
<1>3. ASSUME NEW r, OL!Ledger!Execute(r)
      PROVE  Life!Ledger!Execute(r)
  BY <1>3 DEF OL!Ledger!Execute, Life!Ledger!Execute, Life!Repaying, OL!Repaying
<1>4. ASSUME NEW r, OL!Ledger!Credit(r)
      PROVE  Life!Ledger!Credit(r)
  BY <1>4 DEF OL!Ledger!Credit, Life!Ledger!Credit, OL!Ledger!CreditedTo,
         Life!Ledger!CreditedTo, Life!Repaying, OL!Repaying
<1>5. ASSUME NEW r, OL!Ledger!GiveUp(r)
      PROVE  Life!Ledger!GiveUp(r)
  BY <1>5 DEF OL!Ledger!GiveUp, Life!Ledger!GiveUp, Life!Repaying, OL!Repaying
<1>6. ASSUME OL!Ledger!Forget
      PROVE  Life!Ledger!Forget
  BY <1>6 DEF OL!Ledger!Forget, Life!Ledger!Forget, Life!Repaying, OL!Repaying
<1> QED BY <1>1, <1>2, <1>3, <1>4, <1>5, <1>6
        DEF OL!Ledger!Next, Life!Ledger!Next,
            OL!Ledger!vars, Life!Ledger!vars,
         Life!Repaying, OL!Repaying

\* The service as a whole keeps the ledger of repayments: each is claimed
\* once, credited at most once, as claimed and only after the chain has
\* executed it, and what is credited is lost only with the process.
THEOREM ServiceKeepsLedger == Spec => Life!ImplementsLedger
<1>1. OL!Spec => OL!ImplementsLedger
  BY Assumed, OL!LedgerImplemented
<1>2. OL!Ledger!Init => Life!Ledger!Init
  BY DEF Life!Ledger!Init, OL!Ledger!Init, Life!Repaying, OL!Repaying
<1> QED BY <1>1, <1>2, SameLedger, ServiceIsLifecycle, PTL
           DEF Life!ImplementsLedger, OL!ImplementsLedger, Life!Ledger!Spec, OL!Ledger!Spec

\* Nor does the service ever credit more than the chain has recorded, but
\* for the rounding to cents.
THEOREM ServiceCreditsWithinChain == Spec => []Life!CreditWithinChain
<1>1. OL!Spec => []OL!CreditWithinChain
  BY Assumed, OL!CreditAlwaysWithinChain
<1>2. ASSUME NEW o PROVE Life!ChainRepaid(o) = OL!ChainRepaid(o)
  BY DEF Life!ChainRepaid, OL!ChainRepaid, Life!MapThenSumSet, OL!MapThenSumSet,
         Life!MapThenFoldSet, OL!MapThenFoldSet, Life!Min, OL!Min,
         Life!Carried, OL!Carried, Life!Cents, OL!Cents
<1>3. OL!CreditWithinChain => Life!CreditWithinChain
  BY <1>2, SameTotal DEF OL!CreditWithinChain, Life!CreditWithinChain, OL!Loss, Life!Loss
<1> QED BY <1>1, <1>3, ServiceIsLifecycle, PTL

\* And the history of an order only grows until the process ends.
THEOREM ServiceKeepsHistory == Spec => Life!HistoryKept
<1>1. OL!Spec => OL!HistoryKept
  BY Assumed, OL!HistoryAlwaysKept
<1>2. ASSUME \A o \in Orders : OL!Known(o) /\ order'[o].status # "lost" =>
                                  OL!Extends(order[o], order'[o])
      PROVE  \A o \in Orders : Life!Known(o) /\ order'[o].status # "lost" =>
                                  Life!Extends(order[o], order'[o])
  BY <1>2, SameKnown DEF OL!Extends, Life!Extends, OL!Repayments, Life!Repayments
<1>3. UNCHANGED OL!vars <=> UNCHANGED Life!vars
  BY DEF OL!vars, Life!vars
<1> QED BY <1>1, <1>2, <1>3, ServiceIsLifecycle, PTL DEF OL!HistoryKept, Life!HistoryKept

-----------------------------------------------------------------------------
(* The Map of orders. *)

\* What carrying orders on does to them: one of those the process knows is
\* rewritten, and it still knows it.
LEMMA CarriedOn ==
  ASSUME Halves, CarryOn
  PROVE  \/ order' = order
         \/ \E o \in Orders :
              /\ \A q \in Orders : q # o => order'[q] = order[q]
              /\ order[o].status \notin {"absent", "lost"}
              /\ order'[o].status \notin {"absent", "lost"}
<1> DEFINE Rewritten ==
             \/ order' = order
             \/ \E o \in Orders :
                  /\ \A q \in Orders : q # o => order'[q] = order[q]
                  /\ order[o].status \notin {"absent", "lost"}
                  /\ order'[o].status \notin {"absent", "lost"}
<1>1. /\ order \in [Orders -> OL!OrderRecords]
      /\ \A o \in Orders : order[o] \in OL!OrderRecords /\ OL!Justified(order[o])
  BY DEF Halves, OL!Inv, OL!TypeOK, OL!StatusJustified
<1>2. ASSUME NEW o \in Orders, NEW amount \in Amounts, OL!Finance(o, amount)
      PROVE  Rewritten
  <2>1. order'[o].status = "funded"
    BY <1>1, <1>2 DEF OL!Finance, OL!OrderRecords
  <2> QED BY <1>1, <1>2, <2>1 DEF OL!Finance, OL!Known
<1>3. ASSUME NEW o \in Orders, NEW r \in Requests, NEW op \in OL!Operations, NEW amount,
             op = "repay" => amount \in Amounts, OL!Known(o),
             order' = [order EXCEPT ![o] = OL!Outcome(op, order[o], r, amount)]
      PROVE  Rewritten
  <2>1. OL!Outcome(op, order[o], r, amount).status \notin {"absent", "lost"}
    BY <1>1, <1>3, Assumed, OL!OutcomeJustified DEF OL!Known
  <2> QED BY <1>1, <1>3, <2>1 DEF OL!Known
<1>4. ASSUME NEW r \in Requests, NEW op \in OL!Operations, NEW o \in Orders, NEW amount,
             op = "repay" => amount \in Amounts, OL!Call(r, op, o, amount)
      PROVE  Rewritten
  BY <1>3, <1>4 DEF OL!Call
<1>5. ASSUME NEW r \in Requests, OL!Resume(r)
      PROVE  Rewritten
  <2>1. /\ request[r].op \in OL!Operations /\ request[r].order \in Orders
        /\ request[r].op = "repay" => request[r].amount \in Amounts
        /\ OL!Known(request[r].order)
    BY <1>5 DEF OL!Resume, Halves, OL!Inv, OL!CallsWellFormed
  <2>2. order' = [order EXCEPT ![request[r].order] =
                    OL!Outcome(request[r].op, order[request[r].order], r, request[r].amount)]
    BY <1>5 DEF OL!Resume
  <2> QED BY <1>3, <2>1, <2>2
<1> HIDE DEF Rewritten
<1>6. ASSUME NEW r \in Requests, OL!Handlers(r)
      PROVE  Rewritten
  BY <1>4, <1>6 DEF OL!Handlers, OL!Tokenize, OL!Settle, OL!PrepareBridge,
                    OL!RecordRepayment, OL!Operations
<1>7. ASSUME NEW r \in Requests, OL!Gateway(r)
      PROVE  Rewritten
  <2>1. CASE order' = order
    BY <2>1 DEF Rewritten
  <2> QED BY <1>5, <1>7, <2>1 DEF OL!Gateway, OL!Broadcast, OL!Mine, OL!Revert, OL!Execute,
                                  OL!Reverted, OL!RpcError, OL!Abandon
<1>8. Rewritten
  BY <1>2, <1>6, <1>7, SameFinance, SameHandlers, SameGateway DEF CarryOn
<1> QED BY <1>8 DEF Rewritten

Listing == listed \in Seq(Orders) /\ OrdersListed

\* The list of orders goes on naming each known order once, and no other.
LEMMA ListingKept == Halves /\ Listing /\ [Next]_vars => Listing'
<1> SUFFICES ASSUME Halves, Listing, [Next]_vars PROVE Listing'
  OBVIOUS
<1>1. /\ listed \in Seq(Orders) /\ Len(listed) = Len(orders)
      /\ \A i, j \in DOMAIN listed : listed[i] = listed[j] => i = j
      /\ \A i \in DOMAIN listed : listed[i] \in Orders
      /\ \A o \in Orders : order[o].status \notin {"absent", "lost"} <=>
                             \E i \in DOMAIN listed : listed[i] = o
  BY DEF Listing, OrdersListed, IsInjective, ToSet, Life!Known
<1>2. order \in [Orders -> OL!OrderRecords]
  BY DEF Halves, OL!Inv, OL!TypeOK
<1>3. ASSUME listed' = listed, orders' = orders,
             \A o \in Orders : order'[o].status \notin {"absent", "lost"} <=>
                               order[o].status \notin {"absent", "lost"}
      PROVE  Listing'
  BY <1>1, <1>3 DEF Listing, OrdersListed, IsInjective, ToSet, Life!Known
<1>4. ASSUME NEW p \in Pools, NEW o \in Orders, Aggregate(p, o)
      PROVE  Listing'
  <2>1. /\ listed' = Append(listed, o)
        /\ order[o].status = "absent"
        /\ order' = [order EXCEPT ![o] = Life!Blank("structured")]
        /\ orders' = Append(orders, Demand!OrderOf(p, Demand!CommitmentsOf(p)))
    BY <1>4 DEF Aggregate, Demand!Aggregate, Life!Aggregate
  <2>2. Len(orders') = Len(orders) + 1
    <3>1. PICK S, new : orders \in Seq(S) /\ orders' = Append(orders, new)
      BY <2>1 DEF Halves, PD!Inv, PD!Shape
    <3> QED BY <3>1
  <2>3. /\ listed' \in Seq(Orders) /\ Len(listed') = Len(listed) + 1
        /\ DOMAIN listed = 1 .. Len(listed) /\ DOMAIN listed' = 1 .. Len(listed) + 1
        /\ Len(listed) \in Nat
        /\ \A i \in DOMAIN listed : listed'[i] = listed[i]
        /\ listed'[Len(listed) + 1] = o
    BY <1>1, <2>1
  <2>4. \A i \in DOMAIN listed : listed[i] # o
    BY <1>1, <2>1
  <2>5. \A i, j \in DOMAIN listed' : listed'[i] = listed'[j] => i = j
    <3>1. \A i \in DOMAIN listed' : i \in DOMAIN listed \/ i = Len(listed) + 1
      BY <2>3
    <3> QED BY <1>1, <2>3, <2>4, <3>1
  <2>6. order'[o].status = "structured" /\ \A q \in Orders : q # o => order'[q] = order[q]
    BY <1>2, <2>1 DEF Life!Blank
  <2>7. \A q \in Orders : order'[q].status \notin {"absent", "lost"} <=>
                            \E i \in DOMAIN listed' : listed'[i] = q
    <3> SUFFICES ASSUME NEW q \in Orders
                 PROVE  order'[q].status \notin {"absent", "lost"} <=>
                          \E i \in DOMAIN listed' : listed'[i] = q
      OBVIOUS
    <3>1. \A i \in DOMAIN listed' : i \in DOMAIN listed \/ i = Len(listed) + 1
      BY <2>3
    <3>2. CASE q = o
      BY <2>3, <2>6, <3>2
    <3>3. CASE q # o
      BY <1>1, <2>3, <2>6, <3>1, <3>3
    <3> QED BY <3>2, <3>3
  <2>8. \A i \in DOMAIN listed' : listed'[i] \in Orders
    BY <2>3
  <2> QED BY <1>1, <2>2, <2>3, <2>5, <2>7, <2>8
          DEF Listing, OrdersListed, IsInjective, ToSet, Life!Known
<1>5. CASE CollectDemand \/ UNCHANGED vars
  <2>1. orders' = orders /\ order' = order /\ listed' = listed
    BY <1>5 DEF CollectDemand, vars, Demand!VerifyMerchant, Demand!PoolCreation,
                Demand!CreatePool, Demand!PoolMined, Demand!PoolOpened, Demand!PoolFailed,
                Demand!Commitment, Demand!CommitOrder, Demand!RefuseCommitment, Demand!Seed
  <2> QED BY <1>3, <2>1
<1>6. CASE CarryOn
  <2>1. orders' = orders /\ listed' = listed
    BY <1>6 DEF CarryOn
  <2>2. \A o \in Orders : order'[o].status \notin {"absent", "lost"} <=>
                          order[o].status \notin {"absent", "lost"}
    BY <1>6, CarriedOn
  <2> QED BY <1>3, <2>1, <2>2
<1>7. CASE Restart
  <2>1. listed' = <<>> /\ orders' = <<>>
    BY <1>7 DEF Restart
  <2>2. \A o \in Orders : ~(order'[o].status \notin {"absent", "lost"})
    BY <1>7 DEF Restart, Life!Restart, Life!Known, Life!Blank
  <2> QED BY <2>1, <2>2 DEF Listing, OrdersListed, IsInjective, ToSet, Life!Known
<1> QED BY <1>4, <1>5, <1>6, <1>7 DEF Next

\* It does in every reachable state.
LEMMA AlwaysListing == Spec => []Listing
<1>1. Init => Listing
  BY DEF Init, Demand!Init, Life!Init, Life!Blank, Listing, OrdersListed, IsInjective,
         ToSet, Life!Known
<1> QED BY <1>1, ListingKept, AlwaysHalves, PTL DEF Spec

\* listOrders shows each order of this run of the process once, and none of
\* a former one, whatever the handlers and restarts do.
THEOREM OrdersAlwaysListed == Spec => []OrdersListed
  BY AlwaysListing, PTL DEF Listing

-----------------------------------------------------------------------------
(* What stands behind an order. *)

\* The chain sees transactions of a live service only.
SentOnlyLive == \A r \in Requests : chain[r] # "none" => Live

\* Transactions are sent only by a gateway that is live.
LEMMA AlwaysSentOnlyLive == Spec => []SentOnlyLive
<1>1. Init => SentOnlyLive
  BY DEF Init, Life!Init, SentOnlyLive
<1>2. ASSUME Halves, SentOnlyLive, [OL!Next]_OL!vars
      PROVE  SentOnlyLive'
  <2>1. chain \in [Requests -> OL!ChainStates]
    BY <1>2 DEF Halves, OL!Inv, OL!TypeOK
  <2>2. CASE chain' = chain
    BY <1>2, <2>2 DEF SentOnlyLive
  <2>3. ASSUME NEW r \in Requests, OL!Gateway(r)
        PROVE  SentOnlyLive'
    <3>1. CASE OL!Broadcast(r)
      <4>1. Live
        BY <1>2, <3>1 DEF OL!Broadcast, Halves, OL!WaitsOnlyLive
      <4> QED BY <4>1 DEF SentOnlyLive
    <3>2. CASE OL!Mine(r) \/ OL!Revert(r)
      BY <1>2, <2>1, <3>2 DEF OL!Mine, OL!Revert, OL!Execute, SentOnlyLive
    <3> QED BY <2>2, <2>3, <3>1, <3>2 DEF OL!Gateway, OL!Resume, OL!Reverted, OL!RpcError,
                                          OL!Abandon
  <2> QED BY <1>2, <2>2, <2>3 DEF OL!Next, OL!vars, OL!Aggregate, OL!Finance, OL!Handlers,
            OL!Tokenize, OL!Settle, OL!PrepareBridge, OL!RecordRepayment, OL!Call, OL!Restart
<1>3. Halves /\ SentOnlyLive /\ [OL!Next]_OL!vars => SentOnlyLive'
  BY <1>2
<1> QED BY <1>1, <1>3, AlwaysHalves, StepOfLife, PTL DEF Spec

\* An order is made of commitments, all of which are permitted.
LEMMA OrdersBacked ==
  ASSUME Halves, Listing, NEW i \in DOMAIN listed
  PROVE  /\ i \in DOMAIN orders
         /\ orders[i].pool \in Pools /\ Demand!Open(orders[i].pool)
         /\ Live => pools[orders[i].pool].onChain
         /\ orders[i].retailers =
              Cardinality({commitments[c].merchant : c \in orders[i].ids})
         /\ \A c \in orders[i].ids :
              /\ commitments[c].pool = orders[i].pool
              /\ commitments[c].merchant \in Merchants
              /\ merchants[commitments[c].merchant].status = "verified"
<1>1. i \in DOMAIN orders
  <2>1. PICK S : orders \in Seq(S)
    BY DEF Halves, PD!Inv, PD!Shape
  <2>2. listed \in Seq(Orders) /\ Len(listed) = Len(orders)
    BY DEF Listing, OrdersListed
  <2> QED BY <2>1, <2>2
<1>2. PICK pool, ids : pool = orders[i].pool /\ ids = orders[i].ids
  OBVIOUS
<1>3. /\ pool \in Pools /\ ids # {}
      /\ \A c \in ids : c \in DOMAIN commitments /\ commitments[c].pool = pool
      /\ orders[i].retailers = PD!Retailers(ids)
  BY <1>1, <1>2 DEF Halves, PD!Inv, PD!Shape, PD!OrdersSound
<1>4. ASSUME NEW c \in ids
      PROVE  /\ commitments[c].merchant \in Merchants
             /\ merchants[commitments[c].merchant].status = "verified"
             /\ pools[pool].status = "open"
             /\ Live => pools[pool].onChain
  <2>1. PD!Permitted(commitments[c]) /\ commitments[c] \in PD!CommitmentRecords
    BY <1>3 DEF Halves, PD!Inv, PD!CommitmentsPermitted, PD!Shape
  <2> QED BY <1>3, <2>1 DEF PD!Permitted, PD!CommitmentRecords, PD!Open
<1>5. PD!Retailers(ids) = Cardinality({commitments[c].merchant : c \in ids})
  BY SameCount DEF PD!Retailers
<1> QED BY <1>1, <1>2, <1>3, <1>4, <1>5 DEF Demand!Open

\* Behind every order in the Map there is an open pool, on the chain before
\* any transaction of the order, and none but verified merchants.
THEOREM OrdersAlwaysEvidenced == Spec => []OrdersEvidenced
<1>1. ASSUME Halves, Listing, SentOnlyLive, NEW i \in DOMAIN listed
      PROVE  Evidence(i)
  BY <1>1, OrdersBacked DEF Evidence, SentOnlyLive
<1>2. Halves /\ Listing /\ SentOnlyLive => OrdersEvidenced
  BY <1>1 DEF OrdersEvidenced
<1> QED BY <1>2, AlwaysHalves, AlwaysListing, AlwaysSentOnlyLive, PTL

-----------------------------------------------------------------------------
(* The dashboard. *)

OpenPools == {p \in Pools : Demand!Open(p)}
Verified == {m \in Merchants : merchants[m].status = "verified"}
Positions(status) == {i \in DOMAIN listed : order[listed[i]].status = status}

\* What the dashboard shows are the sizes of these sets.
CountsAreSizes ==
  /\ LifecycleStatus["pools"] = Cardinality(OpenPools)
  /\ LifecycleStatus["verifiedMerchants"] = Cardinality(Verified)
  /\ LifecycleStatus["aggregatedOrders"] = Len(listed)
  /\ LifecycleStatus["fundedOrders"] = Cardinality(Positions("funded"))
  /\ LifecycleStatus["settledOrders"] = Cardinality(Positions("settled"))
  /\ LifecycleStatus["repaidOrders"] = Cardinality(Positions("repaid"))

\* What the dashboard counts of a status is the number of orders in it.
LEMMA CountsOf == CountsAreSizes
<1>1. ASSUME NEW status
      PROVE  OrdersIn(status) = Cardinality(Positions(status))
  <2>1. {i \in DOMAIN ListedOrders : ListedOrders[i].status = status} = Positions(status)
    BY DEF ListedOrders, Positions
  <2> QED BY <2>1 DEF OrdersIn
<1> QED BY <1>1 DEF CountsAreSizes, LifecycleStatus, OpenPools, Verified

\* What collecting demand does to the counts: at most one pool opens, and
\* only the merchants of one request get a verdict.
LEMMA Collected ==
  ASSUME Halves, Halves', CollectDemand
  PROVE  /\ OpenPools \subseteq OpenPools'
         /\ \E p : OpenPools' \subseteq OpenPools \cup {p}
         /\ Verified \subseteq Verified'
         /\ \E F : IsFiniteSet(F) /\ Verified' \subseteq Verified \cup F
<1>1. PD!Inv /\ PD!Inv' /\ PD!Next
  BY SameVerification, SamePoolCreation, SameCommitment DEF Halves, CollectDemand, PD!Next
<1>2. OpenPools \subseteq OpenPools'
  <2>1. PD!PoolsKept
    BY <1>1, Assumed, PD!StepGrows
  <2> QED BY <2>1 DEF PD!PoolsKept, PD!Open, OpenPools, Demand!Open
<1>3. pools \in [Pools -> PD!PoolRecords] /\ merchants \in [Merchants -> PD!Profiles]
  BY <1>1 DEF PD!Inv, PD!Shape
<1>4. \E p : OpenPools' \subseteq OpenPools \cup {p}
  <2>1. ASSUME NEW p \in Pools, \A q \in Pools : q # p => pools'[q] = pools[q]
        PROVE  OpenPools' \subseteq OpenPools \cup {p}
    BY <2>1 DEF OpenPools, Demand!Open
  <2>2. CASE pools' = pools
    BY <2>2 DEF OpenPools, Demand!Open
  <2>3. ASSUME NEW p \in Pools, Demand!PoolCreation(p)
        PROVE  \A q \in Pools : q # p => pools'[q] = pools[q]
    BY <1>3, <2>3 DEF Demand!PoolCreation, Demand!CreatePool, Demand!PoolMined,
                      Demand!PoolOpened, Demand!PoolFailed
  <2> QED BY <2>1, <2>2, <2>3 DEF CollectDemand, Demand!VerifyMerchant, Demand!Commitment,
            Demand!CommitOrder, Demand!RefuseCommitment, Demand!Seed
<1>5. Verified \subseteq Verified'
  <2> SUFFICES ASSUME NEW m \in Merchants, merchants[m].status = "verified"
               PROVE  merchants'[m].status = "verified"
    BY DEF Verified
  <2>1. \/ merchants'[m] = merchants[m]
        \/ merchants'[m] = [status |-> merchants[m].status, source |-> "explicit"]
    BY <1>1, Assumed, PD!StepProfiles
  <2> QED BY <2>1
<1>6. \E F : IsFiniteSet(F) /\ Verified' \subseteq Verified \cup F
  <2>1. ASSUME NEW m \in Merchants, NEW profile,
               merchants' = [merchants EXCEPT ![m] = profile]
        PROVE  IsFiniteSet({m}) /\ Verified' \subseteq Verified \cup {m}
    BY <1>3, <2>1, FS_Singleton DEF Verified
  <2>2. CASE merchants' = merchants
    BY <2>2, FS_EmptySet DEF Verified
  <2>3. ASSUME NEW p \in Pools, NEW ids \in SeedLists, NEW quantity, NEW price,
               Demand!Seed(p, ids, quantity, price)
        PROVE  \E F : IsFiniteSet(F) /\ Verified' \subseteq Verified \cup F
    <3>1. PICK list, accepted : /\ list = Demand!SeedList(p, ids)
                                /\ Demand!Seeded(p, list, quantity, price, accepted)
      BY <2>3 DEF Demand!Seed
    <3>2. list \in Seq(Merchants)
      <4>1. pools[p].roster \in Seq(Merchants) /\ ids \in Seq(Merchants)
        BY <1>3, <2>3, Assumed DEF PD!PoolRecords, PD!DemandAssumption
      <4> QED BY <3>1, <4>1 DEF Demand!SeedList
    <3> DEFINE F == {list[i] : i \in DOMAIN list}
    <3>3. IsFiniteSet(F)
      <4>1. IsFiniteSet(DOMAIN list)
        BY <3>2, FS_Interval
      <4>2. [i \in DOMAIN list |-> list[i]] \in Surjection(DOMAIN list, F)
        BY DEF Surjection
      <4> HIDE DEF F
      <4> QED BY <4>1, <4>2, FS_Surjection
    <3>4. \A m \in Merchants : m \notin F => merchants'[m] = merchants[m]
      BY <3>1 DEF Demand!Seeded
    <3> HIDE DEF F
    <3>5. Verified' \subseteq Verified \cup F
      BY <3>4 DEF Verified
    <3> QED BY <3>3, <3>5
  <2>4. ASSUME NEW p \in Pools, Demand!PoolCreation(p)
        PROVE  merchants' = merchants
    BY <2>4 DEF Demand!PoolCreation, Demand!CreatePool, Demand!PoolMined,
                Demand!PoolOpened, Demand!PoolFailed
  <2>5. ASSUME NEW p \in Pools, Demand!Commitment(p)
        PROVE  \E F : IsFiniteSet(F) /\ Verified' \subseteq Verified \cup F
    BY <2>1, <2>3, <2>5 DEF Demand!Commitment, Demand!CommitOrder, Demand!RefuseCommitment
  <2> QED BY <2>1, <2>2, <2>4, <2>5 DEF CollectDemand, Demand!VerifyMerchant
<1> QED BY <1>2, <1>4, <1>5, <1>6

\* The counts are those of finite sets: all that opens pools and verifies
\* merchants are finitely many requests.
FinitelyMany == IsFiniteSet(OpenPools) /\ IsFiniteSet(Verified)

\* Open pools and verified merchants are finitely many, and can be counted.
LEMMA AlwaysFinitelyMany == Spec => []FinitelyMany
<1>1. ASSUME OpenPools = {}, Verified = {}
      PROVE  FinitelyMany
  BY <1>1, FS_EmptySet DEF FinitelyMany
<1>2. Init => FinitelyMany
  <2>1. Init => OpenPools = {} /\ Verified = {}
    BY DEF Init, Demand!Init, Demand!NoPools, Demand!NoMerchants, OpenPools, Verified, Demand!Open
  <2> QED BY <1>1, <2>1
<1>3. ASSUME Halves, Halves', FinitelyMany, [Next]_vars
      PROVE  FinitelyMany'
  <2>1. CASE CollectDemand
    <3>1. PICK p : OpenPools' \subseteq OpenPools \cup {p}
      BY <1>3, <2>1, Collected
    <3>2. PICK F : IsFiniteSet(F) /\ Verified' \subseteq Verified \cup F
      BY <1>3, <2>1, Collected
    <3>3. IsFiniteSet(OpenPools \cup {p}) /\ IsFiniteSet(Verified \cup F)
      BY <1>3, <3>2, FS_AddElement, FS_Union DEF FinitelyMany
    <3> QED BY <3>1, <3>2, <3>3, FS_Subset DEF FinitelyMany
  <2>2. CASE Restart
    <3>1. OpenPools' = {} /\ Verified' = {}
      BY <2>2 DEF Restart, Demand!NoPools, Demand!NoMerchants, OpenPools, Verified, Demand!Open
    <3> QED BY <3>1, FS_EmptySet DEF FinitelyMany
  <2>3. CASE UNCHANGED <<pools, merchants>>
    <3>1. OpenPools' = OpenPools /\ Verified' = Verified
      BY <2>3 DEF OpenPools, Verified, Demand!Open
    <3> QED BY <1>3, <3>1 DEF FinitelyMany
  <2> QED BY <1>3, <2>1, <2>2, <2>3 DEF Next, vars, Aggregate, CarryOn, Demand!Aggregate
<1>4. Halves /\ Halves' /\ FinitelyMany /\ [Next]_vars => FinitelyMany'
  BY <1>3
<1> QED BY <1>2, <1>4, AlwaysHalves, PTL DEF Spec

\* The places of a status in the list are finitely many, and counted by a number.
LEMMA PositionsFinite ==
  ASSUME Listing, NEW status
  PROVE  /\ Positions(status) \subseteq 1 .. Len(listed) /\ Len(listed) \in Nat
         /\ IsFiniteSet(Positions(status)) /\ Cardinality(Positions(status)) \in Nat
<1>1. DOMAIN listed = 1 .. Len(listed) /\ Len(listed) \in Nat
  BY DEF Listing
<1>2. Positions(status) \subseteq 1 .. Len(listed)
  BY <1>1 DEF Positions
<1>3. IsFiniteSet(1 .. Len(listed))
  BY <1>1, FS_Interval
<1> QED BY <1>1, <1>2, <1>3, FS_Subset, FS_CardinalityType

\* Finite sets that share nothing have together the sum of their sizes.
LEMMA DisjointUnion ==
  ASSUME NEW S, NEW T, IsFiniteSet(S), IsFiniteSet(T), S \cap T = {}
  PROVE  IsFiniteSet(S \cup T) /\ Cardinality(S \cup T) = Cardinality(S) + Cardinality(T)
<1>1. /\ IsFiniteSet(S \cup T)
      /\ Cardinality(S \cup T) = Cardinality(S) + Cardinality(T) - Cardinality(S \cap T)
  BY FS_Union
<1>2. Cardinality(S \cap T) = 0 /\ Cardinality(S) \in Nat /\ Cardinality(T) \in Nat
  BY FS_EmptySet, FS_CardinalityType
<1> QED BY <1>1, <1>2

\* The counts of the dashboard fit together at all times: pools, merchants
\* and orders are counted in different Maps, and none is ahead of another.
THEOREM DashboardAlwaysCoherent == Spec => []DashboardCoherent
<1>1. ASSUME Halves, Listing, FinitelyMany
      PROVE  DashboardCoherent
  <2>1. DOMAIN orders = DOMAIN listed
    <3>1. PICK S : orders \in Seq(S)
      BY <1>1 DEF Halves, PD!Inv, PD!Shape
    <3> QED BY <1>1, <3>1 DEF Listing, OrdersListed
  <2>2. Cardinality({orders[i].pool : i \in DOMAIN orders}) <= Cardinality(OpenPools)
    <3>1. {orders[i].pool : i \in DOMAIN orders} \subseteq OpenPools
      BY <1>1, <2>1, OrdersBacked DEF OpenPools
    <3> QED BY <1>1, <3>1, FS_Subset DEF FinitelyMany
  <2>3. ASSUME NEW i \in DOMAIN orders
        PROVE  orders[i].retailers <= Cardinality(Verified)
    <3> DEFINE image == {commitments[c].merchant : c \in orders[i].ids}
    <3>1. image \subseteq Verified /\ orders[i].retailers = Cardinality(image)
      BY <1>1, <2>1, <2>3, OrdersBacked DEF Verified
    <3> HIDE DEF image
    <3> QED BY <1>1, <3>1, FS_Subset DEF FinitelyMany
  <2>4. Cardinality(Positions("funded")) + Cardinality(Positions("settled"))
          + Cardinality(Positions("repaid")) <= Len(listed)
    <3> DEFINE A == Positions("funded")
               B == Positions("settled")
               C == Positions("repaid")
    <3>1. /\ IsFiniteSet(A) /\ IsFiniteSet(B) /\ IsFiniteSet(C)
          /\ Cardinality(A) \in Nat /\ Cardinality(B) \in Nat /\ Cardinality(C) \in Nat
          /\ (A \cup B) \cup C \subseteq 1 .. Len(listed) /\ Len(listed) \in Nat
      BY <1>1, PositionsFinite
    <3>2. A \cap B = {} /\ (A \cup B) \cap C = {}
      BY DEF Positions
    <3> HIDE DEF A, B, C
    <3>3. IsFiniteSet(A \cup B) /\ Cardinality(A \cup B) = Cardinality(A) + Cardinality(B)
      BY <3>1, <3>2, DisjointUnion
    <3>4. Cardinality((A \cup B) \cup C) = Cardinality(A \cup B) + Cardinality(C)
      BY <3>1, <3>2, <3>3, DisjointUnion
    <3>5. Cardinality((A \cup B) \cup C) <= Len(listed)
      <4>1. PICK n \in Nat : n = Len(listed)
        BY <3>1
      <4>2. IsFiniteSet(1 .. n) /\ Cardinality(1 .. n) = n
        BY FS_Interval
      <4> QED BY <3>1, <4>1, <4>2, FS_Subset
    <3> QED BY <3>1, <3>3, <3>4, <3>5 DEF A, B, C
  <2>5. /\ LifecycleStatus.pools = Cardinality(OpenPools)
        /\ LifecycleStatus.verifiedMerchants = Cardinality(Verified)
        /\ LifecycleStatus.aggregatedOrders = Len(listed)
        /\ LifecycleStatus.fundedOrders = Cardinality(Positions("funded"))
        /\ LifecycleStatus.settledOrders = Cardinality(Positions("settled"))
        /\ LifecycleStatus.repaidOrders = Cardinality(Positions("repaid"))
    BY CountsOf DEF CountsAreSizes
  <2> QED BY <2>2, <2>3, <2>4, <2>5 DEF DashboardCoherent
<1>2. Halves /\ Listing /\ FinitelyMany => DashboardCoherent
  BY <1>1
<1> QED BY <1>2, AlwaysHalves, AlwaysListing, AlwaysFinitelyMany, PTL

\* Sets that agree but for one element differ by one in size at the most.
LEMMA CountMoves ==
  ASSUME NEW S, NEW T, NEW x, IsFiniteSet(S), IsFiniteSet(T), S \ {x} = T \ {x}
  PROVE  /\ Cardinality(T) - Cardinality(S) \in -1 .. 1
         /\ S \subseteq T => Cardinality(T) - Cardinality(S) \in {0, 1}
<1>1. /\ Cardinality(S) \in Nat /\ Cardinality(T) \in Nat /\ Cardinality(S \ {x}) \in Nat
  BY FS_CardinalityType, FS_RemoveElement
<1>2. /\ Cardinality(S \ {x}) = IF x \in S THEN Cardinality(S) - 1 ELSE Cardinality(S)
      /\ Cardinality(T \ {x}) = IF x \in T THEN Cardinality(T) - 1 ELSE Cardinality(T)
  BY FS_RemoveElement
<1> QED BY <1>1, <1>2

\* How many orders are in a state changes by one at the most.
LEMMA PositionsMove ==
  ASSUME Halves, Listing, Listing', [Next]_vars, ~Restart,
         NEW status \in {"funded", "settled", "repaid"}
  PROVE  Cardinality(Positions(status))' - Cardinality(Positions(status)) \in -1 .. 1
<1> DEFINE Old == Positions(status)
           New == Positions(status)'
<1>1. IsFiniteSet(Old) /\ IsFiniteSet(New)
  <2>1. Listing => IsFiniteSet(Positions(status))
    BY PositionsFinite
  <2>2. IsFiniteSet(Positions(status))'
    <3>1. /\ listed' \in Seq(Orders)
      BY DEF Listing
    <3>2. /\ New \subseteq 1 .. Len(listed')
      BY <3>1 DEF Positions
    <3>3. IsFiniteSet(1 .. Len(listed'))
      BY <3>1, FS_Interval
    <3> QED BY <3>2, <3>3, FS_Subset
  <2> QED BY <2>1, <2>2
<1>2. \E x : Old \ {x} = New \ {x}
  <2>1. /\ listed \in Seq(Orders) /\ DOMAIN listed = 1 .. Len(listed) /\ Len(listed) \in Nat
        /\ \A i, j \in DOMAIN listed : listed[i] = listed[j] => i = j
        /\ \A i \in DOMAIN listed : order[listed[i]].status \notin {"absent", "lost"}
        /\ \A i \in DOMAIN listed : listed[i] \in Orders
    BY DEF Listing, OrdersListed, IsInjective, ToSet, Life!Known
  <2>2. ASSUME NEW p \in Pools, NEW o \in Orders, Aggregate(p, o)
        PROVE  Old = New
    <3>1. /\ listed' = Append(listed, o) /\ order[o].status = "absent"
          /\ order' = [order EXCEPT ![o] = Life!Blank("structured")]
      BY <2>2 DEF Aggregate, Life!Aggregate
    <3>2. /\ DOMAIN listed' = 1 .. Len(listed) + 1
          /\ \A i \in DOMAIN listed : listed'[i] = listed[i]
          /\ listed'[Len(listed) + 1] = o
      BY <2>1, <3>1
    <3>3. order \in [Orders -> OL!OrderRecords]
      BY DEF Halves, OL!Inv, OL!TypeOK
    <3>4. order'[o].status = "structured" /\ \A q \in Orders : q # o => order'[q] = order[q]
      BY <3>1, <3>3 DEF Life!Blank
    <3>5. \A i \in DOMAIN listed : listed[i] # o /\ order'[listed[i]] = order[listed[i]]
      BY <2>1, <3>1, <3>4
    <3>6. \A i \in DOMAIN listed' : i \in DOMAIN listed \/ i = Len(listed) + 1
      BY <2>1, <3>2
    <3>7. \A i \in DOMAIN listed : i \in DOMAIN listed'
      BY <2>1, <3>2
    <3> QED BY <3>2, <3>4, <3>5, <3>6, <3>7 DEF Positions
  <2>3. CASE UNCHANGED <<order, listed>>
    BY <2>3 DEF Positions
  <2>4. ASSUME listed' = listed, NEW o \in Orders,
               \A q \in Orders : q # o => order'[q] = order[q]
        PROVE  \E x : Old \ {x} = New \ {x}
    <3>1. CASE \E i \in DOMAIN listed : listed[i] = o
      <4>1. PICK x \in DOMAIN listed : listed[x] = o
        BY <3>1
      <4>2. \A i \in DOMAIN listed : i # x => order'[listed'[i]] = order[listed[i]]
        BY <2>1, <2>4, <4>1
      <4>3. Old \ {x} = New \ {x}
        BY <2>4, <4>2 DEF Positions
      <4> QED BY <4>3
    <3>2. CASE \A i \in DOMAIN listed : listed[i] # o
      <4>1. \A i \in DOMAIN listed : order'[listed'[i]] = order[listed[i]]
        BY <2>1, <2>4, <3>2
      <4>2. Old = New
        BY <2>4, <4>1 DEF Positions
      <4> QED BY <4>2
    <3> QED BY <3>1, <3>2
  <2>5. CASE CarryOn
    <3>1. listed' = listed
      BY <2>5 DEF CarryOn
    <3> QED BY <2>3, <2>4, <2>5, <3>1, CarriedOn
  <2>6. CollectDemand \/ UNCHANGED vars => UNCHANGED <<order, listed>>
    BY DEF CollectDemand, vars
  <2> QED BY <2>2, <2>3, <2>5, <2>6 DEF Next
<1> HIDE DEF Old, New
<1>3. Cardinality(New) - Cardinality(Old) \in -1 .. 1
  BY <1>1, <1>2, CountMoves
<1> QED BY <1>3 DEF Old, New

\* While the process runs the dashboard never loses a pool, a merchant or an
\* order, and no step moves more than one order from one count to another.
THEOREM DashboardAlwaysSteps == Spec => DashboardSteps
<1> DEFINE Step == /\ Moved("pools") \in {0, 1}
                   /\ Moved("verifiedMerchants") >= 0
                   /\ Moved("aggregatedOrders") \in {0, 1}
                   /\ \A count \in {"fundedOrders", "settledOrders", "repaidOrders"} :
                        Moved(count) \in -1 .. 1
<1>1. ASSUME Halves, Halves', Listing, Listing', FinitelyMany, FinitelyMany',
             CountsAreSizes, CountsAreSizes', [Next]_vars, ~Restart
      PROVE  Step
  <2>1. /\ LifecycleStatus'["pools"] = Cardinality(OpenPools')
        /\ LifecycleStatus'["verifiedMerchants"] = Cardinality(Verified')
        /\ LifecycleStatus'["aggregatedOrders"] = Len(listed')
        /\ LifecycleStatus'["fundedOrders"] = Cardinality(Positions("funded"))'
        /\ LifecycleStatus'["settledOrders"] = Cardinality(Positions("settled"))'
        /\ LifecycleStatus'["repaidOrders"] = Cardinality(Positions("repaid"))'
    BY <1>1 DEF CountsAreSizes
  <2>2. Cardinality(OpenPools') - Cardinality(OpenPools) \in {0, 1}
    <3>1. IsFiniteSet(OpenPools) /\ IsFiniteSet(OpenPools')
      BY <1>1 DEF FinitelyMany
    <3>2. CASE CollectDemand
      <4>1. PICK p : OpenPools \subseteq OpenPools' /\ OpenPools' \subseteq OpenPools \cup {p}
        BY <1>1, <3>2, Collected
      <4>2. OpenPools \ {p} = OpenPools' \ {p}
        BY <4>1
      <4> QED BY <3>1, <4>1, <4>2, CountMoves
    <3>3. CASE pools' = pools
      <4>1. OpenPools' = OpenPools /\ Cardinality(OpenPools) \in Nat
        BY <3>1, <3>3, FS_CardinalityType DEF OpenPools, Demand!Open
      <4> QED BY <4>1
    <3> QED BY <1>1, <3>2, <3>3 DEF Next, vars, Aggregate, CarryOn, Demand!Aggregate
  <2>3. Cardinality(Verified') - Cardinality(Verified) >= 0
    <3>1. IsFiniteSet(Verified) /\ IsFiniteSet(Verified')
      BY <1>1 DEF FinitelyMany
    <3>2. Verified \subseteq Verified'
      <4>1. CASE CollectDemand
        BY <1>1, <4>1, Collected
      <4>2. CASE merchants' = merchants
        BY <4>2 DEF Verified
      <4> QED BY <1>1, <4>1, <4>2 DEF Next, vars, Aggregate, CarryOn, Demand!Aggregate
    <3>3. /\ Cardinality(Verified) \in Nat /\ Cardinality(Verified') \in Nat
          /\ Cardinality(Verified) <= Cardinality(Verified')
      BY <3>1, <3>2, FS_Subset, FS_CardinalityType
    <3> QED BY <3>3
  <2>4. Len(listed') - Len(listed) \in {0, 1}
    <3>1. listed \in Seq(Orders) /\ Len(listed) \in Nat
      BY <1>1 DEF Listing
    <3>2. CASE \E p \in Pools, o \in Orders : Aggregate(p, o)
      <4>1. PICK o : listed' = Append(listed, o)
        BY <3>2 DEF Aggregate
      <4> QED BY <3>1, <4>1
    <3>3. CASE listed' = listed
      BY <3>1, <3>3
    <3> QED BY <1>1, <3>2, <3>3 DEF Next, vars, CollectDemand, CarryOn
  <2>5. \A status \in {"funded", "settled", "repaid"} :
          Cardinality(Positions(status))' - Cardinality(Positions(status)) \in -1 .. 1
    BY <1>1, PositionsMove
  <2> QED BY <1>1, <2>1, <2>2, <2>3, <2>4, <2>5 DEF Moved, CountsAreSizes
<1>2. /\ Halves /\ Halves' /\ Listing /\ Listing' /\ FinitelyMany /\ FinitelyMany'
      /\ CountsAreSizes /\ CountsAreSizes' /\ [Next]_vars
      => [Restart \/ Step]_vars
  BY <1>1
<1> QED BY <1>2, AlwaysHalves, AlwaysListing, AlwaysFinitelyMany, CountsOf, PTL
        DEF Spec, DashboardSteps
=============================================================================
