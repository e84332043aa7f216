------------------------------ MODULE PoolDemand ------------------------------
(***************************************************************************)
(* Demand collection in RwaProcurementService, up to the aggregated order: *)
(* createPool, verifyMerchant, commitOrder, seedMockCommitmentsForPool and *)
(* aggregateDemand, with the verdicts of MerchantVerificationService.      *)
(*                                                                         *)
(* Only createPool awaits; every other handler is one atomic step.  All    *)
(* state is in Maps of the process: a restart is a new behaviour, from     *)
(* Init, with fresh pool ids.  A commitment is known by its place in the   *)
(* insertion order of the commitments Map, an order likewise.  Prices are  *)
(* in mills, tenths of a cent.                                             *)
(***************************************************************************)
EXTENDS Integers, Sequences, SequencesExt, FiniteSets, Functions

CONSTANTS
  Merchants,        \* merchant ids
  Pools,            \* ids that makeId gives to pools
  Allowlist,        \* PERMISSIONED_MERCHANTS
  UserBacked,       \* the merchant ids that start with "usr-"
  Quantities,       \* quantities a commitment may carry
  Prices,           \* unit prices a commitment may carry
  Thresholds,       \* thresholdQuantity of a new pool; 1 when it is omitted
  Rosters,          \* allowedMerchants of a new pool
  SeedLists,        \* merchantIds of a seed request; <<>> when omitted
  Live,             \* TRUE when the gateway sends transactions
  Production,       \* NODE_ENV === 'production'
  MaxCommitments,   \* bound on the commitments Map
  MaxOrders         \* bound on the orders Map

ASSUME DemandAssumption ==
  /\ Quantities \subseteq Int /\ Prices \subseteq Int /\ Thresholds \subseteq Int
  /\ Rosters \subseteq Seq(Merchants) /\ SeedLists \subseteq Seq(Merchants)
  /\ Live \in BOOLEAN /\ Production \in BOOLEAN
  /\ MaxCommitments \in Nat /\ MaxOrders \in Nat

VARIABLES
  pools,        \* the pools Map, and what createPool still waits for
  merchants,    \* the merchants Map
  commitments,  \* the commitments Map, in insertion order
  orders        \* the orders Map, in insertion order

vars == <<pools, merchants, commitments, orders>>

-----------------------------------------------------------------------------
(* Data *)

\* "absent", "creating" and "failed" pools are not in the Map: the id is not
\* handed out yet, its createPool waits for the receipt, or it has thrown.
\* onChain tells whether the chain has executed the pool's transaction.
PoolRecords ==
  [status : {"absent", "creating", "open", "failed"}, onChain : BOOLEAN,
   roster : Seq(Merchants), threshold : Int]

\* source tells who asked for the verdict: POST merchants/verify, or a
\* commitment of a merchant the Map did not know.
Profiles == [status : {"none", "verified", "rejected"},
             source : {"none", "explicit", "bootstrap"}]

CommitmentRecords ==
  [pool : Pools, merchant : Merchants, quantity : Quantities, price : Prices]

Sum(f) == FoldFunction(LAMBDA x, y : x + y, 0, f)

\* reduce over the commitments whose ids are given.
Quantity(ids) == Sum([c \in ids |-> commitments[c].quantity])
Notional(ids) == Sum([c \in ids |-> commitments[c].quantity * commitments[c].price])
Retailers(ids) == Cardinality({commitments[c].merchant : c \in ids})

Open(p) == pools[p].status = "open"

\* Mutant: the filter on the pool is forgotten.
CommitmentsOfAll(p) == DOMAIN commitments

CommitmentsOf(p) == {c \in DOMAIN commitments : commitments[c].pool = p}

CanAggregate(p) == Quantity(CommitmentsOf(p)) >= pools[p].threshold

Verdict(m) ==
  IF Allowlist = {} \/ m \in Allowlist \/ m \in UserBacked
  THEN "verified" ELSE "rejected"

\* Mutant: a commitment always registers its merchant anew.
BootstrappedAlways(m) == [status |-> Verdict(m), source |-> "bootstrap"]

\* Mutant: a bootstrapped merchant waits for a later verdict.
BootstrappedPending(m) ==
  IF merchants[m].status # "none" THEN merchants[m]
  ELSE [status |-> "pending", source |-> "bootstrap"]

\* The profile commitOrder works with: the stored one, or one made up now.
Bootstrapped(m) ==
  IF merchants[m].status # "none" THEN merchants[m]
  ELSE [status |-> Verdict(m), source |-> "bootstrap"]

\* Mutant: the roster is not looked at.
AcceptableUnlisted(p, m) == Bootstrapped(m).status = "verified"

\* The two checks of commitOrder.
Acceptable(p, m) ==
  Bootstrapped(m).status = "verified" /\ m \in ToSet(pools[p].roster)

Abs(n) == IF n < 0 THEN -n ELSE n

\* Number((n / d).toFixed(2)) for an amount n in mills, in cents: the nearest
\* one, either of the two when binary floating point decides a tie.  There
\* is none when d is zero: the quotient is NaN or infinite.
ToFixed2(n, d) ==
  {c \in -Abs(n) .. Abs(n) : d # 0 /\ 2 * Abs(10 * d * c - n) <= 10 * Abs(d)}

\* Mutant: the notional is spread over commitments, not over units.
UnitPricesPerLine(ids) == ToFixed2(Notional(ids), Cardinality(ids))

\* weightedUnitPrice.
UnitPrices(ids) == ToFixed2(Notional(ids), Quantity(ids))

-----------------------------------------------------------------------------
NoPools == [p \in Pools |-> [status |-> "absent", onChain |-> FALSE,
                            roster |-> <<>>, threshold |-> 1]]

NoMerchants == [m \in Merchants |-> [status |-> "none", source |-> "none"]]

Init ==
  /\ pools = NoPools
  /\ merchants = NoMerchants
  /\ commitments = <<>>
  /\ orders = <<>>

\* createPool up to its await; the mock gateway lets it finish at once.
CreatePool(p, roster, threshold) ==
  /\ pools[p].status = "absent"
  /\ pools' = [pools EXCEPT ![p] =
                 [status |-> IF Live THEN "creating" ELSE "open", onChain |-> FALSE,
                  roster |-> roster, threshold |-> threshold]]
  /\ UNCHANGED <<merchants, commitments, orders>>

\* The chain executes the pool's transaction, which it may do even after the
\* handler has given up on it.
PoolMined(p) ==
  /\ Live
  /\ pools[p].status \in {"creating", "failed"}
  /\ ~pools[p].onChain
  /\ pools' = [pools EXCEPT ![p].onChain = TRUE]
  /\ UNCHANGED <<merchants, commitments, orders>>

\* Mutant: the pool opens without the receipt.
PoolOpenedEarly(p) ==
  /\ pools[p].status = "creating"
  /\ pools' = [pools EXCEPT ![p].status = "open"]
  /\ UNCHANGED <<merchants, commitments, orders>>

\* The receipt arrives and the pool enters the Map.
PoolOpened(p) ==
  /\ pools[p].status = "creating"
  /\ pools[p].onChain
  /\ pools' = [pools EXCEPT ![p].status = "open"]
  /\ UNCHANGED <<merchants, commitments, orders>>

\* The gateway throws: the pool never enters the Map.
PoolFailed(p) ==
  /\ pools[p].status = "creating"
  /\ pools' = [pools EXCEPT ![p].status = "failed"]
  /\ UNCHANGED <<merchants, commitments, orders>>

\* Verdicts replace whatever profile is stored.
VerifyMerchant(m) ==
  /\ merchants' = [merchants EXCEPT ![m] = [status |-> Verdict(m), source |-> "explicit"]]
  /\ UNCHANGED <<pools, commitments, orders>>

CommitOrder(p, m, quantity, price) ==
  /\ Open(p)
  /\ Acceptable(p, m)
  /\ Len(commitments) < MaxCommitments
  /\ merchants' = [merchants EXCEPT ![m] = Bootstrapped(m)]
  /\ commitments' = Append(commitments, [pool |-> p, merchant |-> m,
                                         quantity |-> quantity, price |-> price])
  /\ UNCHANGED <<pools, orders>>

\* A refused commitment leaves the profile it made up behind.
RefuseCommitment(p, m) ==
  /\ Open(p)
  /\ ~Acceptable(p, m)
  /\ merchants' = [merchants EXCEPT ![m] = Bootstrapped(m)]
  /\ UNCHANGED <<pools, commitments, orders>>

SeedList(p, ids) == IF ids = <<>> THEN pools[p].roster ELSE ids

\* One commitment per merchant listed, in order, until the first that
\* commitOrder refuses: those before it stay, it leaves its profile.
Seeded(p, list, quantity, price, accepted) ==
  /\ \A i \in 1 .. accepted : Acceptable(p, list[i])
  /\ accepted < Len(list) => ~Acceptable(p, list[accepted + 1])
  /\ merchants' = [m \in Merchants |->
                     IF \E i \in DOMAIN list : i <= accepted + 1 /\ list[i] = m
                     THEN Bootstrapped(m) ELSE merchants[m]]
  /\ commitments' = commitments \o
                      [i \in 1 .. accepted |-> [pool |-> p, merchant |-> list[i],
                                                quantity |-> quantity, price |-> price]]

Seed(p, ids, quantity, price) ==
  LET list == SeedList(p, ids)
  IN  /\ ~Production
      /\ Open(p)
      /\ list # <<>>
      /\ Len(commitments) + Len(list) <= MaxCommitments
      /\ \E accepted \in 0 .. Len(list) : Seeded(p, list, quantity, price, accepted)
      /\ UNCHANGED <<pools, orders>>

\* The order of a pool's commitments.
OrderOf(p, ids) ==
  [pool |-> p, ids |-> ids, quantity |-> Quantity(ids),
   notional |-> ToFixed2(Notional(ids), 1), prices |-> UnitPrices(ids),
   retailers |-> Retailers(ids)]

\* Mutant: aggregation empties the pool.
AggregateConsuming(p) ==
  /\ Open(p)
  /\ CommitmentsOf(p) # {}
  /\ CanAggregate(p)
  /\ Len(orders) < MaxOrders
  /\ orders' = Append(orders, OrderOf(p, CommitmentsOf(p)))
  /\ commitments' = SelectSeq(commitments, LAMBDA c : c.pool # p)
  /\ UNCHANGED <<pools, merchants>>

\* Every commitment of the pool goes into a new order, whether or not an
\* earlier order has it.
Aggregate(p) ==
  /\ Open(p)
  /\ CommitmentsOf(p) # {}
  /\ CanAggregate(p)
  /\ Len(orders) < MaxOrders
  /\ orders' = Append(orders, OrderOf(p, CommitmentsOf(p)))
  /\ UNCHANGED <<pools, merchants, commitments>>

PoolCreation(p) ==
  \/ \E roster \in Rosters, threshold \in Thresholds : CreatePool(p, roster, threshold)
  \/ PoolMined(p) \/ PoolOpened(p) \/ PoolFailed(p)

Commitment(p) ==
  \/ \E m \in Merchants :
       \/ \E quantity \in Quantities, price \in Prices : CommitOrder(p, m, quantity, price)
       \/ RefuseCommitment(p, m)
  \/ \E ids \in SeedLists, quantity \in Quantities, price \in Prices :
       Seed(p, ids, quantity, price)

Next ==
  \/ \E m \in Merchants : VerifyMerchant(m)
  \/ \E p \in Pools : PoolCreation(p) \/ Commitment(p) \/ Aggregate(p)

Spec == Init /\ [][Next]_vars
-----------------------------------------------------------------------------
(* What the handlers maintain *)

OrderRecords ==
  [pool : Pools, ids : SUBSET (1 .. Len(commitments)), quantity : Int,
   notional : SUBSET Int, prices : SUBSET Int, retailers : Nat]

TypeOK ==
  /\ pools \in [Pools -> PoolRecords]
  /\ merchants \in [Merchants -> Profiles]
  /\ commitments \in Seq(CommitmentRecords)
  /\ orders \in Seq(OrderRecords)

\* A commitment is in the Map only if its pool is open, and with a live
\* gateway on the chain, its merchant is on the pool's roster and the profile
\* the Map has for the merchant, asked for or made up, before or since, says
\* verified.  It holds for seeded commitments as for submitted ones, however
\* far a seed request got before it failed.
Permitted(c) ==
  /\ Open(c.pool)
  /\ Live => pools[c.pool].onChain
  /\ c.merchant \in ToSet(pools[c.pool].roster)
  /\ merchants[c.merchant].status = "verified"

CommitmentsPermitted ==
  \A i \in DOMAIN commitments : Permitted(commitments[i])

\* An order is made of commitments of its own pool, and its quantity, its
\* notional, to the cent, and its number of retailers are theirs to this
\* day, whatever was committed since; the quantity met the pool's threshold.
OrdersSound ==
  \A i \in DOMAIN orders :
    LET o == orders[i]
    IN  /\ o.ids # {}
        /\ o.ids \subseteq {c \in DOMAIN commitments : commitments[c].pool = o.pool}
        /\ o.quantity = Quantity(o.ids)
        /\ o.notional = ToFixed2(Notional(o.ids), 1)
        /\ o.retailers = Retailers(o.ids)
        /\ o.quantity >= pools[o.pool].threshold

\* A verdict once in the Map stands, and a commitment does not replace the
\* profile that POST merchants/verify has stored by a made-up one.
ProfilesStable ==
  [][\A m \in Merchants : merchants[m].status # "none" =>
       /\ merchants'[m].status = merchants[m].status
       /\ merchants[m].source = "explicit" => merchants'[m].source = "explicit"]_vars

\* The step adds a commitment of pool p with a negative quantity, which
\* nothing refuses.
Reduced(p) ==
  \E c \in DOMAIN commitments' \ DOMAIN commitments :
    commitments'[c].pool = p /\ commitments'[c].quantity < 0

\* getPoolProgress: a pool that may be aggregated stays open, and may be
\* aggregated until a commitment of a negative quantity reduces its demand:
\* neither an aggregation nor what happens in other pools takes it away.
ProgressKept ==
  [][\A p \in Pools : Open(p) /\ CanAggregate(p) =>
       Open(p)' /\ (CanAggregate(p)' \/ Reduced(p))]_vars

\* The weighted unit price of an order lies between the prices of its
\* commitments, to half a cent, if it has units and no negative quantity is
\* among them.
PriceBetween ==
  \A i \in DOMAIN orders :
    /\ orders[i].quantity > 0
    /\ \A c \in orders[i].ids : commitments[c].quantity >= 0
    =>
    /\ orders[i].prices # {}
    /\ \A cents \in orders[i].prices, side \in {1, -1} :
         \E c \in orders[i].ids :
           side * (10 * cents - commitments[c].price) <= 5

-----------------------------------------------------------------------------
(* What the documents say and the code does not do *)

\* rwa.controller.ts:152, "Aggregate pool commitments into one structured
\* order": no commitment is in two orders.
OneOrderPerCommitment ==
  \A i, j \in DOMAIN orders : i # j => orders[i].ids \cap orders[j].ids = {}
=============================================================================
