---------------------------- MODULE RwaProcurement ----------------------------
(***************************************************************************)
(* RwaProcurementService as a whole: PoolDemand fills the pools, merchants *)
(* and commitments Maps and aggregates orders, OrderLifecycle carries the  *)
(* orders on, and getLifecycleStatus counts over all of them.              *)
(*                                                                         *)
(* An entry of the orders Map is seen from both sides: what it aggregates, *)
(* orders[i], and what became of it, order[listed[i]].  A restart empties  *)
(* every Map at once, and leaves the chain as it is.                       *)
(***************************************************************************)
EXTENDS Integers, Sequences, SequencesExt, FiniteSets

CONSTANTS
  Merchants, Pools, Allowlist, UserBacked, Quantities, Prices, Thresholds,
  Rosters, SeedLists, Production, MaxCommitments, MaxOrders,  \* of PoolDemand
  Orders, Requests, Amounts, Cent, Slip, None, MadeUpTx,  \* of OrderLifecycle
  Live                                                    \* of both

VARIABLES
  pools, merchants, commitments, orders,                  \* of PoolDemand
  order, request, chain,                                  \* of OrderLifecycle
  listed                         \* the keys of the orders Map, in its order

vars == <<pools, merchants, commitments, orders, order, request, chain, listed>>

Demand == INSTANCE PoolDemand
Life == INSTANCE OrderLifecycle

ASSUME ProcurementAssumption == Demand!DemandAssumption /\ Life!LifecycleAssumption

-----------------------------------------------------------------------------
Init ==
  /\ Demand!Init
  /\ Life!Init
  /\ listed = <<>>

\* Mutant: orders are kept under the id of their pool, a new one in place of
\* the one before.
AggregatePerPool(p, o) ==
  /\ Demand!Aggregate(p)
  /\ Life!Aggregate(o)
  /\ listed' = SelectSeq(listed, LAMBDA q :
                  \A i \in DOMAIN listed : listed[i] = q => orders[i].pool # p) \o <<o>>

\* aggregateDemand: the order enters the Map under a fresh id.
Aggregate(p, o) ==
  /\ Demand!Aggregate(p)
  /\ Life!Aggregate(o)
  /\ listed' = Append(listed, o)

CollectDemand ==
  /\ \/ \E m \in Merchants : Demand!VerifyMerchant(m)
     \/ \E p \in Pools : Demand!PoolCreation(p) \/ Demand!Commitment(p)
  /\ UNCHANGED <<order, request, chain, listed>>

CarryOn ==
  /\ \/ \E o \in Orders, amount \in Amounts : Life!Finance(o, amount)
     \/ \E r \in Requests : Life!Handlers(r) \/ Life!Gateway(r)
  /\ UNCHANGED <<pools, merchants, commitments, orders, listed>>

Restart ==
  /\ Life!Restart
  /\ pools' = Demand!NoPools
  /\ merchants' = Demand!NoMerchants
  /\ commitments' = <<>>
  /\ orders' = <<>>
  /\ listed' = <<>>

Next ==
  \/ \E p \in Pools, o \in Orders : Aggregate(p, o)
  \/ CollectDemand
  \/ CarryOn
  \/ Restart

Spec == Init /\ [][Next]_vars
-----------------------------------------------------------------------------
(* The dashboard *)

\* listOrders
ListedOrders == [i \in DOMAIN listed |-> order[listed[i]]]

\* Mutant: the orders counted as funded are those with financing terms.
OrdersInByRecord(status) ==
  Cardinality({i \in DOMAIN ListedOrders :
    \/ ListedOrders[i].status = status
    \/ status = "funded" /\ ListedOrders[i].financing # None})

\* Mutant: the orders of a pool are counted together.
OrdersInByPool(status) ==
  Cardinality({i \in DOMAIN ListedOrders :
    \E j \in DOMAIN ListedOrders :
      orders[j].pool = orders[i].pool /\ ListedOrders[j].status = status})

OrdersIn(status) ==
  Cardinality({i \in DOMAIN ListedOrders : ListedOrders[i].status = status})

\* getLifecycleStatus
LifecycleStatus ==
  [pools            |-> Cardinality({p \in Pools : Demand!Open(p)}),
   verifiedMerchants |-> Cardinality({m \in Merchants :
                                        merchants[m].status = "verified"}),
   aggregatedOrders |-> Len(listed),
   fundedOrders     |-> OrdersIn("funded"),
   settledOrders    |-> OrdersIn("settled"),
   repaidOrders     |-> OrdersIn("repaid")]

-----------------------------------------------------------------------------
(* What the service maintains *)

\* The Map has each order that lives once, under the id its handlers use,
\* next to what it aggregates: no order is lost while the process runs, and
\* none of a former run of the process is listed.
OrdersListed ==
  /\ Len(listed) = Len(orders)
  /\ IsInjective(listed)
  /\ ToSet(listed) = {o \in Orders : Life!Known(o)}

\* What stands behind an order, from the pool to the repayments: its pool is
\* open, and with a live gateway on the chain, before the chain sees any
\* transaction of the order; all of its merchants are verified now.
Evidence(i) ==
  LET pool == orders[i].pool
      used == {r \in Requests : request[r].order = listed[i] /\ chain[r] # "none"}
  IN  /\ Demand!Open(pool)
      /\ used # {} => pools[pool].onChain
      /\ \A c \in orders[i].ids :
           /\ commitments[c].pool = pool
           /\ merchants[commitments[c].merchant].status = "verified"

OrdersEvidenced == \A i \in DOMAIN listed : Evidence(i)

\* The counts of the dashboard fit together: an order needs a pool, as many
\* verified merchants as took part in it, and is in one state at a time.
DashboardCoherent ==
  LET status == LifecycleStatus
  IN  /\ Cardinality({orders[i].pool : i \in DOMAIN orders}) <= status.pools
      /\ \A i \in DOMAIN orders : orders[i].retailers <= status.verifiedMerchants
      /\ status.fundedOrders + status.settledOrders + status.repaidOrders
           <= status.aggregatedOrders

Moved(count) == LifecycleStatus'[count] - LifecycleStatus[count]

\* While the process runs, pools, verified merchants and orders only become
\* more, orders and pools by one at a time; one request changes the state
\* of one order at most, although any number of them are under way.
DashboardSteps ==
  [][Restart \/
     /\ Moved("pools") \in {0, 1}
     /\ Moved("verifiedMerchants") >= 0
     /\ Moved("aggregatedOrders") \in {0, 1}
     /\ \A count \in {"fundedOrders", "settledOrders", "repaidOrders"} :
          Moved(count) \in -1 .. 1]_vars
=============================================================================
