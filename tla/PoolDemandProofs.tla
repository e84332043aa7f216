--------------------------- MODULE PoolDemandProofs ---------------------------
(***************************************************************************)
(* Proofs about PoolDemand, for every set of merchants, pools, quantities, *)
(* prices, thresholds, rosters and seed lists, and every bound.            *)
(*                                                                         *)
(* That an order's totals stay those of its commitments needs only that    *)
(* equal functions have equal sums.  That the totals are numbers, that the *)
(* price lies between the prices summed and that progress is kept needs    *)
(* what a sum is, and rests on SumTheorems.                                *)
(***************************************************************************)
EXTENDS PoolDemand, SumTheorems

\* The part of TypeOK that does not depend on what Sum returns.
Shape ==
  /\ pools \in [Pools -> PoolRecords]
  /\ merchants \in [Merchants -> Profiles]
  /\ commitments \in Seq(CommitmentRecords)
  /\ \E S : orders \in Seq(S)
  /\ \A i \in DOMAIN orders : orders[i].pool \in Pools

\* A profile in the Map has the verdict of the merchant's id, and a pool in
\* the Map of a live service has its transaction on the chain.
Settled ==
  /\ \A m \in Merchants : merchants[m].status \in {"none", Verdict(m)}
  /\ Live => \A p \in Pools : Open(p) => pools[p].onChain

Inv ==
  /\ Shape /\ Settled
  /\ CommitmentsPermitted /\ OrdersSound

-----------------------------------------------------------------------------
(* Open pools and stored verdicts only gain. *)

PoolsKept ==
  \A p \in Pools : Open(p) =>
    /\ Open(p)'
    /\ pools'[p].roster = pools[p].roster
    /\ pools'[p].threshold = pools[p].threshold
    /\ pools[p].onChain => pools'[p].onChain

VerdictsKept ==
  \A m \in Merchants : merchants[m].status = "verified" => merchants'[m].status = "verified"

\* The profile bootstrapped for a merchant is a profile, with the verdict on it.
LEMMA BootstrappedVerdict ==
  ASSUME Inv, NEW m \in Merchants
  PROVE  Bootstrapped(m) \in Profiles /\ Bootstrapped(m).status = Verdict(m)
  BY DEF Inv, Shape, Settled, Bootstrapped, Profiles, Verdict

\* The creation of a pool replaces no pool, and touches nothing but pools.
LEMMA PoolStep ==
  ASSUME Inv, NEW p \in Pools, PoolCreation(p)
  PROVE  /\ PoolsKept
         /\ pools' \in [Pools -> PoolRecords]
         /\ Live => \A q \in Pools : Open(q)' => pools'[q].onChain
         /\ UNCHANGED <<merchants, commitments, orders>>
<1>1. pools \in [Pools -> PoolRecords]
  BY DEF Inv, Shape
<1>2. ASSUME NEW roster \in Rosters, NEW threshold \in Thresholds,
             CreatePool(p, roster, threshold)
      PROVE  /\ PoolsKept
             /\ pools' \in [Pools -> PoolRecords]
             /\ Live => \A q \in Pools : Open(q)' => pools'[q].onChain
             /\ UNCHANGED <<merchants, commitments, orders>>
  <2> DEFINE rec == [status |-> IF Live THEN "creating" ELSE "open", onChain |-> FALSE,
                     roster |-> roster, threshold |-> threshold]
  <2>1. rec \in PoolRecords
    BY DemandAssumption DEF PoolRecords
  <2>2. pools' = [pools EXCEPT ![p] = rec] /\ pools[p].status = "absent"
    BY <1>2 DEF CreatePool
  <2>3. Live => rec.status # "open"
    OBVIOUS
  <2> HIDE DEF rec
  <2>4. PoolsKept
    BY <1>1, <2>2 DEF PoolsKept, Open
  <2> QED BY <1>1, <1>2, <2>1, <2>2, <2>3, <2>4 DEF CreatePool, Inv, Settled, Open
<1>3. CASE PoolMined(p) \/ PoolOpened(p) \/ PoolFailed(p)
  <2>0. pools[p] \in PoolRecords
    BY <1>1
  <2>1. pools' \in [Pools -> PoolRecords]
    <3>1. CASE PoolMined(p)
      <4>1. [pools[p] EXCEPT !.onChain = TRUE] \in PoolRecords
        BY <2>0 DEF PoolRecords
      <4> QED BY <1>1, <3>1, <4>1 DEF PoolMined
    <3>2. CASE PoolOpened(p)
      <4>1. [pools[p] EXCEPT !.status = "open"] \in PoolRecords
        BY <2>0 DEF PoolRecords
      <4> QED BY <1>1, <3>2, <4>1 DEF PoolOpened
    <3>3. CASE PoolFailed(p)
      <4>1. [pools[p] EXCEPT !.status = "failed"] \in PoolRecords
        BY <2>0 DEF PoolRecords
      <4> QED BY <1>1, <3>3, <4>1 DEF PoolFailed
    <3> QED BY <1>3, <3>1, <3>2, <3>3
  <2>2. PoolsKept
    BY <1>1, <1>3 DEF PoolMined, PoolOpened, PoolFailed, PoolsKept, Open, PoolRecords
  <2>3. Live => \A q \in Pools : Open(q)' => pools'[q].onChain
    BY <1>1, <1>3 DEF PoolMined, PoolOpened, PoolFailed, Open, PoolRecords, Inv, Settled
  <2> QED BY <1>3, <2>1, <2>2, <2>3 DEF PoolMined, PoolOpened, PoolFailed
<1> QED BY <1>2, <1>3 DEF PoolCreation

\* Profiles change only towards the verdict of the merchant's id.
LEMMA ProfileStep ==
  ASSUME Inv,
         \A m \in Merchants : \/ merchants'[m] = merchants[m]
                              \/ merchants'[m].status = Verdict(m)
  PROVE  /\ VerdictsKept
         /\ \A m \in Merchants : merchants'[m].status \in {"none", Verdict(m)}
<1>1. \A m \in Merchants : merchants[m] \in Profiles /\ merchants[m].status \in {"none", Verdict(m)}
  BY DEF Inv, Shape, Settled
<1>2. VerdictsKept
  BY <1>1 DEF VerdictsKept
<1> QED BY <1>1, <1>2

-----------------------------------------------------------------------------
(* Sums over commitments that are still there. *)

\* The totals over commitments stay while those commitments do.
LEMMA TotalsKept ==
  ASSUME NEW ids, ids \subseteq DOMAIN commitments,
         \A c \in DOMAIN commitments : commitments'[c] = commitments[c]
  PROVE  /\ Quantity(ids)' = Quantity(ids)
         /\ Notional(ids)' = Notional(ids)
         /\ Retailers(ids)' = Retailers(ids)
<1>1. [c \in ids |-> commitments'[c].quantity] = [c \in ids |-> commitments[c].quantity]
  OBVIOUS
<1>2. [c \in ids |-> commitments'[c].quantity * commitments'[c].price]
        = [c \in ids |-> commitments[c].quantity * commitments[c].price]
  OBVIOUS
<1>3. {commitments'[c].merchant : c \in ids} = {commitments[c].merchant : c \in ids}
  OBVIOUS
<1> QED BY <1>1, <1>2, <1>3 DEF Quantity, Notional, Retailers

\* A step that keeps orders, and at most appends permitted commitments.
LEMMA ExtendStep ==
  ASSUME Inv, PoolsKept, VerdictsKept, Settled',
         pools' \in [Pools -> PoolRecords], merchants' \in [Merchants -> Profiles],
         commitments' \in Seq(CommitmentRecords), orders' = orders,
         Len(commitments') >= Len(commitments),
         \A i \in DOMAIN commitments : commitments'[i] = commitments[i],
         \A i \in DOMAIN commitments' \ DOMAIN commitments : \A c :
           c = commitments'[i] => Permitted(c)'
  PROVE  Inv'
<1>1. /\ commitments \in Seq(CommitmentRecords)
      /\ DOMAIN commitments = 1 .. Len(commitments) /\ Len(commitments) \in Nat
      /\ DOMAIN commitments' = 1 .. Len(commitments') /\ Len(commitments') \in Nat
      /\ DOMAIN commitments \subseteq DOMAIN commitments'
  BY DEF Inv, Shape
<1>2. Shape'
  BY DEF Inv, Shape
<1>3. CommitmentsPermitted'
  <2> SUFFICES ASSUME NEW i \in DOMAIN commitments', NEW c, c = commitments'[i]
               PROVE  Permitted(c)'
    BY DEF CommitmentsPermitted
  <2>1. CASE i \in DOMAIN commitments
    <3>1. c = commitments[i] /\ c \in CommitmentRecords /\ Permitted(c)
      BY <2>1, <1>1 DEF Inv, CommitmentsPermitted
    <3>2. c.pool \in Pools /\ c.merchant \in Merchants
      BY <3>1 DEF CommitmentRecords
    <3> QED BY <3>1, <3>2 DEF Permitted, PoolsKept, VerdictsKept
  <2> QED BY <2>1
<1>4. \A p : CommitmentsOf(p) \subseteq CommitmentsOf(p)'
             /\ CommitmentsOf(p)' \cap DOMAIN commitments = CommitmentsOf(p)
  BY <1>1 DEF CommitmentsOf
<1>5. OrdersSound'
  <2> SUFFICES ASSUME NEW i \in DOMAIN orders, NEW o, o = orders[i]
               PROVE  /\ o.ids # {} /\ o.ids \subseteq CommitmentsOf(o.pool)'
                      /\ o.quantity = Quantity(o.ids)'
                      /\ o.notional = ToFixed2(Notional(o.ids), 1)'
                      /\ o.retailers = Retailers(o.ids)'
                      /\ o.quantity >= pools'[o.pool].threshold
    BY DEF OrdersSound, CommitmentsOf
  <2>1. /\ o.ids # {} /\ o.ids \subseteq CommitmentsOf(o.pool)
        /\ o.quantity = Quantity(o.ids) /\ o.notional = ToFixed2(Notional(o.ids), 1)
        /\ o.retailers = Retailers(o.ids) /\ o.quantity >= pools[o.pool].threshold
        /\ o.pool \in Pools
    BY DEF Inv, OrdersSound, Shape, CommitmentsOf
  <2>2. PICK c \in o.ids : c \in DOMAIN commitments /\ commitments[c].pool = o.pool
    BY <2>1 DEF CommitmentsOf
  <2>3. Open(o.pool)
    BY <2>2 DEF Inv, CommitmentsPermitted, Permitted
  <2>4. pools'[o.pool].threshold = pools[o.pool].threshold
    BY <2>1, <2>3 DEF PoolsKept
  <2>5. PICK ids : ids = o.ids
    OBVIOUS
  <2>6. ids \subseteq DOMAIN commitments
    BY <2>1, <2>5 DEF CommitmentsOf
  <2>7. /\ Quantity(ids)' = Quantity(ids) /\ Notional(ids)' = Notional(ids)
        /\ Retailers(ids)' = Retailers(ids)
    BY <2>6, TotalsKept
  <2> QED BY <2>1, <2>4, <2>5, <2>7, <1>4
<1> QED BY <1>2, <1>3, <1>5 DEF Inv

-----------------------------------------------------------------------------
(* The handlers. *)

\* The creation of a pool keeps the invariant.
LEMMA PoolInv ==
  ASSUME Inv, NEW p \in Pools, PoolCreation(p)
  PROVE  Inv'
<1>1. /\ PoolsKept
      /\ pools' \in [Pools -> PoolRecords]
      /\ Live => \A q \in Pools : Open(q)' => pools'[q].onChain
      /\ UNCHANGED <<merchants, commitments, orders>>
  BY PoolStep
<1>2. Settled' /\ VerdictsKept
  BY <1>1 DEF Inv, Settled, VerdictsKept
<1>3. commitments' \in Seq(CommitmentRecords) /\ Len(commitments') >= Len(commitments)
  BY <1>1 DEF Inv, Shape
<1> QED BY <1>1, <1>2, <1>3, ExtendStep DEF Inv, Shape

\* A step that only stores verdicts.
LEMMA VerdictInv ==
  ASSUME Inv, NEW m \in Merchants, NEW profile \in Profiles,
         profile.status = Verdict(m) \/ profile = merchants[m],
         merchants' = [merchants EXCEPT ![m] = profile],
         UNCHANGED <<pools, commitments, orders>>
  PROVE  Inv'
<1>1. merchants \in [Merchants -> Profiles] /\ pools \in [Pools -> PoolRecords]
      /\ commitments \in Seq(CommitmentRecords)
  BY DEF Inv, Shape
<1>2. merchants' \in [Merchants -> Profiles]
  BY <1>1
<1>3. /\ VerdictsKept
      /\ \A n \in Merchants : merchants'[n].status \in {"none", Verdict(n)}
  BY <1>1, ProfileStep
<1>4. Settled' /\ PoolsKept
  BY <1>3 DEF Inv, Settled, PoolsKept, Open
<1>5. Len(commitments') >= Len(commitments)
  BY <1>1
<1> QED BY <1>1, <1>2, <1>4, <1>5, <1>3, ExtendStep

\* A step that makes profiles up where there are none and appends
\* commitments that the checks of commitOrder accept.
LEMMA CommitInv ==
  ASSUME Inv, NEW p \in Pools, Open(p), NEW new \in Seq(CommitmentRecords),
         \A i \in DOMAIN new : new[i].pool = p /\ Acceptable(p, new[i].merchant)
                               /\ merchants'[new[i].merchant] = Bootstrapped(new[i].merchant),
         merchants' \in [Merchants -> Profiles],
         \A m \in Merchants : merchants'[m] = merchants[m] \/ merchants'[m] = Bootstrapped(m),
         commitments' = commitments \o new,
         UNCHANGED <<pools, orders>>
  PROVE  Inv'
<1>1. pools \in [Pools -> PoolRecords] /\ commitments \in Seq(CommitmentRecords)
  BY DEF Inv, Shape
<1>2. \A m \in Merchants : Bootstrapped(m) \in Profiles /\ Bootstrapped(m).status = Verdict(m)
  BY BootstrappedVerdict
<1>3. /\ VerdictsKept
      /\ \A n \in Merchants : merchants'[n].status \in {"none", Verdict(n)}
  BY <1>2, ProfileStep
<1>4. Settled' /\ PoolsKept
  BY <1>3 DEF Inv, Settled, PoolsKept, Open
<1>5. /\ commitments' \in Seq(CommitmentRecords)
      /\ Len(commitments') >= Len(commitments)
      /\ \A i \in DOMAIN commitments : commitments'[i] = commitments[i]
      /\ \A i \in DOMAIN commitments' \ DOMAIN commitments :
           \E j \in DOMAIN new : commitments'[i] = new[j]
  <2>1. /\ commitments' \in Seq(CommitmentRecords)
        /\ Len(commitments') = Len(commitments) + Len(new)
        /\ Len(commitments) \in Nat /\ Len(new) \in Nat
        /\ DOMAIN commitments = 1 .. Len(commitments) /\ DOMAIN new = 1 .. Len(new)
        /\ DOMAIN commitments' = 1 .. Len(commitments')
    BY <1>1
  <2>2. \A i \in DOMAIN commitments : commitments'[i] = commitments[i]
    BY <1>1, <2>1
  <2>3. ASSUME NEW i \in DOMAIN commitments' \ DOMAIN commitments
        PROVE  \E j \in DOMAIN new : commitments'[i] = new[j]
    <3>1. i - Len(commitments) \in DOMAIN new
      BY <2>1
    <3>2. commitments'[i] = new[i - Len(commitments)]
      BY <1>1, <2>1
    <3> QED BY <3>1, <3>2
  <2> QED BY <2>1, <2>2, <2>3
<1>6. ASSUME NEW i \in DOMAIN commitments' \ DOMAIN commitments, NEW c, c = commitments'[i]
      PROVE  Permitted(c)'
  <2>1. PICK j \in DOMAIN new : c = new[j]
    BY <1>5, <1>6
  <2>2. /\ c.pool = p /\ Acceptable(p, c.merchant)
        /\ merchants'[c.merchant] = Bootstrapped(c.merchant)
    BY <2>1
  <2>3. Live => pools[p].onChain
    BY DEF Inv, Settled
  <2> QED BY <2>2, <2>3 DEF Permitted, Acceptable, Open
<1> QED BY <1>1, <1>3, <1>4, <1>5, <1>6, ExtendStep

\* The aggregation of a pool keeps the invariant.
LEMMA AggregateInv ==
  ASSUME Inv, NEW p \in Pools, Aggregate(p)
  PROVE  Inv'
<1>1. PICK ids, new : ids = CommitmentsOf(p) /\ new = OrderOf(p, ids)
  OBVIOUS
<1>2. PICK S : orders \in Seq(S)
  BY DEF Inv, Shape
<1>3. /\ orders' = Append(orders, new) /\ UNCHANGED <<pools, merchants, commitments>>
      /\ ids # {} /\ Open(p) /\ Quantity(ids) >= pools[p].threshold
  BY <1>1 DEF Aggregate, CanAggregate
<1>4. /\ new.pool = p /\ new.ids = ids /\ new.quantity = Quantity(ids)
      /\ new.notional = ToFixed2(Notional(ids), 1) /\ new.retailers = Retailers(ids)
  BY <1>1 DEF OrderOf
<1>5. orders \in Seq(S \cup {new}) /\ orders' \in Seq(S \cup {new})
  BY <1>2, <1>3
<1>6. /\ DOMAIN orders = 1 .. Len(orders) /\ Len(orders) \in Nat
      /\ DOMAIN orders' = 1 .. (Len(orders) + 1)
      /\ \A i \in DOMAIN orders : orders'[i] = orders[i]
      /\ orders'[Len(orders) + 1] = new
  BY <1>3, <1>5
<1>7. Shape'
  BY <1>3, <1>4, <1>5, <1>6 DEF Inv, Shape
<1>8. Settled' /\ CommitmentsPermitted'
  BY <1>3 DEF Inv, Settled, CommitmentsPermitted, Permitted, Open
<1>9. /\ \A q : CommitmentsOf(q)' = CommitmentsOf(q)
      /\ \A x : /\ Quantity(x)' = Quantity(x) /\ Notional(x)' = Notional(x)
                /\ Retailers(x)' = Retailers(x)
  BY <1>3 DEF CommitmentsOf, Quantity, Notional, Retailers
<1>10. OrdersSound'
  <2> SUFFICES ASSUME NEW i \in DOMAIN orders', NEW o, o = orders'[i]
               PROVE  /\ o.ids # {} /\ o.ids \subseteq CommitmentsOf(o.pool)'
                      /\ o.quantity = Quantity(o.ids)'
                      /\ o.notional = ToFixed2(Notional(o.ids), 1)'
                      /\ o.retailers = Retailers(o.ids)'
                      /\ o.quantity >= pools'[o.pool].threshold
    BY DEF OrdersSound, CommitmentsOf
  <2>1. CASE i \in DOMAIN orders
    <3>1. o = orders[i]
      BY <2>1, <1>6
    <3> QED BY <2>1, <3>1, <1>3, <1>9 DEF Inv, OrdersSound, CommitmentsOf
  <2>2. CASE i \notin DOMAIN orders
    <3>1. o = new
      BY <2>2, <1>6
    <3> QED BY <3>1, <1>1, <1>3, <1>4, <1>9
  <2> QED BY <2>1, <2>2
<1> QED BY <1>7, <1>8, <1>10 DEF Inv

\* The seeding of demo demand keeps the invariant.
LEMMA SeedInv ==
  ASSUME Inv, NEW p \in Pools, NEW ids \in SeedLists,
         NEW quantity \in Quantities, NEW price \in Prices,
         Seed(p, ids, quantity, price)
  PROVE  Inv'
<1>1. PICK list : list = SeedList(p, ids)
  OBVIOUS
<1>2. list \in Seq(Merchants)
  BY <1>1, DemandAssumption DEF Inv, Shape, PoolRecords, SeedList
<1>3. \E accepted \in 0 .. Len(list) : Seeded(p, list, quantity, price, accepted)
  BY <1>1 DEF Seed
<1>4. PICK accepted \in 0 .. Len(list) : Seeded(p, list, quantity, price, accepted)
  BY <1>3
<1>5. /\ \A i \in 1 .. accepted : Acceptable(p, list[i])
      /\ merchants' = [m \in Merchants |->
           IF \E i \in DOMAIN list : i <= accepted + 1 /\ list[i] = m
           THEN Bootstrapped(m) ELSE merchants[m]]
      /\ commitments' = commitments \o
           [i \in 1 .. accepted |-> [pool |-> p, merchant |-> list[i],
                                     quantity |-> quantity, price |-> price]]
  BY <1>4 DEF Seeded
<1>6. Open(p) /\ UNCHANGED <<pools, orders>>
  BY DEF Seed
<1>7. PICK new : new = [i \in 1 .. accepted |->
                          [pool |-> p, merchant |-> list[i],
                           quantity |-> quantity, price |-> price]]
  OBVIOUS
<1>8. accepted \in Nat /\ accepted <= Len(list) /\ Len(list) \in Nat
      /\ DOMAIN list = 1 .. Len(list)
  BY <1>2
<1>9. \A i \in 1 .. accepted : i \in DOMAIN list /\ i <= accepted + 1 /\ list[i] \in Merchants
  BY <1>2, <1>8
<1>10. new \in Seq(CommitmentRecords)
  BY <1>7, <1>8, <1>9 DEF CommitmentRecords
<1>11. \A i \in DOMAIN new : /\ new[i].pool = p
                            /\ Acceptable(p, new[i].merchant)
                            /\ merchants'[new[i].merchant] = Bootstrapped(new[i].merchant)
  <2> SUFFICES ASSUME NEW i \in 1 .. accepted
               PROVE  /\ new[i].pool = p
                      /\ Acceptable(p, new[i].merchant)
                      /\ merchants'[new[i].merchant] = Bootstrapped(new[i].merchant)
    BY <1>7
  <2>1. new[i].pool = p /\ new[i].merchant = list[i]
    BY <1>7
  <2>2. merchants'[list[i]] = Bootstrapped(list[i])
    BY <1>5, <1>9
  <2> QED BY <2>1, <2>2, <1>5
<1>12. /\ merchants' \in [Merchants -> Profiles]
       /\ \A m \in Merchants : merchants'[m] = merchants[m] \/ merchants'[m] = Bootstrapped(m)
  BY <1>5, BootstrappedVerdict DEF Inv, Shape
<1>13. commitments' = commitments \o new
  BY <1>5, <1>7
<1> QED BY <1>6, <1>10, <1>11, <1>12, <1>13, CommitInv

\* The empty store satisfies the invariant.
LEMMA InitInv == Init => Inv
<1> SUFFICES ASSUME Init PROVE Inv
  OBVIOUS
<1>1. Shape
  <2>1. [status |-> "absent", onChain |-> FALSE, roster |-> <<>>, threshold |-> 1] \in PoolRecords
    BY DEF PoolRecords
  <2>2. orders \in Seq({})
    BY DEF Init, NoPools, NoMerchants
  <2> QED BY <2>1, <2>2 DEF Init, NoPools, NoMerchants, Shape, Profiles
<1>2. Settled
  BY DEF Init, NoPools, NoMerchants, Settled, Open
<1>3. CommitmentsPermitted /\ OrdersSound
  BY DEF Init, NoPools, NoMerchants, CommitmentsPermitted, OrdersSound
<1> QED BY <1>1, <1>2, <1>3 DEF Inv

\* Every step of the demand, and every stutter, keeps the invariant.
LEMMA NextInv == Inv /\ [Next]_vars => Inv'
<1> SUFFICES ASSUME Inv, [Next]_vars PROVE Inv'
  OBVIOUS
<1>1. ASSUME NEW m \in Merchants, VerifyMerchant(m)
      PROVE  Inv'
  <2>1. [status |-> Verdict(m), source |-> "explicit"] \in Profiles
    BY DEF Profiles, Verdict
  <2>2. merchants' = [merchants EXCEPT ![m] = [status |-> Verdict(m), source |-> "explicit"]]
        /\ UNCHANGED <<pools, commitments, orders>>
    BY <1>1 DEF VerifyMerchant
  <2> QED BY <2>1, <2>2, VerdictInv
<1>2. ASSUME NEW p \in Pools, NEW m \in Merchants,
             NEW quantity \in Quantities, NEW price \in Prices,
             CommitOrder(p, m, quantity, price)
      PROVE  Inv'
  <2>1. PICK new : new = <<[pool |-> p, merchant |-> m,
                            quantity |-> quantity, price |-> price]>>
    OBVIOUS
  <2>2. new \in Seq(CommitmentRecords) /\ DOMAIN new = {1} /\ new[1].pool = p /\ new[1].merchant = m
    BY <2>1 DEF CommitmentRecords
  <2>3. Open(p) /\ Acceptable(p, m) /\ UNCHANGED <<pools, orders>>
    BY <1>2 DEF CommitOrder
  <2>4. merchants \in [Merchants -> Profiles] /\ commitments \in Seq(CommitmentRecords)
    BY DEF Inv, Shape
  <2>5. commitments' = commitments \o new
    BY <1>2, <2>1, <2>4 DEF CommitOrder, CommitmentRecords
  <2>6. /\ merchants' \in [Merchants -> Profiles]
        /\ merchants'[m] = Bootstrapped(m)
        /\ \A n \in Merchants : merchants'[n] = merchants[n] \/ merchants'[n] = Bootstrapped(n)
    BY <1>2, <2>4, BootstrappedVerdict DEF CommitOrder
  <2>7. \A i \in DOMAIN new : /\ new[i].pool = p
                              /\ Acceptable(p, new[i].merchant)
                              /\ merchants'[new[i].merchant] = Bootstrapped(new[i].merchant)
    BY <2>2, <2>3, <2>6
  <2>8. new \in Seq(CommitmentRecords)
    BY <2>2
  <2> QED BY <2>3, <2>5, <2>6, <2>7, <2>8, CommitInv
<1>3. ASSUME NEW p \in Pools, NEW m \in Merchants, RefuseCommitment(p, m)
      PROVE  Inv'
  BY <1>3, BootstrappedVerdict, VerdictInv DEF RefuseCommitment
<1>4. CASE UNCHANGED vars
  <2>1. PoolsKept /\ VerdictsKept /\ Settled'
    BY <1>4 DEF vars, Inv, Settled, PoolsKept, VerdictsKept, Open
  <2>2. Len(commitments') >= Len(commitments)
    BY <1>4 DEF vars, Inv, Shape
  <2> QED BY <1>4, <2>1, <2>2, ExtendStep DEF vars, Inv, Shape
<1> QED
  BY <1>1, <1>2, <1>3, <1>4, PoolInv, SeedInv, AggregateInv DEF Next, Commitment

\* The invariant holds in every reachable state.
LEMMA AlwaysInv == Spec => []Inv
  BY InitInv, NextInv, PTL DEF Spec

\* No interleaving of pool creations, verdicts, commitments and half-failed
\* seeds lets in a commitment that commitOrder should have refused.
THEOREM CommitmentsAlwaysPermitted == Spec => []CommitmentsPermitted
  BY AlwaysInv, PTL DEF Inv

\* An order's totals stay those of its commitments and meet the threshold.
THEOREM OrdersAlwaysSound == Spec => []OrdersSound
  BY AlwaysInv, PTL DEF Inv

\* A stored profile is only ever replaced by an explicit one with the same
\* verdict.
LEMMA StepProfiles ==
  ASSUME Inv, Next, NEW m \in Merchants, merchants[m].status # "none"
  PROVE  \/ merchants'[m] = merchants[m]
         \/ merchants'[m] = [status |-> merchants[m].status, source |-> "explicit"]
<1>1. merchants \in [Merchants -> Profiles] /\ merchants[m].status = Verdict(m)
  BY DEF Inv, Shape, Settled
<1>2. Bootstrapped(m) = merchants[m]
  BY DEF Bootstrapped
<1>3. ASSUME NEW n \in Merchants, VerifyMerchant(n)
      PROVE  \/ merchants'[m] = merchants[m]
             \/ merchants'[m] = [status |-> merchants[m].status, source |-> "explicit"]
  BY <1>1, <1>3 DEF VerifyMerchant
<1>4. ASSUME NEW p \in Pools, PoolCreation(p) \/ Aggregate(p)
      PROVE  merchants'[m] = merchants[m]
  BY <1>4, PoolStep DEF Aggregate
<1>5. ASSUME NEW p \in Pools, NEW n \in Merchants,
             merchants' = [merchants EXCEPT ![n] = Bootstrapped(n)]
      PROVE  merchants'[m] = merchants[m]
  BY <1>1, <1>2, <1>5
<1>6. ASSUME NEW p \in Pools, NEW ids \in SeedLists,
             NEW quantity \in Quantities, NEW price \in Prices,
             Seed(p, ids, quantity, price)
      PROVE  merchants'[m] = merchants[m]
  <2>1. PICK list, accepted : Seeded(p, list, quantity, price, accepted)
    BY <1>6 DEF Seed
  <2> QED BY <2>1, <1>2 DEF Seeded
<1>7. ASSUME NEW p \in Pools, Commitment(p)
      PROVE  merchants'[m] = merchants[m]
  BY <1>5, <1>6, <1>7 DEF Commitment, CommitOrder, RefuseCommitment
<1> QED BY <1>3, <1>4, <1>7 DEF Next

\* A verdict stands, and a commitment never displaces a profile that was
\* asked for.
THEOREM ProfilesAlwaysStable == Spec => ProfilesStable
<1>1. ASSUME Inv, Next, NEW m \in Merchants, merchants[m].status # "none"
      PROVE  /\ merchants'[m].status = merchants[m].status
             /\ merchants[m].source = "explicit" => merchants'[m].source = "explicit"
  <2>1. \/ merchants'[m] = merchants[m]
        \/ merchants'[m] = [status |-> merchants[m].status, source |-> "explicit"]
    BY <1>1, StepProfiles
  <2> QED BY <2>1
<1>2. Inv /\ [Next]_vars =>
        [\A m \in Merchants : merchants[m].status # "none" =>
           /\ merchants'[m].status = merchants[m].status
           /\ merchants[m].source = "explicit" => merchants'[m].source = "explicit"]_vars
  BY <1>1
<1> QED BY <1>2, AlwaysInv, PTL DEF Spec, ProfilesStable

-----------------------------------------------------------------------------
(* What the sums are. *)

\* Sum folds over the domain in the order in which CHOOSE takes elements out.
LEMMA SumIsSum ==
  ASSUME NEW S, IsFiniteSet(S), NEW f, DOMAIN f = S, \A x \in S : f[x] \in Int
  PROVE  Sum(f) = SumOver(S, f)
<1> DEFINE pick == [T \in SUBSET S |-> CHOOSE x \in T : TRUE]
<1>1. \A T \in SUBSET S : T # {} => pick[T] \in T
  OBVIOUS

<1> DEFINE Code(h) == h = [T \in SUBSET S |-> IF T = {} THEN 0
                              ELSE f[CHOOSE x \in T : TRUE] + h[T \ {CHOOSE x \in T : TRUE}]]
<1>2. Sum(f) = (CHOOSE h : Code(h))[S]
  BY DEF Sum, FoldFunction, FoldFunctionOnSet, MapThenFoldSet
<1>3. ASSUME NEW h PROVE Code(h) <=> Folds(S, f, pick, h)
  <2>1. \A T \in SUBSET S : 
    (IF T = {} THEN 0 ELSE f[CHOOSE x \in T : TRUE] + h[T \ {CHOOSE x \in T : TRUE}])
      = (IF T = {} THEN 0 ELSE f[pick[T]] + h[T \ {pick[T]}])
    OBVIOUS
  <2>2. ASSUME Code(h) PROVE Folds(S, f, pick, h)
    <3>1. /\ DOMAIN h = SUBSET S /\ h = [T \in DOMAIN h |-> h[T]]
          /\ \A T \in SUBSET S : h[T] = IF T = {} THEN 0
                              ELSE f[CHOOSE x \in T : TRUE] + h[T \ {CHOOSE x \in T : TRUE}]
      BY <2>2
    <3>2. ASSUME NEW T \in SUBSET S
          PROVE  h[T] = IF T = {} THEN 0 ELSE f[pick[T]] + h[T \ {pick[T]}]
      <4>1. h[T] = IF T = {} THEN 0
                              ELSE f[CHOOSE x \in T : TRUE] + h[T \ {CHOOSE x \in T : TRUE}]
        BY <3>1
      <4>2. pick[T] = CHOOSE x \in T : TRUE
        OBVIOUS
      <4> HIDE DEF pick
      <4> QED BY <4>1, <4>2
    <3> HIDE DEF pick, Code
    <3> QED BY <3>1, <3>2 DEF Folds
  <2>3. ASSUME Folds(S, f, pick, h) PROVE Code(h)
    BY <2>1, <2>3 DEF Folds
  <2> QED BY <2>2, <2>3
<1> HIDE DEF pick, Code
<1>4. \E h : Folds(S, f, pick, h)
  BY <1>1, FoldIsSum
<1>5. Code(CHOOSE h : Code(h))
  BY <1>3, <1>4
<1>6. \A h : Folds(S, f, pick, h) => h[S] = SumOver(S, f)
  BY <1>1, FoldIsSum
<1> QED BY <1>2, <1>3, <1>5, <1>6

\* The sum over some of the commitments, as one over all of them.
LEMMA TotalsAreSums ==
  ASSUME Inv, NEW q, q = [c \in DOMAIN commitments |-> commitments[c].quantity],
         NEW v, v = [c \in DOMAIN commitments |-> commitments[c].quantity * commitments[c].price]
  PROVE  /\ IsFiniteSet(DOMAIN commitments)
         /\ \A c \in DOMAIN commitments :
              /\ commitments[c] \in CommitmentRecords
              /\ commitments[c].quantity \in Int /\ commitments[c].price \in Int
              /\ q[c] \in Int /\ v[c] \in Int
         /\ \A ids \in SUBSET DOMAIN commitments :
              /\ IsFiniteSet(ids)
              /\ Quantity(ids) = SumOver(ids, q) /\ Notional(ids) = SumOver(ids, v)
              /\ Quantity(ids) \in Int /\ Notional(ids) \in Int
<1>1. commitments \in Seq(CommitmentRecords)
  BY DEF Inv, Shape
<1>2. IsFiniteSet(DOMAIN commitments)
  BY <1>1, FS_Interval
<1>3. ASSUME NEW c \in DOMAIN commitments
      PROVE  /\ commitments[c] \in CommitmentRecords
             /\ commitments[c].quantity \in Int /\ commitments[c].price \in Int
             /\ q[c] \in Int /\ v[c] \in Int
  <2>1. commitments[c] \in CommitmentRecords
    BY <1>1
  <2>2. commitments[c].quantity \in Int /\ commitments[c].price \in Int
    BY <2>1, DemandAssumption DEF CommitmentRecords
  <2> QED BY <2>1, <2>2
<1>4. ASSUME NEW ids \in SUBSET DOMAIN commitments
      PROVE  /\ IsFiniteSet(ids)
             /\ Quantity(ids) = SumOver(ids, q) /\ Notional(ids) = SumOver(ids, v)
             /\ Quantity(ids) \in Int /\ Notional(ids) \in Int
  <2> DEFINE qi == [c \in ids |-> commitments[c].quantity]
             vi == [c \in ids |-> commitments[c].quantity * commitments[c].price]
  <2>1. IsFiniteSet(ids)
    BY <1>2, FS_Subset
  <2>2. \A c \in ids : qi[c] \in Int /\ vi[c] \in Int /\ q[c] = qi[c] /\ v[c] = vi[c]
    BY <1>3
  <2>3. DOMAIN qi = ids /\ DOMAIN vi = ids /\ Quantity(ids) = Sum(qi) /\ Notional(ids) = Sum(vi)
    BY DEF Quantity, Notional
  <2> HIDE DEF qi, vi
  <2>4. Sum(qi) = SumOver(ids, qi) /\ Sum(vi) = SumOver(ids, vi)
    BY <2>1, <2>2, <2>3, SumIsSum
  <2>5. SumOver(ids, qi) = SumOver(ids, q) /\ SumOver(ids, vi) = SumOver(ids, v)
    BY <2>1, <2>2, SumCongruent
  <2>6. SumOver(ids, qi) \in Int /\ SumOver(ids, vi) \in Int
    BY <2>1, <2>2, SumRemove
  <2> QED BY <2>1, <2>3, <2>4, <2>5, <2>6
<1> QED BY <1>2, <1>3, <1>4

-----------------------------------------------------------------------------
(* What a step does to pools, commitments and orders. *)

\* A step only adds: pools and commitments stay as they were, and orders change
\* by aggregation alone.
LEMMA StepGrows ==
  ASSUME Inv, Inv', [Next]_vars
  PROVE  /\ PoolsKept
         /\ DOMAIN commitments \subseteq DOMAIN commitments'
         /\ \A c \in DOMAIN commitments : commitments'[c] = commitments[c]
         /\ \/ orders' = orders
            \/ \E p \in Pools : Aggregate(p)
<1> DEFINE Grows == /\ PoolsKept
                    /\ DOMAIN commitments \subseteq DOMAIN commitments'
                    /\ \A c \in DOMAIN commitments : commitments'[c] = commitments[c]
<1>1. commitments \in Seq(CommitmentRecords) /\ pools \in [Pools -> PoolRecords]
  BY DEF Inv, Shape
<1>2. ASSUME UNCHANGED <<pools, commitments>>
      PROVE  Grows
  BY <1>2 DEF PoolsKept, Open
<1>3. ASSUME NEW n, NEW new \in [1 .. n -> CommitmentRecords], n \in Nat,
             pools' = pools, commitments' = commitments \o new
      PROVE  Grows
  <2>1. new \in Seq(CommitmentRecords)
    BY <1>3
  <2> QED BY <1>1, <1>3, <2>1 DEF PoolsKept, Open
<1>4. ASSUME NEW p \in Pools, NEW ids \in SeedLists,
             NEW quantity \in Quantities, NEW price \in Prices,
             Seed(p, ids, quantity, price)
      PROVE  Grows
  <2> DEFINE list == SeedList(p, ids)
  <2>1. list \in Seq(Merchants)
    BY DemandAssumption, <1>1 DEF PoolRecords, SeedList
  <2>2. PICK n \in 0 .. Len(list) : Seeded(p, list, quantity, price, n)
    BY <1>4 DEF Seed
  <2>3. n \in Nat /\ \A i \in 1 .. n : list[i] \in Merchants
    BY <2>1
  <2> DEFINE new == [i \in 1 .. n |-> [pool |-> p, merchant |-> list[i],
                                       quantity |-> quantity, price |-> price]]
  <2>4. new \in [1 .. n -> CommitmentRecords]
    BY <2>3 DEF CommitmentRecords
  <2>5. pools' = pools /\ commitments' = commitments \o new
    BY <1>4, <2>2 DEF Seed, Seeded
  <2> HIDE DEF new
  <2> QED BY <2>3, <2>4, <2>5, <1>3
<1>5. ASSUME NEW p \in Pools, NEW m \in Merchants,
             NEW quantity \in Quantities, NEW price \in Prices,
             CommitOrder(p, m, quantity, price)
      PROVE  Grows
  <2> DEFINE item == [pool |-> p, merchant |-> m, quantity |-> quantity, price |-> price]
  <2>1. item \in CommitmentRecords
    BY DEF CommitmentRecords
  <2>2. pools' = pools /\ commitments' = Append(commitments, item)
    BY <1>5 DEF CommitOrder
  <2> HIDE DEF item
  <2> QED BY <1>1, <2>1, <2>2 DEF PoolsKept, Open
<1>6. ASSUME NEW p \in Pools, PoolCreation(p)
      PROVE  Grows /\ orders' = orders
  BY <1>6, PoolStep
<1>7. ASSUME NEW p \in Pools, Commitment(p)
      PROVE  Grows /\ orders' = orders
  <2>1. CASE \E m \in Merchants : RefuseCommitment(p, m)
    BY <2>1, <1>2 DEF RefuseCommitment
  <2> QED BY <2>1, <1>4, <1>5, <1>7 DEF Commitment, CommitOrder, Seed
<1>8. ASSUME NEW p \in Pools, Aggregate(p)
      PROVE  Grows
  BY <1>8, <1>2 DEF Aggregate
<1>9. ASSUME NEW m \in Merchants, VerifyMerchant(m)
      PROVE  Grows /\ orders' = orders
  BY <1>9, <1>2 DEF VerifyMerchant
<1>10. ASSUME UNCHANGED vars
       PROVE  Grows /\ orders' = orders
  BY <1>10, <1>2 DEF vars
<1> HIDE DEF Grows
<1>11. Grows /\ (orders' = orders \/ \E p \in Pools : Aggregate(p))
  BY <1>6, <1>7, <1>8, <1>9, <1>10 DEF Next
<1> QED BY <1>11 DEF Grows

-----------------------------------------------------------------------------
(* An order is to this day what aggregateDemand would make of its            *)
(* commitments: the type of its totals and its price follow.                 *)

Recomputed ==
  \A i \in DOMAIN orders : orders[i] = OrderOf(orders[i].pool, orders[i].ids)

\* What a pool's order would be stays while its commitments do.
LEMMA OrderOfKept ==
  ASSUME NEW p, NEW ids, ids \subseteq DOMAIN commitments,
         \A c \in DOMAIN commitments : commitments'[c] = commitments[c]
  PROVE  OrderOf(p, ids)' = OrderOf(p, ids)
<1>1. /\ Quantity(ids)' = Quantity(ids) /\ Notional(ids)' = Notional(ids)
      /\ Retailers(ids)' = Retailers(ids)
  BY TotalsKept
<1> QED BY <1>1 DEF OrderOf, UnitPrices

\* Every order goes on being what its own commitments add up to.
LEMMA RecomputedStep ==
  ASSUME Inv, Inv', Recomputed, [Next]_vars
  PROVE  Recomputed'
<1>1. \A c \in DOMAIN commitments : commitments'[c] = commitments[c]
  BY StepGrows
<1>2. ASSUME NEW i \in DOMAIN orders, NEW p, NEW ids,
             p = orders[i].pool, ids = orders[i].ids
      PROVE  orders[i] = OrderOf(p, ids)'
  <2>1. ids \subseteq DOMAIN commitments
    BY <1>2 DEF Inv, OrdersSound
  <2>2. OrderOf(p, ids)' = OrderOf(p, ids)
    BY <1>1, <2>1, OrderOfKept
  <2> QED BY <1>2, <2>2 DEF Recomputed
<1>3. CASE orders' = orders
  <2> SUFFICES ASSUME NEW i \in DOMAIN orders, NEW p, NEW ids,
                      p = orders[i].pool, ids = orders[i].ids
               PROVE  orders[i] = OrderOf(p, ids)'
    BY <1>3 DEF Recomputed
  <2> QED BY <1>2
<1>4. ASSUME NEW p \in Pools, Aggregate(p)
      PROVE  Recomputed'
  <2>1. PICK ids, new : ids = CommitmentsOf(p) /\ new = OrderOf(p, ids)
    OBVIOUS
  <2>2. orders' = Append(orders, new) /\ commitments' = commitments
    BY <1>4, <2>1 DEF Aggregate
  <2>3. new.pool = p /\ new.ids = ids
    BY <2>1 DEF OrderOf
  <2>4. PICK S : orders \in Seq(S)
    BY DEF Inv, Shape
  <2>5. orders \in Seq(S \cup {new})
    BY <2>4
  <2>6. \A i \in DOMAIN orders' : (i \in DOMAIN orders /\ orders'[i] = orders[i]) \/ orders'[i] = new
    BY <2>2, <2>5
  <2>7. OrderOf(p, ids)' = new
    BY <2>1, <2>2 DEF OrderOf, Quantity, Notional, Retailers, UnitPrices
  <2> SUFFICES ASSUME NEW i \in DOMAIN orders', NEW q, NEW x,
                      q = orders'[i].pool, x = orders'[i].ids
               PROVE  orders'[i] = OrderOf(q, x)'
    BY DEF Recomputed
  <2>8. CASE i \in DOMAIN orders /\ orders'[i] = orders[i]
    BY <2>8, <1>2
  <2>9. CASE orders'[i] = new
    BY <2>9, <2>3, <2>7
  <2> QED BY <2>6, <2>8, <2>9
<1> QED BY <1>3, <1>4, StepGrows

\* Every order is what its own commitments add up to, in every reachable state.
LEMMA AlwaysRecomputed == Spec => []Recomputed
<1>1. Init => Recomputed
  BY DEF Init, Recomputed
<1>2. Inv /\ Inv' /\ Recomputed /\ [Next]_vars => Recomputed'
  BY RecomputedStep
<1> QED BY <1>1, <1>2, AlwaysInv, PTL DEF Spec

\* The handlers keep every Map well formed, the computed totals of orders
\* included.
THEOREM TypeCorrect == Spec => []TypeOK
<1>1. ASSUME Inv, Recomputed
      PROVE  TypeOK
  <2>1. ASSUME NEW i \in DOMAIN orders
        PROVE  orders[i] \in OrderRecords
    <3>1. PICK p, ids : p = orders[i].pool /\ ids = orders[i].ids
      OBVIOUS
    <3>2. orders[i] = OrderOf(p, ids) /\ p \in Pools /\ ids \in SUBSET DOMAIN commitments
      BY <1>1, <3>1 DEF Recomputed, Inv, Shape, OrdersSound
    <3>3. DOMAIN commitments = 1 .. Len(commitments)
      BY <1>1 DEF Inv, Shape
    <3>4. Quantity(ids) \in Int /\ IsFiniteSet(ids)
      BY <1>1, <3>2, TotalsAreSums
    <3>5. Retailers(ids) \in Nat
      <4> DEFINE image == {commitments[c].merchant : c \in ids}
                 f == [c \in ids |-> commitments[c].merchant]
      <4>1. f \in Surjection(ids, image)
        BY DEF Surjection
      <4>2. IsFiniteSet(image)
        BY <4>1, <3>4, FS_Surjection
      <4> HIDE DEF image
      <4>3. Cardinality(image) \in Nat
        BY <4>2, FS_CardinalityType
      <4> QED BY <4>3 DEF image, Retailers
    <3>6. \A n, d : ToFixed2(n, d) \in SUBSET Int
      BY DEF ToFixed2
    <3> QED BY <3>2, <3>3, <3>4, <3>5, <3>6 DEF OrderOf, OrderRecords, UnitPrices
  <2>2. orders \in Seq(OrderRecords)
    <3>1. PICK S : orders \in Seq(S)
      BY <1>1 DEF Inv, Shape
    <3> HIDE DEF OrderRecords
    <3> QED BY <2>1, <3>1
  <2> QED BY <1>1, <2>2 DEF Inv, Shape, TypeOK
<1> QED BY <1>1, AlwaysInv, AlwaysRecomputed, PTL

-----------------------------------------------------------------------------
(* Prices. *)

\* A quotient rounds to some number of cents, and to none that is more than
\* half a cent away.
LEMMA Rounding ==
  ASSUME NEW n \in Int, NEW d \in Nat \ {0}
  PROVE  /\ ToFixed2(n, d) # {}
         /\ \A c \in ToFixed2(n, d) :
              c \in Int /\ 10 * (d * c) - n <= 5 * d /\ n - 10 * (d * c) <= 5 * d
<1>1. PICK c \in Int : 10 * (d * c) <= n + 5 * d /\ n + 5 * d < 10 * (d * c) + 10 * d
  <2> DEFINE m == 10 * d
             a == n + 5 * d
             c == a \div m
             r == a % m
  <2>1. m \in Nat \ {0} /\ a \in Int
    OBVIOUS
  <2> HIDE DEF m, a
  <2>2. c \in Int /\ r \in 0 .. m - 1 /\ a = m * c + r
    BY <2>1
  <2> HIDE DEF c, r
  <2>3. m * c = 10 * (d * c) /\ d * c \in Int
    BY <2>2 DEF m
  <2> QED BY <2>1, <2>2, <2>3 DEF m, a
<1>2. c \in -Abs(n) .. Abs(n)
  <2>1. CASE n >= 0
    <3>1. c >= 0
      <4> SUFFICES ASSUME c <= -1 PROVE FALSE
        OBVIOUS
      <4>1. d * c <= d * (-1)
        OBVIOUS
      <4> QED BY <4>1, <1>1, <2>1
    <3>2. c <= n
      <4> SUFFICES ASSUME c >= n + 1 PROVE FALSE
        OBVIOUS
      <4>1. d * c >= d * (n + 1) /\ d * (n + 1) = d * n + d /\ d * n >= n /\ d * n \in Int
        BY <2>1
      <4> QED BY <4>1, <1>1, <2>1
    <3> QED BY <2>1, <3>1, <3>2 DEF Abs
  <2>2. CASE n < 0
    <3>1. c <= 0
      <4> SUFFICES ASSUME c >= 1 PROVE FALSE
        OBVIOUS
      <4>1. d * c >= d
        OBVIOUS
      <4> QED BY <4>1, <1>1, <2>2
    <3>2. c >= n
      <4> SUFFICES ASSUME c <= n - 1 PROVE FALSE
        OBVIOUS
      <4>1. d * c <= d * (n - 1) /\ d * (n - 1) = d * n - d /\ d * n <= n /\ d * n \in Int
        BY <2>2
      <4> QED BY <4>1, <1>1, <2>2
    <3> QED BY <2>2, <3>1, <3>2 DEF Abs
  <2> QED BY <2>1, <2>2
<1>3. \A x \in Int : 10 * d * x = 10 * (d * x) /\ d * x \in Int
  OBVIOUS
<1>4. Abs(10 * d) = 10 * d /\ Abs(d) = d
  BY DEF Abs
<1>5. 2 * Abs(10 * d * c - n) <= 10 * Abs(d)
  <2>1. PICK y \in Int : y = d * c
    OBVIOUS
  <2>2. 10 * d * c = 10 * y
    BY <2>1
  <2> QED BY <1>1, <1>4, <2>1, <2>2 DEF Abs
<1>6. ASSUME NEW x \in ToFixed2(n, d)
      PROVE  x \in Int /\ 10 * (d * x) - n <= 5 * d /\ n - 10 * (d * x) <= 5 * d
  <2>1. x \in Int /\ 2 * Abs(10 * d * x - n) <= 10 * d
    BY <1>4, <1>6 DEF ToFixed2, Abs
  <2>2. PICK y \in Int : y = d * x /\ 10 * d * x = 10 * y
    BY <2>1
  <2> QED BY <2>1, <2>2 DEF Abs
<1>7. c \in ToFixed2(n, d)
  BY <1>2, <1>5 DEF ToFixed2
<1> QED BY <1>6, <1>7

\* The weighted price of an order is never outside the prices it is made of,
\* but for the rounding.
THEOREM PricesAlwaysBetween == Spec => []PriceBetween
<1>1. ASSUME Inv, Recomputed
      PROVE  PriceBetween
  <2> SUFFICES ASSUME NEW i \in DOMAIN orders, NEW ids, NEW prices, NEW d,
                      ids = orders[i].ids, prices = orders[i].prices, d = orders[i].quantity,
                      d > 0, \A c \in ids : commitments[c].quantity >= 0
               PROVE  /\ prices # {}
                      /\ \A cents \in prices, side \in {1, -1} :
                           \E c \in ids : side * (10 * cents - commitments[c].price) <= 5
    BY DEF PriceBetween
  <2> DEFINE q == [c \in DOMAIN commitments |-> commitments[c].quantity]
             v == [c \in DOMAIN commitments |-> commitments[c].quantity * commitments[c].price]
             n == Notional(ids)
  <2>1. ids \in SUBSET DOMAIN commitments
    BY <1>1 DEF Inv, OrdersSound
  <2>2. d = Quantity(ids) /\ prices = ToFixed2(n, d)
    <3>1. orders[i] = OrderOf(orders[i].pool, ids)
      BY <1>1 DEF Recomputed
    <3> QED BY <3>1 DEF OrderOf, UnitPrices
  <2>3. /\ IsFiniteSet(ids) /\ d = SumOver(ids, q) /\ n = SumOver(ids, v)
        /\ d \in Int /\ n \in Int
    BY <1>1, <2>1, <2>2, TotalsAreSums
  <2>4. \A c \in ids : /\ commitments[c].quantity \in Nat /\ commitments[c].price \in Int
                       /\ q[c] = commitments[c].quantity /\ q[c] \in Int
                       /\ v[c] = commitments[c].quantity * commitments[c].price /\ v[c] \in Int
    BY <1>1, <2>1, TotalsAreSums
  <2> HIDE DEF q, v, n
  <2>5. d \in Nat \ {0}
    BY <2>3
  <2>6. prices # {} /\ \A c \in prices :
                  c \in Int /\ 10 * (d * c) - n <= 5 * d /\ n - 10 * (d * c) <= 5 * d
    BY <2>2, <2>3, <2>5, Rounding
  <2>7. ASSUME NEW cents \in prices,
               \A c \in ids : 10 * cents - commitments[c].price > 5
        PROVE  FALSE
    <3> DEFINE k == 10 * cents - 6
    <3>1. k \in Int /\ cents \in Int
      BY <2>6
    <3>2. \A c \in ids : v[c] <= k * q[c]
      <4> SUFFICES ASSUME NEW c \in ids PROVE v[c] <= k * q[c]
        OBVIOUS
      <4>1. PICK x \in Nat, y \in Int : /\ x = commitments[c].quantity
                                        /\ y = commitments[c].price
        BY <2>4
      <4>2. y <= k
        BY <2>7, <3>1, <4>1
      <4> HIDE DEF k
      <4>3. x * y <= k * x
        BY <3>1, <4>2
      <4> QED BY <2>4, <4>1, <4>3
    <3> HIDE DEF k
    <3>3. n <= k * d
      BY <2>3, <2>4, <3>1, <3>2, SumScaled
    <3>4. k * d = 10 * (d * cents) - 6 * d /\ d * cents \in Int
      BY <2>5, <3>1 DEF k
    <3>5. 10 * (d * cents) - n <= 5 * d
      BY <2>6
    <3> QED BY <2>3, <2>5, <3>3, <3>4, <3>5
  <2>8. ASSUME NEW cents \in prices,
               \A c \in ids : commitments[c].price - 10 * cents > 5
        PROVE  FALSE
    <3> DEFINE k == 10 * cents + 6
    <3>1. k \in Int /\ cents \in Int
      BY <2>6
    <3>2. \A c \in ids : v[c] >= k * q[c]
      <4> SUFFICES ASSUME NEW c \in ids PROVE v[c] >= k * q[c]
        OBVIOUS
      <4>1. PICK x \in Nat, y \in Int : /\ x = commitments[c].quantity
                                        /\ y = commitments[c].price
        BY <2>4
      <4>2. y >= k
        BY <2>8, <3>1, <4>1
      <4> HIDE DEF k
      <4>3. x * y >= k * x
        BY <3>1, <4>2
      <4> QED BY <2>4, <4>1, <4>3
    <3> HIDE DEF k
    <3>3. n >= k * d
      BY <2>3, <2>4, <3>1, <3>2, SumScaled
    <3>4. k * d = 10 * (d * cents) + 6 * d /\ d * cents \in Int
      BY <2>5, <3>1 DEF k
    <3>5. n - 10 * (d * cents) <= 5 * d
      BY <2>6
    <3> QED BY <2>3, <2>5, <3>3, <3>4, <3>5
  <2>9. ASSUME NEW cents \in prices
        PROVE  /\ \E c \in ids : 1 * (10 * cents - commitments[c].price) <= 5
               /\ \E c \in ids : (-1) * (10 * cents - commitments[c].price) <= 5
    <3>1. PICK c \in ids : ~(10 * cents - commitments[c].price > 5)
      BY <2>7
    <3>2. PICK e \in ids : ~(commitments[e].price - 10 * cents > 5)
      BY <2>8
    <3>3. cents \in Int /\ commitments[c].price \in Int /\ commitments[e].price \in Int
      BY <2>4, <2>6
    <3> QED BY <3>1, <3>2, <3>3
  <2> QED BY <2>6, <2>9
<1> QED BY <1>1, AlwaysInv, AlwaysRecomputed, PTL

-----------------------------------------------------------------------------
(* Progress. *)

QuantitiesAreSums ==
  /\ commitments \in Seq(CommitmentRecords)
  /\ \A ids \in SUBSET DOMAIN commitments :
       /\ IsFiniteSet(ids) /\ Quantity(ids) \in Int
       /\ Quantity(ids) = SumOver(ids, [c \in DOMAIN commitments |-> commitments[c].quantity])

\* Once a pool has enough to be aggregated it has so, whatever is seeded,
\* refused or aggregated and in whichever pool, until somebody commits a
\* negative quantity to it.
THEOREM ProgressAlwaysKept == Spec => ProgressKept
<1>1. ASSUME Inv, Inv', QuantitiesAreSums, QuantitiesAreSums', [Next]_vars,
             NEW p \in Pools, Open(p), CanAggregate(p)
      PROVE  Open(p)' /\ (CanAggregate(p)' \/ Reduced(p))
  <2>1. PICK old, new : old = CommitmentsOf(p) /\ new = CommitmentsOf(p)'
    OBVIOUS
  <2>2. /\ PoolsKept /\ DOMAIN commitments \subseteq DOMAIN commitments'
        /\ \A c \in DOMAIN commitments : commitments'[c] = commitments[c]
    BY <1>1, StepGrows
  <2>3. /\ old \in SUBSET DOMAIN commitments /\ new \in SUBSET DOMAIN commitments'
        /\ old \subseteq new
    BY <2>1, <2>2 DEF CommitmentsOf
  <2>4. PICK q : q = [c \in DOMAIN commitments |-> commitments[c].quantity]
    OBVIOUS
  <2>5. PICK r : r = [c \in DOMAIN commitments' |-> commitments'[c].quantity]
    OBVIOUS
  <2>6. IsFiniteSet(old) /\ Quantity(old) = SumOver(old, q) /\ Quantity(old) \in Int
    BY <1>1, <2>3, <2>4 DEF QuantitiesAreSums
  <2>7. IsFiniteSet(new) /\ Quantity(new)' = SumOver(new, r) /\ Quantity(new)' \in Int
    BY <1>1, <2>3, <2>5 DEF QuantitiesAreSums
  <2>8. \A c \in new : r[c] \in Int
    <3> SUFFICES ASSUME NEW c \in new PROVE r[c] \in Int
      OBVIOUS
    <3>1. commitments'[c] \in CommitmentRecords
      BY <1>1, <2>3 DEF QuantitiesAreSums
    <3>2. commitments'[c].quantity \in Quantities
      BY <3>1 DEF CommitmentRecords
    <3> QED BY <2>3, <2>5, <3>2, DemandAssumption
  <2>9. \A c \in old : r[c] = q[c] /\ q[c] \in Int
    BY <2>2, <2>3, <2>4, <2>5, <2>8
  <2>10. ASSUME ~Reduced(p)
         PROVE  SumOver(old, q) <= SumOver(new, r)
    <3>1. \A c \in new \ old : r[c] \in Nat
      <4> SUFFICES ASSUME NEW c \in new \ old PROVE r[c] \in Nat
        OBVIOUS
      <4>1. c \in DOMAIN commitments' /\ commitments'[c].pool = p
        BY <2>1 DEF CommitmentsOf
      <4>2. c \notin DOMAIN commitments
        BY <2>1, <2>2, <4>1 DEF CommitmentsOf
      <4>3. ~(commitments'[c].quantity < 0)
        BY <2>10, <4>1, <4>2 DEF Reduced
      <4> QED BY <2>3, <2>5, <2>8, <4>3
    <3>2. SumOver(old, r) <= SumOver(new, r)
      BY <2>3, <2>7, <2>8, <3>1, SumGrows
    <3>3. SumOver(old, q) = SumOver(old, r)
      BY <2>6, <2>9, SumCongruent
    <3> QED BY <3>2, <3>3
  <2>11. Open(p)' /\ pools'[p].threshold = pools[p].threshold /\ pools[p].threshold \in Int
    <3>1. pools[p] \in PoolRecords
      BY <1>1 DEF Inv, Shape
    <3> QED BY <1>1, <2>2, <3>1 DEF PoolsKept, PoolRecords
  <2>12. ASSUME ~Reduced(p)
         PROVE  Quantity(new)' >= pools'[p].threshold
    BY <1>1, <2>1, <2>6, <2>7, <2>10, <2>11, <2>12 DEF CanAggregate
  <2> QED BY <2>1, <2>11, <2>12 DEF CanAggregate
<1>2. Inv => QuantitiesAreSums
  <2> SUFFICES ASSUME Inv PROVE QuantitiesAreSums
    OBVIOUS
  <2> QED BY TotalsAreSums DEF QuantitiesAreSums, Inv, Shape
<1>3. Inv /\ Inv' /\ QuantitiesAreSums /\ QuantitiesAreSums' /\ [Next]_vars =>
        [\A p \in Pools : Open(p) /\ CanAggregate(p) =>
           Open(p)' /\ (CanAggregate(p)' \/ Reduced(p))]_vars
  BY <1>1
<1> QED BY <1>2, <1>3, AlwaysInv, PTL DEF Spec, ProgressKept
=============================================================================
