------------------------ MODULE OrderLifecycleProofs ------------------------
(***************************************************************************)
(* Proofs about OrderLifecycle, for every set of orders, requests and      *)
(* amounts, with and without a live gateway.                               *)
(*                                                                         *)
(* Inv is the inductive invariant.  To the properties of OrderLifecycle it *)
(* adds CallsWellFormed: what a handler that waits remembers is still      *)
(* there when its answer comes.                                            *)
(***************************************************************************)
EXTENDS OrderLifecycle, SumTheorems

\* A request that has reached its handler names an order that was handed
\* out; while the handler waits, that order is in the Map.
CallsWellFormed ==
  \A r \in Requests : request[r].stage # "idle" =>
    /\ request[r].op \in Operations
    /\ request[r].order \in Orders
    /\ request[r].op = "repay" => request[r].amount \in Amounts
    /\ order[request[r].order].status # "absent"
    /\ request[r].stage = "calling" => Known(request[r].order)

-----------------------------------------------------------------------------
(* Each effect yields a record of the right type. *)

\* An order with nothing recorded is an order's record.
LEMMA BlankType ==
  ASSUME NEW status \in Statuses
  PROVE  Blank(status) \in OrderRecords
  BY DEF Blank, OrderRecords

\* What a handler writes is an order's record.
LEMMA OutcomeType ==
  ASSUME NEW op \in Operations, NEW rec \in OrderRecords, NEW tx \in Requests,
         NEW amount, op = "repay" => amount \in Amounts
  PROVE  Outcome(op, rec, tx, amount) \in OrderRecords
<1>1. CASE op = "tokenize"
  BY <1>1 DEF Outcome, Tokenized, OrderRecords, Statuses
<1>2. CASE op = "settle"
  BY <1>2 DEF Outcome, Settled, OrderRecords, Statuses
<1>3. CASE op = "bridge"
  BY <1>3 DEF Outcome, BridgePrepared, OrderRecords
<1>4. CASE op = "repay"
  <2>1. Append(rec.repayments, [tx |-> tx, amount |-> amount]) \in Seq(Repayments)
    BY <1>4 DEF OrderRecords, Repayments
  <2>2. Repaid(rec, tx, amount) \in OrderRecords
    BY <2>1 DEF Repaid, OrderRecords, Statuses
  <2> QED BY <1>4, <2>2 DEF Outcome
<1> QED BY <1>1, <1>2, <1>3, <1>4 DEF Operations

\* What the effect of op leaves in the fields of rec.
Writes(op, rec, tx, amount, new) ==
  /\ new.financing = rec.financing
  /\ new.tokenization = IF op = "tokenize" THEN tx ELSE rec.tokenization
  /\ new.settlement = IF op = "settle" THEN tx ELSE rec.settlement
  /\ new.bridge = IF op = "bridge" THEN tx ELSE rec.bridge
  /\ new.repayments = IF op = "repay"
                      THEN Append(rec.repayments, [tx |-> tx, amount |-> amount])
                      ELSE rec.repayments
  /\ op = "tokenize" => new.status = "tokenized"
  /\ op = "settle" => new.status = "settled"
  /\ op = "bridge" => new.status = rec.status
  /\ op = "repay" => IF Covered(new) THEN new.status = "repaid"
                                     ELSE new.status = "in_repayment"

\* What a handler writes, field by field, is what its operation may write.
LEMMA OutcomeWrites ==
  ASSUME NEW op \in Operations, NEW rec \in OrderRecords, NEW tx \in Requests,
         NEW amount, op = "repay" => amount \in Amounts
  PROVE  Writes(op, rec, tx, amount, Outcome(op, rec, tx, amount))
<1> DEFINE new == Outcome(op, rec, tx, amount)
<1>1. CASE op = "tokenize"
  BY <1>1 DEF Outcome, Tokenized, OrderRecords, Writes
<1>2. CASE op = "settle"
  BY <1>2 DEF Outcome, Settled, OrderRecords, Writes
<1>3. CASE op = "bridge"
  BY <1>3 DEF Outcome, BridgePrepared, OrderRecords, Writes
<1>4. CASE op = "repay"
  <2>1. new = Repaid(rec, tx, amount)
    BY <1>4 DEF Outcome
  <2> DEFINE pushed == [rec EXCEPT !.repayments =
                          Append(@, [tx |-> tx, amount |-> amount])]
  <2>2. new = [pushed EXCEPT !.status =
                 IF Covered(pushed) THEN "repaid" ELSE "in_repayment"]
    BY <2>1 DEF Repaid
  <2>3. /\ new.financing = pushed.financing
        /\ new.repayments = pushed.repayments
        /\ new.status = IF Covered(pushed) THEN "repaid" ELSE "in_repayment"
    BY <2>2 DEF OrderRecords
  <2>4. Covered(new) <=> Covered(pushed)
    BY <2>3 DEF Covered
  <2>5. /\ new.financing = rec.financing /\ new.tokenization = rec.tokenization
        /\ new.settlement = rec.settlement /\ new.bridge = rec.bridge
        /\ new.repayments = Append(rec.repayments, [tx |-> tx, amount |-> amount])
    BY <2>2 DEF OrderRecords
  <2> QED BY <1>4, <2>3, <2>4, <2>5 DEF Writes
<1> QED BY <1>1, <1>2, <1>3, <1>4 DEF Operations

\* An effect keeps a known order's status in line with its records.
LEMMA OutcomeJustified ==
  ASSUME NEW op \in Operations, NEW rec \in OrderRecords, NEW tx \in Requests,
         NEW amount, op = "repay" => amount \in Amounts,
         Justified(rec), rec.status \notin {"absent", "lost"},
         NEW new, new = Outcome(op, rec, tx, amount)
  PROVE  Justified(new) /\ new.status \notin {"absent", "lost"}
<1>1. tx # None
  BY LifecycleAssumption
<1>2. Writes(op, rec, tx, amount, new)
  BY OutcomeWrites
<1>3. CASE op = "repay"
  <2>1. new.repayments # <<>>
    BY <1>2, <1>3 DEF Writes, OrderRecords
  <2> QED BY <1>2, <1>3, <2>1 DEF Writes, Justified, Covered
<1>4. CASE op # "repay"
  <2>1. Covered(new) <=> Covered(rec)
    BY <1>2, <1>4 DEF Writes, Covered
  <2> QED BY <1>1, <1>2, <1>4, <2>1 DEF Writes, Justified, Operations
<1> QED BY <1>3, <1>4

-----------------------------------------------------------------------------
(* The inductive invariant and the two kinds of step that touch an order:  *)
(* a handler that finishes, and an entry that is new, refinanced or lost.  *)

Inv ==
  /\ TypeOK
  /\ CallsWellFormed
  /\ StatusJustified
  /\ RecordsBacked
  /\ AcknowledgedCredited

\* No order and no request satisfies the invariant.
LEMMA InitInv == Init => Inv
<1> SUFFICES ASSUME Init PROVE Inv
  OBVIOUS
<1>1. \A o \in Orders : order[o] = Blank("absent")
  BY DEF Init
<1>2. \A r \in Requests : request[r] = [op |-> "none", order |-> None,
                                        amount |-> None, stage |-> "idle"]
  BY DEF Init
<1>3. TypeOK
  <2>1. Blank("absent") \in OrderRecords
    BY BlankType DEF Statuses
  <2>2. [op |-> "none", order |-> None, amount |-> None, stage |-> "idle"]
          \in RequestRecords
    BY DEF RequestRecords
  <2> QED BY <2>1, <2>2 DEF Init, TypeOK, ChainStates
<1>4. CallsWellFormed /\ AcknowledgedCredited
  BY <1>2 DEF CallsWellFormed, AcknowledgedCredited
<1>5. StatusJustified /\ RecordsBacked
  BY <1>1 DEF StatusJustified, Justified, RecordsBacked, RecordBacked, CreditedOnce, Blank
<1> QED BY <1>3, <1>4, <1>5 DEF Inv

\* A step that leaves the contract records of p alone, and every finished
\* request as it was, leaves them backed.
LEMMA BackingCarried ==
  ASSUME TypeOK, NEW p \in Orders, RecordBacked(p), CreditedOnce(p),
         order'[p].repayments = order[p].repayments,
         order'[p].tokenization = order[p].tokenization,
         order'[p].settlement = order[p].settlement,
         order'[p].bridge = order[p].bridge,
         \A tx \in Requests : request[tx].stage = "done" =>
           /\ request'[tx] = request[tx]
           /\ chain[tx] = "mined" => chain'[tx] = "mined"
  PROVE  RecordBacked(p)' /\ CreditedOnce(p)'
<1>1. PICK reps, token, settlement, bridge :
        /\ reps = order[p].repayments /\ token = order[p].tokenization
        /\ settlement = order[p].settlement /\ bridge = order[p].bridge
  OBVIOUS
<1>2. /\ reps = order'[p].repayments /\ token = order'[p].tokenization
      /\ settlement = order'[p].settlement /\ bridge = order'[p].bridge
  BY <1>1
<1>3. reps \in Seq(Repayments) /\ {token, settlement, bridge} \subseteq Requests \cup {None}
  BY <1>1 DEF TypeOK, OrderRecords
<1>4. \A tx \in Requests, kind \in Operations : Backed(tx, kind, p) =>
        Backed(tx, kind, p)' /\ request'[tx] = request[tx]
  BY DEF Backed
<1>5. /\ token # None => Backed(token, "tokenize", p)'
      /\ settlement # None => Backed(settlement, "settle", p)'
      /\ bridge # None => Backed(bridge, "bridge", p)'
  BY <1>1, <1>3, <1>4 DEF RecordBacked, Operations
<1>6. ASSUME NEW i \in DOMAIN reps
      PROVE  /\ Backed(reps[i].tx, "repay", p)'
             /\ reps[i].amount = request'[reps[i].tx].amount
  <2>1. reps[i] \in Repayments
    BY <1>3
  <2>2. PICK tx \in Requests : tx = reps[i].tx
    BY <2>1 DEF Repayments
  <2>3. Backed(tx, "repay", p) /\ reps[i].amount = request[tx].amount
    BY <1>1, <2>2 DEF RecordBacked
  <2> QED BY <1>4, <2>2, <2>3 DEF Operations
<1>7. CreditedOnce(p)'
  BY <1>1, <1>2 DEF CreditedOnce
<1> QED BY <1>2, <1>5, <1>6, <1>7 DEF RecordBacked

\* A handler that finishes: its request, not finished before and mined when
\* the gateway is live, is done and its effect is on a known order.
LEMMA Finishes ==
  ASSUME Inv,
         NEW r \in Requests, NEW op \in Operations, NEW o \in Orders, NEW amount,
         op = "repay" => amount \in Amounts, amount \in Amounts \cup {None},
         request[r].stage \in {"idle", "calling"}, Known(o),
         Live => chain[r] = "mined",
         order' = [order EXCEPT ![o] = Outcome(op, order[o], r, amount)],
         request' = [request EXCEPT ![r] = [op |-> op, order |-> o,
                                            amount |-> amount, stage |-> "done"]],
         UNCHANGED chain
  PROVE  Inv'
<1> DEFINE item == [tx |-> r, amount |-> amount]
<1>1. PICK old : old = order[o]
  OBVIOUS
<1>2. PICK new : new = Outcome(op, old, r, amount)
  OBVIOUS
<1>3. /\ order \in [Orders -> OrderRecords] /\ old \in OrderRecords
      /\ request \in [Requests -> RequestRecords]
  BY <1>1 DEF Inv, TypeOK
<1>4. new \in OrderRecords
  BY <1>2, <1>3, OutcomeType
<1>5. Writes(op, old, r, amount, new)
  BY <1>2, <1>3, OutcomeWrites
<1>6. Justified(new) /\ new.status \notin {"absent", "lost"}
  BY <1>1, <1>2, <1>3, OutcomeJustified DEF Inv, StatusJustified, Known
<1>7. \A p \in Orders : order'[p] = IF p = o THEN new ELSE order[p]
  BY <1>1, <1>2, <1>3
<1>8. /\ \A q \in Requests : q # r => request'[q] = request[q]
      /\ request'[r].op = op /\ request'[r].order = o
      /\ request'[r].stage = "done" /\ request'[r].amount = amount
  BY <1>3
<1>9. /\ old.repayments \in Seq(Repayments)
      /\ op # "repay" => new.repayments = old.repayments
      /\ op = "repay" => /\ item \in Repayments
                         /\ new.repayments = Append(old.repayments, item)
  BY <1>3, <1>5 DEF Writes, OrderRecords, Repayments
<1>10. TypeOK'
  BY <1>1, <1>2, <1>3, <1>4 DEF Inv, TypeOK, RequestRecords
<1>11. CallsWellFormed'
  BY <1>6, <1>7, <1>8 DEF Inv, CallsWellFormed, Known
<1>12. StatusJustified'
  BY <1>6, <1>7 DEF Inv, StatusJustified
<1>13. \A tx \in Requests, p \in Orders, kind \in Operations :
         Backed(tx, kind, p) => /\ Backed(tx, kind, p)'
                                /\ tx # r /\ request'[tx] = request[tx]
  BY <1>8 DEF Backed
<1>14. Backed(r, op, o)'
  BY <1>8 DEF Backed
<1>15. RecordsBacked'
  <2> SUFFICES ASSUME NEW p \in Orders
               PROVE  RecordBacked(p)' /\ CreditedOnce(p)'
    BY DEF RecordsBacked
  <2>1. PICK rec : rec = order[p]
    OBVIOUS
  <2>2. /\ rec.repayments \in Seq(Repayments)
        /\ {rec.tokenization, rec.settlement, rec.bridge} \subseteq Requests \cup {None}
    BY <1>3, <2>1 DEF OrderRecords
  <2>3. RecordBacked(p) /\ CreditedOnce(p)
    BY DEF Inv, RecordsBacked
  <2>4. \A i \in DOMAIN rec.repayments :
          /\ rec.repayments[i].tx \in Requests \ {r}
          /\ Backed(rec.repayments[i].tx, "repay", p)'
          /\ rec.repayments[i].amount = request'[rec.repayments[i].tx].amount
    <3> SUFFICES ASSUME NEW i \in DOMAIN rec.repayments
                 PROVE  /\ rec.repayments[i].tx \in Requests \ {r}
                        /\ Backed(rec.repayments[i].tx, "repay", p)'
                        /\ rec.repayments[i].amount = request'[rec.repayments[i].tx].amount
      OBVIOUS
    <3>1. rec.repayments[i] \in Repayments
      BY <2>2
    <3>2. PICK tx \in Requests : tx = rec.repayments[i].tx
      BY <3>1 DEF Repayments
    <3>3. Backed(tx, "repay", p) /\ rec.repayments[i].amount = request[tx].amount
      BY <2>1, <2>3, <3>2 DEF RecordBacked
    <3>4. Backed(tx, "repay", p)' /\ tx # r /\ request'[tx] = request[tx]
      BY <3>3, <1>13 DEF Operations
    <3> QED BY <3>2, <3>3, <3>4
  <2>5. /\ rec.tokenization # None => Backed(rec.tokenization, "tokenize", p)'
        /\ rec.settlement # None => Backed(rec.settlement, "settle", p)'
        /\ rec.bridge # None => Backed(rec.bridge, "bridge", p)'
    BY <1>13, <2>1, <2>2, <2>3 DEF RecordBacked, Operations
  <2>6. \A i, j \in DOMAIN rec.repayments :
          rec.repayments[i].tx = rec.repayments[j].tx => i = j
    BY <2>1, <2>3 DEF CreditedOnce
  <2>7. CASE p # o
    <3>1. order'[p] = order[p]
      BY <2>7, <1>7
    <3>2. \A tx \in Requests : request[tx].stage = "done" => request'[tx] = request[tx]
      BY <1>8
    <3> QED BY <2>3, <3>1, <3>2, BackingCarried DEF Inv
  <2>8. CASE p = o
    <3>1. order'[p] = new /\ rec = old
      BY <2>1, <2>8, <1>1, <1>7
    <3>2. \A i \in DOMAIN new.repayments :
            \/ i \in DOMAIN old.repayments /\ new.repayments[i] = old.repayments[i]
            \/ op = "repay" /\ i = Len(old.repayments) + 1 /\ new.repayments[i] = item
      BY <1>9
    <3>3. CreditedOnce(p)'
      <4> SUFFICES ASSUME NEW i \in DOMAIN new.repayments, NEW j \in DOMAIN new.repayments,
                          new.repayments[i].tx = new.repayments[j].tx
                   PROVE  i = j
        BY <3>1 DEF CreditedOnce
      <4>1. CASE new.repayments[i].tx = r
        BY <4>1, <2>4, <3>1, <3>2
      <4>2. CASE new.repayments[i].tx # r
        BY <4>2, <2>6, <3>1, <3>2
      <4> QED BY <4>1, <4>2
    <3>4. \A i \in DOMAIN new.repayments :
            /\ Backed(new.repayments[i].tx, "repay", p)'
            /\ new.repayments[i].amount = request'[new.repayments[i].tx].amount
      <4> SUFFICES ASSUME NEW i \in DOMAIN new.repayments
                   PROVE  /\ Backed(new.repayments[i].tx, "repay", p)'
                          /\ new.repayments[i].amount
                               = request'[new.repayments[i].tx].amount
        OBVIOUS
      <4>1. CASE i \in DOMAIN old.repayments /\ new.repayments[i] = old.repayments[i]
        BY <4>1, <2>4, <3>1
      <4>2. CASE op = "repay" /\ new.repayments[i] = item
        <5>1. new.repayments[i].tx = r /\ new.repayments[i].amount = amount
          BY <4>2
        <5> QED BY <4>2, <5>1, <1>8, <1>14, <2>8
      <4> QED BY <4>1, <4>2, <3>2
    <3>5. /\ new.tokenization # None => Backed(new.tokenization, "tokenize", p)'
          /\ new.settlement # None => Backed(new.settlement, "settle", p)'
          /\ new.bridge # None => Backed(new.bridge, "bridge", p)'
      BY <1>5, <1>14, <2>5, <2>8, <3>1 DEF Writes
    <3> QED BY <3>1, <3>3, <3>4, <3>5 DEF RecordBacked
  <2> QED BY <2>7, <2>8
<1>16. AcknowledgedCredited'
  <2> SUFFICES ASSUME NEW q \in Requests, NEW p \in Orders,
                      request'[q].op = "repay", request'[q].order = p,
                      request'[q].stage = "done", Known(p)'
               PROVE  \E i \in DOMAIN order'[p].repayments :
                        order'[p].repayments[i] = [tx |-> q, amount |-> request'[q].amount]
    BY DEF AcknowledgedCredited
  <2>1. CASE q = r
    <3>1. /\ op = "repay" /\ p = o /\ order'[p] = new
          /\ [tx |-> q, amount |-> request'[q].amount] = item
      BY <2>1, <1>7, <1>8
    <3>2. /\ Len(old.repayments) + 1 \in DOMAIN new.repayments
          /\ new.repayments[Len(old.repayments) + 1] = item
      BY <3>1, <1>9
    <3> QED BY <3>1, <3>2
  <2>2. CASE q # r
    <3>1. request'[q] = request[q]
      BY <2>2, <1>8
    <3>2. Known(p)
      BY <1>7 DEF Known
    <3>3. PICK i \in DOMAIN order[p].repayments :
            order[p].repayments[i] = [tx |-> q, amount |-> request[q].amount]
      BY <3>1, <3>2 DEF Inv, AcknowledgedCredited
    <3>4. i \in DOMAIN order'[p].repayments
          /\ order'[p].repayments[i] = order[p].repayments[i]
      <4>1. CASE p # o
        BY <4>1, <3>3, <1>7
      <4>2. CASE p = o
        <5>1. order'[p] = new /\ order[p] = old
          BY <4>2, <1>1, <1>7
        <5>2. i \in DOMAIN new.repayments /\ new.repayments[i] = old.repayments[i]
          BY <3>3, <5>1, <1>9
        <5> QED BY <5>1, <5>2
      <4> QED BY <4>1, <4>2
    <3> QED BY <3>1, <3>3, <3>4
  <2> QED BY <2>1, <2>2
<1> QED BY <1>10, <1>11, <1>12, <1>15, <1>16 DEF Inv

\* A synchronous step on one order, aggregation or finance: its repayments,
\* token, settlement and bridge records stay and so do all requests.
LEMMA Rewrites ==
  ASSUME Inv,
         NEW o \in Orders, NEW new \in OrderRecords,
         order' = [order EXCEPT ![o] = new],
         UNCHANGED <<request, chain>>,
         Justified(new), new.status \notin {"absent", "lost"},
         \/ order[o].status = "absent" /\ new = Blank("structured")
         \/ /\ Known(o)
            /\ new.repayments = order[o].repayments
            /\ new.tokenization = order[o].tokenization
            /\ new.settlement = order[o].settlement
            /\ new.bridge = order[o].bridge
  PROVE  Inv'
<1>1. \A p \in Orders : order'[p] = IF p = o THEN new ELSE order[p]
  BY DEF Inv, TypeOK
<1>2. TypeOK'
  BY DEF Inv, TypeOK
<1>3. CallsWellFormed'
  BY <1>1 DEF Inv, CallsWellFormed, Known
<1>4. StatusJustified'
  BY <1>1 DEF Inv, StatusJustified
<1>6. RecordsBacked'
  <2> SUFFICES ASSUME NEW p \in Orders
               PROVE  RecordBacked(p)' /\ CreditedOnce(p)'
    BY DEF RecordsBacked
  <2>1. RecordBacked(p) /\ CreditedOnce(p)
    BY DEF Inv, RecordsBacked
  <2>2. CASE order'[p] = Blank("structured")
    BY <2>2 DEF RecordBacked, CreditedOnce, Blank
  <2>3. CASE /\ order'[p].repayments = order[p].repayments
             /\ order'[p].tokenization = order[p].tokenization
             /\ order'[p].settlement = order[p].settlement
             /\ order'[p].bridge = order[p].bridge
    BY <2>1, <2>3, BackingCarried DEF Inv
  <2> QED BY <1>1, <2>2, <2>3
<1>7. AcknowledgedCredited'
  <2> SUFFICES ASSUME NEW q \in Requests, NEW p \in Orders,
                      request[q].op = "repay", request[q].order = p,
                      request[q].stage = "done", Known(p)'
               PROVE  \E i \in DOMAIN order'[p].repayments :
                        order'[p].repayments[i] = [tx |-> q, amount |-> request[q].amount]
    BY DEF AcknowledgedCredited
  <2>1. order[p].status # "absent"
    BY DEF Inv, CallsWellFormed
  <2>2. Known(p) /\ order'[p].repayments = order[p].repayments
    BY <1>1, <2>1 DEF Known
  <2> QED BY <2>2 DEF Inv, AcknowledgedCredited
<1> QED BY <1>2, <1>3, <1>4, <1>6, <1>7 DEF Inv

\* A step that only moves requests and the chain: nothing becomes done and
\* nothing done or mined changes.
LEMMA Progresses ==
  ASSUME Inv, order' = order,
         request' \in [Requests -> RequestRecords], chain' \in [Requests -> ChainStates],
         CallsWellFormed',
         \A q \in Requests : request[q].stage = "done" \/ request'[q].stage = "done"
                                => request'[q] = request[q],
         \A q \in Requests : chain[q] = "mined" => chain'[q] = "mined"
  PROVE  Inv'
<1>1. TypeOK' /\ StatusJustified'
  BY DEF Inv, TypeOK, StatusJustified
<1>3. RecordsBacked'
  BY BackingCarried DEF Inv, RecordsBacked
<1>4. AcknowledgedCredited'
  BY DEF Inv, AcknowledgedCredited, Known
<1> QED BY <1>1, <1>3, <1>4 DEF Inv

\* The synchronous and the asynchronous start of a handler.
LEMMA CallInv ==
  ASSUME Inv, NEW r \in Requests, NEW op \in Operations, NEW o \in Orders, NEW amount,
         op = "repay" => amount \in Amounts, amount \in Amounts \cup {None},
         Call(r, op, o, amount)
  PROVE  Inv'
<1>1. CASE ~Live
  BY <1>1, Finishes DEF Call
<1>2. CASE Live
  <2>1. PICK stage \in {"calling", "failed"} :
           request' = [request EXCEPT ![r] = [op |-> op, order |-> o,
                                 amount |-> amount, stage |-> stage]]
    BY <1>2 DEF Call
  <2>0. UNCHANGED <<order, chain>> /\ Known(o) /\ request[r].stage = "idle"
    BY <1>2 DEF Call
  <2>2. request \in [Requests -> RequestRecords] /\ chain \in [Requests -> ChainStates]
    BY DEF Inv, TypeOK
  <2>3. /\ request' \in [Requests -> RequestRecords]
        /\ \A q \in Requests : q # r => request'[q] = request[q]
        /\ request'[r] = [op |-> op, order |-> o, amount |-> amount, stage |-> stage]
    BY <2>1, <2>2 DEF RequestRecords
  <2>4. CallsWellFormed'
    BY <2>0, <2>3 DEF Inv, CallsWellFormed, Known
  <2> QED BY <2>0, <2>2, <2>3, <2>4, Progresses
<1> QED BY <1>1, <1>2

\* Abandon: the handler of r fails and nothing else moves.
LEMMA AbandonInv ==
  ASSUME Inv, NEW r \in Requests, Abandon(r)
  PROVE  Inv'
<1>1. request \in [Requests -> RequestRecords] /\ chain \in [Requests -> ChainStates]
  BY DEF Inv, TypeOK
<1>2. /\ request' \in [Requests -> RequestRecords]
      /\ \A q \in Requests : q # r => request'[q] = request[q]
      /\ request'[r] = [request[r] EXCEPT !.stage = "failed"]
      /\ request[r].stage = "calling"
  BY <1>1 DEF Abandon, RequestRecords
<1>3. /\ request'[r].stage = "failed" /\ request'[r].op = request[r].op
      /\ request'[r].order = request[r].order /\ request'[r].amount = request[r].amount
  BY <1>1, <1>2 DEF RequestRecords
<1>4. CallsWellFormed'
  BY <1>2, <1>3 DEF Inv, CallsWellFormed, Known, Abandon
<1> QED BY <1>1, <1>2, <1>3, <1>4, Progresses DEF Abandon

\* A restart, which loses the orders and the handlers that wait, keeps the
\* invariant.
LEMMA RestartInv == Inv /\ Restart => Inv'
<1> SUFFICES ASSUME Inv, Restart PROVE Inv'
  OBVIOUS
<1>1. /\ order \in [Orders -> OrderRecords] /\ chain \in [Requests -> ChainStates]
      /\ request \in [Requests -> RequestRecords]
  BY DEF Inv, TypeOK
<1>2. \A o \in Orders :
        order'[o] = IF Known(o) THEN Blank("lost") ELSE order[o]
  BY DEF Restart
<1>3. \A r \in Requests :
        request'[r] = IF request[r].stage = "calling"
                      THEN [request[r] EXCEPT !.stage = "failed"] ELSE request[r]
  BY DEF Restart
<1>4. \A r \in Requests :
        /\ request'[r] \in RequestRecords
        /\ request'[r].op = request[r].op /\ request'[r].order = request[r].order
        /\ request'[r].amount = request[r].amount
        /\ request'[r].stage # "calling"
        /\ request'[r].stage = "idle" <=> request[r].stage = "idle"
  BY <1>1, <1>3 DEF RequestRecords
<1>5. \A o \in Orders : ~Known(o)' /\ (order[o].status # "absent" => order'[o].status # "absent")
  BY <1>2 DEF Known, Blank
<1>6. \A o \in Orders : order'[o] = Blank("lost") \/ (order'[o] = order[o] /\ ~Known(o))
  BY <1>2
<1>7. TypeOK'
  <2>1. \A o \in Orders : order'[o] \in OrderRecords
    BY <1>1, <1>6, BlankType DEF Statuses
  <2> QED BY <1>1, <1>4, <2>1 DEF TypeOK, Restart
<1>8. CallsWellFormed'
  BY <1>4, <1>5 DEF Inv, CallsWellFormed
<1>9. \A o \in Orders : /\ Justified(order'[o])
                        /\ order'[o].tokenization = None /\ order'[o].settlement = None
                        /\ order'[o].repayments = <<>>
  BY <1>6 DEF Inv, StatusJustified, Justified, Blank, Known
<1>10. StatusJustified'
  BY <1>9 DEF StatusJustified
<1>11. RecordsBacked'
  <2> SUFFICES ASSUME NEW p \in Orders
               PROVE  RecordBacked(p)' /\ CreditedOnce(p)'
    BY DEF RecordsBacked
  <2>1. CASE order'[p] = Blank("lost")
    BY <2>1 DEF RecordBacked, CreditedOnce, Blank
  <2>2. CASE order'[p] = order[p]
    <3>1. \A r \in Requests : request[r].stage = "done" => request'[r] = request[r]
      BY <1>3
    <3> QED BY <2>2, <3>1, BackingCarried DEF Inv, RecordsBacked, Restart
  <2> QED BY <1>6, <2>1, <2>2
<1>12. AcknowledgedCredited'
  BY <1>5 DEF AcknowledgedCredited
<1> QED BY <1>7, <1>8, <1>10, <1>11, <1>12 DEF Inv

-----------------------------------------------------------------------------
\* Every step of the lifecycle, and every stutter, keeps the invariant.
LEMMA NextInv == Inv /\ [Next]_vars => Inv'
<1> SUFFICES ASSUME Inv, [Next]_vars PROVE Inv'
  OBVIOUS
<1>1. ASSUME NEW o \in Orders, Aggregate(o)
      PROVE  Inv'
  <2>1. Blank("structured") \in OrderRecords
    BY BlankType DEF Statuses
  <2>2. Justified(Blank("structured")) /\ Blank("structured").status = "structured"
    BY DEF Justified, Blank
  <2> QED BY <1>1, <2>1, <2>2, Rewrites DEF Aggregate
<1>2. ASSUME NEW o \in Orders, NEW amount \in Amounts, Finance(o, amount)
      PROVE  Inv'
  <2> DEFINE terms == [amount |-> amount, tx |-> MadeUpTx]
  <2>1. PICK new : new = [order[o] EXCEPT !.financing = terms, !.status = "funded"]
    OBVIOUS
  <2>2. order[o] \in OrderRecords /\ terms \in [amount : Amounts, tx : {MadeUpTx}]
    BY DEF Inv, TypeOK
  <2>3. order' = [order EXCEPT ![o] = new] /\ Known(o) /\ UNCHANGED <<request, chain>>
    BY <1>2, <2>1 DEF Finance
  <2>4. /\ new \in OrderRecords /\ new.status = "funded" /\ new.financing = terms
        /\ new.repayments = order[o].repayments
        /\ new.tokenization = order[o].tokenization
        /\ new.settlement = order[o].settlement
        /\ new.bridge = order[o].bridge
    BY <2>1, <2>2 DEF OrderRecords, Statuses
  <2>5. terms # None
    BY <2>2, LifecycleAssumption
  <2>6. Justified(new)
    BY <2>4, <2>5 DEF Justified
  <2> QED BY <2>3, <2>4, <2>6, Rewrites
<1>3. ASSUME NEW r \in Requests, Handlers(r)
      PROVE  Inv'
  <2>1. PICK o \in Orders : \/ Tokenize(r, o)
                            \/ Settle(r, o)
                            \/ PrepareBridge(r, o)
                            \/ \E amount \in Amounts : RecordRepayment(r, o, amount)
    BY <1>3 DEF Handlers
  <2>2. CASE Tokenize(r, o)
    BY <2>2, CallInv DEF Tokenize, Operations
  <2>3. CASE Settle(r, o)
    BY <2>3, CallInv DEF Settle, Operations
  <2>4. CASE PrepareBridge(r, o)
    BY <2>4, CallInv DEF PrepareBridge, Operations
  <2>5. CASE \E amount \in Amounts : RecordRepayment(r, o, amount)
    BY <2>5, CallInv DEF RecordRepayment, Operations
  <2> QED BY <2>1, <2>2, <2>3, <2>4, <2>5
<1>4. ASSUME NEW r \in Requests, Broadcast(r)
      PROVE  Inv'
  <2>1. chain' \in [Requests -> ChainStates]
    BY <1>4 DEF Broadcast, Inv, TypeOK, ChainStates
  <2>2. \A q \in Requests : chain[q] = "mined" => chain'[q] = "mined"
    BY <1>4 DEF Broadcast, Inv, TypeOK
  <2>3. CallsWellFormed'
    BY <1>4 DEF Broadcast, Inv, CallsWellFormed, Known
  <2> QED BY <1>4, <2>1, <2>2, <2>3, Progresses DEF Broadcast, Inv, TypeOK
<1>5. ASSUME NEW r \in Requests, NEW verdict \in {"mined", "reverted"}, Execute(r, verdict)
      PROVE  Inv'
  <2>1. chain' \in [Requests -> ChainStates]
    BY <1>5 DEF Execute, Inv, TypeOK, ChainStates
  <2>2. \A q \in Requests : chain[q] = "mined" => chain'[q] = "mined"
    BY <1>5 DEF Execute, Inv, TypeOK
  <2>3. CallsWellFormed'
    BY <1>5 DEF Execute, Inv, CallsWellFormed, Known
  <2> QED BY <1>5, <2>1, <2>2, <2>3, Progresses DEF Execute, Inv, TypeOK
<1>6. ASSUME NEW r \in Requests, Resume(r)
      PROVE  Inv'
  <2>1. PICK op, o, amount : /\ op = request[r].op /\ o = request[r].order
                             /\ amount = request[r].amount
    OBVIOUS
  <2>2. /\ op \in Operations /\ o \in Orders /\ Known(o)
        /\ op = "repay" => amount \in Amounts
    BY <1>6, <2>1 DEF Resume, Inv, CallsWellFormed
  <2>3. request[r] \in RequestRecords /\ amount \in Amounts \cup {None}
    BY <2>1 DEF Inv, TypeOK, RequestRecords
  <2>4. [request[r] EXCEPT !.stage = "done"]
          = [op |-> op, order |-> o, amount |-> amount, stage |-> "done"]
    BY <2>1, <2>3 DEF RequestRecords
  <2>5. request' = [request EXCEPT ![r] =
                      [op |-> op, order |-> o, amount |-> amount, stage |-> "done"]]
    BY <1>6, <2>4 DEF Resume
  <2>6. order' = [order EXCEPT ![o] = Outcome(op, order[o], r, amount)]
    BY <1>6, <2>1 DEF Resume
  <2> QED BY <1>6, <2>2, <2>3, <2>5, <2>6, Finishes DEF Resume
<1>7. CASE Restart
  BY <1>7, RestartInv
<1>8. CASE UNCHANGED vars
  <2>1. CallsWellFormed'
    BY <1>8 DEF vars, Inv, CallsWellFormed, Known
  <2> QED BY <1>8, <2>1, Progresses DEF vars, Inv, TypeOK
<1> QED
  BY <1>1, <1>2, <1>3, <1>4, <1>5, <1>6, <1>7, <1>8, AbandonInv
  DEF Next, Gateway, Mine, Revert, Reverted, RpcError

\* The invariant holds in every reachable state.
LEMMA AlwaysInv == Spec => []Inv
  BY InitInv, NextInv, PTL DEF Spec

\* Orders, requests and the chain keep their types, however handlers,
\* transactions, failures and restarts interleave.
THEOREM TypeCorrect == Spec => []TypeOK
  BY AlwaysInv, PTL DEF Inv

\* The status of an order always follows from its records, whichever of the
\* handlers of rwa-procurement.service.ts finished last.
THEOREM StatusAlwaysJustified == Spec => []StatusJustified
  BY AlwaysInv, PTL DEF Inv

\* Every record of every order is the effect of one finished call, on the
\* chain when the gateway is live, and no repayment is credited twice.
THEOREM RecordsAlwaysBacked == Spec => []RecordsBacked
  BY AlwaysInv, PTL DEF Inv

\* No acknowledged repayment is lost while the process lives.
THEOREM AcknowledgedAlwaysCredited == Spec => []AcknowledgedCredited
  BY AlwaysInv, PTL DEF Inv

-----------------------------------------------------------------------------
(* The history of an order. *)

\* What a handler writes keeps what was recorded of the order before it.
LEMMA OutcomeExtends ==
  ASSUME NEW op \in Operations, NEW rec \in OrderRecords, NEW tx \in Requests,
         NEW amount, op = "repay" => amount \in Amounts
  PROVE  Extends(rec, Outcome(op, rec, tx, amount))
<1>1. PICK new : new = Outcome(op, rec, tx, amount)
  OBVIOUS
<1>2. Writes(op, rec, tx, amount, new)
  BY <1>1, OutcomeWrites
<1>3. op = "repay" => [tx |-> tx, amount |-> amount] \in Repayments
  BY DEF Repayments
<1>4. tx # None
  BY LifecycleAssumption
<1>5. Extends(rec, new)
  BY <1>2, <1>3, <1>4 DEF Writes, Extends
<1> QED BY <1>1, <1>5

\* A step that does not lose an order keeps what was recorded of it.
LEMMA StepExtends ==
  ASSUME Inv, Next, NEW o \in Orders, Known(o), order'[o].status # "lost"
  PROVE  Extends(order[o], order'[o])
<1>1. /\ order \in [Orders -> OrderRecords] /\ order[o] \in OrderRecords
      /\ order'[o] = order[o] => Extends(order[o], order'[o])
  BY DEF Inv, TypeOK, Extends
<1>2. ASSUME NEW p \in Orders, Aggregate(p)
      PROVE  Extends(order[o], order'[o])
  BY <1>1, <1>2 DEF Aggregate, Known
<1>3. ASSUME NEW p \in Orders, NEW amount \in Amounts, Finance(p, amount)
      PROVE  Extends(order[o], order'[o])
  <2>1. [amount |-> amount, tx |-> MadeUpTx] # None
    BY LifecycleAssumption
  <2>2. order'[o] = order[o] \/
        order'[o] = [order[o] EXCEPT !.financing = [amount |-> amount, tx |-> MadeUpTx],
                                     !.status = "funded"]
    BY <1>1, <1>3 DEF Finance
  <2> QED BY <1>1, <2>1, <2>2 DEF Extends, OrderRecords
<1>4. ASSUME NEW r \in Requests, NEW op \in Operations, NEW p \in Orders, NEW amount,
             op = "repay" => amount \in Amounts, Call(r, op, p, amount)
      PROVE  Extends(order[o], order'[o])
  <2>1. order'[o] = order[o] \/ order'[o] = Outcome(op, order[o], r, amount)
    BY <1>1, <1>4 DEF Call
  <2> QED BY <1>1, <1>4, <2>1, OutcomeExtends
<1>5. ASSUME NEW r \in Requests, Handlers(r)
      PROVE  Extends(order[o], order'[o])
  BY <1>4, <1>5 DEF Handlers, Tokenize, Settle, PrepareBridge, RecordRepayment, Operations
<1>6. ASSUME NEW r \in Requests, Gateway(r)
      PROVE  Extends(order[o], order'[o])
  <2>1. CASE order' = order
    BY <2>1, <1>1
  <2>2. CASE Resume(r)
    <3>1. /\ request[r].op \in Operations /\ request[r].order \in Orders
          /\ request[r].op = "repay" => request[r].amount \in Amounts
      BY <2>2 DEF Resume, Inv, CallsWellFormed
    <3>2. \/ order'[o] = order[o]
          \/ order'[o] = Outcome(request[r].op, order[o], r, request[r].amount)
      BY <2>2, <1>1 DEF Resume
    <3> QED BY <1>1, <3>1, <3>2, OutcomeExtends
  <2> QED BY <1>6, <2>1, <2>2
      DEF Gateway, Broadcast, Mine, Revert, Execute, Reverted, RpcError, Abandon
<1>7. CASE Restart
  BY <1>7 DEF Restart, Blank
<1> QED BY <1>2, <1>3, <1>5, <1>6, <1>7 DEF Next

\* No step of any handler shortens the history of an order the process knows:
\* repayments are only appended, and no record once made disappears.
THEOREM HistoryAlwaysKept == Spec => HistoryKept
<1>1. Inv /\ [Next]_vars =>
        [\A o \in Orders : Known(o) /\ order'[o].status # "lost" =>
           Extends(order[o], order'[o])]_vars
  BY StepExtends
<1> QED BY <1>1, AlwaysInv, PTL DEF Spec, HistoryKept

-----------------------------------------------------------------------------
(* The handlers implement the ledger of repayments. *)

\* A request that no handler has seen names nothing and has sent nothing.
Unseen ==
  \A r \in Requests : request[r].stage = "idle" =>
    request[r].op = "none" /\ chain[r] = "none"

\* A request not yet made names no operation and no transaction, and goes on so.
LEMMA UnseenKept == TypeOK /\ Unseen /\ [Next]_vars => Unseen'
<1> SUFFICES ASSUME TypeOK, Unseen, [Next]_vars PROVE Unseen'
  OBVIOUS
<1>1. \A r \in Requests : request'[r].stage = "idle" =>
        request'[r] = request[r] /\ chain'[r] = chain[r]
  <2>1. ASSUME NEW r \in Requests, NEW op \in Operations, NEW o \in Orders, NEW amount,
               Call(r, op, o, amount)
        PROVE  \A q \in Requests : request'[q].stage = "idle" =>
                 request'[q] = request[q] /\ chain'[q] = chain[q]
    BY <2>1 DEF Call, TypeOK
  <2>2. ASSUME NEW r \in Requests, Handlers(r)
        PROVE  \A q \in Requests : request'[q].stage = "idle" =>
                 request'[q] = request[q] /\ chain'[q] = chain[q]
    BY <2>1, <2>2 DEF Handlers, Tokenize, Settle, PrepareBridge, RecordRepayment, Operations
  <2>3. ASSUME NEW r \in Requests, Abandon(r)
        PROVE  \A q \in Requests : request'[q].stage = "idle" =>
                 request'[q] = request[q] /\ chain'[q] = chain[q]
    BY <2>3 DEF Abandon, TypeOK, RequestRecords
  <2>4. ASSUME NEW r \in Requests, Resume(r)
        PROVE  \A q \in Requests : request'[q].stage = "idle" =>
                 request'[q] = request[q] /\ chain'[q] = chain[q]
    BY <2>4 DEF Resume, TypeOK, RequestRecords
  <2>5. ASSUME NEW r \in Requests, NEW verdict, Broadcast(r) \/ Execute(r, verdict)
        PROVE  \A q \in Requests : request'[q].stage = "idle" =>
                 request'[q] = request[q] /\ chain'[q] = chain[q]
    BY <2>5 DEF Broadcast, Execute, Unseen, TypeOK
  <2>6. CASE Restart
    BY <2>6 DEF Restart, TypeOK, RequestRecords
  <2>7. CASE UNCHANGED <<request, chain>>
    BY <2>7
  <2> QED BY <2>2, <2>3, <2>4, <2>5, <2>6, <2>7
          DEF Next, Gateway, Mine, Revert, Reverted, RpcError, Aggregate, Finance, vars
<1> QED BY <1>1 DEF Unseen

LedgerStep == [Ledger!Next]_Ledger!vars

\* What the ledger does not see.
LEMMA LedgerStill ==
  ASSUME \A r \in Requests : \/ request'[r] = request[r]
                             \/ request[r].op # "repay" /\ request'[r].op # "repay",
         \A r \in Requests : r \in Repaying => (chain'[r] = "mined" <=> chain[r] = "mined"),
         \A o \in Orders : order'[o].repayments = order[o].repayments
  PROVE  LedgerStep
<1>1. Repaying' = Repaying
  BY DEF Repaying
<1>2. \A r \in Repaying : request'[r] = request[r]
  BY DEF Repaying
<1> QED BY <1>1, <1>2 DEF LedgerStep, Ledger!vars, Repaying

\* Every step is a step, or a stutter, of RepaymentLedger.
LEMMA StepInLedger == Inv /\ Unseen /\ [Next]_vars => LedgerStep
<1> SUFFICES ASSUME Inv, Unseen, [Next]_vars PROVE LedgerStep
  OBVIOUS
<1> DEFINE claims == [r \in Requests |->
                        IF r \in Repaying
                        THEN [order |-> request[r].order, amount |-> request[r].amount]
                        ELSE None]
<1> DEFINE calling == {r \in Repaying : request[r].stage = "calling"}
<1> DEFINE mined == {r \in Repaying : chain[r] = "mined"}
<1> DEFINE credits == [o \in Orders |-> order[o].repayments]
<1>1. /\ order \in [Orders -> OrderRecords] /\ chain \in [Requests -> ChainStates]
      /\ request \in [Requests -> RequestRecords]
  BY DEF Inv, TypeOK
<1>2. ASSUME NEW o \in Orders, Aggregate(o) PROVE LedgerStep
  <2>1. order[o].repayments = <<>>
    BY <1>2 DEF Aggregate, Inv, StatusJustified, Justified
  <2>2. \A p \in Orders : order'[p].repayments = order[p].repayments
    BY <1>1, <1>2, <2>1 DEF Aggregate, Blank
  <2> QED BY <1>2, <2>2, LedgerStill DEF Aggregate
<1>3. ASSUME NEW o \in Orders, NEW amount \in Amounts, Finance(o, amount)
      PROVE  LedgerStep
  <2>1. \A p \in Orders : order'[p].repayments = order[p].repayments
    BY <1>1, <1>3 DEF Finance, OrderRecords
  <2> QED BY <1>3, <2>1, LedgerStill DEF Finance
<1>4. ASSUME NEW r \in Requests, NEW op \in Operations \ {"repay"}, NEW o \in Orders,
             Call(r, op, o, None)
      PROVE  LedgerStep
  <2>1. request[r].op = "none" /\ request'[r].op = op
        /\ \A q \in Requests : q # r => request'[q] = request[q]
    BY <1>1, <1>4 DEF Call, Unseen
  <2>2. \A p \in Orders : order'[p] = order[p] \/ order'[p] = Outcome(op, order[p], r, None)
    BY <1>1, <1>4 DEF Call
  <2>3. \A p \in Orders : order'[p].repayments = order[p].repayments
    <3>1. \A p \in Orders : Writes(op, order[p], r, None, Outcome(op, order[p], r, None))
      BY <1>1, OutcomeWrites
    <3> QED BY <2>2, <3>1 DEF Writes
  <2> QED BY <1>4, <2>1, <2>3, LedgerStill DEF Call
<1>5. ASSUME NEW r \in Requests, NEW o \in Orders, NEW amount \in Amounts,
             RecordRepayment(r, o, amount)
      PROVE  LedgerStep
  <2>1. /\ request[r].op = "none" /\ chain' = chain /\ chain[r] = "none"
        /\ request'[r].op = "repay" /\ request'[r].order = o /\ request'[r].amount = amount
        /\ request'[r].stage \in IF Live THEN {"calling", "failed"} ELSE {"done"}
        /\ \A q \in Requests : q # r => request'[q] = request[q]
    BY <1>1, <1>5 DEF RecordRepayment, Call, Unseen
  <2>2. /\ claims[r] = None
        /\ claims' = [claims EXCEPT ![r] = [order |-> o, amount |-> amount]]
        /\ mined' = mined
    BY <2>1 DEF Repaying
  <2>3. CASE Live
    <3>1. order' = order /\ calling' \in {calling, calling \cup {r}}
      <4>1. order' = order
        BY <1>5, <2>3 DEF RecordRepayment, Call
      <4>2. CASE request'[r].stage = "calling"
        BY <2>1, <4>1, <4>2 DEF Repaying
      <4>3. CASE request'[r].stage = "failed"
        <5>1. calling' = calling
          BY <2>1, <4>3 DEF Repaying
        <5> QED BY <4>1, <5>1
      <4> QED BY <2>1, <2>3, <4>2, <4>3
    <3>2. Ledger!Claim(r, o, amount)
      BY <2>2, <2>3, <3>1 DEF Ledger!Claim, Ledger!Claimed
    <3> QED BY <3>2 DEF LedgerStep, Ledger!Next
  <2>4. CASE ~Live
    <3>1. /\ order' = [order EXCEPT ![o] = Outcome("repay", order[o], r, amount)]
          /\ calling' = calling
      BY <1>5, <2>1, <2>4 DEF RecordRepayment, Call, Repaying
    <3>2. Outcome("repay", order[o], r, amount).repayments
            = Append(order[o].repayments, [tx |-> r, amount |-> amount])
      BY <1>1, OutcomeWrites DEF Writes, Operations
    <3>3. credits' = [credits EXCEPT ![o] =
                        Append(credits[o], [tx |-> r, amount |-> amount])]
      BY <1>1, <3>1, <3>2
    <3>4. Ledger!Believe(r, o, amount)
      BY <2>2, <2>4, <3>1, <3>3 DEF Ledger!Believe, Ledger!Claimed, Ledger!CreditedTo
    <3> QED BY <3>4 DEF LedgerStep, Ledger!Next
  <2> QED BY <2>3, <2>4
<1>6. ASSUME NEW r \in Requests, Broadcast(r) PROVE LedgerStep
  <2>1. \A q \in Requests : chain'[q] = "mined" <=> chain[q] = "mined"
    BY <1>1, <1>6 DEF Broadcast
  <2> QED BY <1>6, <2>1, LedgerStill DEF Broadcast
<1>7. ASSUME NEW r \in Requests, Revert(r) PROVE LedgerStep
  <2>1. \A q \in Requests : chain'[q] = "mined" <=> chain[q] = "mined"
    BY <1>1, <1>7 DEF Revert, Execute
  <2> QED BY <1>7, <2>1, LedgerStill DEF Revert, Execute
<1>8. ASSUME NEW r \in Requests, Mine(r) PROVE LedgerStep
  <2>1. /\ request' = request /\ order' = order /\ chain[r] = "pending"
        /\ \A q \in Requests : chain'[q] = "mined" <=> chain[q] = "mined" \/ q = r
    BY <1>1, <1>8 DEF Mine, Execute
  <2>2. CASE r \notin Repaying
    BY <2>1, <2>2, LedgerStill
  <2>3. CASE r \in Repaying
    <3>1. /\ mined' = mined \cup {r} /\ r \notin mined
          /\ claims' = claims /\ calling' = calling /\ credits' = credits
      BY <2>1, <2>3 DEF Repaying
    <3>2. claims[r] # None
      <4>1. request[r].stage # "idle"
        BY <2>1 DEF Unseen
      <4>2. [order |-> request[r].order, amount |-> request[r].amount]
              \in [order : Orders, amount : Amounts]
        BY <2>3, <4>1 DEF Inv, CallsWellFormed, Repaying
      <4> QED BY <2>3, <4>2, LifecycleAssumption
    <3>3. Ledger!Execute(r)
      BY <3>1, <3>2 DEF Ledger!Execute
    <3> QED BY <3>3 DEF LedgerStep, Ledger!Next
  <2> QED BY <2>2, <2>3
<1>9. ASSUME NEW r \in Requests, Resume(r) PROVE LedgerStep
  <2>1. PICK op, o, amount : /\ op = request[r].op /\ o = request[r].order
                             /\ amount = request[r].amount
    OBVIOUS
  <2>2. /\ op \in Operations /\ o \in Orders
        /\ op = "repay" => amount \in Amounts
    BY <1>9, <2>1 DEF Resume, Inv, CallsWellFormed
  <2>3. /\ order' = [order EXCEPT ![o] = Outcome(op, order[o], r, amount)]
        /\ chain' = chain /\ chain[r] = "mined" /\ request[r].stage = "calling"
    BY <1>1, <1>9, <2>1 DEF Resume
  <2>4. /\ \A q \in Requests : q # r => request'[q] = request[q]
        /\ request'[r].op = op /\ request'[r].order = o /\ request'[r].amount = amount
        /\ request'[r].stage = "done"
    BY <1>1, <1>9, <2>1 DEF Resume, RequestRecords
  <2>5. Writes(op, order[o], r, amount, Outcome(op, order[o], r, amount))
    <3>1. order[o] \in OrderRecords
      BY <1>1, <2>2
    <3> QED BY <2>2, <3>1, OutcomeWrites
  <2>6. CASE op # "repay"
    <3>1. \A p \in Orders : order'[p].repayments = order[p].repayments
      BY <1>1, <2>3, <2>5, <2>6 DEF Writes
    <3> QED BY <2>1, <2>3, <2>4, <2>6, <3>1, LedgerStill
  <2>7. CASE op = "repay"
    <3>1. /\ claims' = claims /\ mined' = mined /\ calling' = calling \ {r}
          /\ r \in calling \cap mined
          /\ claims[r].order = o /\ claims[r].amount = amount
      BY <2>1, <2>3, <2>4, <2>7 DEF Repaying
    <3>2. Outcome(op, order[o], r, amount).repayments
            = Append(order[o].repayments, [tx |-> r, amount |-> amount])
      BY <2>5, <2>7 DEF Writes
    <3>3. credits' = [credits EXCEPT ![o] =
                        Append(credits[o], [tx |-> r, amount |-> amount])]
      BY <1>1, <2>2, <2>3, <3>2
    <3>4. Ledger!Credit(r)
      BY <3>1, <3>3 DEF Ledger!Credit, Ledger!CreditedTo
    <3> QED BY <3>4 DEF LedgerStep, Ledger!Next
  <2> QED BY <2>6, <2>7
<1>10. ASSUME NEW r \in Requests, Abandon(r) PROVE LedgerStep
  <2>1. /\ \A q \in Requests : q # r => request'[q] = request[q]
        /\ request'[r].op = request[r].op /\ request'[r].order = request[r].order
        /\ request'[r].amount = request[r].amount
        /\ request'[r].stage = "failed" /\ request[r].stage = "calling"
        /\ order' = order /\ chain' = chain
    BY <1>1, <1>10 DEF Abandon, RequestRecords
  <2>2. CASE r \notin Repaying
    BY <2>1, <2>2, LedgerStill DEF Repaying
  <2>3. CASE r \in Repaying
    <3>1. /\ claims' = claims /\ mined' = mined /\ credits' = credits
          /\ r \in calling /\ calling' = calling \ {r}
      BY <2>1, <2>3 DEF Repaying
    <3>2. Ledger!GiveUp(r)
      BY <3>1 DEF Ledger!GiveUp
    <3> QED BY <3>2 DEF LedgerStep, Ledger!Next
  <2> QED BY <2>2, <2>3
<1>11. CASE Restart
  <2>1. \A q \in Requests :
          /\ request'[q].op = request[q].op /\ request'[q].order = request[q].order
          /\ request'[q].amount = request[q].amount /\ request'[q].stage # "calling"
    BY <1>1, <1>11 DEF Restart, RequestRecords
  <2>2. \A o \in Orders : order'[o].repayments = <<>>
    BY <1>11 DEF Restart, Blank, Known, Inv, StatusJustified, Justified
  <2>3. claims' = claims /\ mined' = mined /\ calling' = {} /\ credits' = [o \in Orders |-> <<>>]
    BY <1>11, <2>1, <2>2 DEF Repaying, Restart
  <2>4. Ledger!Forget
    BY <2>3 DEF Ledger!Forget
  <2> QED BY <2>4 DEF LedgerStep, Ledger!Next
<1>12. CASE UNCHANGED vars
  BY <1>12, LedgerStill DEF vars
<1>13. ASSUME NEW r \in Requests, Handlers(r) PROVE LedgerStep
  BY <1>4, <1>5, <1>13 DEF Handlers, Tokenize, Settle, PrepareBridge, Operations
<1>14. ASSUME NEW r \in Requests, Gateway(r) PROVE LedgerStep
  BY <1>6, <1>7, <1>8, <1>9, <1>10, <1>14 DEF Gateway, Reverted, RpcError
<1> QED BY <1>2, <1>3, <1>11, <1>12, <1>13, <1>14 DEF Next

\* Seen from the repayments, the handlers, the gateway, the chain and the
\* restarts of the process do what RepaymentLedger says.
THEOREM LedgerImplemented == Spec => ImplementsLedger
<1>1. Init => Ledger!Init
  BY DEF Init, Ledger!Init, Repaying, Blank
<1>2. Init => Unseen
  BY DEF Init, Unseen
<1>3. Spec => []Unseen
  BY <1>2, UnseenKept, TypeCorrect, PTL DEF Spec
<1> QED BY <1>1, <1>3, StepInLedger, AlwaysInv, PTL DEF Spec, LedgerStep, ImplementsLedger, Ledger!Spec

-----------------------------------------------------------------------------
(* Waiting *)

\* Without a live gateway no handler ever waits.
WaitsOnlyLive == \A r \in Requests : request[r].stage = "calling" => Live

\* Only a gateway that is live has callers waiting, and goes on so.
LEMMA WaitsOnlyLiveKept == TypeOK /\ WaitsOnlyLive /\ [Next]_vars => WaitsOnlyLive'
<1> SUFFICES ASSUME TypeOK, WaitsOnlyLive, [Next]_vars PROVE WaitsOnlyLive'
  OBVIOUS
<1>1. \A r \in Requests : request[r] \in RequestRecords
  BY DEF TypeOK
<1>2. CASE request' = request
  BY <1>2 DEF WaitsOnlyLive
<1>3. ASSUME NEW r \in Requests, NEW op, NEW o, NEW amount, Call(r, op, o, amount)
      PROVE  WaitsOnlyLive'
  BY <1>1, <1>3 DEF Call, WaitsOnlyLive, TypeOK
<1>4. ASSUME NEW r \in Requests, Resume(r) \/ Abandon(r) PROVE WaitsOnlyLive'
  BY <1>1, <1>4 DEF Resume, Abandon, WaitsOnlyLive, TypeOK, RequestRecords
<1>5. CASE Restart
  BY <1>1, <1>5 DEF Restart, WaitsOnlyLive, RequestRecords
<1>6. ASSUME NEW r \in Requests, Handlers(r) PROVE WaitsOnlyLive'
  BY <1>3, <1>6 DEF Handlers, Tokenize, Settle, PrepareBridge, RecordRepayment
<1>7. ASSUME NEW r \in Requests, Gateway(r) PROVE WaitsOnlyLive'
  BY <1>2, <1>4, <1>7 DEF Gateway, Broadcast, Mine, Revert, Execute, Reverted, RpcError
<1> QED BY <1>2, <1>5, <1>6, <1>7 DEF Next, vars, Aggregate, Finance

-----------------------------------------------------------------------------
(* What the API credits and what the chain has.                            *)

\* Every part of a finite set of integers has a greatest member.
LEMMA MaxIn ==
  ASSUME NEW S, IsFiniteSet(S), S \subseteq Int
  PROVE  \A T \in SUBSET S : T # {} => Max(T) \in T
<1> SUFFICES ASSUME NEW T \in SUBSET S, T # {} PROVE Max(T) \in T
  OBVIOUS
<1>1. IsFiniteSet(T) /\ T \subseteq Int
  BY FS_Subset
<1>2. \E x \in T : \A y \in T : x >= y
  BY <1>1, HasExtremes
<1> QED BY <1>2 DEF Max

\* Total goes through the repayments from the first to the last.
LEMMA TotalIsSum ==
  ASSUME NEW reps \in Seq(Repayments), Amounts \subseteq Int,
         NEW f, f = [i \in DOMAIN reps |-> reps[i].amount]
  PROVE  /\ IsFiniteSet(DOMAIN reps) /\ Cardinality(DOMAIN reps) = Len(reps)
         /\ \A i \in DOMAIN reps : f[i] \in Int
         /\ Total(reps) = SumOver(DOMAIN reps, f)
<1> DEFINE S == DOMAIN reps
<1>1. S = 1 .. Len(reps) /\ Len(reps) \in Nat
  OBVIOUS
<1>2. IsFiniteSet(S) /\ S \subseteq Int /\ Cardinality(S) = Len(reps)
  <2>1. /\ IsFiniteSet(1 .. Len(reps))
        /\ Cardinality(1 .. Len(reps)) = IF 1 > Len(reps) THEN 0 ELSE Len(reps) - 1 + 1
    BY <1>1, FS_Interval
  <2> HIDE DEF S
  <2> QED BY <1>1, <2>1
<1>3. \A i \in S : f[i] = reps[i].amount /\ f[i] \in Int
  <2> SUFFICES ASSUME NEW i \in S
               PROVE  f[i] = reps[i].amount /\ f[i] \in Int
    OBVIOUS
  <2>1. reps[i] \in Repayments
    OBVIOUS
  <2>2. reps[i].amount \in Amounts
    BY <2>1 DEF Repayments
  <2>3. f[i] = reps[i].amount
    OBVIOUS
  <2>4. reps[i].amount \in Int
    BY <2>2
  <2> QED BY <2>3, <2>4
<1> DEFINE pick == [T \in SUBSET S |-> Max(T)]
           Code(h) == h = [T \in SUBSET S |-> IF T = {} THEN 0
                             ELSE h[T \ {Max(T)}] + reps[Max(T)].amount]
<1>4. Total(reps) = (CHOOSE h : Code(h))[S]
  BY DEF Total, FoldLeft, MapThenFoldSet
<1> HIDE DEF S
<1>5. \A T \in SUBSET S : T # {} => pick[T] \in T
  BY <1>2, MaxIn
<1>6. \A T \in SUBSET S : pick[T] = Max(T)
  OBVIOUS
<1> HIDE DEF pick
<1>7. /\ \E h : Folds(S, f, pick, h)
      /\ \A h : Folds(S, f, pick, h) => /\ h[S] = SumOver(S, f)
                                        /\ \A T \in SUBSET S : h[T] \in Int
  BY <1>2, <1>3, <1>5, FoldIsSum
<1>8. ASSUME NEW h, Folds(S, f, pick, h)
      PROVE  Code(h)
  <2>1. ASSUME NEW T \in SUBSET S
        PROVE  h[T] = IF T = {} THEN 0 ELSE h[T \ {Max(T)}] + reps[Max(T)].amount
    <3>1. h[T] = IF T = {} THEN 0 ELSE f[pick[T]] + h[T \ {pick[T]}]
      BY <1>8 DEF Folds
    <3>2. CASE T # {}
      <4>1. pick[T] \in S /\ pick[T] = Max(T)
        BY <1>5, <1>6, <3>2
      <4>2. f[pick[T]] \in Int /\ f[pick[T]] = reps[Max(T)].amount /\ h[T \ {pick[T]}] \in Int
        BY <1>3, <1>7, <1>8, <4>1
      <4> QED BY <3>1, <3>2, <4>1, <4>2
    <3> QED BY <3>1, <3>2
  <2>2. h = [T \in SUBSET S |-> h[T]]
    BY <1>8 DEF Folds
  <2> QED BY <2>1, <2>2
<1>9. ASSUME NEW h, Code(h)
      PROVE  Folds(S, f, pick, h)
  <2>0. h = [T \in SUBSET S |-> h[T]]
    <3>1. DOMAIN h = SUBSET S /\ h = [T \in DOMAIN h |-> h[T]]
      BY <1>9
    <3> QED BY <3>1
  <2>1. \A T \in SUBSET S : h[T] = IF T = {} THEN 0
                                   ELSE h[T \ {Max(T)}] + reps[Max(T)].amount
    BY <1>9
  <2> HIDE DEF Code
  <2> DEFINE Good == {T \in SUBSET S : h[T] \in Int}
  <2>2. ASSUME NEW T \in SUBSET S, \A x \in T : T \ {x} \in Good
        PROVE  T \in Good
    <3>1. h[T] = IF T = {} THEN 0 ELSE h[T \ {Max(T)}] + reps[Max(T)].amount
      BY <2>1
    <3>2. CASE T # {}
      <4>1. Max(T) \in T
        BY <1>5, <1>6, <3>2
      <4>2. reps[Max(T)].amount \in Int
        BY <1>3, <4>1
      <4>3. h[T \ {Max(T)}] \in Int
        BY <2>2, <4>1
      <4>4. h[T] \in Int
        BY <3>1, <3>2, <4>2, <4>3
      <4> QED BY <4>4
    <3>3. CASE T = {}
      <4>1. h[T] = 0
        BY <3>1, <3>3
      <4> QED BY <4>1
    <3> QED BY <3>2, <3>3
  <2> HIDE DEF Good
  <2>3. SUBSET S \subseteq Good
    BY <1>2, <2>2, SubsetInduction
  <2>4. \A T \in SUBSET S : h[T] \in Int
    BY <2>3 DEF Good
  <2>5. ASSUME NEW T \in SUBSET S
        PROVE  h[T] = IF T = {} THEN 0 ELSE f[pick[T]] + h[T \ {pick[T]}]
    <3>1. h[T] = IF T = {} THEN 0 ELSE h[T \ {Max(T)}] + reps[Max(T)].amount
      BY <2>1
    <3>2. CASE T # {}
      <4>1. pick[T] \in S /\ pick[T] = Max(T)
        BY <1>5, <1>6, <3>2
      <4>2. f[pick[T]] \in Int /\ f[pick[T]] = reps[Max(T)].amount /\ h[T \ {pick[T]}] \in Int
        BY <1>3, <2>4, <4>1
      <4> QED BY <3>1, <3>2, <4>1, <4>2
    <3> QED BY <3>1, <3>2
  <2> QED BY <2>0, <2>5 DEF Folds
<1> HIDE DEF Code
<1>10. Code(CHOOSE h : Code(h))
  BY <1>7, <1>8
<1>11. Total(reps) = SumOver(S, f)
  BY <1>4, <1>7, <1>9, <1>10
<1> QED BY <1>2, <1>3, <1>11 DEF S

\* Only finitely many transactions are ever sent.
FinitelySent == IsFiniteSet({r \in Requests : chain[r] # "none"})

\* The transactions sent stay finitely many.
LEMMA FinitelySentKept == TypeOK /\ FinitelySent /\ [Next]_vars => FinitelySent'
<1> SUFFICES ASSUME TypeOK, FinitelySent, [Next]_vars PROVE FinitelySent'
  OBVIOUS
<1> DEFINE Sent == {r \in Requests : chain[r] # "none"}
<1>1. ASSUME NEW r \in Requests, Gateway(r)
      PROVE  FinitelySent'
  <2>1. {x \in Requests : chain'[x] # "none"} \subseteq Sent \cup {r}
    BY <1>1 DEF TypeOK, Gateway, Broadcast, Mine, Revert, Execute, Resume, Reverted,
                RpcError, Abandon
  <2>2. IsFiniteSet(Sent \cup {r})
    BY FS_AddElement DEF FinitelySent
  <2> QED BY <2>1, <2>2, FS_Subset DEF FinitelySent
<1>2. CASE UNCHANGED chain
  BY <1>2 DEF FinitelySent
<1>3. \/ \E r \in Requests : Gateway(r)
      \/ UNCHANGED chain
  BY DEF Next, vars, Aggregate, Finance, Handlers, Tokenize, Settle, PrepareBridge,
         RecordRepayment, Call, Restart
<1> QED BY <1>1, <1>2, <1>3

MinedRepayments(o) ==
  {r \in Requests : /\ request[r].op = "repay"
                    /\ request[r].order = o
                    /\ chain[r] = "mined"}

\* ChainRepaid adds up the mined repayments of an order.
LEMMA ChainRepaidIsSum ==
  ASSUME NEW o, IsFiniteSet(MinedRepayments(o)),
         \A r \in MinedRepayments(o) : Min(Carried(request[r].amount)) \in Int
  PROVE  ChainRepaid(o) = SumOver(MinedRepayments(o),
                            [r \in MinedRepayments(o) |-> Min(Carried(request[r].amount))])
<1> DEFINE R == MinedRepayments(o)
           w == [r \in R |-> Min(Carried(request[r].amount))]
           pick == [T \in SUBSET R |-> CHOOSE x \in T : TRUE]
           Code(h) == h = [T \in SUBSET R |-> IF T = {} THEN 0
                             ELSE Min(Carried(request[CHOOSE x \in T : TRUE].amount))
                                    + h[T \ {CHOOSE x \in T : TRUE}]]
<1>1. \A T \in SUBSET R : T # {} => pick[T] \in T
  OBVIOUS
<1>2. ChainRepaid(o) = (CHOOSE h : Code(h))[R]
  BY DEF ChainRepaid, MapThenSumSet, MapThenFoldSet, MinedRepayments
<1>0. IsFiniteSet(R) /\ \A r \in R : w[r] \in Int
  OBVIOUS
<1> HIDE DEF R
<1>3. \A T \in SUBSET R : T # {} => w[pick[T]] = Min(Carried(request[pick[T]].amount))
  BY <1>1
<1>4. ASSUME NEW h, Code(h)
      PROVE  Folds(R, w, pick, h)
  <2>1. /\ DOMAIN h = SUBSET R /\ h = [T \in DOMAIN h |-> h[T]]
        /\ \A T \in SUBSET R : h[T] = IF T = {} THEN 0
                             ELSE Min(Carried(request[CHOOSE x \in T : TRUE].amount))
                                    + h[T \ {CHOOSE x \in T : TRUE}]
    BY <1>4
  <2>2. ASSUME NEW T \in SUBSET R
        PROVE  h[T] = IF T = {} THEN 0 ELSE w[pick[T]] + h[T \ {pick[T]}]
    <3>1. h[T] = IF T = {} THEN 0
                 ELSE Min(Carried(request[CHOOSE x \in T : TRUE].amount))
                        + h[T \ {CHOOSE x \in T : TRUE}]
      BY <2>1
    <3>2. pick[T] = CHOOSE x \in T : TRUE
      OBVIOUS
    <3>3. T # {} => w[pick[T]] = Min(Carried(request[pick[T]].amount))
      BY <1>3
    <3> HIDE DEF pick, Code
    <3> QED BY <3>1, <3>2, <3>3
  <2> HIDE DEF pick, Code
  <2> QED BY <2>1, <2>2 DEF Folds
<1>5. ASSUME NEW h, Folds(R, w, pick, h)
      PROVE  Code(h)
  <2>1. /\ h = [T \in SUBSET R |-> h[T]]
        /\ \A T \in SUBSET R : h[T] = IF T = {} THEN 0 ELSE w[pick[T]] + h[T \ {pick[T]}]
    BY <1>5 DEF Folds
  <2>2. ASSUME NEW T \in SUBSET R
        PROVE  h[T] = IF T = {} THEN 0
                 ELSE Min(Carried(request[CHOOSE x \in T : TRUE].amount))
                        + h[T \ {CHOOSE x \in T : TRUE}]
    <3>1. h[T] = IF T = {} THEN 0 ELSE w[pick[T]] + h[T \ {pick[T]}]
      BY <2>1
    <3>2. pick[T] = CHOOSE x \in T : TRUE
      OBVIOUS
    <3>3. T # {} => w[pick[T]] = Min(Carried(request[pick[T]].amount))
      BY <1>3
    <3> HIDE DEF pick, Code
    <3> QED BY <3>1, <3>2, <3>3
  <2> HIDE DEF pick
  <2> QED BY <2>1, <2>2
<1> HIDE DEF pick, Code, w
<1>6. /\ \E h : Folds(R, w, pick, h)
      /\ \A h : Folds(R, w, pick, h) => h[R] = SumOver(R, w)
  BY <1>0, <1>1, FoldIsSum
<1>7. Code(CHOOSE h : Code(h))
  BY <1>5, <1>6
<1>8. ChainRepaid(o) = SumOver(R, w)
  BY <1>2, <1>4, <1>6, <1>7
<1> QED BY <1>8 DEF R, w

\* Of the cents a call can carry the least is a number, and loses no more of
\* the amount than Loss.
LEMMA LeastCarried ==
  ASSUME NEW amount \in Int, Carried(amount) # {}
  PROVE  Min(Carried(amount)) \in Nat /\ amount <= Cent * Min(Carried(amount)) + Loss
<1>0. Cent \in Nat \ {0} /\ Slip \in Nat
  BY LifecycleAssumption
<1>1. PICK low : low = amount \div Cent
  OBVIOUS
<1>2. low \in Int
  BY <1>0, <1>1
<1>3. Carried(amount) \subseteq {low, low + 1} /\ Carried(amount) \subseteq Nat
  BY <1>1 DEF Carried, Cents
<1>4. \E c \in Carried(amount) : \A d \in Carried(amount) : c =< d
  <2>1. CASE low \in Carried(amount)
    BY <1>2, <1>3, <2>1
  <2>2. CASE low \notin Carried(amount)
    BY <1>2, <1>3, <2>2
  <2> QED BY <2>1, <2>2
<1>5. PICK least : least = Min(Carried(amount))
  OBVIOUS
<1>6. least \in Carried(amount)
  BY <1>4, <1>5 DEF Min
<1>7. least \in Nat /\ 2 * (Cent * least - amount) \in -(Cent + 2 * Slip) .. Cent + 2 * Slip
  BY <1>3, <1>6 DEF Carried, Cents
<1>8. PICK told : told = Cent * least
  OBVIOUS
<1>9. told \in Int
  BY <1>0, <1>7, <1>8
<1>10. amount <= told + Loss
  BY <1>0, <1>7, <1>8, <1>9 DEF Loss
<1> QED BY <1>5, <1>7, <1>8, <1>10

\* A repayment that waits, or has sent its transaction, can be carried.
RepaymentsCarried ==
  \A r \in Requests :
    request[r].op = "repay" /\ (request[r].stage = "calling" \/ chain[r] # "none")
      => Carried(request[r].amount) # {}

\* What is sent can be carried, and goes on so.
LEMMA RepaymentsCarriedKept ==
  TypeOK /\ Unseen /\ RepaymentsCarried /\ [Next]_vars => RepaymentsCarried'
<1> SUFFICES ASSUME TypeOK, Unseen, RepaymentsCarried, [Next]_vars
             PROVE  RepaymentsCarried'
  OBVIOUS
<1> USE DEF RepaymentsCarried
<1>0. /\ \A r \in Requests : request[r] \in RequestRecords
      /\ request = [r \in Requests |-> request[r]]
      /\ chain = [r \in Requests |-> chain[r]]
  BY DEF TypeOK
<1>1. ASSUME NEW r \in Requests, NEW op, NEW o, NEW amount, Call(r, op, o, amount)
      PROVE  RepaymentsCarried'
  <2>1. PICK stage : /\ op = "repay" /\ stage = "calling" => Carried(amount) # {}
                     /\ request' = [request EXCEPT ![r] =
                          [op |-> op, order |-> o, amount |-> amount, stage |-> stage]]
    BY <1>1 DEF Call
  <2>2. chain' = chain /\ chain[r] = "none"
    BY <1>1 DEF Call, Unseen
  <2>3. /\ \A q \in Requests : q # r => request'[q] = request[q]
        /\ request'[r].op = op /\ request'[r].amount = amount
        /\ request'[r].stage = stage
    BY <1>0, <2>1
  <2> QED BY <2>1, <2>2, <2>3
<1>2. ASSUME NEW r \in Requests, Broadcast(r) \/ Mine(r) \/ Revert(r)
      PROVE  RepaymentsCarried'
  BY <1>0, <1>2 DEF Broadcast, Mine, Revert, Execute
<1>3. ASSUME NEW r \in Requests, Resume(r) \/ Abandon(r)
      PROVE  RepaymentsCarried'
  <2>1. \A q \in Requests : /\ request'[q].op = request[q].op
                            /\ request'[q].amount = request[q].amount
                            /\ request'[q].stage = "calling" => request[q].stage = "calling"
    BY <1>0, <1>3 DEF Resume, Abandon, RequestRecords
  <2> QED BY <1>3, <2>1 DEF Resume, Abandon
<1>4. CASE Restart
  <2>1. \A q \in Requests : /\ request'[q].op = request[q].op
                            /\ request'[q].amount = request[q].amount
                            /\ request'[q].stage = "calling" => request[q].stage = "calling"
    BY <1>0, <1>4 DEF Restart, RequestRecords
  <2> QED BY <1>4, <2>1 DEF Restart
<1>5. CASE UNCHANGED <<request, chain>>
  BY <1>5
<1>6. ASSUME NEW r \in Requests, Handlers(r)
      PROVE  RepaymentsCarried'
  BY <1>1, <1>6 DEF Handlers, Tokenize, Settle, PrepareBridge, RecordRepayment
<1>7. ASSUME NEW r \in Requests, Gateway(r)
      PROVE  RepaymentsCarried'
  BY <1>2, <1>3, <1>7 DEF Gateway, Reverted, RpcError
<1> QED BY <1>4, <1>5, <1>6, <1>7 DEF Next, vars, Aggregate, Finance

\* Rounding a repayment to cents loses half a cent and the slip of the
\* product at the most, and no transaction is credited twice: the API never
\* runs ahead of the chain by more than that.
THEOREM CreditAlwaysWithinChain == Spec => []CreditWithinChain
<1>1. ASSUME Inv, Unseen, FinitelySent, RepaymentsCarried
      PROVE  CreditWithinChain
  <2> SUFFICES ASSUME Live, NEW o \in Orders, NEW reps, reps = order[o].repayments
               PROVE  Total(reps) <= Cent * ChainRepaid(o) + Loss * Len(reps)
    BY DEF CreditWithinChain
  <2> DEFINE f == [i \in DOMAIN reps |-> reps[i].amount]
             R == MinedRepayments(o)
             w == [r \in R |-> Min(Carried(request[r].amount))]
             e == [r \in R |-> Cent * Min(Carried(request[r].amount))]
             m == [i \in DOMAIN reps |-> reps[i].tx]
  <2>1. Amounts \subseteq Int /\ Cent \in Nat /\ Loss \in Nat
    BY LifecycleAssumption DEF Loss
  <2>2. reps \in Seq(Repayments)
    BY <1>1 DEF Inv, TypeOK, OrderRecords
  <2>3. /\ IsFiniteSet(DOMAIN reps) /\ Cardinality(DOMAIN reps) = Len(reps)
        /\ \A i \in DOMAIN reps : f[i] \in Int
        /\ Total(reps) = SumOver(DOMAIN reps, f)
    BY <2>1, <2>2, TotalIsSum
  <2>4. IsFiniteSet(R)
    <3>1. R \subseteq {r \in Requests : chain[r] # "none"}
      BY DEF MinedRepayments
    <3> HIDE DEF R
    <3> QED BY <1>1, <3>1, FS_Subset DEF FinitelySent
  <2>5. \A r \in R : /\ request[r].amount \in Int
                     /\ Carried(request[r].amount) # {}
    BY <1>1, <2>1 DEF Inv, Unseen, CallsWellFormed, MinedRepayments, RepaymentsCarried
  <2>6. \A r \in R : /\ Min(Carried(request[r].amount)) \in Nat
                     /\ request[r].amount <= Cent * Min(Carried(request[r].amount)) + Loss
    BY <2>5, LeastCarried
  <2>7. \A r \in R : w[r] \in Nat /\ e[r] = Cent * w[r] /\ e[r] \in Nat
    <3>1. \A c, n \in Nat : c * n \in Nat
      OBVIOUS
    <3> QED BY <2>1, <2>6, <3>1
  <2>8. ASSUME NEW i \in DOMAIN reps
        PROVE  m[i] \in R /\ f[i] <= e[m[i]] + Loss
    <3>0. reps[i] \in Repayments /\ RecordBacked(o)
      BY <1>1, <2>2 DEF Inv, RecordsBacked
    <3>1. /\ reps[i].tx \in Requests /\ Backed(reps[i].tx, "repay", o)
          /\ reps[i].amount = request[reps[i].tx].amount
      BY <3>0 DEF RecordBacked, Repayments
    <3>2. reps[i].tx \in R
      BY <3>1 DEF Backed, MinedRepayments
    <3> QED BY <2>6, <3>1, <3>2
  <2>9. \A i, j \in DOMAIN reps : m[i] = m[j] => i = j
    BY <1>1 DEF Inv, RecordsBacked, CreditedOnce
  <2>10. ChainRepaid(o) = SumOver(R, w)
    <3>1. \A r \in R : Min(Carried(request[r].amount)) \in Int
      BY <2>6
    <3> QED BY <2>4, <3>1, ChainRepaidIsSum
  <2> HIDE DEF f, R, w, e, m
  <2>11. SumOver(DOMAIN reps, f) <= SumOver(R, e) + Loss * Len(reps)
    BY <2>1, <2>3, <2>4, <2>7, <2>8, <2>9, SumInjected
  <2>12. SumOver(R, e) <= Cent * SumOver(R, w)
    <3>1. \A r \in R : e[r] \in Int /\ w[r] \in Int /\ e[r] <= Cent * w[r]
      BY <2>7
    <3> QED BY <2>1, <2>4, <3>1, SumScaled
  <2>13. /\ SumOver(R, e) \in Int /\ SumOver(R, w) \in Int
         /\ SumOver(DOMAIN reps, f) \in Int /\ Len(reps) \in Nat
    <3>1. \A r \in R : e[r] \in Int /\ w[r] \in Int
      BY <2>7
    <3>2. \A i \in DOMAIN reps : f[i] \in Int
      BY <2>3
    <3> QED BY <2>2, <2>3, <2>4, <3>1, <3>2, SumRemove
  <2>14. Cent * SumOver(R, w) \in Int /\ Loss * Len(reps) \in Int
    BY <2>1, <2>13
  <2> QED BY <2>3, <2>10, <2>11, <2>12, <2>13, <2>14
<1>2. Init => FinitelySent
  <2> SUFFICES ASSUME Init PROVE FinitelySent
    OBVIOUS
  <2>1. {r \in Requests : chain[r] # "none"} = {}
    BY DEF Init
  <2> QED BY <2>1, FS_EmptySet DEF FinitelySent
<1>3. Init => Unseen
  BY DEF Init, Unseen
<1>4. Init => RepaymentsCarried
  BY DEF Init, RepaymentsCarried
<1>5. Inv => TypeOK
  BY DEF Inv
<1> QED
  BY <1>1, <1>2, <1>3, <1>4, <1>5, FinitelySentKept, UnseenKept, RepaymentsCarriedKept,
     AlwaysInv, PTL DEF Spec
=============================================================================
