---------------------------- MODULE OrderLifecycle ----------------------------
(***************************************************************************)
(* The life of aggregated orders in RwaProcurementService, after           *)
(* aggregateDemand has stored them: tokenize, finance, settle,             *)
(* recordRepayment and prepareBridge.  All but finance are async handlers: *)
(* they look the order up, await one contract call of                      *)
(* PrivateL1ContractsService, and update the order when the receipt        *)
(* arrives.  Node runs the code between two awaits without interruption,   *)
(* so such a handler is two atomic steps with everything else in between.  *)
(*                                                                         *)
(* An order's Map entry is never replaced, so the object a handler holds   *)
(* across its await is the one in the Map: order[o] stands for both.  The  *)
(* Map lives in memory only; the chain survives a restart of the process.  *)
(*                                                                         *)
(* Money is counted in a unit of which a cent and every amount are whole   *)
(* multiples; the chain is told whole cents.  The sums of the API are      *)
(* exact here, the product it rounds to cents is not.                      *)
(***************************************************************************)
EXTENDS Integers, Sequences, SequencesExt, FiniteSetsExt

CONSTANTS
  Orders,      \* ids that makeId gives to aggregated orders
  Requests,    \* HTTP requests that reach an async handler; also their txs
  Amounts,     \* amounts that repayments and financing may carry
  Cent,        \* the units in a cent
  Slip,        \* the units by which amount * 100 may be off in a double
  Live,        \* TRUE when the four PRIVATE_L1/CONTRACT variables are set
  None,        \* an absent optional field
  MadeUpTx     \* a hash from makeTx: no transaction anywhere has it

ASSUME LifecycleAssumption ==
  /\ Amounts \subseteq Int
  /\ Cent \in Nat \ {0} /\ Slip \in Nat /\ 2 * Slip < Cent
  /\ Live \in BOOLEAN
  /\ MadeUpTx \notin Requests
  /\ None \notin Requests \cup {MadeUpTx}
  /\ None \notin [amount : Amounts, tx : {MadeUpTx}]
  /\ None \notin [order : Orders, amount : Amounts]

VARIABLES
  order,       \* the orders Map, with what each entry records
  request,     \* the handler activation of each request
  chain        \* what became of each request's transaction on the chain

vars == <<order, request, chain>>

-----------------------------------------------------------------------------
(* Data *)

\* "absent" and "lost" are not statuses of the code: they mark an id not yet
\* handed out and an order a restart has forgotten.
Statuses == {"absent", "structured", "tokenized", "funded", "settled",
             "in_repayment", "repaid", "lost"}

Repayments == [tx : Requests, amount : Amounts]

OrderRecords ==
  [status       : Statuses,
   tokenization : Requests \cup {None},
   financing    : [amount : Amounts, tx : {MadeUpTx}] \cup {None},
   settlement   : Requests \cup {None},
   repayments   : Seq(Repayments),
   bridge       : Requests \cup {None}]

Blank(status) ==
  [status |-> status, tokenization |-> None, financing |-> None,
   settlement |-> None, repayments |-> <<>>, bridge |-> None]

Operations == {"tokenize", "settle", "repay", "bridge"}

\* The order a request names, its handler and where that handler stands.
RequestRecords ==
  [op     : Operations \cup {"none"},
   order  : Orders \cup {None},
   amount : Amounts \cup {None},
   stage  : {"idle", "calling", "done", "failed"}]

\* What became of a transaction; one that was refused, displaced or lost is
\* as good as reverted.
ChainStates == {"none", "pending", "mined", "reverted"}

Known(o) == order[o].status \notin {"absent", "lost"}

\* order.repayments.reduce((sum, item) => sum + item.amount, 0)
Total(reps) == FoldLeft(LAMBDA sum, item : sum + item.amount, 0, reps)

\* Mutant: the conversion to cents drops what it should round.
CentsTruncated(amount) == {amount \div Cent}

\* What Math.round(amount * 100) may give: the nearest number of cents, or
\* either neighbour where the product may slip over the tie between them.
Cents(amount) ==
  {cents \in {amount \div Cent, amount \div Cent + 1} :
     2 * (Cent * cents - amount) \in -(Cent + 2 * Slip) .. Cent + 2 * Slip}

\* The cents a call of recordRepayment can carry: its argument is a uint256.
Carried(amount) == Cents(amount) \cap Nat

\* order.financing && repaidAmount >= order.financing.amount
Covered(rec) ==
  rec.financing # None /\ Total(rec.repayments) >= rec.financing.amount

-----------------------------------------------------------------------------
(* What each handler does to the order once it has its transaction. *)

\* Mutant: the tokenized order is a fresh object, not the one in the Map.
TokenizedAfresh(rec, tx) == [Blank("tokenized") EXCEPT !.tokenization = tx]

Tokenized(rec, tx) == [rec EXCEPT !.tokenization = tx, !.status = "tokenized"]

Settled(rec, tx) == [rec EXCEPT !.settlement = tx, !.status = "settled"]

\* Mutant: the handler invents a status of its own.
BridgePreparedStatus(rec, tx) == [rec EXCEPT !.bridge = tx, !.status = "bridged"]

BridgePrepared(rec, tx) == [rec EXCEPT !.bridge = tx]

\* The repayment is pushed first; whether the order is repaid is decided on
\* the sum that includes it.
Repaid(rec, tx, amount) ==
  LET new == [rec EXCEPT !.repayments =
                Append(@, [tx |-> tx, amount |-> amount])]
  IN  [new EXCEPT !.status = IF Covered(new) THEN "repaid" ELSE "in_repayment"]

Outcome(op, rec, tx, amount) ==
  CASE op = "tokenize" -> Tokenized(rec, tx)
    [] op = "settle"   -> Settled(rec, tx)
    [] op = "repay"    -> Repaid(rec, tx, amount)
    [] op = "bridge"   -> BridgePrepared(rec, tx)

-----------------------------------------------------------------------------
Init ==
  /\ order = [o \in Orders |-> Blank("absent")]
  /\ request = [r \in Requests |-> [op |-> "none", order |-> None,
                                    amount |-> None, stage |-> "idle"]]
  /\ chain = [r \in Requests |-> "none"]

\* aggregateDemand stores a structured order.  Which commitments it may do
\* that from is the subject of module PoolDemand.
Aggregate(o) ==
  /\ order[o].status = "absent"
  /\ order' = [order EXCEPT ![o] = Blank("structured")]
  /\ UNCHANGED <<request, chain>>

\* A handler up to its await: mustOrder, then the gateway call.  Without the
\* chain configuration the gateway answers with a mock hash and the rest of
\* the handler runs before any other request is looked at.  With it the call
\* waits, or throws at once when the ABI or an argument makes it impossible.
Call(r, op, o, amount) ==
  /\ request[r].stage = "idle"
  /\ Known(o)
  /\ \E stage \in IF Live THEN {"calling", "failed"} ELSE {"done"} :
       /\ op = "repay" /\ stage = "calling" => Carried(amount) # {}
       /\ request' = [request EXCEPT ![r] =
            [op |-> op, order |-> o, amount |-> amount, stage |-> stage]]
  /\ order' = IF Live THEN order
              ELSE [order EXCEPT ![o] = Outcome(op, order[o], r, amount)]
  /\ UNCHANGED chain

Tokenize(r, o) == Call(r, "tokenize", o, None)
Settle(r, o) == Call(r, "settle", o, None)
RecordRepayment(r, o, amount) == Call(r, "repay", o, amount)
PrepareBridge(r, o) == Call(r, "bridge", o, None)

\* Mutant: new terms leave the status alone.
FinanceKeepsStatus(o, amount) ==
  /\ Known(o)
  /\ order' = [order EXCEPT ![o].financing = [amount |-> amount, tx |-> MadeUpTx]]
  /\ UNCHANGED <<request, chain>>

\* The one synchronous handler.  It replaces earlier financing terms and
\* makes its transaction hash up.
Finance(o, amount) ==
  /\ Known(o)
  /\ order' = [order EXCEPT ![o].financing = [amount |-> amount, tx |-> MadeUpTx],
                            ![o].status = "funded"]
  /\ UNCHANGED <<request, chain>>

-----------------------------------------------------------------------------
(* The contract call of a live gateway, and the chain. *)

\* ethers has populated, signed and sent the transaction.
Broadcast(r) ==
  /\ request[r].stage = "calling"
  /\ chain[r] = "none"
  /\ chain' = [chain EXCEPT ![r] = "pending"]
  /\ UNCHANGED <<order, request>>

\* The chain executes the transaction, or reverts it, whether or not the
\* process that sent it still waits.
Execute(r, verdict) ==
  /\ chain[r] = "pending"
  /\ chain' = [chain EXCEPT ![r] = verdict]
  /\ UNCHANGED <<order, request>>

Mine(r) == Execute(r, "mined")
Revert(r) == Execute(r, "reverted")

\* Mutant: the handler takes the hash without waiting for the receipt.
ResumeUnmined(r) ==
  /\ request[r].stage = "calling"
  /\ chain[r] # "none"
  /\ order' = [order EXCEPT ![request[r].order] =
                 Outcome(request[r].op, @, r, request[r].amount)]
  /\ request' = [request EXCEPT ![r].stage = "done"]
  /\ UNCHANGED chain

\* tx.wait() resolves with the receipt and the handler runs to its end on
\* the order as it is now, not as it was when the handler began.
Resume(r) ==
  /\ request[r].stage = "calling"
  /\ chain[r] = "mined"
  /\ order' = [order EXCEPT ![request[r].order] =
                 Outcome(request[r].op, @, r, request[r].amount)]
  /\ request' = [request EXCEPT ![r].stage = "done"]
  /\ UNCHANGED chain

\* The awaited call throws and the rest of the handler is skipped.
Abandon(r) ==
  /\ request[r].stage = "calling"
  /\ request' = [request EXCEPT ![r].stage = "failed"]
  /\ UNCHANGED <<order, chain>>

\* tx.wait() throws because the transaction was reverted.
Reverted(r) == chain[r] = "reverted" /\ Abandon(r)

\* The RPC endpoint fails at any moment: before the transaction is sent,
\* while it is pending, or after it was mined and before the receipt is read.
RpcError(r) == Abandon(r)

\* The process dies and starts again: the Map is empty, the handlers gone.
Restart ==
  /\ order' = [o \in Orders |->
                 IF Known(o) THEN Blank("lost") ELSE order[o]]
  /\ request' = [r \in Requests |->
                   IF request[r].stage = "calling"
                   THEN [request[r] EXCEPT !.stage = "failed"] ELSE request[r]]
  /\ UNCHANGED chain

Handlers(r) ==
  \E o \in Orders :
    \/ Tokenize(r, o)
    \/ Settle(r, o)
    \/ PrepareBridge(r, o)
    \/ \E amount \in Amounts : RecordRepayment(r, o, amount)

Gateway(r) ==
  \/ Broadcast(r) \/ Mine(r) \/ Revert(r)
  \/ Resume(r) \/ Reverted(r) \/ RpcError(r)

Next ==
  \/ \E o \in Orders : Aggregate(o)
  \/ \E o \in Orders, amount \in Amounts : Finance(o, amount)
  \/ \E r \in Requests : Handlers(r)
  \/ \E r \in Requests : Gateway(r)
  \/ Restart

Spec == Init /\ [][Next]_vars

-----------------------------------------------------------------------------
(* What the handlers maintain *)

TypeOK ==
  /\ order \in [Orders -> OrderRecords]
  /\ request \in [Requests -> RequestRecords]
  /\ chain \in [Requests -> ChainStates]

Justified(rec) ==
  /\ rec.status \in {"absent", "structured", "lost"} =>
       /\ rec.tokenization = None /\ rec.financing = None
       /\ rec.settlement = None /\ rec.repayments = <<>>
  /\ rec.status = "tokenized" => rec.tokenization # None
  /\ rec.status = "funded" => rec.financing # None
  /\ rec.status = "settled" => rec.settlement # None
  /\ rec.status = "in_repayment" => rec.repayments # <<>> /\ ~Covered(rec)
  /\ rec.status = "repaid" => rec.repayments # <<>> /\ Covered(rec)

\* The status an order reports is borne out by its records, whichever of the
\* unordered handlers ran last.  In particular "repaid" means that the
\* repayments cover the financing terms now in force, and "in_repayment"
\* that they do not, although new terms may replace those the repayments
\* were made under.
StatusJustified == \A o \in Orders : Justified(order[o])

\* tx is the transaction of a finished call of op on order o, and a live
\* gateway had it mined.
Backed(tx, op, o) ==
  /\ request[tx].op = op
  /\ request[tx].order = o
  /\ request[tx].stage = "done"
  /\ Live => chain[tx] = "mined"

RecordBacked(o) ==
  /\ order[o].tokenization # None => Backed(order[o].tokenization, "tokenize", o)
  /\ order[o].settlement # None => Backed(order[o].settlement, "settle", o)
  /\ order[o].bridge # None => Backed(order[o].bridge, "bridge", o)
  /\ \A i \in DOMAIN order[o].repayments :
       LET item == order[o].repayments[i]
       IN  Backed(item.tx, "repay", o) /\ item.amount = request[item.tx].amount

CreditedOnce(o) ==
  \A i, j \in DOMAIN order[o].repayments :
    order[o].repayments[i].tx = order[o].repayments[j].tx => i = j

\* Every contract record of an order carries the transaction of a call of
\* that kind, on that order, for that amount, which the chain has executed;
\* no transaction is credited twice.  A handler that failed after sending
\* its transaction leaves no record behind.
RecordsBacked == \A o \in Orders : RecordBacked(o) /\ CreditedOnce(o)

\* A repayment the API has acknowledged is in the order's list, with its
\* amount: no other handler, finishing before or after it, drops it.
AcknowledgedCredited ==
  \A r \in Requests, o \in Orders :
    /\ request[r].op = "repay" /\ request[r].order = o
    /\ request[r].stage = "done"
    /\ Known(o)
    => \E i \in DOMAIN order[o].repayments :
         order[o].repayments[i] = [tx |-> r, amount |-> request[r].amount]

\* What the chain has recorded as repaid on an order at the least, in cents.
ChainRepaid(o) ==
  MapThenSumSet(LAMBDA r : Min(Carried(request[r].amount)),
                {r \in Requests : /\ request[r].op = "repay"
                                  /\ request[r].order = o
                                  /\ chain[r] = "mined"})

\* What rounding one repayment to cents may drop: half a cent and the slip.
Loss == (Cent + 2 * Slip) \div 2

\* The API never shows more repaid than the chain has recorded, up to the
\* rounding of each repayment to cents.
CreditWithinChain ==
  Live => \A o \in Orders :
            Total(order[o].repayments)
              <= Cent * ChainRepaid(o) + Loss * Len(order[o].repayments)

Extends(old, new) ==
  /\ \/ new.repayments = old.repayments
     \/ \E item \in Repayments : new.repayments = Append(old.repayments, item)
  /\ old.tokenization # None => new.tokenization # None
  /\ old.financing # None => new.financing # None
  /\ old.settlement # None => new.settlement # None
  /\ old.bridge # None => new.bridge # None

\* While the process lives, the history of an order only grows: repayments
\* are appended one at a time and a record once made may be replaced by a
\* newer one but never disappears.
HistoryKept ==
  [][\A o \in Orders : Known(o) /\ order'[o].status # "lost" =>
       Extends(order[o], order'[o])]_vars

Repaying == {r \in Requests : request[r].op = "repay"}

Ledger == INSTANCE RepaymentLedger WITH
  claim    <- [r \in Requests |->
                 IF r \in Repaying
                 THEN [order |-> request[r].order, amount |-> request[r].amount]
                 ELSE None],
  open     <- {r \in Repaying : request[r].stage = "calling"},
  executed <- {r \in Repaying : chain[r] = "mined"},
  credit   <- [o \in Orders |-> order[o].repayments],
  OnChain  <- Live

\* The handlers keep the ledger of repayments: seen from the repayments alone,
\* everything the other handlers do to an order is a step that does nothing.
ImplementsLedger == Ledger!Spec

-----------------------------------------------------------------------------
(* What the documents say and the code does not do *)

\* README.md:17, "The full cycle is auditable through API and on-chain tx
\* hash traceability": with a live gateway, the transaction that an order's
\* financing shows is one the chain knows.
FinancingTraceable ==
  Live => \A o \in Orders : order[o].financing # None
                               => order[o].financing.tx \in Requests

\* README.md:173, "History and lifecycle states remain consistent between
\* API and blockchain": when no call is under way, a repayment the chain has
\* executed on an order the API knows is in that order's history.
LedgersAgree ==
  (\A r \in Requests : request[r].stage # "calling" /\ chain[r] # "pending")
    => \A r \in Requests :
         LET o == request[r].order
         IN  request[r].op = "repay" /\ chain[r] = "mined" /\ Known(o)
               => \E i \in DOMAIN order[o].repayments : order[o].repayments[i].tx = r
=============================================================================
