------------------------- MODULE LifecycleOverGateway -------------------------
(***************************************************************************)
(* The handlers of OrderLifecycle over the gateway they really call, with  *)
(* its nonces, refusals and displaced transactions: what OrderLifecycle    *)
(* supposes of a contract call, ContractGateway delivers.                  *)
(*                                                                         *)
(* A step is one of the gateway's, together with the part of a handler     *)
(* that runs without interruption before or after it, or one of the        *)
(* service's own.  The settings are those of a live gateway throughout.    *)
(***************************************************************************)
EXTENDS ContractGateway

CONSTANTS Orders, Amounts, Cent, Slip, None, MadeUpTx     \* of OrderLifecycle

VARIABLES
  order,        \* the orders Map
  asked         \* the handler each call was made by, and for which order

all == <<env, file, call, tx, order, asked>>

\* What a handler sees of its call and of the chain, which is no more than
\* ContractCall says of them.
HandlerRequests ==
  [r \in Requests |->
     [op |-> asked[r].op, order |-> asked[r].order, amount |-> asked[r].amount,
      stage |-> IF Stages[r] = "answered" THEN "done" ELSE Stages[r]]]

HandlerChain ==
  [r \in Requests |-> IF Fates[r] = "void" THEN "reverted" ELSE Fates[r]]

Life == INSTANCE OrderLifecycle WITH
  Live <- TRUE, request <- HandlerRequests, chain <- HandlerChain

ASSUME LifecycleOverGatewayAssumption == Life!LifecycleAssumption

-----------------------------------------------------------------------------
StartLive ==
  /\ Init
  /\ env # "mock"
  /\ order = [o \in Orders |-> Life!Blank("absent")]
  /\ asked = [r \in Requests |-> [op |-> "none", order |-> None, amount |-> None]]

\* A handler up to the gateway's first request.  A repayment that no uint256
\* can carry fails when ethers encodes the call, before it sends anything.
Started(r, op, o, amount) ==
  /\ Life!Known(o)
  /\ Begin(r)
  /\ op = "repay" /\ call'[r].stage = "calling" => Life!Carried(amount) # {}
  /\ asked' = [asked EXCEPT ![r] = [op |-> op, order |-> o, amount |-> amount]]
  /\ UNCHANGED order

\* The gateway answers, and the handler runs to its end.
Resumed(r) ==
  /\ Answer(r)
  /\ order' = [order EXCEPT ![asked[r].order] =
                 Life!Outcome(asked[r].op, @, r, asked[r].amount)]
  /\ UNCHANGED asked

\* What happens to a call in between, or makes its handler fail.
Underway(r) ==
  /\ Send(r) \/ Receive(r) \/ Lose(r) \/ Execute(r) \/ Rejected(r) \/ RpcError(r)
  /\ UNCHANGED <<order, asked>>

\* The service's own steps: an order enters the Map, or is financed.
OwnStep ==
  /\ UNCHANGED <<env, file, call, tx, asked>>
  /\ \E o \in Orders :
       Life!Aggregate(o) \/ \E amount \in Amounts : Life!Finance(o, amount)

RestartLive ==
  /\ Restart
  /\ env' # "mock"
  /\ order' = [o \in Orders |-> IF Life!Known(o) THEN Life!Blank("lost") ELSE order[o]]
  /\ UNCHANGED asked

NextLive ==
  \/ \E r \in Requests :
       \/ \E o \in Orders :
            \/ \E op \in {"tokenize", "settle", "bridge"} : Started(r, op, o, None)
            \/ \E amount \in Amounts : Started(r, "repay", o, amount)
       \/ Resumed(r)
       \/ Underway(r)
  \/ Redeploy /\ UNCHANGED <<order, asked>>
  \/ OwnStep
  \/ RestartLive

LiveSpec == StartLive /\ [][NextLive]_all
-----------------------------------------------------------------------------
\* The detailed gateway is all that the handlers suppose it to be: with racing
\* nonces, refused, lost and displaced transactions, faulty ABIs and restarts,
\* the orders go through no life that OrderLifecycle does not describe.
ImplementsLifecycle == Life!Spec
=============================================================================
