--------------------------- MODULE RepaymentLedger ---------------------------
(***************************************************************************)
(* What the API promises about repayments, whatever else happens to an     *)
(* order: a repayment is claimed once, for one order and one amount, and   *)
(* is credited to that order, with that amount, at most once, after the    *)
(* chain has executed it, or is given up.  Credits are kept in the order   *)
(* in which they were made and vanish only all together.                   *)
(***************************************************************************)
EXTENDS Naturals, Sequences

CONSTANTS
  Orders,       \* what is repaid
  Requests,     \* who claims to repay, and the transactions that do
  Amounts,      \* how much
  OnChain,      \* FALSE where there is no chain to execute anything
  None          \* nothing was claimed

VARIABLES
  claim,        \* what each request claims to repay
  open,         \* the requests that are neither credited nor given up
  executed,     \* the repayments the chain has executed
  credit        \* what is credited to each order

vars == <<claim, open, executed, credit>>

Init ==
  /\ claim = [r \in Requests |-> None]
  /\ open = {}
  /\ executed = {}
  /\ credit = [o \in Orders |-> <<>>]

CreditedTo(o, r, amount) ==
  [credit EXCEPT ![o] = Append(credit[o], [tx |-> r, amount |-> amount])]

Claimed(r, o, amount) == [claim EXCEPT ![r] = [order |-> o, amount |-> amount]]

\* A claim that cannot be put to the chain is given up at once.
Claim(r, o, amount) ==
  /\ OnChain
  /\ claim[r] = None
  /\ claim' = Claimed(r, o, amount)
  /\ open' \in {open, open \cup {r}}
  /\ UNCHANGED <<executed, credit>>

\* Without a chain the claim is believed.
Believe(r, o, amount) ==
  /\ ~OnChain
  /\ claim[r] = None
  /\ claim' = Claimed(r, o, amount)
  /\ credit' = CreditedTo(o, r, amount)
  /\ UNCHANGED <<open, executed>>

\* The chain does not ask whether anyone still waits.
Execute(r) ==
  /\ claim[r] # None
  /\ r \notin executed
  /\ executed' = executed \cup {r}
  /\ UNCHANGED <<claim, open, credit>>

Credit(r) ==
  /\ r \in open \cap executed
  /\ credit' = CreditedTo(claim[r].order, r, claim[r].amount)
  /\ open' = open \ {r}
  /\ UNCHANGED <<claim, executed>>

GiveUp(r) ==
  /\ r \in open
  /\ open' = open \ {r}
  /\ UNCHANGED <<claim, executed, credit>>

\* The process restarts.
Forget ==
  /\ credit' = [o \in Orders |-> <<>>]
  /\ open' = {}
  /\ UNCHANGED <<claim, executed>>

Next ==
  \/ \E r \in Requests, o \in Orders, amount \in Amounts :
       Claim(r, o, amount) \/ Believe(r, o, amount)
  \/ \E r \in Requests : Execute(r) \/ Credit(r) \/ GiveUp(r)
  \/ Forget

Spec == Init /\ [][Next]_vars
=============================================================================
