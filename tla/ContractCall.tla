---------------------------- MODULE ContractCall ----------------------------
(***************************************************************************)
(* What a caller of PrivateL1ContractsService may rely on.  A call is      *)
(* answered, with the hash of its own transaction, only after the chain    *)
(* has executed that transaction; otherwise it fails, or is answered with  *)
(* a mock hash and sends nothing.  A failed call says nothing about its    *)
(* transaction, which the chain may have executed or may still execute.    *)
(***************************************************************************)
CONSTANT Requests      \* the calls; also their transactions

VARIABLES
  stage,               \* what the caller sees
  chain                \* what became of the transaction

vars == <<stage, chain>>

Init ==
  /\ stage = [r \in Requests |-> "idle"]
  /\ chain = [r \in Requests |-> "none"]

Turn(r, to) == stage' = [stage EXCEPT ![r] = to] /\ UNCHANGED chain
Move(r, to) == chain' = [chain EXCEPT ![r] = to] /\ UNCHANGED stage

\* The call waits, or is over at once: mocked, or impossible.
Begin(r) ==
  /\ stage[r] = "idle"
  /\ \E to \in {"calling", "mocked", "failed"} : Turn(r, to)

Send(r) == stage[r] = "calling" /\ chain[r] = "none" /\ Move(r, "pending")

Execute(r) == chain[r] = "pending" /\ Move(r, "mined")

\* Reverted, refused, displaced by another or lost on its way.
Void(r) == chain[r] = "pending" /\ Move(r, "void")

Answer(r) == stage[r] = "calling" /\ chain[r] = "mined" /\ Turn(r, "answered")

Fail(r) == stage[r] = "calling" /\ Turn(r, "failed")

\* The process restarts.
Restart ==
  /\ stage' = [r \in Requests |->
                 IF stage[r] = "calling" THEN "failed" ELSE stage[r]]
  /\ UNCHANGED chain

Next ==
  \/ \E r \in Requests :
       Begin(r) \/ Send(r) \/ Execute(r) \/ Void(r) \/ Answer(r) \/ Fail(r)
  \/ Restart

Spec == Init /\ [][Next]_vars
=============================================================================
