-------------------------- MODULE ContractGateway --------------------------
(***************************************************************************)
(* PrivateL1ContractsService, whose five methods all run one contract call *)
(* through withContract: it reads the configuration, resolves the ABI and  *)
(* then lets ethers send one transaction and wait for its receipt.         *)
(*                                                                         *)
(* Every call builds a wallet of its own from the one signer key, so       *)
(* nothing orders the calls: two under way at once may read the same nonce *)
(* for their transactions, the node keeps one of the two, and the caller   *)
(* of the other may wait until the process ends.                           *)
(*                                                                         *)
(* withContract runs without interruption up to ethers' first request.     *)
(* The ABI file belongs to others, who may replace or remove it at any     *)
(* moment, also between existsSync and readFileSync.  Both ABIs are        *)
(* resolved in the same way; the model follows the one whose function is   *)
(* called, because the other cannot stop the call.                         *)
(***************************************************************************)
EXTENDS Integers, FiniteSets

CONSTANT Requests      \* the calls; also their transactions

ASSUME GatewayAssumption == IsFiniteSet(Requests)

\* What an ABI setting holds: nothing, or not the JSON of a list; a list
\* without the function called; a list with it.
AbiTexts == {"none", "useless", "good"}

VARIABLES
  env,          \* the settings the process was started with
  file,         \* the file POOL_MANAGER_ABI_PATH or its sibling names
  call,         \* what each caller sees, and the nonce its wallet has read
  tx            \* where each transaction is

vars == <<env, file, call, tx>>

\* "mock" when the RPC url, the key or an address is not set, and otherwise
\* what the environment holds for an ABI.
Settings == {"mock"} \cup AbiTexts

CallRecords ==
  [stage : {"idle", "mocked", "calling", "sent", "answered", "failed"},
   nonce : Nat]

TxStates == {"none", "flying", "lost", "refused", "pooled", "replaced",
             "mined", "reverted"}

-----------------------------------------------------------------------------
(* The ABI *)

\* Array.isArray(JSON.parse(text)); nothing looks at what is in the list.
IsList(text) == text \in {"useless", "good"}

\* Mutant: a file that does not parse, or that has gone, stops the call.
ResolvedOrThrow(json, existed, text) ==
  IF IsList(json) THEN json ELSE IF existed THEN text ELSE "good"

\* resolveAbi: the list in the environment, else the one in a file that
\* existed when it was looked for, as it was when it was read, else the
\* embedded one.
Resolved(json, existed, text) ==
  IF IsList(json) THEN json
  ELSE IF existed /\ IsList(text) THEN text
  ELSE "good"

-----------------------------------------------------------------------------
(* The signer's account, as the node sees it *)

Executed == {r \in Requests : tx[r] \in {"mined", "reverted"}}

Accepted == Executed \cup {r \in Requests : tx[r] = "pooled"}

NoncesOf(S) == {call[r].nonce : r \in S}

\* Mutant: the wallet asks for the count of executed transactions only.
LatestCount == Cardinality(NoncesOf(Executed))

\* Mutant: the wallets of the process share a counter of their own.
CallCount == Cardinality({r \in Requests : tx[r] # "none"})

\* getTransactionCount(signer, "pending")
PendingCount ==
  CHOOSE n \in 0 .. Cardinality(Requests) :
    n \notin NoncesOf(Accepted) /\ 0 .. n - 1 \subseteq NoncesOf(Accepted)

-----------------------------------------------------------------------------
Init ==
  /\ env \in Settings
  /\ file \in AbiTexts
  /\ call = [r \in Requests |-> [stage |-> "idle", nonce |-> 0]]
  /\ tx = [r \in Requests |-> "none"]

Turn(r, stage) == call' = [call EXCEPT ![r].stage = stage]
Move(r, state) == tx' = [tx EXCEPT ![r] = state]

\* fallback(): a mock hash, and the ABI is not looked at.
Mock(r) ==
  /\ call[r].stage = "idle"
  /\ env = "mock"
  /\ Turn(r, "mocked")
  /\ UNCHANGED <<env, file, tx>>

\* withContract up to ethers' first request.  A file that holds no list may
\* exist all the same.  A list without the function leaves a contract without
\* the method, and calling that throws.
Begin(r) ==
  /\ call[r].stage = "idle"
  /\ env # "mock"
  /\ file' \in AbiTexts
  /\ \E existed \in {file # "none", TRUE} :
       Turn(r, IF Resolved(env, existed, file') = "good"
               THEN "calling" ELSE "failed")
  /\ UNCHANGED <<env, tx>>

\* ethers reads the nonce, and signs and submits the transaction.
Send(r) ==
  /\ call[r].stage = "calling"
  /\ call' = [call EXCEPT ![r] = [stage |-> "sent", nonce |-> PendingCount]]
  /\ Move(r, "flying")
  /\ UNCHANGED <<env, file>>

-----------------------------------------------------------------------------
(* The node, which does not ask whether the caller still waits. *)

\* A nonce that has been executed is too low.  One that is pooled may be
\* taken over, or not, depending on the price offered.
Receive(r) ==
  LET rivals == {w \in Accepted : call[w].nonce = call[r].nonce}
  IN  /\ tx[r] = "flying"
      /\ \/ rivals = {} /\ Move(r, "pooled")
         \/ rivals # {} /\ Move(r, "refused")
         \/ /\ rivals # {} /\ rivals \cap Executed = {}
            /\ tx' = [w \in Requests |-> IF w = r THEN "pooled"
                                         ELSE IF w \in rivals THEN "replaced"
                                         ELSE tx[w]]
      /\ UNCHANGED <<env, file, call>>

Lose(r) == tx[r] = "flying" /\ Move(r, "lost") /\ UNCHANGED <<env, file, call>>

\* Transactions of one sender are executed in the order of their nonces.
Execute(r) ==
  /\ tx[r] = "pooled"
  /\ call[r].nonce = Cardinality(NoncesOf(Executed))
  /\ \E verdict \in {"mined", "reverted"} : Move(r, verdict)
  /\ UNCHANGED <<env, file, call>>

-----------------------------------------------------------------------------
(* The caller *)

\* Mutant: any receipt under the call's nonce is taken for its own.
AnswerAnyReceipt(r) ==
  /\ call[r].stage = "sent"
  /\ call[r].nonce \in NoncesOf(Executed)
  /\ tx[r] # "reverted"
  /\ Turn(r, "answered")
  /\ UNCHANGED <<env, file, tx>>

\* tx.wait() resolves, and receipt.hash is the hash of this transaction.
Answer(r) ==
  /\ call[r].stage = "sent"
  /\ tx[r] = "mined"
  /\ Turn(r, "answered")
  /\ UNCHANGED <<env, file, tx>>

Fail(r) ==
  /\ call[r].stage \in {"calling", "sent"}
  /\ Turn(r, "failed")
  /\ UNCHANGED <<env, file, tx>>

\* The node refuses the transaction, the request that carried it times out,
\* or the receipt says that it was reverted.  A contract call's tx.wait() does
\* not look for another transaction under its nonce, and has no timeout: the
\* caller of one that was displaced is not told.
Rejected(r) == tx[r] \in {"refused", "lost", "reverted"} /\ Fail(r)

\* The endpoint fails, or an answer of it is lost, at any moment.
RpcError(r) == Fail(r)

-----------------------------------------------------------------------------
(* The surroundings *)

Redeploy ==
  /\ file' \in AbiTexts \ {file}
  /\ UNCHANGED <<env, call, tx>>

Restart ==
  /\ env' \in Settings
  /\ call' = [r \in Requests |->
                IF call[r].stage \in {"calling", "sent"}
                THEN [call[r] EXCEPT !.stage = "failed"] ELSE call[r]]
  /\ UNCHANGED <<file, tx>>

Next ==
  \/ \E r \in Requests :
       \/ Mock(r) \/ Begin(r) \/ Send(r)
       \/ Receive(r) \/ Lose(r) \/ Execute(r)
       \/ Answer(r) \/ Rejected(r) \/ RpcError(r)
  \/ Redeploy
  \/ Restart

\* The event loop runs what is ready, a submitted transaction arrives or is
\* lost, the chain executes what it can, and ethers' polling finds it.
Fairness ==
  \A r \in Requests :
    /\ WF_vars(Send(r))
    /\ WF_vars(Receive(r) \/ Lose(r))
    /\ WF_vars(Execute(r))
    /\ WF_vars(Answer(r))
    /\ WF_vars(Rejected(r))

Spec == Init /\ [][Next]_vars
FairSpec == Spec /\ Fairness
-----------------------------------------------------------------------------
(* What the gateway maintains *)

TypeOK ==
  /\ env \in Settings
  /\ file \in AbiTexts
  /\ call \in [Requests -> CallRecords]
  /\ tx \in [Requests -> TxStates]

\* The nonces the node has accepted are those from 0 up, without a gap that
\* would keep every later transaction waiting, whichever calls failed, were
\* displaced or were cut off by a restart before or after they had sent.
NoncesUnbroken ==
  NoncesOf(Accepted) = 0 .. Cardinality(NoncesOf(Accepted)) - 1

\* Only calls that overlap can lose to each other: a call never sends under
\* a nonce that the node had accepted before for another, whether that one
\* was executed, reverted, still waits or was displaced since.
OnlyRacesCollide ==
  [][\A r, w \in Requests :
       /\ tx[r] = "none" /\ tx'[r] # "none"
       /\ tx[w] \in {"pooled", "replaced", "mined", "reverted"}
       => call'[r].nonce # call[w].nonce]_vars

\* A faulty ABI setting stops a call only when it is a list, and one without
\* the function: a file that is missing, unreadable or removed while it is
\* being looked at never does.
AbiFaultsForgiven ==
  [][\A r \in Requests :
       call[r].stage = "idle" /\ call'[r].stage = "failed" =>
         \/ env = "useless"
         \/ env # "good" /\ file' = "useless"]_vars

Stages ==
  [r \in Requests |-> IF call[r].stage = "sent" THEN "calling" ELSE call[r].stage]

Fates ==
  [r \in Requests |->
     CASE tx[r] \in {"none", "mined"} -> tx[r]
       [] tx[r] \in {"flying", "pooled"} -> "pending"
       [] OTHER -> "void"]

Call == INSTANCE ContractCall WITH stage <- Stages, chain <- Fates

\* The gateway keeps what its callers rely on: in particular no call is
\* answered by a reverted transaction or by another call's.
ImplementsCall == Call!Spec

\* A call that has begun is answered or fails, unless its transaction is
\* displaced: none waits for one that was refused or lost, or that has a gap
\* before it which nothing will fill.
CallsEnd ==
  \A r \in Requests :
    call[r].stage = "calling" ~>
      call[r].stage \in {"answered", "failed"} \/ tx[r] = "replaced"
=============================================================================
