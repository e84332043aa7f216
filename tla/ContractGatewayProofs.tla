------------------------ MODULE ContractGatewayProofs ------------------------
(***************************************************************************)
(* Proofs about ContractGateway, for any number of calls, and about the    *)
(* handlers over it.                                                       *)
(*                                                                         *)
(* What holds it together is a number: the nonces that the node has        *)
(* accepted are those below it, every transaction that is still on its way *)
(* carries one that is not above it, and a displaced one left its nonce    *)
(* behind.  It is the number the next wallet is told.                      *)
(***************************************************************************)
EXTENDS LifecycleOverGateway, FiniteSetTheorems, TLAPS

\* A call that has not sent has no transaction.
Unsent ==
  \A r \in Requests :
    call[r].stage \in {"idle", "mocked", "calling"} => tx[r] = "none"

\* The node keeps one transaction of a nonce.
OneOfNonce ==
  \A r, w \in Accepted : call[r].nonce = call[w].nonce => r = w

Counted(k) ==
  /\ NoncesOf(Accepted) = 0 .. k - 1
  /\ \A r \in Requests : tx[r] = "flying" => call[r].nonce <= k
  /\ \A r \in Requests : tx[r] = "replaced" => call[r].nonce < k

Inv ==
  /\ TypeOK
  /\ Unsent
  /\ OneOfNonce
  /\ \E k \in Nat : Counted(k)

-----------------------------------------------------------------------------
(* Nonces *)

\* The parts of the state that the steps look at have their types, and are functions.
LEMMA Types ==
  ASSUME TypeOK
  PROVE  /\ \A r \in Requests : /\ call[r] \in CallRecords
                                /\ call[r].nonce \in Nat
                                /\ tx[r] \in TxStates
         /\ call = [r \in Requests |-> call[r]]
         /\ tx = [r \in Requests |-> tx[r]]
BY DEF TypeOK, CallRecords

\* A transaction the node took is in the pool, mined or reverted.
LEMMA AcceptedStates ==
  /\ Accepted = {r \in Requests : tx[r] \in {"pooled", "mined", "reverted"}}
  /\ Accepted' = {r \in Requests : tx'[r] \in {"pooled", "mined", "reverted"}}
BY DEF Accepted, Executed

\* A wallet is told how many nonces the node has accepted.
LEMMA PendingIsCount ==
  ASSUME TypeOK, OneOfNonce, NEW k \in Nat, Counted(k)
  PROVE  PendingCount = k
<1>1. PICK S : S = Accepted
  OBVIOUS
<1>2. S \subseteq Requests /\ IsFiniteSet(Requests)
  BY <1>1, AcceptedStates, GatewayAssumption
<1>3. PICK f : f = [r \in S |-> call[r].nonce]
  OBVIOUS
<1>4. NoncesOf(S) = 0 .. k - 1
  BY <1>1 DEF Counted
<1>5. f \in Surjection(S, 0 .. k - 1)
  BY <1>3, <1>4 DEF Surjection, NoncesOf
<1>6. IsFiniteSet(S) /\ Cardinality(S) <= Cardinality(Requests)
  BY <1>2, FS_Subset
<1>7. Cardinality(0 .. k - 1) <= Cardinality(S)
  BY <1>5, <1>6, FS_Surjection
<1>8. Cardinality(0 .. k - 1) = k
  BY FS_Interval
<1>9. Cardinality(Requests) \in Nat /\ Cardinality(S) \in Nat
  BY <1>2, <1>6, FS_CardinalityType
<1>10. k \in 0 .. Cardinality(Requests)
  BY <1>6, <1>7, <1>8, <1>9
<1>11. PICK N : N = NoncesOf(Accepted)
  OBVIOUS
<1>12. N = 0 .. k - 1
  BY <1>11 DEF Counted
<1>13. k \notin N /\ 0 .. k - 1 \subseteq N
  BY <1>12
<1>14. ASSUME NEW n \in 0 .. Cardinality(Requests), n \notin N, 0 .. n - 1 \subseteq N
       PROVE  n = k
  <2>1. n \in Nat
    BY <1>9
  <2>2. ~(n < k)
    BY <1>12, <1>14, <2>1
  <2>3. CASE n > k
    <3>1. k \in 0 .. n - 1
      BY <2>1, <2>3
    <3> QED BY <1>12, <1>14, <3>1
  <2> QED BY <2>1, <2>2, <2>3
<1> QED BY <1>10, <1>11, <1>13, <1>14 DEF PendingCount

\* Nothing changes for the nonces while no transaction moves.
LEMMA NoncesStill ==
  ASSUME tx' = tx, \A r \in Requests : call'[r].nonce = call[r].nonce,
         NEW k \in Nat, Counted(k), OneOfNonce
  PROVE  OneOfNonce' /\ Counted(k)'
<1>1. Accepted' = Accepted /\ Accepted \subseteq Requests
  BY AcceptedStates
<1>2. NoncesOf(Accepted)' = NoncesOf(Accepted)
  BY <1>1 DEF NoncesOf
<1>3. OneOfNonce'
  BY <1>1 DEF OneOfNonce
<1> QED BY <1>2, <1>3 DEF Counted

-----------------------------------------------------------------------------
(* The steps *)

\* The steps of a caller that send nothing keep the invariant.
LEMMA CallerSteps ==
  ASSUME Inv, NEW r \in Requests, Mock(r) \/ Begin(r) \/ Answer(r) \/ Fail(r)
  PROVE  Inv'
<1>1. PICK k \in Nat : Counted(k)
  BY DEF Inv
<1>2. /\ \A q \in Requests : /\ call[q] \in CallRecords
                             /\ call[q].nonce \in Nat
                             /\ tx[q] \in TxStates
      /\ call = [q \in Requests |-> call[q]]
  BY Types DEF Inv
<1>3. PICK stage \in {"mocked", "calling", "failed", "answered"} :
        call' = [call EXCEPT ![r].stage = stage]
  BY DEF Mock, Begin, Answer, Fail, Turn
<1>4. /\ call[r].stage \in {"idle", "calling", "sent"} /\ tx' = tx
      /\ call[r].stage = "sent" => stage \in {"failed", "answered"}
      /\ env' = env /\ file' \in AbiTexts
  BY <1>3, <1>2 DEF Mock, Begin, Answer, Fail, Turn, Inv, TypeOK, CallRecords
<1>5. /\ call' \in [Requests -> CallRecords]
      /\ \A q \in Requests : call'[q].nonce = call[q].nonce
      /\ \A q \in Requests : q # r => call'[q] = call[q]
      /\ call'[r].stage = stage
  BY <1>2, <1>3 DEF CallRecords
<1>6. TypeOK'
  BY <1>4, <1>5 DEF Inv, TypeOK
<1>7. Unsent'
  BY <1>4, <1>5 DEF Inv, Unsent
<1>8. OneOfNonce' /\ Counted(k)'
  BY <1>1, <1>4, <1>5, NoncesStill DEF Inv
<1> QED BY <1>6, <1>7, <1>8 DEF Inv

\* The step that signs and sends a transaction keeps the invariant.
LEMMA SendStep ==
  ASSUME Inv, NEW r \in Requests, Send(r)
  PROVE  Inv'
<1>1. PICK k \in Nat : Counted(k)
  BY DEF Inv
<1>2. /\ \A q \in Requests : /\ call[q] \in CallRecords
                             /\ call[q].nonce \in Nat
                             /\ tx[q] \in TxStates
      /\ call = [q \in Requests |-> call[q]]
      /\ tx = [q \in Requests |-> tx[q]]
  BY Types DEF Inv
<1>3. PendingCount = k
  BY <1>1, PendingIsCount DEF Inv
<1>4. /\ call[r].stage = "calling" /\ tx[r] = "none"
      /\ call' = [call EXCEPT ![r] = [stage |-> "sent", nonce |-> k]]
      /\ tx' = [tx EXCEPT ![r] = "flying"]
      /\ UNCHANGED <<env, file>>
  BY <1>3 DEF Send, Move, Inv, Unsent
<1>5. /\ \A q \in Requests : q # r => call'[q] = call[q] /\ tx'[q] = tx[q]
      /\ call'[r] = [stage |-> "sent", nonce |-> k] /\ tx'[r] = "flying"
  BY <1>2, <1>4
<1>6. TypeOK'
  BY <1>4 DEF Inv, TypeOK, CallRecords, TxStates
<1>7. Unsent'
  BY <1>5 DEF Inv, Unsent
<1>8. Accepted' = Accepted /\ Accepted \subseteq Requests /\ r \notin Accepted
  BY <1>4, <1>5, AcceptedStates
<1>9. NoncesOf(Accepted)' = NoncesOf(Accepted)
  BY <1>5, <1>8 DEF NoncesOf
<1>10. OneOfNonce'
  BY <1>5, <1>8 DEF Inv, OneOfNonce
<1>11. Counted(k)'
  BY <1>1, <1>5, <1>9 DEF Counted
<1> QED BY <1>6, <1>7, <1>10, <1>11 DEF Inv

\* A move of the chain starts no transaction that was not sent.
LEMMA MoveTypes ==
  ASSUME Inv, tx' \in [Requests -> TxStates], UNCHANGED <<env, file, call>>,
         \A q \in Requests : tx[q] = "none" => tx'[q] = "none"
  PROVE  TypeOK' /\ Unsent'
BY DEF Inv, TypeOK, Unsent

\* A transaction that arrives, accepted, refused or in the place of another,
\* keeps the invariant.
LEMMA ReceiveStep ==
  ASSUME Inv, NEW r \in Requests, Receive(r)
  PROVE  Inv'
<1>1. PICK k \in Nat : Counted(k)
  BY DEF Inv
<1>2. /\ \A q \in Requests : call[q].nonce \in Nat /\ tx[q] \in TxStates
      /\ tx = [q \in Requests |-> tx[q]]
  BY Types DEF Inv
<1>3. PICK rivals : rivals = {w \in Accepted : call[w].nonce = call[r].nonce}
  OBVIOUS
<1>4. /\ tx[r] = "flying" /\ call' = call /\ UNCHANGED <<env, file>>
      /\ call[r].nonce <= k
      /\ r \notin Accepted /\ Accepted \subseteq Requests
  BY <1>1, AcceptedStates DEF Receive, Counted
<1>5. CASE rivals = {} /\ Move(r, "pooled")
  <2>1. /\ tx' = [tx EXCEPT ![r] = "pooled"] /\ tx'[r] = "pooled"
        /\ \A q \in Requests : q # r => tx'[q] = tx[q]
    BY <1>2, <1>5 DEF Move
  <2>2. Accepted' = Accepted \cup {r}
    BY <1>4, <2>1, AcceptedStates
  <2>3. NoncesOf(Accepted)' = NoncesOf(Accepted) \cup {call[r].nonce}
    BY <1>4, <2>2 DEF NoncesOf
  <2>4. call[r].nonce \notin NoncesOf(Accepted)
    BY <1>3, <1>5 DEF NoncesOf
  <2>5. call[r].nonce = k
    BY <1>1, <1>2, <1>4, <2>4 DEF Counted
  <2>6. NoncesOf(Accepted)' = 0 .. (k + 1) - 1
    BY <1>1, <2>3, <2>5 DEF Counted
  <2>7. Counted(k + 1)'
    BY <1>1, <1>2, <1>4, <2>1, <2>6 DEF Counted
  <2>8. OneOfNonce'
    BY <1>3, <1>4, <1>5, <2>2 DEF Inv, OneOfNonce
  <2>9. TypeOK' /\ Unsent'
    BY <1>2, <1>4, <2>1, MoveTypes DEF TxStates
  <2> QED BY <2>7, <2>8, <2>9 DEF Inv
<1>6. CASE Move(r, "refused")
  <2>1. /\ tx' = [tx EXCEPT ![r] = "refused"] /\ tx'[r] = "refused"
        /\ \A q \in Requests : q # r => tx'[q] = tx[q]
    BY <1>2, <1>6 DEF Move
  <2>2. Accepted' = Accepted
    BY <1>4, <2>1, AcceptedStates
  <2>3. NoncesOf(Accepted)' = NoncesOf(Accepted)
    BY <1>4, <2>2 DEF NoncesOf
  <2>4. Counted(k)' /\ OneOfNonce'
    BY <1>1, <1>4, <2>1, <2>2, <2>3 DEF Counted, OneOfNonce, Inv
  <2>5. TypeOK' /\ Unsent'
    BY <1>2, <1>4, <2>1, MoveTypes DEF TxStates
  <2> QED BY <2>4, <2>5 DEF Inv
<1>7. CASE /\ rivals # {} /\ rivals \cap Executed = {}
           /\ tx' = [w \in Requests |-> IF w = r THEN "pooled"
                                        ELSE IF w \in rivals THEN "replaced"
                                        ELSE tx[w]]
  <2>1. PICK w \in rivals : TRUE
    BY <1>7
  <2>2. w \in Accepted /\ call[w].nonce = call[r].nonce /\ w \in Requests /\ w # r
    BY <1>3, <1>4, <2>1
  <2>3. rivals = {w}
    BY <1>3, <2>1, <2>2 DEF Inv, OneOfNonce
  <2>4. /\ tx'[r] = "pooled" /\ tx'[w] = "replaced"
        /\ \A q \in Requests : q # r /\ q # w => tx'[q] = tx[q]
    BY <1>7, <2>2, <2>3
  <2>5. Accepted' = (Accepted \ {w}) \cup {r}
    BY <1>4, <2>2, <2>4, AcceptedStates
  <2>6. NoncesOf(Accepted)' = NoncesOf(Accepted)
    BY <1>4, <2>2, <2>5 DEF NoncesOf
  <2>7. call[w].nonce < k
    BY <1>1, <1>2, <2>2 DEF Counted, NoncesOf
  <2>8. Counted(k)'
    BY <1>1, <1>4, <2>4, <2>6, <2>7 DEF Counted
  <2>9. OneOfNonce'
    BY <1>4, <2>2, <2>5 DEF OneOfNonce, Inv
  <2>10. TypeOK' /\ Unsent'
    <3>1. tx' \in [Requests -> TxStates]
      BY <1>2, <1>7 DEF TxStates
    <3>2. \A q \in Requests : tx[q] = "none" => tx'[q] = "none"
      BY <1>4, <2>2, <2>4, AcceptedStates
    <3> QED BY <1>4, <3>1, <3>2, MoveTypes
  <2> QED BY <2>8, <2>9, <2>10 DEF Inv
<1> QED BY <1>3, <1>5, <1>6, <1>7 DEF Receive

\* A transaction lost on the way, or executed, keeps the invariant.
LEMMA LoseExecuteSteps ==
  ASSUME Inv, NEW r \in Requests, Lose(r) \/ Execute(r)
  PROVE  Inv'
<1>1. PICK k \in Nat : Counted(k)
  BY DEF Inv
<1>2. /\ \A q \in Requests : call[q].nonce \in Nat /\ tx[q] \in TxStates
      /\ tx = [q \in Requests |-> tx[q]]
  BY Types DEF Inv
<1>3. PICK state \in {"lost", "mined", "reverted"} : tx' = [tx EXCEPT ![r] = state]
  BY DEF Lose, Execute, Move
<1>4. tx'[r] = state /\ \A q \in Requests : q # r => tx'[q] = tx[q]
  BY <1>2, <1>3
<1>5. /\ \/ tx[r] = "flying" /\ state = "lost"
         \/ tx[r] = "pooled" /\ state \in {"mined", "reverted"}
      /\ call' = call /\ UNCHANGED <<env, file>>
  <2>1. CASE Lose(r)
    BY <1>2, <1>4, <2>1 DEF Lose, Move
  <2>2. CASE Execute(r)
    <3>1. PICK verdict \in {"mined", "reverted"} : tx' = [tx EXCEPT ![r] = verdict]
      BY <2>2 DEF Execute, Move
    <3>2. state = verdict
      BY <1>2, <1>4, <3>1
    <3> QED BY <2>2, <3>1, <3>2 DEF Execute
  <2> QED BY <2>1, <2>2
<1>6. Accepted' = Accepted /\ Accepted \subseteq Requests
  BY <1>3, <1>5, <1>4, AcceptedStates
<1>7. NoncesOf(Accepted)' = NoncesOf(Accepted)
  BY <1>5, <1>6 DEF NoncesOf
<1>8. Counted(k)' /\ OneOfNonce'
  BY <1>1, <1>3, <1>5, <1>4, <1>6, <1>7 DEF Counted, OneOfNonce, Inv
<1>9. TypeOK' /\ Unsent'
  BY <1>2, <1>3, <1>5, <1>4, MoveTypes DEF TxStates
<1> QED BY <1>8, <1>9 DEF Inv

\* A restart, which ends the calls and no transaction, keeps the invariant.
LEMMA RestartStep ==
  ASSUME Inv, Restart
  PROVE  Inv'
<1>1. PICK k \in Nat : Counted(k)
  BY DEF Inv
<1>2. \A q \in Requests : call[q] \in CallRecords /\ call[q].nonce \in Nat
  BY Types DEF Inv
<1>3. /\ \A q \in Requests :
           call'[q] = IF call[q].stage \in {"calling", "sent"}
                      THEN [call[q] EXCEPT !.stage = "failed"] ELSE call[q]
      /\ call' \in [Requests -> CallRecords]
      /\ tx' = tx /\ file' = file /\ env' \in Settings
  BY <1>2 DEF Restart, CallRecords
<1>4. \A q \in Requests : /\ call'[q].nonce = call[q].nonce
                          /\ call'[q].stage \in {call[q].stage, "failed"}
  BY <1>2, <1>3 DEF CallRecords
<1>5. TypeOK' /\ Unsent'
  BY <1>3, <1>4 DEF Inv, TypeOK, Unsent
<1>6. OneOfNonce' /\ Counted(k)'
  BY <1>1, <1>3, <1>4, NoncesStill DEF Inv
<1> QED BY <1>5, <1>6 DEF Inv

\* A redeployment changes nothing the invariant is about.
LEMMA StillStep ==
  ASSUME Inv, UNCHANGED vars \/ Redeploy
  PROVE  Inv'
<1>1. PICK k \in Nat : Counted(k)
  BY DEF Inv
<1>2. tx' = tx /\ call' = call /\ env' = env /\ file' \in AbiTexts
  BY DEF Inv, TypeOK, vars, Redeploy
<1>3. TypeOK' /\ Unsent'
  BY <1>2 DEF Inv, TypeOK, Unsent
<1>4. OneOfNonce' /\ Counted(k)'
  BY <1>1, <1>2, NoncesStill DEF Inv
<1> QED BY <1>3, <1>4 DEF Inv

\* No call and no transaction satisfies the invariant.
LEMMA InvInit == Init => Inv
<1> SUFFICES ASSUME Init PROVE Inv
  OBVIOUS
<1>1. TypeOK /\ Unsent
  BY DEF Init, TypeOK, Unsent, CallRecords, TxStates
<1>2. Accepted = {}
  BY AcceptedStates DEF Init
<1>3. OneOfNonce
  BY <1>2 DEF OneOfNonce
<1>4. NoncesOf(Accepted) = 0 .. 0 - 1
  BY <1>2 DEF NoncesOf
<1>5. Counted(0)
  BY <1>4 DEF Counted, Init
<1> QED BY <1>1, <1>3, <1>5 DEF Inv

\* Every step of the gateway, and every stutter, keeps the invariant.
LEMMA InvKept == Inv /\ [Next]_vars => Inv'
<1> SUFFICES ASSUME Inv, [Next]_vars PROVE Inv'
  OBVIOUS
<1>1. ASSUME NEW r \in Requests, Mock(r) \/ Begin(r) \/ Answer(r) PROVE Inv'
  BY <1>1, CallerSteps
<1>2. ASSUME NEW r \in Requests, Send(r) PROVE Inv'
  BY <1>2, SendStep
<1>3. ASSUME NEW r \in Requests, Receive(r) PROVE Inv'
  BY <1>3, ReceiveStep
<1>4. ASSUME NEW r \in Requests, Lose(r) \/ Execute(r) PROVE Inv'
  BY <1>4, LoseExecuteSteps
<1>5. ASSUME NEW r \in Requests, Rejected(r) \/ RpcError(r) PROVE Inv'
  BY <1>5, CallerSteps DEF Rejected, RpcError
<1>6. CASE Restart
  BY <1>6, RestartStep
<1>7. CASE UNCHANGED vars \/ Redeploy
  BY <1>7, StillStep
<1> QED BY <1>1, <1>2, <1>3, <1>4, <1>5, <1>6, <1>7 DEF Next

\* The invariant holds in every reachable state.
LEMMA AlwaysInv == Spec => []Inv
BY InvInit, InvKept, PTL DEF Spec

-----------------------------------------------------------------------------
(* The theorems *)

\* The gateway, its calls and their transactions keep their types; the nonce
\* a wallet is told is a number.
THEOREM TypeCorrect == Spec => []TypeOK
<1>1. Inv => TypeOK
  BY DEF Inv
<1> QED BY <1>1, AlwaysInv, PTL

\* Whatever becomes of the calls, the nonces the node has accepted have no
\* gap that would keep later transactions waiting.
THEOREM NoncesAlwaysUnbroken == Spec => []NoncesUnbroken
<1>1. ASSUME Inv PROVE NoncesUnbroken
  <2>1. PICK k \in Nat : Counted(k)
    BY <1>1 DEF Inv
  <2>2. PICK N : N = NoncesOf(Accepted)
    OBVIOUS
  <2>3. N = 0 .. k - 1
    BY <2>1, <2>2 DEF Counted
  <2>4. Cardinality(0 .. k - 1) = k
    BY FS_Interval
  <2> QED BY <2>2, <2>3, <2>4 DEF NoncesUnbroken
<1> QED BY <1>1, AlwaysInv, PTL

\* A call never sends under a nonce that the node had accepted before.
THEOREM OnlyRacesEverCollide == Spec => OnlyRacesCollide
<1>1. ASSUME Inv, [Next]_vars,
             NEW r \in Requests, NEW w \in Requests,
             tx[r] = "none", tx'[r] # "none",
             tx[w] \in {"pooled", "replaced", "mined", "reverted"}
      PROVE  call'[r].nonce # call[w].nonce
  <2>1. PICK k \in Nat : Counted(k)
    BY <1>1 DEF Inv
  <2>2. /\ \A q \in Requests : call[q].nonce \in Nat /\ tx[q] \in TxStates
        /\ call = [q \in Requests |-> call[q]]
        /\ tx = [q \in Requests |-> tx[q]]
    BY <1>1, Types DEF Inv
  <2>3. ASSUME NEW q \in Requests, Receive(q) PROVE FALSE
    BY <1>1, <2>2, <2>3, AcceptedStates DEF Receive, Move
  <2>4. ASSUME NEW q \in Requests, Lose(q) \/ Execute(q) PROVE FALSE
    BY <1>1, <2>2, <2>4 DEF Lose, Execute, Move
  <2>5. PICK q \in Requests : Send(q)
    BY <1>1, <2>3, <2>4 DEF Next, vars, Mock, Begin, Answer, Rejected, RpcError,
       Fail, Redeploy, Restart
  <2>6. q = r
    BY <1>1, <2>2, <2>5 DEF Send, Move
  <2>7. call'[r].nonce = k
    BY <1>1, <2>1, <2>2, <2>5, <2>6, PendingIsCount DEF Send, Inv
  <2>8. call[w].nonce < k
    <3>1. CASE tx[w] = "replaced"
      BY <2>1, <3>1 DEF Counted
    <3>2. CASE tx[w] # "replaced"
      <4>1. w \in Accepted
        BY <1>1, <3>2, AcceptedStates
      <4>2. call[w].nonce \in NoncesOf(Accepted)
        BY <4>1 DEF NoncesOf
      <4> QED BY <2>1, <2>2, <4>2 DEF Counted
    <3> QED BY <3>1, <3>2
  <2> QED BY <2>2, <2>7, <2>8
<1>2. Inv /\ [Next]_vars =>
        [\A r, w \in Requests :
           /\ tx[r] = "none" /\ tx'[r] # "none"
           /\ tx[w] \in {"pooled", "replaced", "mined", "reverted"}
           => call'[r].nonce # call[w].nonce]_vars
  BY <1>1
<1> QED BY <1>2, AlwaysInv, PTL DEF Spec, OnlyRacesCollide

-----------------------------------------------------------------------------
(* The promise to callers *)

CallStep == [Call!Next]_Call!vars

\* A step that moves no transaction and no call's stage is a stutter of ContractCall.
LEMMA Unseen ==
  ASSUME tx' = tx, \A r \in Requests : call'[r].stage = call[r].stage
  PROVE  CallStep
<1>1. Stages' = Stages /\ Fates' = Fates
  BY DEF Stages, Fates
<1> QED BY <1>1 DEF CallStep, Call!vars

\* One call goes on to another stage.
LEMMA TurnSeen ==
  ASSUME TypeOK, tx' = tx, NEW r \in Requests, NEW stage,
         call' = [call EXCEPT ![r].stage = stage], stage # "sent"
  PROVE  Fates' = Fates /\ Stages' = [Stages EXCEPT ![r] = stage]
<1>1. /\ call = [q \in Requests |-> call[q]]
      /\ \A q \in Requests : call[q] \in CallRecords
  BY Types
<1>2. call'[r].stage = stage /\ \A q \in Requests : q # r => call'[q] = call[q]
  BY <1>1 DEF CallRecords
<1>3. Fates' = Fates
  BY DEF Fates
<1>4. Stages' = [q \in Requests |-> IF q = r THEN stage ELSE Stages[q]]
  BY <1>2 DEF Stages
<1> QED BY <1>3, <1>4 DEF Stages

\* Every step of the gateway is a step, or a stutter, of ContractCall.
LEMMA StepInCall == Inv /\ [Next]_vars => CallStep
<1> SUFFICES ASSUME Inv, [Next]_vars PROVE CallStep
  OBVIOUS
<1>0. TypeOK
  BY DEF Inv
<1>1. /\ \A q \in Requests : call[q] \in CallRecords /\ tx[q] \in TxStates
      /\ call = [q \in Requests |-> call[q]]
      /\ tx = [q \in Requests |-> tx[q]]
  BY <1>0, Types
<1>2. ASSUME NEW r \in Requests, Mock(r) \/ Begin(r) PROVE CallStep
  <2>1. PICK stage \in {"mocked", "calling", "failed"} :
          call' = [call EXCEPT ![r].stage = stage]
    BY <1>2 DEF Mock, Begin, Turn
  <2>2. tx' = tx /\ Stages[r] = "idle"
    BY <1>2 DEF Mock, Begin, Stages
  <2>3. Fates' = Fates /\ Stages' = [Stages EXCEPT ![r] = stage]
    BY <1>0, <2>1, <2>2, TurnSeen
  <2>4. Call!Begin(r)
    BY <2>2, <2>3 DEF Call!Begin, Call!Turn
  <2> QED BY <2>4 DEF CallStep, Call!Next
<1>3. ASSUME NEW r \in Requests, Send(r) PROVE CallStep
  <2>1. /\ call[r].stage = "calling" /\ tx[r] = "none"
        /\ call'[r].stage = "sent" /\ tx'[r] = "flying"
        /\ \A q \in Requests : q # r => call'[q] = call[q] /\ tx'[q] = tx[q]
    BY <1>1, <1>3 DEF Send, Move, Inv, Unsent
  <2>2. Stages[r] = "calling" /\ Fates[r] = "none" /\ Stages' = Stages
    BY <2>1 DEF Stages, Fates
  <2>3. Fates' = [Fates EXCEPT ![r] = "pending"]
    BY <2>1 DEF Fates
  <2>4. Call!Send(r)
    BY <2>2, <2>3 DEF Call!Send, Call!Move
  <2> QED BY <2>4 DEF CallStep, Call!Next
<1>4. ASSUME NEW r \in Requests, Receive(r) PROVE CallStep
  <2>1. PICK rivals : rivals = {w \in Accepted : call[w].nonce = call[r].nonce}
    OBVIOUS
  <2>2. tx[r] = "flying" /\ call' = call /\ Fates[r] = "pending"
        /\ r \notin Accepted /\ Accepted \subseteq Requests
    BY <1>4, AcceptedStates DEF Receive, Fates
  <2>3. CASE Move(r, "pooled")
    <3>1. tx'[r] = "pooled" /\ \A q \in Requests : q # r => tx'[q] = tx[q]
      BY <1>1, <2>3 DEF Move
    <3>2. Fates' = Fates /\ Stages' = Stages
      BY <2>2, <3>1 DEF Fates, Stages
    <3> QED BY <3>2 DEF CallStep, Call!vars
  <2>4. CASE Move(r, "refused")
    <3>1. tx'[r] = "refused" /\ \A q \in Requests : q # r => tx'[q] = tx[q]
      BY <1>1, <2>4 DEF Move
    <3>2. Fates' = [Fates EXCEPT ![r] = "void"] /\ Stages' = Stages
      BY <2>2, <3>1 DEF Fates, Stages
    <3>3. Call!Void(r)
      BY <2>2, <3>2 DEF Call!Void, Call!Move
    <3> QED BY <3>3 DEF CallStep, Call!Next
  <2>5. CASE /\ rivals # {} /\ rivals \cap Executed = {}
             /\ tx' = [w \in Requests |-> IF w = r THEN "pooled"
                                          ELSE IF w \in rivals THEN "replaced"
                                          ELSE tx[w]]
    <3>1. PICK w \in rivals : TRUE
      BY <2>5
    <3>2. w \in Accepted /\ w \in Requests /\ w # r
      BY <2>1, <2>2, <3>1
    <3>3. rivals = {w}
      BY <2>1, <3>1, <3>2 DEF Inv, OneOfNonce
    <3>4. tx[w] = "pooled"
      BY <2>5, <3>1, <3>2 DEF Accepted
    <3>5. /\ tx'[r] = "pooled" /\ tx'[w] = "replaced"
          /\ \A q \in Requests : q # r /\ q # w => tx'[q] = tx[q]
      BY <2>5, <3>2, <3>3
    <3>6. /\ Fates[w] = "pending" /\ Fates' = [Fates EXCEPT ![w] = "void"]
          /\ Stages' = Stages
      BY <2>2, <3>2, <3>4, <3>5 DEF Fates, Stages
    <3>7. Call!Void(w)
      BY <3>6 DEF Call!Void, Call!Move
    <3> QED BY <3>2, <3>7 DEF CallStep, Call!Next
  <2> QED BY <1>4, <2>1, <2>3, <2>4, <2>5 DEF Receive
<1>5. ASSUME NEW r \in Requests, Lose(r) PROVE CallStep
  <2>1. /\ tx[r] = "flying" /\ call' = call
        /\ tx'[r] = "lost" /\ \A q \in Requests : q # r => tx'[q] = tx[q]
    BY <1>1, <1>5 DEF Lose, Move
  <2>2. /\ Fates[r] = "pending" /\ Fates' = [Fates EXCEPT ![r] = "void"]
        /\ Stages' = Stages
    BY <2>1 DEF Fates, Stages
  <2>3. Call!Void(r)
    BY <2>2 DEF Call!Void, Call!Move
  <2> QED BY <2>3 DEF CallStep, Call!Next
<1>6. ASSUME NEW r \in Requests, Execute(r) PROVE CallStep
  <2>1. PICK verdict \in {"mined", "reverted"} : tx' = [tx EXCEPT ![r] = verdict]
    BY <1>6 DEF Execute, Move
  <2>2. /\ tx[r] = "pooled" /\ call' = call
        /\ tx'[r] = verdict /\ \A q \in Requests : q # r => tx'[q] = tx[q]
    BY <1>1, <1>6, <2>1 DEF Execute
  <2>3. Fates[r] = "pending" /\ Stages' = Stages
    BY <2>2 DEF Fates, Stages
  <2>4. CASE verdict = "mined"
    <3>1. Fates' = [Fates EXCEPT ![r] = "mined"]
      BY <2>2, <2>4 DEF Fates
    <3>2. Call!Execute(r)
      BY <2>3, <3>1 DEF Call!Execute, Call!Move
    <3> QED BY <3>2 DEF CallStep, Call!Next
  <2>5. CASE verdict = "reverted"
    <3>1. Fates' = [Fates EXCEPT ![r] = "void"]
      BY <2>2, <2>5 DEF Fates
    <3>2. Call!Void(r)
      BY <2>3, <3>1 DEF Call!Void, Call!Move
    <3> QED BY <3>2 DEF CallStep, Call!Next
  <2> QED BY <2>4, <2>5
<1>7. ASSUME NEW r \in Requests, Answer(r) PROVE CallStep
  <2>1. /\ tx[r] = "mined" /\ tx' = tx /\ call[r].stage = "sent"
        /\ call' = [call EXCEPT ![r].stage = "answered"]
    BY <1>7 DEF Answer, Turn
  <2>2. /\ Stages[r] = "calling" /\ Fates[r] = "mined" /\ Fates' = Fates
        /\ Stages' = [Stages EXCEPT ![r] = "answered"]
    BY <1>0, <2>1, TurnSeen DEF Stages, Fates
  <2>3. Call!Answer(r)
    BY <2>2 DEF Call!Answer, Call!Turn
  <2> QED BY <2>3 DEF CallStep, Call!Next
<1>8. ASSUME NEW r \in Requests, Fail(r) PROVE CallStep
  <2>1. /\ tx' = tx /\ call[r].stage \in {"calling", "sent"}
        /\ call' = [call EXCEPT ![r].stage = "failed"]
    BY <1>8 DEF Fail, Turn
  <2>2. /\ Stages[r] = "calling" /\ Fates' = Fates
        /\ Stages' = [Stages EXCEPT ![r] = "failed"]
    BY <1>0, <2>1, TurnSeen DEF Stages
  <2>3. Call!Fail(r)
    BY <2>2 DEF Call!Fail, Call!Turn
  <2> QED BY <2>3 DEF CallStep, Call!Next
<1>9. CASE Restart
  <2>1. /\ tx' = tx
        /\ \A q \in Requests :
             call'[q].stage = IF call[q].stage \in {"calling", "sent"} THEN "failed"
                              ELSE call[q].stage
    BY <1>1, <1>9 DEF Restart, CallRecords
  <2>2. /\ Fates' = Fates
        /\ Stages' = [q \in Requests |-> IF Stages[q] = "calling" THEN "failed"
                                        ELSE Stages[q]]
    BY <2>1 DEF Stages, Fates
  <2>3. Call!Restart
    BY <2>2 DEF Call!Restart
  <2> QED BY <2>3 DEF CallStep, Call!Next
<1>10. CASE Redeploy \/ UNCHANGED vars
  BY <1>10, Unseen DEF Redeploy, vars
<1> QED BY <1>2, <1>3, <1>4, <1>5, <1>6, <1>7, <1>8, <1>9, <1>10
        DEF Next, Rejected, RpcError

\* The gateway does what ContractCall says: a call is answered by its own
\* transaction, executed, or not at all.
THEOREM CallImplemented == Spec => ImplementsCall
<1>1. Init => Call!Init
  BY DEF Init, Call!Init, Stages, Fates
<1> QED BY <1>1, StepInCall, AlwaysInv, PTL DEF Spec, CallStep, ImplementsCall, Call!Spec

-----------------------------------------------------------------------------
(* The ABI. *)

\* A file that is missing, unreadable or removed while it is looked at stops
\* no call: only a list without the function does, and one in the environment
\* with the function overrides it.
THEOREM AbiFaultsAlwaysForgiven == Spec => AbiFaultsForgiven
<1>1. ASSUME Inv, Next, NEW r \in Requests,
             call[r].stage = "idle", call'[r].stage = "failed"
      PROVE  \/ env = "useless"
             \/ env # "good" /\ file' = "useless"
  <2>1. call \in [Requests -> CallRecords] /\ env \in Settings
    BY <1>1 DEF Inv, TypeOK
  <2>2. ASSUME NEW q \in Requests, NEW stage, Turn(q, stage), stage # "failed"
        PROVE  FALSE
    BY <1>1, <2>1, <2>2 DEF Turn, CallRecords
  <2>3. ASSUME NEW q \in Requests, Begin(q)
        PROVE  \/ env = "useless"
               \/ env # "good" /\ file' = "useless"
    <3>1. PICK existed \in {file # "none", TRUE} :
            Turn(q, IF Resolved(env, existed, file') = "good" THEN "calling" ELSE "failed")
      BY <2>3 DEF Begin
    <3>2. Resolved(env, existed, file') # "good"
      BY <2>2, <3>1
    <3> QED BY <2>1, <2>3, <3>2 DEF Begin, Resolved, IsList, Settings, AbiTexts
  <2>4. ASSUME NEW q \in Requests, Fail(q)
        PROVE  FALSE
    BY <1>1, <2>1, <2>4 DEF Fail, Turn, CallRecords
  <2>5. ASSUME NEW q \in Requests, Send(q)
        PROVE  FALSE
    BY <1>1, <2>1, <2>5 DEF Send, CallRecords
  <2>6. ASSUME NEW q \in Requests, Mock(q) \/ Answer(q)
        PROVE  FALSE
    BY <2>2, <2>6 DEF Mock, Answer
  <2>7. ~Restart
    BY <1>1, <2>1 DEF Restart
  <2>8. call' # call
    BY <1>1
  <2> QED BY <1>1, <2>3, <2>4, <2>5, <2>6, <2>7, <2>8
          DEF Next, Receive, Lose, Execute, Rejected, RpcError, Redeploy
<1>2. Inv /\ [Next]_vars =>
        [\A r \in Requests :
           call[r].stage = "idle" /\ call'[r].stage = "failed" =>
             \/ env = "useless"
             \/ env # "good" /\ file' = "useless"]_vars
  BY <1>1
<1> QED BY <1>2, AlwaysInv, PTL DEF Spec, AbiFaultsForgiven

-----------------------------------------------------------------------------
(* The handlers over the gateway *)

\* The handlers' notes are kept for each request.
AskedKept == asked = [r \in Requests |-> asked[r]]

LifeStep == [Life!Next]_Life!vars

\* What the handlers see is as it was when the gateway's promise is, and they
\* have not moved.
LEMMA SeenStill ==
  ASSUME Stages' = Stages, Fates' = Fates, asked' = asked
  PROVE  HandlerRequests' = HandlerRequests /\ HandlerChain' = HandlerChain
BY DEF HandlerRequests, HandlerChain

\* What the handlers see is a function, before and after a step.
LEMMA RequestsAreFunctions ==
  /\ HandlerRequests = [r \in Requests |-> HandlerRequests[r]]
  /\ HandlerRequests' = [r \in Requests |-> HandlerRequests'[r]]
BY DEF HandlerRequests

\* A call that goes on to a stage that lets no handler run goes on so for its
\* handler.
LEMMA StageSeen ==
  ASSUME NEW r \in Requests, NEW stage, stage # "answered",
         Stages' = [Stages EXCEPT ![r] = stage], Fates' = Fates, asked' = asked
  PROVE  /\ HandlerRequests' = [HandlerRequests EXCEPT ![r].stage = stage]
         /\ HandlerChain' = HandlerChain
<1>1. \A q \in Requests : Stages'[q] = IF q = r THEN stage ELSE Stages[q]
  BY DEF Stages
<1>2. \A q \in Requests :
        HandlerRequests'[q] = IF q = r THEN [HandlerRequests[q] EXCEPT !.stage = stage]
                              ELSE HandlerRequests[q]
  BY <1>1 DEF HandlerRequests
<1>3. HandlerRequests' = [HandlerRequests EXCEPT ![r].stage = stage]
  BY <1>2, RequestsAreFunctions
<1> QED BY <1>3 DEF HandlerChain

\* A transaction that moves moves for the handlers.
LEMMA FateSeen ==
  ASSUME NEW r \in Requests, NEW fate, NEW seen,
         seen = IF fate = "void" THEN "reverted" ELSE fate,
         Fates' = [Fates EXCEPT ![r] = fate], Stages' = Stages, asked' = asked
  PROVE  /\ HandlerChain' = [HandlerChain EXCEPT ![r] = seen]
         /\ HandlerRequests' = HandlerRequests
<1>1. \A q \in Requests : Fates'[q] = IF q = r THEN fate ELSE Fates[q]
  BY DEF Fates
<1>2. HandlerChain' = [HandlerChain EXCEPT ![r] = seen]
  BY <1>1 DEF HandlerChain
<1> QED BY <1>2 DEF HandlerRequests

\* What ContractCall may do while a handler waits, OrderLifecycle expects.
LEMMA WaitingSeen ==
  ASSUME NEW r \in Requests, UNCHANGED <<order, asked>>,
         Call!Send(r) \/ Call!Execute(r) \/ Call!Void(r) \/ Call!Fail(r)
  PROVE  LifeStep
<1>0. /\ HandlerRequests[r].stage = IF Stages[r] = "answered" THEN "done" ELSE Stages[r]
      /\ HandlerChain[r] = IF Fates[r] = "void" THEN "reverted" ELSE Fates[r]
  BY DEF HandlerRequests, HandlerChain
<1>1. CASE Call!Send(r)
  <2>1. /\ Stages[r] = "calling" /\ Fates[r] = "none"
        /\ Fates' = [Fates EXCEPT ![r] = "pending"] /\ Stages' = Stages
    BY <1>1 DEF Call!Send, Call!Move
  <2>2. /\ HandlerChain' = [HandlerChain EXCEPT ![r] = "pending"]
        /\ HandlerRequests' = HandlerRequests
    BY <2>1, FateSeen
  <2>3. Life!Broadcast(r)
    BY <1>0, <2>1, <2>2 DEF Life!Broadcast
  <2> QED BY <2>3 DEF LifeStep, Life!Next, Life!Gateway
<1>2. CASE Call!Execute(r)
  <2>1. /\ Fates[r] = "pending"
        /\ Fates' = [Fates EXCEPT ![r] = "mined"] /\ Stages' = Stages
    BY <1>2 DEF Call!Execute, Call!Move
  <2>2. /\ HandlerChain' = [HandlerChain EXCEPT ![r] = "mined"]
        /\ HandlerRequests' = HandlerRequests
    BY <2>1, FateSeen
  <2>3. Life!Mine(r)
    BY <1>0, <2>1, <2>2 DEF Life!Mine, Life!Execute
  <2> QED BY <2>3 DEF LifeStep, Life!Next, Life!Gateway
<1>3. CASE Call!Void(r)
  <2>1. /\ Fates[r] = "pending"
        /\ Fates' = [Fates EXCEPT ![r] = "void"] /\ Stages' = Stages
    BY <1>3 DEF Call!Void, Call!Move
  <2>2. /\ HandlerChain' = [HandlerChain EXCEPT ![r] = "reverted"]
        /\ HandlerRequests' = HandlerRequests
    BY <2>1, FateSeen
  <2>3. Life!Revert(r)
    BY <1>0, <2>1, <2>2 DEF Life!Revert, Life!Execute
  <2> QED BY <2>3 DEF LifeStep, Life!Next, Life!Gateway
<1>4. CASE Call!Fail(r)
  <2>1. /\ Stages[r] = "calling"
        /\ Stages' = [Stages EXCEPT ![r] = "failed"] /\ Fates' = Fates
    BY <1>4 DEF Call!Fail, Call!Turn
  <2>2. /\ HandlerRequests' = [HandlerRequests EXCEPT ![r].stage = "failed"]
        /\ HandlerChain' = HandlerChain
    BY <2>1, StageSeen
  <2>3. Life!RpcError(r)
    BY <1>0, <2>1, <2>2 DEF Life!RpcError, Life!Abandon
  <2> QED BY <2>3 DEF LifeStep, Life!Next, Life!Gateway
<1> QED BY <1>1, <1>2, <1>3, <1>4

\* While a handler waits the gateway does what ContractCall says of a call
\* that waits: it neither begins nor answers one.
LEMMA UnderwayCalls ==
  ASSUME Inv, NEW r \in Requests, Underway(r)
  PROVE  \/ UNCHANGED Call!vars
         \/ \E q \in Requests :
              Call!Send(q) \/ Call!Execute(q) \/ Call!Void(q) \/ Call!Fail(q)
<1>1. CallStep
  BY StepInCall DEF Underway, Next
<1>2. \A q \in Requests : call[q] \in CallRecords
  BY Types DEF Inv
<1>3. \A q \in Requests :
        \/ Stages'[q] = Stages[q]
        \/ q = r /\ Stages[q] = "calling" /\ Stages'[q] = "failed"
  <2>1. CASE call' = call
    BY <2>1 DEF Stages
  <2>2. CASE Send(r)
    <3>1. \A q \in Requests : \/ call'[q] = call[q]
                              \/ q = r /\ call[q].stage = "calling" /\ call'[q].stage = "sent"
      BY <1>2, <2>2 DEF Send, Inv, TypeOK
    <3> QED BY <3>1 DEF Stages
  <2>3. CASE Fail(r)
    <3>1. \A q \in Requests :
            \/ call'[q] = call[q]
            \/ q = r /\ call[q].stage \in {"calling", "sent"} /\ call'[q].stage = "failed"
      BY <1>2, <2>3 DEF Fail, Turn, Inv, TypeOK, CallRecords
    <3> QED BY <3>1 DEF Stages
  <2> QED BY <2>1, <2>2, <2>3 DEF Underway, Receive, Lose, Execute, Rejected, RpcError
<1>4. /\ Stages = [q \in Requests |-> Stages[q]]
      /\ Stages' = [q \in Requests |-> Stages'[q]]
  BY DEF Stages
<1>5. ASSUME NEW q \in Requests
      PROVE  ~Call!Begin(q) /\ ~Call!Answer(q)
  BY <1>3, <1>4 DEF Call!Begin, Call!Answer, Call!Turn
<1>6. ASSUME Call!Restart
      PROVE  UNCHANGED Call!vars \/ Call!Fail(r)
  <2>1. /\ \A q \in Requests : Stages'[q] = IF Stages[q] = "calling" THEN "failed"
                                            ELSE Stages[q]
        /\ Fates' = Fates
    BY <1>6 DEF Call!Restart
  <2>2. CASE Stages[r] = "calling"
    <3>1. Stages' = [Stages EXCEPT ![r] = "failed"]
      BY <1>3, <1>4, <2>1, <2>2
    <3> QED BY <2>1, <2>2, <3>1 DEF Call!Fail, Call!Turn
  <2>3. CASE Stages[r] # "calling"
    <3>1. Stages' = Stages
      BY <1>3, <1>4, <2>3
    <3> QED BY <2>1, <3>1 DEF Call!vars
  <2> QED BY <2>2, <2>3
<1> QED BY <1>1, <1>5, <1>6 DEF CallStep, Call!Next

\* Every step of the handlers over the gateway is one of OrderLifecycle.
LEMMA StepInLife == Inv /\ AskedKept /\ [NextLive]_all => LifeStep
<1> SUFFICES ASSUME Inv, AskedKept, [NextLive]_all PROVE LifeStep
  OBVIOUS
<1>0. /\ TypeOK /\ \A q \in Requests : call[q] \in CallRecords
  BY Types DEF Inv
<1>1. ASSUME NEW r \in Requests, NEW op, NEW o, NEW amount, Started(r, op, o, amount)
      PROVE  Life!Call(r, op, o, amount)
  <2>1. PICK stage \in {"calling", "failed"} : call' = [call EXCEPT ![r].stage = stage]
    BY <1>1 DEF Started, Begin, Turn
  <2>2. tx' = tx /\ call[r].stage = "idle" /\ Life!Known(o) /\ order' = order
    BY <1>1 DEF Started, Begin
  <2>3. Fates' = Fates /\ Stages' = [Stages EXCEPT ![r] = stage]
    BY <1>0, <2>1, <2>2, TurnSeen
  <2>4. \A q \in Requests : Stages'[q] = IF q = r THEN stage ELSE Stages[q]
    BY <2>3 DEF Stages
  <2>5. asked' = [asked EXCEPT ![r] = [op |-> op, order |-> o, amount |-> amount]]
    BY <1>1 DEF Started
  <2>6. \A q \in Requests :
          asked'[q] = IF q = r THEN [op |-> op, order |-> o, amount |-> amount]
                      ELSE asked[q]
    BY <2>5 DEF AskedKept
  <2>7. HandlerRequests' = [HandlerRequests EXCEPT ![r] =
          [op |-> op, order |-> o, amount |-> amount, stage |-> stage]]
    <3>1. \A q \in Requests :
            HandlerRequests'[q] = IF q = r THEN [op |-> op, order |-> o, amount |-> amount,
                                                 stage |-> stage]
                                  ELSE HandlerRequests[q]
      BY <2>4, <2>6 DEF HandlerRequests
    <3> QED BY <3>1, RequestsAreFunctions
  <2>8. HandlerChain' = HandlerChain /\ HandlerRequests[r].stage = "idle"
    BY <2>2, <2>3 DEF HandlerChain, HandlerRequests, Stages
  <2>9. op = "repay" /\ stage = "calling" => Life!Carried(amount) # {}
    <3>1. stage = "calling" => call'[r].stage = "calling"
      BY <1>0, <2>1 DEF TypeOK, CallRecords
    <3> QED BY <1>1, <3>1 DEF Started
  <2> QED BY <2>1, <2>2, <2>7, <2>8, <2>9 DEF Life!Call
<1>2. ASSUME NEW r \in Requests, Resumed(r)
      PROVE  Life!Resume(r)
  <2>1. /\ call[r].stage = "sent" /\ tx[r] = "mined" /\ tx' = tx
        /\ call' = [call EXCEPT ![r].stage = "answered"] /\ asked' = asked
    BY <1>2 DEF Resumed, Answer, Turn
  <2>2. Fates' = Fates /\ Stages' = [Stages EXCEPT ![r] = "answered"]
    BY <1>0, <2>1, TurnSeen
  <2>3. \A q \in Requests : Stages'[q] = IF q = r THEN "answered" ELSE Stages[q]
    BY <2>2 DEF Stages
  <2>4. HandlerRequests' = [HandlerRequests EXCEPT ![r].stage = "done"]
    <3>1. \A q \in Requests :
            HandlerRequests'[q] = IF q = r THEN [HandlerRequests[q] EXCEPT !.stage = "done"]
                                  ELSE HandlerRequests[q]
      BY <2>1, <2>3 DEF HandlerRequests
    <3> QED BY <3>1, RequestsAreFunctions
  <2>5. /\ HandlerChain' = HandlerChain /\ HandlerChain[r] = "mined"
        /\ HandlerRequests[r].stage = "calling"
        /\ HandlerRequests[r].op = asked[r].op
        /\ HandlerRequests[r].order = asked[r].order
        /\ HandlerRequests[r].amount = asked[r].amount
    BY <2>1, <2>2 DEF HandlerChain, HandlerRequests, Stages, Fates
  <2>6. order' = [order EXCEPT ![asked[r].order] =
                    Life!Outcome(asked[r].op, @, r, asked[r].amount)]
    BY <1>2 DEF Resumed
  <2> QED BY <2>4, <2>5, <2>6 DEF Life!Resume
<1>3. ASSUME NEW r \in Requests, Underway(r)
      PROVE  LifeStep
  <2>1. CASE UNCHANGED Call!vars
    <3>1. HandlerRequests' = HandlerRequests /\ HandlerChain' = HandlerChain
      BY <1>3, <2>1, SeenStill DEF Call!vars, Underway
    <3> QED BY <1>3, <3>1 DEF Underway, LifeStep, Life!vars
  <2>2. CASE \E q \in Requests :
               Call!Send(q) \/ Call!Execute(q) \/ Call!Void(q) \/ Call!Fail(q)
    BY <1>3, <2>2, WaitingSeen DEF Underway
  <2> QED BY <1>3, <2>1, <2>2, UnderwayCalls
<1>4. CASE OwnStep
  BY <1>4 DEF OwnStep, LifeStep, Life!Next
<1>5. CASE RestartLive
  <2>1. /\ tx' = tx /\ asked' = asked
        /\ \A q \in Requests :
             call'[q].stage = IF call[q].stage \in {"calling", "sent"} THEN "failed"
                              ELSE call[q].stage
    BY <1>0, <1>5 DEF RestartLive, Restart, CallRecords
  <2>2. /\ Fates' = Fates
        /\ \A q \in Requests : Stages'[q] = IF Stages[q] = "calling" THEN "failed"
                                            ELSE Stages[q]
    BY <2>1 DEF Stages, Fates
  <2>3. HandlerChain' = HandlerChain
    BY <2>2 DEF HandlerChain
  <2>4. HandlerRequests' =
          [q \in Requests |-> IF HandlerRequests[q].stage = "calling"
                              THEN [HandlerRequests[q] EXCEPT !.stage = "failed"]
                              ELSE HandlerRequests[q]]
    <3>1. \A q \in Requests :
            HandlerRequests'[q] = IF HandlerRequests[q].stage = "calling"
                                  THEN [HandlerRequests[q] EXCEPT !.stage = "failed"]
                                  ELSE HandlerRequests[q]
      BY <2>1, <2>2 DEF HandlerRequests
    <3> QED BY <3>1, RequestsAreFunctions
  <2>5. Life!Restart
    BY <1>5, <2>3, <2>4 DEF RestartLive, Life!Restart
  <2> QED BY <2>5 DEF LifeStep, Life!Next
<1>6. CASE Redeploy /\ UNCHANGED <<order, asked>>
  <2>1. Stages' = Stages /\ Fates' = Fates
    BY <1>6 DEF Redeploy, Stages, Fates
  <2>2. HandlerRequests' = HandlerRequests /\ HandlerChain' = HandlerChain
    BY <1>6, <2>1, SeenStill
  <2> QED BY <1>6, <2>2 DEF LifeStep, Life!vars
<1>7. CASE UNCHANGED all
  <2>1. Stages' = Stages /\ Fates' = Fates
    BY <1>7 DEF all, Stages, Fates
  <2>2. HandlerRequests' = HandlerRequests /\ HandlerChain' = HandlerChain
    BY <1>7, <2>1, SeenStill DEF all
  <2> QED BY <1>7, <2>2 DEF all, LifeStep, Life!vars
<1>8. ASSUME NEW r \in Requests, NEW o \in Orders,
             \/ \E op \in {"tokenize", "settle", "bridge"} : Started(r, op, o, None)
             \/ \E amount \in Amounts : Started(r, "repay", o, amount)
      PROVE  LifeStep
  <2>1. Life!Handlers(r)
    BY <1>1, <1>8 DEF Life!Handlers, Life!Tokenize, Life!Settle, Life!PrepareBridge,
                      Life!RecordRepayment
  <2> QED BY <2>1 DEF LifeStep, Life!Next
<1>9. ASSUME NEW r \in Requests, Resumed(r)
      PROVE  LifeStep
  BY <1>2, <1>9 DEF LifeStep, Life!Next, Life!Gateway
<1> QED BY <1>3, <1>4, <1>5, <1>6, <1>7, <1>8, <1>9 DEF NextLive

\* The handlers over the gateway as it is, with racing nonces, refused, lost
\* and displaced transactions, faulty ABIs and restarts, live as
\* OrderLifecycle says: it supposes no more of a contract call than the
\* gateway delivers, and its theorems hold of them.
THEOREM LifecycleImplemented == LiveSpec => ImplementsLifecycle
<1>1. StartLive => Init /\ AskedKept
  BY DEF StartLive, AskedKept
<1>2. [NextLive]_all => [Next]_vars
  BY DEF NextLive, Started, Resumed, Underway, OwnStep, RestartLive, Next, all, vars
<1>3. AskedKept /\ [NextLive]_all => AskedKept'
  BY DEF AskedKept, NextLive, Started, Resumed, Underway, OwnStep, RestartLive, all
<1>4. StartLive => Life!Init
  <2> SUFFICES ASSUME StartLive PROVE Life!Init
    OBVIOUS
  <2>1. \A r \in Requests : /\ Stages[r] = "idle" /\ Fates[r] = "none"
                            /\ asked[r] = [op |-> "none", order |-> None, amount |-> None]
    BY DEF StartLive, Init, Stages, Fates
  <2>2. /\ HandlerRequests = [r \in Requests |-> [op |-> "none", order |-> None,
                                                  amount |-> None, stage |-> "idle"]]
        /\ HandlerChain = [r \in Requests |-> "none"]
    BY <2>1 DEF HandlerRequests, HandlerChain
  <2> QED BY <2>2 DEF StartLive, Life!Init
<1>5. LiveSpec => Spec
  BY <1>1, <1>2, PTL DEF LiveSpec, Spec
<1> QED BY <1>1, <1>3, <1>4, <1>5, StepInLife, AlwaysInv, PTL
        DEF LiveSpec, LifeStep, ImplementsLifecycle, Life!Spec
=============================================================================
