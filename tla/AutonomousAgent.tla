---------------------------- MODULE AutonomousAgent ----------------------------
(***************************************************************************)
(* The agent that buys a service over x402: AutonomousAgentService with    *)
(* X402ClientService and AvalanchePaymentService.  A cycle picks the best  *)
(* provider, calls it, pays if it answers 402, and calls again with the    *)
(* proof.  Cycles are begun by start, by the interval that start sets, and *)
(* by POST agent/cycle; none waits for another, so they overlap.           *)
(*                                                                         *)
(* Prices, qualities and latencies are integers on any scale.  The log and *)
(* the last* fields of the status steer nothing: left out.                 *)
(***************************************************************************)
EXTENDS Integers, FiniteSetsExt, SequencesExt

CONSTANTS
  Providers,   \* ids of service providers
  Price, Quality, TimeoutMs,   \* of each provider
  Defaults,    \* DEFAULT_PROVIDERS
  Lists,       \* lists of providers a POST agent/start may carry, or <<>>
  Payloads,    \* what a POST agent/start may have the agent ask for
  HealthCheck, \* what the agent asks for unless it is told otherwise
  Latencies,   \* how long an answer may take
  Cycles,      \* bound: activations of runSingleCycle
  Intervals,   \* handles that setInterval returns
  Live,        \* TRUE when the three AVAX variables are set
  None

ASSUME AgentAssumption ==
  /\ Price \in [Providers -> Nat] /\ Quality \in [Providers -> Nat]
  /\ TimeoutMs \in [Providers -> Nat] /\ Latencies \subseteq Nat
  /\ Defaults \in Seq(Providers) /\ Defaults # <<>>
  /\ Lists \subseteq Seq(Providers)
  /\ HealthCheck \in Payloads
  /\ Live \in BOOLEAN
  /\ None \notin Providers \cup Intervals \cup Latencies \cup Payloads

VARIABLES
  running,     \* the flag of that name
  timer,       \* the handle the service holds
  intervals,   \* the intervals that are set
  providers,   \* the list in force
  payload,     \* requestPayload
  latency,     \* providerLatency
  cycle,       \* the activations of runSingleCycle
  payment      \* what became of each cycle's transaction

vars == <<running, timer, intervals, providers, payload, latency, cycle, payment>>

Stages == {"idle", "calling", "paying", "retrying", "done", "failed"}

\* asked is the payload of the first call; renewed tells that a start has
\* replaced requestPayload since.
CycleRecords == [stage : Stages, provider : Providers \cup {None},
                 asked : Payloads \cup {None}, renewed : BOOLEAN]

Idle == [stage |-> "idle", provider |-> None, asked |-> None, renewed |-> FALSE]

UnderWay == {"calling", "paying", "retrying"}

\* What may have become of a cycle's transaction.
Fates == {"none", "sent", "mined", "reverted", "refused", "displaced"}

-----------------------------------------------------------------------------
(* rankProviders *)

Expected(p) == IF latency[p] # None THEN latency[p] ELSE TimeoutMs[p]

\* How far apart the values of a criterion are; 1 if they are not.
Spread(values) == IF Cardinality(values) = 1 THEN 1 ELSE Max(values) - Min(values)

\* What a provider gains on the worst in a criterion, of the spread: all of it
\* if there is no worst.
Gain(value, worst, values) ==
  IF Cardinality(values) = 1 THEN 1
  ELSE IF value < worst THEN worst - value ELSE value - worst

\* Mutant: a long latency is an advantage.
ScoreSlow(p, list) ==
  LET prices    == {Price[q] : q \in ToSet(list)}
      latencies == {Expected(q) : q \in ToSet(list)}
      qualities == {Quality[q] : q \in ToSet(list)}
  IN  45 * Gain(Price[p], Max(prices), prices) * Spread(latencies) * Spread(qualities)
      + 35 * Gain(Expected(p), Min(latencies), latencies) * Spread(prices) * Spread(qualities)
      + 20 * Gain(Quality[p], Min(qualities), qualities) * Spread(prices) * Spread(latencies)

\* 100 times the score, times the product of the three spreads.
Score(p, list) ==
  LET prices    == {Price[q] : q \in ToSet(list)}
      latencies == {Expected(q) : q \in ToSet(list)}
      qualities == {Quality[q] : q \in ToSet(list)}
  IN  45 * Gain(Price[p], Max(prices), prices) * Spread(latencies) * Spread(qualities)
      + 35 * Gain(Expected(p), Max(latencies), latencies) * Spread(prices) * Spread(qualities)
      + 20 * Gain(Quality[p], Min(qualities), qualities) * Spread(prices) * Spread(latencies)

\* The providers that may come first: equal scores may differ in their last
\* bit when they are computed in floating point.
Best(list) ==
  {p \in ToSet(list) : \A q \in ToSet(list) : Score(p, list) >= Score(q, list)}

-----------------------------------------------------------------------------
Init ==
  /\ running = FALSE
  /\ timer = None
  /\ intervals = {}
  /\ providers = Defaults
  /\ payload = HealthCheck
  /\ latency = [p \in Providers |-> None]
  /\ cycle = [c \in Cycles |-> Idle]
  /\ payment = [c \in Cycles |-> "none"]

\* runSingleCycle up to its first await.
Begin(c, list, body, cycles) ==
  /\ cycle[c] = Idle
  /\ \E p \in Best(list) :
       cycle' = [cycles EXCEPT ![c] = [stage |-> "calling", provider |-> p,
                                       asked |-> body, renewed |-> FALSE]]
  /\ UNCHANGED <<latency, payment>>

\* The cycles under way after a start that carries body, or none.
Renewed(body) ==
  [c \in Cycles |->
     IF cycle[c].stage \in UnderWay /\ body \notin {None, payload}
     THEN [cycle[c] EXCEPT !.renewed = TRUE] ELSE cycle[c]]

\* scheduleLoop: the first cycle and the interval.
ScheduleLoop(c, list, body, cycles) ==
  /\ Begin(c, list, body, cycles)
  /\ \E i \in Intervals \ intervals :
       timer' = i /\ intervals' = intervals \cup {i}

\* Mutant: an empty list is taken for a list.
StartEmptied(c, list, body) ==
  /\ providers' = list
  /\ payload' = IF body = None THEN payload ELSE body
  /\ \/ /\ running
        /\ cycle' = Renewed(body)
        /\ UNCHANGED <<running, timer, intervals, latency, payment>>
     \/ /\ ~running
        /\ running' = TRUE
        /\ ScheduleLoop(c, providers', payload', Renewed(body))

\* Mutant: a start that carries no payload goes back to the health check.
StartForgetful(c, list, body) ==
  /\ providers' = IF list = <<>> THEN providers ELSE list
  /\ payload' = IF body = None THEN HealthCheck ELSE body
  /\ \/ /\ running
        /\ cycle' = Renewed(body)
        /\ UNCHANGED <<running, timer, intervals, latency, payment>>
     \/ /\ ~running
        /\ running' = TRUE
        /\ ScheduleLoop(c, providers', payload', Renewed(body))

\* start.  A list and a payload take effect even when the agent runs already,
\* the payload also for the second call of a cycle that is under way.
Start(c, list, body) ==
  /\ providers' = IF list = <<>> THEN providers ELSE list
  /\ payload' = IF body = None THEN payload ELSE body
  /\ \/ /\ running
        /\ cycle' = Renewed(body)
        /\ UNCHANGED <<running, timer, intervals, latency, payment>>
     \/ /\ ~running
        /\ running' = TRUE
        /\ ScheduleLoop(c, providers', payload', Renewed(body))

\* Mutant: the interval goes on when its handle is dropped.
StopLeaking ==
  /\ timer' = None
  /\ running' = FALSE
  /\ UNCHANGED <<intervals, providers, payload, latency, cycle, payment>>

\* stop, and onModuleDestroy.  Cycles that are under way go on.
Stop ==
  /\ intervals' = intervals \ {timer}
  /\ timer' = None
  /\ running' = FALSE
  /\ UNCHANGED <<providers, payload, latency, cycle, payment>>

\* An interval fires.
Tick(c, i) ==
  /\ i \in intervals
  /\ Begin(c, providers, payload, cycle)
  /\ UNCHANGED <<running, timer, intervals, providers, payload>>

\* POST agent/cycle.
Manual(c) ==
  /\ Begin(c, providers, payload, cycle)
  /\ UNCHANGED <<running, timer, intervals, providers, payload>>

-----------------------------------------------------------------------------
(* A cycle from its first await on.  It holds on to its provider, whatever  *)
(* list is in force by then.                                                *)

\* A cycle that has ended has forgotten the rest.
Ended(stage) == [Idle EXCEPT !.stage = stage]

Goes(c, stage) ==
  /\ cycle' = [cycle EXCEPT ![c] =
                 IF stage \in UnderWay THEN [@ EXCEPT !.stage = stage]
                 ELSE Ended(stage)]
  /\ UNCHANGED <<running, timer, intervals, providers, payload>>

Took(c, ms) == latency' = [latency EXCEPT ![cycle[c].provider] = ms]

\* The provider serves, at once or upon the proof.
Served(c, ms) ==
  /\ cycle[c].stage \in {"calling", "retrying"}
  /\ Goes(c, "done")
  /\ Took(c, ms)
  /\ UNCHANGED payment

\* The provider answers 402 to the first call.  A mock proof is made at once.
PaymentRequired(c, ms) ==
  /\ cycle[c].stage = "calling"
  /\ Goes(c, IF Live THEN "paying" ELSE "retrying")
  /\ Took(c, ms)
  /\ UNCHANGED payment

\* It answers 402 to the second call as well.
ProofRefused(c, ms) ==
  /\ cycle[c].stage = "retrying"
  /\ Goes(c, "failed")
  /\ Took(c, ms)
  /\ UNCHANGED payment

\* Mutant: a call that times out is left hanging.
CallFailedUnseen(c) == FALSE /\ cycle[c].stage = "calling" /\ Goes(c, "failed")

\* The call times out, is refused, or is answered by an error or by a body
\* that cannot be read: no latency is taken.
CallFailed(c) ==
  /\ cycle[c].stage \in {"calling", "retrying"}
  /\ Goes(c, "failed")
  /\ UNCHANGED <<latency, payment>>

\* payForService is sent, and the node and the chain decide on it: the latter
\* whether or not the cycle still waits for it.  Each cycle makes a wallet of
\* its own from the one key, so that two which overlap may use one nonce; then
\* the node may keep the payment of one of them in place of the other.
Pay(c) ==
  /\ \/ /\ cycle[c].stage = "paying" /\ payment[c] = "none"
        /\ payment' = [payment EXCEPT ![c] = "sent"]
     \/ /\ payment[c] = "sent"
        /\ \E verdict \in {"mined", "reverted", "refused", "displaced"} :
             /\ verdict = "displaced" => \E d \in Cycles \ {c} : payment[d] = "sent"
             /\ payment' = [payment EXCEPT ![c] = verdict]
  /\ UNCHANGED <<running, timer, intervals, providers, payload, latency, cycle>>

\* Mutant: the proof is made of a transaction that may yet be reverted.
PaidEarly(c) ==
  /\ cycle[c].stage = "paying" /\ payment[c] # "none"
  /\ Goes(c, "retrying")
  /\ UNCHANGED <<latency, payment>>

\* The receipt and the network have been read; the second call goes out.
Paid(c) ==
  /\ cycle[c].stage = "paying" /\ payment[c] = "mined"
  /\ Goes(c, "retrying")
  /\ UNCHANGED <<latency, payment>>

\* The endpoint fails before the transaction is sent, while it is pending or
\* after it was mined, or tells that it was refused or reverted.
PaymentFailed(c) ==
  /\ cycle[c].stage = "paying"
  /\ Goes(c, "failed")
  /\ UNCHANGED <<latency, payment>>

\* The process dies and starts again.
Restart ==
  /\ running' = FALSE /\ timer' = None /\ intervals' = {}
  /\ providers' = Defaults
  /\ payload' = HealthCheck
  /\ latency' = [p \in Providers |-> None]
  /\ cycle' = [c \in Cycles |->
                 IF cycle[c].stage \in UnderWay
                 THEN Ended("failed") ELSE cycle[c]]
  /\ UNCHANGED payment

Progress(c) ==
  \/ \E ms \in Latencies :
       Served(c, ms) \/ PaymentRequired(c, ms) \/ ProofRefused(c, ms)
  \/ CallFailed(c)
  \/ Pay(c) \/ Paid(c)
  \/ PaymentFailed(c)

Next ==
  \/ \E c \in Cycles :
       \/ \E list \in Lists, body \in Payloads \cup {None} : Start(c, list, body)
       \/ \E i \in Intervals : Tick(c, i)
       \/ Manual(c)
       \/ Progress(c)
  \/ Stop
  \/ Restart

Spec == Init /\ [][Next]_vars

\* Every call of a provider carries AbortSignal.timeout, so it fails if it is
\* not answered.  A payment has no timeout: that it ends is up to the endpoint,
\* which is assumed to send what it is given and to tell what became of it, and
\* to the node and the chain, which are assumed to decide on it.  Of a payment
\* that was displaced nobody tells: tx.wait() asks for its receipt for ever.
Fairness ==
  \A c \in Cycles :
    /\ WF_vars(CallFailed(c))
    /\ WF_vars(Pay(c))
    /\ WF_vars(Paid(c))
    /\ WF_vars(payment[c] \in {"refused", "reverted"} /\ PaymentFailed(c))

FairSpec == Spec /\ Fairness
-----------------------------------------------------------------------------
TypeOK ==
  /\ running \in BOOLEAN
  /\ timer \in Intervals \cup {None}
  /\ intervals \subseteq Intervals
  /\ providers \in Seq(Providers) /\ providers # <<>>
  /\ payload \in Payloads
  /\ latency \in [Providers -> Latencies \cup {None}]
  /\ cycle \in [Cycles -> CycleRecords]
  /\ payment \in [Cycles -> Fates]

\* The agent runs exactly when one interval is set, and that is the one stop
\* will clear: no sequence of start and stop leaves a second one behind, and
\* none begins a cycle after stop.
OneInterval ==
  /\ running <=> timer # None
  /\ intervals = {timer} \ {None}

\* With the payment contract configured, a proof of payment goes out only for
\* a transaction that was executed.
ProofsMined ==
  Live => \A c \in Cycles : cycle[c].stage = "retrying" => payment[c] = "mined"

\* The second call of a cycle asks for what was paid for, the payload of the
\* first, unless a start has brought another payload in the meantime: then it
\* is that other one which the proof of payment accompanies.
PaidForAsAsked ==
  [][\A c \in Cycles :
       cycle[c].stage # "retrying" /\ cycle'[c].stage = "retrying" =>
         payload = cycle[c].asked \/ cycle[c].renewed]_vars

Dominates(q, p) ==
  /\ Price[q] <= Price[p] /\ Expected(q) <= Expected(p) /\ Quality[q] >= Quality[p]
  /\ Price[q] < Price[p] \/ Expected(q) < Expected(p) \/ Quality[q] > Quality[p]

\* A cycle never picks a provider when another of the list in force is no
\* worse in any criterion and better in one, whatever latencies overlapping
\* cycles have left.
PicksUndominated ==
  [][\A c \in Cycles :
       cycle[c] = Idle /\ cycle'[c] # Idle =>
         /\ cycle'[c].provider \in ToSet(providers')
         /\ \A q \in ToSet(providers') : ~Dominates(q, cycle'[c].provider)]_vars

\* A cycle ends, with the service or with an error, unless the payment of an
\* overlapping cycle displaces its own: nothing else leaves it waiting.
CyclesEnd ==
  \A c \in Cycles :
    cycle[c].stage = "calling" ~>
      cycle[c].stage \in {"done", "failed"} \/ payment[c] = "displaced"
=============================================================================
