------------------------- MODULE AutonomousAgentProofs -------------------------
(***************************************************************************)
(* Proofs about AutonomousAgent, for any number of providers, cycles and   *)
(* intervals.  Inv does not depend on which provider is picked, only on    *)
(* its being one of the list; that no provider dominates the one picked is *)
(* a fact about Score, shown term by term.                                 *)
(***************************************************************************)
EXTENDS AutonomousAgent, SumTheorems

\* What a cycle under way has asked for is the payload in force, or a start
\* has been there.
AskedOrRenewed ==
  \A c \in Cycles : cycle[c].stage \in UnderWay =>
    payload = cycle[c].asked \/ cycle[c].renewed

Inv == TypeOK /\ OneInterval /\ ProofsMined /\ AskedOrRenewed

\* The best of a list are providers of that list.
LEMMA Listed ==
  ASSUME NEW list \in Seq(Providers)
  PROVE  Best(list) \subseteq Providers
<1>1. ToSet(list) \subseteq Providers
  BY DEF ToSet
<1> QED BY <1>1 DEF Best

\* The record of a cycle that ended is a cycle's record.
LEMMA EndedType ==
  ASSUME NEW stage \in Stages
  PROVE  Ended(stage) \in CycleRecords /\ Ended(stage).stage = stage
  BY DEF Ended, Idle, CycleRecords

\* A start marks the cycles under way, and changes nothing else of a cycle.
LEMMA RenewedCycles ==
  ASSUME Inv, NEW body \in Payloads \cup {None}, NEW new \in Payloads,
         new = IF body = None THEN payload ELSE body,
         NEW cycles, cycles = Renewed(body)
  PROVE  /\ cycles \in [Cycles -> CycleRecords]
         /\ \A c \in Cycles :
              /\ cycles[c].stage = cycle[c].stage
              /\ cycles[c].stage \in UnderWay =>
                   new = cycles[c].asked \/ cycles[c].renewed
<1>1. /\ cycle \in [Cycles -> CycleRecords] /\ payload \in Payloads
      /\ cycles = [c \in Cycles |-> cycles[c]]
  BY DEF Inv, TypeOK, Renewed
<1>2. ASSUME NEW c \in Cycles
      PROVE  /\ cycles[c] \in CycleRecords
             /\ cycles[c].stage = cycle[c].stage
             /\ cycles[c].stage \in UnderWay =>
                  new = cycles[c].asked \/ cycles[c].renewed
  <2>1. cycle[c] \in CycleRecords
    BY <1>1
  <2>2. CASE cycle[c].stage \in UnderWay /\ body \notin {None, payload}
    <3>1. cycles[c] = [cycle[c] EXCEPT !.renewed = TRUE]
      BY <2>2 DEF Renewed
    <3> QED BY <2>1, <3>1 DEF CycleRecords
  <2>3. CASE ~(cycle[c].stage \in UnderWay /\ body \notin {None, payload})
    <3>1. cycles[c] = cycle[c]
      BY <2>3 DEF Renewed
    <3> QED BY <2>1, <2>3, <3>1 DEF Inv, AskedOrRenewed
  <2> QED BY <2>2, <2>3
<1> QED BY <1>1, <1>2

\* A cycle that begins has asked for nothing yet, and asks for what is in force.
LEMMA BeginInv ==
  ASSUME Inv, NEW c \in Cycles, NEW list \in Seq(Providers), NEW new \in Payloads,
         NEW cycles \in [Cycles -> CycleRecords],
         \A d \in Cycles :
           /\ cycles[d].stage = cycle[d].stage
           /\ cycles[d].stage \in UnderWay =>
                new = cycles[d].asked \/ cycles[d].renewed,
         payload' = new, Begin(c, list, new, cycles)
  PROVE  /\ cycle' \in [Cycles -> CycleRecords]
         /\ ProofsMined' /\ AskedOrRenewed'
         /\ UNCHANGED <<latency, payment>>
<1>1. PICK p \in Best(list) :
        cycle' = [cycles EXCEPT ![c] = [stage |-> "calling", provider |-> p,
                                        asked |-> new, renewed |-> FALSE]]
  BY DEF Begin
<1>2. p \in Providers
  BY <1>1, Listed
<1>3. PICK begun : begun = [stage |-> "calling", provider |-> p,
                            asked |-> new, renewed |-> FALSE]
  OBVIOUS
<1>4. begun \in CycleRecords /\ begun.stage = "calling" /\ begun.asked = new
  BY <1>2, <1>3 DEF CycleRecords, Stages
<1>5. cycle' \in [Cycles -> CycleRecords]
  BY <1>1, <1>3, <1>4
<1>6. \A d \in Cycles : cycle'[d] = IF d = c THEN begun ELSE cycles[d]
  BY <1>1, <1>3
<1>7. UNCHANGED <<latency, payment>>
  BY DEF Begin
<1>8. ProofsMined'
  BY <1>4, <1>6, <1>7 DEF Inv, ProofsMined
<1>9. AskedOrRenewed'
  BY <1>4, <1>6 DEF AskedOrRenewed
<1> QED BY <1>5, <1>7, <1>8, <1>9

\* The start of a cycle keeps the invariant.
LEMMA StartInv ==
  ASSUME Inv, NEW c \in Cycles, NEW list \in Lists,
         NEW body \in Payloads \cup {None}, Start(c, list, body)
  PROVE  Inv'
<1>1. providers' \in Seq(Providers) /\ providers' # <<>>
  BY AgentAssumption DEF Start, Inv, TypeOK
<1>2. PICK new : new = payload'
  OBVIOUS
<1>3. new \in Payloads /\ new = IF body = None THEN payload ELSE body
  BY <1>2 DEF Start, Inv, TypeOK
<1>4. PICK cycles : cycles = Renewed(body)
  OBVIOUS
<1>5. /\ cycles \in [Cycles -> CycleRecords]
      /\ \A d \in Cycles :
           /\ cycles[d].stage = cycle[d].stage
           /\ cycles[d].stage \in UnderWay =>
                new = cycles[d].asked \/ cycles[d].renewed
  BY <1>3, <1>4, RenewedCycles
<1>6. CASE running /\ cycle' = cycles
           /\ UNCHANGED <<running, timer, intervals, latency, payment>>
  <2>1. ProofsMined'
    BY <1>5, <1>6 DEF Inv, ProofsMined
  <2>2. AskedOrRenewed'
    BY <1>2, <1>5, <1>6 DEF AskedOrRenewed
  <2> QED BY <1>1, <1>2, <1>3, <1>5, <1>6, <2>1, <2>2 DEF Inv, TypeOK, OneInterval
<1>7. ASSUME ~running, running' = TRUE, ScheduleLoop(c, providers', payload', Renewed(body))
      PROVE  Inv'
  <2>1. PICK begun : begun = providers'
    OBVIOUS
  <2>2. begun \in Seq(Providers) /\ Begin(c, begun, new, cycles)
    BY <1>1, <1>2, <1>4, <1>7, <2>1 DEF ScheduleLoop
  <2>3. /\ cycle' \in [Cycles -> CycleRecords]
        /\ ProofsMined' /\ AskedOrRenewed'
        /\ UNCHANGED <<latency, payment>>
    BY <1>2, <1>3, <1>5, <2>2, BeginInv
  <2>4. PICK i \in Intervals \ intervals : timer' = i /\ intervals' = intervals \cup {i}
    BY <1>7 DEF ScheduleLoop
  <2>5. OneInterval'
    BY <1>7, <2>4, AgentAssumption DEF Inv, OneInterval
  <2>6. TypeOK'
    BY <1>1, <1>2, <1>3, <1>7, <2>3, <2>4 DEF Inv, TypeOK
  <2> QED BY <2>3, <2>5, <2>6 DEF Inv
<1> QED BY <1>4, <1>6, <1>7 DEF Start

\* stop, which only clears the interval, keeps the invariant.
LEMMA StopInv ==
  ASSUME Inv, Stop
  PROVE  Inv'
  BY DEF Inv, Stop, TypeOK, OneInterval, ProofsMined, AskedOrRenewed

\* A cycle begun by an interval or by hand.
LEMMA CycleBegunInv ==
  ASSUME Inv, NEW c \in Cycles, Begin(c, providers, payload, cycle),
         UNCHANGED <<running, timer, intervals, providers, payload>>
  PROVE  Inv'
<1>1. /\ providers \in Seq(Providers) /\ payload \in Payloads
      /\ cycle \in [Cycles -> CycleRecords] /\ AskedOrRenewed
  BY DEF Inv, TypeOK
<1>2. /\ cycle' \in [Cycles -> CycleRecords]
      /\ ProofsMined' /\ AskedOrRenewed'
      /\ UNCHANGED <<latency, payment>>
  BY <1>1, BeginInv DEF AskedOrRenewed
<1> QED BY <1>2 DEF Inv, TypeOK, OneInterval

\* A cycle moves to another stage; to a second call only with its payment mined.
LEMMA GoesInv ==
  ASSUME Inv, NEW c \in Cycles, NEW stage \in Stages, Goes(c, stage),
         cycle[c].stage \in UnderWay,
         Live /\ stage = "retrying" => payment[c] = "mined",
         latency' \in [Providers -> Latencies \cup {None}], UNCHANGED payment
  PROVE  Inv'
<1>1. /\ cycle \in [Cycles -> CycleRecords]
      /\ UNCHANGED <<running, timer, intervals, providers, payload>>
  BY DEF Inv, TypeOK, Goes
<1>2. PICK new : new = IF stage \in UnderWay THEN [cycle[c] EXCEPT !.stage = stage]
                       ELSE Ended(stage)
  OBVIOUS
<1>3. cycle' = [cycle EXCEPT ![c] = new]
  BY <1>2 DEF Goes
<1>4. cycle[c] \in CycleRecords
  BY <1>1
<1>5. new \in CycleRecords /\ new.stage = stage
  BY <1>2, <1>4, EndedType DEF CycleRecords
<1>6. stage \in UnderWay => new.asked = cycle[c].asked /\ new.renewed = cycle[c].renewed
  BY <1>2, <1>4 DEF CycleRecords
<1>7. cycle' \in [Cycles -> CycleRecords]
  BY <1>1, <1>3, <1>5
<1>8. \A d \in Cycles : cycle'[d] = IF d = c THEN new ELSE cycle[d]
  BY <1>1, <1>3
<1>9. ProofsMined'
  BY <1>5, <1>8 DEF Inv, ProofsMined
<1>10. AskedOrRenewed'
  BY <1>1, <1>5, <1>6, <1>8 DEF Inv, AskedOrRenewed
<1> QED BY <1>1, <1>7, <1>9, <1>10 DEF Inv, TypeOK, OneInterval

\* A measured latency is a latency.
LEMMA TookType ==
  ASSUME Inv, NEW c \in Cycles, NEW ms \in Latencies, Took(c, ms)
  PROVE  latency' \in [Providers -> Latencies \cup {None}]
  BY DEF Took, Inv, TypeOK

\* The payment of a cycle keeps the invariant.
LEMMA PayInv ==
  ASSUME Inv, NEW c \in Cycles, Pay(c)
  PROVE  Inv'
<1>1. payment \in [Cycles -> Fates]
  BY DEF Inv, TypeOK
<1>2. /\ UNCHANGED <<running, timer, intervals, providers, payload, latency, cycle>>
      /\ payment[c] # "mined"
      /\ \E state \in Fates :
           payment' = [payment EXCEPT ![c] = state]
  BY DEF Pay, Fates
<1>3. payment' \in [Cycles -> Fates]
  BY <1>1, <1>2
<1>4. ProofsMined'
  BY <1>1, <1>2 DEF Inv, ProofsMined
<1> QED BY <1>2, <1>3, <1>4 DEF Inv, TypeOK, OneInterval, AskedOrRenewed

\* Every other step of a cycle keeps the invariant.
LEMMA ProgressInv ==
  ASSUME Inv, NEW c \in Cycles, Progress(c)
  PROVE  Inv'
<1>0. latency \in [Providers -> Latencies \cup {None}]
  BY DEF Inv, TypeOK
<1>1. ASSUME NEW ms \in Latencies,
             Served(c, ms) \/ PaymentRequired(c, ms) \/ ProofRefused(c, ms)
      PROVE  Inv'
  <2>1. Took(c, ms) /\ UNCHANGED payment
    BY <1>1 DEF Served, PaymentRequired, ProofRefused
  <2>2. /\ cycle[c].stage \in UnderWay
        /\ \E stage \in Stages : Goes(c, stage) /\ (Live => stage # "retrying")
    BY <1>1 DEF Served, PaymentRequired, ProofRefused, Stages, UnderWay
  <2> QED BY <2>1, <2>2, TookType, GoesInv
<1>2. CASE CallFailed(c) \/ PaymentFailed(c)
  BY <1>0, <1>2, GoesInv DEF CallFailed, PaymentFailed, Stages, UnderWay
<1>3. CASE Paid(c)
  BY <1>0, <1>3, GoesInv DEF Paid, Stages, UnderWay
<1>4. CASE Pay(c)
  BY <1>4, PayInv
<1> QED BY <1>1, <1>2, <1>3, <1>4 DEF Progress

\* A restart of the process keeps the invariant.
LEMMA RestartInv ==
  ASSUME Inv, Restart
  PROVE  Inv'
<1>1. ASSUME NEW c \in Cycles
      PROVE  cycle'[c] \in CycleRecords /\ cycle'[c].stage \notin UnderWay
  <2>1. cycle[c] \in CycleRecords
    BY DEF Inv, TypeOK
  <2>2. CASE cycle[c].stage \in UnderWay
    <3>1. cycle'[c] = Ended("failed")
      BY <2>2 DEF Restart
    <3> QED BY <3>1, EndedType DEF Stages, UnderWay
  <2>3. CASE cycle[c].stage \notin UnderWay
    BY <2>1, <2>3 DEF Restart
  <2> QED BY <2>2, <2>3
<1>2. cycle' = [c \in Cycles |-> cycle'[c]]
  BY DEF Restart
<1>3. cycle' \in [Cycles -> CycleRecords]
  BY <1>1, <1>2
<1>4. TypeOK'
  BY <1>3, AgentAssumption DEF Inv, Restart, TypeOK
<1>5. OneInterval'
  BY DEF Restart, OneInterval
<1> QED BY <1>1, <1>4, <1>5 DEF Inv, ProofsMined, AskedOrRenewed, UnderWay

-----------------------------------------------------------------------------
\* The agent as it is constructed satisfies the invariant.
LEMMA InitInv == Init => Inv
<1> SUFFICES ASSUME Init PROVE Inv
  OBVIOUS
<1>1. Idle \in CycleRecords /\ Idle.stage \notin UnderWay
  BY DEF Idle, CycleRecords, Stages, UnderWay
<1>2. TypeOK
  BY <1>1, AgentAssumption DEF Init, TypeOK, Fates
<1>3. OneInterval
  BY DEF Init, OneInterval
<1>4. ProofsMined
  BY <1>1 DEF Init, ProofsMined, UnderWay
<1>5. AskedOrRenewed
  BY <1>1 DEF Init, AskedOrRenewed
<1> QED BY <1>2, <1>3, <1>4, <1>5 DEF Inv

\* Every step of the agent, and every stutter, keeps the invariant.
LEMMA NextInv == Inv /\ [Next]_vars => Inv'
<1> SUFFICES ASSUME Inv, [Next]_vars PROVE Inv'
  OBVIOUS
<1>1. ASSUME NEW c \in Cycles, NEW list \in Lists, NEW body \in Payloads \cup {None},
             Start(c, list, body)
      PROVE  Inv'
  BY <1>1, StartInv
<1>2. ASSUME NEW c \in Cycles, NEW i \in Intervals, Tick(c, i) PROVE Inv'
  BY <1>2, CycleBegunInv DEF Tick
<1>3. ASSUME NEW c \in Cycles, Manual(c) PROVE Inv'
  BY <1>3, CycleBegunInv DEF Manual
<1>4. ASSUME NEW c \in Cycles, Progress(c) PROVE Inv'
  BY <1>4, ProgressInv
<1>5. CASE Stop
  BY <1>5, StopInv
<1>6. CASE Restart
  BY <1>6, RestartInv
<1>7. CASE UNCHANGED vars
  BY <1>7 DEF vars, Inv, TypeOK, OneInterval, ProofsMined, AskedOrRenewed
<1> QED BY <1>1, <1>2, <1>3, <1>4, <1>5, <1>6, <1>7 DEF Next

\* The invariant holds in every reachable state.
LEMMA AlwaysInv == Spec => []Inv
  BY InitInv, NextInv, PTL DEF Spec

\* Cycles, intervals and settings keep their types, and the list is never empty.
THEOREM TypeCorrect == Spec => []TypeOK
<1>1. Inv => TypeOK
  BY DEF Inv
<1> QED BY <1>1, AlwaysInv, PTL

\* The agent runs exactly when one interval is set, the one stop clears.
THEOREM AlwaysOneInterval == Spec => []OneInterval
<1>1. Inv => OneInterval
  BY DEF Inv
<1> QED BY <1>1, AlwaysInv, PTL

\* With the payment contract configured, no proof goes out for a transaction
\* that was not executed.
THEOREM ProofsAlwaysMined == Spec => []ProofsMined
<1>1. Inv => ProofsMined
  BY DEF Inv
<1> QED BY <1>1, AlwaysInv, PTL

\* Only a cycle under way makes a second call.
LEMMA BeginStages ==
  ASSUME NEW cycles \in [Cycles -> CycleRecords],
         \A d \in Cycles : cycles[d].stage = cycle[d].stage,
         NEW c \in Cycles, NEW list, NEW new, Begin(c, list, new, cycles)
  PROVE  \A d \in Cycles : cycle'[d].stage \in {"calling", cycle[d].stage}
<1>1. PICK p : cycle' = [cycles EXCEPT ![c] = [stage |-> "calling", provider |-> p,
                                              asked |-> new, renewed |-> FALSE]]
  BY DEF Begin
<1> QED BY <1>1

\* A cycle that is retrying after a step was under way before it.
LEMMA RetriesUnderWay ==
  ASSUME Inv, Next, NEW c \in Cycles, cycle'[c].stage = "retrying"
  PROVE  cycle[c].stage \in UnderWay
<1>1. cycle \in [Cycles -> CycleRecords] /\ "retrying" \in UnderWay
  BY DEF Inv, TypeOK, UnderWay
<1>2. ASSUME NEW d \in Cycles, NEW list \in Lists, NEW body \in Payloads \cup {None},
             Start(d, list, body)
      PROVE  cycle[c].stage \in UnderWay
  <2>1. PICK cycles, new : /\ cycles = Renewed(body)
                          /\ new = IF body = None THEN payload ELSE body
    OBVIOUS
  <2>2. new \in Payloads
    BY <2>1 DEF Inv, TypeOK
  <2>3. /\ cycles \in [Cycles -> CycleRecords]
        /\ \A e \in Cycles : cycles[e].stage = cycle[e].stage
    BY <2>1, <2>2, RenewedCycles
  <2>4. CASE cycle' = cycles
    BY <1>1, <2>3, <2>4
  <2>5. ASSUME Begin(d, providers', payload', cycles)
        PROVE  cycle[c].stage \in UnderWay
    <3>1. PICK p, q : p = providers' /\ q = payload'
      OBVIOUS
    <3>2. Begin(d, p, q, cycles)
      BY <2>5, <3>1
    <3> QED BY <1>1, <2>3, <3>2, BeginStages
  <2> QED BY <1>2, <2>1, <2>4, <2>5 DEF Start, ScheduleLoop
<1>3. ASSUME NEW d \in Cycles, Begin(d, providers, payload, cycle)
      PROVE  cycle[c].stage \in UnderWay
  BY <1>1, <1>3, BeginStages
<1>4. ASSUME NEW d \in Cycles, NEW stage, Goes(d, stage), cycle[d].stage \in UnderWay
      PROVE  cycle[c].stage \in UnderWay
  <2>1. PICK new : cycle' = [cycle EXCEPT ![d] = new]
    BY <1>4 DEF Goes
  <2> QED BY <1>1, <1>4, <2>1
<1>5. ASSUME NEW d \in Cycles, Progress(d) PROVE cycle[c].stage \in UnderWay
  <2>1. CASE cycle' = cycle
    BY <1>1, <2>1
  <2>2. CASE cycle[d].stage \in UnderWay /\ \E stage \in Stages : Goes(d, stage)
    BY <1>4, <2>2
  <2> QED BY <1>5, <2>1, <2>2 DEF Progress, Served, PaymentRequired, ProofRefused,
               CallFailed, Pay, Paid, PaymentFailed, Stages, UnderWay
<1>6. CASE Stop
  BY <1>1, <1>6 DEF Stop
<1>7. CASE Restart
  <2>1. cycle'[c] = IF cycle[c].stage \in UnderWay THEN Ended("failed") ELSE cycle[c]
    BY <1>7 DEF Restart
  <2> QED BY <1>1, <2>1
<1> QED BY <1>2, <1>3, <1>5, <1>6, <1>7 DEF Next, Tick, Manual

\* A proof of payment accompanies another payload than the one paid for only
\* when a start has replaced the payload between the two calls.
THEOREM AlwaysPaidForAsAsked == Spec => PaidForAsAsked
<1>1. ASSUME Inv, [Next]_vars
      PROVE  [\A c \in Cycles :
                cycle[c].stage # "retrying" /\ cycle'[c].stage = "retrying" =>
                  payload = cycle[c].asked \/ cycle[c].renewed]_vars
  <2> SUFFICES ASSUME Next, NEW c \in Cycles,
                      cycle[c].stage # "retrying", cycle'[c].stage = "retrying"
               PROVE  cycle[c].stage \in UnderWay
    BY <1>1 DEF Inv, AskedOrRenewed
  <2> QED BY <1>1, RetriesUnderWay
<1> QED BY <1>1, AlwaysInv, PTL DEF Spec, PaidForAsAsked

-----------------------------------------------------------------------------
(* Which provider is picked. *)

\* A finite set of numbers that is not empty has a greatest and a least.
LEMMA MaxMin ==
  ASSUME NEW V, IsFiniteSet(V), V \subseteq Nat, V # {}
  PROVE  /\ Max(V) \in V /\ \A y \in V : Max(V) >= y
         /\ Min(V) \in V /\ \A y \in V : Min(V) =< y
<1>1. V \subseteq Int
  OBVIOUS
<1> QED BY <1>1, HasExtremes DEF Max, Min

\* The values of a criterion: a smaller one gains more on the largest, a
\* larger one more on the smallest, and the spread is not zero.
LEMMA Gains ==
  ASSUME NEW V, IsFiniteSet(V), V \subseteq Nat, V # {}
  PROVE  /\ Spread(V) \in Nat \ {0}
         /\ \A x, y \in V :
              /\ Gain(x, Max(V), V) \in Nat /\ Gain(x, Min(V), V) \in Nat
              /\ y <= x => Gain(x, Max(V), V) <= Gain(y, Max(V), V)
              /\ y < x  => Gain(x, Max(V), V) < Gain(y, Max(V), V)
              /\ x <= y => Gain(x, Min(V), V) <= Gain(y, Min(V), V)
              /\ x < y  => Gain(x, Min(V), V) < Gain(y, Min(V), V)
<1>1. CASE Cardinality(V) = 1
  <2>1. \A x, y \in V : x = y
    BY <1>1, FS_Singleton
  <2> QED BY <1>1, <2>1 DEF Spread, Gain
<1>2. CASE Cardinality(V) # 1
  <2>1. PICK a, b : a = Max(V) /\ b = Min(V)
    OBVIOUS
  <2>2. a \in V /\ b \in V /\ a \in Nat /\ b \in Nat /\ \A y \in V : y \in Nat /\ b =< y /\ a >= y
    BY <2>1, MaxMin
  <2>3. a # b
    <3> SUFFICES ASSUME a = b PROVE FALSE
      OBVIOUS
    <3>1. \A y \in V : y = a
      BY <2>2
    <3>2. V = {a}
      BY <2>2, <3>1
    <3> QED BY <1>2, <3>2, FS_Singleton
  <2> QED BY <1>2, <2>1, <2>2, <2>3 DEF Spread, Gain
<1> QED BY <1>1, <1>2

\* Multiplication by a positive number keeps the order, strict or not.
LEMMA Times ==
  ASSUME NEW x \in Nat, NEW y \in Nat, x <= y, NEW m \in Nat \ {0}
  PROVE  /\ x * m \in Nat /\ y * m \in Nat /\ x * m <= y * m
         /\ x < y => x * m < y * m
  OBVIOUS

\* One of the three terms of a score, weighted by w.
Weighted(w, x, m, n) == w * x * m * n

\* A weighted term of a score keeps the order of what it weighs, strict or not.
LEMMA Term ==
  ASSUME NEW w \in {45, 35, 20}, NEW x \in Nat, NEW y \in Nat, x <= y,
         NEW m \in Nat \ {0}, NEW n \in Nat \ {0}
  PROVE  /\ Weighted(w, x, m, n) \in Nat /\ Weighted(w, y, m, n) \in Nat
         /\ Weighted(w, x, m, n) <= Weighted(w, y, m, n)
         /\ x < y => Weighted(w, x, m, n) < Weighted(w, y, m, n)
<1>1. PICK a \in Nat, b \in Nat : a = w * x /\ b = w * y /\ a <= b /\ (x < y => a < b)
  OBVIOUS
<1>2. PICK c \in Nat, d \in Nat : c = a * m /\ d = b * m /\ c <= d /\ (a < b => c < d)
  BY <1>1, Times
<1>3. c * n \in Nat /\ d * n \in Nat /\ c * n <= d * n /\ (c < d => c * n < d * n)
  BY <1>2, Times
<1>4. Weighted(w, x, m, n) = c * n /\ Weighted(w, y, m, n) = d * n
  BY <1>1, <1>2 DEF Weighted
<1> QED BY <1>1, <1>2, <1>3, <1>4

\* More in one criterion, and no less in any, is a higher score.
LEMMA MoreOfEach ==
  ASSUME NEW a \in Nat, NEW b \in Nat, NEW c \in Nat,
         NEW d \in Nat, NEW e \in Nat, NEW f \in Nat,
         a <= b, c <= d, e <= f, a < b \/ c < d \/ e < f,
         NEW sp \in Nat \ {0}, NEW sl \in Nat \ {0}, NEW sq \in Nat \ {0}
  PROVE  ~(Weighted(45, a, sl, sq) + Weighted(35, c, sp, sq) + Weighted(20, e, sp, sl)
           >= Weighted(45, b, sl, sq) + Weighted(35, d, sp, sq) + Weighted(20, f, sp, sl))
<1>1. /\ Weighted(45, a, sl, sq) \in Nat /\ Weighted(45, b, sl, sq) \in Nat
      /\ Weighted(45, a, sl, sq) <= Weighted(45, b, sl, sq)
      /\ a < b => Weighted(45, a, sl, sq) < Weighted(45, b, sl, sq)
  BY Term
<1>2. /\ Weighted(35, c, sp, sq) \in Nat /\ Weighted(35, d, sp, sq) \in Nat
      /\ Weighted(35, c, sp, sq) <= Weighted(35, d, sp, sq)
      /\ c < d => Weighted(35, c, sp, sq) < Weighted(35, d, sp, sq)
  BY Term
<1>3. /\ Weighted(20, e, sp, sl) \in Nat /\ Weighted(20, f, sp, sl) \in Nat
      /\ Weighted(20, e, sp, sl) <= Weighted(20, f, sp, sl)
      /\ e < f => Weighted(20, e, sp, sl) < Weighted(20, f, sp, sl)
  BY Term
<1> QED BY <1>1, <1>2, <1>3

\* A provider that dominates another has the higher score.
LEMMA DominatesScore ==
  ASSUME latency \in [Providers -> Latencies \cup {None}],
         NEW list \in Seq(Providers), NEW p \in ToSet(list), NEW q \in ToSet(list),
         Dominates(q, p)
  PROVE  ~(Score(p, list) >= Score(q, list))
<1>1. /\ ToSet(list) \subseteq Providers
      /\ \A r \in Providers : Price[r] \in Nat /\ Expected(r) \in Nat /\ Quality[r] \in Nat
  <2>1. ToSet(list) \subseteq Providers
    BY DEF ToSet
  <2>2. ASSUME NEW r \in Providers
        PROVE  Price[r] \in Nat /\ Expected(r) \in Nat /\ Quality[r] \in Nat
    BY AgentAssumption DEF Expected
  <2> QED BY <2>1, <2>2
<1> DEFINE P == {Price[r] : r \in ToSet(list)}
           L == {Expected(r) : r \in ToSet(list)}
           Q == {Quality[r] : r \in ToSet(list)}
<1>2. IsFiniteSet(ToSet(list))
  <2>1. IsFiniteSet(DOMAIN list)
    BY FS_Interval
  <2>2. list \in Surjection(DOMAIN list, ToSet(list))
    BY DEF Surjection, ToSet
  <2> QED BY <2>1, <2>2, FS_Surjection
<1>3. /\ IsFiniteSet(P) /\ IsFiniteSet(L) /\ IsFiniteSet(Q)
  <2>1. [r \in ToSet(list) |-> Price[r]] \in Surjection(ToSet(list), P)
    BY DEF Surjection
  <2>2. [r \in ToSet(list) |-> Expected(r)] \in Surjection(ToSet(list), L)
    BY DEF Surjection
  <2>3. [r \in ToSet(list) |-> Quality[r]] \in Surjection(ToSet(list), Q)
    BY DEF Surjection
  <2> HIDE DEF P, L, Q
  <2> QED BY <1>2, <2>1, <2>2, <2>3, FS_Surjection
<1>4. /\ P \subseteq Nat /\ L \subseteq Nat /\ Q \subseteq Nat
      /\ Price[p] \in P /\ Expected(p) \in L /\ Quality[p] \in Q
      /\ Price[q] \in P /\ Expected(q) \in L /\ Quality[q] \in Q
  BY <1>1
<1>5. /\ Score(p, list) = Weighted(45, Gain(Price[p], Max(P), P), Spread(L), Spread(Q))
                          + Weighted(35, Gain(Expected(p), Max(L), L), Spread(P), Spread(Q))
                          + Weighted(20, Gain(Quality[p], Min(Q), Q), Spread(P), Spread(L))
      /\ Score(q, list) = Weighted(45, Gain(Price[q], Max(P), P), Spread(L), Spread(Q))
                          + Weighted(35, Gain(Expected(q), Max(L), L), Spread(P), Spread(Q))
                          + Weighted(20, Gain(Quality[q], Min(Q), Q), Spread(P), Spread(L))
  BY DEF Score, Weighted
<1> HIDE DEF P, L, Q
<1>6. PICK sp, sl, sq : /\ sp = Spread(P) /\ sl = Spread(L) /\ sq = Spread(Q)
                        /\ sp \in Nat \ {0} /\ sl \in Nat \ {0} /\ sq \in Nat \ {0}
  BY <1>3, <1>4, Gains
<1>7. PICK a, b : /\ a = Gain(Price[p], Max(P), P) /\ b = Gain(Price[q], Max(P), P)
                  /\ a \in Nat /\ b \in Nat /\ a <= b /\ (Price[q] < Price[p] => a < b)
  BY <1>3, <1>4, Gains DEF Dominates
<1>8. PICK c, d : /\ c = Gain(Expected(p), Max(L), L) /\ d = Gain(Expected(q), Max(L), L)
                  /\ c \in Nat /\ d \in Nat /\ c <= d /\ (Expected(q) < Expected(p) => c < d)
  BY <1>3, <1>4, Gains DEF Dominates
<1>9. PICK e, f : /\ e = Gain(Quality[p], Min(Q), Q) /\ f = Gain(Quality[q], Min(Q), Q)
                  /\ e \in Nat /\ f \in Nat /\ e <= f /\ (Quality[q] > Quality[p] => e < f)
  BY <1>1, <1>3, <1>4, Gains DEF Dominates
<1>10. a < b \/ c < d \/ e < f
  BY <1>7, <1>8, <1>9 DEF Dominates
<1>11. /\ Score(p, list) = Weighted(45, a, sl, sq) + Weighted(35, c, sp, sq)
                             + Weighted(20, e, sp, sl)
       /\ Score(q, list) = Weighted(45, b, sl, sq) + Weighted(35, d, sp, sq)
                             + Weighted(20, f, sp, sl)
  BY <1>5, <1>6, <1>7, <1>8, <1>9
<1>12. /\ a \in Nat /\ b \in Nat /\ c \in Nat /\ d \in Nat /\ e \in Nat /\ f \in Nat
       /\ a <= b /\ c <= d /\ e <= f /\ (a < b \/ c < d \/ e < f)
       /\ sp \in Nat \ {0} /\ sl \in Nat \ {0} /\ sq \in Nat \ {0}
  BY <1>6, <1>7, <1>8, <1>9, <1>10
<1>13. ~(Weighted(45, a, sl, sq) + Weighted(35, c, sp, sq) + Weighted(20, e, sp, sl)
         >= Weighted(45, b, sl, sq) + Weighted(35, d, sp, sq) + Weighted(20, f, sp, sl))
  BY <1>12, MoreOfEach, Zenon
<1> QED BY <1>11, <1>13

\* A cycle that begins picks one of the best of the list it is given.
LEMMA BegunWithBest ==
  ASSUME Inv, NEW c \in Cycles, NEW list, NEW body,
         NEW cycles \in [Cycles -> CycleRecords],
         \A d \in Cycles : cycle[d] = Idle => cycles[d] = Idle,
         Begin(c, list, body, cycles),
         NEW d \in Cycles, cycle[d] = Idle, cycle'[d] # Idle
  PROVE  cycle'[d].provider \in Best(list)
<1>1. PICK p \in Best(list) :
        cycle' = [cycles EXCEPT ![c] = [stage |-> "calling", provider |-> p,
                                        asked |-> body, renewed |-> FALSE]]
  BY DEF Begin
<1>2. d = c
  BY <1>1
<1> QED BY <1>1, <1>2

\* Whatever a start puts in force and whatever latencies overlapping cycles
\* leave, no cycle picks a provider that another of the list dominates.
THEOREM PicksAlwaysUndominated == Spec => PicksUndominated
<1>1. ASSUME Inv, Inv', Next, NEW c \in Cycles, cycle[c] = Idle, cycle'[c] # Idle
      PROVE  cycle'[c].provider \in Best(providers')
  <2>1. cycle \in [Cycles -> CycleRecords] /\ Idle.stage = "idle" /\ "idle" \notin UnderWay
    BY <1>1 DEF Inv, TypeOK, Idle, UnderWay
  <2>2. ASSUME NEW d \in Cycles, NEW list \in Lists, NEW body \in Payloads \cup {None},
               Start(d, list, body)
        PROVE  cycle'[c].provider \in Best(providers')
    <3>1. \A e \in Cycles : cycle[e] = Idle => Renewed(body)[e] = Idle
      BY <2>1 DEF Renewed
    <3>2. ~running
      BY <1>1, <2>2, <3>1 DEF Start
    <3>3. Begin(d, providers', payload', Renewed(body))
      BY <2>2, <3>2 DEF Start, ScheduleLoop
    <3>4. Renewed(body) \in [Cycles -> CycleRecords]
      <4>1. \A e \in Cycles : [cycle[e] EXCEPT !.renewed = TRUE] \in CycleRecords
        BY <2>1 DEF CycleRecords
      <4> QED BY <2>1, <4>1 DEF Renewed
    <3>5. PICK list2, body2, cycles : /\ list2 = providers' /\ body2 = payload'
                                      /\ cycles = Renewed(body)
      OBVIOUS
    <3> QED BY <1>1, <3>1, <3>3, <3>4, <3>5, BegunWithBest
  <2>3. ASSUME NEW d \in Cycles, Begin(d, providers, payload, cycle), providers' = providers
        PROVE  cycle'[c].provider \in Best(providers')
    BY <1>1, <2>1, <2>3, BegunWithBest
  <2>4. ASSUME NEW d \in Cycles, NEW stage, Goes(d, stage), cycle[d].stage \in UnderWay
        PROVE  FALSE
    BY <1>1, <2>1, <2>4 DEF Goes
  <2>5. ASSUME NEW d \in Cycles, Progress(d)
        PROVE  FALSE
    BY <1>1, <2>4, <2>5 DEF Progress, Served, PaymentRequired, ProofRefused, CallFailed,
                            Pay, Paid, PaymentFailed, UnderWay
  <2>6. ~Stop /\ ~Restart
    BY <1>1, <2>1 DEF Stop, Restart
  <2> QED BY <1>1, <2>2, <2>3, <2>5, <2>6 DEF Next, Tick, Manual
<1>2. ASSUME Inv, Inv', Next, NEW c \in Cycles, cycle[c] = Idle, cycle'[c] # Idle
      PROVE  /\ cycle'[c].provider \in ToSet(providers')
             /\ \A q \in ToSet(providers') : ~Dominates(q, cycle'[c].provider)
  <2>1. PICK p, list : p = cycle'[c].provider /\ list = providers'
    OBVIOUS
  <2>2. /\ p \in ToSet(list) /\ \A q \in ToSet(list) : Score(p, list) >= Score(q, list)
    BY <1>1, <1>2, <2>1 DEF Best
  <2>3. list \in Seq(Providers) /\ latency \in [Providers -> Latencies \cup {None}]
    BY <1>2, <2>1 DEF Inv, TypeOK
  <2> QED BY <2>1, <2>2, <2>3, DominatesScore
<1>3. Inv /\ Inv' /\ [Next]_vars =>
        [\A c \in Cycles :
           cycle[c] = Idle /\ cycle'[c] # Idle =>
             /\ cycle'[c].provider \in ToSet(providers')
             /\ \A q \in ToSet(providers') : ~Dominates(q, cycle'[c].provider)]_vars
  BY <1>2
<1> QED BY <1>3, AlwaysInv, PTL DEF Spec, PicksUndominated
=============================================================================
