# Verification of aleph-back

aleph-back is a NestJS API for pooled procurement. Retailers commit demand to
permissioned pools; a pool's commitments are aggregated into an order; the order is
tokenized, financed, settled, repaid and prepared for bridging, with transactions on a
private L1 when one is configured and with made-up hashes when not. Beside it stand
e-mail and Google accounts, and an autonomous agent that buys a service over x402.

Paths below are relative to `src/src/` of the repository unless they name a document.

## 1. The system

| Component | Source | State it keeps | Operations | Modelled in |
|---|---|---|---|---|
| Order lifecycle | `rwa/rwa-procurement.service.ts:372-497` | the `orders` Map; handlers that wait for a receipt | tokenize, finance, settle, recordRepayment, prepareBridge | `OrderLifecycle` |
| Pools, merchants, commitments, aggregation | `rwa/rwa-procurement.service.ts:132-370`, `rwa/merchant-verification.service.ts` | the `pools`, `merchants`, `commitments` and `orders` Maps | createPool, verifyMerchant, commitOrder, seedMockCommitmentsForPool, getPoolProgress, aggregateDemand | `PoolDemand` |
| Contract gateway | `rwa/private-l1-contracts.service.ts` | none; it reads the environment on every call | createPermissionedPool, tokenizeAggregatedOrder, settleOrder, recordRepayment, prepareBridge, all through withContract | `ContractGateway`, `LifecycleOverGateway`; as steps in the two above |
| Accounts | `auth/auth.service.ts`, `auth/auth-store.service.ts` | users, in two Maps or in the table `auth_users` | signupEmail, loginEmail, signupGoogle, loginGoogle, getProfile | `AuthAccounts` |
| Guard, controllers | `auth/auth.guard.ts`, `*.controller.ts` | none | routes, `verifyToken` | routes only |
| Autonomous agent | `agent/autonomous-agent.service.ts` | flag, interval, provider list, payload, latencies, cycles under way | start, stop, runSingleCycle, rankProviders | `AutonomousAgent` |
| x402 client, payment | `agent/x402-client.service.ts`, `agent/avalanche-payment.service.ts` | none | callProvider, payForRequest | steps of the agent |
| Activity logs | `rwa/rwa-log.service.ts`, `agent/agent-log.service.ts` | the last 1000 entries, an rxjs Subject | emit, getRecent, stream | `ActivityLog` |
| Dashboard | `rwa/rwa-procurement.service.ts:499-526` | none; it counts over the Maps | getLifecycleStatus, listOrders | `RwaProcurement` |
| Order encryption | `rwa/order-encryption.service.ts` | none | encrypt | no |

How they interact. The controllers call the services directly; `commitOrder` asks the
merchant verification for a verdict, `createPool` and the four asynchronous order
handlers await the gateway, and the gateway awaits an ethers contract call and
`tx.wait()`. The procurement service and the accounts share nothing but the retailer's
profile. `AppModule` does not import the agent module, although README.md names it.

What is hard here. Everything runs on one event loop, so code between two awaits is
atomic; but every handler that awaits (a receipt, a password hash, a query, a provider)
lets others run before it resumes, and it resumes with what it read earlier. Calls fail
half-way: a transaction may be mined though its sender was told of an error, a row may
be inserted though its client was. The Maps die with the process; the chain, the table
and the tokens do not. No operation of an order checks the order's status, nothing
closes a pool, and no input is validated (no `ValidationPipe` is installed).
`PROJECT.json` lists these hazards one by one with the line where each bites.

What makes each component correct. An order's status must follow from its records, its
records from finished calls and executed transactions, and an acknowledged repayment must
stay. A commitment must be of a verified merchant on the roster of an open pool, and an
order's totals must be those of its commitments. An acknowledged account must be there
to log into, and a token must lead to its account. The agent must have one interval at
most, send no proof for a payment that did not happen, and send it with what was paid for.
A contract call must be answered by its own executed transaction or not at all, and must
leave the signer's account usable. The log must show the end of what was logged, without
holes, and the counts of the dashboard must fit what they count.

## 2. The modules

Each module has its mutants beside the definitions they alter, marked `Mutant:`. They
belong to no specification; a run that uses one in place of the definition must fail.

    RepaymentLedger             ContractCall           AppendOnlyLog
          ^                           ^                      ^
          | refines                   | refines              | refines
          |                           |                      |
    OrderLifecycle             ContractGateway          ActivityLog
       |        ^                     ^
       |        | refines             | extends
       |        +------- LifecycleOverGateway
       | composed
    RwaProcurement
       | composed
    PoolDemand           AuthAccounts   AutonomousAgent

    SumTheorems  <--  OrderLifecycleProofs, PoolDemandProofs, AutonomousAgentProofs
    OrderLifecycleProofs, PoolDemandProofs  <--  RwaProcurementProofs      (instances)

The modules of the first figure are the model. RepaymentLedger, ContractCall and
AppendOnlyLog are abstract specifications, checked as properties of those below them; each
of the others has an MC module or a cfg of its own, and proofs in `<name>Proofs`, those about
LifecycleOverGateway being in `ContractGatewayProofs`.

### OrderLifecycle

State: `order` (the Map; `absent` and `lost` mark ids not yet handed out and orders a
restart forgot), `request` (the activation of a handler and where it stands), `chain`
(what became of the transaction each request sends). A handler is `Call` up to its await
and `Resume`, `Reverted` or `RpcError` after it; without chain configuration
(`Live = FALSE`) the gateway does not really wait and `Call` is the whole handler.
`Outcome` says what each handler does to the order when it resumes: on the order as it is
then, since a Map entry is never replaced. `Finance` is synchronous. `Broadcast`, `Mine`
and `Revert` are the endpoint and the chain, which go on after a handler has given up and
after a `Restart`. A live call may also fail at once, before it sends anything: the ABI may
lack the method, and a repayment whose cents are negative is no uint256 (`Carried`).

Money is counted in a unit that divides the cent (`Cent` units) and every amount in play;
for finitely many amounts there is one. The sums of the API are exact in the model. The
product `amount * 100` is not: the code computes it in a double, so that near the tie
between two cents it may slip to the other side (1.005 * 100 is less than 100.5, and rounds
to 100). `Cents` is therefore the set of what Math.round may give, both neighbours when the
amount is within `Slip` units of the tie, and whatever is said of the chain is said of the
least of them (`ChainRepaid`). That the slip is less than half a cent (`2 * Slip < Cent`)
holds of a double for amounts below 2^45.

`RepaymentLedger` is what the API promises of repayments: claimed once, credited at most
once, to the order and with the amount claimed, after the chain has executed them, and
forgotten only all together. `ImplementsLedger` instantiates it with expressions over the
three variables.

### ContractGateway

State: what the environment holds (`env`), the ABI file, the calls and the transactions of
one signer. `Begin` is withContract with resolveAbi: the file is looked for as it is and
read as it has become. `Send` reads the nonce that the node tells (`PendingCount`), which
another call may be told as well before either transaction arrives; `Receive` accepts a
transaction, refuses it, or lets it take the place of one with its nonce, `Lose` loses it
and `Execute` takes the pool in the order of nonces. `Answer`, `Rejected` and `RpcError` end
the call. The caller of a transaction that was displaced is told nothing: ethers looks for
the replacing transaction only from a start block on, and what a contract call returns has
none. The specification refines `ContractCall`, which says of one call what a caller may
rely on: it is answered only by its own transaction, and only when that was executed.

### LifecycleOverGateway

The handlers of OrderLifecycle on top of ContractGateway in place of the calls that
OrderLifecycle makes up: `Started` is a handler up to the gateway's first request, `Resumed`
the answer with the rest of the handler, `Underway` what happens to a call in between.
`HandlerRequests` and `HandlerChain` are what a handler sees of a call, which is no more
than what ContractCall says of it, and with them `ImplementsLifecycle` states that no order
goes through a life that OrderLifecycle does not describe: the handlers need no more of a
call than the gateway gives. The await of createPool is not among the handlers; to them its
call is one more request that competes for nonces.

### PoolDemand

State: the four Maps; commitments and orders as sequences, in the order of creation.
`CreatePool`, `PoolMined`, `PoolOpened`, `PoolFailed` are createPool around its await.
`CommitOrder` and `RefuseCommitment` are commitOrder, which stores a made-up profile
(`Bootstrapped`) before the checks that may refuse the commitment. `Seed` maps commitOrder
over a list and stops at the first refusal, keeping what came before. `Aggregate` makes an
order of every commitment of the pool, again and again if asked. `UnitPrices` is the set
of cents the rounded price may have (`ToFixed2`): both neighbours when the quotient is a
tie, since binary floating point then decides. A restart empties all four Maps, so a
behaviour of this module is the life of one process; `RwaProcurement` adds the restart.

### RwaProcurement

Instances of PoolDemand and OrderLifecycle, and `listed`, the keys of the orders Map. An
order is seen from both sides: `orders[i]` is what it aggregates, `order[listed[i]]` what
became of it. `Aggregate` is the step they share, `CollectDemand` and `CarryOn` are the
steps of one of them, and `Restart` empties every Map at once while the chain goes on.
`LifecycleStatus` is getLifecycleStatus, over all of it. `ProcurementAssumption` says of
the constants what the two halves suppose of theirs.

### AuthAccounts

State: which store is configured (chosen in `Init`), the accounts (`users`: the values of
usersById or the rows), `byEmail` (usersByEmail, unused with Postgres), and for every
request its question, its stage and the account it was let into. `SignupEmail` looks the
address up, `Hashed` continues after the password hash, `Inserted` is Postgres executing
the INSERT under its UNIQUE columns, `Answered` and `ConnectionLost` are how the handler
learns of it or does not. `LoginEmail` and `Compared` surround the comparison. A lookup in
memory and what follows it are one step: Node runs the continuation of such an await before
it takes up another request. The failure of a lookup leaves nothing behind and is not an action. A token is not
a variable: a request that is `done` has been answered with a token for its `account`. An
id is taken to be unique, the wallet and its key are abstracted (nothing reads them back),
and so are the expiry and the signature of tokens.

### AutonomousAgent

State: the flag, the handle the service holds, the intervals that are really set, the list
of providers, the payload in force, the latencies, and every cycle with its payment. A
cycle remembers the payload of its first call, and whether a start has replaced the one in
force since (`Renewed`), because its second call sends the one in force. `Begin` is
runSingleCycle up to its first await, with the choice among the best scores; `Start` (by
`ScheduleLoop`), `Tick` and `Manual` are its three callers. The later actions are the ways
a call or a payment ends. Every cycle pays with a wallet of its own over one key, so `Pay`
may have the payment of one cycle refused or displaced by that of another. `Score` is the
code's score times 100 and times the three ranges,
so that it is an integer; equal scores may differ in the last bit in the code, so `Best`
leaves the choice open. Log and `last*` fields steer nothing and are left out.

### ActivityLog

State: the buffer (`entries`), what each reader was last answered, what each stream carried,
and, as an auxiliary variable, everything ever logged. `Emit` pushes, cuts and notifies in
one step. `GetLogs` is the handler, `Respond` the moment its answer is serialised. The
model lets other requests run in between, which is more than Node does with an answer that
is ready; `slice` copies, so that the answer would be right even then. Limits are in tenths, because getRecent takes what is not whole:
`slice` truncates it, and below one it is `slice(-0)`, the whole buffer. The module refines
`AppendOnlyLog`, in which nothing is ever dropped. `agent/agent-log.service.ts` is the same
code under another name.

## 3. The runs

| Run | Bounds | What it shows |
|---|---|---|
| `lifecycle_live` | 1 order, 3 requests, amounts -5 and 19 units, a cent of 10, a slip of 1, live | three overlapping calls of any kind, failures and restarts leave status, records and chain consistent (`StatusJustified`, `RecordsBacked`, `AcknowledgedCredited`, `CreditWithinChain`, `HistoryKept`); the handlers keep the ledger (`ImplementsLedger`) |
| `lifecycle_financing_tx` | 1 order, 1 request | finding: the hash of a financing is of no transaction |
| `lifecycle_ledgers` | 1 order, 1 request | finding: a mined repayment whose receipt was lost is never in the API's history |
| `gateway` | 3 calls, 4 settings, 3 states of the file, fair | `NoncesUnbroken`, `OnlyRacesCollide`, `AbiFaultsForgiven`, `ImplementsCall`; every call ends but one whose transaction was displaced (`CallsEnd`) |
| `lifecycle_gateway` | 2 calls, 1 order, an amount of 19 units, live, restarts | the handlers need no more than the detailed gateway gives (`ImplementsLifecycle`) |
| `pool_demand` | 2 pools, 3 merchants, 3 commitments, 2 orders, quantities -1 and 2, prices 5 and 17 mills, a threshold of 2, live | `CommitmentsPermitted`, `OrdersSound`, `PriceBetween`, `ProfilesStable`, `ProgressKept` with seeds and creations of pools that fail half-way |
| `pool_one_order` | 1 pool, 1 commitment, 2 orders | finding: a commitment enters two orders |
| `procurement` | 2 pools, 2 merchants, 2 commitments, 2 orders, 1 request, live, restarts | `OrdersListed`, `OrdersEvidenced`: what stands behind an order, from its pool to its repayments; the counts of the dashboard fit together (`DashboardCoherent`) and move one at a time (`DashboardSteps`) |
| `accounts` | 2 addresses, 2 secrets, 3 requests, both stores, restarts | `SignupsLogIn`, `TokensResolve`, `LoginsHonest`, `AccountsKept` |
| `accounts_one_signup` | 1 address, 2 requests, memory | finding: two signups with one address are both acknowledged |
| `agent` | 3 providers, 2 cycles, 2 intervals, 2 payloads, latencies 1 and 9, payments live, fair | `OneInterval`, `ProofsMined`, `PaidForAsAsked`, `PicksUndominated`, `CyclesEnd` |
| `activity_log` | buffer of 3, 5 entries of 2 kinds, 1 reader, 1 subscriber, limits -1, 0.5, 1, 2.5, 9 and none | `AnswersFull`, `SubscribeThenReadGapless`, `PollsGapless`, and the refinement `ImplementsPromise` |

Why the bounds are enough. The handlers of one order are interchangeable but for their
outcome, and an overwritten status, a doubled record or a crossed answer takes two of them;
a third adds the call that was overtaken twice. 19 units round up, so that truncating them
shows; -5 is a tie that may be carried as nothing or not at all, and takes a financed order
back below its terms. The mock path is the same actions with one step fewer; the proofs hold for both
values of `Live`. Three calls of the gateway give two that race for a nonce and one that
comes after, or two that displace the same one in turn. Over the
gateway two calls race for one nonce, and each may be of every handler. Three commitments
give an order, one made afterwards and one of another pool; the lists contain a merchant off
the allowlist and one off a roster, so that a seed fails at its first, second and no
element. Two prices and a quantity of two give means on a tie and beside one, and the
negative quantity takes a pool back below its threshold before and after an order.
The composition needs two orders of one pool and of two, one handler to carry either on
while the other is made, and a restart between its call and its receipt. Two signups make a
race and a third request looks at the result. Two cycles overlap; a second interval is
enough to lose the first. Five entries fill a buffer of three and push out two, and the
limits are below one, between, whole, broken and beyond the buffer. Symmetry is used over
ids, never in a run with a liveness property.

What the runs with findings quote is in `PROJECT.json`. Some more disagreements were met
that no run states: `finance` accepts an order that was never tokenized
(`rwa/rwa-procurement.service.ts:395`; README.md:24 speaks of financing on top of tokenized
orders); an order of total quantity zero has a `weightedUnitPrice` of NaN (line 278), which
is `null` in JSON and declared a number; and an ABI setting that is a JSON list is used as
it is, whatever it lists, where docs/contract-abi-architecture.md:70 says that what is
invalid falls back to the default (`AbiFaultsForgiven` allows for it). A few behaviours no
document rules out are worth knowing all the same: a repayment that a client retries is
credited twice; a late answer to a tokenize or settle takes a repaid order back to
`tokenized` or `settled`; of two overlapping contract calls one may wait until the process
ends, and likewise of two overlapping payments of the agent; a payment whose proof was not
served is made again by the next cycle.

## 4. Assumptions

* Quantities, prices and amounts are numbers and merchants, rosters and lists are what the
  DTOs declare. Negative and zero quantities are allowed everywhere; `ProgressKept` excepts
  the step that commits a negative one to the pool, `PriceBetween` is about orders whose
  quantities are not negative and do not add up to zero.
* Sums of money are exact, although the code adds doubles; the product that is rounded to
  cents is not (section 2).
* Code between awaits is atomic, and an await that needs no I/O and no timer lets no other
  request in: Node drains microtasks first. Where a model lets others in all the same
  (`Respond` of ActivityLog), it allows more than the code does.
* The gateway's signer key is used by this process alone, and a transaction in the pool of
  its node stays there until it is executed or displaced by another with its nonce.
* Fairness in `gateway`: the event loop sends what is ready, a submitted transaction arrives
  or is lost (and the request that carried it then fails), the chain executes what it can,
  and ethers' polling finds the receipt or the revert. It does not find the transaction that
  took the place of another, so `CallsEnd` excepts the call whose transaction was displaced.
  The code gives no more: `tx.wait()` has no timeout of its own, so `CallsEnd` is a promise
  of the endpoint as much as of the gateway. That a call fails for other reasons
  (`RpcError`), that it is begun, and the restart are not fair.
* Fairness in `agent`: every call of a provider carries `AbortSignal.timeout`
  (`agent/x402-client.service.ts:29`), so `CallFailed` is weakly fair: it happens if no
  answer does. For payments the assumption is that of `gateway`, with the same
  exception in `CyclesEnd`: a payment that another cycle's displaced. Starting cycles is not
  fair: nobody needs to.

## 5. The proofs

`*Proofs.tla` prove, for every value of the constants, what the runs show on small ones.
The assumptions are those named in the modules: amounts and quantities are integers of
either sign, a product slips by less than half a cent, the calls of a gateway are finitely many, `None` is not a member of anything, and the like.

* `SumTheorems`, the lemmas on sums. The library's induction takes an operator as a
  parameter, which the provers cannot instantiate; here induction is over a set of sets: if
  it has every subset of S all of whose one-smaller subsets it has, it has all subsets of S
  (`SubsetInduction`, from the well-foundedness of strict inclusion). From it: a finite set
  of integers has extremes; there is one table of partial sums and the folds of the
  community modules, whatever order they choose, compute it (`FoldIsSum`); so a sum loses
  what an element that leaves had in it, a weighted sum lies where the weighted values do
  (`SumScaled`), a sum of naturals bounds that of whatever is sent into it one to one
  with a loss of no more than k each (`SumInjected`), and a sum over more elements is no
  smaller if those that came are not negative (`SumGrows`).
* `OrderLifecycleProofs`: `TypeOK`, `StatusJustified`, `RecordsBacked`,
  `AcknowledgedCredited`, `HistoryKept`. The four invariants are not inductive alone: that a
  credited transaction is credited once needs that a request which has not resumed is in no
  record, hence the conjunct on the calls under way (`CallsWellFormed`). They do not depend
  on what a sum is: that a status follows from its records only needs that the code compares
  the same sum. `CreditWithinChain` does: a repayment credited is matched with the request
  that sent it, one to one because of `RecordsBacked`, and what the chain holds of it at the least
  (`LeastCarried`) is short of it by no more than `Loss`, half a cent and the slip. It needs that the transactions sent are finitely many
  (`FinitelySent`), which is an invariant of its own, since `Requests` may be infinite. The
  refinement `ImplementsLedger` maps every action to a step of the abstract specification or
  to none; it needs that no transaction precedes its claim (`Unseen`). That without a live
  gateway nobody waits (`WaitsOnlyLive`) is for RwaProcurementProofs.
* `ContractGatewayProofs`: `NoncesUnbroken`, `OnlyRacesCollide`, `AbiFaultsForgiven`,
  `ImplementsCall`, with `TypeOK`, and `ImplementsLifecycle` of LifecycleOverGateway. The
  strengthening is a number k (`Counted`): the accepted nonces are those below it, a transaction on its way carries one not above it, a displaced one left its nonce
  behind. k is what the next wallet is told (`PendingIsCount`, which counts with a
  surjection), so a transaction that finds no rival extends the row by one. That a nonce has
  one accepted transaction (`OneOfNonce`) makes a displacement a step of one call. The ABI needs
  no invariant but the types: of all steps only `Begin` refuses a call that has not begun. `LifecycleImplemented` goes
  through ContractCall: a step of the gateway is one that ContractCall allows (`StepInCall`),
  and each of these, with the part of a handler that runs along with it, is a step of
  OrderLifecycle or none (`UnderwayCalls`, `StepInLife`). So it is from the promise of
  ContractCall, and not from the inside of the gateway, that the handlers' safety follows.
* `PoolDemandProofs`: `TypeOK`, `CommitmentsPermitted`, `OrdersSound`, `ProfilesStable`,
  `PriceBetween`, `ProgressKept`, negative quantities and both values of `Live` included.
  The strengthening (`Settled`) says that a stored profile has the verdict its id always
  gets, and that an open pool of a live service is on the chain. A step that only appends
  commitments leaves the totals of older ones alone because equal functions have equal sums.
  That the stored totals are numbers and the price an average is a second invariant,
  `Recomputed`: every order is what `OrderOf` would still make of its own commitments. The
  type of the orders and `PriceBetween` follow from it, the latter because a weighted sum
  lies between its extreme prices times the weights, and rounding to the nearest cent does
  not leave an interval by more than half a cent. `ProgressKept` says
  that progress is lost by a negative quantity committed to that pool and by nothing else:
  what a step appends has a sum that is not negative otherwise (`SumGrows`).
* `RwaProcurementProofs`: `OrdersListed`, `OrdersEvidenced`, `DashboardCoherent`,
  `DashboardSteps`, and `PromisesAlwaysKept`, which carries the invariants proved of the two
  halves over to their composition. The service as a whole is shown to refine the
  lifecycle (`ServiceIsLifecycle`), and with it to keep `ImplementsLedger`,
  `CreditWithinChain` and `HistoryKept`. The argument: every step of the
  composition is a step or a stutter of the lifecycle (`StepOfLife`), and one of the demand,
  a stutter, or the restart that leads to the demand's initial state (`StepOfDemand`); so
  the inductive invariants of both halves hold for ever (`AlwaysHalves`), although PoolDemand by itself has no restart.
  On top come `Listing` (the keys of the Map name each known order once, and are as many as
  the orders), `SentOnlyLive` (a transaction exists only if the gateway is live, hence the
  pool of an order that has one is on the chain) and `FinitelyMany` (pools and verdicts can
  be counted). For the dashboard a lemma (`CountMoves`) says that a count moves by at most
  one when at most one place changes its status. An INSTANCE makes copies of every
  definition, and those of RwaProcurement are not, to the prover, those that the proofs of
  the halves are about; the lemmas `SameSum` to `SameRestart` say one by one that they agree.
* `AuthAccountsProofs`: `TypeOK`, `SignupsLogIn`, `TokensResolve`, `LoginsHonest`,
  `AccountsKept`. The strengthening (`Origin`, `Directory`, `RequestOK`, `RowsUnique`) says
  that every account is the one its signup asked for, that the directory leads to signups
  with that address, that a request holding an account holds one that is there, and that no
  two rows share an address or a Google identity.
  One lemma (`StepOfOne`) treats a step of one request that takes nothing away; every action
  but `Restart` is an instance of it.
* `AutonomousAgentProofs`: `TypeOK`, `OneInterval`, `ProofsMined`, `PaidForAsAsked` and
  `PicksUndominated`, for any number of cycles. For the last, a score is a sum of three
  terms, each a gain times the spreads of the other two criteria (`Gains`, `Term`); a
  provider that dominates another has no smaller term and one that is larger, so a larger
  score (`DominatesScore`), and the cycle that begins has one of the largest
  (`BegunWithBest`). That spreads are not zero is what makes a gain in one criterion count.
* `ActivityLogProofs`: `AnswersFull`, `SubscribeThenReadGapless`, `PollsGapless` and
  `ImplementsPromise`, for any bound and any limits, whole or not. The invariant says that
  the buffer is the end of everything logged, cut to the bound, and that an answer is an end
  of what was logged when it was asked for; the rest is arithmetic on ends of sequences.

Every safety property of the passing runs is so proved. Only model-checked: the liveness
properties `CyclesEnd` and `CallsEnd`, since the provers do not handle fairness (their
`ENABLED`); and what the findings refute, which is false.

## 6. Not modelled, and why

* Encryption of orders and of wallet keys, hashing, JWT signatures: cryptography without
  state of its own. `makeId`, `makeTx`: random, taken to be fresh.
* Listings other than that of orders, the retailer's product page: they read, or are static.
* The parsing of a 402 answer (body before headers) and the nonce of a payment: the model
  keeps that a payment was asked for and what became of it, not for how much.
* The signer of the agent's payments is not the gateway's. Its nonces would be those of
  `ContractGateway` again; `AutonomousAgent` keeps of them that a payment may be refused or
  displaced by another that is under way.
* CORS, Swagger, dependency injection, the database configuration: start-up only.

## 7. Plan

Done: OrderLifecycle with RepaymentLedger, ContractGateway with ContractCall and
LifecycleOverGateway, PoolDemand,
RwaProcurement, AuthAccounts, AutonomousAgent, ActivityLog with AppendOnlyLog; proofs of
every safety property of theirs. Left, in this order:

1. `PriceBetween` and `ProfilesStable` for the composition, as it is done there for the
   other promises: `Recomputed` holds again after a restart, since no order is left.
2. The agent's provider that is down and picked for ever, should a document ever promise
   that another one is tried.
3. createPool over the detailed gateway, as LifecycleOverGateway does for the handlers.
4. Guard and token: a token outlives the process that signed it and, in memory, its account.
