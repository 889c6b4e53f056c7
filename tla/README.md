# d402: a verification model in TLA+

d402 (`src/` of this repository) sells HTTP resources for on-chain
payments: a server answers 402 with a challenge, the client creates a *dPayment*
on the chain and repeats the request with a proof, the server verifies the proof
against the chain and serves the resource, if configured at most once per
payment. This directory models the parts whose correctness depends on
interleavings, failures and time, checks them with TLC, and proves every safety
property of the passing runs with TLAPS, for every value of the constants the named
assumptions allow.

`tlc -config <run>.cfg MC<Module>` repeats a run, `tlapm <Module>_proofs.tla`
the proofs. Paths below are relative to the repository.

## 1. Inventory

| Component | Source | State it keeps | Operations | What must hold |
| --- | --- | --- | --- | --- |
| Broadcast queue | `src/runtime/transaction.ts` | the last promise of the chain | `broadcastInQueue`, receipt wait | one operation at a time, in order, none blocked by a failure |
| Transaction senders | `adapters/{viem,ethers}/src/tx-sender.ts` | viem: a promise chain of its own | estimate, sign, send, retry on nonce conflicts | never two transactions for one operation; retries only under contention |
| Block reference cache | `src/server/cache.ts`, `block-reference.ts` | latest block and its stamp, LRU map, pending reads | `getLatest`, `getByHash` | bounded, genuine, deduplicated, fresh; as good as no cache |
| Settlement timing | `src/server/settlement.ts`, `payment-request.ts`, `core/payment-id.ts` | none: it is stateless | settlement time of a challenge and of a proof, payment id | proof and challenge agree; an honest client is never refused |
| Payment authorizer | `src/server/payment-authorizer.ts` | none | `authorize` | the right answer for every outcome; authorizes only verified payments |
| Payment verifier | `src/server/payment-verifier.ts`, `verification-policy.ts` | state reads in flight | authenticator, observer, policy | confirmations, a recent observation |
| Payment consumer | `src/server/payment-consumer.ts` | none: the claim is on the chain | `None`, `Once` | at most one authorization per payment |
| Payment actions | `src/server/payment-actions.ts`, `runtime/dpayments.ts`, `payment-execution-error.ts` | a broadcast queue, a cache of SDK clients | consume, settle, refund, evidence, appeal | results are exclusive; an error that names a contract error left nothing on the chain; failures release the queue |
| Client | `src/client/fetch.ts`, `request.ts`, `policy.ts`, `resolution.ts`, `refund-request.ts` | none | `fetch`, `d402Fetch`, `retry`, `requestRefund` | pays only what policy allows; errors carry the payment |
| Client executor | `src/client/payment-executor.ts` | a broadcast queue | create, settle, dispute, evidence | approval before creation; no call takes another's payment for its own |
| Refunder | `src/server/refunder.ts` | the promise of the signer's address, state reads in flight | the refund endpoint | one refund of a payment at most, refusals are final, no error without a cause |
| Payable route | `src/server/payable.ts` | none | authorize, then the protected handler | work done is delivered, never done again, and contested only on its own answer |
| Codecs, schemas, headers, events, logging | `src/core`, `src/runtime/{events,logger}.ts`, `src/server/payment-{required,proof,verification-error}.ts` | none | conversions | out of scope except for their outcome |

The components interact as follows. `authorize` runs the authenticator (reads of
the provider, the cache for settlement references), the observer, the policy and
the consumer; `Once` runs `consumePayment`, which goes through a broadcast queue
and a sender; several replicas share the chain and usually the wallet. The
client runs the executor, which goes through a broadcast queue of its own. The
refunder runs the authenticator and an observer of its own, then `refundPayment`,
which shares the wallet, not the queue, with the other actions of the process. The
only shared state between processes is the chain.

What is hard to test here: every `await` lets other requests run (section 3 gives
each one a program counter value); replicas race on the chain; providers lag, fail
or lose answers after taking a transaction; blocks are reorganised; time passes
between challenge and proof. `PROJECT.json` lists each hazard at its line.

## 2. Modules

| Module | Models | Read with |
| --- | --- | --- |
| `SerialExecutor` | what a broadcast queue promises | `BroadcastQueue` |
| `BroadcastQueue` | queue, viem and ethers senders, nonces of one wallet | `transaction.ts`, `tx-sender.ts` |
| `BlockReferenceCache` | the cache and its reads | `cache.ts`, `block-reference.ts`, `settlement-reference.ts` |
| `DPaymentChain` | the chain and the contract as the server sees them (external) | |
| `ClaimProtocol` | what `Once` and the refunder promise: who holds a payment, and the fate of requests | `payment-consumer.ts`, `refunder.ts` |
| `PaymentAuthorizer` | `authorize` on several replicas, extends `DPaymentChain` | `payment-authorizer.ts`, `payment-verifier.ts`, `payment-consumer.ts` |
| `PaymentActions` | all actions of several `paymentActions()` over one wallet, and the contract they act on | `payment-actions.ts`, `payment-execution-error.ts` |
| `Refunder` | the refund endpoint next to a worker, extends `PaymentActions` | `refunder.ts` |
| `PaymentExchange` | one paid exchange: retrying client, network, `payable` on replicas, extends `PaymentAuthorizer` | `payable.ts`, `src/client` |
| `SettlementTiming` | configuration, challenge, payment, proof and the timing checks | `settlement.ts`, `payment-verifier.ts` |
| `D402Client` | overlapping `client.fetch` calls, the executor and the wallet | `src/client` |
| `*_proofs` | the theorems of section 6 | |
| `MC*` | instances for TLC | |

**BroadcastQueue.** `tail[q]` and `previous[o]` are the closure variable `queue`
and the promise an operation captured from it, `sendTail` and `sendPrevious` the
same for the viem sender. `HandOver` is the synchronous part of
`broadcastInQueue`, `Start` the continuation after `await previous.catch`,
`TakeTurn` the viem sender's `await previous`, `Estimate` ... `BackoffElapses`
the loop of `sendWithNonceRetry`. `ledger` is the list of the wallet's accepted
transactions; a nonce is an index into it. The adapter is chosen in `Init`: the
two differ in the queue of the sender and in which errors are conflicts.

**BlockReferenceCache.** A lookup is a call of `getLatest` or `getByHash`. A
provider read has three moments: asked, evaluated by the provider, answered;
`latest` is stamped at the third, which is why freshness is a real question. A
lookup that joins a read waits for the call that started it. The block number
stands for the hash; a reference is genuine or altered.

**PaymentAuthorizer.** Each `await` of `authorize` is a value of `pc`: reference,
resolving, chain, receipt, head, settlement, recovery, observer, state, action, queue,
send, mined. Proofs come in kinds, each failing at one check; an altered reference has
the hash of the payment's reference block and another timestamp. `lookup` and `refRead`
are the reference reads that requests of one replica share by hash: whoever joins one
gets the verdict on the reference it was started for, as at `cache.ts:158`. `inFlight`
and `stateRead` are the map of shared state reads. A read of the receipt, the head or
the state may be answered by a node a block behind (`CreationSeen`, `HeadSeen`,
`StateSeen`). `claim[r]` is the consume transaction of a request; a crash empties a
replica's memory and leaves its transactions in the pool.

**PaymentActions.** A job is a call of one action. `step` names what it waits for:
the wallet's address and client (`prepare`), an appeal's fee and period (`quote`), its
turn in the instance's queue and the broadcast (`queued`), the receipt (`mined`).
`error` is what the thrown `D402PaymentExecutionError` names: a contract error is
decoded only where a call was simulated, never from a receipt. `pool` is the wallet's
transactions in nonce order; `leftBy` remembers who took a payment out of `funded`.

**Refunder.** A request is also the job it calls. `pc` has a value for each await of
the handler. `signer` is the one promise of the constructor, shared by all requests;
`inFlight` and `stateRead` are the observer's map, `behind` the state that nodes report
which lag, until they catch up. What `refundPayment` throws, the handler throws
(`threw`). A worker of the same process uses another instance.

**PaymentExchange.** The requests of `PaymentAuthorizer` become the client's requests
with one proof; `wire` holds those on the way. `Authorize` runs any step of
`authorize` on the replica, `Handle` is the protected handler, which stores its result
before it answers, as `docs/advanced.md` has it, or fails before or after it stored; the
recovery hook looks the result up. The client is `fetch` with one of the three values of
`onRejected`, whose validator may accept, reject or throw on any answer, a delivered 200
included (`AfterAnswer`), or an application that calls `d402Fetch` and then `retry` until
it is told 422, served or expired. `judged` is the request whose answer `fetch` judged.

**SettlementTiming.** One payment, every combination of configuration values
(including invalid ones, which the code must refuse), an honest or dishonest
client, a clock and a chain with a reorganisation. A block is a record that
stands for its hash; `known` is every block ever mined, because a node may still
know an abandoned one.

**D402Client.** `pc` names what a call of `fetch` waits for and `stage` the
transaction it is about; `queue` holds the executor's operations (the serial
executor that `BroadcastQueue` implements), `pool` the wallet's unmined
transactions in nonce order. A call ends as `free` (no payment needed),
`returned`, `threw` (an error that carries no payment) or `attempt`
(`D402PaymentError`, which carries it). An application that holds a payment may call
`retry`, or settle, dispute or submit evidence through the executor (`Retry`,
`CallExecutor`). `hit` remembers which calls a failure hit. The clients of the calls share an executor, so each call may have
other options: the action on an answer is chosen at the answer. The token of each
payment and the payment id of each call are chosen in `Init`: calls with
equal terms and the server's salt share an id. The factory, the token allowance
and the payee are external: an approval lets the factory take one payment and
replaces the allowance before it, an id is created once, and a payment is settled,
disputed or refunded from `funded` only.

## 3. Abstractions and assumptions

- A claim is final once the adapter reports its receipt: with `Once`,
  reorganisations are excluded by `FinalityAssumption`. `payment.confirmations`
  does not apply to actions in the code.
- `LatestNeverGoesBack` assumes a provider whose head does not go back.
- A node that answers a read may lag: at most a block in `PaymentAuthorizer` and
  `PaymentExchange`, where blocks are counted, and by any number of moves of the payment
  in `Refunder`, until it catches up. The node that estimates and takes transactions
  does not lag behind the chain, and may count the pool in.
- Nonce retries are in full in `BroadcastQueue`; `PaymentAuthorizer` has only that
  a conflict sends a request back to estimation, `D402Client` and `PaymentActions`
  that a broadcast takes place or fails. A send is modelled to pass only if the
  transaction would not revert on the chain as it stands, or on a pending state.
- The application's callbacks (`terms`, recovery, policies) do not throw; the
  response validator may. 503 and 504 are both "unavailable". In the refunder, 400,
  422 and 425 are one outcome, because none depends on what became of the payment.
- `PaymentExchange` is without a settlement window (`ExchangeAssumption`): a reference
  no node knows any more is answered 503 for ever, and then no retry ends. Its
  answers are those of the real authorizer; the client's dispute and refund are one
  step each, mined at once, because `D402Client` and `Refunder` have them in detail. A request whose
  answer arrived without leaving a claim is used again, so retries are not bounded.
- A process that stops loses its queues and promises; accepted transactions stay.
- The last check of `verifySettlementPolicy` follows from `addWindow` and is left
  out. `SettlementTiming` has one request, so no lookup joins another's there; that is
  in `BlockReferenceCache` and `PaymentAuthorizer`.
- A malformed challenge in `D402Client` stands for one that does not parse, is
  bound to another request or is expired. Expiry after the creation is in
  `PaymentExchange`.

## 4. Runs

| Run | Question | States | Bounds and why they are enough |
| --- | --- | --- | --- |
| `queue` | is each queue a serial executor, whatever fails | 808,111 | three operations in two queues (one waits in a queue, one competes); the code's retry limit 3; 4 foreign transactions, so that the limit can be exceeded; one node fault |
| `cache` | bounds, genuineness, freshness, and every lookup returns | 2,447,619 | a reader, a joiner and a later lookup; one entry, so that an insert evicts; blocks, time and latency so that an entry is just fresh, just stale |
| `cache_joined_read` | does a lookup answer as without the cache | violated | finding 1 |
| `authorizer_once` | at-most-once, refusals that leave no claim, implementation of `ClaimProtocol`, every request ends | 744,352 | two requests with one proof, two replicas, one crash, any provider failure |
| `authorizer_refusal` | is a final refusal justified | 2,568,374 | a settlement window, so that references are read and shared; two requests, one or two replicas, one crash, lagging and failing nodes |
| `authorizer_observation` | confirmations and observations | 876,406 | two confirmations, a node one block behind, one reorganisation, two requests sharing a replica's reads |
| `authorizer_once_loser` | is the loser answered 422 | violated | finding 2 |
| `authorizer_observer_throws` | are provider failures answered | violated | finding 3 |
| `timing` | honest payments pass, accepted ones settle when configured | 818,420 | a negative, empty and positive window, a fixed time or none, server or client salts, a clock of three values, one reorganisation |
| `client` | presents its own payments, fails for cause, returns what happened, ends | 2,029,152 | two calls with shared or separate ids, native or ERC-20, all options, one failure, one further call of the application |
| `refunder` | is a refund exclusive and answered truthfully, do all calls end | 1,080,579 | two requests that share a read and a queue, one worker job of any kind in another queue, payer and arbiter, lagging nodes, one failure or restart |
| `exchange` | is work delivered, is a payment lost only for cause, does the exchange end | 1,043,396 | two requests in flight at once (the answered one and its late twin), two replicas, two confirmations, one failure or crash, expiry at any time |

Deadlock checking is off: bounds and ended calls stop every instance, and each
run with liveness checks that nothing stops early.

**Fairness.** Weak fairness on what the event loop and the environment do by
themselves: ready continuations and timers run, a provider or server answers or
fails a call, the network mines what is in its pool. Nothing is assumed of
arrivals, retries, crashes, faults, other processes, new blocks or payees. Runs
without liveness use `Spec`. Liveness is checked without symmetry sets. Where two
requests or replicas are alike, `MCRefunder` and `MCPaymentExchange` let the one named
first arrive or serve first, which loses no behaviour up to renaming.
In `MCRefunder` nodes catch up only while a request has yet to arrive, because only what
it finds then depends on it: later, a node that caught up reports what one that never
lagged does.

In the cache, the refunder and the client this is one condition, `WF_vars(Runs)`: as
long as something can run, something does. It is weaker than fairness for each
continuation, and it is enough because none of these steps recurs: no loop of the code
lets one call run for ever while another is ready. There, liveness is stated as
`<>[]` of "nothing waits any more", which says the same as a leads-to for each call
because a bounded number of calls is ever started. In `PaymentExchange` retries do
recur, so client, route and network have a condition each: the application keeps
retrying as long as it is told it may, replicas run what is ready, the network makes
blocks and mines.

**What the passing properties say.** Per module there is one type invariant, and:

- `NoncesFollowHandOver`, `ImplementsSerialExecutor`: the promise
  chain orders the wallet's transactions through failures and retries.
  `BroadcastAtMostOnce`, `GivesUpOnlyUnderContention`, `NoSelfContention`: the retry
  loop never sends twice, gives up only when defeated four times, and with viem
  never because of another queue of the process.
- `HistoricalSound`, `PendingIsLive`, `OwnAnswersAreRight`, `EveryLookupReturns`,
  `LatestNeverGoesBack`, `ServedLatestIsRecent`: a block served as the latest was
  the provider's at most a TTL and the latency of one read ago.
- `AtMostOnce`, `ImplementsClaimProtocol`: through races, crashes and lost answers.
  `RefusalLeavesNoClaim`, `RefusalIsJustified`: a retryable answer costs nothing and
  a final one has a reason: the payment's state, another's claim, or the altered
  reference whose read was joined (finding 1). `ObservationIsRecent`: shared reads and
  nodes that lag add up to no more than the block before the request arrived and the
  life of the read it joined. `ConfirmedOnStableChain`.
- `HonestPaymentPasses`: the stateless server finds the challenge's settlement time
  again. `AcceptedTimingIsBound`: nobody gets another one accepted than the fixed time or
  a window after an authentic block, which is neither higher nor later than the block of
  the creation. It holds after a reorganisation too, of the block then found at the
  receipt's number.
- `PresentsOnlyOwnPayments`, `FailsOnlyForCause`, `ReturnsOnceResolved`,
  `EveryCallEnds` of the client: overlapping calls do not present each other's
  payments, a call fails only for what hit or concerns itself, never for what failed
  before it in the queue, and what returns to the application has happened on the chain.
- `ResultsAreExclusive`: no payment is both settled and refunded by actions that
  report success. `ContractErrorsLeaveNothing`: an error that names a contract error
  is an answer about the payment, any other leaves the outcome open.
  `RefusalsAreFinal`, `ThrowsOnlyForCause`, `ImplementsClaimProtocol`: a 409 or 403
  never hides a refund that may still be mined, and the handler throws only if
  something failed or somebody else moved the payment, and that no longer ago than the
  lag of a node and a shared read allow. `EveryCallEnds` of handler and worker.
- `StoredWorkIsDelivered`: once a result is stored, every later request gets it or a
  retryable answer. `ContestedWorkWasJudged`: if the client disputed or had refunded what
  a handler did, its validator rejected that handler's own answer; it never does so
  because an answer was lost, came late or came from another replica.
  `UnservedOnlyForCause`: who retries is served, unless the terms expired, the payment
  was moved, or a fault hit the payment's own claim.
  `EveryExchangeEnds`: retries come to an end.

## 5. Where code and documentation disagree

1. *A cache that is correctness state* (`cache_joined_read`). `getByHash` joins the
   read in flight for a hash whatever reference it was started for. A genuine
   reference that arrives while an altered one is being read gets "mismatch", hence
   the final 422; `RefusalIsJustified` has a disjunct for this case alone.
   `docs/scaling.md:88` says the cache and in-flight deduplication "are not correctness
   state".
2. *The loser's answer* (`authorizer_once_loser`). If both consume transactions pass
   estimation, the second is mined and reverts; the error thrown from the receipt
   carries no contract error, so `authorize` rejects where `docs/advanced.md:356`
   promises 422.
3. *A provider failure that throws* (`authorizer_observer_throws`). The observer asks
   for the chain id outside its `try`; `docs/protocol.md:74` says 503.

Noticed while reading, and not the subject of a run:

- Confirmations are counted from a receipt that is not read again after the head
  (`payment-verifier.ts:231`), so a reorganisation between the two reads goes
  unnoticed; `CHANGELOG.md:428` says verification stays valid across reorganisations.
  `ConfirmedOnStableChain` therefore excludes them.
- A request that joins another's state read (`payment-verifier.ts:397`) or whose node
  lags may be authorized, or go on to a refund, on a state the payment left before the
  request arrived. `ObservationIsRecent` and `ThrowsOnlyForCause` say how old it may be.
- If the answer to a creation's broadcast or its receipt is lost, `createPayment` throws
  without the payment id and the salt generated at `payment-executor.ts:134`; the payment
  is mined, and the caller has nothing to prove or settle it with. `docs/api.md:162`
  promises a `D402PaymentError` only once payment and proof exist, so no document is
  contradicted.
- A replay that reaches another replica while the first request's handler still works
  is answered 422 `payment-already-consumed`, and later the result is recovered: 422
  is not final there. The client that asks one request at a time meets this only after
  a lost answer (`UnservedOnlyForCause` names the case).
- A client without a policy never compares the chain it pays on with the terms, and
  one with a policy compares before the executor asks for the chain id again
  (`runtime/dpayments.ts:25`).
- `client.retry` refuses a payment whose terms expired, though the server would accept
  the proof and could hand out a stored result.
- If the signer's address cannot be read at construction, every refund throws
  (`refunder.ts:49`), and so does a provider failure in the observer's `getReader()`.
- A challenge whose fixed settlement time has passed is issued until its terms
  expire, though the log message at `payment-authorizer.ts:163` says otherwise; no
  failure of a proof ever produces 504; an unknown reference hash is a provider error,
  answered 503 for ever; two overlapping payments with equal terms do not share one
  creation, as `CHANGELOG.md:470` says of 0.1.5: the second fails; two overlapping
  ERC-20 payments of one wallet may take each other's allowance.

## 6. Proofs

| Theorem | Says |
| --- | --- |
| `BroadcastQueue_proofs!TypeCorrect` | the variables keep their types, the retry counter its limit |
| `BroadcastQueue_proofs!QueueExcludes` | `MutualExclusion` |
| `BroadcastQueue_proofs!SendsOnce` | `BroadcastAtMostOnce` |
| `BroadcastQueue_proofs!NoncesInOrder` | `NoncesFollowHandOver` |
| `BroadcastQueue_proofs!QueuesAreSerialExecutors` | `ImplementsSerialExecutor` |
| `BroadcastQueue_proofs!SendersDoNotContend` | `NoSelfContention` |
| `BroadcastQueue_proofs!GivesUpForCause` | `GivesUpOnlyUnderContention` |
| `BlockReferenceCache_proofs!TypeCorrect` | the variables keep their types |
| `BlockReferenceCache_proofs!KeepsHistoricalSound` | `HistoricalSound` |
| `BlockReferenceCache_proofs!ReleasesPending` | `PendingIsLive` |
| `BlockReferenceCache_proofs!AnswersOwnRight` | `OwnAnswersAreRight` |
| `BlockReferenceCache_proofs!LatestAdvances` | `LatestNeverGoesBack`, an action property |
| `BlockReferenceCache_proofs!ServesRecentLatest` | `ServedLatestIsRecent`, an action property |
| `SettlementTiming_proofs!HonestPays` | `HonestPaymentPasses` |
| `SettlementTiming_proofs!TimingIsBound` | `AcceptedTimingIsBound` |
| `PaymentAuthorizer_proofs!TypeCorrect` | the variables keep their types |
| `PaymentAuthorizer_proofs!AuthorizesAtMostOnce` | `AtMostOnce` |
| `PaymentAuthorizer_proofs!RefusesWithoutClaim` | `RefusalLeavesNoClaim` |
| `PaymentAuthorizer_proofs!ReplicasImplementClaims` | `ImplementsClaimProtocol` (with `Once`) |
| `PaymentAuthorizer_proofs!ObservesRecentState` | `ObservationIsRecent` |
| `PaymentAuthorizer_proofs!AuthorizesConfirmed` | `ConfirmedOnStableChain` |
| `PaymentAuthorizer_proofs!RefusesForCause` | `RefusalIsJustified` (if nothing is reorganised) |
| `PaymentExchange_proofs!DeliversStoredWork` | `StoredWorkIsDelivered` |
| `PaymentExchange_proofs!ContestsJudgedWork` | `ContestedWorkWasJudged` |
| `PaymentExchange_proofs!LosesPaymentForCause` | `UnservedOnlyForCause` |
| `Refunder_proofs!TypeCorrect` | the variables keep their types |
| `Refunder_proofs!ResultsExclude` | `ResultsAreExclusive` |
| `Refunder_proofs!ContractErrorsAreAnswers` | `ContractErrorsLeaveNothing` |
| `Refunder_proofs!RefusalsHold` | `RefusalsAreFinal` |
| `Refunder_proofs!RefunderImplementsClaims` | `ImplementsClaimProtocol` |
| `Refunder_proofs!RefunderThrowsForCause` | `ThrowsOnlyForCause` |
| `D402Client_proofs!TypeCorrect` | the variables keep their types |
| `D402Client_proofs!PresentsOwn` | `PresentsOnlyOwnPayments` |
| `D402Client_proofs!FailsForCause` | `FailsOnlyForCause` |
| `D402Client_proofs!ReturnsResolved` | `ReturnsOnceResolved` |

They hold for any sets of operations, queues, lookups, requests, replicas, calls and
payments and any bounds; the assumptions are the named `ASSUME`s of the modules: what
a constant ranges over, that the values standing for "undefined" differ from the
others, `FinalityAssumption` and `ExchangeAssumption` (section 3). The one theorem with
a hypothesis of its own is `RefusesForCause`: with reorganisations a payment that was
refused because it is disputed may be funded again, so `MaxReorgs = 0` is needed, which
`Once` implies. None of the invariants is inductive as it stands; what follows says
what each proof adds and why. TLC found each strengthening
to hold on the instance of the module's runs (`SendersInLine` with lines no longer than
the operations).

*Broadcast queue, order.* `MutualExclusion` needs that each operation waits for the one
before it in its queue's arrival order (`Chained`) and that all but the last of the
started ones have settled (`InOrder`); `Chained` needs that an operation is handed over
exactly once (`HandedOver`, `HandedOverOnce`). The order of nonces then follows because
an operation enters the ledger only from inside the sender (`LedgerSettled`), when
everything before it in its queue has settled. `IInv` is their conjunction; lemmas
`HandOverKeepsOrder`, `MoveKeepsOrder`, `RecordKeepsLedger` and `ForeignSendKeepsAll`
treat the four ways a step can disturb it. For the refinement of `SerialExecutor`,
`ExecutorInv` adds that the operations of a queue that have not begun are the last ones
of its arrival order (`WaitingLast`): they are the executor's waiting line, a start takes
its head, and every other step inside the sender is the executor's `Finish` or a stutter.

*Broadcast queue, contention.* That nobody retries or gives up without a rival is an
account: for each operation, its retries and the nonces it has missed since it estimated
are at most the node faults and the ledger entries of others (`DefeatedFor`). The
account grows only when another transaction is mined, and a retry turns one missed nonce
into one retry. With viem only foreign entries count, because whoever has had its turn
in the sender's line has only settled operations before it (`SendersInLine`), so nobody
else of the process can send between its estimate and its broadcast.

*Block reference cache.* `IInv` ties calls, reads and slots together: a read in flight
is in the slot of its kind and its call still waits (`CallsInv`, `SlotsInv`), hence the
slot is emptied by the call that filled it, and two reads of one thing never overlap.
`ReadsInv` says what an answer knows (an evaluated read is no older than the latency of a
read; a mismatch was an altered reference), `LatestInv` that the cached block came from a
completed read, stamped at most that latency later, and that the one read of "latest" in
flight cannot have been evaluated before it. Bounds, freshness and both action
properties follow. `Without` and the eviction are treated by lemmas about sequences with
distinct keys.

*Settlement timing.* The chain has increasing times and numbers, and a block that left it
never becomes canonical again (`ChainInv`); a challenge's settlement time can be
found again from its reference (`ChallengeInv`); a proof past the policy's check claims
what its reference yields (`PaymentInv`); an honest payment repeats its challenge and is
mined after its reference as long as that is canonical (`HonestInv`), which is what makes
the creation check pass. For an accepted payment `PaymentInv` keeps that its reference was
authenticated, hence a block the chain really had, and that its time is a window after
it; `BoundInv` that the verifier read a known block at the receipt's number which the
reference does not follow, and that this block still is the payment's while `reorgs`,
which only grows (`ReorgsGrow`), is 0.

*Payment authorizer.* `IInv` adds to the types that only the head of a replica's queue
is estimating or sending (`SendsAtHead`), that a claim is on the chain only for
requests that have sent one (`ClaimsFollowRequests`), and that a claim succeeds
exactly for the request that consumed its payment (`ClaimsFollowContract`).
At-most-once follows: an authorized request has a successful claim, hence is the one
that consumed the payment. The same invariant shows each step to be a step of
`ClaimProtocol` or a stutter. `KnowledgeInv` adds what a request has learned: a read,
shared or not, is about the payment of whoever awaits it (`ReadsInv`), a request past its
read has an acceptable state in its history (`HistoryInv`, which also covers what a node
that lags, or a read in flight, may still bring it), and without a reorganisation the
receipt's block stays the payment's and its depth does not shrink (`DepthInv`).
`RefusalIsJustified` needs two more: a mismatch is what a read started with an altered
reference was told, and whoever is resolving waits for a read that was started
(`ReferenceInv`); and a state once read as not acceptable, or shown by a node that lags,
never becomes acceptable again (`JustifiedInv`).

*Payment exchange.* `ExchangeInv` is the authorizer's invariant and the bookkeeping of the
exchange: which requests are on the wire, asked or handled (`RoutesInv`); that a request
which arrived after the work was stored has only places left from which it is recovered
(`DeliveredInv`); that `fetch` has a single request out, so that whoever contests has
judged the answer of the only request that could make a handler work (`ContestInv`,
with `RoutesInv`: a stored result has a handler that ended); and that without failures only the request being asked can hold a
claim (`FaultlessInv`), so that nobody but the client's own request can have taken the
payment when it is told 422.

*Refunder.* `PaymentActions_proofs` shows what every step of the actions, the contract
and the network preserves whoever calls them (`ActionsInv`, `ActionsStepInv`): a job
has no transaction before its turn at the head of a queue (`SentOnlyByBroadcast`); the
pool holds each pending transaction once (`PoolIsPending`), so that none is mined twice;
a settlement or refund that succeeded is what took its payment out of `funded`, and
nothing puts it back (`SuccessResolved`, `LeaversSucceeded`, `NeverFundedAgain`). The
handler adds that a request's job starts only with its `refundPayment` (`HandlerInv`)
and that a state read, shared or not, is about the payment of whoever awaits it and,
once it said the payment is not funded, stays true, from a node that lags too: those only
report late that a payment left `funded` (`ReadsInv`). A refusal then has no
transaction, and a 409 a payment that has left `funded` for good. The same invariant
shows each step to be a step of `ClaimProtocol`: mining the refund takes the claim, 200
admits its holder. `ThrowsOnlyForCause` is about what happened since a request arrived:
without a fault a settlement or refund fails only if somebody else moved the payment or
has a transaction in the pool that will (`FailedInv`), whatever a request reads as funded, in a read of its own or in the one it joins, some
node still reported when it arrived, or had to the request whose read it is
(`ArrivalInv`), and a handler throws only what its
`refundPayment` threw (`ThrownInv`).

*Client.* `CallInv` says where a call stands and which of its transactions are still to
be sent; `ChainInv` what the chain holds of it: its creation succeeded exactly if it is
the creator, it acts only on what it created, a creation was sent only after its
approval, and one that reverted, or an allowance that is gone, had a neighbour with the
same payment id or token; which calls a failure hit is part of the state, so that a
cause is the call's own. `PoolInv` (what is pooled is pending, once) makes each
transaction mine once, `PaymentInv` makes a payment its creator's.

Only model-checked are the liveness properties `EveryHandOverSettles`,
`EveryLookupReturns`, `EveryRequestEnds`, `EveryCallEnds` and `EveryExchangeEnds`:
fairness and `ENABLED` are out of the prover's reach. The runs that expect a violation
have nothing to prove. What a recursive definition computes for every input cannot be
proved either, which is why the modules have none.

## 7. Plan

Every safety property, action property and refinement of the passing runs is proved.
What would add to it:

1. `PaymentExchange` against an abstract specification of an exchange (paid, then served
   once or contested), whose steps the proved invariants already bound.
2. The client's executor as an instance of `SerialExecutor`: `D402Client` states its queue
   as a sequence, `BroadcastQueue` proves it of the promise chain, and a common
   refinement would connect the two.
3. `SettlementTiming` with several payments sharing the cache, to join it with
   `BlockReferenceCache`.

Not modelled: codecs, schemas and headers (pure conversions; whether a proof or a
challenge parses is in the models), event and log sinks (their failures are
swallowed), the search for the `PaymentCreated` event in a receipt's logs, the reasons
for which a challenge is malformed, several chains, examples, and the empty autosigner
and facilitator.
