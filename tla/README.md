# A TLA+ model of the Jasmin SMS gateway

Jasmin takes short messages from HTTP and SMPP clients, routes and bills them,
queues them in RabbitMQ, sends them to SMSCs over SMPP and brings delivery
receipts and incoming messages back. This directory holds TLA+ modules of its
state-changing parts, the instances TLC checks, and theorems that TLAPS proves
for every value of the constants. `PROJECT.json` maps every definition to the
lines it models.

## The system and its hard parts

Jasmin is a set of Twisted services. Handlers run on one reactor thread, so a
handler is atomic up to each `yield` on a real round trip (AMQP, Redis, SMPP,
HTTP); everything else may run in between. State lives in four places: the
objects of the process, the broker's queues (manual acknowledgement), the Redis
maps for receipts and parts, and the profile files.

A message to a phone (MT) comes in over HTTP or SMPP, is intercepted, routed and
charged (`Billing`), published by the SMPP client manager, taken from the queue by
the connector's listener (`SMListener`, `SMPPClientManager`), cut into parts and
sent (`LongSubmitSm`). Its response and its receipt are looked up (`DLRLookup`).
A message from a phone (MO) and the receipts found by the lookup go through the
router to the throwers (`MoDelivery`). SMPP clients bind to the server
(`SmppServer`). Administrators change users, groups and tables (`RouterPB`)
through the console (`JCli`).

| Part | What is hard |
|---|---|
| SMPP client manager, listener | calls are suspended in AMQP round trips and overtake each other; timers race with redelivery, stop and removal; old listener objects live on |
| SMPP client protocol | one part of several fails or times out; reference numbers are used again |
| DLR lookup | the receipt arrives before the map; retries with a limit; shared ids |
| Quotas and bills | the user is replaced between check and charge; a second instalment comes later |
| Router's configuration, jCli | failing saves, loads that remove each other's work, consoles that act on what another one has changed |
| MO path and throwers | acknowledgement before publication; retries, failover and restart; parts of a reused reference |
| SMPP server | counts at their limit while users are replaced, removed and banned |

## Modules

| Module | Models | Source |
|---|---|---|
| `SMListener` | the MT side of the listener | `managers/listeners.py` |
| `SMPPClientManager` | the manager and the SMPP service for one connector id, over `SMListener` | `managers/clients.py`, `protocols/smpp/services.py`, `factory.py` |
| `DLRLookup` | the receipt lookups, the Redis maps and the writers of both | `managers/dlr.py` |
| `Account` | what billing promises: the abstract specification | |
| `Billing` | quotas, bills, bill requests, HTTP send and the SMPP submit event; implements `Account` | `routing/router.py`, `jasminApi.py`, `Routes.py`, `protocols/http/endpoints/send.py`, `protocols/smpp/factory.py` |
| `Tables` | search and removal in the lists of users and groups, for `RouterPB` and `SmppServer` | `routing/router.py` |
| `RouterPB` | users, groups, tables, flags, files | `routing/router.py`, `RoutingTables.py`, `InterceptionTables.py` |
| `JCli` | console connections over `RouterPB` | `protocols/cli/` |
| `MoDelivery` | listener (MO side), router and throwers in one | `managers/listeners.py`, `routing/router.py`, `throwers.py` |
| `LongSubmitSm` | splitting and long-message transactions | `protocols/smpp/operations.py`, `protocol.py` |
| `SmppServer` | binds of the SMPP server | `protocols/smpp/factory.py`, `protocol.py`, `routing/router.py` |

`<Module>Proofs` holds the theorems about a module and `MC<Module>` its instances
for TLC. `SMPPClientManager` is the composition of manager, listener, broker and
session; `JCli` of consoles, router and connectors; `MoDelivery` of listener,
Redis, router, throwers and the queues between them; `Billing` of two front ends,
router and listener.

### SMListener

The queue `submit.sm.<cid>` of the broker holds messages. `state[m]` says where a
message is: in the queue (`ready`), inside `submit_sm_callback` (`paused` in the
QoS delay, `sent` while it waits for the response), left unacknowledged for a
timer (`parked`), held by a callback that nothing will resume (`unanswered`), or
settled. A connector that is removed and added again gets a
new listener while the callbacks and timers of the old one are still in the
reactor, so every field of the class is indexed by the listener object:
`rejectTimers` holds the keys of the dictionary and `active` the timers still to
fire (a fired timer leaves its key behind), `submit_retrials` the counters,
`getters` the pending `get()` calls on the local queue of the AMQP client. What
the code decides from message contents and clocks (not a SubmitSM, expired,
too old, TLVs refused) is a nondeterministic choice. The broker and the AMQP
client library are external and modelled from their use.

### SMPPClientManager

Each `perspective_*` call runs up to its AMQP request and is then suspended in
`calls`; the broker answers the requests of the channel in order. `connectors` is
the manager's list as far as it concerns one connector id: the duplicate check
and the append of `perspective_connector_add` are four round trips apart, so the
list can hold the id twice. `session` abstracts the SMPP factory: `dialing` (the
deferred of `startService` waits), `redialing` (nobody waits), `bound`, `closing`
and `down`. A loss of the session fails the requests in flight, whose messages the
catch-all handler of `submit_sm_callback` rejects without requeuing
(`ConnectionLost`). `InvalidResponse` is an answer of another type than
`submit_sm_resp`: its request was closed before the error, so it is never answered
and its delivery never settled, and the error takes the connection down.

The AMQP connection is assumed to stay up. A consumer tag already in use is
modelled by the `except` branch of `perspective_connector_start`; that the broker
also closes the connection is not. The option
`delQueues` of `perspective_connector_stop` has no caller in the gateway and is
left out.

### DLRLookup

A content is one `dlr.submit_sm_resp` or `dlr.deliver_sm` message of the queue.
`step[d]` says where it is: in the queue (`ready`), suspended in one of the Redis
requests of its callback, `parked` for a timer, or settled. The queue is consumed
without a prefetch limit and the Redis client is a pool of connections, so any
number of lookups are in progress and their requests execute in any order. A
request may fail, and a write that failed may have been executed. `dlrMap` and
`queueMsgid` are the two kinds of map; either may expire. `requeue_timers` and
`lookup_retrials` are kept by message-id, as in the code: every response of a
message that is retried has the same id, and so has every receipt of one SMSC id.
`lookups` and `thrown` are history. The five receipt requests a sender can make
differ in what is published for a response (`RespThrown`) and for a receipt
(`ReceiptThrown`), when the map is removed and when the id is mapped. What a sender
is owed is stated apart from them (`Owed`, from the meaning of `dlr-level` and
`jasmin.cfg:280`), with the one case in which the code falls short (`LeftOut`).

`perspective_submit_sm` writes the map after publishing the message and does not
wait for it; the write may be skipped, fail or come late. `submit_sm_resp_event`
publishes every response, also of an attempt to be retried.

### Billing and Account

`Account` has a balance and what was taken for each message: a payment moves money
from one to the other, never below zero and never above the message's price; only an
administrator's call, which `admin` counts, changes the balance otherwise. `Billing` follows one user. The router holds `User`
objects; adding a user again replaces the object (`live`), while an SMPP session
keeps the one it bound with (`bound`) and a request suspended in the interceptor the
one it started with (`held`; the SMPP path goes on with a pickled copy). The
charging requirements are computed from that user, the charge is made to `live`.
`req` says where a message is, `due` what its response will bill, `billq` what
became of the bill request. A balance is unlimited (`None`), a float or an int
(`whole`): taking a float from an int raises, and an uncaught exception leaves the
bill request unsettled. Rates are chosen so that shares are whole numbers.
The refinement maps the abstract balance to that of `live`, and the administrator's
calls to those of `Billing`.

### RouterPB and JCli

Users and groups are sequences, as the code searches lists from the front; tables
are functions from order to entry. `disk` is the file of each scope, `Unreadable`
when it is absent, empty or cut off: saving opens the file, which empties it, before
writing. `persistenceState` are the flags, `synced` is history. `Restart` ends the
process at any time. Every `perspective_*` call that changes something is an action;
credentials are reduced to a balance, which charges lower. `charge` clears no flag:
only the persistence timer, which looks for `quotas_updated`, saves it.

`JCli` adds console connections. A line is one step, except where the SMPP client
manager waits for a connector; such a handler is a job that goes on later and reads
the session of then. Each connection has its own filters and HTTP connectors and one
interactive session with a buffer. Lines that are refused change nothing and are
no steps. A start may fail before or after the service runs, and fails without a
fault when the connector runs already or is gone (`Fails`). `Uses` lists which commands are used together in a behaviour; it keeps the
instance small and covers each pair of commands that share state.

### MoDelivery

`stage[i]` follows a message from the SMSC to its receiver: interception, storing
of a part, the router's queue, `routed` between acknowledgement and publication,
the thrower's queue, `throwing`, `waiting` for its timer, `open` when every connector
of a failover route has failed and nobody says anything to the broker, and the ends.
`hash` is the Redis hash of a long message's parts, which may hold parts of an
earlier message with the same reference (`Leftovers`) and expires. The throwers'
timers and counts are kept by message-id; receipts of one message share it. `Restart`
loses the memory and brings back what was not settled. A receiver takes a message
(`ReceiverTakes`) apart from the thrower's hearing of it: `reached` are the messages
taken in the throw that is going on, `takes` counts how often each was taken and
`unheard` how often the thrower learned of a failure, or of nothing, instead. Without
a client of Redis a part is accepted and lost. Outcomes of a throw (`ok`,
`failed`, `404`, `unset` when no SMPP server is set) and routes are choices.

### LongSubmitSm

`content` is a coding and a length in bytes; `Slice` gives the bytes of a part as the
code slices them. `outbound` are the open transactions of single PDUs, which belong to
the SMPP library; `longSubmitSmTxns` those of long messages by reference number.
`MaxRef` stands for 255. The factory of reference numbers is shared by all connectors
(`ClaimedElsewhere`). A response of the wrong type leaves the request unanswered,
because `errback` is called with two arguments and raises; the exception ends the
connection (`FailRequests`), which rejects the long messages and the other short ones.
Timers of one sending fire in the order they were set, so a message that timed out is
sent again after those of its parts have fired.

### SmppServer

A session is bound under a username; the bind manager of the username has the user of
its first session and counts in that user's `CnxStatus`, which belongs to a uid and
outlives the user. `cnx` says which uid's `CnxStatus` a uid has: replacing a user hands
it on. A session that unbinds, or is unbound by an administrator, is closed by its peer
or by the server's timer. Which of several bindings delivers is the library's choice.

## Runs

| Run | Instance | Shows |
|---|---|---|
| `connector_restart` | 2 messages, 1 listener, 2 starts, one retriable error | the inductive invariant, `RetriesBounded`, `SettledIsFinal`, `TimersGiveMessagesBack` |
| `connector_readd` | 1 message, 2 listeners, 1 start each, two retriable errors (one without delay), fair | `NoStrandedDelivery`, `ConsumerIsListenedTo`, `EveryDeliverySettles` |
| `lookup_receipts` | 2 responses of one message and a receipt, all requests, 2 lookups, fair | the inductive invariant, `TerminalAfterAccept`, `AckedIsThrown`, `LookedUpMaxRetries`, `SettledDlrIsFinal`, `EveryDlrSettles` |
| `account_pays` | a short and a long message, 3 kinds of quota, 2 administrator calls, fair | the inductive invariant, `RefusedIsFree`, `PaidInFull`, the refinement `ImplementsAccount`, `BillsSettle` |
| `configuration_saved` | 2 uids with one name, 1 group, orders 0 and 1, 4 calls, 1 failing write, 1 restart, fair | `IInv`, `TableFlags`, `LoadRestores`, `ChargeReachesDisk` |
| `console_sessions` | 2 connections, 6 lines, 2 failures, fair | `AddedUserHasGroup`, `UpdateRestarts` |
| `messages_delivered` | a short message, a long one of 2 parts, its last part after one that was left behind, or 2 receipts of one message; simple and failover routes, 1 retry, 1 restart, fair | the inductive invariant, `WaitingHasTimer`, `RetriesBounded`, `OneTaker`, `DoneIsFinal`, `MessageSettles` |
| `long_messages_answered` | 2 messages of 1 to 3 parts, 2 reference numbers, 2 sendings, fair | `PartsAreContent`, `OpenIsAwaited`, `AllPartsAnswered`, `ToldOnce`, `LongAnswered` |
| `server_binds` | 2 users, 2 connections, limits 1 and none, fair | the inductive invariant, `CountsMatch`, `BindWithinQuota`, `BanEmpties` |
| `bill_uncovered` | violation | of two messages that both met the requirements one stays unpaid |
| `not_found_retried` | violation | a message answered with 404 is thrown again |
| `bindings_exceeded` | violation | a username that passes to another uid binds more often than `max_bindings` |

Bounds. `MaxRetrials` deliveries of a message to one listener (one more than the
smallest retrial count, so that giving up is reached), `MaxCalls` suspended
perspective calls (two, so that every pair can overtake), `MaxStarts` starts of one
listener's connector. `MaxRetries` of `DLRLookup` and `MoDelivery` is a setting of
the code: its values reach both a retry and giving up. `MaxTakes` 2 lets a receiver
take a message a second time after an answer that was not heard. `MaxAdmin` two calls replace
and re-quota a user inside one request; two messages are what it takes for one to
use up what another checked. Four calls of `RouterPB` and six lines of `JCli` build,
change, save and load something, with failures in between (two, so that both starts
of an update can fail); in `JCli`, `MaxCalls`
bounds the lines of both connections together. Two sendings and two
reference numbers make a late answer meet a second sending and two messages share a
number. `SmppServer` has no bound: its state is finite. Symmetry over messages and
listeners is used in one safety run.

Deadlock is checked in `configuration_saved` and `console_sessions`, whose
persistence timer always runs. Elsewhere it is not an error: an idle gateway, or one
that has used up its bounds, may stop.

What the properties leave out, because the code does not have it:

- `EveryDeliverySettles`: a delivery that the SMSC answered with a PDU of another type.
- `AckedIsThrown`: an error response to an SMPP sender who asked for all receipts.
- `LookedUpMaxRetries`, `EveryDlrSettles`: contents that share a message-id (`Unshared`
  are the others), whose timer and counter are shared as well.
- `UpdateRestarts`: an update whose two starts failed, or whose session was left.
- `MessageSettles`: messages that stay `open` after a failover route, and receipts that
  share an id.
- `AllPartsAnswered`: messages that share a reference number.

Fairness (`FairSpec`, `JFairSpec`): the reactor runs what is due and timers fire.

- `SMPPClientManager`: a paused callback resumes, a request ends at the latest when its
  response timer fires, a reject timer fires. Nothing is assumed of the SMSC, the
  operator or the broker.
- `DLRLookup`: a Redis request ends, with a reply or an error, and the broker delivers
  what is in the queue; its consumer has no prefetch limit, so no other content can
  hold a delivery back.
- `Billing`: the broker delivers bill requests, whose queue has no prefetch limit.
- `RouterPB`: the persistence timer. `JCli`: handlers that wait for a connector go on.
- `MoDelivery`: scripts and receivers answer or time out, the broker delivers, timers
  fire. Each message makes progress by itself, since the throwers ask for the next
  message before they throw.
- `LongSubmitSm`: timers only; nothing is assumed of the SMSC.
- `SmppServer`: a session that unbinds is closed, by its peer or by the library's timer.

`SmppServer` is run where usernames and uids go together one to one; `bindings_exceeded`
shows what happens otherwise.

## Proofs

Every theorem holds for all values of the constants under the named `ASSUME` of the
module, which only gives types and keeps special values apart; that of `JCli` says that
the profile it starts from was saved by this program (each gid once, no `updated` mark).

`SMPPClientManagerProofs` proves the safety invariants and the action properties of
the first two runs. They are not inductive by themselves; `IInv` adds

- `DeliveryInv`: every unacknowledged delivery is with a listener, and a message is
  parked exactly when its holder has an active timer kept under its msgid. Without
  the last part a stop could cancel a timer that it does not find in the dictionary.
- `RetrialInv`: while a listener handles a message, the retries made for an error
  stay behind the deliveries counted. That gap is what keeps the comparison with
  `count` meaningful when not-ready requeues are counted too.
- `ConsumerInv`: a consumer was started by a connector that still has its tag, and
  its listener has a pending `get()`.

The lemmas follow the code: one group for the helper methods, one step per action
for each part of the invariant, and `StepEffect` for the two action properties.

`DLRLookupProofs` proves `TypeOK`, `TimerHoldsItsDlr`, `TerminalAfterAccept` and
`AckedIsThrown` for any contents, requests and limits, shared ids included. Its
`IInv` adds `LookupsInProgress`: an id is mapped, or about to be, only after the
`ESME_ROK` of a message whose sender wants terminal receipts, and a lookup past its
publication has published. A map that expired says nothing any more, so the facts
are kept with the suspended lookups as well. `LookedUpMaxRetries` is about the
contents whose message-id no other has used so far, with `Own` as the strengthening
(`UnsharedInv`): such a content has a timer while it is parked, and a counter that
says how often it was looked up. `SettledDlrIsFinal` is about all contents: a timer is always for a parked content, so one that was acknowledged or
rejected is never looked up or published again.

`BillingProofs` proves `IInv`, `RefusedIsFree`, `PaidInFull` and the refinement
`ImplementsAccount`. `InstalmentInv` says that what was taken for a message and what is
still to be billed stay within its price, and that nothing is billed before the
response; it is what makes the second instalment a payment of the account. An effect
lemma gives, for a charge by any path, the amount taken and the balance it came from;
each action is then a payment, an administrator's step or a stutter. `PaidInFull` needs
`UntouchedInv`: while `admin` is 0 there is one `User` object, which sessions and requests
hold or copy, and what was taken for a message and what is due make up its price.
`RejectedOnlyForAnother` is the other side of the run `bill_uncovered`: as long as no
administrator acts, a bill request is rejected only if something was taken for another
message. Its invariant `CoveredInv` says that the balance covers what a message still
has to pay, from the check of the requirements on, until another message is charged.

`RouterPBProofs` proves every safety property of `configuration_saved`. `TableFlags`
is inductive with the shape of tables and files (`TablesInv`, which also keeps default
entries at order 0); users and groups do not matter to it. `IInv` (one group per gid, and the types) is proved
from `ListInv`, which adds that the users of a file carry no `updated` mark; this is also
why a load gives back exactly what was saved (`LoadRestores`). The lists are searched
with `getGroup` and `getUser` and gone through by `UsersOutside`. What these return is
shown without an induction rule: the lemma `SmallestOf` gives the first index at which a
claim would fail, and the index before it refutes that. `ChargeIsSavedNext` is the part of
`ChargeReachesDisk` without fairness: from a state with a mark, a step that is neither a
call nor a failing write leaves the balance of every user in the file.

`JCliProofs` proves `AddedUserHasGroup` for any connections and lines, and
carries `TableFlags` over to the console. `ConsoleInv` has
the router's part (`ConfigInv`) and `SessionsInv`: what was typed in a session for users
or groups are ids and names, also when other connections have removed the user or the
group since. Each action is classified by what it does to the router (`RouterStep`: a
call of `RouterPB`, an update in place, a write, a load or nothing), to the session of
its connection and to its filters; the lemmas about the router's calls do the rest. A job
that ends after its session was replaced is one of these steps, so it can end the wrong
session but not one of another connection.

`MoDeliveryProofs` proves every safety property of `messages_delivered`, and `FormFits`
(an HTTP server gets a long message put together, an SMPP client its parts). `ItemInv`
keeps the properties at the stages between (a message that will be thrown again has a
try left, one that was routed is on a route that takes it, and `OneTaker` holds in the
middle of a throw), `TimerInv` ties a timer to
a waiting message of its id, `ConcatInv` says that only the last part puts the message
together, once. From the last two follows
`DoneIsFinal`: what was refused, delivered, rejected or lost is not moved again, by a late
timer, another part or a restart.

`LongSubmitSmProofs` proves `OpenIsAwaited`, `PartsAreContent` and `AllPartsAnswered`.
`PartsAreContent` is arithmetic on the limits of each coding; for `OpenIsAwaited` the
invariant says that the transaction under a reference number is of a message that has
this number and waits. `AllPartsAnswered` needs `AnswerInv`: while a message waits and no
other has its number, what is open of it are unanswered parts of this sending, and the
transaction counts the parts without an answer. A message that was not submitted has no
number, so a number that is shared once stays shared. The count is a cardinality, which
the lemmas on finite sets lower by one with each answer. `ToldOnce` follows for all
messages, shared numbers included: an answer, a time-out or a cancellation reaches only
a request that is waited for, and nothing moves one that was acknowledged or rejected.

`SmppServerProofs` proves `IInv` and `ManagersHaveSessions` without further hypothesis,
and `CountsMatch` and `BindWithinQuota` under `OneName`: usernames and uids go together
one to one. Then a user and the bind manager of its username have the same uid (`AccountInv`),
`CnxStatus` objects never move (`StatusTyped`), and the counts are cardinalities of sets
of sessions (`CountInv`), which the lemmas on finite sets maintain. Under the same
hypothesis no uid is in the list of users twice (`UsersAreUnique`), so the user who is
found for a bind is the one whose sessions are counted, and `MaximumBound`, which
`bindings_exceeded` violates, holds (`MaximumHoldsForOneName`): the violation needs a
username that passes from one uid to another.

Only model-checked: liveness (`EveryDeliverySettles`, `EveryDlrSettles`, `BillsSettle`,
`ChargeReachesDisk`, `UpdateRestarts`, `MessageSettles`, `LongAnswered`, `BanEmpties`),
because fairness and `ENABLED` are out of the prover's reach, and the violations. Every
safety invariant, action property and refinement that a passing run checks is proved.

## Findings

`PROJECT.json` has the three that a run shows. Other disagreements between the code and
what the repository says of it, met while modelling:

- `listeners.py:381`: a message is sent at most `count` times, so retried `count - 1`
  times; `misc/config/jasmin.cfg:224` says retrial is executed `count` times.
- `listeners.py:388`: `submit_retrials` keeps the entries of discarded messages and of
  errors that are never retried; the comment above says "Prevent this list from
  over-growing".
- `clients.py:422`: a stop during a pending `basic_consume` finds no tag and leaves
  the consumer of a stopped connector running; the comment at 226-228 says the listener is
  stopped with the connector.
- `clients.py:594`: the message is published before its receipt request is written, so
  an early response loses the receipt that `misc/doc/sources/apis/http/index.rst:285`
  says will be sent.
- `dlr.py:100`: a second receipt with the same SMSC id cancels the timer of the first,
  which stays unacknowledged until the process ends.
- `dlr.py:278-281`: an error response is published to an SMPP sender only if they asked
  for receipts of failures; `misc/config/jasmin.cfg:280` says a receipt is sent whenever
  a `submit_sm_resp` is received.
- `dlr.py:242`: an error response removes the receipt request although the message
  will be retried; the comment at 238 says no more delivery will be tracked.
- `router.py:724`: `user_add` stops at the first match, so a uid and a username of two
  users leave a duplicate; `tests/routing/test_router.py:679` says users are unique by
  both.
- `usersm.py:479`: the comment says the user must always be found; another console may
  have removed it.
- `throwers.py:565`: a second receipt of a message cancels the retry timer of the first.
- `protocol.py:333`: a message whose reference number is busy has its first part sent
  before that is noticed, and the answer counts for the other message.
- `protocol.py:143`: `errback` is called with two arguments and raises, so a request
  answered with another type of PDU gets no answer and the connection ends. The
  delivery of a short message stays unacknowledged and keeps a prefetch slot.
- `listeners.py:488-496`: parts are counted, not told apart by message, so a part left
  behind by an earlier message with the same reference completes a new one.
- `throwers.py:352-378`: a receiver that took a message and whose acknowledgement was
  late or lost is thrown to again, or the next connector of a failover route is.

## Not modelled

Formatting and parsing (metrics, statistics, PDU encoding, the value checks of console
lines), the read-only HTTP calls, the REST API, which forwards requests to the HTTP
API, the interceptor's scripts, whose outcomes are choices, what a filter matches,
authentication and set-up of the perspective broker, the order in which a daemon starts
its services, and configuration files with their migrations. `PROJECT.json` gives the
reason for each part.

In the parts that are modelled: the loss of the AMQP connection (the factory reconnects,
but no part of the gateway consumes again on the new channel); the clocks behind message
expiry, age and throughput, which are choices (`listeners.py:194` compares
`timedelta.seconds`, which wraps every day); branches for a missing router or SMPP server, and
in `DLRLookup` for a missing Redis client, that cannot be reached once the daemon has started; malformed Redis maps;
in `MoDelivery`, receipts in the form of PDUs, which the listener hands to `DLRLookup`;
in `SmppServer`, the statistics counters and the choice of the binding that delivers.
