# That Limit: a TLA+ model of the service

That Limit is a distributed rate limiter. Instances lease batches of tokens from
a counter in Redis and spend them locally. This directory models the service
from the request of a client to the counter in Redis: the two Redis scripts, the
local buckets, the single flight that refills them, the cleanup task and the
return of tokens on shutdown, the two adapters in front of the store, and the
process around it all with its signals. TLC checks the model on small instances;
TLAPS proves the central properties for every value of the constants.

## 1. Inventory

| Part | State | Operations | Talks to |
|---|---|---|---|
| Redis scripts (`core/src/cache.rs`) | one counter with an expiry per key | `LEASE_SCRIPT` (open a window or take up to `lease_size`), `RELEASE_SCRIPT` (give back to the same window) | called by the store of every instance |
| Policies (`core/src/config.rs`) | `quota`, `lease_size`, `reset_in` for `public` and `protected` | read and validated once at startup | store |
| Bucket (`core/src/bucket.rs`) | `tokens`, `expires_at`, `window`, `exhausted` | `new`, `consume`, `set_exhausted`, the predicates | store |
| Store (`core/src/store.rs`) | `buckets` and `refills`, two sharded maps | `consume` -> `ensure_refilled` -> `check`, `lease`; the cleanup task | adapters, Redis, server |
| Server (`server/src/main.rs`, `integration/`) | environment, configuration, a broadcast channel of `Command` | `main`, `shutdown_signal`, the adapters' graceful shutdown | cleanup task, adapter |
| HTTP adapter (`http-adapter/`) | none of its own | middleware and extractors, `consume`, outcome to response | store, clients |
| Envoy adapter (`envoy-adapter/`) | none of its own | `should_rate_limit`, `extract_identifier`, outcome to response | store, Envoy |
| Redis client wrapper (`cache/`) | a connection manager | `env`, `connect`, `eval` | Redis |

What is hard here:

* **Interleaving.** `consume` looks at the maps four or five times, under a
  different lock each time, and awaits Redis or another task in between. Every
  look may find something else than the one before.
* **Failure.** A command may fail before or after Redis ran it, or run after its
  caller gave up. A client that disconnects drops the future of its request at
  the await it stands at. Instances crash.
* **Time.** A bucket must not outlive the window its tokens came from, though the
  reply took a while and the task may be preempted between two clock reads.
* **Shutdown.** The cleanup task returns tokens while the server still serves.
  It and `shutdown_signal` find each other by messages on a channel that only
  delivers what is sent after one subscribed, and neither has a deadline.
* **Choice and answer.** An adapter chooses the bucket once, and leases, retries
  and other requests come before it has an outcome to put into its answer. The
  two adapters look at the same things in different orders and express the
  outcome in different types.

What makes each part correct: the scripts and the store neither make nor copy
tokens (`TokensConserved`, `ReturnsBounded`); a bucket ends with its window
(`WithinWindow`, `WindowsAdvance`); denials tell the truth (`ExhaustedIsTrue`,
`RetryWithinWindow`); the single flight is single, ends, and wakes those who
joined it (`SingleFlight`, `FollowersMatch`, `FlightEnds`, `WaitersWoken`); the
cleanup task drops what expired, returns what it holds before the server of its
instance stops and completes the shutdown (`ExpiredDropped`,
`InstancesStopInOrder`, `CleanupCompletes`); the server loses no command, stops in
order and does stop (`CommandNotLost`, `StopsInOrder`, `LeavingEnds`); the
adapters charge who asks and say what the store did (`OwnersCharged`,
`TokensBuyAnswers`, `WaitIsTold`). `PROJECT.json` lists the hazards line by line.

## 2. Modules

| Module | Models |
|---|---|
| `Config` | the policies, `Policy::try_from`, which policy a bucket id gets |
| `Bucket` | the record of a local bucket and its operations |
| `Cache` | the clock, the keys of Redis, both scripts as operators, expiry |
| `Total` | the sum of a function as a count of units, used by the ledger properties |
| `Store` | all instances: requests, single flight, lease, cleanup, shutdown, crash |
| `Ledger` | what the service promises about the tokens of a window: an abstract specification |
| `Lifecycle` | how an instance stops, in the words of the documentation: an abstract specification |
| `Server` | one process from `main` to its end: startup, signals, `shutdown_signal`, the channel, the cleanup task as a partner |
| `Adapters` | the decisions and answers of both adapters as functions |
| `Service` | `Store` behind the adapters: requests come in, answers go out |
| `MCStore`, `MCService` | `Store` and `Service` on small instances |
| `StoreProofs` | facts about the scripts, the types of `Store` and the end of its buckets, proved |
| `FlightProofs` | the map of refills, and what follows for the order of windows and for denials, proved |
| `LedgerProofs` | facts about sums (`Total`) and the conservation of tokens, proved |
| `LedgerTheorems` | the ledger keeps its limit, proved |
| `RefinementProofs` | `Store` implements `Ledger`, proved |
| `ReturnProofs` | the bound on returned tokens and the order in which instances stop, proved |
| `ServerProofs` | the types of `Server`, its channel and its way out, proved |
| `ServiceProofs` | `Service` conserves tokens, charges owners and answers truly, proved |

`Service` extends `Store`, which extends `Cache` (over `Config`) and `Bucket`.
Two abstract specifications are implemented, `Ledger` by `Store` and `Lifecycle`
by both `Server` and `Store`. `Service` adds requests and answers to the actions of
`Store`, so what holds of the store holds of it.

### The promise

`Ledger` knows, per key and window, the tokens `left` with the service, `held` by
somebody and `spent`. A window of which nothing is known opens with its limit
(`Open`), a lease moves tokens from `left` to `held` or loses some of them on the
way (`Lease`), a held token is spent (`Spend`) or given back (`Return`), and tokens
may be lost (`Lose`). `Store` implements it with `left` the counter in Redis while
the key names the window, `held` the claims (`HeldIn`), and `spent` the history of
that name. A claim is a token that somebody may still spend or give back: one in
a reply or in the bucket of an instance, or, once the cleanup task of the instance
has read the buckets, one that the task took down instead of those in the buckets
(`Owed`), or one in a release that nobody waits for any more and Redis may still
run (`adrift`). `spent` is what was consumed before that reading. What an instance
consumes after it is in no book of the ledger (`late`), since those tokens are
returned as well. So the mapping says exactly what a window may hand out beyond its
quota, namely what instances consume that are told to stop and have read their
buckets (`double_spend`), and that everything else keeps the promise.

`Lifecycle` knows of an instance where it is on its way (`down`, `up`, `leaving`,
`returned`, `stopping`) and whether it was `asked` to stop. An instance that returns
tokens leaves only when it is asked, unless it is `deaf`, and does not stop before
it has returned them (`Leave`, `Return`, `Stop`); it may come to an end at any point.
`Server` implements it with the phase read off `main`, `shutdown_signal` and the
cleanup task (`Phase`), `asked` the signal it got and `deaf` a handler that cannot be
installed. `Store` implements it with its instances as members and the phase read
off what each has been told, serves and returns (`PhaseOf`); handlers are installed
there. `Lifecycle` leaves it open on purpose that an instance with nothing to return
(`cleanup.enabled` off) waits for nothing, not even a signal: that is what the code
does (section 5).

### State and code

`now` is one clock. The scripts use durations and instances compare only their
own monotonic readings, so clocks that run at the same rate are one clock. A
window is named by the instant its key expires, as `PEXPIRETIME` does.

`buckets[i][b]` and `refills[i][b]` are the two maps of instance `i`. An entry of
`refills` is an `Arc<Notify>`; it is identified with the request that put it
there, and is `Dead` once that request is gone without removing it. A request is
a slot that serves one request after another; `pc` says which piece of code runs
next:

| `pc` | code about to run |
|---|---|
| `check` | `Store::check` |
| `entry` | `refills.entry(..)` |
| `calling`, `replied` | awaits the lease: not yet run by Redis, run |
| `install` | what follows the await in `Store::lease` |
| `release` | `refills.remove`, `notify_waiters` |
| `cloned`, `waiting` | has the `Notify`, has created `notified()` |
| `consume`, `evict` | the second lookup of `Store::consume`, its `remove` |

An action is what runs under one lock of a map shard, or one command of Redis.
Four variables are histories: the tokens of a window consumed before the cleanup
task of the instance read its buckets (`spent`) and after (`late`), the requests
admitted with no token while a window was open (`free`), and the windows to which
Redis has added returned tokens (`refunded`).

A command whose sender got an error, dropped its future or crashed may still be on
its way: of leases `orphans` has the keys, of releases `adrift` the tokens by
window. `LeaseFails`, `DisconnectLeader`, `ReturnFails` and `Crash` may put commands
there (`MayStillArrive`, `MayStillReturn`), and `OrphanExec` and `LateReturn` are
Redis running one, at any later time or never.

Abstractions, all in `Store`:

* The scan of the map by the cleanup task (`iter().filter().collect()`) is one
  step. Keys do not influence each other, so only the order of the later steps
  matters, and that is arbitrary: it covers the chunks of `CHUNK_SIZE`.
* The interval of the cleanup task ticks at any time, if it is above zero; with
  `Interval` 0 the task is dead from the start (`CleanupStart`), as in `Server`.
* Of releases on their way only the sum is kept, so `LateReturn` may run one of them
  in parts, which is more than the code does.
* Atomics are sequentially consistent. `tokens` and `exhausted` of one bucket are
  never used to order anything else.
* `Disconnects` drops a request where it awaits: in `notified()` and in the
  lease. A follower that has been woken and not polled holds nothing.
* After `Exit` or `Crash` another process takes the place of the instance.

### The server

`Server` is one process. `main` is the line `main` has got to, `signal` and
`cleanup` where `shutdown_signal` and the cleanup task are, `inbox` what each
receiver of the broadcast channel has not read. `config` is what the process
finds: any state of the file, of `REDIS_HOST` and `REDIS_PORT`, of the port to
listen on, and whether signal handlers can be installed (`broken`). An action is what a task
does between two awaits:

| Actions | Code |
|---|---|
| `ReadConfig`, `Connect`, `NewStore`, `Bind` | the steps of `main`, each of which may end it |
| `Poll`, `Interrupt`, `SendShutdown` | the first part of `shutdown_signal`; the handler exists from its first poll on |
| `ReadOwnCommand`, `SignalTick`, `ReadComplete` | its loop: a `select!` over the channel and a five-second tick, whose pattern switches a branch off |
| `CleanupBegins` .. `SendComplete` | the cleanup task as far as the channel goes |
| `Kill` | a signal nobody has a handler for: before the first poll, without cleanup, or where none can be installed |

What the cleanup task does to buckets and keys is in `Store`, where `Terminate`
stands for the whole of `Interrupt` and `SendShutdown`, `ReceiveShutdown` for
`CleanupHears` and `SignalOver` for the end of `shutdown_signal`. `Server` justifies
this: the command arrives (`CommandNotLost`), and both implement the same life
cycle (`StopsInOrder`, `InstancesStopInOrder`), one by its channel, the other by
what has been returned.

### The adapters

`Adapters` has the decision for a request (a bucket id, or an answer without the
store) and the answer to an outcome of `Store::consume`, for HTTP and for Envoy,
in the order in which the code looks at things: routes, token, method, extractors,
domain. A text is a sequence of tokens, as
far as the code takes it apart: a host of labels, dots, colons and brackets, a
forwarding header of its entries. What `parse` accepts is the id itself, and
`Garbage` is what it does not. `HttpRequest` and `IsEnvoyRequest` say which
requests there are: a token that decodes names a user, a list has an entry at
least, an Envoy descriptor with the key `remote_address` has such a list for its
value. `extract_identifier` loops over the entries and returns at the first user;
`ExtractIdentifier` says what comes out, the first user if there is one, else the
last address. Protocol buffers, JSON and the signature of a token
are left out.

In `Service` every instance has one of the adapters (`front`), `asked` is the
request a slot serves, and `reply` is the answer the last step gave, if it gave
one: properties are about a step and its answer. The history `toReset` remembers how
long the window still lasted when a lease got nothing, since its request is
answered some steps later. `Submit` is the call of `Store::consume`, `Decline` an
answer without it, `Proceed` any step of the store for a slot, which gives the
answer if the slot is done. The other actions are those of `Store`.

## 3. Runs

`SmallPolicy` has a quota of 3 in leases of 2, so that a window sees a whole, a
partial and an empty lease; windows last one tick, and with three ticks a second
window opens after the first. `OneLease` gives the quota in one lease of 2.
`OneToken` has a quota of 1: every token of a window is its last, and the instances
take it from each other.

| Run | Instance | Shows |
|---|---|---|
| `store_race` | one instance, three slots, cleanup task, `MaxLag` 1, a second key whose policy has `reset_in` 0 | ledger, single flight, windows and denials hold in every interleaving of a leader, a follower and a late comer |
| `store_faults` | two instances, three slots, failures, late leases, disconnects, a crash | tokens get lost, none is made; flights stay single |
| `store_live` | one instance, two slots, failures, late commands, told to stop while it serves | its server stops only when every release has run or failed; flights end, registered waiters wake, expired buckets go, the cleanup task completes |
| `store_ledger` | two instances, one slot each, failures and late commands of one, which is told to stop and replaced, windows that follow each other | every step of the store is a step of `Ledger`; a return, in time or after its caller got an error, never gives a window more than was taken from it; what goes beyond the quota is what the first instance consumed after reading its buckets |
| `server` | one process in every environment, two requests at a time | no command is lost, the process goes the way of `Lifecycle`, and a shutdown that has begun ends, but for a dead cleanup task and a request that is never answered |
| `service` | one instance behind HTTP or Envoy, two slots, disconnects, a crash | the requester is charged, a token is answered with what is left, and the wait in an answer ends with the window |
| `over_admission` | one instance, two slots | **violated**: the last token admits two |
| `double_spend` | one instance, one slot, told to stop | **violated**: tokens are returned and spent |
| `lost_wakeup` | one instance, two slots | **violated**: a joiner waits for a wakeup that has been |
| `client_gone` | the same, with disconnects | **violated**: the flight of a gone client never ends |
| `stale_denial` | one instance, one slot | **violated**: denied after the window |
| `stranded_tokens` | one instance, two slots | **violated**: denied though the bucket has tokens |

The violated properties are sentences of the repository's README; `PROJECT.json`
quotes them under "findings".

Bounds of the store: `MaxTime` stops the clock, `MaxLag` is how long a task may be
preempted between the two clock reads of a lease, `SpentCap`, `LateCap` and
`FreeCap` stop the histories. `Failures`, `Crashes` and `Terminations` are the
instances to which these may happen. Three slots on one instance are the leader, a
follower and one that comes after; two instances are enough for tokens to be held
elsewhere. Slots of one instance are symmetric; liveness runs use no symmetry.
`store_live` does not check for deadlock: an instance that drains while a request
waits for a lost wakeup does nothing any more, which is what `lost_wakeup` is about.

In `store_ledger` a token is leased, may be lost on the way, spent, returned, refused
or on its way back, and leased again by the other instance, in two windows that
follow each other; with `OneToken` one token too many is enough to break the bound.
Partial and empty leases, and two tokens in one bucket, are the matter of
`store_race` and `store_faults`, and all policies that of the theorems. `LateCap` is
zero: `ReturnsBounded` and `KeepsLedger` leave `late` out on purpose, and
`TokensConserved` counts in this run what was consumed before the cleanup task read
the buckets; with what was consumed after it, it is the theorem `Conservation`.
`SpentCap` is zero in `store_live`, whose properties read no history.

Bounds of the server: `MaxInflight` requests at a time, the only one; everything
else of `Server` is finite, the inboxes included, as each side sends once. It does
not check for deadlock, since processes end. Lifecycle needs one member.

Bounds of the service: two slots are two clients that compete for one bucket. A
window is two ticks, which is one second (`Second` 2), so that waits of a whole
and of half a second occur and `Retry-After` rounds. The quota is two, given in
one lease, and `U32Max` is zero, so that one token left does not fit and none
does. Requests are picked so that every branch of both decisions is taken: user
and address, first and later entries, brackets and ports, garbage in each place,
another domain, other routes and methods. The policy of the user has `reset_in` 0,
so that errors are answered too. Within three ticks the bucket expires and a second
window is not exhausted; windows that follow each other are the matter of
`store_race`, and the theorems are about all bounds. Since every lease of the user
fails, only tokens of the address are spent in this run; that a user with a token
in hand never spends those of the address is seen there all the same (it is how
`IdentifierByAddress`, in `Adapters`, breaks `OwnersCharged`), and for policies that
give users tokens it is `OwnersAreCharged`. `SpentCap` is zero since no property of
this run reads the histories.

Fairness of the store (`FairSpec`): weak fairness of the steps of each request
(tokio polls tasks that are ready), of the answer to a command (the connection
manager of redis 1.x times out, so a command is answered or fails), and of the
cleanup task. None for arrivals, disconnects, signals, crashes, late commands, the
clock, or the drain and exit of a server, on which no liveness property rests.

Fairness of the server: weak fairness of startup, of `shutdown_signal` with its
tick, of the steps of the cleanup task, of drain and end. Strong fairness of
`CleanupHears`: while the interval ticks again and again the command is ready
only now and then as the model sees it, and `select!` starts with a branch chosen
at random, so it is taken in the end. None for signals, arrivals or answers: that
a request of `Store` may never be answered is `lost_wakeup` and `client_gone`.
`LeavingEnds` therefore names two ways in which a process that is told to leave
never does: its cleanup task died of an interval of zero, or its server drains for
good with a request in flight.

## 4. Proofs

The theorems hold for all ids and policies the server accepts, any finite sets of
instances and request slots, any bounds, and with every fault of `Store`. They
assume what the modules assume of their constants: accepted policies
(`ConfigAssumption`), a clock that starts before it stops (`TimeAssumption`),
that `NoBucket`, `NoOne` and `Dead` are none of the things they are not and
that instances and slots differ (`StoreAssumption`), that bucket ids and the two
marks for what is missing or does not parse are not answers
(`AdaptersAssumption`), and that the requests of `Service` have the shape described
above (`ServiceAssumption`): any set of such requests will do.

| Theorem | States | Argument |
|---|---|---|
| `TypeCorrect` | `[]TypeOK` | inductive as it stands; a lease never takes more than the counter has (`LeaseFacts`), so no number goes below zero |
| `FlightsAreSingle`, `FollowersAreMatched` | `[]SingleFlight`, `[]FollowersMatch` | inductive together: `refills.remove(b_id)` is harmless to followers of other flights because the entry is the leader's own |
| `BucketsEndWithWindow` | `[]WithinWindow` | by `WindowInv`, below |
| `WindowsNeverGoBack` | `WindowsAdvance` | by `OrderInv`, below |
| `MarksTellTruth` | `[]ExhaustedIsTrue` | by `MarksTrue` and `OrderInv`, below |
| `WaitsEndWithWindow` | `RetryWithinWindow` | from `WindowInv` and `OrderInv` |
| `Conservation` | `[]TokensConserved` | by `LedgerInv`, below |
| `Refinement` | `KeepsLedger`, that is `Ledger!Spec` under the mapping | step by step, from `ReturnInv`, below |
| `ReturnsNeverExceed` | `[]ReturnsBounded` | by `ReturnInv`, below |
| `InstancesKeepOrder` | `InstancesStopInOrder`, that is `Lifecycle!Spec` for the instances of `Store` | step by step, from `WayInv`, below |
| `ServerTypes` | `[]TypeOK` of `Server` | with `ServerInv`, which bounds the inboxes |
| `CommandsReach` | `[]CommandNotLost` | by `ServerInv`, below |
| `ServerStopsInOrder` | `StopsInOrder`, that is `Lifecycle!Spec` for one process | step by step, from `ServerInv` |
| `Decided` | for every request either adapter can be sent, `Decision` is a bucket of an owner of it in a limited domain, or an answer without a count and without a denial | by cases; the first user and the last address exist (`Least`, `Greatest`) |
| `ServiceTypes` | `[]ServiceTypeOK` | from `FrontInv` and `ResetInv`, below |
| `OwnersAreCharged` | `OwnersCharged` | from `FrontInv` and `Decided` |
| `TokensAreAnswered` | `TokensBuyAnswers` | from `FrontInv`, below |
| `WaitsAreTold` | `WaitIsTold` | from `ResetInv`, below |
| `ServiceConservation` | `[]TokensConserved` of `Service` | from `Conservation`: a step of `Service` is one of `Store` or leaves its variables alone (`ServiceIsStore`, `AdaptersOnlyAsk`) |
| `LedgerKeepsLimit` | `[]NeverMoreThanLimit` of `Ledger` | inductive together with the types of the books, for natural limits |

`TokensConserved` is not inductive. `LEASE_SCRIPT` opens a window with the whole
quota, so the step needs that nothing of that window was ever spent or held:
`Unopened` says so of every window later than the clock and than the window the
key has. A slot that turns to another key would take its tokens with it, so
`CarriedInReply` says that a slot carries tokens only from the reply to the
insertion. `BooksKept` asks the balance and `Unopened` of the windows that got
nothing back. With these, each step is one of four: it only loses tokens
(`BooksShrink`), moves a reply into a bucket (`BooksMove`), turns a held token
into a spent one (`BooksSpend`) or hands out a lease (`BooksLease`); a return
concerns a window that is in `refunded` from then on, or does nothing to Redis
(`ReturnFacts`). The sums are sizes of finite sets of units (`Total`), so that the
facts about them (`TotalChange`, `TotalMove`, `TotalMonotone`) follow from those
about cardinality and need no induction.

`ReturnsBounded` speaks of all windows, so tokens that are returned and spent
(`double_spend`) must be counted once. What counts is who may still spend or return
a token (`Claimed`): the replies, the buckets of an instance until its cleanup task
has read them, from then on what it took down, and the releases on their way
(`adrift`). `ReturnInv` adds to `CarriedInReply` that a task has taken down nothing
before it reads (`TakenDown`), and that of a window that was never open nobody has a
claim and nothing is spent (`Unclaimed`). A step gives up claims (`YieldKeeps`), moves one from a
reply to a bucket or drops it there (`InstallKeeps`), spends one (`ConsumeKeeps`),
makes as many as Redis gave (`ClaimsLease`), or turns some into tokens in Redis, in
the window they came from and nowhere else (`RefundKeeps`, for a return that comes
in time as for a late one). A release that fails for its caller, or whose instance
crashes, is no longer taken down but adrift, or lost (`FailsYields`, `EndLeaves`). Buckets that are filled
after the task has read the map are claimed by nobody, and never again: the
instance ends before its cleanup task could read them. A token consumed from then
on gives up no claim and makes none (`LateYields`), which is why it is in `late`
and not in `spent`.

`Refinement` uses the same steps for every instance, told to stop or not: giving up
claims is a `Lose` (`YieldIsLose`), a token consumed in time is a `Spend`
(`ConsumeIsSpend`), a script that leases is a `Lease` or an `Open`
(`ScriptIsLease`), and a return that Redis takes is a `Return`, whoever sent it
(`RefundIsReturn`).
`Unclaimed` is what allows a fresh key to be an `Open`; a token that is consumed
when the history has reached `SpentCap` is a `Lose`, as the history does not record
it. A reply that is lost on its way is the case of `Lease` in which nobody ends up
holding the tokens.

The four theorems about windows rest on what a reply in hand says. `WindowInv`:
its time left, from the reading it was last timed by, ends with its window
(`Timely`), so the bucket made of it does, but by the preemption in `Bucket::new`.
`OrderInv`: every bucket and every reply is of the window the key has, of one
before it, or of one that is over (`Known`), and a reply is of a window no earlier
than that of the bucket it will replace or mark. The last holds when Redis answers,
because Redis only opens windows later than all known ones (`LeaseIsLater`), and
it stays true because nobody else can put a bucket there meanwhile: that is
`SingleFlight` (`OnlyMineInstalls`). `MarksTrue`: what is marked exhausted, or will
be by a reply without tokens, is of a window that has nothing left or got tokens
back. A spent window stays spent where nothing is returned to it (`SpentStays`),
and one that got tokens back is never taken off that list (`RefundsStay`). The
bucket that is marked may be of an earlier window than the reply; then that window
is over (`MarkIsTrue`).

The order in which an instance stops needs little (`WayInv`): the cleanup task
takes buckets down only when its instance is told to stop and returns tokens at
all, and has none left when it says it is done; and a server of an instance that
returns tokens stops accepting only if it was told to. The refinement then looks at one
instance at a time: its step is a step of its member, and the others stay where
they are (`OneGoes`, `WayStays`).

`CommandNotLost` is not inductive, as it says of an inbox only that a command is
somewhere in it. `ServerInv` says what is in both inboxes for each place of the
two tasks: before `shutdown_signal` has sent anything there is nothing
(`Silent`), then each side has what the other sent, read or not (`Told`), and when
`shutdown_signal` is over the cleanup task is done (`Through`). A message reaches
who has subscribed, so `Subscribed` says when either side has: the cleanup task
from its creation, `shutdown_signal` from its first poll, and it sends after that.
`SignalFollowsMain` and `CleanupFollowsMain` say that there is a cleanup task by
then. A cleanup task that died of its interval has no receiver, and the command for
it is not lost but has nobody to read it.

What is charged for a request was chosen some steps earlier, before a lease,
retries and other requests. `FrontInv` keeps both together: the store serves a
slot the bucket its adapter decided on for the request that is still in `asked`
(`Chosen`), and an answer fits the protocol that carries it (`ReplyInv`).
`OwnersCharged` is then a fact about the decision alone, which is `Decided`. For
`TokensBuyAnswers` there are two directions: a token that leaves a bucket is a
`Proceed` of a slot in `consume`, which says what is left there
(`ConsumeIsProceed`), and an answer with a count above zero can come from nowhere
else, as plain answers and denials carry none (`CountIsPaid`).

The wait in an answer is found in one step and told in another. `ResetInv` says of a
slot whose lease got nothing that the wait it will be told is within what was left
of the window then (`MarkedReset`, from `WindowInv` and `OrderInv` as for
`RetryWithinWindow`), and of any other slot that it has no wait. An answer that
denies comes from `check` or from the end of such a flight and from nowhere else
(`Speaks`, `Endings`; an adapter denies nobody by itself, `Decided`), and rounding
only shortens it (`WholeSeconds`).

Nothing is assumed beyond the named assumptions on constants, and no theorem is
restricted to instances that keep running: what a return changes is in the
properties themselves (`refunded` in `TokensConserved` and `ExhaustedIsTrue`, `late`
beside `spent` in `ReturnsBounded` and `KeepsLedger`). Where nobody is told to stop
`refunded` is empty, and they say that no window exceeds its quota and every mark
is true. `MaxLag` is arbitrary in all of them; the runs have it at 0 or 1.

Every safety invariant, action property and refinement of the passing runs is
stated by one of these theorems. Only model-checked are the five liveness
properties, `FlightEnds`, `WaitersWoken`, `ExpiredDropped`, `CleanupCompletes` and
`LeavingEnds`, as the provers do not reason about fairness and `ENABLED` here, and
the six violations, which are counterexamples.

## 5. Where the code and its documentation differ

The runs that are violated show six differences (section 3). Other points came up while
modelling, against a sentence of the documentation or where it says nothing; the
model has what the code does:

* A bucket may outlive the window of Redis: `Bucket::new` reads the clock a second
  time, so what lies between the reading that `cache::lease` subtracted and that
  one is added. The repository's README (line 43) and `cache.rs` (line 48) say that
  it never does, "whatever the round trip took". `WithinWindow` says what is true:
  it outlives the window by the preemption of the task at most (`MaxLag`), and by
  nothing if the task is not preempted. In `store_race` this is a tick, as long as
  the window.
* With `cleanup.enabled` off `shutdown_signal` has no channel and returns at once,
  so the server stops as soon as it has started, and no signal is needed (`MayDrain`
  in `Server`, `Stop` in `Lifecycle`). The repository's README (line 54) says of the
  flag only that it decides about the return of tokens on `SIGTERM`.
* Where the handler of `SIGTERM` cannot be installed the error is taken for the
  signal: the process returns its tokens and stops though nobody told it to, and a
  `SIGTERM` meanwhile kills it (`Poll`, `Kill`).
* Tokens are lost where a bucket is removed or replaced that was filled since it was
  looked at: `Evict`, `CleanupRemove`, `Install`. This is under-admission, on one
  instance and without a crash, of which the documentation does not speak.
* Over HTTP a request is refused for want of a valid token, a host or an
  identifier before its domain is looked at (`HttpDecision`), though the
  repository's README says that any other domain gets an allow response (line
  26). Envoy looks at the domain first (`EnvoyDecision`). The middleware that
  decodes the token is layered over unknown routes and methods as well, so such a
  request with a token that does not decode gets 400 rather than 404 or 405.
* `X-Real-IP` is looked at only if `X-Forwarded-For` is absent: one that does not
  parse is an error, not a reason to look further (`Identifier`).
* `REDIS_PORT` is ignored if `REDIS_HOST` is not set (`RedisAddress`).
* A `cleanup.interval` of zero passes validation and kills the cleanup task
  (`CleanupBegins`); SIGTERM then never ends the process.
* A signal before `shutdown_signal` is polled for the first time ends the process
  at once (`Kill`); so does one with `cleanup.enabled` off.
* A count above `u32::MAX` is an error for Envoy after its token was spent
  (`EnvoyConsumed`).
* A lease under way when the cleanup task reads the map is not returned
  (`Install` after `ReceiveShutdown`).

## 6. Not modelled

* Logging, metrics of the tests, manifests, load tests, test fixtures.
* Texts as such: JSON, JWT, protocol buffers, the grammar of addresses.
* The marshalling of keys and arguments by the Redis client wrapper, and its
  reconnects, which callers see as errors or delays.
* The closing of the broadcast channel and its overflow: it holds more commands
  than are ever sent.
* Redis losing keys, which the repository's README excludes from its claims.
* Numbers beyond 2^53, which Lua would round.
* Orders of memory: atomics are sequentially consistent here.

## 7. Plan

Done: the store and its ledger, the server, the adapters and the service, their
runs, and the theorems of section 4, which leave liveness alone to the runs. Next,
in this order:

1. `Domain`: that a host is split in the same place whichever of port and
   brackets it has.
2. How many requests a window can admit with no token (`over_admission`): a bound
   on `free` by the requests that were between `check` and `consume`.
