-------------------------------- MODULE Store --------------------------------
(***************************************************************************)
(* The store of every instance (crates/core/src/store.rs) in front of one  *)
(* Redis: requests that consume a token, the single flight that leases     *)
(* more, the cleanup task, and its return of tokens on shutdown.           *)
(*                                                                         *)
(* A request is a tokio task.  Between two of its steps other tasks, the   *)
(* cleanup task, other instances, Redis and the clock may move.  A step is *)
(* the code that runs under one lock of a map shard, or one command of     *)
(* Redis.                                                                  *)
(***************************************************************************)
EXTENDS Bucket, Cache, Total

CONSTANTS
    Instances,      \* processes that share the Redis
    Requests,       \* request slots: each serves one request after another
    Home,           \* Home[r]: the instance slot `r` belongs to
    NoOne,          \* no flight
    Dead,           \* a Notify that nobody will fire (again)
    CleanupEnabled, \* cleanup.enabled: Store::new got a shutdown channel
    Interval,       \* cleanup.interval, which may be 0
    Failures,       \* the instances whose commands may fail, executed or not
    Disconnects,    \* a client may drop its connection
    Crashes,        \* the instances that may be killed
    Terminations,   \* the instances that may be told to stop (SIGTERM)
    MaxLag,         \* bound: ticks a task is preempted between two clock
                    \* reads of one lease
    SpentCap,       \* bound: tokens counted as spent in time per window
    LateCap,        \* bound: tokens counted as spent late per window
    FreeCap         \* bound: tokenless admissions counted per window

ASSUME StoreAssumption ==
    /\ IsFiniteSet(Instances) /\ IsFiniteSet(Requests)
    /\ Instances \cap Requests = {}
    /\ Home \in [Requests -> Instances]
    /\ NoOne \notin Requests /\ Dead \notin Requests /\ NoOne # Dead
    /\ {CleanupEnabled, Disconnects} \subseteq BOOLEAN
    /\ Failures \subseteq Instances /\ Crashes \subseteq Instances
    /\ Terminations \subseteq Instances
    /\ Terminations # {} => CleanupEnabled
    /\ Interval \in Nat
    /\ {MaxLag, SpentCap, LateCap, FreeCap} \subseteq Nat

VARIABLES
    buckets,    \* buckets[i][b]: the bucket of instance `i` for `b`
    refills,    \* refills[i][b]: the leader of the flight, Dead if it is gone
    pc,         \* pc[r]: where request `r` is
    id,         \* id[r]: the bucket id of the current or last request
    call,       \* call[r]: the lease `r` is making
    notify,     \* notify[r]: the leader whose Notify `r` holds
    result,     \* result[r]: how the lease of `r` ended, until the flight does
    cleanup,    \* cleanup[i]: where the cleanup task is
    doomed,     \* doomed[i]: ids the cleanup task is removing
    returning,  \* returning[i][b]: the bucket whose tokens are being returned
    stopping,   \* stopping[i]: Command::Shutdown was sent
    accepting,  \* accepting[i]: the server takes new requests
    orphans,    \* ids with a lease command on the wire nobody waits for
    adrift,     \* adrift[b][w]: tokens of window `w` in releases on the wire
                \* nobody waits for
    spent,      \* history, spent[b][w]: tokens of window `w` consumed
    late,       \* history, late[b][w]: those an instance consumed after its
                \* cleanup task had read the buckets for return
    free,       \* history, free[b][w]: requests admitted with no token
    refunded    \* history, pairs <<b, w>>: window `w` of `b` got tokens back

requestVars == <<pc, id, call, notify, result>>
cleanupVars == <<cleanup, doomed, returning>>
serverVars == <<stopping, accepting>>
history == <<spent, late, free, refunded>>
vars == <<now, keys, buckets, refills, requestVars, cleanupVars, serverVars,
          orphans, adrift, history>>

-----------------------------------------------------------------------------
(***************************************************************************)
(* Types.                                                                  *)
(***************************************************************************)
Flight == Requests \cup {NoOne, Dead}

\* `at` is the clock reading the lease was last timed from: `started`, and
\* once the reply is in, the reading that `ttl` was reduced by.
Call == [at : 0 .. MaxTime, leased : Nat, ttl : Nat, window : Windows]
Started(t) == [at |-> t, leased |-> 0, ttl |-> 0, window |-> 0]
NoCall == [at |-> 0, leased |-> 0, ttl |-> 0, window |-> 0]

\* The Result<()> of Store::lease: store::Error::Exhausted says how long the
\* client should wait.
Result == [kind : {"ok", "exhausted", "error"}, wait : Nat]
Success == [kind |-> "ok", wait |-> 0]
Exhausted(d) == [kind |-> "exhausted", wait |-> d]
CacheError == [kind |-> "error", wait |-> 0]

Leading == {"calling", "replied", "install", "release"}

Steps == Leading \cup
    {"idle", "check", "entry", "cloned", "waiting", "consume", "evict"}

TypeOK ==
    /\ CacheTypeOK
    /\ buckets \in [Instances -> [Ids -> Bucket \cup {NoBucket}]]
    /\ refills \in [Instances -> [Ids -> Flight]]
    /\ pc \in [Requests -> Steps]
    /\ id \in [Requests -> Ids]
    /\ call \in [Requests -> Call]
    /\ notify \in [Requests -> Flight]
    /\ result \in [Requests -> Result]
    /\ cleanup \in
         [Instances -> {"off", "dead", "select", "removing", "releasing",
                        "done"}]
    /\ doomed \in [Instances -> SUBSET Ids]
    /\ returning \in [Instances -> [Ids -> Bucket \cup {NoBucket}]]
    /\ stopping \in [Instances -> BOOLEAN]
    /\ accepting \in [Instances -> BOOLEAN]
    /\ orphans \in SUBSET Ids
    /\ adrift \in [Ids -> [Windows -> Nat]]
    /\ spent \in [Ids -> [Windows -> Nat]]
    /\ late \in [Ids -> [Windows -> Nat]]
    /\ free \in [Ids -> [Windows -> Nat]]
    /\ refunded \in SUBSET (Ids \X Windows)

EmptyMap == [b \in Ids |-> NoBucket]

TokensIn(bk, w) == IF bk # NoBucket /\ bk.window = w THEN bk.tokens ELSE 0

\* tokio::time::interval panics on a period of zero: the task is gone, and
\* nobody looks at its JoinHandle.
CleanupStart ==
    IF ~CleanupEnabled THEN "off"
    ELSE IF Interval = 0 THEN "dead" ELSE "select"

Init ==
    /\ CacheInit
    /\ buckets = [i \in Instances |-> EmptyMap]
    /\ refills = [i \in Instances |-> [b \in Ids |-> NoOne]]
    /\ pc = [r \in Requests |-> "idle"]
    /\ id \in [Requests -> Ids]
    /\ call = [r \in Requests |-> NoCall]
    /\ notify = [r \in Requests |-> NoOne]
    /\ result = [r \in Requests |-> Success]
    /\ cleanup = [i \in Instances |-> CleanupStart]
    /\ doomed = [i \in Instances |-> {}]
    /\ returning = [i \in Instances |-> EmptyMap]
    /\ stopping = [i \in Instances |-> FALSE]
    /\ accepting = [i \in Instances |-> TRUE]
    /\ orphans = {}
    /\ adrift = [b \in Ids |-> [w \in Windows |-> 0]]
    /\ spent = [b \in Ids |-> [w \in Windows |-> 0]]
    /\ late = [b \in Ids |-> [w \in Windows |-> 0]]
    /\ free = [b \in Ids |-> [w \in Windows |-> 0]]
    /\ refunded = {}

-----------------------------------------------------------------------------
(***************************************************************************)
(* Store::consume, as the steps of request `r` on instance Home[r].        *)
(***************************************************************************)
Goto(r, step) == pc' = [pc EXCEPT ![r] = step]

Ends(r, res) == result' = [result EXCEPT ![r] = res]

SetBucket(i, b, bk) == buckets' = [buckets EXCEPT ![i][b] = bk]

Mine(r) == buckets[Home[r]][id[r]]

\* A request for `b` reaches the instance.
Arrive(r, b) ==
    /\ pc[r] = "idle"
    /\ accepting[Home[r]]
    /\ id' = [id EXCEPT ![r] = b]
    /\ Goto(r, "check")
    /\ UNCHANGED <<now, keys, buckets, refills, call, notify, result,
                   cleanupVars, serverVars, orphans, adrift, history>>

(***************************************************************************)
(* Store::check: exhausted is tested first, then empty, then expired.      *)
(***************************************************************************)
Denies(bk) == bk # NoBucket /\ bk.exhausted

Serves(bk) ==
    bk # NoBucket /\ ~bk.exhausted /\ ~IsEmpty(bk) /\ ~IsExpired(bk, now)

CheckDenied(r) ==
    /\ pc[r] = "check"
    /\ Denies(Mine(r))
    /\ Goto(r, "idle")
    /\ UNCHANGED <<now, keys, buckets, refills, id, call, notify, result,
                   cleanupVars, serverVars, orphans, adrift, history>>

CheckServed(r) ==
    /\ pc[r] = "check"
    /\ Serves(Mine(r))
    /\ Goto(r, "consume")
    /\ UNCHANGED <<now, keys, buckets, refills, id, call, notify, result,
                   cleanupVars, serverVars, orphans, adrift, history>>

CheckMissing(r) ==
    /\ pc[r] = "check"
    /\ ~Denies(Mine(r)) /\ ~Serves(Mine(r))
    /\ Goto(r, "entry")
    /\ UNCHANGED <<now, keys, buckets, refills, id, call, notify, result,
                   cleanupVars, serverVars, orphans, adrift, history>>

(***************************************************************************)
(* ensure_refilled: the vacant entry makes `r` the leader, which sends the *)
(* lease; the occupied one hands `r` the Notify of the leader.             *)
(***************************************************************************)
\* A bug: the flight is taken over from whoever has it.
VacantAlways(i, b) == TRUE

Vacant(i, b) == refills[i][b] = NoOne

TakeFlight(r) ==
    /\ pc[r] = "entry"
    /\ Vacant(Home[r], id[r])
    /\ refills' = [refills EXCEPT ![Home[r]][id[r]] = r]
    /\ call' = [call EXCEPT ![r] = Started(now)]
    /\ Goto(r, "calling")
    /\ UNCHANGED <<now, keys, buckets, id, notify, result, cleanupVars,
                   serverVars, orphans, adrift, history>>

JoinFlight(r) ==
    /\ pc[r] = "entry"
    /\ ~Vacant(Home[r], id[r])
    /\ notify' = [notify EXCEPT ![r] = refills[Home[r]][id[r]]]
    /\ Goto(r, "cloned")
    /\ UNCHANGED <<now, keys, buckets, refills, id, call, result, cleanupVars,
                   serverVars, orphans, adrift, history>>

\* notified() is created: from here on notify_waiters() reaches `r`.
Register(r) ==
    /\ pc[r] = "cloned"
    /\ Goto(r, "waiting")
    /\ UNCHANGED <<now, keys, buckets, refills, id, call, notify, result,
                   cleanupVars, serverVars, orphans, adrift, history>>

(***************************************************************************)
(* cache::lease: Redis runs the script, the reply comes back, the task     *)
(* takes it up.                                                            *)
(***************************************************************************)
LeaseExec(r) ==
    LET b == id[r]
        key == KeyAfterLease(b)
    IN
    /\ pc[r] = "calling"
    /\ ~LeaseRefused(b)
    /\ keys' = [keys EXCEPT ![b] = key]
    /\ call' = [call EXCEPT ![r] =
                  [at |-> call[r].at, leased |-> Leased(b),
                   ttl |-> key.window - now, window |-> key.window]]
    /\ Goto(r, "replied")
    /\ UNCHANGED <<now, buckets, refills, id, notify, result, cleanupVars,
                   serverVars, orphans, adrift, history>>

\* A bug: the round trip is not taken off the PTTL.
TimeLeftFromReply(c) == c.ttl

\* Duration::from_millis(pttl).saturating_sub(started.elapsed())
TimeLeftFromStart(c) == IF c.ttl <= now - c.at THEN 0 ELSE c.ttl - (now - c.at)

LeaseReply(r) ==
    /\ pc[r] = "replied"
    /\ call' = [call EXCEPT ![r] =
                  [at |-> now, leased |-> call[r].leased,
                   ttl |-> TimeLeftFromStart(call[r]),
                   window |-> call[r].window]]
    /\ Goto(r, "install")
    /\ UNCHANGED <<now, keys, buckets, refills, id, notify, result,
                   cleanupVars, serverVars, orphans, adrift, history>>

\* A command that was sent and never answered may still reach Redis later.
MayStillArrive(S) == \E T \in SUBSET S : orphans' = orphans \cup T

\* A bug: the error is returned from the lease with `?`.
AfterErrorEarly == "idle"

\* The flight is released whatever the lease came to.
AfterError == "release"

\* The connection or the script fails, before or after Redis ran it.
LeaseFails(r) ==
    /\ \/ /\ pc[r] = "calling"
          /\ Home[r] \in Failures
          /\ MayStillArrive({id[r]})
       \/ /\ pc[r] = "calling"
          /\ LeaseRefused(id[r])
          /\ UNCHANGED orphans
       \/ /\ pc[r] = "replied"
          /\ Home[r] \in Failures
          /\ UNCHANGED orphans
    /\ call' = [call EXCEPT ![r] = NoCall]
    /\ Ends(r, CacheError)
    /\ Goto(r, AfterError)
    /\ UNCHANGED <<now, keys, buckets, refills, id, notify, cleanupVars,
                   serverVars, adrift, history>>

\* Store::lease with tokens: the bucket is inserted over any other.
Install(r) ==
    /\ pc[r] = "install"
    /\ call[r].leased > 0
    /\ SetBucket(Home[r], id[r],
                 NewBucket(call[r].leased, call[r].ttl, call[r].window, now))
    /\ call' = [call EXCEPT ![r] = NoCall]
    /\ Goto(r, "release")
    /\ UNCHANGED <<now, keys, refills, id, notify, result, cleanupVars,
                   serverVars, orphans, adrift, history>>

\* Store::lease with nothing leased: whatever bucket is there is marked.
MarkExhausted(r) ==
    /\ pc[r] = "install"
    /\ call[r].leased = 0
    /\ \/ /\ Mine(r) # NoBucket
          /\ SetBucket(Home[r], id[r], [Mine(r) EXCEPT !.exhausted = TRUE])
          /\ Ends(r, Exhausted(TimeLeft(Mine(r), now)))
       \/ /\ Mine(r) = NoBucket
          /\ Ends(r, Exhausted(call[r].ttl))
          /\ UNCHANGED buckets
    /\ call' = [call EXCEPT ![r] = NoCall]
    /\ Goto(r, "release")
    /\ UNCHANGED <<now, keys, refills, id, notify, cleanupVars, serverVars,
                   orphans, adrift, history>>

\* A bug: the Notify is kept for the next flight, and whoever has cloned it and
\* does not wait yet stays with it.
FollowersWaiting(r) == {q \in Requests : notify[q] = r /\ pc[q] = "waiting"}

\* Whoever holds a clone of the Notify of `r`.
Followers(r) == {q \in Requests : notify[q] = r}

\* A bug: the entry is removed and nobody is notified.
WokenNone(r) == {}

\* notify_waiters() reaches those that wait, and stores no permit.
Woken(r) == {q \in Followers(r) : pc[q] = "waiting"}

\* refills.remove(b_id), notify_waiters(), and the result of the lease.
ReleaseFlight(r) ==
    /\ pc[r] = "release"
    /\ refills' = [refills EXCEPT ![Home[r]][id[r]] = NoOne]
    /\ notify' = [q \in Requests |->
                    IF q \in Woken(r) THEN NoOne
                    ELSE IF q \in Followers(r) THEN Dead
                    ELSE notify[q]]
    /\ pc' = [q \in Requests |->
                IF q = r
                THEN (IF result[r] = Success THEN "consume" ELSE "idle")
                ELSE IF q \in Woken(r) THEN "check"
                ELSE pc[q]]
    /\ Ends(r, Success)
    /\ UNCHANGED <<now, keys, buckets, id, call, cleanupVars, serverVars,
                   orphans, adrift, history>>

-----------------------------------------------------------------------------
(***************************************************************************)
(* The rest of Store::consume, which looks the bucket up once more.        *)
(*                                                                         *)
(* The histories count what a window admitted, up to their bounds.         *)
(***************************************************************************)
OneMore(count, cap, b, w) ==
    [count EXCEPT ![b][w] = IF @ < cap THEN @ + 1 ELSE @]

\* The cleanup task of `i` has read the buckets it returns.
HasRead(i) == cleanup[i] \in {"releasing", "done"}

CountSpent(i, b, w) ==
    \/ HasRead(i) /\ late' = OneMore(late, LateCap, b, w) /\ UNCHANGED spent
    \/ ~HasRead(i) /\ spent' = OneMore(spent, SpentCap, b, w) /\ UNCHANGED late

CountFree(b) ==
    free' = IF Alive(b)
            THEN [free EXCEPT ![b][keys[b].window] =
                                 IF @ < FreeCap THEN @ + 1 ELSE @]
            ELSE free

\* A bug: the tokens are read and written back in two steps, and a token
\* that another task takes in between is taken twice.
BucketAfterLostUpdate(bk) == bk

BucketAfterConsume(bk) == [bk EXCEPT !.tokens = AfterConsume(bk)]

\* The bucket is there and has a token.
ConsumeToken(r) ==
    LET bk == Mine(r) IN
    /\ pc[r] = "consume"
    /\ bk # NoBucket /\ ~IsExpired(bk, now) /\ ~IsEmpty(bk)
    /\ SetBucket(Home[r], id[r], BucketAfterConsume(bk))
    /\ Goto(r, "idle")
    /\ CountSpent(Home[r], id[r], bk.window)
    /\ UNCHANGED <<now, keys, refills, id, call, notify, result, cleanupVars,
                   serverVars, orphans, adrift, free, refunded>>

\* It is there and empty, or it is gone: Ok(0) either way.
ConsumeNothing(r) ==
    LET bk == Mine(r) IN
    /\ pc[r] = "consume"
    /\ \/ bk = NoBucket
       \/ bk # NoBucket /\ ~IsExpired(bk, now) /\ IsEmpty(bk)
    /\ Goto(r, "idle")
    /\ CountFree(id[r])
    /\ UNCHANGED <<now, keys, buckets, refills, id, call, notify, result,
                   cleanupVars, serverVars, orphans, adrift, spent, late,
                   refunded>>

\* It has expired: the guard is dropped before the bucket is removed.
ConsumeExpired(r) ==
    /\ pc[r] = "consume"
    /\ Mine(r) # NoBucket /\ IsExpired(Mine(r), now)
    /\ Goto(r, "evict")
    /\ UNCHANGED <<now, keys, buckets, refills, id, call, notify, result,
                   cleanupVars, serverVars, orphans, adrift, history>>

\* Whatever is there now goes, and the request is admitted.
Evict(r) ==
    /\ pc[r] = "evict"
    /\ SetBucket(Home[r], id[r], NoBucket)
    /\ Goto(r, "idle")
    /\ CountFree(id[r])
    /\ UNCHANGED <<now, keys, refills, id, call, notify, result, cleanupVars,
                   serverVars, orphans, adrift, spent, late, refunded>>

-----------------------------------------------------------------------------
(***************************************************************************)
(* The client drops its connection while the task awaits: the future is    *)
(* dropped where it stands, and nothing after the await runs.              *)
(***************************************************************************)
DisconnectFollower(r) ==
    /\ Disconnects
    /\ pc[r] = "waiting"
    /\ notify' = [notify EXCEPT ![r] = NoOne]
    /\ Goto(r, "idle")
    /\ UNCHANGED <<now, keys, buckets, refills, id, call, result, cleanupVars,
                   serverVars, orphans, adrift, history>>

\* The entry of the flight stays in the map.
DisconnectLeader(r) ==
    /\ Disconnects
    /\ \/ pc[r] = "calling" /\ MayStillArrive({id[r]})
       \/ pc[r] = "replied" /\ UNCHANGED orphans
    /\ refills' = [refills EXCEPT ![Home[r]][id[r]] = Dead]
    /\ notify' = [q \in Requests |->
                    IF q \in Followers(r) THEN Dead ELSE notify[q]]
    /\ call' = [call EXCEPT ![r] = NoCall]
    /\ Goto(r, "idle")
    /\ UNCHANGED <<now, keys, buckets, id, result, cleanupVars, serverVars,
                   adrift, history>>

\* Redis runs a lease whose caller is gone: the tokens are nobody's.
OrphanExec(b) ==
    /\ b \in orphans
    /\ orphans' = orphans \ {b}
    /\ keys' = IF LeaseRefused(b) THEN keys
               ELSE [keys EXCEPT ![b] = KeyAfterLease(b)]
    /\ UNCHANGED <<now, buckets, refills, requestVars, cleanupVars, serverVars,
                   adrift, history>>

-----------------------------------------------------------------------------
(***************************************************************************)
(* The cleanup task of instance `i`.  The interval tick may come at any    *)
(* time.  The ids of one tick are removed, and the tokens of one shutdown  *)
(* returned, in any order: chunks run concurrently.                        *)
(***************************************************************************)
Held(i) == {b \in Ids : buckets[i][b] # NoBucket}

\* A bug: buckets that ran empty are left.
ExpiredWithTokens(i) ==
    {b \in Held(i) : IsExpired(buckets[i][b], now) /\ ~IsEmpty(buckets[i][b])}

ExpiredIds(i) == {b \in Held(i) : IsExpired(buckets[i][b], now)}

CleanupTick(i) ==
    /\ cleanup[i] = "select"
    /\ ExpiredIds(i) # {}
    /\ doomed' = [doomed EXCEPT ![i] = ExpiredIds(i)]
    /\ cleanup' = [cleanup EXCEPT ![i] = "removing"]
    /\ UNCHANGED <<now, keys, buckets, refills, requestVars, returning,
                   serverVars, orphans, adrift, history>>

\* buckets.remove(&key): the bucket may be another than the one seen expired.
CleanupRemove(i, b) ==
    /\ cleanup[i] = "removing"
    /\ b \in doomed[i]
    /\ SetBucket(i, b, NoBucket)
    /\ doomed' = [doomed EXCEPT ![i] = @ \ {b}]
    /\ cleanup' = [cleanup EXCEPT ![i] =
                     IF doomed[i] = {b} THEN "select" ELSE "removing"]
    /\ UNCHANGED <<now, keys, refills, requestVars, returning, serverVars,
                   orphans, adrift, history>>

Returnable(i) ==
    {b \in Held(i) :
        ~IsEmpty(buckets[i][b]) /\ ~IsExpired(buckets[i][b], now)}

\* A bug: `continue` where the loop must break.
AfterSnapshotNone(i) == IF Returnable(i) = {} THEN "select" ELSE "releasing"

AfterSnapshot(i) == IF Returnable(i) = {} THEN "done" ELSE "releasing"

\* Command::Shutdown: what is to be returned is read off the live buckets.
ReceiveShutdown(i) ==
    /\ cleanup[i] = "select"
    /\ stopping[i]
    /\ returning' = [returning EXCEPT ![i] =
                       [b \in Ids |-> IF b \in Returnable(i)
                                      THEN buckets[i][b] ELSE NoBucket]]
    /\ cleanup' = [cleanup EXCEPT ![i] = AfterSnapshot(i)]
    /\ UNCHANGED <<now, keys, buckets, refills, requestVars, doomed,
                   serverVars, orphans, adrift, history>>

ToReturn(i) == {b \in Ids : returning[i][b] # NoBucket}

Returned(i, b) ==
    /\ returning' = [returning EXCEPT ![i][b] = NoBucket]
    /\ cleanup' = [cleanup EXCEPT ![i] =
                     IF ToReturn(i) = {b} THEN "done" ELSE "releasing"]

\* Redis runs the release of `n` tokens of window `w`.
Refund(b, n, w) ==
    /\ keys' = [keys EXCEPT ![b] = KeyAfterRelease(b, n, w)]
    /\ refunded' = IF keys' = keys THEN refunded ELSE refunded \cup {<<b, w>>}

\* cache::release runs in Redis.
ReturnTokens(i, b) ==
    /\ cleanup[i] = "releasing"
    /\ b \in ToReturn(i)
    /\ Refund(b, returning[i][b].tokens, returning[i][b].window)
    /\ Returned(i, b)
    /\ UNCHANGED <<now, buckets, refills, requestVars, doomed, serverVars,
                   orphans, adrift, spent, late, free>>

\* A release that was sent and never answered may still reach Redis later.
MayStillReturn(i, S) ==
    \E T \in SUBSET S :
       adrift' = [b \in Ids |-> [w \in Windows |->
                    adrift[b][w] +
                    (IF b \in T THEN TokensIn(returning[i][b], w) ELSE 0)]]

\* cache::release fails and is logged: the next key is tried.
ReturnFails(i, b) ==
    /\ i \in Failures
    /\ cleanup[i] = "releasing"
    /\ b \in ToReturn(i)
    /\ MayStillReturn(i, {b})
    /\ Returned(i, b)
    /\ UNCHANGED <<now, keys, buckets, refills, requestVars, doomed,
                   serverVars, orphans, history>>

\* Redis runs a release whose caller is gone.  Only the sum of such releases
\* is kept, so it may come in parts, which is more than the code does.
LateReturn(b, w) ==
    \E n \in 1 .. adrift[b][w] :
       /\ adrift' = [adrift EXCEPT ![b][w] = @ - n]
       /\ Refund(b, n, w)
       /\ UNCHANGED <<now, buckets, refills, requestVars, cleanupVars,
                      serverVars, orphans, spent, late, free>>

-----------------------------------------------------------------------------
(***************************************************************************)
(* The life of instance `i`.                                               *)
(***************************************************************************)
RequestsOf(i) == {r \in Requests : Home[r] = i}

\* SIGTERM: shutdown_signal sends Command::Shutdown and waits for the cleanup
\* task while the server goes on serving.
Terminate(i) ==
    /\ i \in Terminations
    /\ ~stopping[i]
    /\ stopping' = [stopping EXCEPT ![i] = TRUE]
    /\ UNCHANGED <<now, keys, buckets, refills, requestVars, cleanupVars,
                   accepting, orphans, adrift, history>>

\* A bug: the server does not wait for the cleanup task.
SignalOverWhenTold(i) == CleanupEnabled => stopping[i]

\* shutdown_signal ends on CleanupComplete, or at once if it got no channel.
SignalOver(i) == CleanupEnabled => stopping[i] /\ cleanup[i] = "done"

\* The graceful shutdown of the server begins.
Drain(i) ==
    /\ accepting[i]
    /\ SignalOver(i)
    /\ accepting' = [accepting EXCEPT ![i] = FALSE]
    /\ UNCHANGED <<now, keys, buckets, refills, requestVars, cleanupVars,
                   stopping, orphans, adrift, history>>

\* The process is gone, with its memory, and another takes its place.
Restart(i) ==
    /\ buckets' = [buckets EXCEPT ![i] = EmptyMap]
    /\ refills' = [refills EXCEPT ![i] = [b \in Ids |-> NoOne]]
    /\ cleanup' = [cleanup EXCEPT ![i] = CleanupStart]
    /\ doomed' = [doomed EXCEPT ![i] = {}]
    /\ returning' = [returning EXCEPT ![i] = EmptyMap]
    /\ stopping' = [stopping EXCEPT ![i] = FALSE]
    /\ accepting' = [accepting EXCEPT ![i] = TRUE]

\* Every request in flight is answered and main returns.
Exit(i) ==
    /\ ~accepting[i]
    /\ \A r \in RequestsOf(i) : pc[r] = "idle"
    /\ Restart(i)
    /\ UNCHANGED <<now, keys, requestVars, orphans, adrift, history>>

Crash(i) ==
    /\ i \in Crashes
    /\ MayStillArrive({id[r] : r \in {q \in RequestsOf(i) :
                                         pc[q] = "calling"}})
    /\ MayStillReturn(i, ToReturn(i))
    /\ Restart(i)
    /\ pc' = [r \in Requests |-> IF Home[r] = i THEN "idle" ELSE pc[r]]
    /\ call' = [r \in Requests |-> IF Home[r] = i THEN NoCall ELSE call[r]]
    /\ notify' = [r \in Requests |-> IF Home[r] = i THEN NoOne ELSE notify[r]]
    /\ result' = [r \in Requests |->
                    IF Home[r] = i THEN Success ELSE result[r]]
    /\ UNCHANGED <<now, keys, id, history>>

\* A task that has a reply in hand is not preempted beyond MaxLag.
Tick ==
    /\ \A r \in Requests : pc[r] = "install" => now < call[r].at + MaxLag
    /\ Advance
    /\ UNCHANGED <<buckets, refills, requestVars, cleanupVars, serverVars,
                   orphans, adrift, history>>

-----------------------------------------------------------------------------
Serve(r) ==
    \/ CheckDenied(r) \/ CheckServed(r) \/ CheckMissing(r)
    \/ TakeFlight(r) \/ JoinFlight(r) \/ Register(r)
    \/ LeaseReply(r) \/ Install(r) \/ MarkExhausted(r) \/ ReleaseFlight(r)
    \/ ConsumeToken(r) \/ ConsumeNothing(r) \/ ConsumeExpired(r) \/ Evict(r)

Answered(r) == LeaseExec(r) \/ LeaseFails(r)

Clean(i) ==
    \/ CleanupTick(i) \/ \E b \in Ids : CleanupRemove(i, b)
    \/ ReceiveShutdown(i)
    \/ \E b \in Ids : ReturnTokens(i, b) \/ ReturnFails(i, b)

Next ==
    \/ \E r \in Requests :
          \/ \E b \in Ids : Arrive(r, b)
          \/ Serve(r) \/ Answered(r)
          \/ DisconnectFollower(r) \/ DisconnectLeader(r)
    \/ \E i \in Instances :
          \/ Clean(i)
          \/ Terminate(i) \/ Drain(i) \/ Exit(i) \/ Crash(i)
    \/ \E b \in Ids : OrphanExec(b) \/ \E w \in Windows : LateReturn(b, w)
    \/ Tick

Spec == Init /\ [][Next]_vars

(***************************************************************************)
(* Tasks that can run are run, a command is answered or fails, and the     *)
(* interval ticks again and again.  Nobody promises that clients come or   *)
(* go, that instances stop or crash, that a late command arrives, or that  *)
(* time passes; nothing rests on the drain of a server being prompt.       *)
(***************************************************************************)
FairSpec ==
    /\ Spec
    /\ \A r \in Requests : WF_vars(Serve(r) \/ Answered(r))
    /\ \A i \in Instances : WF_vars(Clean(i))

-----------------------------------------------------------------------------
(***************************************************************************)
(* Properties.                                                             *)
(*                                                                         *)
(* Where the tokens of window `w` of `b` are: still in Redis, in a reply   *)
(* on its way to a leader, or in the bucket of an instance.                *)
(***************************************************************************)
Remaining(b, w) == IF keys[b].window = w THEN keys[b].tokens ELSE 0

TokensOf(c, w) == IF c.window = w THEN c.leased ELSE 0

Carried(r, b, w) == IF id[r] = b THEN TokensOf(call[r], w) ELSE 0

Holdings(b, w) ==
    [h \in Instances \cup Requests |->
        IF h \in Instances THEN TokensIn(buckets[h][b], w)
        ELSE Carried(h, b, w)]

\* Every token of window `w` that was consumed.
AllSpent(b, w) == spent[b][w] + late[b][w]

\* A window never hands out more than its quota unless tokens were returned to
\* it: what was consumed, what instances and replies hold and what Redis still
\* has add up to the quota at most, over every instance, however leases,
\* failures, crashes, evictions and shutdowns interleave.  Store::lease and
\* Store::consume move tokens between the four places and must not copy them.
TokensConserved ==
    \A b \in Ids, w \in Windows :
        <<b, w>> \notin refunded =>
            AllSpent(b, w) + Total(Holdings(b, w)) + Remaining(b, w)
                <= Quota(b)

\* The buckets the cleanup task of `i` has not read yet count as held; from
\* then on what it took down for return does.
Owed(i, b, w) ==
    IF HasRead(i)
    THEN TokensIn(returning[i][b], w) ELSE TokensIn(buckets[i][b], w)

Claims(b, w) ==
    [h \in Instances \cup Requests |->
        IF h \in Instances THEN Owed(h, b, w) ELSE Carried(h, b, w)]

\* The tokens somebody may still spend or return, the sender of the release
\* being there or not.
Claimed(b, w) == Total(Claims(b, w)) + adrift[b][w]

\* The return of tokens never gives a window more than it lost: with what was
\* spent in time and what is held or about to be returned, the counter stays
\* within the quota, whatever window is open when cache::release reaches Redis
\* and whether or not its caller, or the instance, is still there.
\* All that a window hands out beyond its quota is consumed by instances whose
\* cleanup task has read their buckets.  A return that came twice, to another
\* window, or of a token consumed before it was read would break it.
ReturnsBounded ==
    \A b \in Ids, w \in Windows :
        spent[b][w] + Claimed(b, w) + Remaining(b, w) <= Quota(b)

\* One flight per key and instance: the map of refills names the request that
\* is between taking the entry and removing it, and no other request is.
\* refills.remove(b_id) is by key, so the entry it removes must be its own.
SingleFlight ==
    \A i \in Instances, b \in Ids, r \in Requests :
        refills[i][b] = r
            <=> Home[r] = i /\ id[r] = b /\ pc[r] \in Leading

\* A request that holds the Notify of a live flight waits for that very key:
\* its leader, when it is done, wakes it for the lease it asked for.
FollowersMatch ==
    \A r \in Requests :
        notify[r] \in Requests =>
            /\ pc[r] \in {"cloned", "waiting"}
            /\ refills[Home[r]][id[r]] = notify[r]

\* A local bucket outlives the window of Redis its tokens came from by the time
\* the task was preempted in Bucket::new (MaxLag) at most, however long the
\* reply took and whatever became of the key.  A reply later than the window
\* makes a bucket that has expired when it is inserted.  That a bucket never
\* outlives its window, as the README and a comment of cache::lease have it,
\* holds if MaxLag is 0 and not otherwise: Bucket::new reads the clock again.
WithinWindow ==
    \A i \in Instances, b \in Ids :
        LET bk == buckets[i][b] IN
        bk # NoBucket =>
            bk.expires_at <= bk.window + MaxLag \/ IsExpired(bk, now)

\* Buckets never go back to an earlier window: an instance that got tokens
\* of a window does not replace them by tokens of one before it, though
\* replies, evictions and cleanups come in any order.
WindowsAdvance ==
    [][\A i \in Instances, b \in Ids :
          buckets[i][b] # NoBucket /\ buckets'[i][b] # NoBucket
              => buckets'[i][b].window >= buckets[i][b].window]_buckets

\* A bucket marked exhausted in the open window tells the truth about Redis
\* unless tokens were returned to the window: Redis has none of it left, so no
\* lease before the reset would be granted.  It says nothing of the tokens the
\* bucket itself may hold (HoldersServe).
ExhaustedIsTrue ==
    \A i \in Instances, b \in Ids :
        LET bk == buckets[i][b] IN
        Denies(bk) /\ Alive(b) /\ keys[b].window = bk.window
            => keys[b].tokens = 0 \/ <<b, bk.window>> \in refunded

\* `r` is denied and told to wait `d`: by Store::check, or by its own lease.
Denied(r, d) ==
    \/ CheckDenied(r) /\ d = TimeLeft(Mine(r), now)
    \/ MarkExhausted(r) /\ result'[r] = Exhausted(d)

\* A denial that gives a time to wait gives one within the open window: the
\* client is not sent away beyond the reset, but by the time the task was
\* preempted, and by less than that when the window is already over.  The time
\* comes from the bucket or from the PTTL of a reply, both of which may be old
\* when it is given.
RetryWithinWindow ==
    [][\A r \in Requests, d \in Windows \ {0} :
          Denied(r, d) =>
             /\ Alive(id[r]) => now + d <= keys[id[r]].window + MaxLag
             /\ ~Alive(id[r]) => d < MaxLag]_vars

(***************************************************************************)
(* The ledger, as Store keeps it: what is held are the claims, and spent   *)
(* is what was consumed in time.                                           *)
(***************************************************************************)
LeftIn == [b \in Ids |-> [w \in Windows |-> Remaining(b, w)]]

HeldIn == [b \in Ids |-> [w \in Windows |-> Claimed(b, w)]]

LimitOf == [b \in Ids |-> Quota(b)]

Promise == INSTANCE Ledger WITH
               Limit <- LimitOf, left <- LeftIn, held <- HeldIn

\* All instances together do to a window what one ledger allows: open it once
\* with the quota, hand out what is left, spend what is held, give it back or
\* lose it.  Every step of a request, of Redis, of the cleanup task and of a
\* crash is such a step or changes no book; so is what an instance consumes
\* once its cleanup task has read the buckets, which no book knows.
KeepsLedger == Promise!Spec

(***************************************************************************)
(* The way out of instance `i`, as its cleanup task and its server show it.*)
(***************************************************************************)
PhaseOf(i) ==
    IF ~accepting[i] THEN "stopping"
    ELSE IF ~stopping[i] THEN "up"
    ELSE IF cleanup[i] = "done" /\ ToReturn(i) = {} THEN "returned"
    ELSE "leaving"

Way == INSTANCE Lifecycle WITH
           Members <- Instances,
           returns <- CleanupEnabled, deaf <- FALSE,
           phase <- [i \in Instances |-> PhaseOf(i)],
           asked <- stopping

\* Beside requests, windows that end and a Redis that fails, every instance
\* goes the way one process goes in Server: each release the cleanup task set
\* out to make has run or failed, and one that failed may still run, before
\* the server stops; and with cleanup.enabled nobody stops unasked, handlers
\* being installed here (Server has those that are not).
InstancesStopInOrder == Way!Spec

-----------------------------------------------------------------------------
(***************************************************************************)
(* Liveness, under FairSpec.                                               *)
(***************************************************************************)

\* A flight ends: with tokens, with none, or with an error of Redis, the
\* leader removes its entry from the map of refills, whatever else the
\* instance, the other instances and the clock do meanwhile.
FlightEnds ==
    \A i \in Instances, b \in Ids :
        refills[i][b] # NoOne ~> refills[i][b] = NoOne

\* Whoever waits on the Notify of a live flight is woken: notify_waiters()
\* reaches every one of them, and none is left for a flight to come.
WaitersWoken ==
    \A r \in Requests :
        pc[r] = "waiting" /\ notify[r] \in Requests ~> pc[r] # "waiting"

Overdue(i, b) ==
    buckets[i][b] # NoBucket /\ IsExpired(buckets[i][b], now)

\* An expired bucket does not stay: a request replaces or evicts it or the
\* cleanup task drops it, until the task has left its loop for good or died of
\* an interval of zero.
ExpiredDropped ==
    \A i \in Instances, b \in Ids :
        Overdue(i, b) ~> ~Overdue(i, b) \/ cleanup[i] \in {"done", "dead"}

\* A termination request makes the cleanup task leave its loop and say so,
\* though Redis may fail and expired buckets keep it busy; shutdown_signal
\* waits for that message without a deadline.  A task that died of an interval
\* of zero never says so.
CleanupCompletes ==
    \A i \in Instances : stopping[i] ~> cleanup[i] \in {"done", "dead"}

-----------------------------------------------------------------------------
(***************************************************************************)
(* What the documentation says and the code does not do.                   *)
(***************************************************************************)

\* README: "the sum of admitted requests across all instances never exceeds
\* `quota` per window".  Admitted with a token or without one, by
\* Store::consume.
NoOverAdmission ==
    \A b \in Ids, w \in Windows : AllSpent(b, w) + free[b][w] <= Quota(b)

\* README: "Tokens leave Redis before they are spent", so no window spends
\* more than its quota; said of instances that return tokens on SIGTERM too.
SpentWithinQuota ==
    \A b \in Ids, w \in Windows : AllSpent(b, w) <= Quota(b)

\* README: "Concurrent requests for the same bucket wait on a
\* `tokio::sync::Notify`": a request that joined a flight is woken by it.
JoinersWoken ==
    \A r \in Requests :
        pc[r] = "cloned" ~> pc[r] \notin {"cloned", "waiting"}

\* README: "If the local bucket is empty or expired, one task leases more
\* tokens from Redis": a request that needs a lease gets one or an error.
\* FlightEnds is asked again where clients may leave.
RefillsGoOn ==
    \A i \in Instances, b \in Ids :
        refills[i][b] # NoOne ~> refills[i][b] = NoOne

\* README: "the full quota comes back when the Redis key expires": nobody is
\* denied by Store::check once the key is gone.
QuotaComesBack ==
    [][\A r \in Requests : CheckDenied(r) => Alive(id[r])]_vars

\* README: "If the instance holds tokens for `B`, it decrements an `AtomicU64`
\* and answers": nobody is denied by Store::check while the bucket has tokens
\* to spend.
HoldersServe ==
    [][\A r \in Requests :
          CheckDenied(r) => IsEmpty(Mine(r)) \/ IsExpired(Mine(r), now)]_vars

=============================================================================
