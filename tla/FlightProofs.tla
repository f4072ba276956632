---------------------------- MODULE FlightProofs ----------------------------
(***************************************************************************)
(* The map of refills: one flight per key and instance, and followers that *)
(* wait for the flight of their own key.  The two invariants are proved    *)
(* together: removing an entry by key is safe for the followers because    *)
(* the entry is the leader's own.  From single flights follows the order   *)
(* in which an instance sees the windows of a key.                         *)
(***************************************************************************)
EXTENDS LedgerProofs

FlightInv == SingleFlight /\ FollowersMatch

\* A flight is named by a request, and the two marks of a map without a live
\* flight are none.
LEMMA MarksAreNoRequest ==
    ASSUME NEW r \in Requests
    PROVE  r # NoOne /\ r # Dead /\ Home[r] \in Instances
  BY StoreAssumption

\* A step that leaves the map and the ids alone, moves nobody into or out of
\* the steps of a leader, and leaves whoever follows where he is.
LEMMA FlightsUntouched ==
    ASSUME TypeOK, FlightInv, UNCHANGED <<refills, id>>,
           \A r \in Requests : pc'[r] \in Leading <=> pc[r] \in Leading,
           \A r \in Requests :
              notify'[r] \in Requests =>
                 /\ notify'[r] = notify[r]
                 /\ pc'[r] \in {"cloned", "waiting"}
    PROVE  FlightInv'
  <1>1. SingleFlight'
    BY DEF FlightInv, SingleFlight
  <1>2. FollowersMatch'
    BY DEF FlightInv, FollowersMatch
  <1> QED
    BY <1>1, <1>2 DEF FlightInv

\* The steps of a request that is neither taking nor ending a flight.
LEMMA PlainSteps ==
    ASSUME TypeOK, FlightInv, NEW r \in Requests, NEW to \in Steps,
           pc' = [pc EXCEPT ![r] = to], UNCHANGED <<refills, id>>,
           pc[r] \in Leading <=> to \in Leading,
           \A q \in Requests \ {r} : notify'[q] = notify[q],
           \/ notify'[r] \notin Requests
           \/ notify'[r] = notify[r] /\ to \in {"cloned", "waiting"}
           \/ notify'[r] = notify[r] /\ pc[r] \notin {"cloned", "waiting"}
    PROVE  FlightInv'
  <1>1. pc \in [Requests -> Steps]
    BY DEF TypeOK
  <1>2. \A q \in Requests : pc'[q] \in Leading <=> pc[q] \in Leading
    BY <1>1
  <1>3. \A q \in Requests :
           notify'[q] \in Requests =>
              notify'[q] = notify[q] /\ pc'[q] \in {"cloned", "waiting"}
    BY <1>1 DEF FlightInv, FollowersMatch
  <1> QED
    BY <1>2, <1>3, FlightsUntouched

\* Waiting, leasing and consuming.
LEMMA RequestKeepsFlights ==
    ASSUME TypeOK, FlightInv, NEW r \in Requests,
           \/ CheckDenied(r) \/ CheckServed(r) \/ CheckMissing(r)
           \/ Register(r) \/ LeaseExec(r) \/ LeaseReply(r) \/ LeaseFails(r)
           \/ Install(r) \/ MarkExhausted(r)
           \/ ConsumeToken(r) \/ ConsumeNothing(r) \/ ConsumeExpired(r)
           \/ Evict(r) \/ DisconnectFollower(r)
    PROVE  FlightInv'
  <1> USE MarksAreNoRequest DEF Goto, Steps, Leading
  <1>0. notify \in [Requests -> Flight]
    BY DEF TypeOK
  <1>1. CASE CheckDenied(r) \/ CheckServed(r) \/ CheckMissing(r)
    <2>1. \E to \in {"idle", "consume", "entry"} : Goto(r, to)
      BY <1>1 DEF CheckDenied, CheckServed, CheckMissing
    <2>2. pc[r] = "check" /\ UNCHANGED <<refills, id, notify>>
      BY <1>1 DEF CheckDenied, CheckServed, CheckMissing
    <2> QED
      BY <2>1, <2>2, PlainSteps
  <1>2. CASE Register(r)
    <2>1. /\ pc[r] = "cloned" /\ Goto(r, "waiting")
          /\ UNCHANGED <<refills, id, notify>>
      BY <1>2 DEF Register
    <2> QED
      BY <2>1, PlainSteps
  <1>3. CASE \/ LeaseExec(r) \/ LeaseReply(r) \/ LeaseFails(r)
             \/ Install(r) \/ MarkExhausted(r)
    <2>1. \E to \in {"replied", "install", "release"} : Goto(r, to)
      BY <1>3 DEF LeaseExec, LeaseReply, LeaseFails, Install, MarkExhausted,
                  AfterError
    <2>2. pc[r] \in Leading /\ UNCHANGED <<refills, id, notify>>
      BY <1>3 DEF LeaseExec, LeaseReply, LeaseFails, Install, MarkExhausted
    <2> QED
      BY <2>1, <2>2, PlainSteps
  <1>4. CASE \/ ConsumeToken(r) \/ ConsumeNothing(r) \/ ConsumeExpired(r)
             \/ Evict(r)
    <2>1. \E to \in {"idle", "evict"} : Goto(r, to)
      BY <1>4 DEF ConsumeToken, ConsumeNothing, ConsumeExpired, Evict
    <2>2. /\ pc[r] \in {"consume", "evict"}
          /\ UNCHANGED <<refills, id, notify>>
      BY <1>4 DEF ConsumeToken, ConsumeNothing, ConsumeExpired, Evict
    <2> QED
      BY <2>1, <2>2, PlainSteps
  <1>5. CASE DisconnectFollower(r)
    <2>1. /\ pc[r] = "waiting" /\ Goto(r, "idle")
          /\ UNCHANGED <<refills, id>>
          /\ notify' = [notify EXCEPT ![r] = NoOne]
      BY <1>5 DEF DisconnectFollower
    <2>2. /\ notify'[r] \notin Requests
          /\ \A q \in Requests \ {r} : notify'[q] = notify[q]
      BY <1>0, <2>1, StoreAssumption
    <2> QED
      BY <2>1, <2>2, PlainSteps
  <1> QED
    BY <1>1, <1>2, <1>3, <1>4, <1>5

\* A request that arrives leads nothing and follows nobody.
LEMMA ArriveKeepsFlights ==
    ASSUME TypeOK, FlightInv, NEW r \in Requests, NEW b \in Ids, Arrive(r, b)
    PROVE  FlightInv'
  <1>1. /\ pc[r] = "idle"
        /\ pc' = [pc EXCEPT ![r] = "check"]
        /\ id' = [id EXCEPT ![r] = b]
        /\ UNCHANGED <<refills, notify>>
    BY DEF Arrive, Goto
  <1>2. pc \in [Requests -> Steps] /\ id \in [Requests -> Ids]
    BY DEF TypeOK
  <1>3. SingleFlight'
    BY <1>1, <1>2 DEF FlightInv, SingleFlight, Leading
  <1>4. FollowersMatch'
    BY <1>1, <1>2 DEF FlightInv, FollowersMatch
  <1> QED
    BY <1>3, <1>4 DEF FlightInv

\* The entry a request finds vacant has no follower; the one it finds
\* occupied is the flight it follows.
LEMMA EntryKeepsFlights ==
    ASSUME TypeOK, FlightInv, NEW r \in Requests,
           TakeFlight(r) \/ JoinFlight(r)
    PROVE  FlightInv'
  <1>0. /\ pc \in [Requests -> Steps] /\ id \in [Requests -> Ids]
        /\ refills \in [Instances -> [Ids -> Flight]]
        /\ notify \in [Requests -> Flight]
        /\ Home[r] \in Instances /\ id[r] \in Ids
    BY MarksAreNoRequest DEF TypeOK
  <1>1. CASE TakeFlight(r)
    <2>1. /\ pc[r] = "entry" /\ pc' = [pc EXCEPT ![r] = "calling"]
          /\ refills[Home[r]][id[r]] = NoOne
          /\ refills' = [refills EXCEPT ![Home[r]][id[r]] = r]
          /\ UNCHANGED <<id, notify>>
      BY <1>1 DEF TakeFlight, Goto, Vacant
    <2>2. \A i \in Instances, b \in Ids :
             refills'[i][b] = IF i = Home[r] /\ b = id[r] THEN r
                              ELSE refills[i][b]
      BY <1>0, <2>1
    <2>3. \A q \in Requests : pc'[q] = IF q = r THEN "calling" ELSE pc[q]
      BY <1>0, <2>1
    <2>4. SingleFlight'
      BY <2>1, <2>2, <2>3, MarksAreNoRequest
         DEF FlightInv, SingleFlight, Leading
    <2>5. FollowersMatch'
      <3> SUFFICES ASSUME NEW q \in Requests, notify[q] \in Requests
                   PROVE  /\ pc'[q] \in {"cloned", "waiting"}
                          /\ refills'[Home[q]][id[q]] = notify[q]
        BY <2>1 DEF FollowersMatch
      <3>1. /\ pc[q] \in {"cloned", "waiting"}
            /\ refills[Home[q]][id[q]] = notify[q]
        BY DEF FlightInv, FollowersMatch
      <3>2. Home[q] \in Instances /\ id[q] \in Ids
        BY <1>0, MarksAreNoRequest
      <3>3. ~(Home[q] = Home[r] /\ id[q] = id[r])
        BY <2>1, <3>1, StoreAssumption
      <3> QED
        BY <2>1, <2>2, <2>3, <3>1, <3>2, <3>3
    <2> QED
      BY <2>4, <2>5 DEF FlightInv
  <1>2. CASE JoinFlight(r)
    <2>1. /\ pc[r] = "entry" /\ pc' = [pc EXCEPT ![r] = "cloned"]
          /\ notify' = [notify EXCEPT ![r] = refills[Home[r]][id[r]]]
          /\ UNCHANGED <<id, refills>>
      BY <1>2 DEF JoinFlight, Goto
    <2>2. SingleFlight'
      BY <1>0, <2>1 DEF FlightInv, SingleFlight, Leading
    <2>3. FollowersMatch'
      BY <1>0, <2>1 DEF FlightInv, FollowersMatch
    <2> QED
      BY <2>2, <2>3 DEF FlightInv
  <1> QED
    BY <1>1, <1>2

\* A leader ends its flight, done or disconnected: the entry is its own, and
\* nobody is left with the Notify.
LEMMA EndOfFlight ==
    ASSUME TypeOK, FlightInv, NEW r \in Requests, pc[r] \in Leading,
           NEW mark \in {NoOne, Dead},
           refills' = [refills EXCEPT ![Home[r]][id[r]] = mark],
           id' = id, pc'[r] \notin Leading,
           \A q \in Requests \ {r} :
              \/ pc'[q] = pc[q]
              \/ q \in Woken(r) /\ pc'[q] \notin Leading,
           \A q \in Requests :
              \/ notify'[q] \in {NoOne, Dead}
              \/ notify'[q] = notify[q] /\ q \notin Followers(r)
    PROVE  FlightInv'
  <1>0. /\ id \in [Requests -> Ids] /\ Home[r] \in Instances /\ id[r] \in Ids
        /\ refills \in [Instances -> [Ids -> Flight]]
    BY MarksAreNoRequest DEF TypeOK
  <1>1. \A i \in Instances, b \in Ids :
           refills'[i][b] = IF i = Home[r] /\ b = id[r] THEN mark
                            ELSE refills[i][b]
    BY <1>0
  <1>2. refills[Home[r]][id[r]] = r
    BY <1>0 DEF FlightInv, SingleFlight
  <1>3. \A q \in Requests \ {r} : pc'[q] \in Leading <=> pc[q] \in Leading
    BY DEF Woken, Leading
  <1>4. SingleFlight'
    <2> SUFFICES ASSUME NEW i \in Instances, NEW b \in Ids, NEW q \in Requests
                 PROVE  refills'[i][b] = q
                          <=> Home[q] = i /\ id[q] = b /\ pc'[q] \in Leading
      BY DEF SingleFlight
    <2>1. refills[i][b] = q
            <=> Home[q] = i /\ id[q] = b /\ pc[q] \in Leading
      BY DEF FlightInv, SingleFlight
    <2>2. mark # q
      BY MarksAreNoRequest
    <2>3. CASE i = Home[r] /\ b = id[r]
      BY <1>1, <1>2, <1>3, <2>1, <2>2, <2>3
    <2>4. CASE ~(i = Home[r] /\ b = id[r])
      BY <1>1, <1>3, <2>1, <2>4
    <2> QED
      BY <2>3, <2>4
  <1>5. FollowersMatch'
    <2> SUFFICES ASSUME NEW q \in Requests, notify'[q] \in Requests
                 PROVE  /\ pc'[q] \in {"cloned", "waiting"}
                        /\ refills'[Home[q]][id[q]] = notify'[q]
      BY DEF FollowersMatch
    <2>1. notify'[q] = notify[q] /\ notify[q] # r /\ q \notin Woken(r)
      BY MarksAreNoRequest DEF Followers, Woken
    <2>2. /\ pc[q] \in {"cloned", "waiting"}
          /\ refills[Home[q]][id[q]] = notify[q]
      BY <2>1 DEF FlightInv, FollowersMatch
    <2>3. q # r /\ pc'[q] = pc[q]
      BY <2>1, <2>2 DEF Leading
    <2>4. ~(Home[q] = Home[r] /\ id[q] = id[r])
      BY <1>2, <2>1, <2>2
    <2>5. Home[q] \in Instances /\ id[q] \in Ids
      BY <1>0, MarksAreNoRequest
    <2> QED
      BY <1>1, <2>1, <2>2, <2>3, <2>4, <2>5
  <1> QED
    BY <1>4, <1>5 DEF FlightInv

\* A flight that is released, and one whose leader leaves.
LEMMA EndKeepsFlights ==
    ASSUME TypeOK, FlightInv, NEW r \in Requests,
           ReleaseFlight(r) \/ DisconnectLeader(r)
    PROVE  FlightInv'
  <1>0. pc \in [Requests -> Steps]
    BY DEF TypeOK
  <1>1. CASE ReleaseFlight(r)
    <2>1. /\ pc[r] = "release"
          /\ refills' = [refills EXCEPT ![Home[r]][id[r]] = NoOne]
          /\ id' = id
      BY <1>1 DEF ReleaseFlight
    <2>2. /\ pc'[r] \in {"consume", "idle"}
          /\ \A q \in Requests \ {r} :
                pc'[q] = IF q \in Woken(r) THEN "check" ELSE pc[q]
      BY <1>1 DEF ReleaseFlight
    <2>3. \A q \in Requests :
             notify'[q] = IF q \in Woken(r) THEN NoOne
                          ELSE IF q \in Followers(r) THEN Dead
                          ELSE notify[q]
      BY <1>1 DEF ReleaseFlight
    <2> QED
      BY <2>1, <2>2, <2>3, EndOfFlight DEF Leading
  <1>2. CASE DisconnectLeader(r)
    <2>1. /\ pc[r] \in Leading
          /\ refills' = [refills EXCEPT ![Home[r]][id[r]] = Dead]
          /\ id' = id
          /\ pc' = [pc EXCEPT ![r] = "idle"]
      BY <1>2 DEF DisconnectLeader, Goto, Leading
    <2>2. \A q \in Requests :
             notify'[q] = IF q \in Followers(r) THEN Dead ELSE notify[q]
      BY <1>2 DEF DisconnectLeader
    <2> QED
      BY <1>0, <2>1, <2>2, EndOfFlight DEF Leading
  <1> QED
    BY <1>1, <1>2

\* An instance that ends takes its flights and its followers with it.
LEMMA RestartKeepsFlights ==
    ASSUME TypeOK, FlightInv, NEW i \in Instances, Exit(i) \/ Crash(i)
    PROVE  FlightInv'
  <1>0. /\ pc \in [Requests -> Steps] /\ id \in [Requests -> Ids]
        /\ refills \in [Instances -> [Ids -> Flight]]
    BY DEF TypeOK
  <1>1. /\ refills' = [refills EXCEPT ![i] = [b \in Ids |-> NoOne]]
        /\ id' = id
    BY DEF Exit, Crash, Restart, requestVars
  <1>2. \A q \in Requests :
           /\ pc'[q] = IF Home[q] = i THEN "idle" ELSE pc[q]
           /\ Home[q] # i => notify'[q] = notify[q]
           /\ Home[q] = i => notify'[q] \notin Requests
    <2>1. CASE Exit(i)
      <3>1. UNCHANGED <<pc, notify>>
        BY <2>1 DEF Exit, requestVars
      <3>2. \A q \in Requests : Home[q] = i => pc[q] = "idle"
        BY <2>1 DEF Exit, RequestsOf
      <3> QED
        BY <3>1, <3>2 DEF FlightInv, FollowersMatch
    <2>2. CASE Crash(i)
      BY <2>2, MarksAreNoRequest, StoreAssumption DEF Crash
    <2> QED
      BY <2>1, <2>2
  <1>3. SingleFlight'
    <2> SUFFICES ASSUME NEW j \in Instances, NEW b \in Ids, NEW q \in Requests
                 PROVE  refills'[j][b] = q
                          <=> Home[q] = j /\ id[q] = b /\ pc'[q] \in Leading
      BY <1>1 DEF SingleFlight
    <2>1. refills'[j][b] = IF j = i THEN NoOne ELSE refills[j][b]
      BY <1>0, <1>1
    <2> QED
      BY <1>2, <2>1, MarksAreNoRequest DEF FlightInv, SingleFlight, Leading
  <1>4. FollowersMatch'
    <2> SUFFICES ASSUME NEW q \in Requests, notify'[q] \in Requests
                 PROVE  /\ pc'[q] \in {"cloned", "waiting"}
                        /\ refills'[Home[q]][id[q]] = notify'[q]
      BY <1>1 DEF FollowersMatch
    <2>1. Home[q] # i /\ notify'[q] = notify[q] /\ pc'[q] = pc[q]
      BY <1>2
    <2>2. refills'[Home[q]][id[q]] = refills[Home[q]][id[q]]
      BY <1>0, <1>1, <2>1, MarksAreNoRequest
    <2> QED
      BY <2>1, <2>2 DEF FlightInv, FollowersMatch
  <1> QED
    BY <1>3, <1>4 DEF FlightInv

\* No step of the cleanup task, the server, Redis or the clock touches it.
LEMMA OthersKeepFlights ==
    ASSUME TypeOK, FlightInv,
           \/ \E i \in Instances : Clean(i) \/ Terminate(i) \/ Drain(i)
           \/ \E b \in Ids :
                 OrphanExec(b) \/ \E w \in Windows : LateReturn(b, w)
           \/ Tick
           \/ UNCHANGED vars
    PROVE  FlightInv'
  <1>1. UNCHANGED <<refills, id, pc, notify>>
    BY DEF Clean, CleanupTick, CleanupRemove, ReceiveShutdown, ReturnTokens,
           ReturnFails, Terminate, Drain, OrphanExec, LateReturn, Tick, vars,
           requestVars
  <1> QED
    BY <1>1 DEF FlightInv, SingleFlight, FollowersMatch

\* Every step keeps both.
LEMMA FlightsHold == Spec => []FlightInv
  <1>1. Init => FlightInv
    BY MarksAreNoRequest, StoreAssumption
       DEF Init, FlightInv, SingleFlight, FollowersMatch, Leading
  <1>2. TypeOK /\ FlightInv /\ [Next]_vars => FlightInv'
    BY RequestKeepsFlights, ArriveKeepsFlights, EntryKeepsFlights,
       EndKeepsFlights, RestartKeepsFlights, OthersKeepFlights
       DEF Next, Serve, Answered
  <1> QED
    BY <1>1, <1>2, TypeCorrect, PTL DEF Spec

\* The map of refills names, per key and instance, the one request that is
\* between taking the entry and removing it: ensure_refilled never has two
\* leases of one key under way on one instance, and refills.remove(b_id)
\* removes the entry of the flight that ends.
THEOREM FlightsAreSingle == Spec => []SingleFlight
  <1>1. FlightInv => SingleFlight
    BY DEF FlightInv
  <1> QED
    BY <1>1, FlightsHold, PTL

\* Whoever holds the Notify of a live flight asked for the key of that flight,
\* and has yet to be woken by it.
THEOREM FollowersAreMatched == Spec => []FollowersMatch
  <1>1. FlightInv => FollowersMatch
    BY DEF FlightInv
  <1> QED
    BY <1>1, FlightsHold, PTL

-----------------------------------------------------------------------------
(***************************************************************************)
(* The order of windows: WindowsAdvance and ExhaustedIsTrue.               *)
(*                                                                         *)
(* A reply in hand is of a window no earlier than that of the bucket it    *)
(* will replace or mark: no other flight of its key can have put a bucket  *)
(* there since Redis answered, because flights are single.                 *)
(***************************************************************************)
InHand(r) == pc[r] \in {"replied", "install"}

\* The window `w` of `b` is the one the key has, or an earlier one, or over.
Known(b, w) == w <= keys[b].window \/ w < now

\* Redis has nothing left of the window, unless it got some back.
Spent(b, w) ==
    Alive(b) /\ keys[b].window = w =>
        keys[b].tokens = 0 \/ <<b, w>> \in refunded

BucketsKnown ==
    \A i \in Instances, b \in Ids :
        buckets[i][b] # NoBucket => Known(b, buckets[i][b].window)

RepliesKnown ==
    \A r \in Requests :
        InHand(r) =>
            /\ Known(id[r], call[r].window)
            /\ Mine(r) # NoBucket => Mine(r).window <= call[r].window

\* Of what is marked, or will be, nothing is left.
MarksTrue ==
    /\ \A i \in Instances, b \in Ids :
          Denies(buckets[i][b]) => Spent(b, buckets[i][b].window)
    /\ \A r \in Requests :
          InHand(r) /\ call[r].leased = 0 => Spent(id[r], call[r].window)

OrderInv == BucketsKnown /\ RepliesKnown

\* What a step may do to the clock and to a key.
LEMMA KeyMoves ==
    ASSUME TypeOK, [Next]_vars, NEW b \in Ids
    PROVE  \/ now' = now /\ keys'[b] = keys[b]
           \/ /\ now' = now /\ ~LeaseRefused(b)
              /\ keys'[b] = KeyAfterLease(b)
           \/ /\ now' = now /\ keys'[b].window = keys[b].window
              /\ \E n, w : Refund(b, n, w)
           \/ /\ now' = now + 1
              /\ keys'[b] = IF keys[b].window < now + 1 THEN NoKey ELSE keys[b]
  <1>0. keys \in [Ids -> Key]
    BY DEF TypeOK, CacheTypeOK
  <1>1. ASSUME NEW r \in Requests,
               \/ \E o \in Ids : Arrive(r, o)
               \/ Serve(r) \/ LeaseFails(r)
               \/ DisconnectFollower(r) \/ DisconnectLeader(r)
        PROVE  now' = now /\ keys'[b] = keys[b]
    BY <1>1 DEF Serve, Arrive, CheckDenied, CheckServed, CheckMissing,
           TakeFlight, JoinFlight, Register, LeaseReply, LeaseFails, Install,
           MarkExhausted, ReleaseFlight, ConsumeToken, ConsumeNothing,
           ConsumeExpired, Evict, DisconnectFollower, DisconnectLeader
  <1>2. ASSUME NEW r \in Requests, LeaseExec(r)
        PROVE  \/ now' = now /\ keys'[b] = keys[b]
               \/ /\ now' = now /\ ~LeaseRefused(b)
                  /\ keys'[b] = KeyAfterLease(b)
    BY <1>2, LeaseCarries, Constants
  <1>3. ASSUME NEW i \in Instances,
               \/ CleanupTick(i) \/ \E o \in Ids : CleanupRemove(i, o)
               \/ ReceiveShutdown(i) \/ \E o \in Ids : ReturnFails(i, o)
               \/ Terminate(i) \/ Drain(i) \/ Exit(i) \/ Crash(i)
        PROVE  now' = now /\ keys'[b] = keys[b]
    BY <1>3 DEF CleanupTick, CleanupRemove, ReceiveShutdown, ReturnFails,
           Terminate, Drain, Exit, Crash
  <1>4. ASSUME NEW o \in Ids,
               \/ \E i \in Instances : ReturnTokens(i, o)
               \/ \E w \in Windows : LateReturn(o, w)
        PROVE  \/ now' = now /\ keys'[b] = keys[b]
               \/ /\ now' = now /\ keys'[b].window = keys[b].window
                  /\ \E n, w : Refund(b, n, w)
    <2>1. now' = now /\ \E n, w : Refund(o, n, w)
      BY <1>4, ReturnIsRefund
    <2>2. CASE b = o
      BY <2>1, <2>2, RefundFacts
    <2>3. CASE b # o
      BY <1>0, <2>1, <2>3 DEF Refund
    <2> QED
      BY <2>2, <2>3
  <1>5. ASSUME NEW o \in Ids, OrphanExec(o)
        PROVE  \/ now' = now /\ keys'[b] = keys[b]
               \/ /\ now' = now /\ ~LeaseRefused(b)
                  /\ keys'[b] = KeyAfterLease(b)
    BY <1>0, <1>5 DEF OrphanExec
  <1>6. CASE Tick
    BY <1>6 DEF Tick, Advance
  <1>7. CASE UNCHANGED vars
    BY <1>7 DEF vars
  <1> QED
    BY <1>1, <1>2, <1>3, <1>4, <1>5, <1>6, <1>7 DEF Next, Answered, Clean

\* The clock and a key are what they should be.
LEMMA ClockTypes ==
    ASSUME TypeOK, NEW b \in Ids
    PROVE  /\ CacheTypeOK
           /\ now \in Nat /\ keys[b].window \in Nat /\ keys[b].tokens \in Nat
  <1>1. CacheTypeOK
    BY DEF TypeOK
  <1>2. now \in Nat /\ keys[b] \in Key
    BY <1>1, TimeAssumption DEF CacheTypeOK
  <1> QED
    BY <1>1, <1>2, Constants DEF Key

\* A window that Redis opens is later than all that were known.
LEMMA LeaseIsLater ==
    ASSUME TypeOK, NEW b \in Ids, ~LeaseRefused(b), NEW w \in Nat, Known(b, w)
    PROVE  /\ w <= KeyAfterLease(b).window
           /\ ~Alive(b) => w # KeyAfterLease(b).window
  <1>1. CacheTypeOK /\ now \in Nat /\ keys[b].window \in Nat
    BY ClockTypes
  <1>2. CASE Alive(b)
    BY <1>1, <1>2, LeaseFacts DEF Known, Alive
  <1>3. CASE ~Alive(b)
    <2>1. /\ KeyAfterLease(b).window = now + Criteria(b).reset_in
          /\ Criteria(b).reset_in \in Nat /\ Criteria(b).reset_in # 0
      BY <1>1, <1>3, LeaseFacts, PolicyFacts DEF LeaseRefused
    <2> QED
      BY <1>1, <1>3, <2>1 DEF Known, Alive
  <1> QED
    BY <1>2, <1>3

\* What was known stays known.
LEMMA KnownStays ==
    ASSUME TypeOK, [Next]_vars, NEW b \in Ids, NEW w \in Nat, Known(b, w)
    PROVE  Known(b, w)'
  <1>1. now \in Nat /\ keys[b].window \in Nat
    BY ClockTypes
  <1>2. CASE keys'[b] = KeyAfterLease(b) /\ ~LeaseRefused(b)
    BY <1>2, LeaseIsLater DEF Known
  <1>3. CASE now' = now /\ keys'[b].window = keys[b].window
    BY <1>3 DEF Known
  <1>4. CASE /\ now' = now + 1
             /\ keys'[b] = IF keys[b].window < now + 1 THEN NoKey ELSE keys[b]
    <2>1. CASE keys[b].window < now + 1
      <3>1. w < now + 1
        BY <1>1, <2>1 DEF Known
      <3> QED
        BY <1>4, <3>1 DEF Known
    <2>2. CASE ~(keys[b].window < now + 1)
      <3>1. w <= keys[b].window \/ w < now + 1
        BY <1>1 DEF Known
      <3> QED
        BY <1>4, <2>2, <3>1 DEF Known
    <2> QED
      BY <2>1, <2>2
  <1> QED
    BY <1>2, <1>3, <1>4, KeyMoves

\* A window that got tokens back is known for good.
LEMMA RefundsStay ==
    ASSUME TypeOK, [Next]_vars
    PROVE  refunded \subseteq refunded'
  <1>1. ASSUME NEW b \in Ids,
               \/ \E i \in Instances : ReturnTokens(i, b)
               \/ \E w \in Windows : LateReturn(b, w)
        PROVE  refunded \subseteq refunded'
    BY <1>1, ReturnIsRefund, RefundFacts
  <1>2. CASE refunded' = refunded
    BY <1>2
  <1>3. CASE UNCHANGED history
    BY <1>3, <1>2 DEF history
  <1>4. ASSUME NEW r \in Requests, Serve(r)
        PROVE  refunded' = refunded
    BY <1>4 DEF Serve, CheckDenied, CheckServed, CheckMissing, TakeFlight,
           JoinFlight, Register, LeaseReply, Install, MarkExhausted,
           ReleaseFlight, ConsumeToken, ConsumeNothing, ConsumeExpired, Evict,
           history
  <1>5. ASSUME NEW i \in Instances, Clean(i)
        PROVE  UNCHANGED history \/ \E b \in Ids : ReturnTokens(i, b)
    BY <1>5 DEF Clean, CleanupTick, CleanupRemove, ReceiveShutdown, ReturnFails
  <1>6. CASE \/ \E r \in Requests :
                   \/ \E b \in Ids : Arrive(r, b)
                   \/ Answered(r)
                   \/ DisconnectFollower(r) \/ DisconnectLeader(r)
             \/ \E i \in Instances :
                   Terminate(i) \/ Drain(i) \/ Exit(i) \/ Crash(i)
             \/ \E b \in Ids : OrphanExec(b)
             \/ Tick
             \/ UNCHANGED vars
    <2>1. UNCHANGED history
      BY <1>6 DEF Arrive, Answered, LeaseExec, LeaseFails, DisconnectFollower,
             DisconnectLeader, Terminate, Drain, Exit, Crash, OrphanExec, Tick,
             vars
    <2> QED
      BY <1>3, <2>1
  <1> QED
    BY <1>1, <1>2, <1>3, <1>4, <1>5, <1>6 DEF Next

\* What is spent stays spent: only a return refills a window.
LEMMA SpentStays ==
    ASSUME TypeOK, [Next]_vars,
           NEW b \in Ids, NEW w \in Nat, Known(b, w), Spent(b, w)
    PROVE  Spent(b, w)'
  <1>0. refunded \subseteq refunded'
    BY RefundsStay
  <1>1. /\ now \in Nat /\ keys[b].window \in Nat /\ keys[b].tokens \in Nat
        /\ CacheTypeOK
    BY ClockTypes
  <1>2. ASSUME now' = now, NEW n, NEW v, Refund(b, n, v)
        PROVE  Spent(b, w)'
    <2>1. /\ keys'[b].window = keys[b].window
          /\ <<b, keys[b].window>> \notin refunded' => keys'[b] = keys[b]
      BY <1>2, RefundFacts
    <2> QED
      BY <1>0, <1>2, <2>1 DEF Spent, Alive
  <1>3. CASE now' = now /\ keys'[b] = keys[b]
    BY <1>0, <1>3 DEF Spent, Alive
  <1>4. CASE /\ now' = now /\ ~LeaseRefused(b)
             /\ keys'[b] = KeyAfterLease(b)
    <2>1. CASE Alive(b)
      <3>1. /\ KeyAfterLease(b).window = keys[b].window
            /\ KeyAfterLease(b).tokens + Leased(b) = keys[b].tokens
            /\ KeyAfterLease(b).tokens \in Nat /\ Leased(b) \in Nat
        BY <1>1, <2>1, LeaseFacts DEF Key
      <3>2. keys[b].tokens = 0 => KeyAfterLease(b).tokens = 0
        BY <1>1, <3>1
      <3> QED
        BY <1>0, <1>4, <2>1, <3>1, <3>2 DEF Spent, Alive
    <2>2. CASE ~Alive(b)
      BY <1>4, <2>2, LeaseIsLater DEF Spent
    <2> QED
      BY <2>1, <2>2
  <1>5. CASE /\ now' = now + 1
             /\ keys'[b] = IF keys[b].window < now + 1 THEN NoKey ELSE keys[b]
    <2>1. CASE keys[b].window < now + 1
      <3>1. keys'[b].window = 0
        BY <1>5, <2>1 DEF NoKey
      <3>2. ~(now + 1 <= 0)
        BY <1>1
      <3> QED
        BY <1>5, <3>1, <3>2 DEF Spent, Alive
    <2>2. CASE ~(keys[b].window < now + 1)
      <3>1. now + 1 <= keys[b].window => now <= keys[b].window
        BY <1>1
      <3> QED
        BY <1>0, <1>5, <2>2, <3>1 DEF Spent, Alive
    <2> QED
      BY <2>1, <2>2
  <1> QED
    BY <1>2, <1>3, <1>4, <1>5, KeyMoves

\* What a step may do to a bucket.
LEMMA BucketMoves ==
    ASSUME TypeOK, [Next]_vars, NEW i \in Instances, NEW b \in Ids
    PROVE  \/ buckets'[i][b] = NoBucket
           \/ /\ buckets[i][b] # NoBucket
              /\ buckets'[i][b].window = buckets[i][b].window
              /\ \/ buckets'[i][b].exhausted = buckets[i][b].exhausted
                 \/ \E r \in Requests :
                       MarkExhausted(r) /\ Home[r] = i /\ id[r] = b
           \/ \E r \in Requests :
                 /\ Install(r) /\ Home[r] = i /\ id[r] = b
                 /\ buckets'[i][b].window = call[r].window
                 /\ ~buckets'[i][b].exhausted
  <1> DEFINE old == buckets[i][b]
             new == buckets'[i][b]
             Kept == /\ old # NoBucket /\ new.window = old.window
                     /\ new.exhausted = old.exhausted
  <1>0. buckets \in [Instances -> [Ids -> Bucket \cup {NoBucket}]]
    BY DEF TypeOK
  <1>1. CASE \/ buckets' = buckets
             \/ \E j \in Instances, o \in Ids :
                   buckets' = [buckets EXCEPT ![j][o] = NoBucket]
             \/ \E j \in Instances : buckets' = [buckets EXCEPT ![j] = EmptyMap]
    <2>1. new = old \/ new = NoBucket
      BY <1>0, <1>1 DEF EmptyMap
    <2> QED
      BY <2>1
  <1>2. ASSUME NEW r \in Requests,
               \/ \E o \in Ids : Arrive(r, o)
               \/ CheckDenied(r) \/ CheckServed(r) \/ CheckMissing(r)
               \/ TakeFlight(r) \/ JoinFlight(r) \/ Register(r)
               \/ LeaseExec(r) \/ LeaseReply(r) \/ LeaseFails(r)
               \/ ReleaseFlight(r)
               \/ ConsumeNothing(r) \/ ConsumeExpired(r) \/ Evict(r)
               \/ DisconnectFollower(r) \/ DisconnectLeader(r)
        PROVE  \/ buckets' = buckets
               \/ \E j \in Instances, o \in Ids :
                     buckets' = [buckets EXCEPT ![j][o] = NoBucket]
    <2>1. Home[r] \in Instances /\ id[r] \in Ids
      BY StoreAssumption DEF TypeOK
    <2> QED
      BY <1>2, <2>1 DEF Arrive, CheckDenied, CheckServed, CheckMissing,
             TakeFlight, JoinFlight, Register, LeaseExec, LeaseReply,
             LeaseFails, ReleaseFlight, ConsumeNothing, ConsumeExpired, Evict,
             DisconnectFollower, DisconnectLeader, SetBucket
  <1>3. CASE \/ \E j \in Instances :
                   Clean(j) \/ Terminate(j) \/ Drain(j) \/ Exit(j) \/ Crash(j)
             \/ \E o \in Ids :
                   OrphanExec(o) \/ \E w \in Windows : LateReturn(o, w)
             \/ Tick
             \/ UNCHANGED vars
    <2>1. \/ buckets' = buckets
          \/ \E j \in Instances, o \in Ids :
                buckets' = [buckets EXCEPT ![j][o] = NoBucket]
          \/ \E j \in Instances : buckets' = [buckets EXCEPT ![j] = EmptyMap]
      BY <1>3 DEF Clean, CleanupTick, CleanupRemove, ReceiveShutdown,
             ReturnTokens, ReturnFails, Terminate, Drain, Exit, Crash,
             Restart, SetBucket, OrphanExec, LateReturn, Tick, vars
    <2> QED
      BY <1>1, <2>1
  <1>4. ASSUME NEW r \in Requests, Install(r)
        PROVE  \/ new = old
               \/ /\ Home[r] = i /\ id[r] = b
                  /\ new.window = call[r].window /\ ~new.exhausted
    <2>1. buckets' = [buckets EXCEPT ![Home[r]][id[r]] =
                        NewBucket(call[r].leased, call[r].ttl, call[r].window,
                                  now)]
      BY <1>4 DEF Install, SetBucket
    <2> QED
      BY <1>0, <2>1 DEF NewBucket
  <1>5. ASSUME NEW r \in Requests, ConsumeToken(r)
        PROVE  new = old \/ Kept
    <2>1. /\ Mine(r) # NoBucket /\ Mine(r) = buckets[Home[r]][id[r]]
          /\ buckets' = [buckets EXCEPT ![Home[r]][id[r]] =
                           [Mine(r) EXCEPT !.tokens = AfterConsume(Mine(r))]]
      BY <1>5 DEF ConsumeToken, SetBucket, BucketAfterConsume, Mine
    <2>2. Mine(r) \in Bucket
      BY <2>1, MineIsBucket
    <2> QED
      BY <1>0, <2>1, <2>2 DEF Bucket
  <1>6. ASSUME NEW r \in Requests, MarkExhausted(r)
        PROVE  \/ new = old
               \/ /\ Home[r] = i /\ id[r] = b
                  /\ old # NoBucket /\ new.window = old.window
    <2>1. CASE Mine(r) = NoBucket
      BY <1>6, <2>1 DEF MarkExhausted
    <2>2. CASE Mine(r) # NoBucket
      <3>1. /\ Mine(r) = buckets[Home[r]][id[r]]
            /\ buckets' = [buckets EXCEPT ![Home[r]][id[r]] =
                             [Mine(r) EXCEPT !.exhausted = TRUE]]
        BY <1>6, <2>2 DEF MarkExhausted, SetBucket, Mine
      <3>2. Mine(r) \in Bucket
        BY <2>2, MineIsBucket
      <3> QED
        BY <1>0, <2>2, <3>1, <3>2 DEF Bucket
    <2> QED
      BY <2>1, <2>2
  <1>7. new = old => new = NoBucket \/ Kept
    OBVIOUS
  <1>8. CASE \E r \in Requests :
                Install(r) \/ ConsumeToken(r) \/ MarkExhausted(r)
    BY <1>4, <1>5, <1>6, <1>7, <1>8
  <1> QED
    BY <1>1, <1>2, <1>3, <1>8 DEF Next, Serve, Answered

\* What a step may do to a reply in hand.
LEMMA CallMoves ==
    ASSUME TypeOK, [Next]_vars, NEW r \in Requests, InHand(r)'
    PROVE  /\ id'[r] = id[r]
           /\ \/ LeaseExec(r)
              \/ /\ InHand(r)
                 /\ call'[r].leased = call[r].leased
                 /\ call'[r].window = call[r].window
  <1>0. /\ pc \in [Requests -> Steps] /\ call \in [Requests -> Call]
        /\ id \in [Requests -> Ids]
    BY DEF TypeOK
  <1>1. pc'[r] \in {"replied", "install"}
    BY DEF InHand
  <1> DEFINE Same == /\ id'[r] = id[r] /\ InHand(r)
                     /\ call'[r].leased = call[r].leased
                     /\ call'[r].window = call[r].window
  <1>2. ASSUME NEW q \in Requests, LeaseExec(q)
        PROVE  id'[r] = id[r] /\ (LeaseExec(r) \/ Same)
    <2>1. /\ id' = id
          /\ q # r => pc'[r] = pc[r] /\ call'[r] = call[r]
      BY <1>0, <1>2 DEF LeaseExec, Goto
    <2> QED
      BY <1>1, <1>2, <2>1 DEF InHand
  <1>3. ASSUME NEW q \in Requests, LeaseReply(q)
        PROVE  Same
    <2>1. /\ id' = id /\ pc[q] = "replied"
          /\ q # r => pc'[r] = pc[r]
          /\ call' = [call EXCEPT ![q] =
                        [at |-> now, leased |-> call[q].leased,
                         ttl |-> TimeLeftFromStart(call[q]),
                         window |-> call[q].window]]
      BY <1>0, <1>3 DEF LeaseReply, Goto
    <2>2. call'[r].leased = call[r].leased /\ call'[r].window = call[r].window
      BY <1>0, <2>1
    <2> QED
      BY <1>1, <2>1, <2>2 DEF InHand
  <1>4. ASSUME NEW q \in Requests,
               \/ \E b \in Ids : Arrive(q, b)
               \/ CheckDenied(q) \/ CheckServed(q) \/ CheckMissing(q)
               \/ TakeFlight(q) \/ JoinFlight(q) \/ Register(q)
               \/ LeaseFails(q) \/ Install(q) \/ MarkExhausted(q)
               \/ ConsumeToken(q) \/ ConsumeNothing(q) \/ ConsumeExpired(q)
               \/ Evict(q) \/ DisconnectFollower(q) \/ DisconnectLeader(q)
        PROVE  Same
    <2>1. /\ \E to \in Steps \ {"replied", "install"} : Goto(q, to)
          /\ id' = id \/ \E b \in Ids : id' = [id EXCEPT ![q] = b]
          /\ call' = call \/ \E c : call' = [call EXCEPT ![q] = c]
      BY <1>4 DEF Arrive, CheckDenied, CheckServed, CheckMissing, TakeFlight,
             JoinFlight, Register, LeaseFails, Install, MarkExhausted,
             ConsumeToken, ConsumeNothing, ConsumeExpired, Evict,
             DisconnectFollower, DisconnectLeader, Steps, Leading, AfterError
    <2>2. q # r
      BY <1>0, <1>1, <2>1 DEF Goto
    <2> QED
      BY <1>0, <1>1, <2>1, <2>2 DEF InHand, Goto
  <1>5. ASSUME NEW q \in Requests, ReleaseFlight(q)
        PROVE  Same
    <2>1. UNCHANGED <<id, call>> /\ pc'[r] = pc[r]
      BY <1>1, <1>5 DEF ReleaseFlight
    <2> QED
      BY <1>1, <2>1 DEF InHand
  <1>6. ASSUME NEW i \in Instances, Crash(i)
        PROVE  Same
    BY <1>1, <1>6 DEF Crash, InHand
  <1>7. CASE \/ \E i \in Instances :
                   Clean(i) \/ Terminate(i) \/ Drain(i) \/ Exit(i)
             \/ \E b \in Ids :
                   OrphanExec(b) \/ \E w \in Windows : LateReturn(b, w)
             \/ Tick
             \/ UNCHANGED vars
    <2>1. UNCHANGED <<id, call, pc>>
      BY <1>7 DEF Clean, CleanupTick, CleanupRemove, ReceiveShutdown,
             ReturnTokens, ReturnFails, Terminate, Drain, Exit, OrphanExec,
             LateReturn, Tick, vars, requestVars
    <2> QED
      BY <1>1, <2>1 DEF InHand
  <1> QED
    BY <1>2, <1>3, <1>4, <1>5, <1>6, <1>7 DEF Next, Serve, Answered

\* What Redis does when it answers.
LEMMA ReplyFacts ==
    ASSUME TypeOK, NEW r \in Requests, LeaseExec(r)
    PROVE  /\ now' = now /\ ~LeaseRefused(id[r])
           /\ UNCHANGED <<buckets, id>>
           /\ keys'[id[r]] = KeyAfterLease(id[r])
           /\ call'[r].window = KeyAfterLease(id[r]).window
           /\ call'[r].leased = Leased(id[r])
  <1>1. /\ call \in [Requests -> Call] /\ keys \in [Ids -> Key]
        /\ id[r] \in Ids
    BY DEF TypeOK, CacheTypeOK
  <1> QED
    BY <1>1 DEF LeaseExec

\* Whoever has a reply in hand is the only one to install a bucket there.
LEMMA OnlyMineInstalls ==
    ASSUME TypeOK, SingleFlight, NEW r \in Requests, NEW q \in Requests,
           InHand(r), Install(q), Home[q] = Home[r], id[q] = id[r]
    PROVE  ~InHand(r)'
  <1>1. /\ pc \in [Requests -> Steps] /\ Home[r] \in Instances
        /\ id[r] \in Ids /\ pc[q] = "install"
        /\ pc' = [pc EXCEPT ![q] = "release"]
    BY StoreAssumption DEF TypeOK, Install, Goto
  <1>2. refills[Home[r]][id[r]] = r /\ refills[Home[r]][id[r]] = q
    BY <1>1 DEF SingleFlight, InHand, Leading
  <1> QED
    BY <1>1, <1>2 DEF InHand

\* The windows of buckets and replies.
LEMMA WindowTypes ==
    ASSUME TypeOK
    PROVE  /\ \A i \in Instances, b \in Ids :
                 buckets[i][b] # NoBucket => buckets[i][b].window \in Nat
           /\ \A r \in Requests :
                 call[r].window \in Nat /\ call[r].leased \in Nat
                 /\ Home[r] \in Instances /\ id[r] \in Ids
  <1>1. \A i \in Instances, b \in Ids :
           buckets[i][b] # NoBucket => buckets[i][b] \in Bucket
    BY DEF TypeOK
  <1>2. \A r \in Requests : call[r] \in Call
    BY DEF TypeOK
  <1>3. \A r \in Requests : Home[r] \in Instances /\ id[r] \in Ids
    BY StoreAssumption DEF TypeOK
  <1> QED
    BY <1>1, <1>2, <1>3, Constants DEF Bucket, Call

\* Buckets and replies stay in order.
LEMMA OrderStep ==
    ASSUME TypeOK, SingleFlight, OrderInv, [Next]_vars
    PROVE  OrderInv'
  <1>1. BucketsKnown'
    <2> SUFFICES ASSUME NEW i \in Instances, NEW b \in Ids,
                        buckets'[i][b] # NoBucket
                 PROVE  Known(b, buckets[i][b].window)'
      BY DEF BucketsKnown
    <2>1. CASE /\ buckets[i][b] # NoBucket
               /\ buckets'[i][b].window = buckets[i][b].window
      <3>1. PICK w \in Nat : w = buckets[i][b].window
        BY <2>1, WindowTypes
      <3>2. Known(b, w)
        BY <2>1, <3>1 DEF OrderInv, BucketsKnown
      <3>3. Known(b, w)'
        BY <3>2, KnownStays
      <3> QED
        BY <2>1, <3>1, <3>3 DEF Known
    <2>2. ASSUME NEW r \in Requests, Install(r), id[r] = b,
                 buckets'[i][b].window = call[r].window
          PROVE  Known(b, buckets[i][b].window)'
      <3>1. PICK w \in Nat : w = call[r].window
        BY WindowTypes
      <3>2. Known(b, w)
        BY <2>2, <3>1 DEF OrderInv, RepliesKnown, InHand, Install
      <3>3. Known(b, w)'
        BY <3>2, KnownStays
      <3> QED
        BY <2>2, <3>1, <3>3 DEF Known
    <2> QED
      BY <2>1, <2>2, BucketMoves
  <1>2. RepliesKnown'
    <2> SUFFICES ASSUME NEW r \in Requests, InHand(r)'
                 PROVE  /\ Known(id[r], call[r].window)'
                        /\ Mine(r)' # NoBucket
                             => Mine(r)'.window <= call'[r].window
      BY DEF RepliesKnown
    <2>0. /\ id[r] \in Ids /\ Home[r] \in Instances /\ id'[r] = id[r]
          /\ Mine(r) = buckets[Home[r]][id[r]]
          /\ Mine(r)' = buckets'[Home[r]][id[r]]
      BY WindowTypes, CallMoves DEF Mine
    <2>1. CASE LeaseExec(r)
      <3>1. /\ ~LeaseRefused(id[r]) /\ Mine(r)' = Mine(r)
            /\ keys'[id[r]] = KeyAfterLease(id[r])
            /\ call'[r].window = KeyAfterLease(id[r]).window
        BY <2>0, <2>1, ReplyFacts
      <3>2. call'[r].window <= keys'[id'[r]].window
        <4>1. KeyAfterLease(id[r]).window \in Nat
          BY <2>0, ClockTypes, LeaseFacts, Constants DEF Key
        <4> QED
          BY <2>0, <3>1, <4>1
      <3>3. ASSUME Mine(r) # NoBucket
            PROVE  Mine(r).window <= call'[r].window
        <4>1. PICK w \in Nat : w = Mine(r).window
          BY <2>0, <3>3, WindowTypes
        <4>2. Known(id[r], w)
          BY <2>0, <3>3, <4>1 DEF OrderInv, BucketsKnown
        <4> QED
          BY <2>0, <3>1, <4>1, <4>2, LeaseIsLater
      <3> QED
        BY <3>1, <3>2, <3>3 DEF Known
    <2>2. CASE InHand(r) /\ call'[r].window = call[r].window
      <3>1. PICK w \in Nat : w = call[r].window
        BY WindowTypes
      <3>2. Known(id[r], w)
        BY <2>2, <3>1 DEF OrderInv, RepliesKnown
      <3>3. Known(id[r], w)'
        <4>1. PICK b \in Ids : b = id[r]
          BY <2>0
        <4>2. Known(b, w)'
          BY <3>2, <4>1, KnownStays
        <4> QED
          BY <2>0, <4>1, <4>2 DEF Known
      <3>4. Known(id[r], call[r].window)'
        BY <2>2, <3>1, <3>3 DEF Known
      <3>5. Mine(r) # NoBucket => Mine(r).window <= call'[r].window
        BY <2>2 DEF OrderInv, RepliesKnown
      <3>6. \A q \in Requests :
               ~(Install(q) /\ Home[q] = Home[r] /\ id[q] = id[r])
        BY <2>2, OnlyMineInstalls
      <3>7. Mine(r)' # NoBucket =>
               Mine(r) # NoBucket /\ Mine(r)'.window = Mine(r).window
        BY <2>0, <3>6, BucketMoves
      <3> QED
        BY <3>4, <3>5, <3>7
    <2> QED
      BY <2>1, <2>2, CallMoves
  <1> QED
    BY <1>1, <1>2 DEF OrderInv

\* A reply without tokens says that Redis has none left.
LEMMA NothingLeased ==
    ASSUME TypeOK, NEW b \in Ids, Leased(b) = 0
    PROVE  KeyAfterLease(b).tokens = 0
  <1>1. CacheTypeOK /\ keys[b].tokens \in Nat
    BY ClockTypes
  <1>2. Alive(b) /\ keys[b].tokens = 0
    BY <1>1, PolicyFacts DEF Leased, ToLease
  <1>3. /\ KeyAfterLease(b).tokens + Leased(b) = keys[b].tokens
        /\ KeyAfterLease(b).tokens \in Nat
    BY <1>1, <1>2, LeaseFacts DEF Key
  <1> QED
    BY <1>2, <1>3

\* The bucket that is marked is of the window the reply is about, or over.
LEMMA MarkIsTrue ==
    ASSUME TypeOK, OrderInv, MarksTrue, NEW r \in Requests, MarkExhausted(r),
           Mine(r) # NoBucket
    PROVE  Spent(id[r], Mine(r).window)
  <1>1. /\ InHand(r) /\ call[r].leased = 0
        /\ Known(id[r], call[r].window) /\ Mine(r).window <= call[r].window
    BY DEF MarkExhausted, InHand, OrderInv, RepliesKnown
  <1>2. Spent(id[r], call[r].window)
    BY <1>1 DEF MarksTrue
  <1>3. /\ Mine(r).window \in Nat /\ call[r].window \in Nat /\ now \in Nat
        /\ keys[id[r]].window \in Nat
    BY WindowTypes, ClockTypes DEF Mine
  <1> QED
    BY <1>1, <1>2, <1>3 DEF Spent, Known, Alive

\* Marks stay true.
LEMMA MarkStep ==
    ASSUME TypeOK, OrderInv, MarksTrue, [Next]_vars
    PROVE  MarksTrue'
  <1>1. ASSUME NEW i \in Instances, NEW b \in Ids, Denies(buckets'[i][b])
        PROVE  Spent(b, buckets[i][b].window)'
    <2>1. /\ buckets[i][b] # NoBucket
          /\ buckets'[i][b].window = buckets[i][b].window
          /\ \/ Denies(buckets[i][b])
             \/ \E r \in Requests :
                   MarkExhausted(r) /\ Home[r] = i /\ id[r] = b
      BY <1>1, BucketMoves DEF Denies
    <2>2. PICK w \in Nat : w = buckets[i][b].window
      BY <2>1, WindowTypes
    <2>3. Known(b, w)
      BY <2>1, <2>2 DEF OrderInv, BucketsKnown
    <2>4. Spent(b, w)
      <3>1. CASE Denies(buckets[i][b])
        BY <2>2, <3>1 DEF MarksTrue
      <3>2. ASSUME NEW r \in Requests, MarkExhausted(r), Home[r] = i,
                   id[r] = b
            PROVE  Spent(b, w)
        BY <2>1, <2>2, <3>2, MarkIsTrue DEF Mine
      <3> QED
        BY <2>1, <3>1, <3>2
    <2>5. Spent(b, w)'
      BY <2>3, <2>4, SpentStays
    <2> QED
      BY <2>1, <2>2, <2>5 DEF Spent
  <1>2. ASSUME NEW r \in Requests, InHand(r)', call'[r].leased = 0
        PROVE  Spent(id[r], call[r].window)'
    <2>0. id[r] \in Ids /\ id'[r] = id[r]
      BY <1>2, WindowTypes, CallMoves
    <2>1. CASE LeaseExec(r)
      BY <1>2, <2>0, <2>1, ReplyFacts, NothingLeased DEF Spent
    <2>2. CASE /\ InHand(r) /\ call'[r].window = call[r].window
               /\ call'[r].leased = call[r].leased
      <3>1. PICK b \in Ids, w \in Nat : b = id[r] /\ w = call[r].window
        BY <2>0, WindowTypes
      <3>2. Known(b, w) /\ Spent(b, w)
        BY <1>2, <2>2, <3>1 DEF OrderInv, RepliesKnown, MarksTrue
      <3>3. Spent(b, w)'
        BY <3>2, SpentStays
      <3> QED
        BY <2>0, <2>2, <3>1, <3>3 DEF Spent, Alive
    <2> QED
      BY <1>2, <2>1, <2>2, CallMoves
  <1> QED
    BY <1>1, <1>2 DEF MarksTrue

\* From the start on.
LEMMA OrderHolds == Spec => []OrderInv
  <1>1. Init => OrderInv
    BY DEF Init, OrderInv, BucketsKnown, RepliesKnown, InHand, EmptyMap
  <1>2. TypeOK /\ SingleFlight /\ OrderInv /\ [Next]_vars => OrderInv'
    BY OrderStep
  <1> QED
    BY <1>1, <1>2, TypeCorrect, FlightsAreSingle, PTL DEF Spec

\* Buckets never go back to an earlier window: the leader's reply is of a
\* window no earlier than that of the bucket Store::lease inserts it over,
\* because no other flight of the key has been there since Redis answered.
THEOREM WindowsNeverGoBack == Spec => WindowsAdvance
  <1> DEFINE Forward ==
        \A i \in Instances, b \in Ids :
            buckets[i][b] # NoBucket /\ buckets'[i][b] # NoBucket
                => buckets'[i][b].window >= buckets[i][b].window
  <1>1. TypeOK /\ OrderInv /\ [Next]_vars => [Forward]_buckets
    <2> SUFFICES ASSUME TypeOK, OrderInv, [Next]_vars,
                        NEW i \in Instances, NEW b \in Ids,
                        buckets[i][b] # NoBucket, buckets'[i][b] # NoBucket
                 PROVE  buckets'[i][b].window >= buckets[i][b].window
      OBVIOUS
    <2>1. buckets[i][b].window \in Nat
      BY WindowTypes
    <2>2. CASE buckets'[i][b].window = buckets[i][b].window
      BY <2>1, <2>2
    <2>3. ASSUME NEW r \in Requests, Install(r), Home[r] = i, id[r] = b,
                 buckets'[i][b].window = call[r].window
          PROVE  buckets'[i][b].window >= buckets[i][b].window
      <3>1. Mine(r).window <= call[r].window /\ call[r].window \in Nat
        BY <2>3, WindowTypes
           DEF OrderInv, RepliesKnown, InHand, Install, Mine
      <3> QED
        BY <2>1, <2>3, <3>1 DEF Mine
    <2> QED
      BY <2>2, <2>3, BucketMoves
  <1>2. Spec => [][Forward]_buckets
    <2> HIDE DEF Forward
    <2> QED
      BY <1>1, TypeCorrect, OrderHolds, PTL DEF Spec
  <1> QED
    BY <1>2 DEF WindowsAdvance

\* A bucket marked exhausted in the open window tells the truth, unless the
\* window got tokens back: Store::lease marks a bucket only on a reply about
\* its own window or a later one, and only a return refills a spent window.
THEOREM MarksTellTruth == Spec => []ExhaustedIsTrue
  <1>1. Init => MarksTrue
    BY DEF Init, MarksTrue, InHand, EmptyMap, Denies
  <1>2. TypeOK /\ OrderInv /\ MarksTrue /\ [Next]_vars => MarksTrue'
    BY MarkStep
  <1>3. MarksTrue => ExhaustedIsTrue
    BY DEF MarksTrue, Spent, ExhaustedIsTrue
  <1> QED
    BY <1>1, <1>2, <1>3, TypeCorrect, OrderHolds, PTL DEF Spec

\* A wait that ends within a known window ends with the open one.
LEMMA KnownWait ==
    ASSUME TypeOK, NEW b \in Ids, NEW w \in Nat, Known(b, w),
           NEW d \in Nat, now + d <= w + MaxLag
    PROVE  /\ Alive(b) => now + d <= keys[b].window + MaxLag
           /\ ~Alive(b) => d < MaxLag
  <1>1. MaxLag \in Nat /\ now \in Nat /\ keys[b].window \in Nat
    BY StoreAssumption, ClockTypes
  <1> QED
    BY <1>1 DEF Known, Alive

\* The time a bucket gives is within its window.
LEMMA BucketWait ==
    ASSUME TypeOK, WindowInv, OrderInv, NEW r \in Requests,
           Mine(r) # NoBucket, NEW d \in Nat, d # 0,
           d = TimeLeft(Mine(r), now)
    PROVE  /\ Alive(id[r]) => now + d <= keys[id[r]].window + MaxLag
           /\ ~Alive(id[r]) => d < MaxLag
  <1>1. /\ Home[r] \in Instances /\ id[r] \in Ids
        /\ Mine(r) = buckets[Home[r]][id[r]]
    BY WindowTypes DEF Mine
  <1>2. /\ Mine(r).window \in Nat /\ Mine(r).expires_at \in Nat
        /\ now \in Nat
    BY <1>1, MineIsBucket, ClockTypes DEF Bucket
  <1>3. Known(id[r], Mine(r).window)
    BY <1>1 DEF OrderInv, BucketsKnown
  <1>4. now + d <= Mine(r).window + MaxLag
    <2>1. ~IsExpired(Mine(r), now) /\ d = Mine(r).expires_at - now
      BY DEF TimeLeft
    <2>2. Mine(r).expires_at <= Mine(r).window + MaxLag
      BY <1>1, <2>1 DEF WindowInv, WithinWindow
    <2> QED
      BY <1>2, <2>1, <2>2
  <1> QED
    BY <1>1, <1>2, <1>3, <1>4, KnownWait

\* So is the time a reply gives.
LEMMA ReplyWait ==
    ASSUME TypeOK, WindowInv, OrderInv, NEW r \in Requests,
           pc[r] = "install", call[r].ttl # 0
    PROVE  /\ Alive(id[r]) => now + call[r].ttl <= keys[id[r]].window + MaxLag
           /\ ~Alive(id[r]) => call[r].ttl < MaxLag
  <1>1. id[r] \in Ids /\ call[r].window \in Nat /\ now \in Nat
    BY WindowTypes, ClockTypes
  <1>2. call[r].at \in Nat /\ call[r].ttl \in Nat /\ MaxLag \in Nat
    BY StoreAssumption, TimeAssumption DEF TypeOK, Call
  <1>3. Known(id[r], call[r].window)
    BY DEF OrderInv, RepliesKnown, InHand
  <1>4. now <= call[r].at + MaxLag /\ call[r].at + call[r].ttl <= call[r].window
    BY DEF WindowInv, Timely, Fits
  <1>5. now + call[r].ttl <= call[r].window + MaxLag
    BY <1>1, <1>2, <1>4
  <1> QED
    BY <1>1, <1>2, <1>3, <1>5, KnownWait

\* A denial of Store::check or of Store::lease sends nobody away beyond the
\* window that is open, but by the preemption of the task: a bucket ends with
\* its window, a reply with the window it was about, and neither of them is of
\* a window that is yet to come.
THEOREM WaitsEndWithWindow == Spec => RetryWithinWindow
  <1> DEFINE Kept ==
        \A r \in Requests, d \in Windows \ {0} :
            Denied(r, d) =>
               /\ Alive(id[r]) => now + d <= keys[id[r]].window + MaxLag
               /\ ~Alive(id[r]) => d < MaxLag
  <1>1. TypeOK /\ WindowInv /\ OrderInv => Kept
    <2> SUFFICES ASSUME TypeOK, WindowInv, OrderInv, NEW r \in Requests,
                        NEW d \in Windows \ {0}, Denied(r, d)
                 PROVE  /\ Alive(id[r]) => now + d <= keys[id[r]].window + MaxLag
                        /\ ~Alive(id[r]) => d < MaxLag
      OBVIOUS
    <2>1. d \in Nat /\ d # 0
      BY Constants
    <2>2. CASE CheckDenied(r) /\ d = TimeLeft(Mine(r), now)
      BY <2>1, <2>2, BucketWait DEF CheckDenied, Denies
    <2>3. CASE MarkExhausted(r) /\ result'[r] = Exhausted(d)
      <3>1. result'[r].wait = d /\ result \in [Requests -> Result]
        BY <2>3 DEF Exhausted, TypeOK
      <3>2. CASE Mine(r) # NoBucket
        <4>1. d = TimeLeft(Mine(r), now)
          BY <2>3, <3>1, <3>2 DEF MarkExhausted, Ends, Exhausted
        <4> QED
          BY <2>1, <3>2, <4>1, BucketWait
      <3>3. CASE Mine(r) = NoBucket
        <4>1. d = call[r].ttl /\ pc[r] = "install"
          BY <2>3, <3>1, <3>3 DEF MarkExhausted, Ends, Exhausted
        <4> QED
          BY <2>1, <4>1, ReplyWait
      <3> QED
        BY <3>2, <3>3
    <2> QED
      BY <2>2, <2>3 DEF Denied
  <1>2. Spec => [][Kept]_vars
    <2> HIDE DEF Kept
    <2> QED
      BY <1>1, TypeCorrect, WindowsHold, OrderHolds, PTL DEF Spec
  <1> QED
    BY <1>2 DEF RetryWithinWindow

=============================================================================
