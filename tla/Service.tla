------------------------------- MODULE Service -------------------------------
(***************************************************************************)
(* The service as its clients see it: the store of every instance behind   *)
(* an adapter.  A slot receives a request and answers it at once or has it *)
(* served by the store.                                                    *)
(***************************************************************************)
EXTENDS Store, Adapters

CONSTANTS
    HttpRequests,   \* the requests HTTP clients send
    EnvoyRequests,  \* the requests Envoy sends
    NoRequest,      \* a slot the store serves nothing for
    NoReply         \* a step that answers nobody

ASSUME ServiceAssumption ==
    /\ HttpRequests \subseteq HttpRequest
    /\ \A q \in EnvoyRequests : IsEnvoyRequest(q)
    /\ NoRequest \notin HttpRequests \cup EnvoyRequests
    /\ NoReply \notin [to : Requests, answer : Answer]

VARIABLES
    front,      \* front[i]: the adapter instance `i` was built with
    asked,      \* asked[r]: the request the store serves for slot `r`
    reply,      \* what the last step answered, and to which slot
    toReset     \* history, toReset[r]: how long the window of the key of `r`
                \* still lasted when a lease of `r` got nothing

frontVars == <<front, asked, reply, toReset>>

Inputs(i) == IF front[i] = "http" THEN HttpRequests ELSE EnvoyRequests

ServiceInit ==
    /\ Init
    /\ front \in [Instances -> {"http", "envoy"}]
    /\ asked = [r \in Requests |-> NoRequest]
    /\ reply = NoReply
    /\ toReset = [r \in Requests |-> 0]

-----------------------------------------------------------------------------
Decision(i, q) ==
    IF front[i] = "http" THEN HttpDecision(q) ELSE EnvoyDecision(q)

Reply(r, a) == reply' = [to |-> r, answer |-> a]

\* The adapter calls Store::consume.
Submit(r, q) ==
    /\ Decision(Home[r], q) \in Ids
    /\ Arrive(r, Decision(Home[r], q))
    /\ asked' = [asked EXCEPT ![r] = q]
    /\ reply' = NoReply
    /\ UNCHANGED toReset

\* The adapter answers by itself.
Decline(r, q) ==
    /\ pc[r] = "idle"
    /\ accepting[Home[r]]
    /\ Decision(Home[r], q) \in Answer
    /\ Reply(r, Decision(Home[r], q))
    /\ UNCHANGED <<asked, toReset, vars>>

(***************************************************************************)
(* What Store::consume comes to if `r` ends where it stands.               *)
(***************************************************************************)
TokensLeft(bk) ==
    IF bk = NoBucket \/ IsExpired(bk, now) THEN 0 ELSE AfterConsume(bk)

Consumed(i, n) ==
    IF front[i] = "http" THEN HttpConsumed(n) ELSE EnvoyConsumed(n)

Denial(i, d) ==
    IF front[i] = "http" THEN HttpExhausted(d) ELSE EnvoyExhausted(d)

AnswerOf(r) ==
    LET i == Home[r] IN
    CASE pc[r] = "check" -> Denial(i, TimeLeft(Mine(r), now))
      [] pc[r] = "release" ->
            IF result[r] = CacheError THEN Plain("error")
            ELSE Denial(i, result[r].wait)
      [] pc[r] = "consume" -> Consumed(i, TokensLeft(Mine(r)))
      [] pc[r] = "evict" -> Consumed(i, 0)

TimeToReset(b) == IF Alive(b) THEN keys[b].window - now ELSE 0

Proceed(r) ==
    /\ Serve(r) \/ Answered(r)
    /\ \/ /\ pc'[r] # "idle"
          /\ toReset' = [toReset EXCEPT ![r] =
                            IF MarkExhausted(r) THEN TimeToReset(id[r]) ELSE @]
          /\ reply' = NoReply
          /\ UNCHANGED asked
       \/ /\ pc'[r] = "idle"
          /\ asked' = [asked EXCEPT ![r] = NoRequest]
          /\ toReset' = [toReset EXCEPT ![r] = 0]
          /\ Reply(r, AnswerOf(r))

Disconnect(r) ==
    /\ DisconnectFollower(r) \/ DisconnectLeader(r)
    /\ asked' = [asked EXCEPT ![r] = NoRequest]
    /\ reply' = NoReply
    /\ UNCHANGED toReset

\* An instance is gone, with the requests it had.
Vanish(i) ==
    /\ Exit(i) \/ Crash(i)
    /\ asked' = [r \in Requests |->
                   IF Home[r] = i THEN NoRequest ELSE asked[r]]
    /\ toReset' = [r \in Requests |->
                     IF Home[r] = i THEN 0 ELSE toReset[r]]
    /\ reply' = NoReply

Background ==
    /\ \/ \E i \in Instances : Clean(i) \/ Terminate(i) \/ Drain(i)
       \/ \E b \in Ids :
             OrphanExec(b) \/ \E w \in Windows : LateReturn(b, w)
       \/ Tick
    /\ UNCHANGED <<asked, toReset>>
    /\ reply' = NoReply

ServiceNext ==
    /\ \/ \E r \in Requests :
             \/ \E q \in Inputs(Home[r]) : Submit(r, q) \/ Decline(r, q)
             \/ Proceed(r) \/ Disconnect(r)
       \/ \E i \in Instances : Vanish(i)
       \/ Background
    /\ UNCHANGED front

ServiceSpec == ServiceInit /\ [][ServiceNext]_<<vars, frontVars>>

-----------------------------------------------------------------------------
(***************************************************************************)
(* Properties.                                                             *)
(***************************************************************************)

\* The store serves requests of its adapter's, one per slot that is not idle,
\* and an adapter gives answers it can express: a count of tokens that does
\* not fit limit_remaining is never put there.
ServiceTypeOK ==
    /\ front \in [Instances -> {"http", "envoy"}]
    /\ \A r \in Requests :
          IF pc[r] = "idle" THEN asked[r] = NoRequest
          ELSE asked[r] \in Inputs(Home[r])
    /\ reply # NoReply =>
          /\ reply \in [to : Requests, answer : Answer]
          /\ front[Home[reply.to]] = "envoy" =>
                reply.answer.remaining <= U32Max
    /\ toReset \in [Requests -> Nat]

(***************************************************************************)
(* The bucket a request belongs to, as the table of the README has it: the *)
(* protected one of the user if there is any, the public one of an address *)
(* otherwise (that of X-Real-IP where nothing was forwarded), and none if  *)
(* the domain is not limited.                                              *)
(***************************************************************************)
Users(i, q) ==
    IF front[i] = "http" THEN {q.auth} \ {Absent}
    ELSE {q.entries[n].value : n \in {m \in DOMAIN q.entries :
                                        q.entries[m].key = "user_id"}}

Addresses(i, q) ==
    IF front[i] = "http"
    THEN {Head(h) : h \in (IF q.forwarded = Absent THEN {q.real}
                           ELSE {q.forwarded}) \ {Absent}}
    ELSE {Head(q.entries[n].value) : n \in {m \in DOMAIN q.entries :
                                        q.entries[m].key = "remote_address"}}

Owners(i, q) == IF Users(i, q) # {} THEN Users(i, q) ELSE Addresses(i, q)

Limited(i, q) ==
    Handles(IF front[i] = "http" THEN Domain(q.host) ELSE q.domain)

\* A token leaves a bucket only for a request that belongs to it: a client
\* with a token in hand never spends the quota of the address it shares with
\* others, an address never that of a user, and a domain that is not limited
\* spends nobody's; though leases, retries and other requests come between
\* the choice of the bucket and the spending.
OwnersCharged ==
    [][\A r \in Requests :
          ConsumeToken(r) =>
              /\ id[r] \in Owners(Home[r], asked[r])
              /\ Limited(Home[r], asked[r])]_<<vars, frontVars>>

\* Whoever pays is let through and told what is left, and whoever is told
\* that something is left has paid: the one exception is a count that does
\* not fit the u32 of Envoy, for which the token is spent on an error.
TokensBuyAnswers ==
    [][\A r \in Requests :
          LET left == AfterConsume(Mine(r))
              Said(a) == reply' = [to |-> r, answer |-> a]
          IN
          /\ ConsumeToken(r) =>
                \/ Said([Plain("ok") EXCEPT !.remaining = left])
                \/ /\ front[Home[r]] = "envoy" /\ left > U32Max
                   /\ Said(Plain("error"))
          /\ \A n \in 1 .. Quota(id[r]) :
                Said([Plain("ok") EXCEPT !.remaining = n]) => ConsumeToken(r)
      ]_<<vars, frontVars>>

\* Whoever is told to wait is told to wait no longer than the window still
\* lasted when he was denied, but for the preemption of the task: by the bucket
\* in the step that answers, by his lease some steps before it, and rounded to
\* whole seconds or not.
WaitIsTold ==
    [][reply' # NoReply /\ reply'.answer.code = "limited" =>
          LET r == reply'.to IN
          reply'.answer.wait <=
              MaxLag + (IF pc[r] = "check" THEN TimeToReset(id[r])
                        ELSE toReset[r])]_<<vars, frontVars>>

=============================================================================
