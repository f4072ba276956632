---------------------------- MODULE ServiceProofs ----------------------------
(***************************************************************************)
(* The service for any number of instances, slots and requests and any     *)
(* list of domains: it conserves tokens, and what its adapters ask of the  *)
(* store and answer is right for all of them.                              *)
(*                                                                         *)
(* A bucket is charged for a request some steps after the adapter chose    *)
(* it.  FrontInv holds the choice together with what the store has.  A     *)
(* client is told to wait some steps after his lease got nothing.          *)
(* ResetInv holds what he will be told together with what was true then.   *)
(***************************************************************************)
EXTENDS Service, FlightProofs, WellFoundedInduction

\* Submit is an arrival, Decline nothing at all.
LEMMA AdaptersOnlyAsk ==
    ASSUME NEW r \in Requests, NEW q, Submit(r, q) \/ Decline(r, q)
    PROVE  [Next]_vars
  <1>1. CASE Submit(r, q)
    BY <1>1 DEF Submit, Next
  <1>2. CASE Decline(r, q)
    BY <1>2 DEF Decline
  <1> QED
    BY <1>1, <1>2

\* Every other step is a step of the store, with something said about it.
LEMMA OthersAreTheStore ==
    ASSUME \/ \E r \in Requests : Proceed(r) \/ Disconnect(r)
           \/ \E i \in Instances : Vanish(i)
           \/ Background
    PROVE  Next
  <1>1. ASSUME NEW r \in Requests, Proceed(r) \/ Disconnect(r)
        PROVE  Next
    BY <1>1 DEF Proceed, Disconnect, Next
  <1>2. ASSUME NEW i \in Instances, Vanish(i)
        PROVE  Next
    BY <1>2 DEF Vanish, Next
  <1>3. CASE Background
    BY <1>3 DEF Background, Next
  <1> QED
    BY <1>1, <1>2, <1>3

\* What holds of the store holds of it behind its adapters.
LEMMA ServiceIsStore == ServiceSpec => Spec
  <1>1. ServiceInit => Init
    BY DEF ServiceInit
  <1>2. [ServiceNext]_<<vars, frontVars>> => [Next]_vars
    <2> SUFFICES ASSUME [ServiceNext]_<<vars, frontVars>>
                 PROVE  [Next]_vars
      OBVIOUS
    <2>1. ASSUME NEW r \in Requests, NEW q \in Inputs(Home[r]),
                 Submit(r, q) \/ Decline(r, q)
          PROVE  [Next]_vars
      BY <2>1, AdaptersOnlyAsk
    <2>2. CASE UNCHANGED <<vars, frontVars>>
      BY <2>2
    <2> QED
      BY <2>1, <2>2, OthersAreTheStore DEF ServiceNext
  <1> QED
    BY <1>1, <1>2, PTL DEF ServiceSpec, Spec

\* TokensConserved of the whole service: whatever requests come through
\* whichever adapters, no window hands out more than its quota unless tokens
\* were returned to it.
THEOREM ServiceConservation == ServiceSpec => []TokensConserved
  BY ServiceIsStore, Conservation, PTL

-----------------------------------------------------------------------------
(***************************************************************************)
(* What the adapters decide.                                               *)
(***************************************************************************)

\* A set of numbers has a least one, and a bounded one has a greatest.
LEMMA Least ==
    ASSUME NEW T, T \subseteq Nat, T # {}
    PROVE  \E n \in T : \A m \in T : n <= m
  <1> DEFINE Less == {p \in Nat \X Nat : p[1] < p[2]}
  <1>1. IsWellFoundedOn(Less, Nat)
    BY NatLessThanWellFounded DEF OpToRel
  <1> HIDE DEF Less
  <1>2. PICK n \in T : \A m \in T : ~ (<<m, n>> \in Less)
    BY <1>1, WFMin, Zenon
  <1>3. ASSUME NEW m \in T PROVE n <= m
    <2>1. m \in Nat /\ n \in Nat /\ <<m, n>> \notin Less
      BY <1>2
    <2>2. ~(m < n)
      BY <2>1 DEF Less
    <2> QED
      BY <2>1, <2>2
  <1> QED
    BY <1>3

LEMMA Greatest ==
    ASSUME NEW k \in Nat, NEW T, T \subseteq 1 .. k, T # {}
    PROVE  \E n \in T : \A m \in T : m <= n
  <1> DEFINE Above == {k - m : m \in T}
  <1>1. Above \subseteq Nat /\ Above # {}
    <2>1. \A m \in T : k - m \in Nat
      OBVIOUS
    <2>2. Above \subseteq Nat
      BY <2>1, Zenon
    <2> QED
      BY <2>2
  <1>2. PICK x \in Above : \A y \in Above : x <= y
    <2> HIDE DEF Above
    <2> QED
      BY <1>1, Least
  <1>3. PICK n \in T : x = k - n
    OBVIOUS
  <1>4. ASSUME NEW m \in T PROVE m <= n
    <2>1. x <= k - m
      BY <1>2
    <2> QED
      BY <1>3, <2>1
  <1> QED
    BY <1>4

\* A first entry of a header or a value is one of those it may have.
LEMMA HeadOfList ==
    ASSUME NEW s \in Lists
    PROVE  Head(s) \in PublicIds \cup {Garbage}
  BY DEF Lists

\* The extractor of the HTTP adapter finds an owner of the request or fails.
LEMMA HttpIdentifier ==
    ASSUME NEW i, front[i] = "http", NEW q \in HttpRequest
    PROVE  /\ Identifier(q) \in Ids \cup {Garbage}
           /\ Identifier(q) # Garbage => Identifier(q) \in Owners(i, q)
  <1>1. /\ q.auth \in {Absent, Garbage} \cup ProtectedIds
        /\ q.forwarded \in {Absent} \cup Lists
        /\ q.real \in {Absent} \cup Lists
    BY DEF HttpRequest
  <1>2. CASE q.auth # Absent
    <2>1. Identifier(q) = q.auth
      BY <1>2 DEF Identifier
    <2> QED
      BY <1>1, <1>2, <2>1 DEF Owners, Users, Ids
  <1>3. CASE q.auth = Absent /\ q.forwarded = Absent /\ q.real = Absent
    BY <1>3 DEF Identifier
  <1>4. ASSUME NEW h \in Lists, h # Absent, q.auth = Absent,
               h = IF q.forwarded = Absent THEN q.real ELSE q.forwarded,
               Identifier(q) = Head(h)
        PROVE  /\ Identifier(q) \in Ids \cup {Garbage}
               /\ Identifier(q) \in Owners(i, q)
    <2>1. Users(i, q) = {}
      BY <1>4 DEF Users
    <2>2. Head(h) \in Addresses(i, q)
      BY <1>4 DEF Addresses
    <2> QED
      BY <1>4, <2>1, <2>2, HeadOfList DEF Owners, Ids
  <1>5. CASE q.auth = Absent /\ q.forwarded # Absent
    BY <1>1, <1>4, <1>5 DEF Identifier
  <1>6. CASE q.auth = Absent /\ q.forwarded = Absent /\ q.real # Absent
    BY <1>1, <1>4, <1>6 DEF Identifier
  <1> QED
    BY <1>2, <1>3, <1>5, <1>6

\* extract_identifier finds an owner or fails.
LEMMA EnvoyIdentifier ==
    ASSUME NEW i, front[i] = "envoy", NEW q, IsEnvoyRequest(q)
    PROVE  LET who == ExtractIdentifier(q.entries) IN
           /\ who \in Ids \cup {Absent, Garbage}
           /\ who \notin {Absent, Garbage} => who \in Owners(i, q)
  <1> DEFINE e == q.entries
             At(key) == {n \in DOMAIN e : e[n].key = key}
             who == ExtractIdentifier(e)
             IsFirst(n) == \A m \in At("user_id") : n <= m
             IsLast(n) == \A m \in At("remote_address") : m <= n
  <1>0. /\ Len(e) \in Nat /\ DOMAIN e = 1 .. Len(e)
        /\ \A n \in DOMAIN e : IsEntry(e[n])
    BY DEF IsEnvoyRequest
  <1>1. /\ Users(i, q) = {e[n].value : n \in At("user_id")}
        /\ Addresses(i, q) = {Head(e[n].value) : n \in At("remote_address")}
    BY DEF Users, Addresses
  <1>2. CASE At("user_id") # {}
    <2> DEFINE first == CHOOSE n \in At("user_id") : IsFirst(n)
    <2>1. \E n \in At("user_id") : IsFirst(n)
      <3>1. At("user_id") \subseteq Nat
        BY <1>0
      <3> QED
        BY <1>2, <3>1, Least
    <2>2. first \in At("user_id")
      BY <2>1
    <2>3. who = e[first].value
      BY <1>2 DEF ExtractIdentifier
    <2>4. who \in ProtectedIds /\ who \in Users(i, q)
      <3> HIDE DEF first, who
      <3> QED
        BY <1>0, <1>1, <2>2, <2>3 DEF IsEntry
    <2> QED
      BY <2>4 DEF Ids, Owners
  <1>3. CASE At("user_id") = {} /\ At("remote_address") # {}
    <2> DEFINE last == CHOOSE n \in At("remote_address") : IsLast(n)
    <2>1. \E n \in At("remote_address") : IsLast(n)
      <3>1. At("remote_address") \subseteq 1 .. Len(e)
        BY <1>0
      <3> QED
        BY <1>0, <1>3, <3>1, Greatest
    <2>2. last \in At("remote_address")
      BY <2>1
    <2>3. who = Head(e[last].value)
      BY <1>3 DEF ExtractIdentifier
    <2>4. who \in PublicIds \cup {Garbage} /\ who \in Addresses(i, q)
      <3> HIDE DEF last, who
      <3> QED
        BY <1>0, <1>1, <2>2, <2>3, HeadOfList DEF IsEntry
    <2>5. Users(i, q) = {}
      BY <1>1, <1>3
    <2> QED
      BY <2>4, <2>5 DEF Ids, Owners
  <1>4. CASE At("user_id") = {} /\ At("remote_address") = {}
    BY <1>4 DEF ExtractIdentifier
  <1> QED
    BY <1>2, <1>3, <1>4

\* What does not come from the store carries no count and no wait.
LEMMA PlainAnswers ==
    ASSUME NEW c \in Code
    PROVE  /\ Plain(c) \in Answer /\ Plain(c) \notin Ids
           /\ Plain(c).code = c /\ Plain(c).remaining = 0
  <1>1. Plain(c) \in Answer /\ Plain(c).code = c /\ Plain(c).remaining = 0
    BY DEF Plain, Answer
  <1> QED
    BY <1>1, AdaptersAssumption

\* Every request either adapter can get is decided: it goes to the store, for
\* the bucket of an owner of it and a domain that is limited, or is answered
\* at once, with no count and no denial.
THEOREM Decided ==
    ASSUME NEW i \in Instances, front \in [Instances -> {"http", "envoy"}],
           NEW q \in Inputs(i)
    PROVE  /\ Decision(i, q) \in Ids \cup Answer
           /\ Decision(i, q) \in Ids =>
                 Decision(i, q) \in Owners(i, q) /\ Limited(i, q)
           /\ Decision(i, q) \in Answer =>
                 /\ Decision(i, q).remaining = 0
                 /\ Decision(i, q).code # "limited"
  <1> DEFINE Own == Code \ {"limited"}
  <1>0. \A x \in Ids \cup {Absent, Garbage} : x \notin Answer
    BY AdaptersAssumption
  <1>1. ASSUME NEW c \in Own, Decision(i, q) = Plain(c)
        PROVE  /\ Decision(i, q) \in Ids \cup Answer
               /\ Decision(i, q) \notin Ids
               /\ Decision(i, q).remaining = 0
               /\ Decision(i, q).code # "limited"
    BY <1>1, PlainAnswers
  <1>2. CASE front[i] = "http"
    <2>1. q \in HttpRequest /\ Decision(i, q) = HttpDecision(q)
      BY <1>2, ServiceAssumption DEF Inputs, Decision
    <2>2. CASE \E c \in Own : Decision(i, q) = Plain(c)
      BY <1>1, <2>2
    <2>3. CASE ~ \E c \in Own : Decision(i, q) = Plain(c)
      <3>1. /\ Decision(i, q) = Identifier(q) /\ Identifier(q) # Garbage
            /\ Limited(i, q)
        BY <1>2, <2>1, <2>3 DEF HttpDecision, HealthAnswer, Code, Limited
      <3> QED
        BY <1>0, <1>2, <2>1, <3>1, HttpIdentifier
    <2> QED
      BY <2>2, <2>3
  <1>3. CASE front[i] = "envoy"
    <2>1. IsEnvoyRequest(q) /\ Decision(i, q) = EnvoyDecision(q)
      BY <1>3, ServiceAssumption DEF Inputs, Decision
    <2>2. CASE \E c \in Own : Decision(i, q) = Plain(c)
      BY <1>1, <2>2
    <2>3. CASE ~ \E c \in Own : Decision(i, q) = Plain(c)
      <3> DEFINE who == ExtractIdentifier(q.entries)
      <3>1. /\ Decision(i, q) = who /\ who \notin {Absent, Garbage}
            /\ Limited(i, q)
        <4> HIDE DEF who
        <4> QED
          BY <1>3, <2>1, <2>3 DEF EnvoyDecision, Code, Limited, who
      <3>2. /\ who \in Ids \cup {Absent, Garbage}
            /\ who \notin {Absent, Garbage} => who \in Owners(i, q)
        BY <1>3, <2>1, EnvoyIdentifier
      <3> QED
        BY <1>0, <3>1, <3>2
    <2> QED
      BY <2>2, <2>3
  <1> QED
    BY <1>2, <1>3

-----------------------------------------------------------------------------
(***************************************************************************)
(* What the adapters answer.                                               *)
(***************************************************************************)

\* Whole seconds, of which there are never more than there is time.
LEMMA WholeSeconds ==
    ASSUME NEW d \in Nat
    PROVE  /\ RetryAfter(d) \in Nat /\ RetryAfter(d) <= d
           /\ d - RetryAfter(d) < Second
  <1>1. Second \in Nat /\ Second > 0
    BY AdaptersAssumption
  <1> QED
    BY <1>1 DEF RetryAfter

\* Envoy has no answer with a count above u32; a count is put only where the
\* request was let through.
Sayable(i, a) ==
    /\ a \in Answer
    /\ front[i] = "envoy" => a.remaining <= U32Max

LEMMA Consumptions ==
    ASSUME NEW i, NEW n \in Nat
    PROVE  /\ Sayable(i, Consumed(i, n))
           /\ Consumed(i, n) \in {[Plain("ok") EXCEPT !.remaining = n],
                                  Plain("error")}
           /\ Consumed(i, n) = Plain("error")
                 => front[i] # "http" /\ n > U32Max
  <1>1. /\ Plain("error") \in Answer /\ Plain("error").remaining = 0
        /\ U32Max \in Nat
    BY PlainAnswers, AdaptersAssumption DEF Code
  <1>2. /\ [Plain("ok") EXCEPT !.remaining = n] \in Answer
        /\ [Plain("ok") EXCEPT !.remaining = n].remaining = n
        /\ [Plain("ok") EXCEPT !.remaining = n].code = "ok"
    BY DEF Plain, Answer, Code
  <1>3. Plain("error").code = "error"
    BY DEF Plain
  <1> DEFINE ok == [Plain("ok") EXCEPT !.remaining = n]
  <1> HIDE DEF ok
  <1>4. CASE front[i] # "http" /\ n > U32Max
    <2>1. Consumed(i, n) = Plain("error")
      BY <1>4 DEF Consumed, EnvoyConsumed
    <2> QED
      BY <1>1, <1>4, <2>1 DEF Sayable
  <1>5. CASE ~(front[i] # "http" /\ n > U32Max)
    <2>1. Consumed(i, n) = ok
      BY <1>5 DEF Consumed, HttpConsumed, EnvoyConsumed, ok
    <2>2. ok # Plain("error")
      BY <1>2, <1>3 DEF ok
    <2>3. front[i] = "envoy" => n <= U32Max
      BY <1>1, <1>5
    <2>4. Sayable(i, ok)
      BY <1>2, <2>3 DEF Sayable, ok
    <2> QED
      BY <2>1, <2>2, <2>4 DEF ok
  <1> QED
    BY <1>4, <1>5

LEMMA Denials ==
    ASSUME NEW i, NEW d \in Nat
    PROVE  /\ Sayable(i, Denial(i, d))
           /\ Denial(i, d).code = "limited"
           /\ Denial(i, d).wait
                = IF front[i] = "http" THEN RetryAfter(d) ELSE d
  <1>1. RetryAfter(d) \in Nat /\ U32Max \in Nat
    BY WholeSeconds, AdaptersAssumption
  <1>2. ASSUME NEW w \in Nat
        PROVE  LET a == [Plain("limited") EXCEPT !.wait = w] IN
               /\ a \in Answer /\ a.remaining = 0 /\ a.wait = w
               /\ a.code = "limited"
    BY DEF Plain, Answer, Code
  <1> QED
    BY <1>1, <1>2 DEF Sayable, Denial, HttpExhausted, EnvoyExhausted

\* What the store knows of a bucket can be put into an answer.
LEMMA TokensLeftType ==
    ASSUME TypeOK, NEW r \in Requests
    PROVE  /\ TokensLeft(Mine(r)) \in Nat
           /\ TokensLeft(Mine(r)) > 0 =>
                 /\ Mine(r) # NoBucket /\ ~IsExpired(Mine(r), now)
                 /\ ~IsEmpty(Mine(r))
  <1>1. Mine(r) # NoBucket => Mine(r).tokens \in Nat
    BY MineIsBucket DEF Bucket
  <1> QED
    BY <1>1 DEF TokensLeft, AfterConsume, IsEmpty

-----------------------------------------------------------------------------
(***************************************************************************)
(* What the slots are served for.                                          *)
(***************************************************************************)

\* The choice of the adapter stands as long as the store serves the request.
Chosen(r) ==
    IF pc[r] = "idle" THEN asked[r] = NoRequest
    ELSE /\ asked[r] \in Inputs(Home[r])
         /\ Decision(Home[r], asked[r]) = id[r]

SlotsInv ==
    /\ front \in [Instances -> {"http", "envoy"}]
    /\ asked \in [Requests -> HttpRequests \cup EnvoyRequests \cup {NoRequest}]
    /\ \A r \in Requests : Chosen(r)

ReplyInv ==
    reply # NoReply =>
        /\ reply \in [to : Requests, answer : Answer]
        /\ Sayable(Home[reply.to], reply.answer)

\* What a request in hand would be told to wait if it were answered now, and
\* what was true of its key when its lease got nothing.
ResetInv ==
    /\ toReset \in [Requests -> Nat]
    /\ \A r \in Requests :
          IF pc[r] = "release" THEN result[r].wait <= MaxLag + toReset[r]
          ELSE result[r].wait = 0

FrontInv == SlotsInv /\ ReplyInv

\* Where a step of the store leaves the requests.
LEMMA ServeMoves ==
    ASSUME TypeOK, NEW r \in Requests, Serve(r) \/ Answered(r)
    PROVE  /\ id' = id /\ pc[r] # "idle" /\ pc'[r] # pc[r]
           /\ \A q \in Requests \ {r} : pc'[q] = "idle" <=> pc[q] = "idle"
  <1>0. pc \in [Requests -> Steps]
    BY DEF TypeOK
  <1>1. CASE ReleaseFlight(r)
    BY <1>0, <1>1 DEF ReleaseFlight, Woken
  <1>2. CASE Answered(r)
    BY <1>0, <1>2 DEF Answered, LeaseExec, LeaseFails, AfterError, Goto
  <1>3. CASE Serve(r) /\ ~ReleaseFlight(r)
    BY <1>0, <1>3
       DEF Serve, CheckDenied, CheckServed, CheckMissing, TakeFlight,
           JoinFlight, Register, LeaseReply, Install, MarkExhausted,
           ConsumeToken, ConsumeNothing, ConsumeExpired, Evict, Goto
  <1> QED
    BY <1>1, <1>2, <1>3

LEMMA DisconnectMoves ==
    ASSUME TypeOK, NEW r \in Requests,
           DisconnectFollower(r) \/ DisconnectLeader(r)
    PROVE  /\ id' = id /\ pc[r] \in {"waiting", "calling", "replied"}
           /\ pc' = [pc EXCEPT ![r] = "idle"]
  BY DEF DisconnectFollower, DisconnectLeader, Goto

LEMMA VanishMoves ==
    ASSUME NEW i \in Instances, Exit(i) \/ Crash(i)
    PROVE  /\ id' = id
           /\ \A r \in Requests :
                 pc'[r] = IF Home[r] = i THEN "idle" ELSE pc[r]
  BY DEF Exit, Crash, RequestsOf, requestVars

LEMMA BackgroundMoves ==
    ASSUME Background
    PROVE  UNCHANGED <<pc, id, asked>> /\ reply' = NoReply
  BY DEF Background, Clean, CleanupTick, CleanupRemove, ReceiveShutdown,
         ReturnTokens, ReturnFails, LateReturn, Terminate, Drain, OrphanExec,
         Tick, requestVars

\* A slot goes idle, goes on, or is given a request.
LEMMA SlotsKept ==
    ASSUME SlotsInv, front' = front,
           asked' \in [Requests -> HttpRequests \cup EnvoyRequests
                                     \cup {NoRequest}],
           \A r \in Requests :
              \/ pc'[r] = "idle" /\ asked'[r] = NoRequest
              \/ /\ pc'[r] = "idle" <=> pc[r] = "idle"
                 /\ asked'[r] = asked[r] /\ id'[r] = id[r]
              \/ /\ pc'[r] # "idle" /\ asked'[r] \in Inputs(Home[r])
                 /\ Decision(Home[r], asked'[r]) = id'[r]
    PROVE  SlotsInv'
  <1>1. \A r \in Requests : Chosen(r)'
    BY DEF SlotsInv, Chosen, Inputs, Decision
  <1> QED
    BY <1>1 DEF SlotsInv

LEMMA NotARequest ==
    ASSUME SlotsInv, NEW i \in Instances, NEW q \in Inputs(i)
    PROVE  q \in HttpRequests \cup EnvoyRequests /\ q # NoRequest
  BY ServiceAssumption DEF Inputs

LEMMA SlotsStep ==
    ASSUME TypeOK, SlotsInv, [ServiceNext]_<<vars, frontVars>>
    PROVE  SlotsInv'
  <1> DEFINE Texts == HttpRequests \cup EnvoyRequests \cup {NoRequest}
  <1>0. /\ pc \in [Requests -> Steps] /\ id \in [Requests -> Ids]
        /\ asked \in [Requests -> Texts] /\ \A r \in Requests : Chosen(r)
        /\ \A r \in Requests : Home[r] \in Instances
    BY StoreAssumption DEF TypeOK, SlotsInv
  <1>1. front' = front
    BY DEF ServiceNext, frontVars
  <1>2. ASSUME NEW r \in Requests, NEW q \in Inputs(Home[r]), Submit(r, q)
        PROVE  SlotsInv'
    <2>1. /\ pc' = [pc EXCEPT ![r] = "check"]
          /\ id' = [id EXCEPT ![r] = Decision(Home[r], q)]
          /\ asked' = [asked EXCEPT ![r] = q]
      BY <1>2 DEF Submit, Arrive, Goto
    <2>2. asked' \in [Requests -> Texts]
      BY <1>0, <2>1, NotARequest
    <2>3. \A p \in Requests \ {r} :
             pc'[p] = pc[p] /\ id'[p] = id[p] /\ asked'[p] = asked[p]
      BY <1>0, <2>1
    <2>4. pc'[r] # "idle" /\ asked'[r] = q /\ Decision(Home[r], q) = id'[r]
      BY <1>0, <2>1
    <2> QED
      BY <1>1, <2>2, <2>3, <2>4, SlotsKept
  <1>3. ASSUME UNCHANGED <<pc, id, asked>>
        PROVE  SlotsInv'
    BY <1>0, <1>1, <1>3, SlotsKept
  <1>4. ASSUME NEW r \in Requests, NEW q, Decline(r, q)
        PROVE  SlotsInv'
    BY <1>3, <1>4 DEF Decline, vars, requestVars
  <1>5. ASSUME NEW r \in Requests, Proceed(r)
        PROVE  SlotsInv'
    <2>1. /\ id' = id /\ pc[r] # "idle"
          /\ \A p \in Requests \ {r} : pc'[p] = "idle" <=> pc[p] = "idle"
      BY <1>5, ServeMoves DEF Proceed
    <2>2. CASE pc'[r] # "idle" /\ UNCHANGED asked
      BY <1>0, <1>1, <2>1, <2>2, SlotsKept
    <2>3. CASE pc'[r] = "idle" /\ asked' = [asked EXCEPT ![r] = NoRequest]
      <3>1. /\ asked' \in [Requests -> Texts] /\ asked'[r] = NoRequest
            /\ \A p \in Requests \ {r} : asked'[p] = asked[p]
        BY <1>0, <2>3
      <3> QED
        BY <1>1, <2>1, <2>3, <3>1, SlotsKept
    <2> QED
      BY <1>5, <2>2, <2>3 DEF Proceed
  <1>6. ASSUME NEW r \in Requests, Disconnect(r)
        PROVE  SlotsInv'
    <2>1. /\ id' = id /\ pc' = [pc EXCEPT ![r] = "idle"]
          /\ asked' = [asked EXCEPT ![r] = NoRequest]
      BY <1>6, DisconnectMoves DEF Disconnect
    <2>2. /\ asked' \in [Requests -> Texts] /\ asked'[r] = NoRequest
          /\ pc'[r] = "idle"
          /\ \A p \in Requests \ {r} :
                asked'[p] = asked[p] /\ pc'[p] = pc[p]
      BY <1>0, <2>1
    <2> QED
      BY <1>1, <2>1, <2>2, SlotsKept
  <1>7. ASSUME NEW i \in Instances, Vanish(i)
        PROVE  SlotsInv'
    <2>1. /\ id' = id
          /\ \A r \in Requests :
                pc'[r] = IF Home[r] = i THEN "idle" ELSE pc[r]
          /\ asked' = [r \in Requests |->
                         IF Home[r] = i THEN NoRequest ELSE asked[r]]
      BY <1>7, VanishMoves DEF Vanish
    <2>2. /\ asked' \in [Requests -> Texts]
          /\ \A r \in Requests :
                asked'[r] = IF Home[r] = i THEN NoRequest ELSE asked[r]
      BY <1>0, <2>1
    <2> QED
      BY <1>1, <2>1, <2>2, SlotsKept
  <1>8. CASE Background
    BY <1>3, <1>8, BackgroundMoves
  <1>9. CASE UNCHANGED <<vars, frontVars>>
    BY <1>3, <1>9 DEF vars, frontVars, requestVars
  <1> QED
    BY <1>2, <1>4, <1>5, <1>6, <1>7, <1>8, <1>9 DEF ServiceNext

-----------------------------------------------------------------------------
(***************************************************************************)
(* What the slots are answered.                                            *)
(***************************************************************************)

\* Where requests end, and with what.
LEMMA Endings ==
    ASSUME TypeOK, NEW r \in Requests, Serve(r) \/ Answered(r),
           pc'[r] = "idle"
    PROVE  /\ pc[r] \in {"check", "release", "consume", "evict"}
           /\ pc[r] = "check" => Mine(r) # NoBucket
  <1>0. pc \in [Requests -> Steps]
    BY DEF TypeOK
  <1>1. CASE Answered(r)
    BY <1>0, <1>1 DEF Answered, LeaseExec, LeaseFails, AfterError, Goto
  <1>2. CASE Serve(r)
    BY <1>0, <1>2
       DEF Serve, CheckDenied, CheckServed, CheckMissing, TakeFlight,
           JoinFlight, Register, LeaseReply, Install, MarkExhausted,
           ReleaseFlight, ConsumeToken, ConsumeNothing, ConsumeExpired, Evict,
           Goto, Denies
  <1> QED
    BY <1>1, <1>2

\* The answer at each of these ends can be said, and says that the request was
\* let through only after Store::consume did.
LEMMA AnswersSayable ==
    ASSUME TypeOK, NEW r \in Requests, Serve(r) \/ Answered(r),
           pc'[r] = "idle"
    PROVE  /\ Sayable(Home[r], AnswerOf(r))
           /\ pc[r] \in {"check", "release"} => AnswerOf(r).code # "ok"
           /\ pc[r] = "consume" =>
                 AnswerOf(r) = Consumed(Home[r], TokensLeft(Mine(r)))
           /\ pc[r] = "evict" => AnswerOf(r) = Consumed(Home[r], 0)
  <1>0. now \in Nat /\ result[r] \in Result
    BY ClockTypes DEF TypeOK
  <1>1. CASE pc[r] = "check"
    <2>1. TimeLeft(Mine(r), now) \in Nat
      BY <1>0, <1>1, Endings, MineIsBucket DEF TimeLeft, IsExpired, Bucket
    <2>2. AnswerOf(r) = Denial(Home[r], TimeLeft(Mine(r), now))
      BY <1>1 DEF AnswerOf
    <2> QED
      BY <1>1, <2>1, <2>2, Denials
  <1>2. CASE pc[r] = "release"
    <2>1. result[r].wait \in Nat
      BY <1>0 DEF Result
    <2>2. AnswerOf(r) = IF result[r] = CacheError THEN Plain("error")
                        ELSE Denial(Home[r], result[r].wait)
      BY <1>2 DEF AnswerOf
    <2>3. /\ Sayable(Home[r], Plain("error"))
          /\ Plain("error").code # "ok"
      BY PlainAnswers, AdaptersAssumption DEF Sayable, Code
    <2> QED
      BY <1>2, <2>1, <2>2, <2>3, Denials
  <1>3. CASE pc[r] = "consume"
    <2>1. AnswerOf(r) = Consumed(Home[r], TokensLeft(Mine(r)))
      BY <1>3 DEF AnswerOf
    <2> QED
      BY <1>3, <2>1, TokensLeftType, Consumptions
  <1>4. CASE pc[r] = "evict"
    <2>1. AnswerOf(r) = Consumed(Home[r], 0)
      BY <1>4 DEF AnswerOf
    <2> QED
      BY <1>4, <2>1, Consumptions
  <1> QED
    BY <1>1, <1>2, <1>3, <1>4, Endings

\* Who is answered by a step, and with what.
LEMMA Speaks ==
    ASSUME ServiceNext
    PROVE  \/ reply' = NoReply
           \/ \E r \in Requests : \E q \in Inputs(Home[r]) : Decline(r, q)
           \/ \E r \in Requests :
                 /\ Serve(r) \/ Answered(r)
                 /\ pc'[r] = "idle" /\ Reply(r, AnswerOf(r))
  BY BackgroundMoves DEF ServiceNext, Submit, Proceed, Disconnect, Vanish

LEMMA ReplyStep ==
    ASSUME TypeOK, SlotsInv, ReplyInv, [ServiceNext]_<<vars, frontVars>>
    PROVE  ReplyInv'
  <1>1. CASE UNCHANGED <<vars, frontVars>>
    BY <1>1 DEF frontVars, ReplyInv, Sayable
  <1>2. CASE reply' = NoReply
    BY <1>2 DEF ReplyInv
  <1>3. ASSUME NEW r \in Requests, NEW a, Reply(r, a), Sayable(Home[r], a),
               front' = front
        PROVE  ReplyInv'
    <2>1. /\ reply' = [to |-> r, answer |-> a] /\ a \in Answer
          /\ reply'.to = r /\ reply'.answer = a
      BY <1>3 DEF Reply, Sayable
    <2>2. Sayable(Home[r], a)'
      BY <1>3 DEF Sayable
    <2> QED
      BY <2>1, <2>2 DEF ReplyInv
  <1>4. CASE ServiceNext
    <2>0. front' = front
      BY <1>4 DEF ServiceNext
    <2>1. ASSUME NEW r \in Requests, NEW q, q \in Inputs(Home[r]), Decline(r, q)
          PROVE  ReplyInv'
      <3>1. /\ Reply(r, Decision(Home[r], q)) /\ Decision(Home[r], q) \in Answer
            /\ Home[r] \in Instances
        BY <2>1, StoreAssumption DEF Decline
      <3>2. Sayable(Home[r], Decision(Home[r], q))
        BY <2>1, <3>1, Decided, AdaptersAssumption DEF SlotsInv, Sayable
      <3> QED
        BY <1>3, <2>0, <3>1, <3>2
    <2>2. ASSUME NEW r \in Requests, Serve(r) \/ Answered(r), pc'[r] = "idle",
                 Reply(r, AnswerOf(r))
          PROVE  ReplyInv'
      BY <1>3, <2>0, <2>2, AnswersSayable
    <2> QED
      BY <1>2, <1>4, <2>1, <2>2, Speaks
  <1> QED
    BY <1>1, <1>4

LEMMA FrontHolds == ServiceSpec => [](TypeOK /\ FrontInv)
  <1>1. ServiceInit => FrontInv
    BY ServiceAssumption
       DEF ServiceInit, Init, FrontInv, SlotsInv, Chosen, ReplyInv
  <1>2. TypeOK /\ FrontInv /\ [ServiceNext]_<<vars, frontVars>> => FrontInv'
    BY SlotsStep, ReplyStep DEF FrontInv
  <1> QED
    BY <1>1, <1>2, ServiceIsStore, TypeCorrect, PTL
       DEF ServiceSpec

-----------------------------------------------------------------------------
(***************************************************************************)
(* Who pays, for what, and what the others are told.                       *)
(***************************************************************************)

\* Store::consume takes a token only from a bucket of an owner of the request,
\* and only for a domain that is limited: the bucket the adapter chose is
\* still the one when leases, retries and other requests have come between.
THEOREM OwnersAreCharged == ServiceSpec => OwnersCharged
  <1> DEFINE Charged ==
        \A r \in Requests :
            ConsumeToken(r) =>
                /\ id[r] \in Owners(Home[r], asked[r])
                /\ Limited(Home[r], asked[r])
  <1>1. TypeOK /\ FrontInv => Charged
    <2> SUFFICES ASSUME TypeOK, FrontInv, NEW r \in Requests, ConsumeToken(r)
                 PROVE  /\ id[r] \in Owners(Home[r], asked[r])
                        /\ Limited(Home[r], asked[r])
      OBVIOUS
    <2>1. /\ asked[r] \in Inputs(Home[r])
          /\ Decision(Home[r], asked[r]) = id[r]
      BY DEF ConsumeToken, FrontInv, SlotsInv, Chosen
    <2>2. id[r] \in Ids /\ Home[r] \in Instances
      BY StoreAssumption DEF TypeOK
    <2> QED
      BY <2>1, <2>2, Decided DEF FrontInv, SlotsInv
  <1>2. ServiceSpec => [][Charged]_<<vars, frontVars>>
    <2> HIDE DEF Charged
    <2> QED
      BY <1>1, FrontHolds, PTL DEF ServiceSpec
  <1> QED
    BY <1>2 DEF OwnersCharged

\* A step that takes a token is the step of a slot.
LEMMA ConsumeIsProceed ==
    ASSUME TypeOK, NEW r \in Requests, ConsumeToken(r), ServiceNext
    PROVE  Reply(r, Consumed(Home[r], AfterConsume(Mine(r))))
  <1>0. /\ pc \in [Requests -> Steps] /\ Home[r] \in Instances
        /\ id[r] \in Ids
        /\ buckets \in [Instances -> [Ids -> Bucket \cup {NoBucket}]]
    BY StoreAssumption DEF TypeOK
  <1>1. /\ pc[r] = "consume" /\ pc' = [pc EXCEPT ![r] = "idle"]
        /\ Mine(r) \in Bucket
        /\ ~IsExpired(Mine(r), now) /\ Mine(r) # NoBucket
        /\ ~IsEmpty(Mine(r))
        /\ buckets'[Home[r]][id[r]] = BucketAfterConsume(Mine(r))
    BY <1>0, MineIsBucket DEF ConsumeToken, Goto, SetBucket
  <1>2. /\ pc'[r] = "idle"
        /\ \A q \in Requests \ {r} : pc'[q] = pc[q]
    BY <1>0, <1>1
  <1>3. ASSUME NEW q \in Requests, NEW x, Submit(q, x) \/ Decline(q, x)
        PROVE  FALSE
    <2>1. CASE Submit(q, x)
      <3>1. pc[q] = "idle" /\ pc' = [pc EXCEPT ![q] = "check"]
        BY <2>1 DEF Submit, Arrive, Goto
      <3> QED
        BY <1>0, <1>1, <1>2, <3>1
    <2>2. CASE Decline(q, x)
      BY <1>1, <1>2, <2>2 DEF Decline, vars, requestVars
    <2> QED
      BY <1>3, <2>1, <2>2
  <1>4. ASSUME NEW q \in Requests, Disconnect(q)
        PROVE  FALSE
    BY <1>0, <1>1, <1>2, <1>4, DisconnectMoves DEF Disconnect
  <1>5. ASSUME NEW i \in Instances, Vanish(i)
        PROVE  FALSE
    <2>1. Home[r] = i
      BY <1>1, <1>2, <1>5, VanishMoves DEF Vanish
    <2>2. CASE Exit(i)
      BY <1>1, <2>1, <2>2 DEF Exit, RequestsOf
    <2>3. CASE Crash(i)
      <3>1. buckets'[i][id[r]] = NoBucket
        BY <1>0, <2>1, <2>3 DEF Crash, Restart, EmptyMap
      <3>2. BucketAfterConsume(Mine(r)) \in Bucket
        BY <1>1 DEF BucketAfterConsume, AfterConsume, IsEmpty, Bucket
      <3> QED
        BY <1>1, <2>1, <3>1, <3>2, NoBucketAssumption
    <2> QED
      BY <1>5, <2>2, <2>3 DEF Vanish
  <1>6. ~Background
    BY <1>1, <1>2, BackgroundMoves
  <1>7. PICK q \in Requests : Proceed(q)
    BY <1>3, <1>4, <1>5, <1>6 DEF ServiceNext
  <1>8. q = r
    BY <1>2, <1>7, ServeMoves DEF Proceed
  <1>9. (Serve(r) \/ Answered(r)) /\ Reply(r, AnswerOf(r))
    BY <1>2, <1>7, <1>8 DEF Proceed
  <1>10. TokensLeft(Mine(r)) = AfterConsume(Mine(r))
    BY <1>1 DEF TokensLeft
  <1> QED
    BY <1>1, <1>2, <1>9, <1>10, AnswersSayable

\* A step that says that something is left takes a token.
LEMMA CountIsPaid ==
    ASSUME TypeOK, FrontInv, ServiceNext, NEW r \in Requests,
           NEW n \in Nat, n > 0,
           reply' = [to |-> r, answer |-> [Plain("ok") EXCEPT !.remaining = n]]
    PROVE  ConsumeToken(r)
  <1> DEFINE ok == [Plain("ok") EXCEPT !.remaining = n]
  <1>1. ok \in Answer /\ ok.remaining = n /\ ok.code = "ok"
    BY DEF Plain, Answer, Code
  <1> HIDE DEF ok
  <1>2. reply' # NoReply
    <2>1. reply' \in [to : Requests, answer : Answer]
      BY <1>1 DEF ok
    <2> QED
      BY <2>1, ServiceAssumption
  <1>3. reply'.to = r /\ reply'.answer = ok
    BY DEF ok
  <1>4. ASSUME NEW q \in Requests, NEW x, x \in Inputs(Home[q]), Decline(q, x)
        PROVE  FALSE
    <2>1. /\ Decision(Home[q], x) \in Answer /\ Home[q] \in Instances
          /\ reply' = [to |-> q, answer |-> Decision(Home[q], x)]
      BY <1>4, StoreAssumption DEF Decline, Reply
    <2>2. Decision(Home[q], x).remaining = 0
      BY <1>4, <2>1, Decided DEF FrontInv, SlotsInv
    <2> QED
      BY <1>1, <1>3, <2>1, <2>2
  <1>5. PICK q \in Requests : /\ Serve(q) \/ Answered(q)
                             /\ pc'[q] = "idle" /\ Reply(q, AnswerOf(q))
    BY <1>2, <1>4, Speaks
  <1>6. q = r /\ AnswerOf(r) = ok
    BY <1>3, <1>5 DEF Reply
  <1>7. pc[r] \in {"consume", "evict"}
    BY <1>1, <1>5, <1>6, Endings, AnswersSayable
  <1>8. ASSUME NEW m \in Nat, Consumed(Home[r], m) = ok
        PROVE  m = n
    <2>1. Plain("error").code = "error"
      BY DEF Plain
    <2>2. [Plain("ok") EXCEPT !.remaining = m].remaining = m
      BY DEF Plain
    <2> QED
      BY <1>1, <1>8, <2>1, <2>2, Consumptions
  <1>9. pc[r] = "consume" /\ TokensLeft(Mine(r)) = n
    BY <1>5, <1>6, <1>7, <1>8, AnswersSayable, TokensLeftType
  <1>10. /\ Mine(r) # NoBucket /\ ~IsExpired(Mine(r), now)
         /\ ~IsEmpty(Mine(r))
    BY <1>9, TokensLeftType
  <1> QED
    BY <1>5, <1>6, <1>9, <1>10
       DEF Serve, Answered, CheckDenied, CheckServed, CheckMissing, TakeFlight,
           JoinFlight, Register, LeaseReply, Install, MarkExhausted,
           ReleaseFlight, ConsumeNothing, ConsumeExpired, Evict, LeaseExec,
           LeaseFails

\* Every token that leaves a bucket is answered with what is left there, in the
\* step that takes it, and no other answer says that something is left; the
\* one token spent on an error is that of a count Envoy has no place for.
THEOREM TokensAreAnswered == ServiceSpec => TokensBuyAnswers
  <1> DEFINE Bought(r) ==
        LET left == AfterConsume(Mine(r))
            Said(a) == reply' = [to |-> r, answer |-> a]
        IN
        /\ ConsumeToken(r) =>
              \/ Said([Plain("ok") EXCEPT !.remaining = left])
              \/ /\ front[Home[r]] = "envoy" /\ left > U32Max
                 /\ Said(Plain("error"))
        /\ \A n \in 1 .. Quota(id[r]) :
              Said([Plain("ok") EXCEPT !.remaining = n]) => ConsumeToken(r)
  <1> DEFINE AllBought == \A r \in Requests : Bought(r)
  <1>1. TypeOK /\ FrontInv /\ [ServiceNext]_<<vars, frontVars>>
          => [AllBought]_<<vars, frontVars>>
    <2> SUFFICES ASSUME TypeOK, FrontInv, ServiceNext, NEW r \in Requests
                 PROVE  Bought(r)
      OBVIOUS
    <2> DEFINE left == AfterConsume(Mine(r))
    <2>1. ASSUME ConsumeToken(r)
          PROVE  \/ reply' = [to |-> r, answer |->
                                [Plain("ok") EXCEPT !.remaining = left]]
                 \/ /\ front[Home[r]] = "envoy" /\ left > U32Max
                    /\ reply' = [to |-> r, answer |-> Plain("error")]
      <3>1. reply' = [to |-> r, answer |-> Consumed(Home[r], left)]
        BY <2>1, ConsumeIsProceed DEF Reply
      <3>2. left \in Nat
        BY <2>1, MineIsBucket DEF ConsumeToken, AfterConsume, IsEmpty, Bucket
      <3>3. front[Home[r]] \in {"http", "envoy"}
        BY StoreAssumption DEF FrontInv, SlotsInv
      <3> QED
        BY <3>1, <3>2, <3>3, Consumptions
    <2>2. ASSUME NEW n \in 1 .. Quota(id[r]),
                 reply' = [to |-> r, answer |->
                             [Plain("ok") EXCEPT !.remaining = n]]
          PROVE  ConsumeToken(r)
      <3>1. n \in Nat /\ n > 0
        <4>1. Quota(id[r]) \in Nat
          BY PolicyFacts DEF Quota, TypeOK
        <4> QED
          BY <4>1
      <3> QED
        BY <2>2, <3>1, CountIsPaid
    <2> QED
      BY <2>1, <2>2
  <1>2. ServiceSpec => [][AllBought]_<<vars, frontVars>>
    <2> HIDE DEF AllBought
    <2> QED
      BY <1>1, FrontHolds, PTL DEF ServiceSpec
  <1> QED
    BY <1>2 DEF TokensBuyAnswers

-----------------------------------------------------------------------------
(***************************************************************************)
(* What the denied are told.                                               *)
(***************************************************************************)
LEMMA ResetType ==
    ASSUME TypeOK, NEW b \in Ids
    PROVE  TimeToReset(b) \in Nat
  <1>1. now \in Nat /\ keys[b].window \in Nat
    BY ClockTypes
  <1> QED
    BY <1>1 DEF TimeToReset, Alive

\* A wait that ends with the window is no longer than what is left of it.
LEMMA WithinReset ==
    ASSUME TypeOK, NEW b \in Ids, NEW d \in Nat,
           d # 0 => /\ Alive(b) => now + d <= keys[b].window + MaxLag
                    /\ ~Alive(b) => d < MaxLag
    PROVE  d <= MaxLag + TimeToReset(b)
  <1>1. now \in Nat /\ keys[b].window \in Nat /\ MaxLag \in Nat
    BY ClockTypes, StoreAssumption
  <1> QED
    BY <1>1 DEF TimeToReset, Alive

\* So is what Store::check finds in the bucket it denies.
LEMMA BucketReset ==
    ASSUME TypeOK, WindowInv, OrderInv, NEW r \in Requests,
           Mine(r) # NoBucket
    PROVE  /\ TimeLeft(Mine(r), now) \in Nat
           /\ TimeLeft(Mine(r), now) <= MaxLag + TimeToReset(id[r])
  <1>1. id[r] \in Ids /\ now \in Nat
    BY WindowTypes, ClockTypes
  <1>2. TimeLeft(Mine(r), now) \in Nat
    BY <1>1, MineIsBucket DEF TimeLeft, IsExpired, Bucket
  <1> QED
    BY <1>1, <1>2, BucketWait, WithinReset

\* So is what Store::lease finds there, or in the reply, when it got nothing.
LEMMA MarkedReset ==
    ASSUME TypeOK, WindowInv, OrderInv, NEW r \in Requests, MarkExhausted(r)
    PROVE  result'[r].wait <= MaxLag + TimeToReset(id[r])
  <1>1. /\ id[r] \in Ids /\ pc[r] = "install" /\ call[r].ttl \in Nat
        /\ result \in [Requests -> Result]
    BY WindowTypes DEF MarkExhausted, TypeOK, Call
  <1>2. CASE Mine(r) # NoBucket
    <2>1. result'[r].wait = TimeLeft(Mine(r), now)
      BY <1>1, <1>2 DEF MarkExhausted, Ends, Exhausted
    <2> QED
      BY <1>2, <2>1, BucketReset
  <1>3. CASE Mine(r) = NoBucket
    <2>1. result'[r].wait = call[r].ttl
      BY <1>1, <1>3 DEF MarkExhausted, Ends, Exhausted
    <2> QED
      BY <1>1, <2>1, ReplyWait, WithinReset
  <1> QED
    BY <1>2, <1>3

\* What the steps of the store do to results.
LEMMA ServeResults ==
    ASSUME TypeOK, NEW r \in Requests, Serve(r) \/ Answered(r),
           pc[r] # "release" => result[r].wait = 0
    PROVE  /\ \A q \in Requests \ {r} :
                 /\ result'[q] = result[q]
                 /\ pc'[q] = "release" <=> pc[q] = "release"
           /\ pc'[r] = "release" \/ result'[r].wait = 0
           /\ MarkExhausted(r) => pc'[r] = "release"
           /\ ~MarkExhausted(r) => result'[r].wait = 0
  <1>0. pc \in [Requests -> Steps] /\ result \in [Requests -> Result]
    BY DEF TypeOK
  <1>1. CASE ReleaseFlight(r)
    BY <1>0, <1>1 DEF ReleaseFlight, Woken, MarkExhausted, Ends, Success
  <1>2. CASE Answered(r)
    BY <1>0, <1>2
       DEF Answered, LeaseExec, LeaseFails, AfterError, Goto, Ends, CacheError,
           MarkExhausted
  <1>3. CASE MarkExhausted(r)
    BY <1>0, <1>3 DEF MarkExhausted, Goto, Ends
  <1>4. CASE Serve(r) /\ ~ReleaseFlight(r) /\ ~MarkExhausted(r)
    <2>1. /\ result' = result /\ pc[r] # "release"
          /\ \E step \in Steps : pc' = [pc EXCEPT ![r] = step]
      BY <1>4
         DEF Serve, CheckDenied, CheckServed, CheckMissing, TakeFlight,
             JoinFlight, Register, LeaseReply, Install, ConsumeToken,
             ConsumeNothing, ConsumeExpired, Evict, Goto, Steps, Leading
    <2> QED
      BY <1>0, <1>4, <2>1
  <1> QED
    BY <1>1, <1>2, <1>3, <1>4

LEMMA ResetStep ==
    ASSUME TypeOK, WindowInv, OrderInv, ResetInv,
           [ServiceNext]_<<vars, frontVars>>
    PROVE  ResetInv'
  <1>0. /\ toReset \in [Requests -> Nat] /\ pc \in [Requests -> Steps]
        /\ id \in [Requests -> Ids]
        /\ \A r \in Requests : pc[r] # "release" => result[r].wait = 0
    BY DEF ResetInv, TypeOK
  <1>1. ASSUME UNCHANGED <<pc, result, toReset>>
        PROVE  ResetInv'
    BY <1>1 DEF ResetInv
  <1>2. ASSUME NEW r \in Requests, NEW q, Submit(r, q)
        PROVE  ResetInv'
    <2>1. /\ pc[r] = "idle" /\ pc' = [pc EXCEPT ![r] = "check"]
          /\ UNCHANGED <<result, toReset>>
      BY <1>2 DEF Submit, Arrive, Goto
    <2> QED
      BY <1>0, <2>1 DEF ResetInv
  <1>3. ASSUME NEW r \in Requests, NEW q, Decline(r, q)
        PROVE  ResetInv'
    BY <1>1, <1>3 DEF Decline, vars, requestVars
  <1>4. ASSUME NEW r \in Requests, Proceed(r)
        PROVE  ResetInv'
    <2>1. Serve(r) \/ Answered(r)
      BY <1>4 DEF Proceed
    <2>2. /\ \A q \in Requests \ {r} :
                /\ result'[q] = result[q]
                /\ pc'[q] = "release" <=> pc[q] = "release"
          /\ pc'[r] = "release" \/ result'[r].wait = 0
          /\ ~MarkExhausted(r) => result'[r].wait = 0
          /\ MarkExhausted(r) => pc'[r] = "release"
      BY <1>0, <2>1, ServeResults
    <2>3. TimeToReset(id[r]) \in Nat /\ MaxLag \in Nat
      BY <1>0, ResetType, StoreAssumption
    <2>4. CASE MarkExhausted(r)
      <3>1. toReset' = [toReset EXCEPT ![r] = TimeToReset(id[r])]
        BY <1>4, <2>2, <2>4 DEF Proceed
      <3>2. /\ toReset' \in [Requests -> Nat]
            /\ toReset'[r] = TimeToReset(id[r])
            /\ \A q \in Requests \ {r} : toReset'[q] = toReset[q]
        BY <1>0, <2>3, <3>1
      <3>3. result'[r].wait <= MaxLag + toReset'[r]
        BY <2>4, <3>2, MarkedReset
      <3> QED
        BY <2>2, <2>4, <3>2, <3>3 DEF ResetInv
    <2>5. CASE ~MarkExhausted(r)
      <3>1. \E n \in Nat : toReset' = [toReset EXCEPT ![r] = n]
        BY <1>0, <1>4, <2>5 DEF Proceed
      <3>2. /\ toReset' \in [Requests -> Nat]
            /\ \A q \in Requests \ {r} : toReset'[q] = toReset[q]
        BY <1>0, <3>1
      <3>3. result'[r].wait <= MaxLag + toReset'[r]
        BY <2>2, <2>3, <2>5, <3>2
      <3> QED
        BY <2>2, <2>5, <3>2, <3>3 DEF ResetInv
    <2> QED
      BY <2>4, <2>5
  <1>5. ASSUME NEW r \in Requests, Disconnect(r)
        PROVE  ResetInv'
    <2>1. /\ pc[r] \in {"waiting", "calling", "replied"}
          /\ pc' = [pc EXCEPT ![r] = "idle"]
          /\ UNCHANGED <<result, toReset>>
      BY <1>5, DisconnectMoves
         DEF Disconnect, DisconnectFollower, DisconnectLeader
    <2> QED
      BY <1>0, <2>1 DEF ResetInv
  <1>6. ASSUME NEW i \in Instances, Vanish(i)
        PROVE  ResetInv'
    <2>1. toReset' = [r \in Requests |->
                        IF Home[r] = i THEN 0 ELSE toReset[r]]
      BY <1>6 DEF Vanish
    <2>2. ASSUME NEW r \in Requests
          PROVE  IF Home[r] = i
                 THEN pc'[r] = "idle" /\ result'[r].wait = 0
                 ELSE pc'[r] = pc[r] /\ result'[r] = result[r]
      <3>1. CASE Exit(i)
        BY <1>0, <2>2, <3>1 DEF Exit, RequestsOf, requestVars
      <3>2. CASE Crash(i)
        BY <2>2, <3>2 DEF Crash, Success
      <3> QED
        BY <1>6, <3>1, <3>2 DEF Vanish
    <2>3. /\ toReset' \in [Requests -> Nat]
          /\ \A r \in Requests : Home[r] # i => toReset'[r] = toReset[r]
      BY <1>0, <2>1
    <2> QED
      BY <1>0, <2>2, <2>3 DEF ResetInv
  <1>7. CASE Background
    <2>1. UNCHANGED <<pc, result, toReset>>
      BY <1>7
         DEF Background, Clean, CleanupTick, CleanupRemove, ReceiveShutdown,
             ReturnTokens, ReturnFails, LateReturn, Terminate, Drain,
             OrphanExec, Tick, requestVars
    <2> QED
      BY <1>1, <2>1
  <1>8. CASE UNCHANGED <<vars, frontVars>>
    BY <1>1, <1>8 DEF vars, frontVars, requestVars
  <1> QED
    BY <1>2, <1>3, <1>4, <1>5, <1>6, <1>7, <1>8 DEF ServiceNext

LEMMA ResetHolds ==
    ServiceSpec => [](TypeOK /\ FrontInv /\ WindowInv /\ OrderInv /\ ResetInv)
  <1>1. ServiceInit => ResetInv
    BY DEF ServiceInit, Init, ResetInv, Success
  <1>2. TypeOK /\ WindowInv /\ OrderInv /\ ResetInv
          /\ [ServiceNext]_<<vars, frontVars>> => ResetInv'
    BY ResetStep
  <1> QED
    BY <1>1, <1>2, ServiceIsStore, FrontHolds, WindowsHold, OrderHolds, PTL
       DEF ServiceSpec

\* A slot is served for a request of its adapter's or for none, whatever the
\* store, its peers and the clients do meanwhile, and no adapter gives an
\* answer its protocol has no place for: limit_remaining is always a u32.
THEOREM ServiceTypes == ServiceSpec => []ServiceTypeOK
  <1>1. FrontInv /\ ResetInv => ServiceTypeOK
    BY DEF FrontInv, SlotsInv, Chosen, ReplyInv, Sayable, ResetInv,
           ServiceTypeOK
  <1> QED
    BY <1>1, ResetHolds, PTL

\* What stands in an answer that denies ends with the window that was open when
\* the request was denied, but for the preemption of the task: the bucket gives
\* it in the step that answers, a lease that got nothing in an earlier one, and
\* whole seconds are rounded down.
THEOREM WaitsAreTold == ServiceSpec => WaitIsTold
  <1> DEFINE Told ==
        reply' # NoReply /\ reply'.answer.code = "limited" =>
            LET r == reply'.to IN
            reply'.answer.wait <=
                MaxLag + (IF pc[r] = "check" THEN TimeToReset(id[r])
                          ELSE toReset[r])
  <1>1. TypeOK /\ FrontInv /\ WindowInv /\ OrderInv /\ ResetInv
          /\ [ServiceNext]_<<vars, frontVars>>
          => [Told]_<<vars, frontVars>>
    <2> SUFFICES ASSUME TypeOK, FrontInv, WindowInv, OrderInv, ResetInv,
                        ServiceNext, reply' # NoReply,
                        reply'.answer.code = "limited"
                 PROVE  LET r == reply'.to IN
                        reply'.answer.wait <=
                          MaxLag + (IF pc[r] = "check" THEN TimeToReset(id[r])
                                    ELSE toReset[r])
      OBVIOUS
    <2>1. ASSUME NEW r \in Requests, NEW q \in Inputs(Home[r]), Decline(r, q)
          PROVE  FALSE
      <3>1. /\ Decision(Home[r], q) \in Answer /\ Home[r] \in Instances
            /\ reply' = [to |-> r, answer |-> Decision(Home[r], q)]
        BY <2>1, StoreAssumption DEF Decline, Reply
      <3>2. Decision(Home[r], q).code # "limited"
        BY <3>1, Decided DEF FrontInv, SlotsInv
      <3> QED
        BY <3>1, <3>2
    <2>2. PICK r \in Requests : /\ Serve(r) \/ Answered(r)
                               /\ pc'[r] = "idle" /\ Reply(r, AnswerOf(r))
      BY <2>1, Speaks
    <2>3. /\ reply'.to = r /\ reply'.answer = AnswerOf(r)
          /\ AnswerOf(r).code = "limited"
      BY <2>2 DEF Reply
    <2>4. pc[r] \in {"check", "release", "consume", "evict"}
      BY <2>2, Endings
    <2>5. MaxLag \in Nat /\ toReset[r] \in Nat /\ TimeToReset(id[r]) \in Nat
      BY ResetType, StoreAssumption, WindowTypes DEF ResetInv
    <2>6. ASSUME NEW d \in Nat, AnswerOf(r) = Denial(Home[r], d)
          PROVE  AnswerOf(r).wait \in Nat /\ AnswerOf(r).wait <= d
      BY <2>6, Denials, WholeSeconds
    <2>7. CASE pc[r] = "check"
      <3>1. /\ TimeLeft(Mine(r), now) \in Nat
            /\ TimeLeft(Mine(r), now) <= MaxLag + TimeToReset(id[r])
        BY <2>2, <2>7, Endings, BucketReset
      <3>2. AnswerOf(r) = Denial(Home[r], TimeLeft(Mine(r), now))
        BY <2>7 DEF AnswerOf
      <3> QED
        BY <2>3, <2>5, <2>6, <2>7, <3>1, <3>2
    <2>8. CASE pc[r] = "release"
      <3>1. /\ result[r].wait \in Nat
            /\ result[r].wait <= MaxLag + toReset[r]
        BY <2>8 DEF TypeOK, Result, ResetInv
      <3>2. Plain("error").code # "limited"
        BY DEF Plain
      <3>3. AnswerOf(r) = Denial(Home[r], result[r].wait)
        BY <2>3, <2>8, <3>2 DEF AnswerOf
      <3> QED
        BY <2>3, <2>5, <2>6, <2>8, <3>1, <3>3
    <2>9. CASE pc[r] \in {"consume", "evict"}
      <3>1. \E n \in Nat : AnswerOf(r) = Consumed(Home[r], n)
        BY <2>2, <2>9, AnswersSayable, TokensLeftType
      <3>2. AnswerOf(r).code \in {"ok", "error"}
        BY <3>1, Consumptions DEF Plain
      <3> QED
        BY <2>3, <3>2
    <2> QED
      BY <2>4, <2>7, <2>8, <2>9
  <1>2. ServiceSpec => [][Told]_<<vars, frontVars>>
    <2> HIDE DEF Told
    <2> QED
      BY <1>1, ResetHolds, PTL DEF ServiceSpec
  <1> QED
    BY <1>2 DEF WaitIsTold

=============================================================================
