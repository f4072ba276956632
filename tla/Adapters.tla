------------------------------- MODULE Adapters -------------------------------
(***************************************************************************)
(* The two front ends of the store as functions: what a request asks for   *)
(* (a bucket id, or an answer without the store) and how the outcome of    *)
(* Store::consume is put into an answer.                                   *)
(*                                                                         *)
(* Texts are tokens: a host is a sequence of names and separators, a list  *)
(* of addresses a sequence of entries, an address or a subject the bucket  *)
(* id it stands for.  Garbage is a text that is none of these.             *)
(***************************************************************************)
EXTENDS Config, Sequences

CONSTANTS
    Absent,     \* a header or descriptor that is not there
    Garbage,    \* a text that does not parse
    Domains,    \* config.domains
    U32Max,     \* the largest u32
    Second      \* ticks of the clock in a second


(***************************************************************************)
(* Answers.  `wait` is in ticks; `remaining` and `wait` are zero where the *)
(* answer does not carry them.                                             *)
(***************************************************************************)
Code == {"up", "unlimited", "ok", "limited", "error", "bad_request",
         "unauthorized", "invalid_argument", "not_found", "not_allowed"}

Answer == [code : Code, remaining : Nat, wait : Nat]

Plain(code) == [code |-> code, remaining |-> 0, wait |-> 0]

ASSUME AdaptersAssumption ==
    /\ Absent # Garbage /\ {Absent, Garbage} \cap Ids = {}
    /\ \A x \in Ids \cup {Absent, Garbage} : x \notin Answer
    /\ U32Max \in Nat /\ Second \in Nat \ {0}

(***************************************************************************)
(* What is asked.  A user is whatever a token that decodes or Envoy names, *)
(* so always a bucket id; an address may not parse.  A text that is split  *)
(* at its commas has one entry at least.                                   *)
(***************************************************************************)
Lists == Seq(PublicIds \cup {Garbage}) \ {<<>>}

HttpRequest ==
    [method : STRING, path : STRING,
     auth : {Absent, Garbage} \cup ProtectedIds,
     host : {Absent, Garbage} \cup (Seq(STRING) \ {<<>>}),
     forwarded : {Absent} \cup Lists, real : {Absent} \cup Lists]

IsEntry(e) ==
    /\ e.key = "user_id" => e.value \in ProtectedIds
    /\ e.key = "remote_address" => e.value \in Lists

IsEnvoyRequest(q) ==
    /\ Len(q.entries) \in Nat /\ DOMAIN q.entries = 1 .. Len(q.entries)
    /\ \A n \in DOMAIN q.entries : IsEntry(q.entries[n])

\* Store::should_handle
Handles(domain) == domain \in Domains

-----------------------------------------------------------------------------
(***************************************************************************)
(* The HTTP adapter.                                                       *)
(***************************************************************************)
\* s.split(sep).next()
Before(s, sep) ==
    LET n == CHOOSE n \in 0 .. Len(s) :
                /\ \A k \in 1 .. n : s[k] # sep
                /\ n < Len(s) => s[n + 1] = sep
    IN SubSeq(s, 1, n)

\* Host::domain: brackets or the port go first, then all but the first label.
Domain(host) ==
    IF Head(host) = "[" THEN Before(Tail(Before(host, "]")), ".")
    ELSE Before(Before(host, ":"), ".")

\* A bug: the address is looked at before the token.
IdentifierByAddress(q) ==
    LET header == IF q.forwarded # Absent THEN q.forwarded ELSE q.real IN
    IF header # Absent THEN Head(header)
    ELSE IF q.auth # Absent THEN q.auth ELSE Garbage

\* Identifier::from_request_parts: the claims, else the first entry of
\* X-Forwarded-For, and X-Real-IP only if that header is not there at all.
Identifier(q) ==
    LET header == IF q.forwarded # Absent THEN q.forwarded ELSE q.real IN
    IF q.auth # Absent THEN q.auth
    ELSE IF header # Absent THEN Head(header) ELSE Garbage

\* init_router has a route that asks nobody: get() answers HEAD as well.
Health(q) == q.path = "/health"

HealthAnswer(q) ==
    Plain(IF q.method \in {"GET", "HEAD"} THEN "up" ELSE "not_allowed")

\* find_token_claims is layered over the rest of the router, over the answers
\* to what it does not know as well, and runs before any extractor: a token
\* that does not decode ends the request, though an address may be there.
TokenRefused(q) == q.auth = Garbage

\* Host::from_request_parts
HostMissing(q) == q.host \in {Absent, Garbage}

\* The routes, then `consume` after its extractors, from left to right.  Who
\* asks is looked at before the domain is.
HttpDecision(q) ==
    IF Health(q) THEN HealthAnswer(q)
    ELSE IF TokenRefused(q) THEN Plain("bad_request")
    ELSE IF q.path # "/consume" THEN Plain("not_found")
    ELSE IF q.method # "POST" THEN Plain("not_allowed")
    ELSE IF HostMissing(q) THEN Plain("bad_request")
    ELSE IF Identifier(q) = Garbage THEN Plain("unauthorized")
    ELSE IF ~Handles(Domain(q.host)) THEN Plain("unlimited")
    ELSE Identifier(q)

\* A bug: Ok(0) is taken for an exhausted bucket.
HttpConsumedSome(n) ==
    [Plain(IF n = 0 THEN "limited" ELSE "ok") EXCEPT !.remaining = n]

HttpConsumed(n) == [Plain("ok") EXCEPT !.remaining = n]

\* A bug: the wait is rounded up.
RetryAfterUp(d) == ((d + Second - 1) \div Second) * Second

\* Retry-After has the whole seconds.
RetryAfter(d) == (d \div Second) * Second

HttpExhausted(d) == [Plain("limited") EXCEPT !.wait = RetryAfter(d)]

-----------------------------------------------------------------------------
(***************************************************************************)
(* The Envoy adapter.  The entries of all descriptors are one sequence, in *)
(* the order in which the nested loops meet them.                          *)
(***************************************************************************)
\* extract_identifier: the first user_id returns at once, wherever it stands;
\* without one the last remote_address is the one remembered.
ExtractIdentifier(entries) ==
    LET At(key) == {n \in DOMAIN entries : entries[n].key = key}
        first == CHOOSE n \in At("user_id") :
                    \A m \in At("user_id") : n <= m
        last == CHOOSE n \in At("remote_address") :
                    \A m \in At("remote_address") : m <= n
    IN
    IF At("user_id") # {} THEN entries[first].value
    ELSE IF At("remote_address") # {} THEN Head(entries[last].value)
    ELSE Absent

\* should_rate_limit: the domain is tested before anything else.
EnvoyDecision(q) ==
    LET who == ExtractIdentifier(q.entries) IN
    IF ~Handles(q.domain) THEN Plain("unlimited")
    ELSE IF who = Absent THEN Plain("unauthorized")
    ELSE IF who = Garbage THEN Plain("invalid_argument")
    ELSE who

\* A bug: nobody asks whether it fits.
EnvoyConsumedUnchecked(n) == [Plain("ok") EXCEPT !.remaining = n]

\* limit_remaining is a u32: what does not fit becomes an error.
EnvoyConsumed(n) ==
    IF n > U32Max THEN Plain("error")
    ELSE [Plain("ok") EXCEPT !.remaining = n]

\* duration_until_reset has seconds and nanoseconds.
EnvoyExhausted(d) == [Plain("limited") EXCEPT !.wait = d]

=============================================================================
