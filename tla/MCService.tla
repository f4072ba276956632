------------------------------ MODULE MCService ------------------------------
(***************************************************************************)
(* Service on a small instance for TLC: one instance, behind HTTP or behind *)
(* Envoy, that serves two requests at a time.                              *)
(***************************************************************************)
EXTENDS Service, TLC

CONSTANTS
    a1, a2,     \* request slots
    i1,         \* the instance
    ip, sub     \* an address and a user

MCHome == [r \in Requests |-> i1]

\* The slots are alike.
Alike == Permutations(Requests)

\* A window of one second; the whole quota goes in one lease, and the count
\* after the first token does not fit a u32 with U32Max = 0.
OneSecond == [quota |-> 2, lease_size |-> 2, reset_in |-> 2]

\* Accepted at startup, and refused by SETEX at every lease.
ZeroReset == [quota |-> 1, lease_size |-> 1, reset_in |-> 0]

MCDomains == {<<"app">>}

(***************************************************************************)
(* What clients send: for the address, for the user from that address, and *)
(* what the adapters answer by themselves.                                 *)
(***************************************************************************)
Consume(auth, host, forwarded, real) ==
    [method |-> "POST", path |-> "/consume", auth |-> auth, host |-> host,
     forwarded |-> forwarded, real |-> real]

Get(path, auth) ==
    [Consume(auth, Absent, Absent, Absent) EXCEPT
        !.method = "GET", !.path = path]

MCHttpRequests ==
    { Consume(sub, <<"app", ".", "com", ":", "80">>, <<ip>>, Absent),
      Consume(Absent, <<"[", "app", "]", ":", "80">>, <<ip, Garbage>>,
              <<Garbage>>),
      Consume(Absent, <<"app">>, <<Garbage, ip>>, <<ip>>),
      Consume(Absent, <<"web", ".", "app">>, Absent, <<ip>>),
      Consume(Garbage, Absent, <<ip>>, Absent),
      Get("/health", Garbage), Get("/consume", Absent),
      Get("/metrics", Absent), Get("/metrics", Garbage),
      [Get("/health", Absent) EXCEPT !.method = "POST"] }

Entry(key, value) == [key |-> key, value |-> value]

MCEnvoyRequests ==
    { [domain |-> <<"app">>, entries |-> e] : e \in
        { <<Entry("remote_address", <<ip>>), Entry("user_id", sub)>>,
          <<Entry("remote_address", <<Garbage>>), Entry("other", Garbage),
            Entry("remote_address", <<ip, Garbage>>)>>,
          <<Entry("remote_address", <<Garbage>>)>> } }
    \cup { [domain |-> <<"web">>, entries |-> <<>>] }

=============================================================================
