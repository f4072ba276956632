------------------------------ MODULE Lifecycle ------------------------------
(***************************************************************************)
(* How instances stop, in the words of the README: on SIGTERM an instance  *)
(* gives back the tokens it holds, if it was set up to, and only then      *)
(* does it stop serving.  One that returns tokens does not begin to stop   *)
(* unasked, unless it cannot hear.  How the signal, the cleanup task and   *)
(* the server find out about each other is not said.                       *)
(***************************************************************************)
CONSTANT Members    \* the instances

VARIABLES
    phase,      \* phase[m]: where instance `m` is on its way
    asked,      \* asked[m]: `m` was told to stop
    returns,    \* they were set up to give tokens back (cleanup.enabled)
    deaf        \* they cannot listen to what they are told

Phases == {"down", "up", "leaving", "returned", "stopping"}

Init ==
    /\ phase \in [Members -> {"down", "up"}]
    /\ asked = [m \in Members |-> FALSE]
    /\ returns \in BOOLEAN /\ deaf \in BOOLEAN

\* Instance `m` gets from one of the phases `from` to one of `to`.
Goes(m, from, to) ==
    /\ phase[m] \in from
    /\ \E p \in to : phase' = [phase EXCEPT ![m] = p]
    /\ UNCHANGED <<returns, deaf>>

Start(m) == Goes(m, {"down"}, {"up"}) /\ UNCHANGED asked

Leave(m) ==
    /\ returns
    /\ Goes(m, {"up"}, {"leaving"})
    /\ \/ asked' = [asked EXCEPT ![m] = TRUE]
       \/ deaf /\ UNCHANGED asked

Return(m) == Goes(m, {"leaving"}, {"returned"}) /\ UNCHANGED asked

\* With nothing to give back nothing is waited for.
Stop(m) ==
    /\ Goes(m, IF returns THEN {"returned"} ELSE {"up"}, {"stopping"})
    /\ UNCHANGED asked

\* The process ends, in good order or not, and may be replaced at once.
End(m) ==
    /\ Goes(m, Phases, {"down", "up"})
    /\ asked' = [asked EXCEPT ![m] = FALSE]

Next ==
    \E m \in Members : Start(m) \/ Leave(m) \/ Return(m) \/ Stop(m) \/ End(m)

Spec == Init /\ [][Next]_<<phase, asked, returns, deaf>>

=============================================================================
