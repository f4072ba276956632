-------------------------------- MODULE Server --------------------------------
(***************************************************************************)
(* One process from main to its end (crates/server/src/main.rs): startup,  *)
(* the server that serves, shutdown_signal, the cleanup task of the store  *)
(* as its partner, and the broadcast channel of integration::Command that  *)
(* joins the two.  What the cleanup task does to buckets is in Store; here *)
(* it is only somebody who listens, is busy, and answers.                  *)
(*                                                                         *)
(* A broadcast receiver gets every command sent after it subscribed.       *)
(* shutdown_signal therefore reads its own Shutdown before the answer.     *)
(***************************************************************************)
EXTENDS Naturals, Sequences

CONSTANTS
    Unset,          \* an environment variable that is not there
    MaxInflight     \* bound: requests served at a time

ASSUME ServerAssumption ==
    MaxInflight \in Nat /\ Unset \notin {"given", "default", "garbled"}

VARIABLES
    config,     \* the environment and the file, as this process finds them
    main,       \* where main is
    signal,     \* where shutdown_signal is
    cleanup,    \* where the cleanup task is
    inbox,      \* inbox[x]: the commands receiver `x` has not read yet
    receivers,  \* the receivers that have subscribed
    told,       \* history: SIGTERM or Ctrl-C reached the handler
    inflight    \* requests being served

vars == <<config, main, signal, cleanup, inbox, receivers, told, inflight>>

-----------------------------------------------------------------------------
(***************************************************************************)
(* The environment.  `listen` is the port of the server, `redis` says      *)
(* where Redis is to be found, `broken` that the runtime cannot install    *)
(* signal handlers.                                                        *)
(***************************************************************************)
Address == [host : {"given", "default"}, port : {"given", "default"}]

Config ==
    [file : {"missing", "invalid", "valid"}, enabled : BOOLEAN,
     interval : {0, 1}, host : {Unset, "given"},
     port : {Unset, "garbled", "given"}, redis : Address,
     listen : {"free", "taken", "garbled"}, broken : BOOLEAN]

\* CacheConfig::env().unwrap_or_default(): without REDIS_HOST the defaults
\* are used for both, whatever REDIS_PORT says.
RedisAddress(c) ==
    IF c.host = Unset
    THEN [host |-> "default", port |-> "default"]
    ELSE [host |-> "given",
          port |-> IF c.port = "given" THEN "given" ELSE "default"]

Commands == {"Shutdown", "CleanupComplete"}

Receivers == {"cleanup", "signal"}

Gone == {"ended", "failed", "killed"}

\* The store has been made and main is still there.
Serving == {"serving", "draining"}

Listening == {"spawned", "select", "busy"}

TypeOK ==
    /\ config \in Config
    /\ main \in {"config", "redis", "store", "bind"} \cup Serving \cup Gone
    /\ signal \in {"none", "created", "listening", "sending", "waiting",
                   "muted", "over"}
    /\ cleanup \in Listening \cup
         {"none", "returning", "finishing", "done", "dead"}
    /\ inbox \in [Receivers -> Seq(Commands)]
    /\ \A x \in Receivers : Len(inbox[x]) <= 2
    /\ receivers \in SUBSET Receivers
    /\ told \in BOOLEAN
    /\ inflight \in 0 .. MaxInflight

Init ==
    /\ config \in Config
    /\ main = "config"
    /\ signal = "none"
    /\ cleanup = "none"
    /\ inbox = [x \in Receivers |-> <<>>]
    /\ receivers = {}
    /\ told = FALSE
    /\ inflight = 0

-----------------------------------------------------------------------------
(***************************************************************************)
(* main.  A step that fails ends the process: an error returned from main  *)
(* or a panic in it.                                                       *)
(***************************************************************************)
\* that_limit_core::get(CFG_PATH)
ReadConfig ==
    /\ main = "config"
    /\ main' = IF config.file = "valid" THEN "redis" ELSE "failed"
    /\ UNCHANGED <<config, signal, cleanup, inbox, receivers, told, inflight>>

\* CacheConfig::connect: nobody may be there, or it may not answer.
Connect ==
    /\ main = "redis"
    /\ \/ RedisAddress(config) = config.redis /\ main' = "store"
       \/ main' = "failed"
    /\ UNCHANGED <<config, signal, cleanup, inbox, receivers, told, inflight>>

\* A bug: the task is given no receiver of its own.
SubscribedByNewNone == receivers

\* Store::new subscribes before it spawns the cleanup task.
SubscribedByNew == receivers \cup {"cleanup"}

NewStore ==
    /\ main = "store"
    /\ main' = "bind"
    /\ IF config.enabled
       THEN cleanup' = "spawned" /\ receivers' = SubscribedByNew
       ELSE UNCHANGED <<cleanup, receivers>>
    /\ UNCHANGED <<config, signal, inbox, told, inflight>>

\* The adapter takes its port and hands shutdown_signal to its server.
Bind ==
    /\ main = "bind"
    /\ IF config.listen = "free"
       THEN main' = "serving" /\ signal' = "created"
       ELSE main' = "failed" /\ UNCHANGED signal
    /\ UNCHANGED <<config, cleanup, inbox, receivers, told, inflight>>

Accept ==
    /\ main = "serving"
    /\ inflight < MaxInflight
    /\ inflight' = inflight + 1
    /\ UNCHANGED <<config, main, signal, cleanup, inbox, receivers, told>>

Answer ==
    /\ main \in Serving
    /\ inflight > 0
    /\ inflight' = inflight - 1
    /\ UNCHANGED <<config, main, signal, cleanup, inbox, receivers, told>>

\* A bug: the server stops once the signal is there.
MayDrainWhenTold == told

\* The graceful shutdown starts when shutdown_signal has returned.
MayDrain == signal = "over"

Drain ==
    /\ main = "serving"
    /\ MayDrain
    /\ main' = "draining"
    /\ UNCHANGED <<config, signal, cleanup, inbox, receivers, told, inflight>>

\* Every connection is done, main returns and the runtime drops its tasks.
End ==
    /\ main = "draining"
    /\ inflight = 0
    /\ main' = "ended"
    /\ UNCHANGED <<config, signal, cleanup, inbox, receivers, told, inflight>>

-----------------------------------------------------------------------------
(***************************************************************************)
(* The channel.                                                            *)
(***************************************************************************)
Send(command) ==
    inbox' = [x \in Receivers |->
                IF x \in receivers THEN Append(inbox[x], command)
                ELSE inbox[x]]

\* Receiver `x` reads `command`.
Receive(x, command) ==
    /\ inbox[x] # <<>>
    /\ Head(inbox[x]) = command
    /\ inbox' = [inbox EXCEPT ![x] = Tail(@)]

(***************************************************************************)
(* shutdown_signal.                                                        *)
(***************************************************************************)
\* The first poll: without a channel it is over.  A handler that cannot be
\* installed is logged and taken for a signal.
Poll ==
    /\ main = "serving"
    /\ signal = "created"
    /\ IF config.enabled
       THEN /\ receivers' = receivers \cup {"signal"}
            /\ signal' = IF config.broken THEN "sending" ELSE "listening"
       ELSE signal' = "over" /\ UNCHANGED receivers
    /\ UNCHANGED <<config, main, cleanup, inbox, told, inflight>>

\* SIGTERM or Ctrl-C, the handler being there.
Interrupt ==
    /\ main = "serving"
    /\ signal = "listening"
    /\ signal' = "sending"
    /\ told' = TRUE
    /\ UNCHANGED <<config, main, cleanup, inbox, receivers, inflight>>

\* SIGTERM or Ctrl-C with no handler: not yet, not at all without a channel,
\* and at no time if none can be installed.
Kill ==
    /\ main \notin Gone
    /\ signal \in {"none", "created"} \/ ~config.enabled \/ config.broken
    /\ main' = "killed"
    /\ UNCHANGED <<config, signal, cleanup, inbox, receivers, told, inflight>>

SendShutdown ==
    /\ main = "serving"
    /\ signal = "sending"
    /\ Send("Shutdown")
    /\ signal' = "waiting"
    /\ UNCHANGED <<config, main, cleanup, receivers, told, inflight>>

\* A command that does not match the pattern switches the branch off, and
\* select! waits for the other one.
ReadOwnCommand ==
    /\ main = "serving"
    /\ signal = "waiting"
    /\ Receive("signal", "Shutdown")
    /\ signal' = "muted"
    /\ UNCHANGED <<config, main, cleanup, receivers, told, inflight>>

\* A bug: no tick, the branch stays off.
AfterTickNever == "muted"

\* The five-second tick starts the loop over, with both branches on.
AfterTick == "waiting"

SignalTick ==
    /\ main = "serving"
    /\ signal = "muted"
    /\ signal' = AfterTick
    /\ UNCHANGED <<config, main, cleanup, inbox, receivers, told, inflight>>

ReadComplete ==
    /\ main = "serving"
    /\ signal = "waiting"
    /\ Receive("signal", "CleanupComplete")
    /\ signal' = "over"
    /\ UNCHANGED <<config, main, cleanup, receivers, told, inflight>>

-----------------------------------------------------------------------------
(***************************************************************************)
(* The cleanup task.  It runs as long as main does.                        *)
(***************************************************************************)
Runs == main \notin Gone

\* tokio::time::interval panics on a period of zero: the task is gone with
\* its receiver, and nobody looks at its JoinHandle.
CleanupBegins ==
    /\ Runs
    /\ cleanup = "spawned"
    /\ IF config.interval = 0
       THEN cleanup' = "dead" /\ receivers' = receivers \ {"cleanup"}
       ELSE cleanup' = "select" /\ UNCHANGED receivers
    /\ UNCHANGED <<config, main, signal, inbox, told, inflight>>

CleanupTick ==
    /\ Runs
    /\ cleanup = "select"
    /\ cleanup' = "busy"
    /\ UNCHANGED <<config, main, signal, inbox, receivers, told, inflight>>

CleanupSwept ==
    /\ Runs
    /\ cleanup = "busy"
    /\ cleanup' = "select"
    /\ UNCHANGED <<config, main, signal, inbox, receivers, told, inflight>>

\* There may be nothing to return.
CleanupHears ==
    /\ Runs
    /\ cleanup = "select"
    /\ Receive("cleanup", "Shutdown")
    /\ cleanup' \in {"returning", "finishing"}
    /\ UNCHANGED <<config, main, signal, receivers, told, inflight>>

CleanupReturned ==
    /\ Runs
    /\ cleanup = "returning"
    /\ cleanup' = "finishing"
    /\ UNCHANGED <<config, main, signal, inbox, receivers, told, inflight>>

\* A bug: the message is sent within the loop, which goes on.
AfterCompleteAgain == "finishing"

AfterComplete == "done"

\* The task says that it is done, and ends with its receiver.
SendComplete ==
    /\ Runs
    /\ cleanup = "finishing"
    /\ Send("CleanupComplete")
    /\ cleanup' = AfterComplete
    /\ receivers' = receivers \ {"cleanup"}
    /\ UNCHANGED <<config, main, signal, told, inflight>>

-----------------------------------------------------------------------------
Startup == ReadConfig \/ Connect \/ NewStore \/ Bind

ShutdownSignal ==
    Poll \/ SendShutdown \/ ReadOwnCommand \/ SignalTick \/ ReadComplete

CleanupTask == CleanupBegins \/ CleanupSwept \/ CleanupReturned \/ SendComplete

Next ==
    \/ Startup \/ Accept \/ Answer \/ Drain \/ End
    \/ ShutdownSignal \/ Interrupt \/ Kill
    \/ CleanupTask \/ CleanupTick \/ CleanupHears

Spec == Init /\ [][Next]_vars

(***************************************************************************)
(* Tasks that can run are run, the tick comes, and select! chooses its     *)
(* branches at random: a command that waits is taken though the interval   *)
(* ticks again and again.  Nobody promises a signal, or that a request is  *)
(* ever answered.                                                          *)
(***************************************************************************)
FairSpec ==
    /\ Spec
    /\ WF_vars(Startup) /\ WF_vars(ShutdownSignal) /\ WF_vars(CleanupTask)
    /\ SF_vars(CleanupHears)
    /\ WF_vars(Drain) /\ WF_vars(End)

-----------------------------------------------------------------------------
(***************************************************************************)
(* Properties.                                                             *)
(***************************************************************************)
Sends(x, command) == \E n \in 1 .. Len(inbox[x]) : inbox[x][n] = command

\* The two ends of the channel never wait for each other in vain: while
\* shutdown_signal waits, a cleanup task that can still listen has Shutdown
\* before it, and one that is through has left CleanupComplete for
\* shutdown_signal.  It depends on who subscribes before whom sends: a
\* receiver made too late gets nothing, and neither side has a deadline.
CommandNotLost ==
    signal \in {"waiting", "muted"} =>
        /\ cleanup \in Listening => Sends("cleanup", "Shutdown")
        /\ cleanup = "done" => Sends("signal", "CleanupComplete")

\* The way out, as main and shutdown_signal show it.
Phase ==
    IF main = "draining" THEN "stopping"
    ELSE IF main # "serving" THEN "down"
    ELSE IF signal \in {"none", "created", "listening"} \/ ~config.enabled THEN "up"
    ELSE IF cleanup = "done" THEN "returned"
    ELSE "leaving"

Promise == INSTANCE Lifecycle WITH
               Members <- {"self"},
               returns <- config.enabled, deaf <- config.broken,
               phase <- [m \in {"self"} |-> Phase],
               asked <- [m \in {"self"} |-> told /\ Phase # "down"]

\* The process goes the way of the README: tokens are returned before it stops
\* to serve, whatever command is read when, and with cleanup.enabled it does
\* not stop unasked.  The one exception to the latter is a process that could
\* not install its handler and takes the error for a signal (`Poll`).
StopsInOrder == Promise!Spec

\* A shutdown that has begun comes to its end, though shutdown_signal mutes
\* itself with its own command, the cleanup task may be busy and requests go
\* on arriving; unless one of two things the code does not rule out happens.
\* The cleanup task died of an interval of zero, which the validation of the
\* file lets pass.  Or the server waits for a request in flight that is never
\* answered: one that missed its wakeup, or joined the flight of a client that
\* is gone (the runs lost_wakeup and client_gone).
LeavingEnds ==
    signal \in {"sending", "waiting", "muted"}
        ~> \/ main \in Gone
           \/ cleanup = "dead"
           \/ [](main = "draining" /\ inflight > 0)

=============================================================================
