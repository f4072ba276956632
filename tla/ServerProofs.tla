---------------------------- MODULE ServerProofs ----------------------------
(***************************************************************************)
(* The server, for any number of requests at a time: its types, the        *)
(* channel that loses no command, and its way out, which is that of        *)
(* Lifecycle.                                                              *)
(*                                                                         *)
(* CommandNotLost is not inductive: what is in one inbox depends on how    *)
(* far the other side has come.  ServerInv says what there is in both, for *)
(* each place of the two tasks, and who reads them.                        *)
(***************************************************************************)
EXTENDS Server, SequenceTheorems, TLAPS

\* main has not come to the server yet, and shutdown_signal is not made.
Starting == {"config", "redis", "store", "bind"}

\* shutdown_signal and the server go together, and only one that listens is
\* told.
SignalFollowsMain ==
    /\ main \in Starting => signal = "none"
    /\ main \in Serving => signal # "none"
    /\ main = "draining" => signal = "over"
    /\ told => signal \notin {"none", "created", "listening"}

\* A cleanup task is there if one was asked for and the store has been made.
CleanupFollowsMain ==
    /\ cleanup # "none" => config.enabled
    /\ main \in {"config", "redis", "store"} => cleanup = "none"
    /\ main \in {"bind"} \cup Serving /\ config.enabled => cleanup # "none"
    /\ signal \notin {"none", "created"} /\ config.enabled => cleanup # "none"

\* The cleanup task has a receiver from its creation to its end, and
\* shutdown_signal one from its first poll on, if there is a channel.
Subscribed ==
    /\ receivers \subseteq Receivers
    /\ "cleanup" \in receivers
         <=> cleanup \in Listening \cup {"returning", "finishing"}
    /\ "signal" \in receivers
         <=> config.enabled /\ signal \notin {"none", "created"}

\* Nothing is in the channel, and nothing has been heard.
Silent ==
    /\ inbox["cleanup"] = <<>> /\ inbox["signal"] = <<>>
    /\ cleanup \notin {"returning", "finishing", "done"}

\* Shutdown has been sent: the cleanup task has it before it, has died of its
\* interval, or has read it; shutdown_signal has its own command before it or
\* behind it, and the answer after that if the task is done.
Told ==
    /\ config.enabled
    /\ cleanup \in Listening => inbox["cleanup"] = <<"Shutdown">>
    /\ cleanup \in {"returning", "finishing"} => inbox["cleanup"] = <<>>
    /\ cleanup = "dead" => inbox["cleanup"] \in {<<>>, <<"Shutdown">>}
    /\ cleanup = "done" => inbox["cleanup"] = <<"CleanupComplete">>
    /\ inbox["signal"] \in
         IF cleanup = "done"
         THEN {<<"Shutdown", "CleanupComplete">>, <<"CleanupComplete">>}
         ELSE {<<"Shutdown">>, <<>>}
    /\ signal = "muted" => inbox["signal"] \in {<<>>, <<"CleanupComplete">>}

\* The answer has been read, if there was anybody to ask.
Through ==
    /\ inbox["signal"] = <<>>
    /\ IF config.enabled
       THEN cleanup = "done" /\ inbox["cleanup"] = <<"CleanupComplete">>
       ELSE inbox["cleanup"] = <<>>

Channel ==
    /\ signal \in {"none", "created", "listening", "sending"} => Silent
    /\ signal \in {"listening", "sending"} => config.enabled
    /\ signal \in {"waiting", "muted"} => Told
    /\ signal = "over" => Through

ServerInv == SignalFollowsMain /\ CleanupFollowsMain /\ Subscribed /\ Channel

-----------------------------------------------------------------------------
(***************************************************************************)
(* Every step keeps it.                                                    *)
(***************************************************************************)

\* What is in an inbox is a sequence of commands, and stays one.
LEMMA Inboxes ==
    /\ \A s \in Seq(Commands), c \in Commands : Append(s, c) \in Seq(Commands)
    /\ \A s \in Seq(Commands) : s # <<>> => Tail(s) \in Seq(Commands)
    /\ <<>> \in Seq(Commands)
  BY SMT DEF Commands

\* The inboxes that occur, as they are written and read.
LEMMA Messages ==
    /\ Append(<<>>, "Shutdown") = <<"Shutdown">>
    /\ Append(<<>>, "CleanupComplete") = <<"CleanupComplete">>
    /\ Append(<<"Shutdown">>, "CleanupComplete")
         = <<"Shutdown", "CleanupComplete">>
    /\ Head(<<"Shutdown">>) = "Shutdown"
    /\ Tail(<<"Shutdown">>) = <<>>
    /\ Head(<<"CleanupComplete">>) = "CleanupComplete"
    /\ Tail(<<"CleanupComplete">>) = <<>>
    /\ Head(<<"Shutdown", "CleanupComplete">>) = "Shutdown"
    /\ Tail(<<"Shutdown", "CleanupComplete">>) = <<"CleanupComplete">>
    /\ Len(<<>>) = 0 /\ Len(<<"Shutdown">>) = 1
    /\ Len(<<"CleanupComplete">>) = 1
    /\ Len(<<"Shutdown", "CleanupComplete">>) = 2
  <1>1. /\ Append(<<>>, "Shutdown") = <<"Shutdown">>
        /\ Append(<<>>, "CleanupComplete") = <<"CleanupComplete">>
    OBVIOUS
  <1>2. Append(<<"Shutdown">>, "CleanupComplete")
          = <<"Shutdown", "CleanupComplete">>
    <2> DEFINE s == Append(<<"Shutdown">>, "CleanupComplete")
               t == <<"Shutdown", "CleanupComplete">>
    <2>1. s \in Seq(Commands) /\ t \in Seq(Commands)
      BY Inboxes DEF Commands
    <2>2. Len(s) = 2 /\ Len(t) = 2 /\ s[1] = t[1] /\ s[2] = t[2]
      OBVIOUS
    <2> HIDE DEF s, t
    <2>3. \A i \in 1 .. Len(s) : s[i] = t[i]
      BY <2>2
    <2>4. s = t
      BY <2>1, <2>2, <2>3, SeqEqual
    <2> QED
      BY <2>4 DEF s, t
  <1>3. /\ Head(<<"Shutdown">>) = "Shutdown"
        /\ Head(<<"CleanupComplete">>) = "CleanupComplete"
        /\ Head(<<"Shutdown", "CleanupComplete">>) = "Shutdown"
    OBVIOUS
  <1>4. Tail(<<"Shutdown">>) = <<>>
    OBVIOUS
  <1>5. Tail(<<"CleanupComplete">>) = <<>>
    OBVIOUS
  <1>6. Tail(<<"Shutdown", "CleanupComplete">>) = <<"CleanupComplete">>
    OBVIOUS
  <1>7. Len(<<>>) = 0 /\ Len(<<"Shutdown">>) = 1
    OBVIOUS
  <1>8. /\ Len(<<"CleanupComplete">>) = 1
        /\ Len(<<"Shutdown", "CleanupComplete">>) = 2
    OBVIOUS
  <1> QED
    BY <1>1, <1>2, <1>3, <1>4, <1>5, <1>6, <1>7, <1>8

\* main, requests, and a signal nobody handles: neither the channel nor the
\* tasks that use it.
LEMMA MainSteps ==
    ASSUME TypeOK, ServerInv,
           \/ ReadConfig \/ Connect \/ NewStore \/ Bind \/ Accept \/ Answer
           \/ Drain \/ End \/ Kill
    PROVE  TypeOK' /\ ServerInv'
  <1> USE DEF Serving, Starting, Gone
  <1>1. CASE ReadConfig \/ Connect \/ End \/ Kill \/ Drain
    <2>1. /\ UNCHANGED <<config, signal, cleanup, inbox, receivers, told,
                         inflight>>
          /\ \/ main \in {"config", "redis"} /\ main' \in {"redis", "store"}
             \/ main' \in Gone
             \/ main' = "draining" /\ signal = "over"
      BY <1>1 DEF ReadConfig, Connect, End, Kill, Drain, MayDrain
    <2>2. TypeOK'
      BY <2>1 DEF TypeOK
    <2>3. SignalFollowsMain' /\ CleanupFollowsMain'
      BY <1>1, <2>1 DEF ServerInv, SignalFollowsMain, CleanupFollowsMain,
             ReadConfig, Connect, End, Kill, Drain, MayDrain
    <2>4. Subscribed' /\ Channel'
      BY <2>1 DEF ServerInv, Subscribed, Channel, Silent, Told, Through
    <2> QED
      BY <2>2, <2>3, <2>4 DEF ServerInv
  <1>2. CASE NewStore
    BY <1>2
       DEF NewStore, TypeOK, ServerInv, SignalFollowsMain, CleanupFollowsMain,
           Subscribed, Channel, Silent, Told, Through, SubscribedByNew,
           Receivers, Listening
  <1>3. CASE Bind
    BY <1>3
       DEF Bind, TypeOK, ServerInv, SignalFollowsMain, CleanupFollowsMain,
           Subscribed, Channel, Silent, Told, Through, Listening
  <1>4. CASE Accept \/ Answer
    <2>1. /\ UNCHANGED <<config, main, signal, cleanup, inbox, receivers, told>>
          /\ inflight' \in 0 .. MaxInflight
      BY <1>4, ServerAssumption DEF Accept, Answer, TypeOK
    <2>2. TypeOK'
      BY <2>1 DEF TypeOK
    <2>3. ServerInv'
      BY <2>1 DEF ServerInv, SignalFollowsMain, CleanupFollowsMain,
             Subscribed, Channel, Silent, Told, Through
    <2> QED
      BY <2>2, <2>3
  <1> QED
    BY <1>1, <1>2, <1>3, <1>4

\* What a command that is sent or read makes of the inboxes.
LEMMA SendAt ==
    ASSUME TypeOK, NEW c \in Commands, Send(c)
    PROVE  /\ inbox' \in [Receivers -> Seq(Commands)]
           /\ \A x \in Receivers :
                 inbox'[x] = IF x \in receivers THEN Append(inbox[x], c)
                             ELSE inbox[x]
  BY Inboxes DEF TypeOK, Send

LEMMA ReceiveAt ==
    ASSUME TypeOK, NEW x \in Receivers, NEW c \in Commands, Receive(x, c)
    PROVE  /\ inbox' \in [Receivers -> Seq(Commands)]
           /\ inbox[x] # <<>> /\ Head(inbox[x]) = c
           /\ inbox'[x] = Tail(inbox[x])
           /\ \A y \in Receivers \ {x} : inbox'[y] = inbox[y]
  BY Inboxes DEF TypeOK, Receive

\* shutdown_signal.
LEMMA SignalSteps ==
    ASSUME TypeOK, ServerInv,
           \/ Poll \/ Interrupt \/ SendShutdown \/ ReadOwnCommand
           \/ SignalTick \/ ReadComplete
    PROVE  TypeOK' /\ ServerInv'
  <1> USE DEF Serving, Starting, Listening, Receivers
  <1>1. CASE Poll
    <2>1. TypeOK'
      BY <1>1 DEF Poll, TypeOK
    <2>2. SignalFollowsMain' /\ CleanupFollowsMain'
      BY <1>1 DEF Poll, ServerInv, SignalFollowsMain, CleanupFollowsMain
    <2>4. Subscribed'
      <3>1. /\ signal = "created" /\ signal' \notin {"none", "created"}
            /\ "signal" \notin receivers
            /\ UNCHANGED <<config, cleanup>>
            /\ receivers' = IF config.enabled THEN receivers \cup {"signal"}
                            ELSE receivers
        BY <1>1 DEF Poll, ServerInv, Subscribed
      <3>2. "cleanup" \in receivers' <=> "cleanup" \in receivers
        BY <3>1
      <3>3. "signal" \in receivers' <=> config.enabled
        BY <3>1
      <3>4. receivers' \subseteq Receivers
        BY <3>1 DEF ServerInv, Subscribed
      <3> QED
        BY <3>1, <3>2, <3>3, <3>4 DEF ServerInv, Subscribed
    <2>3. Channel'
      BY <1>1
         DEF Poll, ServerInv, CleanupFollowsMain, Channel, Silent, Told, Through
    <2> QED
      BY <2>1, <2>2, <2>3, <2>4 DEF ServerInv
  <1>2. CASE Interrupt
    BY <1>2
       DEF Interrupt, TypeOK, ServerInv, SignalFollowsMain, CleanupFollowsMain,
           Subscribed, Channel, Silent, Told, Through
  <1>3. CASE SendShutdown
    <2>1. /\ main = "serving" /\ signal = "sending" /\ signal' = "waiting"
          /\ UNCHANGED <<config, main, cleanup, receivers, told, inflight>>
          /\ Send("Shutdown")
      BY <1>3 DEF SendShutdown
    <2>2. /\ inbox' \in [Receivers -> Seq(Commands)]
          /\ \A x \in Receivers :
                inbox'[x] = IF x \in receivers THEN Append(inbox[x], "Shutdown")
                            ELSE inbox[x]
      BY <2>1, SendAt DEF Commands
    <2>3. Silent /\ config.enabled /\ cleanup # "none"
      BY <2>1 DEF ServerInv, Channel, CleanupFollowsMain
    <2>4. inbox'["signal"] = <<"Shutdown">>
      BY <2>1, <2>2, <2>3, Messages DEF ServerInv, Subscribed, Silent
    <2>5. inbox'["cleanup"]
            = IF cleanup \in Listening THEN <<"Shutdown">> ELSE <<>>
      BY <2>2, <2>3, Messages DEF ServerInv, Subscribed, Silent
    <2>6. TypeOK'
      BY <2>1, <2>2, <2>4, <2>5, Messages DEF TypeOK
    <2>7. SignalFollowsMain' /\ CleanupFollowsMain' /\ Subscribed'
      BY <2>1 DEF ServerInv, SignalFollowsMain, CleanupFollowsMain, Subscribed
    <2>8. Told'
      BY <2>1, <2>3, <2>4, <2>5 DEF Told, Silent
    <2> QED
      BY <2>1, <2>6, <2>7, <2>8 DEF ServerInv, Channel
  <1>4. CASE ReadOwnCommand
    <2>1. /\ main = "serving" /\ signal = "waiting" /\ signal' = "muted"
          /\ UNCHANGED <<config, main, cleanup, receivers, told, inflight>>
          /\ Receive("signal", "Shutdown")
      BY <1>4 DEF ReadOwnCommand
    <2>2. /\ inbox' \in [Receivers -> Seq(Commands)]
          /\ inbox["signal"] # <<>> /\ Head(inbox["signal"]) = "Shutdown"
          /\ inbox'["signal"] = Tail(inbox["signal"])
          /\ inbox'["cleanup"] = inbox["cleanup"]
      BY <2>1, ReceiveAt DEF Commands
    <2>3. Told
      BY <2>1 DEF ServerInv, Channel
    <2>4. inbox["signal"] = IF cleanup = "done"
                            THEN <<"Shutdown", "CleanupComplete">>
                            ELSE <<"Shutdown">>
      BY <2>2, <2>3, Messages DEF Told
    <2>5. inbox'["signal"] = IF cleanup = "done"
                             THEN <<"CleanupComplete">> ELSE <<>>
      BY <2>2, <2>4, Messages
    <2>6. TypeOK'
      BY <2>1, <2>2, <2>5, Messages DEF TypeOK
    <2>7. SignalFollowsMain' /\ CleanupFollowsMain' /\ Subscribed'
      BY <2>1 DEF ServerInv, SignalFollowsMain, CleanupFollowsMain, Subscribed
    <2>8. Told'
      BY <2>1, <2>2, <2>3, <2>5 DEF Told
    <2> QED
      BY <2>1, <2>6, <2>7, <2>8 DEF ServerInv, Channel
  <1>5. CASE SignalTick
    BY <1>5
       DEF SignalTick, AfterTick, TypeOK, ServerInv, SignalFollowsMain,
           CleanupFollowsMain, Subscribed, Channel, Told
  <1>6. CASE ReadComplete
    <2>1. /\ main = "serving" /\ signal = "waiting" /\ signal' = "over"
          /\ UNCHANGED <<config, main, cleanup, receivers, told, inflight>>
          /\ Receive("signal", "CleanupComplete")
      BY <1>6 DEF ReadComplete
    <2>2. /\ inbox' \in [Receivers -> Seq(Commands)]
          /\ inbox["signal"] # <<>>
          /\ Head(inbox["signal"]) = "CleanupComplete"
          /\ inbox'["signal"] = Tail(inbox["signal"])
          /\ inbox'["cleanup"] = inbox["cleanup"]
      BY <2>1, ReceiveAt DEF Commands
    <2>3. Told
      BY <2>1 DEF ServerInv, Channel
    <2>4. cleanup = "done" /\ inbox["signal"] = <<"CleanupComplete">>
      BY <2>2, <2>3, Messages DEF Told
    <2>5. inbox'["signal"] = <<>>
      BY <2>2, <2>4, Messages
    <2>6. TypeOK'
      BY <2>1, <2>2, <2>5, Messages DEF TypeOK
    <2>7. SignalFollowsMain' /\ CleanupFollowsMain' /\ Subscribed'
      BY <2>1 DEF ServerInv, SignalFollowsMain, CleanupFollowsMain, Subscribed
    <2>8. Through'
      BY <2>1, <2>2, <2>3, <2>4, <2>5 DEF Told, Through
    <2> QED
      BY <2>1, <2>6, <2>7, <2>8 DEF ServerInv, Channel
  <1> QED
    BY <1>1, <1>2, <1>3, <1>4, <1>5, <1>6

\* The cleanup task.
LEMMA CleanupSteps ==
    ASSUME TypeOK, ServerInv,
           \/ CleanupBegins \/ CleanupTick \/ CleanupSwept \/ CleanupHears
           \/ CleanupReturned \/ SendComplete
    PROVE  TypeOK' /\ ServerInv'
  <1> USE DEF Serving, Starting, Listening, Receivers
  <1>1. CASE \/ CleanupBegins \/ CleanupTick \/ CleanupSwept
             \/ CleanupReturned
    <2>1. /\ UNCHANGED <<config, main, signal, inbox, told, inflight>>
          /\ \/ /\ cleanup \in Listening /\ cleanup' \in Listening
                /\ UNCHANGED receivers
             \/ /\ cleanup = "returning" /\ cleanup' = "finishing"
                /\ UNCHANGED receivers
             \/ /\ cleanup = "spawned" /\ cleanup' = "dead"
                /\ receivers' = receivers \ {"cleanup"}
      BY <1>1
         DEF CleanupBegins, CleanupTick, CleanupSwept, CleanupReturned
    <2>2. TypeOK'
      BY <2>1 DEF TypeOK
    <2>3. SignalFollowsMain' /\ CleanupFollowsMain' /\ Subscribed'
      BY <2>1 DEF ServerInv, SignalFollowsMain, CleanupFollowsMain, Subscribed
    <2>4. Channel'
      BY <2>1 DEF ServerInv, CleanupFollowsMain, Channel, Silent, Told, Through
    <2> QED
      BY <2>2, <2>3, <2>4 DEF ServerInv
  <1>2. CASE CleanupHears
    <2>1. /\ cleanup = "select" /\ cleanup' \in {"returning", "finishing"}
          /\ UNCHANGED <<config, main, signal, receivers, told, inflight>>
          /\ Receive("cleanup", "Shutdown")
      BY <1>2 DEF CleanupHears
    <2>2. /\ inbox' \in [Receivers -> Seq(Commands)]
          /\ inbox["cleanup"] # <<>>
          /\ inbox'["cleanup"] = Tail(inbox["cleanup"])
          /\ inbox'["signal"] = inbox["signal"]
      BY <2>1, ReceiveAt DEF Commands
    <2>3. signal \in {"waiting", "muted"} /\ Told
      BY <2>1, <2>2
         DEF ServerInv, Channel, Silent, Through, CleanupFollowsMain, TypeOK
    <2>4. inbox["cleanup"] = <<"Shutdown">> /\ inbox'["cleanup"] = <<>>
      BY <2>1, <2>2, <2>3, Messages DEF Told
    <2>5. TypeOK'
      BY <2>1, <2>2, <2>4, Messages DEF TypeOK
    <2>6. SignalFollowsMain' /\ CleanupFollowsMain' /\ Subscribed'
      BY <2>1 DEF ServerInv, SignalFollowsMain, CleanupFollowsMain, Subscribed
    <2>7. Told'
      BY <2>1, <2>2, <2>3, <2>4 DEF Told
    <2> QED
      BY <2>1, <2>3, <2>5, <2>6, <2>7 DEF ServerInv, Channel
  <1>3. CASE SendComplete
    <2>1. /\ cleanup = "finishing" /\ cleanup' = "done"
          /\ receivers' = receivers \ {"cleanup"}
          /\ UNCHANGED <<config, main, signal, told, inflight>>
          /\ Send("CleanupComplete")
      BY <1>3 DEF SendComplete, AfterComplete
    <2>2. /\ inbox' \in [Receivers -> Seq(Commands)]
          /\ \A x \in Receivers :
                inbox'[x] = IF x \in receivers
                            THEN Append(inbox[x], "CleanupComplete")
                            ELSE inbox[x]
      BY <2>1, SendAt DEF Commands
    <2>3. signal \in {"waiting", "muted"} /\ Told
      BY <2>1 DEF ServerInv, Channel, Silent, Through, CleanupFollowsMain, TypeOK
    <2>4. "cleanup" \in receivers /\ "signal" \in receivers
      BY <2>1, <2>3 DEF ServerInv, Subscribed, Told
    <2>5. inbox'["cleanup"] = <<"CleanupComplete">>
      BY <2>1, <2>2, <2>3, <2>4, Messages DEF Told
    <2>6. /\ inbox["signal"] \in {<<>>, <<"Shutdown">>}
          /\ signal = "muted" => inbox["signal"] = <<>>
      BY <2>1, <2>3, Messages DEF Told
    <2>7. /\ inbox'["signal"] \in
                {<<"Shutdown", "CleanupComplete">>, <<"CleanupComplete">>}
          /\ signal = "muted" => inbox'["signal"] = <<"CleanupComplete">>
      BY <2>2, <2>4, <2>6, Messages
    <2>8. TypeOK'
      BY <2>1, <2>2, <2>5, <2>7, Messages DEF TypeOK
    <2>9. SignalFollowsMain' /\ CleanupFollowsMain' /\ Subscribed'
      BY <2>1 DEF ServerInv, SignalFollowsMain, CleanupFollowsMain, Subscribed
    <2>10. Told'
      BY <2>1, <2>3, <2>5, <2>7 DEF Told
    <2> QED
      BY <2>1, <2>3, <2>8, <2>9, <2>10 DEF ServerInv, Channel
  <1> QED
    BY <1>1, <1>2, <1>3

LEMMA ServerStep ==
    TypeOK /\ ServerInv /\ [Next]_vars => TypeOK' /\ ServerInv'
  <1> SUFFICES ASSUME TypeOK, ServerInv, [Next]_vars
               PROVE  TypeOK' /\ ServerInv'
    OBVIOUS
  <1>1. CASE Next
    BY <1>1, MainSteps, SignalSteps, CleanupSteps
       DEF Next, Startup, ShutdownSignal, CleanupTask
  <1>2. CASE UNCHANGED vars
    BY <1>2
       DEF vars, TypeOK, ServerInv, SignalFollowsMain, CleanupFollowsMain,
           Subscribed, Channel, Silent, Told, Through
  <1> QED
    BY <1>1, <1>2

LEMMA ServerStarts == Init => TypeOK /\ ServerInv
  <1> SUFFICES ASSUME Init PROVE TypeOK /\ ServerInv
    OBVIOUS
  <1>1. TypeOK
    <2>1. /\ inbox \in [Receivers -> Seq(Commands)]
          /\ \A x \in Receivers : Len(inbox[x]) <= 2
      BY Inboxes, Messages DEF Init
    <2> QED
      <3>1. inflight \in 0 .. MaxInflight
        BY ServerAssumption DEF Init
      <3>2. told \in BOOLEAN /\ receivers \in SUBSET Receivers
        BY DEF Init
      <3> QED
        BY <2>1, <3>1, <3>2 DEF Init, TypeOK
  <1>2. ServerInv
    BY DEF Init, ServerInv, SignalFollowsMain, CleanupFollowsMain, Subscribed,
           Channel, Silent, Told, Through, Starting, Serving, Listening,
           Receivers
  <1> QED
    BY <1>1, <1>2

\* Both at once, from which the theorems are read off.
LEMMA ServerInvariant == Spec => [](TypeOK /\ ServerInv)
  BY ServerStarts, ServerStep, PTL DEF Spec

-----------------------------------------------------------------------------
(***************************************************************************)
(* The theorems about the channel.                                         *)
(***************************************************************************)

LEMMA ToldIsNotLost == TypeOK /\ ServerInv => CommandNotLost
  <1> SUFFICES ASSUME TypeOK, ServerInv, signal \in {"waiting", "muted"}
               PROVE  /\ cleanup \in Listening => Sends("cleanup", "Shutdown")
                      /\ cleanup = "done" => Sends("signal", "CleanupComplete")
    BY DEF CommandNotLost
  <1>1. Told
    BY DEF ServerInv, Channel
  <1>2. ASSUME cleanup \in Listening
        PROVE  Sends("cleanup", "Shutdown")
    <2>1. /\ inbox["cleanup"] = <<"Shutdown">>
          /\ 1 \in 1 .. Len(inbox["cleanup"])
      BY <1>1, <1>2, Messages DEF Told
    <2> QED
      BY <2>1 DEF Sends
  <1>3. ASSUME cleanup = "done"
        PROVE  Sends("signal", "CleanupComplete")
    <2>1. inbox["signal"] \in
            {<<"Shutdown", "CleanupComplete">>, <<"CleanupComplete">>}
      BY <1>1, <1>3 DEF Told
    <2>2. CASE inbox["signal"] = <<"CleanupComplete">>
      <3>1. 1 \in 1 .. Len(inbox["signal"])
        BY <2>2, Messages
      <3> QED
        BY <2>2, <3>1 DEF Sends
    <2>3. CASE inbox["signal"] = <<"Shutdown", "CleanupComplete">>
      <3>1. 2 \in 1 .. Len(inbox["signal"])
        BY <2>3, Messages
      <3> QED
        BY <2>3, <3>1 DEF Sends
    <2> QED
      BY <2>1, <2>2, <2>3
  <1> QED
    BY <1>2, <1>3

\* Whatever the environment, main, shutdown_signal, the cleanup task and the
\* channel keep to the values they can have, with at most two commands in an
\* inbox: the broadcast channel of main.rs, of capacity ten, never
\* overwrites one.
THEOREM ServerTypes == Spec => []TypeOK
  BY ServerInvariant, PTL

\* The order in which Store::new and shutdown_signal subscribe, the tasks send
\* and the server goes on is one in which no command that somebody waits for
\* is lost, whatever is set up and however many requests there are.
THEOREM CommandsReach == Spec => []CommandNotLost
  BY ServerInvariant, ToldIsNotLost, PTL

-----------------------------------------------------------------------------
(***************************************************************************)
(* The way out.                                                            *)
(***************************************************************************)

\* The one member of the life cycle, as the refinement maps it.
Way == [m \in {"self"} |-> Phase]

Asked == [m \in {"self"} |-> told /\ Phase # "down"]

wayVars == <<Way, Asked, config.enabled, config.broken>>

\* A step of the member is a step of the life cycle.
LEMMA OneMemberGoes ==
    ASSUME NEW from, NEW to, Phase \in from, Phase' \in to, UNCHANGED config
    PROVE  Promise!Goes("self", from, to)
  <1>1. Way' = [Way EXCEPT !["self"] = Phase']
    BY DEF Way
  <1> QED
    BY <1>1 DEF Promise!Goes, Way

LEMMA PhaseIsPhase == Phase \in Promise!Phases
  BY DEF Phase, Promise!Phases

\* The process ends, whatever it was about, or begins, not being told.
LEMMA GoneIsEnd ==
    ASSUME Phase' \in {"down", "up"}, Phase' = "up" => ~told',
           UNCHANGED config
    PROVE  Promise!Next
  <1>1. Promise!Goes("self", Promise!Phases, {"down", "up"})
    BY PhaseIsPhase, OneMemberGoes
  <1>2. Asked' = [Asked EXCEPT !["self"] = FALSE]
    BY DEF Asked
  <1> QED
    BY <1>1, <1>2 DEF Promise!Next, Promise!End, Asked

LEMMA SamePhase ==
    ASSUME Phase' = Phase, UNCHANGED <<config, told>>
    PROVE  UNCHANGED wayVars
  BY DEF wayVars, Way, Asked

\* What the member was told is not forgotten on its way.
LEMMA SameAsked ==
    ASSUME Phase # "down", Phase' # "down", UNCHANGED told
    PROVE  Asked' = Asked
  BY DEF Asked

\* Every step is one of the life cycle, or none.
LEMMA StepStopsInOrder ==
    TypeOK /\ ServerInv /\ [Next]_vars
      => Promise!Next \/ UNCHANGED wayVars
  <1> SUFFICES ASSUME TypeOK, ServerInv, [Next]_vars
               PROVE  Promise!Next \/ UNCHANGED wayVars
    OBVIOUS
  <1> USE DEF Serving, Gone, Starting
  <1>0. UNCHANGED config /\ (Interrupt \/ UNCHANGED told)
    BY DEF Next, vars, Startup, ShutdownSignal, CleanupTask, ReadConfig,
           Connect, NewStore, Bind, Accept, Answer, Drain, End, Poll,
           SendShutdown, ReadOwnCommand, SignalTick, ReadComplete, Interrupt,
           Kill, CleanupBegins, CleanupSwept, CleanupReturned, SendComplete,
           CleanupTick, CleanupHears
  <1>1. CASE ReadConfig \/ Connect \/ NewStore \/ Bind \/ End \/ Kill
    <2>1. Phase' \in {"down", "up"} /\ (Phase' = "up" => ~told')
      BY <1>1
         DEF ReadConfig, Connect, NewStore, Bind, End, Kill, Phase, ServerInv,
             SignalFollowsMain
    <2> QED
      BY <1>0, <2>1, GoneIsEnd
  <1>2. CASE Drain
    <2>1. Phase' = "stopping" /\ main = "serving" /\ Through /\ told' = told
      BY <1>2 DEF Drain, MayDrain, Phase, ServerInv, Channel
    <2>2. Phase = IF config.enabled THEN "returned" ELSE "up"
      BY <1>2, <2>1 DEF Drain, MayDrain, Phase, Through
    <2>3. Promise!Goes("self", IF config.enabled THEN {"returned"} ELSE {"up"},
                       {"stopping"})
      BY <1>0, <2>1, <2>2, OneMemberGoes
    <2>4. Asked' = Asked
      BY <2>1, <2>2, SameAsked
    <2>5. Promise!Stop("self")
      BY <2>3, <2>4 DEF Promise!Stop, Asked
    <2> QED
      BY <2>5 DEF Promise!Next
  <1>3. CASE Interrupt
    <2>1. /\ main = "serving" /\ signal = "listening" /\ signal' = "sending"
          /\ told' /\ UNCHANGED <<config, main, cleanup>>
      BY <1>3 DEF Interrupt
    <2>2. config.enabled /\ cleanup # "done"
      BY <2>1 DEF ServerInv, Channel, Silent
    <2>3. Phase = "up" /\ Phase' = "leaving"
      BY <2>1, <2>2 DEF Phase
    <2>4. Asked' = [Asked EXCEPT !["self"] = TRUE]
      BY <2>1, <2>3 DEF Asked
    <2>5. Promise!Goes("self", {"up"}, {"leaving"})
      BY <2>1, <2>3, OneMemberGoes
    <2>6. Promise!Leave("self")
      BY <2>2, <2>4, <2>5 DEF Promise!Leave, Asked
    <2> QED
      BY <2>6 DEF Promise!Next
  <1>4. CASE Poll
    <2>1. /\ main = "serving" /\ signal = "created"
          /\ UNCHANGED <<config, main, cleanup, told>>
      BY <1>4 DEF Poll
    <2>2. CASE Phase' = Phase
      BY <2>1, <2>2, SamePhase
    <2>3. CASE Phase' # Phase
      <3>1. config.enabled /\ config.broken /\ signal' = "sending"
        BY <1>4, <2>1, <2>3 DEF Poll, Phase
      <3>2. Phase = "up" /\ cleanup # "done"
        BY <2>1 DEF Phase, ServerInv, Channel, Silent
      <3>3. Phase' = "leaving"
        BY <2>1, <3>1, <3>2 DEF Phase
      <3>4. Promise!Goes("self", {"up"}, {"leaving"})
        BY <2>1, <3>2, <3>3, OneMemberGoes
      <3>5. Asked' = Asked
        BY <2>1, <3>2, <3>3, SameAsked
      <3>6. Promise!Leave("self")
        BY <3>1, <3>4, <3>5 DEF Promise!Leave, Asked
      <3> QED
        BY <3>6 DEF Promise!Next
    <2> QED
      BY <2>2, <2>3
  <1>5. CASE SendComplete
    <2>1. UNCHANGED <<config, told>>
      BY <1>5 DEF SendComplete
    <2>2. CASE Phase' = Phase
      BY <2>1, <2>2, SamePhase
    <2>3. CASE Phase' # Phase
      <3>1. Phase = "leaving" /\ Phase' = "returned"
        BY <1>5, <2>3 DEF SendComplete, AfterComplete, Phase
      <3>2. Promise!Goes("self", {"leaving"}, {"returned"})
        BY <2>1, <3>1, OneMemberGoes
      <3>3. Asked' = Asked
        BY <2>1, <3>1, SameAsked
      <3>4. Promise!Return("self")
        BY <3>2, <3>3 DEF Promise!Return, Asked
      <3> QED
        BY <3>4 DEF Promise!Next
    <2> QED
      BY <2>2, <2>3
  <1>6. CASE \/ Accept \/ Answer \/ SendShutdown \/ ReadOwnCommand
             \/ SignalTick \/ ReadComplete
             \/ CleanupBegins \/ CleanupSwept \/ CleanupReturned
             \/ CleanupTick \/ CleanupHears \/ UNCHANGED vars
    <2>1. Phase' = Phase /\ told' = told
      BY <1>6
         DEF Accept, Answer, SendShutdown, ReadOwnCommand, SignalTick,
             ReadComplete, CleanupBegins, CleanupSwept, CleanupReturned,
             CleanupTick, CleanupHears, AfterTick, vars, Phase, ServerInv,
             Channel
    <2> QED
      BY <1>0, <2>1, SamePhase
  <1> QED
    BY <1>1, <1>2, <1>3, <1>4, <1>5, <1>6
       DEF Next, Startup, ShutdownSignal, CleanupTask

LEMMA StartIsDown == Init => Promise!Init
  <1> SUFFICES ASSUME Init PROVE Promise!Init
    OBVIOUS
  <1>1. Phase = "down" /\ config.enabled \in BOOLEAN /\ config.broken \in BOOLEAN
    BY DEF Init, Phase, Config
  <1>2. Asked = [m \in {"self"} |-> FALSE]
    BY <1>1 DEF Asked
  <1> QED
    BY <1>1, <1>2 DEF Promise!Init, Asked

\* main, shutdown_signal and the cleanup task go the way of Lifecycle: the
\* server of an instance that is to give tokens back stops only after the task
\* has said that it did, and does so only when it is told to or could not
\* install its handlers; one that is not to does not wait.  Store relies on it.
THEOREM ServerStopsInOrder == Spec => StopsInOrder
  <1>1. Init => Promise!Init
    BY StartIsDown
  <1>2. TypeOK /\ ServerInv /\ [Next]_vars => [Promise!Next]_wayVars
    BY StepStopsInOrder
  <1> QED
    BY <1>1, <1>2, ServerInvariant, PTL
       DEF Spec, StopsInOrder, Promise!Spec, wayVars, Way, Asked

=============================================================================
