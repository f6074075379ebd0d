---------------------------- MODULE KernelTimers ----------------------------
(* The timers of a peer of the kernel interface while the interface goes up  *)
(* and down, src/src/if_wg.c.  Whatever runs is a thread with a list of      *)
(* steps still to take: a packet, a callout's handler, or the one holder of  *)
(* sc_lock.  wg_timers_event_* reads p_enabled inside the network epoch and  *)
(* leaves it after it has set the callout; where a section is one step, that *)
(* is because the steps of none depend on what it does in between.  Time is  *)
(* abstract: a callout that is pending may fire, but the retry not before    *)
(* REKEY_TIMEOUT has passed since the initiation it was set for; a response  *)
(* sent since then starts REKEY_TIMEOUT anew and does not set the retry.     *)
EXTENDS Naturals, FiniteSets, Sequences, SequencesExt

CONSTANTS
    Threads,     \* those that carry packets
    Clock,       \* the one that runs the handlers of callouts
    Control,     \* the holder of sc_lock
    MaxRetries,  \* MAX_TIMER_HANDSHAKES
    MaxBusy      \* bound: threads with steps to take at the same time

ASSUME RetryAssumption == MaxRetries \in Nat /\ MaxBusy \in Nat
ASSUME RunnersAssumption == Clock # Control /\ {Clock, Control} \cap Threads = {}

VARIABLES
    enabled,   \* p_enabled
    pending,   \* the callouts of the peer that are set
    another,   \* p_need_another_keepalive
    retries,   \* p_handshake_retries
    interval,  \* p_persistent_keepalive_interval > 0
    recent,    \* less than REKEY_TIMEOUT since r_last_sent
    answered,  \* r_last_sent is that of a response
    sent,      \* the handshake is one we have initiated
    keys,      \* of r_current, r_next: those that are there
    staged,    \* p_stage_queue is not empty
    running,   \* IFF_DRV_RUNNING
    todo,      \* of every thread
    forgotten  \* (history) nobody will come for the packets that wait

peerVars == <<enabled, pending, another, retries, interval>>
noiseVars == <<recent, answered, sent, keys>>
vars == <<peerVars, noiseVars, staged, running, todo, forgotten>>

Callouts == {"new_handshake", "send_keepalive", "retry_handshake",
             "persistent_keepalive", "zero_key_material"}
Runners == Threads \cup {Clock, Control}

TypeOK ==
    /\ {enabled, another, interval, staged, running, forgotten} \subseteq BOOLEAN
    /\ {recent, answered, sent} \subseteq BOOLEAN
    /\ pending \subseteq Callouts
    /\ retries \in 0 .. MaxRetries + 1
    /\ keys \subseteq {"current", "next"}
    /\ DOMAIN todo = Runners

Init ==
    /\ enabled = FALSE /\ pending = {} /\ another = FALSE /\ retries = 0
    /\ interval = FALSE
    /\ recent = FALSE /\ answered = FALSE /\ sent = FALSE /\ keys = {}
    /\ staged = FALSE /\ forgotten = FALSE
    /\ running = FALSE
    /\ todo = [r \in Runners |-> [epoch |-> <<>>, rest |-> <<>>]]

-----------------------------------------------------------------------------
(* Steps.                                                                    *)

Idle(r) == todo[r] = [epoch |-> <<>>, rest |-> <<>>]
InEpoch(r) == todo[r].epoch # <<>>
At(r, step) ==
    IF InEpoch(r) THEN Head(todo[r].epoch) = step ELSE ~Idle(r) /\ Head(todo[r].rest) = step
Ahead(r) == ToSet(todo[r].epoch) \cup ToSet(todo[r].rest)

\* r is done with its first step and takes those of list before the others.
Goes(r, list) ==
    todo' = [todo EXCEPT ![r] =
        IF InEpoch(r) THEN [epoch |-> list \o Tail(@.epoch), rest |-> @.rest]
        ELSE [epoch |-> <<>>, rest |-> list \o Tail(@.rest)]]
\* The same, with list inside the epoch; it is left when nothing remains to do
\* there.
GoesInside(r, list) ==
    todo' = [todo EXCEPT ![r] =
        IF InEpoch(r) THEN [epoch |-> list \o Tail(@.epoch), rest |-> @.rest]
        ELSE [epoch |-> list, rest |-> Tail(@.rest)]]
Begins(t, list) ==
    /\ Idle(t) /\ Cardinality({r \in Runners : ~Idle(r)}) < MaxBusy
    /\ todo' = [todo EXCEPT ![t].rest = list]

\* wg_timers_run_persistent_keepalive
PersistentKeepalive == IF interval THEN <<"send_staged">> ELSE <<>>

\* What wg_timers_event_* does when it has found p_enabled set.
\* Mutant: a handshake that completes does not send what waits for it.
SectionSilent ==
    [complete |-> <<"again">>,
     want_initiation |-> <<"initiation">>]
Section ==
    [complete |-> <<"send_staged", "again">>,
     want_initiation |-> <<"initiation">>]

\* Mutant: wg_timers_event_want_initiation does not read p_enabled.
EntersAlways(event) == enabled \/ event = "want_initiation"
Enters(event) == enabled

Enter(r) ==
    /\ \E event \in DOMAIN Section :
          /\ At(r, event)
          /\ GoesInside(r, IF Enters(event) THEN Section[event] ELSE <<>>)
          /\ IF event = "complete" /\ Enters(event)
             THEN pending' = pending \ {"retry_handshake"} /\ retries' = 0
             ELSE UNCHANGED <<pending, retries>>
          /\ forgotten' = (forgotten \/ (event = "want_initiation" /\ ~enabled /\ staged))
    /\ UNCHANGED <<enabled, another, interval, noiseVars, staged, running>>

\* The sections of one step: wg_timers_event_session_derived, _data_sent,
\* _any_authenticated_packet_traversal, with _sent and _received before it, and
\* _handshake_initiated.
If(set) == IF enabled THEN set ELSE {}
Derived == If({"zero_key_material"})
DataSent == If({"new_handshake"})
Traversal == If({"persistent_keepalive" : i \in {interval} \ {FALSE}})

AuthenticatedSent(set) == (set \ {"send_keepalive"}) \cup Traversal
AuthenticatedReceived(set) == (set \ {"new_handshake"}) \cup Traversal

\* The same, and wg_timers_event_data_received if there is data.
AnyReceived ==
    \E data \in {{}, If({"send_keepalive"})} :
        /\ pending' = AuthenticatedReceived(pending) \cup data
        /\ another' = (another \/ (data # {} /\ data \subseteq pending))

Initiated(r) ==
    /\ At(r, "initiated")
    /\ pending' = pending \cup If({"retry_handshake"})
    /\ forgotten' = (forgotten /\ ~enabled)
    /\ Goes(r, <<>>)
    /\ UNCHANGED <<enabled, another, retries, interval, noiseVars, staged, running>>

\* The end of wg_timers_run_send_keepalive.
Again(r) ==
    /\ At(r, "again")
    /\ pending' = pending \cup If({"send_keepalive" : a \in {another} \ {FALSE}})
    /\ another' = (another /\ ~enabled)
    /\ Goes(r, <<>>)
    /\ UNCHANGED <<enabled, retries, interval, noiseVars, staged, running, forgotten>>

\* wg_send_keepalive, with an empty packet unless others wait, and
\* wg_peer_send_staged: when there is no key with a nonce left, the packets that
\* were taken off the queue are put back.  (KernelQueues has these steps apart.)
SendStaged(r) ==
    /\ At(r, "send_staged")
    /\ \/ "current" \in keys /\ staged' = FALSE /\ Goes(r, <<>>)
       \/ staged' = TRUE /\ Goes(r, <<"want_initiation">>)
    /\ forgotten' = FALSE
    /\ UNCHANGED <<peerVars, noiseVars, running>>

\* The handshake is not begun: if no retry is set, the packets are left to
\* themselves.
NotBegun(r) ==
    /\ forgotten' = (forgotten \/ (staged /\ "retry_handshake" \notin pending))
    /\ Goes(r, <<>>)

\* wg_timers_run_send_initiation, which finds REKEY_TIMEOUT over or not.
RunSendInitiation(r) ==
    \/ recent /\ NotBegun(r)
    \/ ~recent /\ Goes(r, <<"create">>) /\ UNCHANGED forgotten

Initiation(r) ==
    /\ At(r, "initiation")
    /\ retries' = 0
    /\ RunSendInitiation(r)
    /\ UNCHANGED <<enabled, pending, another, interval, noiseVars, staged, running>>

\* wg_send_initiation.  noise_create_initiation refuses when a handshake message
\* has been sent meanwhile; it may refuse at any time, as the interface may have no
\* private key, or the peer a key that agrees on no secret.
Create(r) ==
    /\ At(r, "create")
    /\ ~recent
    /\ recent' = TRUE /\ answered' = FALSE /\ sent' = TRUE
    /\ pending' = AuthenticatedSent(pending)
    /\ Goes(r, <<"initiated">>)
    /\ UNCHANGED <<enabled, another, retries, interval, keys, staged, running, forgotten>>

CreateRefused(r) ==
    /\ At(r, "create")
    /\ NotBegun(r)
    /\ UNCHANGED <<peerVars, noiseVars, staged, running>>

-----------------------------------------------------------------------------
(* The handlers of the callouts.  callout_stop does not wait for one that    *)
(* runs, and none of them reads p_enabled first.                             *)

\* The retry is set after r_last_sent, so that it finds REKEY_TIMEOUT over
\* unless r_last_sent is that of a later response, or of a later initiation,
\* which is about to set it again or finds the timers disabled.  The keys go three
\* times REJECT_AFTER_TIME after the last handshake, when all steps taken then are
\* long over, and so is REKEY_TIMEOUT, unless a new handshake is under way; a
\* response would have set the callout anew.
Due(c) ==
    /\ c = "retry_handshake" =>
          ~recent \/ answered \/ ~enabled \/ \E r \in Runners : "initiated" \in Ahead(r)
    /\ c = "zero_key_material" =>
          /\ \A r \in Runners : Idle(r)
          /\ recent => "retry_handshake" \in pending /\ ~answered

Handler ==
    [new_handshake |-> <<"initiation">>,
     send_keepalive |-> <<"send_staged", "again">>,
     retry_handshake |-> <<"retry">>,
     persistent_keepalive |-> PersistentKeepalive]

Fire(c) ==
    /\ c \in pending /\ Due(c)
    /\ pending' = pending \ {c}
    /\ IF c = "zero_key_material" THEN keys' = {} /\ UNCHANGED todo
       ELSE Begins(Clock, Handler[c]) /\ UNCHANGED keys
    /\ UNCHANGED <<enabled, another, retries, interval, recent, answered, sent>>
    /\ UNCHANGED <<staged, running, forgotten>>

\* Mutant: the handshakes are not counted.
RetriedUncounted == 0
Retried == retries + 1

RetryHandshake(r) ==
    /\ At(r, "retry")
    /\ retries <= MaxRetries
    /\ retries' = Retried
    /\ RunSendInitiation(r)
    /\ UNCHANGED <<enabled, pending, another, interval, noiseVars, staged, running>>

GiveUp(r) ==
    /\ At(r, "retry")
    /\ retries > MaxRetries
    /\ pending' = (pending \ {"send_keepalive"}) \cup Derived
    /\ staged' = FALSE /\ forgotten' = FALSE
    /\ Goes(r, <<>>)
    /\ UNCHANGED <<enabled, another, retries, interval, noiseVars, running>>

-----------------------------------------------------------------------------
(* What comes and goes.                                                      *)

\* keep_key_fresh_send and _recv may ask for a handshake.
Asks == {<<>>} \cup {<<"want_initiation">> : key \in keys \cap {"current"}}

\* wg_xmit.  An interface that is down has no routes.
Xmit(t) ==
    /\ running
    /\ Begins(t, <<"send_staged">>)
    /\ UNCHANGED <<peerVars, noiseVars, staged, running, forgotten>>

\* wg_deliver_out: packets with data or without, their key perhaps gone since.
DeliverOut(t) ==
    /\ \E data \in {{}, DataSent} : pending' = AuthenticatedSent(pending) \cup data
    /\ \E ask \in Asks : Begins(t, ask)
    /\ UNCHANGED <<enabled, another, retries, interval, noiseVars, staged, running, forgotten>>

\* wg_deliver_in; noise_keypair_received_with makes the next key the current one.
DeliverIn(t) ==
    /\ \/ /\ AnyReceived
          /\ \E ask \in Asks : Begins(t, ask)
          /\ UNCHANGED keys
       \/ /\ "next" \in keys
          /\ keys' = {"current"}
          /\ \E ask \in {<<>>, <<"want_initiation">>} :
                Begins(t, <<"complete", "received">> \o ask)
          /\ UNCHANGED <<pending, another>>
    /\ UNCHANGED <<enabled, retries, interval, recent, answered, sent>>
    /\ UNCHANGED <<staged, running, forgotten>>

Received(t) ==
    /\ At(t, "received")
    /\ AnyReceived
    /\ Goes(t, <<>>)
    /\ UNCHANGED <<enabled, retries, interval, noiseVars, staged, running, forgotten>>

\* wg_handshake; a message taken from the queue before wg_down may come after it.
\* The response to an initiation is sent at once and renews r_last_sent.
HandshakeInitiation(t) ==
    /\ Idle(t)
    /\ recent' = TRUE /\ answered' = TRUE /\ sent' = FALSE
    /\ keys' = keys \cup {"next"}
    /\ pending' = AuthenticatedReceived(AuthenticatedSent(pending \cup Derived))
    /\ UNCHANGED <<enabled, another, retries, interval, staged, running, todo, forgotten>>

HandshakeResponse(t) ==
    /\ sent
    /\ Begins(t, <<"complete", "received">>)
    /\ sent' = FALSE
    /\ keys' = {"current"}
    /\ pending' = pending \cup Derived
    /\ UNCHANGED <<enabled, another, retries, interval, recent, answered>>
    /\ UNCHANGED <<staged, running, forgotten>>

\* REKEY_TIMEOUT is over.
Expire ==
    /\ recent
    /\ recent' = FALSE /\ answered' = FALSE
    /\ UNCHANGED <<peerVars, sent, keys, staged, running, todo, forgotten>>

-----------------------------------------------------------------------------
(* The interface, under sc_lock.                                             *)

\* wg_up, wg_down, a new keepalive interval.  wg_up may fail for want of sockets.
Up ==
    /\ ~running
    /\ running' = TRUE
    /\ Begins(Control, <<"enable">>)
    /\ UNCHANGED <<peerVars, noiseVars, staged, forgotten>>

Down ==
    /\ running
    /\ running' = FALSE
    /\ staged' = FALSE /\ forgotten' = FALSE
    /\ Begins(Control, <<"disable", "clear">>)
    /\ UNCHANGED <<peerVars, noiseVars>>

KeepaliveInterval ==
    /\ interval' = ~interval
    /\ Begins(Control, IF enabled /\ ~interval THEN <<"send_staged">> ELSE <<>>)
    /\ UNCHANGED <<enabled, pending, another, retries, noiseVars, staged, running, forgotten>>

\* NET_EPOCH_WAIT; who enters later finds what was stored before.
EpochWait ==
    /\ At(Control, "epoch_wait")
    /\ \A r \in Runners \ {Control} : ~InEpoch(r)
    /\ Goes(Control, <<>>)
    /\ UNCHANGED <<peerVars, noiseVars, staged, running, forgotten>>

\* wg_timers_enable, wg_timers_disable.
Enable ==
    /\ At(Control, "enable")
    /\ enabled' = TRUE
    /\ Goes(Control, PersistentKeepalive)
    /\ UNCHANGED <<pending, another, retries, interval, noiseVars, staged, running, forgotten>>

\* Mutant: the callouts are stopped without the wait.
DisabledAtOnce == <<"stop_callouts">>
Disabled == <<"epoch_wait", "stop_callouts">>

Disable ==
    /\ At(Control, "disable")
    /\ enabled' = FALSE
    /\ Goes(Control, Disabled)
    /\ UNCHANGED <<pending, another, retries, interval, noiseVars, staged, running, forgotten>>

StopCallouts ==
    /\ At(Control, "stop_callouts")
    /\ another' = FALSE /\ pending' = {}
    /\ forgotten' = (forgotten \/ staged)
    /\ Goes(Control, <<>>)
    /\ UNCHANGED <<enabled, retries, interval, noiseVars, staged, running>>

\* noise_remote_handshake_clear and noise_remote_keypairs_clear.
Clear ==
    /\ At(Control, "clear")
    /\ recent' = FALSE /\ answered' = FALSE /\ sent' = FALSE /\ keys' = {}
    /\ Goes(Control, <<>>)
    /\ UNCHANGED <<peerVars, staged, running, forgotten>>

-----------------------------------------------------------------------------
Step(r) ==
    \/ Enter(r) \/ Initiated(r) \/ Again(r) \/ SendStaged(r) \/ Initiation(r) \/ Create(r)
    \/ CreateRefused(r) \/ RetryHandshake(r) \/ GiveUp(r) \/ Received(r)
Traffic ==
    \E t \in Threads : \/ Xmit(t) \/ DeliverOut(t) \/ DeliverIn(t)
                       \/ HandshakeInitiation(t) \/ HandshakeResponse(t)
ControlStep ==
    EpochWait \/ Enable \/ Disable \/ StopCallouts \/ Clear

Next ==
    \/ \E r \in Runners : Step(r)
    \/ \E c \in Callouts : Fire(c)
    \/ Traffic
    \/ Expire
    \/ Up \/ Down \/ KeepaliveInterval
    \/ ControlStep

\* Whatever has begun goes on; callouts fire and time passes.
Fairness ==
    /\ \A r \in Runners : WF_vars(Step(r))
    /\ SF_vars(Fire("retry_handshake"))
    /\ WF_vars(Expire) /\ WF_vars(ControlStep)

Spec == Init /\ [][Next]_vars /\ Fairness

-----------------------------------------------------------------------------
(* Correctness.                                                              *)

\* Once wg_timers_disable has returned, no callout is set, and no thread but a
\* handler that was running when its callout was stopped starts a handshake.
\* (The comment in wg_timers_disable denies even that.)
TimersStopped ==
    ~enabled /\ "stop_callouts" \notin Ahead(Control) =>
        /\ pending = {}
        /\ \A r \in Runners \ {Clock} :
              Ahead(r) \cap {"initiation", "create"} = {}

\* When all is quiet, a packet that waits has a retry to wait for, unless the last
\* to ask for an initiation found the timers disabled, or no retry set when it was
\* refused: for want of a usable key, or since REKEY_TIMEOUT was not over after a
\* response of our own or an initiation that nobody repeats.
WaitingAttended ==
    staged /\ enabled /\ ~forgotten /\ (\A r \in Runners : Idle(r))
        => "retry_handshake" \in pending

\* Without traffic, answers and persistent keepalives, the retries come to an end,
\* and a packet that has been waiting for them no longer waits.
RetriesEnd ==
    <>[][~Traffic]_vars /\ <>[]~interval =>
        <>[]("retry_handshake" \notin pending /\ (staged => forgotten))
=============================================================================
