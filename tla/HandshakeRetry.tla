--------------------------- MODULE HandshakeRetry ---------------------------
(* The handshake timers of one configured peer, for ever: retransmission,    *)
(* giving up and rekeying by wg_session_tick (src/src/wg_session.c) or by    *)
(* tunnel_tick_peer (src/src/wg_core.c), against a peer that may answer,     *)
(* initiate itself, or stay silent.  Every clock is kept as an age that      *)
(* saturates just above the largest value the code compares it with, so the  *)
(* behaviours are infinite and the state space is finite.                    *)
(*                                                                           *)
(* Who calls the tick: the timer of PacketTunnelProvider.swift once per      *)
(* second; run_tunnel of wg_core.c after every select, so at least once per  *)
(* second; the event loop of wg_windows_tun.c when a wait of one second has  *)
(* ended without an event, so not at all while packets keep coming.          *)
EXTENDS Integers

CONSTANTS
    Setups,          \* the combinations of implementation and driver
    RekeyTimeout,    \* REKEY_TIMEOUT_SEC
    RekeyAfter,      \* REKEY_AFTER_TIME_SEC
    Jitters,         \* values of arc4random_uniform(REKEY_JITTER_MAX_SEC)
    RejectAfterTime, \* REJECT_AFTER_TIME
    MaxAttempts,     \* MAX_HANDSHAKE_ATTEMPTS
    MaxInbound       \* bound on the initiations of the peer

\* impl: "session" or "core"; onTimeoutOnly: the driver is the event loop of
\* wg_windows_tun.c.  The callers of wg_session kick it, those of wg_core
\* have nothing to kick.
ASSUME SetupAssumption ==
    Setups \subseteq [impl : {"session", "core"}, onTimeoutOnly : BOOLEAN]

ASSUME AgeAssumption == \A j \in Jitters : RekeyAfter + j <= RejectAfterTime

VARIABLES
    setup,              \* the combination this behaviour is about
    pending, attempts,  \* hs_pending, hs_attempts
    sentAge,            \* now - hs_sent_at
    birthAge, jitter,   \* now - keypair_birth (NEVER: 0), rekey_jitter_sec
    noiseAge,           \* age of the noise layer's r_last_sent
    initiator,          \* r_handshake is of an initiation that was sent
    answer,             \* a response to the latest initiation is on its way
    nextWaits,          \* r_next is a key the peer was told of
    currentAge,         \* age of r_current
    due,                \* a second has passed since the last tick
    kicked, inbound,    \* kicks used up, initiations received
    down                \* sendto fails: no route, or the interface is gone

peerVars == <<pending, attempts, sentAge, birthAge, jitter>>
noiseVars == <<noiseAge, initiator, nextWaits, currentAge>>
envVars == <<answer, kicked, inbound, down, setup>>
vars == <<peerVars, noiseVars, envVars, due>>

Impl == setup.impl

NEVER == -1
Older(age, limit) == IF age = NEVER THEN NEVER ELSE IF age < limit THEN age + 1 ELSE age

Usable == currentAge # NEVER /\ currentAge <= RejectAfterTime

TypeOK ==
    /\ setup \in Setups
    /\ pending \in BOOLEAN /\ attempts \in 0..(MaxAttempts + 1)
    /\ sentAge \in 0..RekeyTimeout
    /\ birthAge \in NEVER..(RejectAfterTime + 1) /\ jitter \in Jitters
    /\ noiseAge \in NEVER..(RekeyTimeout + 1)
    /\ initiator \in BOOLEAN /\ answer \in BOOLEAN /\ nextWaits \in BOOLEAN
    /\ currentAge \in NEVER..(RejectAfterTime + 1)
    /\ due \in BOOLEAN /\ kicked \in BOOLEAN /\ inbound \in 0..MaxInbound
    /\ down \in BOOLEAN

Init ==
    /\ setup \in Setups
    /\ pending = FALSE /\ attempts = 0 /\ sentAge = 0
    /\ birthAge = NEVER /\ jitter = 0
    /\ noiseAge = NEVER /\ initiator = FALSE /\ answer = FALSE
    /\ nextWaits = FALSE /\ currentAge = NEVER
    /\ due = FALSE /\ kicked = FALSE /\ inbound = 0 /\ down = FALSE

\* A second passes; the tick of the last one has been called.
Second ==
    /\ ~due
    /\ due' = TRUE
    /\ sentAge' = Older(sentAge, RekeyTimeout)
    /\ birthAge' = Older(birthAge, RejectAfterTime + 1)
    /\ noiseAge' = Older(noiseAge, RekeyTimeout + 1)
    /\ currentAge' = Older(currentAge, RejectAfterTime + 1)
    /\ UNCHANGED <<pending, attempts, jitter, initiator, nextWaits, envVars>>

-----------------------------------------------------------------------------
\* Only wg_core draws a jitter (peer_stamp_keypair).
JittersUsed == IF Impl = "core" THEN Jitters ELSE {0}

\* noise_create_initiation refuses until r_last_sent has expired, which at
\* equality depends on the fractions of a second.
Refused == noiseAge # NEVER /\ noiseAge <= RekeyTimeout
Accepted == noiseAge = NEVER \/ noiseAge >= RekeyTimeout

\* Mutant: attempts are not counted.
Uncounted(n) == n
Counted(n) == n + 1

\* wgs_send_initiation does not ask whether a packet was sent, which then is
\* lost; wg_core does (peer_send, and sendto of a response).
SendFails == Impl = "core" /\ down

Unsent(open, n, backedOff) ==
    /\ pending' = open /\ attempts' = n
    /\ sentAge' = IF backedOff THEN 0 ELSE sentAge

\* wgs_send_initiation, tunnel_send_initiation, with the handshake pending as
\* given, n attempts so far, and hs_sent_at already moved if backedOff.
SendInitiation(open, n, backedOff) ==
    \/ /\ Refused
       /\ UNCHANGED <<noiseAge, initiator, answer>>
       /\ Unsent(open, n, backedOff)
    \/ /\ Accepted /\ SendFails
       /\ noiseAge' = 0 /\ initiator' = FALSE /\ answer' = FALSE
       /\ Unsent(open, n, backedOff)
    \/ /\ Accepted /\ ~SendFails
       /\ noiseAge' = 0 /\ initiator' = TRUE /\ answer' = FALSE
       /\ pending' = TRUE /\ attempts' = Counted(n) /\ sentAge' = 0

RetransmitDue == pending /\ sentAge >= RekeyTimeout
GivesUp == RetransmitDue /\ attempts >= MaxAttempts

\* Mutant: only a peer that has had a key is handshaken with.
StartDueCoreRekeyOnly == birthAge # NEVER /\ birthAge >= RekeyAfter + jitter
StartDueCore == birthAge = NEVER \/ birthAge >= RekeyAfter + jitter
\* Mutant: a key that has expired is not replaced any more.
StartDueSessionLive == birthAge >= RekeyAfter /\ birthAge <= RejectAfterTime
StartDueSession == birthAge # NEVER /\ birthAge >= RekeyAfter
StartDue == IF Impl = "session" THEN StartDueSession ELSE StartDueCore

Retransmit ==
    /\ RetransmitDue /\ ~GivesUp
    /\ SendInitiation(TRUE, attempts, TRUE)

\* Giving up and starting anew can happen in one tick.
StartAnew ==
    /\ ~pending \/ GivesUp
    /\ StartDue
    /\ SendInitiation(FALSE, 0, GivesUp)

GiveUp ==
    /\ GivesUp /\ ~StartDue
    /\ pending' = FALSE /\ attempts' = 0 /\ sentAge' = 0
    /\ UNCHANGED <<noiseAge, initiator, answer>>

Idle ==
    /\ ~RetransmitDue
    /\ pending \/ ~StartDue
    /\ UNCHANGED <<pending, attempts, sentAge, noiseAge, initiator, answer>>

\* wg_session_tick, tunnel_tick_peer.  wg_core also calls it early.
Tick ==
    /\ due \/ Impl = "core"
    /\ due' = FALSE
    /\ Retransmit \/ StartAnew \/ GiveUp \/ Idle
    /\ UNCHANGED <<birthAge, jitter, nextWaits, currentAge, kicked, inbound, down, setup>>

\* run_event_loop of wg_windows_tun.c: an event has ended every wait of this
\* second, and WAIT_TIMEOUT, the only case that ticks, was never returned.
Busy ==
    /\ setup.onTimeoutOnly /\ due
    /\ due' = FALSE
    /\ UNCHANGED <<peerVars, noiseVars, envVars>>

\* wg_session_kick, which the driver calls once after start-up.
Kick ==
    /\ Impl = "session" /\ ~kicked
    /\ kicked' = TRUE
    /\ SendInitiation(pending, attempts, FALSE)
    /\ UNCHANGED <<birthAge, jitter, nextWaits, currentAge, due, inbound, down, setup>>

-----------------------------------------------------------------------------
\* The peer answers the latest initiation.
PeerAnswers ==
    /\ initiator /\ ~answer
    /\ answer' = TRUE
    /\ UNCHANGED <<peerVars, noiseVars, due, kicked, inbound, down, setup>>

\* wgs_handle_response, tunnel_consume_response: only while a handshake is
\* pending, and only if the noise layer still has it.
ReceiveResponse ==
    /\ answer /\ pending /\ initiator
    /\ answer' = FALSE
    /\ pending' = FALSE /\ attempts' = 0
    /\ birthAge' = 0 /\ jitter' \in JittersUsed
    /\ initiator' = FALSE /\ nextWaits' = FALSE /\ currentAge' = 0
    /\ UNCHANGED <<sentAge, noiseAge, due, kicked, inbound, down, setup>>

\* wgs_handle_initiation, tunnel_consume_initiation: the peer's handshake takes
\* over the index of ours.  A response that could not be sent leaves wg_core
\* without the stamps, and its key in r_next.
PeerInitiates ==
    /\ inbound < MaxInbound
    /\ inbound' = inbound + 1
    /\ noiseAge' = 0 /\ initiator' = FALSE /\ answer' = FALSE
    /\ nextWaits' = ~SendFails
    /\ IF SendFails THEN UNCHANGED <<pending, birthAge, jitter>>
       ELSE /\ pending' = (IF Impl = "session" THEN FALSE ELSE pending)
            /\ birthAge' = 0 /\ jitter' \in JittersUsed
    /\ UNCHANGED <<attempts, sentAge, currentAge, due, kicked, down, setup>>

\* The peer sends data under the key it got from our response.
PeerConfirms ==
    /\ nextWaits /\ birthAge <= RejectAfterTime
    /\ nextWaits' = FALSE
    /\ currentAge' = birthAge
    /\ UNCHANGED <<peerVars, noiseAge, initiator, envVars, due>>

\* The network goes and comes back, which wg_core sees as sendto failing.
NetworkChanges ==
    /\ Impl = "core"
    /\ down' = ~down
    /\ UNCHANGED <<peerVars, noiseVars, due, answer, kicked, inbound, setup>>

Next == Second \/ Tick \/ Busy \/ Kick \/ PeerAnswers \/ ReceiveResponse
            \/ PeerInitiates \/ PeerConfirms \/ NetworkChanges

\* Of the initiations that are still being waited for not all go unanswered,
\* and of the answers to them not all are lost.
PeerAnswering == SF_vars(pending /\ PeerAnswers) /\ SF_vars(ReceiveResponse)

\* The driver runs.  Under the loop of wg_windows_tun.c that need not mean a
\* tick: Busy disables it for the second.
Spec == Init /\ [][Next]_vars /\ WF_vars(Second) /\ WF_vars(Tick)

\* What is asked of the surroundings: some seconds pass without a packet, where
\* the tick waits for that; and the network comes back to stay.
SecondsGoQuiet == setup.onTimeoutOnly => []<><<Tick>>_vars
OutagesEnd == <>[]~down

-----------------------------------------------------------------------------
(* Correctness.                                                              *)

\* With a silent peer or not, a round of attempts ends: it completes or comes
\* to the point of giving up (the back-off that precedes each retransmission,
\* and the noise layer's refusals, never starve the count).  Not so while
\* nothing can be sent: wg_core counts the initiations that left.
HandshakeEnds == SecondsGoQuiet /\ OutagesEnd => []<>(~pending \/ GivesUp)

\* Once a key was agreed the timers replace it, whatever was lost meanwhile: a
\* peer that answers keeps a usable key, also after crossing initiations, after
\* giving up, and after the key has expired unused.
KeyRenewed == PeerAnswering => [](birthAge # NEVER => []<>Usable)

\* The same with every driver, as long as seconds without a packet come again
\* and again in the loop of wg_windows_tun.c, and the outages end.
KeyAlwaysRenewed == SecondsGoQuiet /\ OutagesEnd => KeyRenewed

\* tunnel_tick_peer reaches a peer that answers without any help from outside,
\* whatever came before, once initiations can be sent again.
CoreReachesPeer == PeerAnswering /\ OutagesEnd /\ Impl = "core" => <>Usable

\* wg_session_tick starts no first handshake: a session that its driver has
\* kicked reaches the peer unless that handshake, or a later one, was given up.
SessionReachesPeer ==
    PeerAnswering /\ SecondsGoQuiet /\ WF_vars(Kick) /\ [](Impl = "session" /\ ~GivesUp)
    => <>Usable
=============================================================================
