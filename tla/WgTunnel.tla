------------------------------ MODULE WgTunnel ------------------------------
(* Two tunnel endpoints, each with the other as its only peer, exchanging    *)
(* handshakes and data over UDP.  An endpoint runs either the embeddable     *)
(* session of src/src/wg_session.c or the command line tunnel of             *)
(* src/src/wg_core.c; Impl says which, so that the two implementations are   *)
(* also run against each other.  The noise layer (src/src/wg_noise.c) is     *)
(* taken at the level of the protocol: a keypair is a value, a Diffie-       *)
(* Hellman result is the pair of ephemerals it mixes, and a message          *)
(* authenticates exactly when the receiver mixes the same ones.              *)
(*                                                                           *)
(* The network only gains messages: a datagram may arrive late, out of       *)
(* order, any number of times or never.  Time advances by whole seconds;     *)
(* noise compares sub-second clocks (now > t + s) and the session whole      *)
(* seconds (now - t >= s), so at a difference of exactly s seconds the noise *)
(* timer may or may not have expired.                                        *)
EXTENDS Integers, FiniteSets, KeypairSlots

CONSTANTS
    Nodes,            \* the two endpoints
    Impl,             \* [Nodes -> {"session", "core"}]
    HasEndpoint,      \* nodes whose configuration names the peer's endpoint
    Indices,          \* values of i_local_index
    RekeyTimeout,     \* REKEY_TIMEOUT, REKEY_TIMEOUT_SEC
    RekeyAfter,       \* REKEY_AFTER_TIME_SEC
    Jitters,          \* values of arc4random_uniform(REKEY_JITTER_MAX_SEC)
    RejectAfterTime,  \* REJECT_AFTER_TIME
    MaxAttempts,      \* MAX_HANDSHAKE_ATTEMPTS
    Faults,           \* whether malloc and sendto may fail
    MaxTime,          \* bound on the clock
    MaxInitiations,   \* [Nodes -> Nat], bound on the initiations a node creates
    MaxNonce          \* bound on the data packets sent under one keypair

\* Two endpoints.
ASSUME NodesAssumption == \E a, b \in Nodes : a # b /\ Nodes = {a, b}

VARIABLES
    now,    \* time(NULL), getsbinuptime()
    peer,   \* struct wgs_peer / struct peer_state of the other node
    noise,  \* struct noise_remote of the other node
    net     \* every datagram sent so far

vars == <<now, peer, noise, net>>

Other(n) == CHOOSE p \in Nodes : p # n

-----------------------------------------------------------------------------
\* noise_timer_expired when the whole-second clocks differ by now - t.
NEVER == -1
MayHaveExpired(t, s) == t = NEVER \/ now - t >= s
MustHaveExpired(t, s) == t = NEVER \/ now - t > s

PeerInit(n) ==
    [pending |-> FALSE, sentAt |-> 0, localIdx |-> NULL, attempts |-> 0,
     birth |-> NEVER, jitter |-> 0, endpoint |-> n \in HasEndpoint]

\* made counts the initiations created: it gives each its ephemeral and its
\* TAI64N timestamp.  answered and completed are history: the keys derived as
\* responder and as initiator.
NoiseInit ==
    [state |-> "DEAD", idx |-> NULL, hs |-> NULL, ridx |-> NULL,
     lastSent |-> NEVER, lastInit |-> NEVER, timestamp |-> 0,
     slots |-> EmptySlots, made |-> 0, answered |-> {}, completed |-> {}]

Init ==
    /\ now = 0
    /\ peer = [n \in Nodes |-> PeerInit(n)]
    /\ noise = [n \in Nodes |-> NoiseInit]
    /\ net = {}

Advance ==
    /\ now < MaxTime
    /\ now' = now + 1
    /\ UNCHANGED <<peer, noise, net>>

-----------------------------------------------------------------------------
(* The noise layer, as functions of one node's noise_remote.                 *)

\* noise_remote_index_insert unlinks the handshake's own index first.
FreshIndices(s) == Indices \ {k.idx : k \in InSlots(s.slots)}

\* noise_create_initiation.
CreateInitiation(n, i) ==
    LET s == noise[n] IN
    [s EXCEPT !.state = "INITIATOR", !.idx = i, !.hs = <<n, s.made + 1>>,
              !.lastSent = now, !.made = s.made + 1]

\* noise_add_new_keypair by way of noise_begin_session.
BeginSession(s, key, ridx) ==
    LET initiator == s.state = "INITIATOR"
        k == [idx |-> s.idx, ridx |-> ridx, key |-> key, initiator |-> initiator,
              birth |-> now, sent |-> 0]
    IN  [s EXCEPT !.slots = AddKeypair(s.slots, k, initiator),
                  !.state = "DEAD", !.hs = NULL, !.ridx = ridx]

\* Mutant: an initiation as old as the last one is taken.
NotReplayedOrSame(s, m) == m.timestamp >= s.timestamp
\* noise_consume_initiation: the timestamp exceeds the greatest one seen.
NotReplayed(s, m) == m.timestamp > s.timestamp

ConsumeInitiation(s, m, i) ==
    [s EXCEPT !.timestamp = m.timestamp, !.lastInit = now, !.idx = i,
              !.ridx = m.sidx, !.state = "RESPONDER", !.hs = m.e]

\* noise_create_response: the new ephemeral is fresh, as the initiation is.
CreateResponse(s, n) ==
    LET key == <<s.hs, <<n, Cardinality(s.answered) + 1>> >> IN
    [BeginSession(s, key, s.ridx) EXCEPT
        !.lastSent = now, !.answered = @ \cup {key}]

\* noise_consume_response: the handshake is found by index, is ours to finish,
\* and the response decrypts under its ephemeral.
Consumable(s, m) == s.state = "INITIATOR" /\ s.idx = m.ridx /\ s.hs = m.key[1]

ConsumeResponse(s, m) ==
    [BeginSession(s, m.key, m.sidx) EXCEPT !.completed = @ \cup {m.key}]

\* noise_keypair_received_with.
ReceivedWith(s, k) ==
    IF s.slots["next"] = k THEN [s EXCEPT !.slots = Promote(s.slots)] ELSE s

-----------------------------------------------------------------------------
(* Datagrams.                                                                *)

Initiation(n, s) ==
    [type |-> "initiation", to |-> Other(n), sidx |-> s.idx, e |-> s.hs,
     timestamp |-> s.made]

\* Mutant: the response carries the indices the wrong way round.
ResponseSwapped(n, s, k) ==
    [type |-> "response", to |-> Other(n), sidx |-> k.ridx, ridx |-> k.ridx,
     key |-> k.key]
Response(n, s, k) ==
    [type |-> "response", to |-> Other(n), sidx |-> k.idx, ridx |-> k.ridx,
     key |-> k.key]

Data(n, k) ==
    [type |-> "data", to |-> Other(n), ridx |-> k.ridx, key |-> k.key,
     nonce |-> k.sent]

Send(ms) == net' = net \cup ms

-----------------------------------------------------------------------------
(* Sending an initiation: wgs_send_initiation and tunnel_send_initiation.    *)
(* p0 is the peer as the caller left it.                                     *)

InitiationSent(n, p0, i) ==
    [p0 EXCEPT !.pending = TRUE, !.sentAt = now, !.localIdx = i,
               !.attempts = @ + 1]

TrySendInitiation(n, p0) ==
    \/ /\ ~MustHaveExpired(noise[n].lastSent, RekeyTimeout)
       /\ peer' = [peer EXCEPT ![n] = p0]
       /\ UNCHANGED <<noise, net>>
    \/ \E i \in FreshIndices(noise[n]) :
          LET s == CreateInitiation(n, i) IN
          /\ MayHaveExpired(noise[n].lastSent, RekeyTimeout)
          /\ s.made <= MaxInitiations[n]
          /\ noise' = [noise EXCEPT ![n] = s]
          /\ \/ /\ peer' = [peer EXCEPT ![n] = InitiationSent(n, p0, i)]
                /\ Send({Initiation(n, s)})
             \/ \* wg_core: sendto fails, the attempt is not recorded
                /\ Faults /\ Impl[n] = "core"
                /\ peer' = [peer EXCEPT ![n] = p0]
                /\ UNCHANGED net

\* wg_session_kick.
Kick(n) ==
    /\ Impl[n] = "session"
    /\ n \in HasEndpoint
    /\ TrySendInitiation(n, peer[n])
    /\ UNCHANGED now

\* wgs_encap and wg_encap: a data packet under the current keypair.
HandleTun(n) ==
    LET k == noise[n].slots["current"] IN
    /\ peer[n].endpoint
    /\ k # NULL
    /\ ~MustHaveExpired(k.birth, RejectAfterTime)
    /\ k.sent < MaxNonce
    /\ noise' = [noise EXCEPT ![n].slots["current"].sent = @ + 1]
    /\ Send({Data(n, k)})
    /\ UNCHANGED <<now, peer>>

-----------------------------------------------------------------------------
(* Timers: wg_session_tick and tunnel_tick_peer.                             *)

RetransmitDue(p) == p.pending /\ now - p.sentAt >= RekeyTimeout

\* wg_session_tick starts a handshake only to replace a key; it does so also
\* for a peer whose endpoint was learned, where wgs_send_initiation refuses.
StartDueSession(n, p) ==
    /\ ~p.pending
    /\ p.birth # NEVER /\ p.endpoint /\ now - p.birth >= RekeyAfter

\* tunnel_tick_peer also starts the first one.
StartDueCore(n, p) ==
    /\ ~p.pending
    /\ n \in HasEndpoint
    /\ p.birth = NEVER \/ now - p.birth >= RekeyAfter + p.jitter

StartDue(n, p) ==
    IF Impl[n] = "session" THEN StartDueSession(n, p) ELSE StartDueCore(n, p)

\* The first part: back off, then give up or retransmit.
GivesUp(p) == RetransmitDue(p) /\ p.attempts >= MaxAttempts

AfterBackoff(p) ==
    IF GivesUp(p) THEN [p EXCEPT !.sentAt = now, !.pending = FALSE, !.attempts = 0]
    ELSE [p EXCEPT !.sentAt = now]

TickPeer(n) ==
    LET p  == peer[n]
        p1 == IF RetransmitDue(p) THEN AfterBackoff(p) ELSE p
        p2 == [p1 EXCEPT !.attempts = 0]
    IN  /\ \/ /\ RetransmitDue(p) /\ ~GivesUp(p)
              /\ IF n \in HasEndpoint THEN TrySendInitiation(n, p1)
                 ELSE peer' = [peer EXCEPT ![n] = p1] /\ UNCHANGED <<noise, net>>
           \/ /\ StartDue(n, p1)
              /\ IF n \in HasEndpoint THEN TrySendInitiation(n, p2)
                 ELSE peer' = [peer EXCEPT ![n] = p2] /\ UNCHANGED <<noise, net>>
           \/ /\ GivesUp(p) /\ ~StartDue(n, p1)
              /\ peer' = [peer EXCEPT ![n] = p1]
              /\ UNCHANGED <<noise, net>>
        /\ UNCHANGED now

-----------------------------------------------------------------------------
(* Receiving: wg_session_handle_udp and rx_handle_datagram.                  *)

\* Mutant: the session keeps waiting too.
RespondedStillPending(p, j) == [p EXCEPT !.endpoint = TRUE, !.birth = now]
\* wgs_handle_initiation stops waiting for the answer to its own initiation;
\* tunnel_consume_initiation deliberately keeps waiting.
RespondedSession(p, j) ==
    [p EXCEPT !.endpoint = TRUE, !.birth = now, !.pending = FALSE]

RespondedCore(p, j) ==
    [p EXCEPT !.endpoint = TRUE, !.birth = now, !.jitter = j]

Responded(n, p, j) ==
    IF Impl[n] = "session" THEN RespondedSession(p, 0) ELSE RespondedCore(p, j)

HandleInitiation(n, m) ==
    LET s == noise[n] IN
    /\ m.type = "initiation" /\ m.to = n
    /\ NotReplayed(s, m)
    /\ \/ \* refused as a flood: only the timestamp is kept
          /\ s.lastInit = now
          /\ noise' = [noise EXCEPT ![n].timestamp = m.timestamp]
          /\ UNCHANGED <<peer, net>>
       \/ \* noise_create_response fails
          /\ Faults
          /\ \E i \in FreshIndices(s) :
                noise' = [noise EXCEPT ![n] = ConsumeInitiation(s, m, i)]
          /\ UNCHANGED <<peer, net>>
       \/ \* wg_core: sendto fails, the new keypair stays
          /\ Faults /\ Impl[n] = "core"
          /\ \E i \in FreshIndices(s) :
                noise' = [noise EXCEPT
                   ![n] = CreateResponse(ConsumeInitiation(s, m, i), n)]
          /\ UNCHANGED <<peer, net>>
       \/ \E i \in FreshIndices(s), j \in Jitters :
             LET s2 == CreateResponse(ConsumeInitiation(s, m, i), n) IN
             /\ Impl[n] = "session" => j = 0
             /\ noise' = [noise EXCEPT ![n] = s2]
             /\ peer' = [peer EXCEPT ![n] = Responded(n, @, j)]
             /\ Send({Response(n, s2, s2.slots["next"])})
    /\ UNCHANGED now

\* find_pending and find_peer_pending_response.
IsPendingFor(p, m) == p.pending /\ p.localIdx = m.ridx

HandleResponse(n, m) ==
    LET s == noise[n] IN
    /\ m.type = "response" /\ m.to = n
    /\ IsPendingFor(peer[n], m)
    /\ Consumable(s, m)
    /\ noise' = [noise EXCEPT ![n] = ConsumeResponse(s, m)]
    /\ \E j \in Jitters :
          /\ Impl[n] = "session" => j = 0
          /\ peer' = [peer EXCEPT ![n].pending = FALSE, ![n].attempts = 0,
                                  ![n].birth = now, ![n].jitter = j]
    /\ UNCHANGED <<now, net>>

\* wgs_handle_data and wg_decap: found by index, decrypts under its key.
HandleData(n, m) ==
    \E k \in InSlots(noise[n].slots) :
        /\ m.type = "data" /\ m.to = n
        /\ k.idx = m.ridx /\ k.key = m.key
        /\ ~MustHaveExpired(k.birth, RejectAfterTime)
        /\ noise' = [noise EXCEPT ![n] = ReceivedWith(@, k)]
        /\ peer' = [peer EXCEPT ![n].endpoint = TRUE]
        /\ UNCHANGED <<now, net>>

-----------------------------------------------------------------------------
Next ==
    \/ Advance
    \/ \E n \in Nodes : Kick(n) \/ TickPeer(n) \/ HandleTun(n)
    \/ \E n \in Nodes, m \in net :
          HandleInitiation(n, m) \/ HandleResponse(n, m) \/ HandleData(n, m)

Spec == Init /\ [][Next]_vars

-----------------------------------------------------------------------------
(* Correctness.                                                              *)

Keys(n) == {k.key : k \in InSlots(noise[n].slots)}

\* The handshake record of the session layer and the index table of the noise
\* layer stay well formed: a pending handshake names an index, linked indices
\* of one node are distinct.
TypeOK ==
    /\ now \in 0..MaxTime
    /\ \A n \in Nodes :
          /\ peer[n].pending => peer[n].localIdx \in Indices
          /\ peer[n].attempts \in Nat
          /\ noise[n].state \in {"DEAD", "INITIATOR", "RESPONDER"}
          /\ \A j, k \in InSlots(noise[n].slots) : j.idx = k.idx => j = k

\* An initiation is answered at most once, whatever copies of it arrive and
\* in whatever order (the timestamp check of noise_consume_initiation).
AnsweredOnce ==
    \A n \in Nodes : \A a, b \in noise[n].answered : a[1] = b[1] => a = b

\* No key is ever installed twice on one node, also when indices are reused
\* and old responses arrive again: its nonces would start over.
KeyInstalledOnce ==
    [][\A n \in Nodes :
          /\ \A k \in InSlots(noise'[n].slots) :
                k.key \notin Keys(n)
                   => k.key \notin noise[n].answered \cup noise[n].completed
          /\ \A m1, m2 \in SlotNames :
                LET k1 == noise'[n].slots[m1]
                    k2 == noise'[n].slots[m2]
                IN  k1 # NULL /\ k2 # NULL /\ m1 # m2 => k1.key # k2.key]_vars

\* When both ends hold a key, they hold it as initiator and responder and with
\* each other's index.
KeysPaired ==
    \A n \in Nodes : \A j \in InSlots(noise[n].slots),
                       k \in InSlots(noise[Other(n)].slots) :
        j.key = k.key => /\ j.idx = k.ridx /\ j.ridx = k.idx
                         /\ j.initiator # k.initiator

\* A responder sends only under keys its peer has derived too: r_next becomes
\* r_current by an authentic packet and in no other way.
SendsUnderSharedKey ==
    \A n \in Nodes : LET k == noise[n].slots["current"] IN
        k # NULL /\ ~k.initiator => k.key \in noise[Other(n)].completed

\* What one end sends, the other finds the key for: the ends agree on who derived
\* a key first, on its indices, and on when the responder may use it, whatever was
\* lost, repeated or failed half-way on either side.
KeysAgree == KeysPaired /\ SendsUnderSharedKey

\* While a wg_session endpoint waits for the answer to its latest initiation,
\* that answer can be consumed when it lands: hs_pending and the noise state
\* agree, also after a crossing initiation, except where noise_create_response
\* failed half-way.
SessionAnswerCompletes ==
    \A n \in Nodes : Impl[n] = "session" =>
        \A m \in net :
            /\ m.type = "response" /\ m.to = n
            /\ m.key[1] = <<n, noise[n].made>>
            /\ IsPendingFor(peer[n], m)
            /\ noise[n].state # "RESPONDER"
            => Consumable(noise[n], m)
=============================================================================
