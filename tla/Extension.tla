------------------------------ MODULE Extension ------------------------------
(***************************************************************************)
(* PacketTunnelProvider.swift: which queue calls the embeddable session    *)
(* wg_session, on which handle, and what the call touches that has no      *)
(* lock of its own.  The callbacks of the extension run on queues of their *)
(* own: the entry points of the provider (one at a time), the read handler *)
(* of the UDP session or the KCP queue, the packet loop, and the timer on  *)
(* a global concurrent queue.  The C core takes no lock for its tries, its *)
(* peers and its memory; crypto_bridge.swift keeps the last private key in *)
(* two global variables.                                                   *)
(***************************************************************************)
EXTENDS Naturals, Sequences

CONSTANTS
    Sessions,   \* handles wg_session_create may return, each once
    None        \* nil

Queues == {"provider", "udp", "kcp", "flow", "timer"}

VARIABLES
    session,    \* self.session
    created,    \* handles wg_session_create returned
    destroyed,  \* handles wg_session_destroy freed
    settings,   \* handles captured by completions of setTunnelNetworkSettings
    transport,  \* "none", "udp" (udpSession) or "kcp" (kcpSession)
    reading,    \* a readPackets callback is outstanding
    ticking,    \* the timer is armed
    greeted,    \* sessions that built a handshake message
    call        \* what each queue does: see Idle

vars == <<session, created, destroyed, settings, transport, reading, ticking, greeted, call>>

(* An access of a call: the object, and whether it is changed.             *)
Cache(w) == [what |-> "key cache", of |-> None, writes |-> w]
Trie(s, w) == [what |-> "trie", of |-> s, writes |-> w]
Peers(s, w) == [what |-> "peers", of |-> s, writes |-> w]
\* r_current, which noise_keypair_current reads outside the lock: the epoch of
\* macos_stubs/sys/epoch.h keeps nothing alive, on a "single-threaded assumption".
Current(s, w) == [what |-> "current", of |-> s, writes |-> w]

(* A queue runs handler "of" with the handle it read; "left" is what its   *)
(* call has yet to touch, the head being touched now.                      *)
Call(h, s, a) == [of |-> h, on |-> s, left |-> a]
Idle == Call("idle", None, <<>>)

(* noise_create_initiation and noise_create_response generate a secret     *)
(* (stored in the cache) and then its public key (read from the cache).    *)
Ephemeral == <<Cache(TRUE), Cache(FALSE)>>

(* What a call touches on each of its ways; a call may end early.          *)
Tick(s) == {<<Peers(s, FALSE)>>, <<Peers(s, TRUE)>>, <<Peers(s, TRUE)>> \o Ephemeral}
Kick(s) == {<<Peers(s, FALSE)>>, <<Peers(s, FALSE)>> \o Ephemeral \o <<Peers(s, TRUE)>>}
HandleUdp(s) ==
    {<<Peers(s, FALSE)>>,                                         \* dropped, cookie reply
     <<Cache(FALSE)>>,                                            \* initiation refused
     <<Cache(FALSE)>> \o Ephemeral \o <<Peers(s, TRUE)>>}         \* initiation
    \cup IF s \notin greeted THEN {} ELSE
    {<<Current(s, TRUE), Peers(s, TRUE), Trie(s, FALSE), Peers(s, TRUE)>>,  \* data
     <<Peers(s, FALSE), Cache(FALSE), Current(s, TRUE), Peers(s, TRUE)>>}  \* response
HandleTun(s) ==
    {<<Trie(s, FALSE), Current(s, FALSE)>>}                       \* no keypair
    \cup IF s \notin greeted THEN {} ELSE
    {<<Trie(s, FALSE), Current(s, FALSE), Peers(s, TRUE)>>}
GetUapi(s) == {<<Peers(s, FALSE), Peers(s, FALSE), Peers(s, FALSE)>>}
SetUapi(s) == {<<Trie(s, TRUE)>>, <<Peers(s, TRUE), Trie(s, TRUE)>>,
               <<Peers(s, TRUE), Cache(FALSE), Trie(s, TRUE)>>}
Destroy(s) == {<<Trie(s, TRUE), Peers(s, TRUE)>>}

Begins(q, h, s, ways) ==
    /\ call[q] = Idle
    /\ \E a \in ways : call' = [call EXCEPT ![q] = Call(h, s, a)]

-----------------------------------------------------------------------------
Init ==
    /\ session = None /\ created = {} /\ destroyed = {} /\ settings = {}
    /\ transport = "none" /\ reading = FALSE /\ ticking = FALSE
    /\ greeted = {}
    /\ call = [q \in Queues |-> Idle]

(* startTunnel: the session is created and published before the settings   *)
(* are handed over; the completion keeps the local handle.                 *)
StartTunnel ==
    /\ call["provider"] = Idle /\ session = None
    /\ \E s \in Sessions \ created :
         /\ session' = s
         /\ created' = created \cup {s}
         /\ settings' = settings \cup {s}
    /\ UNCHANGED <<destroyed, transport, reading, ticking, greeted, call>>

(* The completion fails: startTunnel reports it, self.session stays.       *)
SettingsFail(s) ==
    /\ call["provider"] = Idle /\ s \in settings
    /\ settings' = settings \ {s}
    /\ UNCHANGED <<session, created, destroyed, transport, reading, ticking, greeted, call>>

(* The completion succeeds: the transport is attached (or there is no      *)
(* endpoint), the packet loop started, and the captured handle is kicked.  *)
SettingsDone(s) ==
    /\ s \in settings
    /\ Begins("provider", "kick", s, Kick(s))
    /\ settings' = settings \ {s}
    /\ transport' \in {transport, "udp", "kcp"}
    /\ reading' = TRUE
    /\ UNCHANGED <<session, created, destroyed, ticking, greeted>>

(* stopTunnel: timer, transport, then the session, which is set to nil     *)
(* when wg_session_destroy has returned; nothing waits for a callback.     *)
StopTunnel ==
    /\ call["provider"] = Idle
    /\ ticking' = FALSE /\ transport' = "none"
    /\ IF session = None THEN UNCHANGED call
       ELSE Begins("provider", "destroy", session, Destroy(session))
    /\ UNCHANGED <<session, created, destroyed, settings, reading, greeted>>

AppMessage ==
    /\ session # None
    /\ Begins("provider", "uapi", session, GetUapi(session) \cup SetUapi(session))
    /\ UNCHANGED <<session, created, destroyed, settings, transport, reading, ticking, greeted>>

(* The read handler (attachUDPReadHandler) or handleKcpReceive.            *)
Receive(q) ==
    /\ transport = q /\ session # None
    /\ Begins(q, "receive", session, HandleUdp(session))
    /\ UNCHANGED <<session, created, destroyed, settings, transport, reading, ticking, greeted>>

(* startPacketFlowLoop's callback: without a session the loop ends.        *)
Packets ==
    /\ reading /\ call["flow"] = Idle
    /\ reading' = FALSE
    /\ IF session = None THEN UNCHANGED call
       ELSE Begins("flow", "packets", session, HandleTun(session))
    /\ UNCHANGED <<session, created, destroyed, settings, transport, ticking, greeted>>

TimerFires ==
    /\ ticking /\ session # None
    /\ Begins("timer", "tick", session, Tick(session))
    /\ UNCHANGED <<session, created, destroyed, settings, transport, reading, ticking, greeted>>

(* The call goes on to what it touches next.                               *)
Proceed(q) ==
    /\ Len(call[q].left) > 1
    /\ call' = [call EXCEPT ![q].left = Tail(@)]
    /\ greeted' = IF Head(call[q].left) = Cache(TRUE)
                  THEN greeted \cup {call[q].on} ELSE greeted
    /\ UNCHANGED <<session, created, destroyed, settings, transport, reading, ticking>>

(* A batch of datagrams or packets: the next call on the handle read.      *)
Another(q) ==
    /\ Len(call[q].left) = 1
    /\ \/ /\ call[q].of = "receive" /\ q = "udp"
          /\ \E a \in HandleUdp(call[q].on) : call' = [call EXCEPT ![q].left = a]
       \/ /\ call[q].of = "packets"
          /\ \E a \in HandleTun(call[q].on) : call' = [call EXCEPT ![q].left = a]
    /\ UNCHANGED <<session, created, destroyed, settings, transport, reading, ticking, greeted>>

(* The call returns, and its handler does what follows it.                 *)
Return(q) ==
    /\ Len(call[q].left) = 1
    /\ LET c == call[q] IN
         /\ session' = IF c.of = "destroy" THEN None ELSE session
         /\ destroyed' = IF c.of = "destroy" THEN destroyed \cup {c.on} ELSE destroyed
         /\ reading' = (reading \/ c.of = "packets")
         /\ ticking' = (ticking \/ c.of = "kick")
    /\ call' = [call EXCEPT ![q] = Idle]
    /\ UNCHANGED <<created, settings, transport, greeted>>

Next ==
    \/ StartTunnel \/ StopTunnel \/ AppMessage \/ Packets \/ TimerFires
    \/ \E s \in Sessions : SettingsFail(s) \/ SettingsDone(s)
    \/ \E q \in {"udp", "kcp"} : Receive(q)
    \/ \E q \in Queues : Proceed(q) \/ Another(q) \/ Return(q)

Spec == Init /\ [][Next]_vars

-----------------------------------------------------------------------------
Touches(q) == IF call[q] = Idle THEN {} ELSE {Head(call[q].left)}

Same(a, b) == a.what = b.what /\ a.of = b.of

(* What the C core and the bridge have no lock for is used by one queue at *)
(* a time, a session that was freed by none: src/allowedips.h:11 ("Single- *)
(* threaded use only") and src/crypto_bridge.swift:24-26 ("Safe because    *)
(* ... on a single thread") take this for granted; the queues of           *)
(* PacketTunnelProvider do not give it.                                    *)
OneUserAtATime ==
    \A q \in Queues : \A a \in Touches(q) :
      /\ a.of \notin destroyed
      /\ \A r \in Queues \ {q} : \A b \in Touches(r) :
           Same(a, b) => ~a.writes /\ ~b.writes
=============================================================================
