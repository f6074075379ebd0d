# A verification of the WireGuard user-space stack

The repository builds WireGuard clients for macOS, iOS, Windows and Android
around one protocol core in C, ported from FreeBSD's `if_wg`. This directory
models that core, its FreeBSD interface, the network extension around it and the
agent that keeps a device in its mesh in TLA+, checks the models with TLC and
proves with TLAPS what ten of them keep: the object layer, the tunnel between two
ends, the replay window, the sockets, the cookies, the three parts of the kernel
interface, the peer table and the agent. Paths below are relative to the repository (`src/` is its root), so the
C sources are `src/src/*.c`.

## 1. Inventory

| Part | State | Operations | Model |
|---|---|---|---|
| noise core, `wg_noise.c` | `noise_local` (identity, peer hash, index hash), `noise_remote` (handshake, three keypair slots, timers), `noise_keypair` (index, nonces, replay ring), reference counts, locks | `noise_*`: create/consume initiation and response, lookup, rotation, nonces, clears, frees | `KeypairSlots`, `Noise`, `ReplayWindow`, `WindowSpec`; proofs in `NoiseProofs` |
| session, `wg_session.c` | eight peer slots with handshake bookkeeping (`hs_pending`, `hs_sent_at`, `hs_local_idx`, `hs_attempts`, `keypair_birth`), endpoint, allowed-ips tries | `create`, `destroy`, `handle_udp`, `handle_tun`, `tick`, `kick`, `get_uapi`, `set_uapi` | `WgTunnel`, `HandshakeRetry`, `DataPath`, `PeerTable`; proofs in `WgTunnelProofs`, `DataPlaneProofs`, `PeerConfigProofs` |
| command line tunnel, `wg_core.c` | the same bookkeeping per peer plus a rekey jitter, one UDP socket per peer, a status socket, a TX thread | `run_tunnel` (select loop), `tunnel_tick`, `rx_handle_datagram`, `tx_thread_main`, control commands | `WgTunnel`, `HandshakeRetry`, `DataPath`, `PeerSockets`; proofs in `WgTunnelProofs`, `DataPlaneProofs` |
| Windows driver, `wg_windows_tun.c` | Wintun session, socket, one `wg_session` | `run_event_loop` | `HandshakeRetry` (when the tick is called) |
| network extension, `PacketTunnelProvider.swift` | `wg_session`, `NWUDPSession` or KCP transport, tick timer | start, stop, app messages, read handlers, 1 s timer | `Extension` (which queue is in the session when), `HandshakeRetry` (the timer) |
| cookies and rate limit, `wg_cookie.c` | checker secret, maker cookie, token buckets | create and consume payload, mac, validate, `ratelimit_*` | `Cookie`, `RateLimit`, `TokenBucket`; proofs in `CookieProofs` |
| allowed-ips tries, `allowedips.c` | binary tries for IPv4 and IPv6 | insert, lookup, remove | insertion and lookup in `PeerTable`; proofs in `PeerConfigProofs` |
| CryptoKit bridge, `crypto_bridge.swift` | one cached private key, global | `generate_secret`, `generate_public`, `shared_secret` | the cache, in `Extension` |
| FreeBSD interface, `if_wg.c` | packet queues, workers and tasks; timers and callouts; sockets, key, peers and addresses under `sc_lock` | transmit, input, handshake task, `wgc_set`, up, down, jail removal, destruction | `KernelQueues`, `KernelTimers`, `KernelInterface`, each with its proofs; `wg_deliver_in` also in `DataPath` |
| mesh agent, `scripts/wgctl-agent.sh` and `WGAgent/` | conf and state files, failure counter and cool-down stamp, launchd jobs, the long poll's cursor and clock | one run a minute: watchdog, heartbeat, eviction, peer refresh | `Agent`, `AgentPoll`; proofs in `PeerConfigProofs` |
| primitives, `wg_crypto*.c`, `curve25519_portable.c` | none kept | Blake2s, ChaCha20-Poly1305, X25519 | taken as ideal |
| host apps, Android app, other scripts, `wgctl` | preferences, caches | user interface, provisioning, text clients | not modelled |

**How they interact.** A host (extension, `wg_core`'s select loop, the Windows
event loop) owns a TUN device and UDP sockets. It hands every datagram and
every IP packet to the session layer and calls its tick about once a second.
The session layer keeps, per peer, whether it is waiting for a handshake
answer; the noise layer keeps the handshake itself. The two are separate
records of the same thing, updated by separate calls. Below, `noise_local`,
`noise_remote` and `noise_keypair` hold references on each other, and the index
hash links whichever object a received 32-bit receiver index designates.
UAPI requests change the peer table while all of this goes on. On FreeBSD the
interface stands in the place of the session layer: callers put packets on
queues, workers on all processors encrypt and decrypt them, callouts drive the
handshakes, and ioctls change sockets and peers under them. Beside the tunnel, the
agent is started every minute: it writes the conf from the control plane's peer
list and has launchd restart the tunnel.

**Where it is hard.**

- A keypair looked up for one packet outlives rotations, clears, frees and
  identity changes by other callers (`wg_noise.c:680-785`).
- Two ends initiate at once; datagrams come late, twice, out of order or never;
  a handler fails half-way, after its first half changed the noise state.
- Two clocks: the session layer counts whole seconds, the noise layer
  nanoseconds, and both throttle the same initiation.
- Timers run only when the driver calls them, and the drivers differ.
- The replay window is a ring of words at the edge of `uint64_t`.
- UAPI requests are applied line by line and may be refused at any line.
- The extension calls one unsynchronised session from several queues, and
  `wg_core` sends on a socket descriptor another thread may close.
- The kernel's packets, callouts and handshakes outlive the peer and the sockets
  they started with; a full queue refuses a packet between two halves of queueing
  it; timers are disabled while sections that read `p_enabled` are under way.
- The user-space session drops a removed peer's remote without clearing it, and
  the kernel's callout handlers use a peer without a reference to it.
- The agent is stopped between any two commands, the host reboots, launchd
  refuses, and what the next run finds is on disk only.

**What makes each part correct.** Noise: exact reference counts, an exact and
unambiguous index table, sound slots, keys that once stopped stay stopped, no
sending under unconfirmed keys. Session and tunnel: an initiation is answered
once, both ends hold matching keys, a pending handshake can be completed, a
reachable peer gets and keeps a usable key. Replay window: each nonce once, none
refused without reason. Peer table: lookups by prefix and public key lead to the peer
the slot holds now, and by index as long as the peer has not been removed. Cookies: the maker never goes back to an
older one, whatever the network does; forgetting idle addresses neither hands
out tokens nor takes any. Sockets: bookkeeping and descriptors agree, and a
peer's fast path comes back after an outage. Kernel interface: a packet is in one
place and gets on, a destroyed peer outlives its users and is then freed, timers
stay off once disabled, a waiting packet has a retry to wait for, retries end,
requests that fail leave keys, peers, sockets and addresses in agreement. Agent:
runs end with the budget and space their requests out, an eviction once begun
finishes, a dead data plane is restarted, and the tunnel ends with the listed peers.

## 2. Modules

Dependencies: `Noise` and `WgTunnel` EXTEND `KeypairSlots`; `NoiseProofs`
EXTENDS `Noise`; `Cookie` EXTENDS `RateLimit`, which INSTANCEs `TokenBucket`;
`CookieProofs` EXTENDS `Cookie`; `ReplayWindow` INSTANCEs `WindowSpec`; `DataPath` EXTENDS
`ReplayWindow`; `Agent` EXTENDS `AgentPoll`; each `MC*` module EXTENDS the module it
instantiates. `WgTunnelProofs`, `KernelQueuesProofs`, `KernelTimersProofs` and
`KernelInterfaceProofs` EXTEND the module they are named for; `DataPlaneProofs` EXTENDS
`DataPath` and `PeerSockets`, and `PeerConfigProofs` EXTENDS `Agent` and `PeerTable`,
which is why the definitions of `ReplayWindow` and `Agent` carry a prefix (`RingSpec`,
`AgentSpec`): the two parts of such a module share no state and no lemma but those on
numbers.

**KeypairSlots** holds what `noise_add_new_keypair`,
`noise_keypair_received_with` and `noise_remote_keypairs_clear` do to `r_next`,
`r_current` and `r_previous`, and which keypairs they hand to
`noise_keypair_drop`. It does not look inside a keypair, so the object-level and
the protocol-level models share it.

**Noise** is the object layer of `wg_noise.c`: one local, its remotes, their
keypairs, the index table and all three reference counts. A `noise_*` entry point is one
action where it holds a lock for the whole of its change, and two where it reads without
one: `noise_keypair_current` and `noise_keypair_lookup` load a pointer (`LoadCurrent`,
`LoadIndexed`) and take the reference in a later step, if what is at the address by then
lets them (`TakeLoaded`); `noise_consume_initiation` finds its remote (`RemoteLookup`)
before it locks the handshake. What interleaves is the callers: `Users` are the
threads that hold a keypair until `KeypairPut`, across any number of other steps; the
one handshake handler (the kernel's group task, the receiving thread in user space)
keeps a remote until `RemotePut`; the creator of the remotes removes them. `Callers` says
whose calls are made: the kernel module disables, clears and frees (`RemoteFree`), the
session only disables and puts (`Tombstone`), and at the end puts everything
(`SessionDestroy`, which no step follows). A handshake may begin for a remote that is
disabled or already let go, as in the code. `NET_EPOCH_CALL` in the
user-space builds calls the destructor at once
(`src/src/macos_stubs/sys/epoch.h`), so freeing belongs to the step that drops
the last reference. An element with reference count 0 is free memory, zeroed by `zfree`,
and may be allocated again: a reader that comes late finds no reference to take, or takes
one on the object that is there now. Where a remote is freed with its handshake still in
the index table (`Dangling`), the behaviour ends, since nothing says what a walk of the
table finds (`Walkable`). `epoch` and `heard` are history fields of a keypair, and
`unclean` remembers the remotes that were let go without a clear or used after it.

**WgTunnel** puts two endpoints, each running the session layer of
`wg_session.c` or that of `wg_core.c`, on a network whose set of datagrams only
grows: a message can arrive any number of times, in any order, or never. The
noise layer is at the level of the protocol: a key is the pair of ephemerals
mixed into it and a message authenticates exactly when the receiver mixes the
same. An action is a whole handler. `Faults` lets
`noise_create_response` fail after `noise_consume_initiation` succeeded,
`sendto` fail after the keypair was installed, and wg_core's `peer_send` fail after the
initiation was created, which leaves a handshake that the session layer does not count. Time is in whole seconds; where
the noise layer compares finer clocks, equality leaves both outcomes open
(`MayHaveExpired`, `MustHaveExpired`).

**HandshakeRetry** is the timer part alone, for ever: ages that saturate just
above the largest threshold replace the clock, so behaviours are infinite and
the state space finite. `setup` chooses the implementation and whether the
driver ticks only on a time-out, which is what `run_event_loop` of the Windows
driver does (`Busy` is a second in which events kept coming). While `down`, nothing can
be sent: wg_core then keeps a handshake in its noise layer that it neither counts nor
dates (`Unsent`), while the session, which hands its datagrams to its host, counts it.

**WindowSpec** says what a replay window promises; **ReplayWindow** is
`noise_keypair_nonce_check` with its ring of words and its arithmetic modulo
`Wrap`; **DataPath** puts a sender and a duplicating network in front of it and
tells the receiver that asks the window (`wg_deliver_in`) from those that do not
(`wgs_handle_data`, `wg_decap`). `foreign` is a sender of another implementation,
whose counters may come from anywhere, for the questions about the ring.

**PeerTable** is `wg_session_set_uapi`, one action per line of a request, with
the slots, tombstones, tries and the public-key hash, interleaved (between
requests, as the session does) with handshakes that create and drop keypairs. A
refusal goes to `done:` with the earlier lines applied, as in the code, and a
slot whose `noise_remote_alloc` failed stays active without a remote. The initial states
are those of every configuration file of one or two peers, one that names a key twice
included (`configured` remembers which peers came that way). A removed peer's keypairs
keep its remote and stay in the index table; a behaviour ends when a remote is freed with
its handshake still there (`IndexDefined`). A prefix is
a sequence of bits and a trie a set of nodes with owners, so that insertion walks
the bits and `Lookup` is the walk of `aips_lookup`; `RoutesAgree` compares it
with the longest-prefix match over what the live slots list.

**PeerSockets** is `peer_send` with `peer_tx_socket`, `peer_tx_close` and
`peer_set_endpoint` on the TX thread and the main thread. `peer->lock` is not
held across `send()`, so a call is up to four steps (snapshot, send, drop,
fallback), and the descriptor table is part of the state: `socket()` returns the
lowest free number. The peers are those with an endpoint. `broken` are the sockets whose network has gone.

**TokenBucket** says what a rate limiter promises; **RateLimit** is
`ratelimit_allow` with `ratelimit_gc` and its callout. Time is how long an entry
has been idle and how long the callout still has, both saturating where the code
stops telling values apart. **Cookie** adds the maker, the checker and a network
whose set of messages only grows. `cookie_maker_consume_payload` releases the
read lock before it takes the write lock and is two steps; `cookie_maker_mac` may
come between. The number of an initiation stands for its mac1. Addresses are one
set for the cookie (address and port in the code) and the bucket (address or
/64). An initiation that meets no load changes nothing here and has no action.

**KernelQueues** is the packet path of `if_wg.c`: `wg_xmit`, `wg_input`,
`wg_peer_send_staged`, the two halves of `wg_queue_both`, the workers
(`wg_softc_encrypt`, `wg_softc_decrypt`), the peer's tasks `wg_deliver_out` and
`wg_deliver_in`, and `wg_peer_destroy` with the deferred free. A call is a thread
at one of the places of `Calls`, carrying the packets it took off the staged
queue; taking a packet from the parallel queue and finishing it are two steps of
a worker, and the wake-up of the task is a third. The reference counts of the
noise layer appear as who holds the peer; that they are exact is shown in `Noise`. The
handlers of callouts are calls too, but hold no reference, and nobody waits for them: a
peer may be freed under one, which ends the behaviour (`UsedAfterFree`).

**KernelTimers** is one peer's callouts. Every function that reads `p_enabled` in
a network epoch section is a step, with the steps it leads to on its thread's
`todo`; `wg_timers_disable` is the sequence of clearing the flag, waiting for the
sections that have read it, and stopping the callouts, whose running handlers
nobody waits for. `recent` stands for `REKEY_TIMEOUT` not having passed since
`r_last_sent`, which a response we send sets as well (`answered`): an initiation is then
refused, also when the retry asks for it, and for want of an identity at any time. What
a refusal leaves waiting with no retry set is `forgotten`.

**KernelInterface** is `wg_up`, `wg_down`, `wgc_set`, the FIB ioctl,
`wg_prison_remove` and `wg_clone_destroy` as the holder of `sc_lock` runs them,
one step per part, each of which may fail where the code says so, against threads
in `wg_send` that loaded a socket before it was replaced. An option may be taken by one
of the two sockets and refused by the other (`OptionSplits`), which `split` remembers.

**Extension** says which queue of `PacketTunnelProvider.swift` is in which call
of the session, on which handle, and what the call touches that has no lock:
tries, the peers' fields, the current keypair's pointer, the global key cache. The
provider's entry points are taken to be called one at a time; the UDP, KCP,
packet and timer queues are each serial and run beside each other.

**AgentPoll** is `LongPollPlanner` (and its twin, the loop of `wgctl-agent.sh`):
clock, mode, cursor, floor and budget of one run against five kinds of server, the
`hasty` one of which says `not_modified` of a request it did not hold.
**Agent** is `wgctl-agent.sh` on one interface of a device around it: watchdog,
heartbeat, eviction and peer refresh, a step per command, with what launchd, the
control plane and the tunnel do meanwhile. `Stop` ends a run between two commands
(launchd stops or reloads it), `Reboot` empties `/var/run`, `Kickstart`, `Bootout` and
`Disable` may be refused; the script goes on after a refusal, and `kept` remembers what
of an eviction launchd has refused. `install` is one step; the cool-down is
counted in runs; the cursor on disk is not modelled, since the first request of
every run asks without one.

## 3. Runs

| Run | Question | Bounds |
|---|---|---|
| `noise` | Do slots, index table, counts and key states stay right over any interleaving of calls? | 1 remote, 3 keypairs, 3 indices, 1 user, both callers, clock to 1, 2 identities. Keypair and index addresses are reused. |
| `tunnel` | A `session` end against a `core` end, with faults: answered once, keys agree, the session's answer can be consumed. | 3 initiations (two crossing and a retry), 3 indices so that they come round again, 3 instants, 1 data packet per key. |
| `retry` | Do rounds end, and does a peer that answers keep a key, for ever, also after outages? | scaled timers keeping their order: retransmit 2 < rekey 4 (+ jitter 1) < reject 6; 3 attempts; 2 inbound initiations. |
| `data_plane` | Does the ring implement the abstract window up to the end of the counters, and is nothing refused that comes in order? Do two threads keep each peer's socket right, and does the fast path come back? | Window: ring of 3 words of 2 bits, counters modulo 16, limit below it: laps of the ring, the limit and the wrap are all reached. Sockets: 2 peers, 2 families, 2 descriptors (one each, so numbers are reused), 1 roaming update, 1 outage or failed `socket()`. The two share no state, and a behaviour is about one of them (`part`). |
| `duplicate_packets` | Does a packet reach the TUN device once where the receiver does not ask the window? (violated) | as above, 2 copies. |
| `peer_table` | Do slots, tries and hash agree, also after refused requests and failed allocations? | 3 public keys for 2 slots, a default route and a nested prefix, 2 prefixes per peer, 2 keypairs. |
| `cookie` | Do the maker's cookies only move forward, and is the rate limiter a token bucket? | 2 addresses for a table of 1 (it fills up), 2 initiations, 2 secrets, bucket of 2; Cost 1 < TokenMax 2 = Timeout 2 < MaxAge 3, the order of the code's 50 ms, 250 ms, 1 s, 120 s. |
| `kernel_queues` | Is a packet in one place, does it get on, and do destroyed peers outlive those that hold a reference and go? | 1 peer, 2 packets, 1 caller or handler, 2 workers; staged queue of 1, serial of 2, parallel of 1 (so that it refuses the second packet). |
| `kernel_timers` | Do timers stay off, do waiting packets have a retry, do retries end? | 2 of packet, handler and command at a time, no retry after the first (the comparison with the limit is taken on both sides). |
| `kernel_interface` | Do requests that fail anywhere leave sockets, keys, peers, timers and addresses in agreement, and does every command end? | 2 keys (one may be the own), 2 peers, 2 addresses, 2 ports, 2 options, 2 sending threads, 2 items per request. |
| `extension_calls` | Is the session in the hands of one queue at a time? (violated) | 2 sessions, so that one may be used after another was created. |
| `agent` | Are runs and requests bounded, is an evicted interface down and does `wg_core` run its conf, and do eviction, watchdog and peer refresh reach their ends, all through stops, reboots and refusals? | budget 6 s, wait 3, latency 1, floor 2; a hasty server answers 4 requests in no time (`MaxHasty`), one more than `PollBounded` would allow it; 2 failures to a restart, cool-down 2 runs; 1 change of the peers, 2 stops or reboots, 1 refusal. |

`CHECK_DEADLOCK FALSE` stands in the runs whose clock, nonces, initiations,
packets or refusals are bounded (`noise`, `tunnel`, `data_plane`, `kernel_queues`) and in
those of things that come to rest: a peer whose timers are off, a destroyed
interface, an extension without handles, an evicted device. The others never
deadlock and are checked for it.

**Why these bounds show enough.** The slots of one remote interact only through
the index table, whose entries are distinguished by index alone; that several
remotes behave as one does is covered for every number by the proofs. Three keypairs are
two in the slots (all three are never set at once) and one that a user holds after it was
displaced: with four TLC finds the same distinct states. In
`tunnel` the shortest known failures (a crossing, a late response with a reused
index, a retransmission that outdates the first) need at most three initiations
and two retransmission times. In `retry` every comparison of the code is taken
on both sides and at equality. Every property of a passing run is broken by a
mutant of the definition it watches (`PROJECT.json`, "mutants"). In
`kernel_queues` two packets suffice for one to overtake the other at the workers
and for one to be refused behind the other. In `agent` two stops
allow an eviction to be cut, resumed and cut again, and a run after the last one is
always complete.

**Fairness.** `WF(Second)`: time passes. `WF(Tick)`: the driver runs. For the
extension's repeating timer (`PacketTunnelProvider.swift:715-725`) and the select loop of
`run_tunnel`, which ticks after every return of a select with a time-out of a second,
nothing disables a due tick. In the Windows loop every busy second does, so that this
fairness promises nothing there; that seconds without a packet come again and again is
the premise `SecondsGoQuiet` of the properties, which the loop itself does not see to
(section 4). `OutagesEnd` is a premise too: while the network stays down wg_core retries
without counting, for ever. `PeerAnswering` is an assumption of the property, not of the
code: a peer that is tried again and again answers some of the time and its answers are
not all lost. `HandshakeEnds` does without it. In `PeerSockets`, system calls return, the
ten seconds of back-off pass and an outage ends; that the TX thread goes on
sending to every peer, and that the main thread eventually does not send, are
premises of `FastPathRecovers`. In `Cookie`, time passes and the callout runs.
In `KernelQueues`, calls, tasks and workers get on, the deferred free runs, and the
workers of a direction take from its queue again and again although the other
direction has work too (SF). In `KernelTimers` threads take their steps, callouts
and epochs end, and the retry fires again and again while it is set. In
`KernelInterface` the holder of `sc_lock` gets on and `sosend` returns. In `Agent`
launchd starts the agent (`StartInterval`) and its commands return; that the control
plane gets through now and then (`Connected`, SF of the rejection and of the list)
is a premise of the properties.

## 4. Where code and documents disagree

The run `extension_calls` is violated: the read handler answers an initiation while
the first kick generates its key, and both store their secret in the one cache of
`crypto_bridge.swift`, whose comment (`:24-26`) counts on a single thread, as do
`allowedips.h:11` and `macos_stubs/sys/epoch.h:11`. Other ways to the same state
are the timer against the packet loop, and `stopTunnel`, which destroys the session
without waiting for a callback that has already read the handle.

The run `duplicate_packets` is violated: `wgs_handle_data` (`wg_session.c:682`) and
`wg_decap` deliver what `noise_keypair_decrypt` authenticates and never call
`noise_keypair_nonce_check`, against `SECURITY.md:92` and `test_plan.md:83`; a datagram
that the network repeats is written to the TUN device twice.

Eight more configurations stand beside those of section 3. Each checks one property that
states what a document or comment says without the exception that the passing runs make,
and TLC refutes it within a minute:

| Configuration, module | Property | Counterexample |
|---|---|---|
| `MCNoiseTombstone.cfg`, `MCNoise` | `TornDown` | `peer_tombstone` ("Tear down a peer's noise + cookie state", `wg_session.c:1303`) only disables and puts: handshake and keypairs of the removed peer stay, and where the put was the last one the index table is left with a link into freed memory. |
| `MCNoiseReaders.cfg`, `MCNoise` | `ReadersSafe` | A rotation frees the keypair that `noise_keypair_current` (`wg_noise.c:707`) or `noise_keypair_lookup` has loaded and not yet counted itself in on. The epoch that would prevent it is a no-op in user space (`macos_stubs/sys/epoch.h:11`), and wg_core's TX thread counts on it ("noise (thread-safe)", `wg_core.c:2246`, `:2280`). |
| `MCPeerIndex.cfg`, `MCPeerTable` | `DataAttributed` | A removed peer's keypair leads, by `r_arg`, to the slot it had (`wg_session.c:1394`); once the slot is another peer's, its data is taken for the other's. |
| `MCWindowsTicks.cfg`, `MCHandshakeRetry` | `KeyRenewed` | The Windows loop ticks only when a second ends without an event (`wg_windows_tun.c:380`), although `wg_session.h:110-113` asks for a call every second: with packets in every second nothing is retransmitted or renewed. |
| `MCCallouts.cfg`, `MCKernelQueues` | `HandlersOutlived` | A callout's handler that has begun before `wg_timers_disable` is not waited for (`if_wg.c:1046`) and holds no reference; the peer is freed under it, against `if_wg.c:1038` and `:450-452`. |
| `MCAgentBusy.cfg`, `MCAgent` | `NeverBusy` | A server that says `not_modified` without having held the request is asked again at once (`LongPoll.swift:122`, `wgctl-agent.sh:435`), against "without ever busy-looping" (`LongPoll.swift:12-13`). |
| `MCAgentRefused.cfg`, `MCAgent` | `EvictionComplete` | launchd refuses the `bootout` or `disable` of an eviction, `\|\| true` passes over it (`wgctl-agent.sh:641-642`), the state file goes, and `wg_core` stays up on an interface no run looks at again (`:15-16`). |
| `MCAgentCut.cfg`, `MCAgent` | `RunsListedPeers` | `peer_refresh_once` installs the conf, then restarts `wg_core`, and judges by the conf alone whether anything changed (`wgctl-agent.sh:390-396`): stopped in between, or refused by launchd, it leaves `wg_core` with the old peers until something else restarts it, against `wgctl-agent.sh:14` and `doc/JOIN_PROTOCOL.md:162`. |

Also met while modelling:

- **Crossing initiations in wg_core.** `hs_pending` stays set so that the peer's
  response may still land (comment at `wg_core.c:2047-2057`), but answering has
  overwritten the single handshake of the remote. The consequence is a useless
  retransmission, not a lost tunnel (`CoreReachesPeer` holds); `wg_session` clears
  the flag and satisfies `SessionAnswerCompletes`.
- **Initiations that cannot be sent.** wg_core creates the initiation, fails in
  `peer_send` (`wg_core.c:976-987`, `:1896-1899`) and neither counts the attempt nor sets
  the time it was made: as long as the network is down a round of attempts does not end.
- **Descriptors in wg_core.** Between the snapshot and `send()` (`wg_core.c:902`,
  `:924`) the other thread may close the socket and open one for another peer with
  the same number; the datagram goes to the wrong peer and is lost, where the comment
  expects `EBADF`. With both threads sending, each may close the other's new socket
  without end, hence the premise of `FastPathRecovers`.
- **Sessions.** `wg_session_tick` never starts a *first*
  handshake (`:992`), which `wg_session.h:117-120` presents as an optimisation of the
  kick. A refused request keeps its earlier lines, and lines the header lists as
  refused are accepted (`wg_session.h:215-236`).
- **Cookies.** `wg_cookie.c:451` says that an address with exactly the cost of one
  initiation is blocked; the code (`:463`) allows it, as the model does.
- **Kernel timers and peers.** A handler that was running when its callout was
  stopped may still start a handshake, against the comment at `if_wg.c:1030-1041`. A
  handshake that found the peer first may install a keypair after
  `noise_remote_free` (`:480`), and a packet that the parallel queue refused
  (`:1992`) waits for the next one to move the queue: in both cases a destroyed peer
  is kept (`DestroyedFreed` names them). A packet staged while an initiation
  nobody repeats or a response of our own is recent, while the interface has no
  identity, or after the purge of `wg_down`, waits for the next request
  (`WaitingAttended` names them). The count of retries is reset and tested without a common lock.
- **Kernel configuration.** `wg_prison_remove` leaves the interface marked running
  with timers on and its sockets closed; changing the port afterwards is refused. A
  `wgc_set` that fails keeps its earlier parts, and a failed new peer that had taken
  over an address leaves its former owner without it.
- **Agent: the poll.** The last request may outlive the 55 s budget by curl's 10 s, past
  the interval of 60 s the plist speaks of.

## 5. Proofs

`NoiseProofs` proves for every set of remotes, keypairs, indices and users and
every value of the limits (assumptions `ObjectAssumption`, `TimeAssumption`:
finite disjoint sets of addresses, natural limits):

| Theorem | Statement |
|---|---|
| `TypeCorrect` | `Spec => []TypeOK`: no reference count falls below zero |
| `SlotsAlwaysSound` | `Spec => []SlotsSound` |
| `IndexTableAlwaysSound` | `Spec => []IndexTableSound`: the table is exact and an index unambiguous |
| `RefcountsAlwaysExact` | `Spec => []RefcountsExact` |
| `StopsForGood` | `Spec => StoppedForGood` |
| `CurrentAlwaysConfirmed` | `Spec => []CurrentConfirmed` |
| `SlotsAlwaysInAgeOrder` | `Spec => []SlotsAgeOrder` |
| `RotationAlwaysSound` | `Spec => []RotationSound`: the two together |
| `SendsUnderThisIdentity` | `Spec => []SendKeysOfThisIdentity` |

They hold of both callers at once. `IndexTableSound` leaves out the handshakes of freed
remotes (`Dangling`), which only a remote that was put without a clear, or used after it,
can leave (section 4); `RefcountsExact` says with its counts that `noise_remote_free`
leaves nothing behind (`FreedIsClean`).

The argument: the invariants are inductive only together. `IInv` conjoins them
with `Ownership` (freed memory has no handshake and is found by no public key; an
allocated keypair has a remote; `noise_consume_initiation` has one). Exact counts are what
tell that the keypair a
slot drops is freed exactly if no user holds it; sound slots are what makes the
counts change by one; the exact table is what makes a new index fresh among all
live objects. A reader that has loaded an address holds nothing, so `IInv` says nothing of
it: what makes its late reference sound is that it is taken on an object whose count is
not zero. `KeypairRefs` and `RemoteRefs` are cardinalities, so lemmas about
releasing a set of keypairs (`ReleasedPool`, `ReleasedLive`, `ReleasedCount`,
`RemoteCount`, `LocalKept`, `Rotated`, `RemoteReleased`) carry the work once and each
action has a step lemma that cites them. `StopsForGood` follows from a lemma on how one
keypair
record can change in a step, `CurrentAlwaysConfirmed` from one on what may enter
`r_current`. The order of ages needs `Births` beside it (no keypair is born after
now). The identity of sending keys needs that a remote is enabled only when it is
allocated, with empty slots (`EnabledAfter`): a key in a slot of a remote that is enabled
now was there for `noise_local_private` to find.

`CookieProofs` proves for every set of addresses and every value of the limits
(`RateAssumption`: a bucket fills up before an idle entry is removed, `Cost <=
TokenMax <= Timeout`; `AgeAssumption`: natural ages and bounds):

| Theorem | Statement |
|---|---|
| `LimiterIsBucket` | `RateSpec => ImplementsBucket`: the limiter refines the token bucket |
| `CookieLimiterIsBucket` | `Spec => ImplementsBucket`: also within the exchange |
| `CookieTypeCorrect` | `Spec => []TypeOK` |
| `CookiesAlwaysInOrder` | `Spec => []CookieOrder` |
| `CookiesAlwaysForward` | `Spec => CookiesMoveForward` |

The refinement maps an address without an entry to a full bucket. Each operation
is a bucket step; the callout is a stutter because what it removes has been idle
for longer than a bucket takes to fill, which is where the assumption is needed.
`CookiesMoveForward` rests on `CookieOrder`: while the maker accepts replies, all
replies to its last initiation were made after the cookie it holds.

`WgTunnelProofs` proves, for any two nodes (`NodesAssumption`), whatever each runs,
any number of initiations, indices and instants, and any loss, repetition,
reordering and failure between the halves of a handler:

| Theorem | Statement |
|---|---|
| `AlwaysAnsweredOnce` | `Spec => []AnsweredOnce` |
| `AnswersAlwaysComplete` | `Spec => []SessionAnswerCompletes` |
| `KeysAlwaysAgree` | `Spec => []KeysAgree` |
| `KeysInstalledOnce` | `Spec => KeyInstalledOnce` |

The invariant follows a key through the network. An initiation carries the ephemeral
that its timestamp numbers, so the timestamp check makes an answer unique
(`InitiationsSound`, `AnswersSound`); a response names a key its sender has derived
and says the same indices whenever it is seen (`ResponsesSound`); the open handshake
is the latest one and completed keys are older (`CompletedSound`); a keypair in a slot
has a derived key and every response that carries this key names its indices
(`SlotsSound`, `SlotsDistinct`), which is what makes both ends agree; a packet sent by
the initiator shows that it has completed (`PacketsSound`, `SendsUnderSharedKey`); and
what the session waits for is what its noise layer has open (`WaitsSound`).

`DataPlaneProofs` proves for every size of word, ring and counter (`RingAssumption`: at
least two words, counters longer than the ring), for both kinds of receiver and any sender:

| Theorem | Statement |
|---|---|
| `WindowImplemented` | `DataSpec => ImplementsWindow`: the ring refines the set of accepted counters |
| `AlwaysDeliveredAtMostOnce` | `DataSpec => []DeliveredAtMostOnce`, if `Checks` |
| `NeverRefusedInOrder` | `DataSpec => InOrderNeverRefused` |

`RingExact` (the ring holds exactly the accepted counters of its last words) and
`RecvExact` (`kp_nonce_recv` is one more than the greatest) are inductive together.
The arithmetic is in lemmas on division: two counters of the last words that share
slot and bit are the same (`SameBit`), the words the window moves over are cleared
and no others, also when it moves a whole lap or more (`ClearedSound`), and no
addition wraps below the limit (`RangeSound`). `DInv` adds that a receiver with a
window has delivered each accepted packet exactly once.

It also proves `SocketsAlwaysExact` (`Spec => []SocketsExact`) of `PeerSockets` for every
number of peers and descriptors (`FdAssumption`: finitely many, a descriptor for each
peer; `NullAssumption`). It is inductive with the types and the ownership of
endpoints; that `socket()` finds a number is a counting argument (`FreeFd`).

`KernelQueuesProofs` proves `PacketsAlwaysExact` (`Spec => []PacketsExact`) and
`PeersAlwaysOutlive` (`Spec => []PeerOutlivesUse`) for any number of peers, packets,
callers and workers and any lengths of the queues (`LimitAssumption`,
`NoneAssumption`). `PacketsKept` says of every packet where it is (`OnePlace`: staged,
in a call or in a serial queue) and who is to finish it (`OneOwner`: a parallel queue,
a worker or the call between the halves of `wg_queue_both`), and that queues name a
packet once; `PeersKept` that nobody with a reference is left when a peer is freed and
that the allowed addresses lead to live peers only. Both theorems are about behaviours
that end where a callout handler is left with a freed peer (section 4).

`KernelTimersProofs` proves `TimersAlwaysStopped` (`Spec => []TimersStopped`) and
`WaitingAlwaysAttended` (`Spec => []WaitingAttended`) for any number of threads
(`RunnersAssumption`: callouts and the holder of `sc_lock` run in threads of their
own; `RetryAssumption`). The steps a thread has still to take are part of the state,
and the invariant is about them: after `NET_EPOCH_WAIT` nobody is inside a section
that saw `p_enabled` (`Stopped`), which needs that only `wg_down` waits and does so
before it stops the callouts (`Ordered`); a set callout is about to be stopped or the
timers are on (`Silent`); and a packet that waits is coming up for sending, or a
handshake is tried for it, or its callouts are about to be stopped, or the last request
for one was refused with no retry set (`Attended`).

`KernelInterfaceProofs` proves `SocketsAlwaysSound`, `TablesAlwaysAgree` and
`PeersAlwaysServed` (`[]SocketsSound`, `[]TablesAgree`, `[]PeersServed`) for all sets
of keys, peers, addresses, ports and threads and any length of a request
(`InterfaceAssumption`). `Progress` enumerates the places at which the holder of
`sc_lock` can be, also after a part has failed; for each place `SocketsKept`,
`TimersKept` and `ConfiguredKept` say what is not yet, or no longer, in agreement.

`PeerConfigProofs` proves about `PeerTable`, for all sets of keys, prefixes, remotes and
keypairs and any `WGS_MAX_PEERS`, `WGS_MAX_ALLOWED_CIDRS` and width of an address
(`PeerTableAssumption`: natural numbers, prefixes of bits, finitely many keypairs, and a
`NULL` that is neither a remote nor a slot):

| Theorem | Statement |
|---|---|
| `RoutesAlwaysAgree` | `Spec => []RoutesAgree`: the walk of `aips_lookup` is the longest-prefix match |
| `InitiationsAlwaysAttributed` | `Spec => []InitiationsAttributed` |
| `ReferencesAlwaysExact` | `Spec => []RefsExact`: a remote's count is its slot's reference and its keypairs' |
| `TableTypeCorrect` | `Spec => []TypeOK`: the arrays are not overrun, the tries lead to slots in use |

`InitiationsAttributed` is not inductive. A new peer takes a remote whose count is zero,
and that no slot still points there takes the exact counts (`RefsExact`); these take
that a remote has one slot at most and a tombstone none (`SlotsSound`, `RemotesSound`),
and a slot's count falls to zero exactly when no keypair holds the remote, as
`peer_tombstone` expects of `noise_remote_put`. `TriesCurrent` says that between
requests the tries are those of the slots; the one step that rebuilds them before it has
counted its slot (`LinePublicKeyNoMemory`) adds a slot that lists nothing. From there
`RoutesAgree` is about sequences: the prefixes that cover an address are its own
(`CoversArePrefixes`), a prefix of a prefix is a prefix (`PrefixOfPrefix`), so that the
walk comes past every node above a listed prefix and misses none (`WalkMeetsListed`);
the last one it meets is the longest.

And about `Agent`, for every value of its limits (`PollAssumption`, whose `MinReturn <=
Wait` the configuration keeps, with 5 s and 45 s: no server could show that it holds a
request otherwise; and `AgentAssumption`, natural limits):

| Theorem | Statement |
|---|---|
| `PollAlwaysBounded` | `AgentSpec => []PollBounded`: every run ends with its budget, and requests are spaced out unless the server is hasty |
| `JobAlwaysFollowsDisk` | `AgentSpec => []JobFollowsDisk`: evicted is down but for what launchd refused, and wg_core runs its conf |
| `AgentTypeCorrect` | `AgentSpec => []AgentTypeOK` |

`PollBounded` counts requests against laps of the clock. `Spaced` says how many the
planner may have made by what it knows of the server: none before the probe, one before
the trial, two more than the laps and the changes in the long poll; the third is the last
request, whose hold the budget has cut. `Budgeted` says that a hold and a pause end
within the budget. The arithmetic is one lemma (`LapsGrow`): an answer that took a pace,
or a pause of one, completes a lap. `PollMove` is what the rest of the agent can do to
the poll, so that the actions of `Agent` are looked at once. `JobFollowsDisk` needs that
what an eviction has taken away stays away until the state file goes, though a reboot, a
kickstart or `KeepAlive` may come in between (`DownKept`).

The inductive invariants were checked by TLC on the instances of section 3 before they
were proved. Proofs about steps have a lemma for every action or group of actions, and one
theorem or lemma per specification, that its invariant always holds, which the others cite.

Every invariant and every action property of a passing run is stated by a theorem.
Only model-checked: the liveness properties, which need fairness that the prover does
not treat (all of `HandshakeRetry`; `ForgetsIdle`, `FastPathRecovers`, `PacketsMoveOn`,
`DestroyedFreed`, `RetriesEnd`, `CommandsEnd`; `EvictionFinishes`, `WatchdogRecovers` and
`RunsListedPeersUnlessCut` of the agent).

## 6. Not modelled

- Cryptography: ideal. Key material, macs and padding do not appear.
- What a walk of the index table finds in freed memory, and what a callout handler does
  with a freed peer: the behaviours of `Noise`, `PeerTable` and `KernelQueues` end there.
- Failure of `malloc` inside `noise_begin_session`, hash-table layout, the limit
  of 2^20 remotes per local.
- Several peers on one endpoint in `WgTunnel`: a second peer shares only
  the index space, which `Noise` covers.
- Persistent keepalive, statistics, configuration parsing, the text of
  `get_uapi`, routes, adapters, DNS, the status socket.
- Of the kernel interface: fragmentation, netmap and bpf, the loop tag, `wgc_get`,
  the load detection of `wg_handshake`, module load and unload.
- Of the agent: the status report, the public address and its cache, routes,
  several interfaces at once, and the endpoint watch of the Swift agent, a
  decision without state of its own.
- In `PeerSockets` the receive set of the select loop, and the time between
  `socket()` and `fcntl()`: what is read early from a descriptor is attributed by
  the keys, not by the socket.
- User interfaces, installers, test programs.

## 7. Plan

Done, in this order: `KeypairSlots`, `Noise` and its proofs (the memory and
key-lifecycle core); `WgTunnel` (what two ends agree on); `HandshakeRetry`
(liveness); `ReplayWindow`, `WindowSpec`, `DataPath`; `PeerTable` with the tries;
`PeerSockets`; `RateLimit` and `Cookie` with their proofs; `KernelQueues`,
`KernelTimers`, `KernelInterface`; `Extension`; `AgentPoll` and `Agent`; then the proofs
about `KernelInterface`, `PeerSockets`, `KernelQueues`, `WgTunnel`, `DataPath`,
`KernelTimers`, `Agent` and `PeerTable`.

Next:

1. Persistent keepalive and the roaming of endpoints in `HandshakeRetry` and
   `WgTunnel`; the load detection of `wg_handshake` in front of `Cookie`.
2. Several interfaces under one agent; the tunnel manager's reconciliation with the
   control plane.
