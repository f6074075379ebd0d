----------------------------- MODULE PeerSockets -----------------------------
(* The connected UDP socket that wg_core.c keeps per peer, used by two        *)
(* threads: the TX thread sends data, the main thread handshakes and          *)
(* keepalives, and either may open, re-connect or close the socket.           *)
(* peer->lock covers the bookkeeping and is never held across send(), so      *)
(* peer_send is four steps: the snapshot under the lock, send(), dropping a   *)
(* stale socket under the lock, and the fallback to the listener.  The        *)
(* kernel's descriptor table is part of the state: a number that was closed   *)
(* is given out again by the next socket().                                   *)
EXTENDS Integers, FiniteSets, FiniteSetsExt

CONSTANTS
    Peers,
    Families,    \* AF_INET, AF_INET6
    Sites,       \* addresses of a peer within a family
    Fds,         \* descriptor numbers, enough for every peer to have one
    MaxMoves,    \* bound on the roaming updates
    MaxOutages,  \* bound on the changes of network and on failures of socket()
    NULL

ASSUME FdAssumption ==
    /\ IsFiniteSet(Peers)
    /\ Fds \subseteq Nat /\ IsFiniteSet(Fds) /\ Cardinality(Fds) >= Cardinality(Peers)

VARIABLES
    endpoint,   \* peer->endpoint
    txFd,       \* peer->tx_fd, NULL for -1
    txEp,       \* peer->tx_ep, NULL when tx_ep_len is 0
    backoff,    \* tx_retry_at lies in the future
    fast,       \* g_connected_tx
    fdTo,       \* the endpoint each open descriptor is connected to
    broken,     \* descriptors whose network has gone
    online,
    thread,     \* peer_send in progress on each thread
    moves, outages

peerVars == <<endpoint, txFd, txEp, backoff, fast>>
netVars == <<fdTo, broken, online>>
vars == <<peerVars, netVars, thread, moves, outages>>

Threads == {"tx", "main"}
EndpointsOf(p) == {p} \X Families \X Sites
Endpoints == UNION {EndpointsOf(p) : p \in Peers}
Family(e) == e[2]

ASSUME NullAssumption == NULL \notin Fds /\ NULL \notin Endpoints

Idle == [pc |-> "idle", peer |-> NULL, fd |-> NULL, ep |-> NULL]
Sends == [pc : {"send", "drop", "fallback"}, peer : Peers, fd : Fds \cup {NULL}, ep : Endpoints]
Open == {f \in Fds : fdTo[f] # NULL}

TypeOK ==
    /\ endpoint \in [Peers -> Endpoints] /\ txFd \in [Peers -> Fds \cup {NULL}]
    /\ txEp \in [Peers -> Endpoints \cup {NULL}]
    /\ backoff \in [Peers -> BOOLEAN] /\ fast \in BOOLEAN /\ online \in BOOLEAN
    /\ fdTo \in [Fds -> Endpoints \cup {NULL}] /\ broken \subseteq Open
    /\ thread \in [Threads -> Sends \cup {Idle}]
    /\ \A t \in Threads : thread[t] # Idle =>
          /\ thread[t].ep \in EndpointsOf(thread[t].peer)
          /\ thread[t].fd = NULL => thread[t].pc = "fallback"

Init ==
    /\ endpoint \in [Peers -> Endpoints]
    /\ \A p \in Peers : endpoint[p] \in EndpointsOf(p)
    /\ txFd = [p \in Peers |-> NULL] /\ txEp = [p \in Peers |-> NULL]
    /\ backoff = [p \in Peers |-> FALSE] /\ fast = TRUE
    /\ fdTo = [f \in Fds |-> NULL] /\ broken = {} /\ online = TRUE
    /\ thread = [t \in Threads |-> Idle]
    /\ moves = 0 /\ outages = 0

-----------------------------------------------------------------------------
(* peer_send.                                                                *)

\* What the snapshot takes out of the lock.
Begun(t, p, fd) ==
    thread' = [thread EXCEPT ![t] =
        [pc |-> IF fd = NULL THEN "fallback" ELSE "send", peer |-> p, fd |-> fd,
         ep |-> endpoint[p]]]

\* Mutant: the socket is closed and its number kept.
ClosedKeepsFd(p) == txFd' = txFd /\ txEp' = [txEp EXCEPT ![p] = NULL]
\* peer_tx_close, apart from the kernel's side.
Closed(p) == txFd' = [txFd EXCEPT ![p] = NULL] /\ txEp' = [txEp EXCEPT ![p] = NULL]

\* peer_tx_socket finds its socket connected to the current endpoint.
\* (Mutant: a socket is taken as it is.)
ConnectedAnywhere(p) == txFd[p] # NULL
Connected(p) == txFd[p] # NULL /\ txEp[p] = endpoint[p]

\* A socket of the same family is connected anew, another one is closed first.
Reused(p) == txFd[p] # NULL /\ Family(txEp[p]) = Family(endpoint[p])

\* socket(): the lowest number that is free once the old socket is closed.
SocketFor(p) ==
    IF Reused(p) THEN txFd[p] ELSE Min((Fds \ Open) \cup ({txFd[p]} \ {NULL}))

\* The table after the old socket was closed and f was connected to e.
Table(p, f, e) ==
    [g \in Fds |-> IF g = f THEN e ELSE IF g = txFd[p] THEN NULL ELSE fdTo[g]]

\* No fast path, or none at the moment.
SnapshotWithout(t, p) ==
    /\ ~fast \/ (~Connected(p) /\ backoff[p])
    /\ Begun(t, p, NULL)
    /\ UNCHANGED <<peerVars, netVars>>

SnapshotConnected(t, p) ==
    /\ fast /\ Connected(p)
    /\ Begun(t, p, txFd[p])
    /\ UNCHANGED <<peerVars, netVars>>

SnapshotConnects(t, p) ==
    LET f == SocketFor(p) IN
    /\ fast /\ ~Connected(p) /\ ~backoff[p]
    /\ online
    /\ txFd' = [txFd EXCEPT ![p] = f]
    /\ txEp' = [txEp EXCEPT ![p] = endpoint[p]]
    /\ fdTo' = Table(p, f, endpoint[p])
    /\ broken' = broken \ {f, txFd[p]}
    /\ Begun(t, p, f)
    /\ UNCHANGED <<endpoint, backoff, fast, online>>

\* connect() fails: no further try for ten seconds.
SnapshotConnectFails(t, p) ==
    /\ fast /\ ~Connected(p) /\ ~backoff[p]
    /\ ~online
    /\ Closed(p)
    /\ backoff' = [backoff EXCEPT ![p] = TRUE]
    /\ fdTo' = Table(p, SocketFor(p), NULL)
    /\ broken' = broken \ {txFd[p]}
    /\ Begun(t, p, NULL)
    /\ UNCHANGED <<endpoint, fast, online>>

\* bind() on the shared port is refused: the fast path is given up for good.
SnapshotBindFails(t, p) ==
    /\ fast /\ ~Connected(p) /\ ~backoff[p] /\ ~Reused(p)
    /\ fast' = FALSE
    /\ Closed(p)
    /\ fdTo' = Table(p, SocketFor(p), NULL)
    /\ broken' = broken \ {txFd[p]}
    /\ Begun(t, p, NULL)
    /\ UNCHANGED <<endpoint, backoff, online>>

\* socket() fails: the next packet tries again.
SnapshotNoSocket(t, p) ==
    /\ fast /\ ~Connected(p) /\ ~backoff[p] /\ ~Reused(p)
    /\ outages < MaxOutages
    /\ outages' = outages + 1
    /\ Closed(p)
    /\ fdTo' = [f \in Fds |-> IF f = txFd[p] THEN NULL ELSE fdTo[f]]
    /\ broken' = broken \ {txFd[p]}
    /\ Begun(t, p, NULL)
    /\ UNCHANGED <<endpoint, backoff, fast, online>>

Snapshot(t, p) ==
    /\ thread[t].pc = "idle"
    /\ \/ /\ \/ SnapshotWithout(t, p) \/ SnapshotConnected(t, p)
             \/ SnapshotConnects(t, p) \/ SnapshotConnectFails(t, p)
             \/ SnapshotBindFails(t, p)
          /\ UNCHANGED outages
       \/ SnapshotNoSocket(t, p)
    /\ UNCHANGED moves

\* send() on whatever the number designates now.  A full queue or an ICMP error
\* loses the datagram.
SendTo(t) ==
    /\ thread[t].pc = "send"
    /\ thread[t].fd \in Open \ broken
    /\ thread' = [thread EXCEPT ![t] = Idle]
    /\ UNCHANGED <<peerVars, netVars, moves, outages>>

\* The descriptor is closed (EBADF) or its network has gone.
SendFails(t) ==
    /\ thread[t].pc = "send"
    /\ thread[t].fd \notin Open \ broken
    /\ thread' = [thread EXCEPT ![t].pc = "drop"]
    /\ UNCHANGED <<peerVars, netVars, moves, outages>>

\* Mutant: stale sockets stay.
StillOursNever(t) == FALSE
\* "only if it is still ours"
StillOurs(t) == txFd[thread[t].peer] = thread[t].fd

Drop(t) ==
    LET p == thread[t].peer IN
    /\ thread[t].pc = "drop"
    /\ \/ /\ StillOurs(t)
          /\ Closed(p)
          /\ fdTo' = [fdTo EXCEPT ![thread[t].fd] = NULL]
          /\ broken' = broken \ {thread[t].fd}
       \/ /\ ~StillOurs(t)
          /\ UNCHANGED <<txFd, txEp, fdTo, broken>>
    /\ thread' = [thread EXCEPT ![t].pc = "fallback"]
    /\ UNCHANGED <<endpoint, backoff, fast, online, moves, outages>>

\* sendto() on the listener, to the endpoint of the snapshot.
Fallback(t) ==
    /\ thread[t].pc = "fallback"
    /\ thread' = [thread EXCEPT ![t] = Idle]
    /\ UNCHANGED <<peerVars, netVars, moves, outages>>

-----------------------------------------------------------------------------
\* peer_set_endpoint, by the main thread between two sends of its own.
Move(p, e) ==
    /\ thread["main"].pc = "idle"
    /\ moves < MaxMoves
    /\ e # endpoint[p]
    /\ endpoint' = [endpoint EXCEPT ![p] = e]
    /\ moves' = moves + 1
    /\ UNCHANGED <<txFd, txEp, backoff, fast, netVars, thread, outages>>

\* Ten seconds pass.
BackoffEnds(p) ==
    /\ backoff[p]
    /\ backoff' = [backoff EXCEPT ![p] = FALSE]
    /\ UNCHANGED <<endpoint, txFd, txEp, fast, netVars, thread, moves, outages>>

\* The network under the open sockets goes away, and another one comes.
GoOffline ==
    /\ online /\ outages < MaxOutages
    /\ online' = FALSE /\ broken' = Open
    /\ outages' = outages + 1
    /\ UNCHANGED <<peerVars, fdTo, thread, moves>>

GoOnline ==
    /\ ~online
    /\ online' = TRUE
    /\ UNCHANGED <<peerVars, fdTo, broken, thread, moves, outages>>

Next ==
    \/ \E t \in Threads :
          \/ SendTo(t) \/ SendFails(t) \/ Drop(t) \/ Fallback(t)
          \/ \E p \in Peers : Snapshot(t, p)
    \/ \E p \in Peers :
          \/ BackoffEnds(p)
          \/ \E e \in EndpointsOf(p) : Move(p, e)
    \/ GoOffline \/ GoOnline

\* System calls return, seconds pass, an outage ends.
SocketsFairness ==
    /\ \A t \in Threads :
          /\ WF_vars(SendTo(t)) /\ WF_vars(SendFails(t))
          /\ WF_vars(Drop(t)) /\ WF_vars(Fallback(t))
    /\ \A p \in Peers : WF_vars(BackoffEnds(p))
    /\ WF_vars(GoOnline)

Spec == Init /\ [][Next]_vars /\ SocketsFairness

-----------------------------------------------------------------------------
(* Correctness.                                                              *)

\* What peer->lock is for (peer_tx_socket, peer_tx_close): whatever the two
\* threads do to a peer's socket, each peer has its own, it is
\* connected to what tx_ep says, and every descriptor that is open belongs to a
\* peer.  Nothing is closed twice and nothing leaks.
SocketsExact ==
    /\ \A p \in Peers : txFd[p] # NULL => fdTo[txFd[p]] = txEp[p] /\ txEp[p] # NULL
    /\ \A p, q \in Peers : txFd[p] = txFd[q] /\ txFd[p] # NULL => p = q
    /\ Open = {txFd[p] : p \in Peers} \ {NULL}

\* "the next packet rebuilds the fast path" (peer_send): after any interleaving
\* of roaming, outages and drops by both threads, a peer the TX thread goes on
\* sending to ends with a working socket connected to its current endpoint,
\* unless the fast path was disabled.  The main thread must fall quiet for that:
\* while both send, each can take the other's new socket, which got the old
\* number, for the one that failed, and close it, again and again.
Working(p) == Connected(p) /\ fdTo[txFd[p]] = endpoint[p] /\ txFd[p] \notin broken
FastPathRecovers ==
    (/\ \A p \in Peers : SF_vars(Snapshot("tx", p))
     /\ <>[](thread["main"].pc = "idle"))
    => <>[](fast => \A p \in Peers : Working(p))
=============================================================================
