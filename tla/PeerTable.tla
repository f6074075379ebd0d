------------------------------ MODULE PeerTable ------------------------------
(* The peer slots of a wg_session (src/src/wg_session.c) and their run-time  *)
(* mutation by wg_session_set_uapi: one action per line of a request, which  *)
(* holds the session until its last line, when rebuild_aips runs.  Between   *)
(* requests handshakes install keypairs and data packets arrive.  Of the     *)
(* noise layer the module keeps who points to whom: the slot owns a          *)
(* noise_remote, a keypair holds one, l_index_hash links keypairs and        *)
(* handshakes in progress, and r_arg leads back to the slot.                 *)
EXTENDS Integers, FiniteSets, Sequences, Functions, SequencesExt

CONSTANTS
    PublicKeys,
    Cidrs,       \* allowed-ips prefixes, as sequences of bits
    AddressBits, \* max_bits of the trie
    Remotes,     \* addresses of noise_remotes
    Keypairs,    \* addresses of noise_keypairs
    MaxPeers,    \* WGS_MAX_PEERS
    MaxAllowed,  \* WGS_MAX_ALLOWED_CIDRS
    NULL

ASSUME PeerTableAssumption ==
    /\ {AddressBits, MaxPeers, MaxAllowed} \subseteq Nat
    /\ Cidrs \subseteq Seq({0, 1})
    /\ IsFiniteSet(Keypairs)
    /\ NULL \notin Remotes \cup 0..MaxPeers

VARIABLES
    peers,       \* s->peers, by slot
    nPeers,      \* s->n_peers
    remote,      \* the noise_remotes
    keypair,     \* kp_remote of each keypair, NULL when free
    table,       \* the remotes and keypairs linked into l_index_hash
    trie,        \* s->aips: the slot of each node, 0 for none, NULL: no node
    cur,         \* the slot the request's lines apply to, 0 for none
    busy         \* a request is being applied

vars == <<peers, nPeers, remote, keypair, table, trie, cur, busy>>
noiseVars == <<remote, keypair, table>>

Slots == 1..MaxPeers

\* configured: the peer came with the configuration file (not in the code).
EmptyPeer ==
    [active |-> FALSE, pubkey |-> NULL, remote |-> NULL, allowed |-> <<>>,
     configured |-> FALSE]

\* aips_insert makes a node for every prefix of a prefix.
Above(c) == {SubSeq(c, 1, d) : d \in 0..Len(c)}
Nodes == UNION {Above(c) : c \in Cidrs}
Addresses == [1..AddressBits -> {0, 1}]

FreeRemote == [refcnt |-> 0, pubkey |-> NULL, arg |-> 0, enabled |-> FALSE]

-----------------------------------------------------------------------------
Lists(p, c) == p.active /\ c \in Range(p.allowed)
Owners(ps, c) == {i \in 1..nPeers : Lists(ps[i], c)}
HasNode(ps, n) == \E i \in 1..nPeers, c \in Cidrs : Lists(ps[i], c) /\ n \in Above(c)

\* rebuild_aips inserts in slot order: the last peer that names a prefix has it.
Rebuilt(ps) ==
    [n \in Nodes |->
        IF Owners(ps, n) # {} THEN Max(Owners(ps, n))
        ELSE IF HasNode(ps, n) THEN 0 ELSE NULL]

\* aips_lookup walks down as long as there is a node and keeps the last peer
\* it has met.
Walked(a) ==
    {d \in 0..AddressBits : \A e \in 0..d :
        SubSeq(a, 1, e) \in Nodes /\ trie[SubSeq(a, 1, e)] # NULL}
Met(a) == {d \in Walked(a) : trie[SubSeq(a, 1, d)] # 0}
Lookup(a) == IF Met(a) = {} THEN 0 ELSE trie[SubSeq(a, 1, Max(Met(a)))]

\* find_peer_by_pubkey skips tombstones and takes the first match.
Matches(pk) == {i \in 1..nPeers : peers[i].active /\ peers[i].pubkey = pk}

\* alloc_peer_slot: the first tombstone, else the array grows.
Tombstones == {i \in 1..nPeers : ~peers[i].active}
SlotToUse ==
    IF Tombstones # {} THEN {Min(Tombstones)}
    ELSE IF nPeers < MaxPeers THEN {nPeers + 1} ELSE {}

\* Mutant: the old tries are not destroyed first.
FinishOver(ps) ==
    /\ busy' = FALSE /\ cur' = 0
    /\ trie' = [n \in Nodes |->
          IF Owners(ps, n) # {} THEN Max(Owners(ps, n))
          ELSE IF HasNode(ps, n) /\ trie[n] = NULL THEN 0 ELSE trie[n]]

\* done: the tries are rebuilt, whether the request was refused or not.
Finish(ps) ==
    /\ busy' = FALSE /\ cur' = 0
    /\ trie' = Rebuilt(ps)

\* wg_session_create: at least one peer, all of them enabled; the file may
\* name one key twice.
Init ==
    /\ nPeers \in 1..MaxPeers
    /\ \E pks \in [1..nPeers -> PublicKeys], rs \in [1..nPeers -> Remotes],
          als \in [1..nPeers -> BoundedSeq(Cidrs, MaxAllowed)] :
          /\ IsInjective(rs)
          /\ peers = [i \in Slots |-> IF i > nPeers THEN EmptyPeer ELSE
                [active |-> TRUE, pubkey |-> pks[i], remote |-> rs[i],
                 allowed |-> als[i], configured |-> TRUE]]
          /\ remote = [r \in Remotes |-> IF r \notin Range(rs) THEN FreeRemote ELSE
                LET i == CHOOSE i \in 1..nPeers : rs[i] = r IN
                [refcnt |-> 1, pubkey |-> pks[i], arg |-> i, enabled |-> TRUE]]
    /\ keypair = [k \in Keypairs |-> NULL]
    /\ table = {}
    /\ trie = Rebuilt(peers)
    /\ cur = 0 /\ busy = FALSE

-----------------------------------------------------------------------------
(* wg_session_set_uapi, line by line.                                        *)

Begin ==
    /\ ~busy
    /\ busy' = TRUE /\ cur' = 0
    /\ UNCHANGED <<peers, nPeers, noiseVars, trie>>

\* The end of the text, or a line that does not parse (bad hex, bad port, bad
\* cidr, an endpoint that does not resolve).
End ==
    /\ busy
    /\ Finish(peers)
    /\ UNCHANGED <<peers, nPeers, noiseVars>>

\* private_key, fwmark, replace_peers: refused with -1.
LineUnsupported ==
    /\ busy
    /\ Finish(peers)
    /\ UNCHANGED <<peers, nPeers, noiseVars>>

LinePublicKeyKnown(pk) ==
    /\ busy
    /\ Matches(pk) # {}
    /\ cur' = Min(Matches(pk))
    /\ UNCHANGED <<peers, nPeers, noiseVars, trie, busy>>

\* peer_init_runtime on a free slot: noise_remote_alloc and noise_remote_enable.
\* (A freed remote that is still linked is not followed into its next use.)
LinePublicKeyNew(pk, r) ==
    /\ busy
    /\ Matches(pk) = {}
    /\ remote[r].refcnt = 0 /\ r \notin table
    /\ \E i \in SlotToUse :
          /\ peers' = [peers EXCEPT ![i] = [EmptyPeer EXCEPT
                !.active = TRUE, !.pubkey = pk, !.remote = r]]
          /\ nPeers' = IF i > nPeers THEN i ELSE nPeers
          /\ remote' = [remote EXCEPT ![r] =
                [refcnt |-> 1, pubkey |-> pk, arg |-> i, enabled |-> TRUE]]
          /\ cur' = i
    /\ UNCHANGED <<keypair, table, trie, busy>>

\* peer_init_runtime fails: noise_remote_alloc finds no memory.  The slot was
\* marked active first and stays so, without a noise_remote.  (The tries are
\* rebuilt with the array grown, which an empty list does not show.)
LinePublicKeyNoMemory(pk) ==
    /\ busy
    /\ Matches(pk) = {}
    /\ \E i \in SlotToUse :
          /\ peers' = [peers EXCEPT ![i] = [EmptyPeer EXCEPT
                !.active = TRUE, !.pubkey = pk]]
          /\ nPeers' = IF i > nPeers THEN i ELSE nPeers
          /\ Finish(peers')
    /\ UNCHANGED noiseVars

LinePublicKeyNoSlot(pk) ==
    /\ busy
    /\ Matches(pk) = {} /\ SlotToUse = {}
    /\ Finish(peers)
    /\ UNCHANGED <<peers, nPeers, noiseVars>>

\* Mutant: the remote stays in the hash of public keys.
ReleasedStillEnabled(rec) ==
    IF rec.refcnt = 1 THEN FreeRemote ELSE [rec EXCEPT !.refcnt = @ - 1]
\* noise_remote_disable, then noise_remote_put.
Released(rec) ==
    IF rec.refcnt = 1 THEN FreeRemote
    ELSE [rec EXCEPT !.refcnt = @ - 1, !.enabled = FALSE]

\* remove=true: peer_tombstone.  The index table is not touched: the keypairs
\* of the peer stay linked and keep its remote, and a handshake in progress
\* stays linked even when the remote is freed with its last reference.
LineRemove ==
    /\ busy /\ cur # 0
    /\ remote' = [r \in Remotes |->
          IF r = peers[cur].remote THEN Released(remote[r]) ELSE remote[r]]
    /\ peers' = [peers EXCEPT ![cur] = EmptyPeer]
    /\ cur' = 0
    /\ UNCHANGED <<nPeers, keypair, table, trie, busy>>

LineReplaceAllowed ==
    /\ busy /\ cur # 0
    /\ peers' = [peers EXCEPT ![cur].allowed = <<>>]
    /\ UNCHANGED <<nPeers, noiseVars, trie, cur, busy>>

HasRoom(p) == Len(p.allowed) < MaxAllowed

LineAllowed(c) ==
    /\ busy /\ cur # 0
    /\ HasRoom(peers[cur])
    /\ peers' = [peers EXCEPT ![cur].allowed = Append(@, c)]
    /\ UNCHANGED <<nPeers, noiseVars, trie, cur, busy>>

LineAllowedTooMany ==
    /\ busy /\ cur # 0
    /\ ~HasRoom(peers[cur])
    /\ Finish(peers)
    /\ UNCHANGED <<peers, nPeers, noiseVars>>

\* The other lines (endpoint, preshared_key, persistent_keepalive_interval,
\* listen_port) store values this module does not keep.

-----------------------------------------------------------------------------
(* The session between requests.                                             *)

\* What a walk of the index table finds is defined only while no freed remote is
\* linked; afterwards the model keeps to the requests.
IndexDefined == \A r \in table \cap Remotes : remote[r].refcnt > 0

\* noise_remote_index_insert for a handshake with the peer of slot i.
HandshakeStarts(i) ==
    /\ ~busy /\ IndexDefined
    /\ peers[i].active /\ peers[i].remote # NULL
    /\ table' = table \cup {peers[i].remote}
    /\ UNCHANGED <<peers, nPeers, remote, keypair, trie, cur, busy>>

\* noise_begin_session: the keypair takes the place of the handshake.
HandshakeEnds(i, k) ==
    LET r == peers[i].remote IN
    /\ ~busy /\ IndexDefined
    /\ peers[i].active /\ peers[i].remote # NULL
    /\ r \in table /\ keypair[k] = NULL
    /\ keypair' = [keypair EXCEPT ![k] = r]
    /\ remote' = [remote EXCEPT ![r].refcnt = @ + 1]
    /\ table' = (table \ {r}) \cup {k}
    /\ UNCHANGED <<peers, nPeers, trie, cur, busy>>

\* A rotation drops the older of two keypairs.  The keypairs of a removed peer
\* rotate too, when data confirms its next one.
KeypairDrops(k) ==
    LET r == keypair[k] IN
    /\ ~busy /\ IndexDefined
    /\ r # NULL
    /\ \E l \in Keypairs \ {k} : keypair[l] = r
    /\ keypair' = [keypair EXCEPT ![k] = NULL]
    /\ remote' = [remote EXCEPT ![r].refcnt = @ - 1]
    /\ table' = table \ {k}
    /\ UNCHANGED <<peers, nPeers, trie, cur, busy>>

Next ==
    \/ Begin \/ End \/ LineUnsupported
    \/ \E pk \in PublicKeys :
          \/ LinePublicKeyKnown(pk)
          \/ LinePublicKeyNoSlot(pk)
          \/ LinePublicKeyNoMemory(pk)
          \/ \E r \in Remotes : LinePublicKeyNew(pk, r)
    \/ LineRemove \/ LineReplaceAllowed \/ LineAllowedTooMany
    \/ \E c \in Cidrs : LineAllowed(c)
    \/ \E i \in Slots :
          \/ HandshakeStarts(i)
          \/ \E k \in Keypairs : HandshakeEnds(i, k)
    \/ \E k \in Keypairs : KeypairDrops(k)

Spec == Init /\ [][Next]_vars

-----------------------------------------------------------------------------
(* Correctness.                                                              *)

TypeOK ==
    /\ nPeers \in 0..MaxPeers
    /\ \A i \in Slots :
          /\ peers[i].active => i <= nPeers
          /\ peers[i].remote \in Remotes \cup {NULL}
          /\ Len(peers[i].allowed) <= MaxAllowed
    /\ \A k \in Keypairs : keypair[k] \in Remotes \cup {NULL}
    /\ \A n \in Nodes : trie[n] \in 0..nPeers \cup {NULL}

\* Between requests, also after one that was refused half-way, every address is
\* routed by the longest prefix that any live peer lists, to the last slot that
\* lists it, and to nobody if no live peer covers it.
RoutesAgree ==
    LET covers(a) == {c \in Cidrs : IsPrefix(c, a) /\ Owners(peers, c) # {}}
        longest(a) == CHOOSE c \in covers(a) : \A d \in covers(a) : Len(d) <= Len(c)
    IN  ~busy => \A a \in Addresses :
            Lookup(a) = IF covers(a) = {} THEN 0 ELSE Max(Owners(peers, longest(a)))

\* noise_keypair_remote and noise_remote_arg: where a packet decrypted with k
\* is accounted, and whose allowed-ips it is checked against.
SourceOf(k) == remote[keypair[k]].arg

\* The public-key hash finds exactly the live peers and leads back to their
\* slots: an initiation is attributed to its sender.  (A slot whose noise_remote
\* could not be allocated has no entry.)  Two slots have one key only if the
\* configuration file named it twice.  Every keypair holds a noise_remote that
\* has not been freed, and the keypair of a peer that was not removed leads to
\* that peer's slot.
InitiationsAttributed ==
    /\ \A i \in Slots : peers[i].active /\ peers[i].remote # NULL =>
          LET r == remote[peers[i].remote] IN
          r.enabled /\ r.pubkey = peers[i].pubkey /\ r.arg = i
    /\ \A r \in Remotes : remote[r].enabled =>
          \E i \in Slots : peers[i].active /\ peers[i].remote = r
    /\ \A i, j \in Slots :
          peers[i].active /\ peers[j].active /\ peers[i].pubkey = peers[j].pubkey
             => i = j \/ (peers[i].configured /\ peers[j].configured)
    /\ \A k \in Keypairs : keypair[k] # NULL =>
          /\ remote[keypair[k]].refcnt > 0
          /\ remote[keypair[k]].enabled => peers[SourceOf(k)].remote = keypair[k]

\* "arg = peer (so the data plane can recover the peer back from a noise_keypair
\* via noise_remote_arg)": a packet is attributed to the peer its key was agreed
\* with.  Nothing clears r_arg when the slot goes on to another peer.
DataAttributed ==
    \A k \in Keypairs :
        keypair[k] # NULL /\ peers[SourceOf(k)].active
            => peers[SourceOf(k)].pubkey = remote[keypair[k]].pubkey
=============================================================================
