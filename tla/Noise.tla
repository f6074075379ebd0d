-------------------------------- MODULE Noise --------------------------------
(* The object layer of src/src/wg_noise.c: one noise_local, its              *)
(* noise_remotes, their keypairs, the index table l_index_hash that a        *)
(* received receiver-index is looked up in, and the reference counts that    *)
(* decide when an object is freed.                                           *)
(*                                                                           *)
(* One action per noise_* entry point, two where one reads without a lock    *)
(* what it then uses: noise_keypair_current and noise_keypair_lookup load a  *)
(* pointer and count themselves in later, noise_consume_initiation finds its *)
(* remote before it takes the lock of the handshake.  What interleaves is    *)
(* the callers: users (the receive path, the TX thread of wg_core.c) keep a  *)
(* keypair across other steps until noise_keypair_put; the one handshake     *)
(* handler of each program keeps a remote until noise_remote_put; the        *)
(* creator of the remotes removes them.  The kernel module clears a remote   *)
(* as it frees it; the user-space session only drops it.                     *)
(*                                                                           *)
(* NET_EPOCH_CALL of macos_stubs/sys/epoch.h runs the destructor at once, so *)
(* an object is gone in the step that releases its last reference; pool      *)
(* elements of reference count 0 are free memory, zeroed by zfree, and may   *)
(* be allocated again.  A behaviour ends when the index table is left with a *)
(* link into freed memory, since nothing says what a walk of it finds.       *)
EXTENDS Integers, FiniteSets, KeypairSlots

CONSTANTS
    Remotes,             \* addresses noise_remote_alloc can return
    Keypairs,            \* addresses noise_begin_session can allocate
    Indices,             \* values of i_local_index
    Users,               \* callers that may hold one keypair reference each
    Callers,             \* whose calls are made: "kernel" (if_wg.c), "session"
    RekeyTimeout,        \* REKEY_TIMEOUT
    RejectAfterTime,     \* REJECT_AFTER_TIME
    RejectInterval,      \* REJECT_INTERVAL, in clock units
    RejectAfterMessages, \* REJECT_AFTER_MESSAGES
    MaxTime,             \* bound on the clock
    MaxTimestamp,        \* bound on the TAI64N timestamps of initiations
    MaxIdentities        \* bound on the calls of noise_local_private

ASSUME ObjectAssumption ==
    /\ IsFiniteSet(Remotes) /\ IsFiniteSet(Keypairs) /\ IsFiniteSet(Users)
    /\ Remotes \cap Keypairs = {}
    /\ NULL \notin Remotes \cup Keypairs
    /\ Callers \subseteq {"kernel", "session"}

ASSUME TimeAssumption ==
    /\ RekeyTimeout \in Nat /\ RejectAfterTime \in Nat /\ RejectInterval \in Nat
    /\ RejectAfterMessages \in Nat
    /\ MaxTime \in Nat /\ MaxTimestamp \in Nat /\ MaxIdentities \in Nat

VARIABLES
    now,       \* getsbinuptime()
    identity,  \* number of noise_local_private calls so far; 0: no identity
    hasId,     \* l_has_identity
    lRef,      \* l_refcnt
    lOwned,    \* the creator has not yet called noise_local_free
    remote,    \* the noise_remote at each address
    slots,     \* r_next, r_current, r_previous of each remote
    keypair,   \* the noise_keypair at each address
    table,     \* the objects linked into l_index_hash
    owned,     \* remotes whose creator has not yet let them go
    unclean,   \* history: remotes let go without a clear, or used after it
    held,      \* the keypair reference each user holds
    loaded,    \* the keypair each user has read the address of, and what for
    handling,  \* the remote reference the handshake handler holds
    consuming, \* it is inside noise_consume_initiation, with l_identity_lock
    destroyed  \* wg_session_destroy has run

locals == <<identity, hasId, lRef, lOwned>>
creator == <<owned, unclean, destroyed>>
readers == <<held, loaded>>
handler == <<handling, consuming>>

vars == <<now, locals, remote, slots, keypair, table, creator, readers, handler>>

-----------------------------------------------------------------------------
States == {"DEAD", "INITIATOR", "RESPONDER"}

\* TIMER_RESET: far enough in the past for every timer to have expired.
TimerReset == -(RekeyTimeout + 1)

\* noise_timer_expired: strictly later than timer + sec.
TimerExpired(timer, sec) == now > timer + sec

NoRemote ==
    [refcnt |-> 0, enabled |-> FALSE, state |-> "DEAD", idx |-> NULL,
     lastSent |-> TimerReset, lastInit |-> TimerReset, timestamp |-> 0]

NoKeypair ==
    [refcnt |-> 0, remote |-> NULL, idx |-> NULL, initiator |-> FALSE,
     canSend |-> FALSE, birth |-> 0, nonce |-> 0, epoch |-> 0, heard |-> FALSE]

RemoteType ==
    [refcnt : Nat, enabled : BOOLEAN, state : States, idx : Indices \cup {NULL},
     lastSent : Int, lastInit : Int, timestamp : Nat]

\* epoch and heard are history: the identity the key was agreed under, and
\* whether a packet has authenticated under it.
KeypairType ==
    [refcnt : Nat, remote : Remotes \cup {NULL}, idx : Indices \cup {NULL},
     initiator : BOOLEAN, canSend : BOOLEAN, birth : Nat, nonce : Nat,
     epoch : Nat, heard : BOOLEAN]

SlotsType == [SlotNames -> Keypairs \cup {NULL}]

\* What a user has read: for "send" by noise_keypair_current, for "receive" by
\* noise_keypair_lookup.
LoadType == [kp : Keypairs \cup {NULL}, for : {"send", "receive"}]
NotLoading == [kp |-> NULL, for |-> "send"]

\* One type invariant for the module.
TypeOK ==
    /\ now \in Nat /\ identity \in Nat /\ hasId \in BOOLEAN
    /\ lRef \in Nat /\ lOwned \in BOOLEAN
    /\ remote \in [Remotes -> RemoteType]
    /\ slots \in [Remotes -> SlotsType]
    /\ keypair \in [Keypairs -> KeypairType]
    /\ table \subseteq Remotes \cup Keypairs
    /\ owned \subseteq Remotes
    /\ unclean \subseteq Remotes
    /\ held \in [Users -> Keypairs \cup {NULL}]
    /\ loaded \in [Users -> LoadType]
    /\ handling \in Remotes \cup {NULL}
    /\ consuming \in BOOLEAN /\ destroyed \in BOOLEAN

LiveRemotes == {r \in Remotes : remote[r].refcnt > 0}
LiveOf(r) == {k \in Keypairs : keypair[k].refcnt > 0 /\ keypair[k].remote = r}
Holders(k) == {u \in Users : held[u] = k}

\* i_local_index of a linked object.
IndexOf(o) == IF o \in Remotes THEN remote[o].idx ELSE keypair[o].idx

\* The index arc4random may settle on once r itself has been unlinked.
FreshIndex(r) == Indices \ {IndexOf(o) : o \in table \ {r}}

\* Freed remotes that may be linked into l_index_hash still.
Dangling == {r \in unclean : remote[r].refcnt = 0}

-----------------------------------------------------------------------------
Init ==
    /\ now = 0 /\ identity = 0 /\ hasId = FALSE
    /\ lRef = 1 /\ lOwned = TRUE
    /\ remote = [r \in Remotes |-> NoRemote]
    /\ slots = [r \in Remotes |-> EmptySlots]
    /\ keypair = [k \in Keypairs |-> NoKeypair]
    /\ table = {}
    /\ owned = {} /\ unclean = {} /\ destroyed = FALSE
    /\ held = [u \in Users |-> NULL]
    /\ loaded = [u \in Users |-> NotLoading]
    /\ handling = NULL /\ consuming = FALSE

Tick ==
    /\ now < MaxTime
    /\ now' = now + 1
    /\ UNCHANGED <<locals, remote, slots, keypair, table, creator, readers, handler>>

-----------------------------------------------------------------------------
(* Releasing references.                                                     *)

\* noise_keypair_put on each keypair of D, as a function of the old pool.
ReleaseKeypairs(D) ==
    [k \in Keypairs |->
        IF k \notin D THEN keypair[k]
        ELSE IF keypair[k].refcnt = 1 THEN NoKeypair
        ELSE [keypair[k] EXCEPT !.refcnt = @ - 1]]

\* The keypairs of D whose last reference that was: noise_keypair_smr_free.
FreedBy(D) == {k \in D : keypair[k].refcnt = 1}

\* Mutant: noise_keypair_smr_free forgets noise_remote_put.
ReleaseRemoteNever(rec, n) == rec

\* noise_remote_put, n times, on a remote record; freed memory is NoRemote.
ReleaseRemote(rec, n) ==
    IF rec.refcnt <= n THEN NoRemote ELSE [rec EXCEPT !.refcnt = @ - n]

\* noise_remote_smr_free puts the reference the remote had on the local.
LocalAfter(rec) == IF rec.refcnt = 0 THEN lRef - 1 ELSE lRef

\* One noise_remote_put on remote r, whose record has become rec0.
PutRemote(r, rec0) ==
    LET rec == ReleaseRemote(rec0, 1) IN
    /\ remote' = [remote EXCEPT ![r] = rec]
    /\ lRef' = LocalAfter(rec)

\* A handshake of r is under way: late if its creator has let r go.
Late(r) == IF r \in owned THEN unclean ELSE unclean \cup {r}

-----------------------------------------------------------------------------
(* The local and its remotes.                                                *)

\* noise_remote_handshake_clear, on the remote record.  The index of a remote
\* with no handshake is not read before the next one overwrites it: NULL.
HandshakeCleared(rec) ==
    [rec EXCEPT !.state = "DEAD", !.idx = NULL, !.lastSent = TimerReset]

\* noise_remote_expire_current: the keys that must not be sent with any more.
\* (Mutant: r_next is forgotten.)
StopsCurrentOnly(r) == {slots[r]["current"]}
StoppedByExpiry(r) == {slots[r]["next"], slots[r]["current"]}

\* noise_local_private: a new identity (ok: the curve accepts it) ends the
\* handshakes and stops the send keys of every remote in the hash table.  It
\* waits for a reader of l_identity_lock.
LocalPrivate(ok) ==
    LET expired == {r \in Remotes : remote[r].enabled}
        stopped == UNION {StoppedByExpiry(r) : r \in expired}
    IN  /\ lOwned /\ ~consuming
        /\ identity < MaxIdentities
        /\ identity' = identity + 1
        /\ hasId' = ok
        /\ remote' = [r \in Remotes |->
              IF r \in expired THEN HandshakeCleared(remote[r]) ELSE remote[r]]
        /\ table' = table \ expired
        /\ keypair' = [k \in Keypairs |->
              IF k \in stopped THEN [keypair[k] EXCEPT !.canSend = FALSE]
              ELSE keypair[k]]
        /\ UNCHANGED <<now, lRef, lOwned, slots, creator, readers, handler>>

\* noise_local_free by the creator.
LocalFree ==
    /\ lOwned /\ owned = {}
    /\ lOwned' = FALSE
    /\ lRef' = lRef - 1
    /\ UNCHANGED <<now, identity, hasId, remote, slots, keypair, table, creator,
                   readers, handler>>

\* noise_remote_alloc at a free address and noise_remote_enable, which every
\* creator calls next (a refused one is freed at once).
RemoteAlloc(r) ==
    /\ lOwned
    /\ remote[r].refcnt = 0
    /\ remote' = [remote EXCEPT ![r] = [NoRemote EXCEPT !.refcnt = 1, !.enabled = TRUE]]
    /\ slots' = [slots EXCEPT ![r] = EmptySlots]
    /\ lRef' = lRef + 1
    /\ owned' = owned \cup {r}
    /\ unclean' = unclean \ {r}
    /\ UNCHANGED <<now, identity, hasId, lOwned, keypair, table, destroyed, readers,
                   handler>>

\* noise_remote_disable, which wg_peer_destroy calls first.
RemoteDisable(r) ==
    /\ "kernel" \in Callers /\ r \in owned
    /\ remote[r].enabled
    /\ remote' = [remote EXCEPT ![r].enabled = FALSE]
    /\ UNCHANGED <<now, locals, slots, keypair, table, creator, readers, handler>>

\* noise_remote_handshake_clear, by wg_down.
HandshakeClear(r) ==
    /\ "kernel" \in Callers /\ r \in owned
    /\ remote' = [remote EXCEPT ![r] = HandshakeCleared(@)]
    /\ table' = table \ {r}
    /\ UNCHANGED <<now, locals, slots, keypair, creator, readers, handler>>

\* noise_remote_keypairs_clear: noise_keypair_drop on all three slots.
KeypairsClear(r) ==
    LET D == InSlots(slots[r]) IN
    /\ "kernel" \in Callers /\ r \in owned
    /\ slots' = [slots EXCEPT ![r] = EmptySlots]
    /\ table' = table \ D
    /\ keypair' = ReleaseKeypairs(D)
    /\ remote' = [remote EXCEPT ![r] = ReleaseRemote(@, Cardinality(FreedBy(D)))]
    /\ UNCHANGED <<now, locals, creator, readers, handler>>

\* noise_remote_free: disable, clear the handshake and the keypairs, put.
RemoteFree(r) ==
    LET D   == InSlots(slots[r])
        off == [HandshakeCleared(remote[r]) EXCEPT !.enabled = FALSE]
        rec == ReleaseRemote(off, Cardinality(FreedBy(D)) + 1)
    IN  /\ "kernel" \in Callers /\ r \in owned
        /\ owned' = owned \ {r}
        /\ slots' = [slots EXCEPT ![r] = EmptySlots]
        /\ table' = table \ ({r} \cup D)
        /\ keypair' = ReleaseKeypairs(D)
        /\ remote' = [remote EXCEPT ![r] = rec]
        /\ lRef' = LocalAfter(rec)
        /\ UNCHANGED <<now, identity, hasId, lOwned, unclean, destroyed, readers, handler>>

\* peer_tombstone of wg_session.c: noise_remote_disable and noise_remote_put,
\* and neither clear; the keypairs in the slots keep the remote.
Tombstone(r) ==
    /\ "session" \in Callers /\ r \in owned
    /\ owned' = owned \ {r}
    /\ unclean' = unclean \cup {r}
    /\ PutRemote(r, [remote[r] EXCEPT !.enabled = FALSE])
    /\ UNCHANGED <<now, identity, hasId, lOwned, slots, keypair, table, destroyed,
                   readers, handler>>

\* wg_session_destroy, like the end of wg_core.c, when no other thread is left:
\* noise_remote_put on every remote, enabled as it is, then on the local.
SessionDestroy ==
    LET freed == {r \in owned : remote[r].refcnt = 1} IN
    /\ "session" \in Callers /\ lOwned
    /\ handling = NULL
    /\ \A u \in Users : held[u] = NULL /\ loaded[u].kp = NULL
    /\ destroyed' = TRUE
    /\ remote' = [r \in Remotes |->
          IF r \in owned THEN ReleaseRemote(remote[r], 1) ELSE remote[r]]
    /\ lRef' = lRef - Cardinality(freed) - 1
    /\ lOwned' = FALSE
    /\ owned' = {}
    /\ unclean' = unclean \cup owned
    /\ UNCHANGED <<now, identity, hasId, slots, keypair, table, readers, handler>>

-----------------------------------------------------------------------------
(* Handshakes.  Whoever calls with a remote has it alive: enabled or not, and *)
(* whether or not its creator has let it go.                                  *)

\* noise_create_initiation.
CreateInitiation(r, i) ==
    /\ remote[r].refcnt > 0
    /\ hasId
    /\ TimerExpired(remote[r].lastSent, RekeyTimeout)
    /\ i \in FreshIndex(r)
    /\ remote' = [remote EXCEPT ![r].idx = i, ![r].state = "INITIATOR",
                                ![r].lastSent = now]
    /\ table' = table \cup {r}
    /\ unclean' = Late(r)
    /\ UNCHANGED <<now, locals, slots, keypair, owned, destroyed, readers, handler>>

\* noise_consume_initiation, until noise_remote_lookup has found the remote.
RemoteLookup(r) ==
    /\ handling = NULL
    /\ hasId
    /\ remote[r].enabled /\ remote[r].refcnt > 0
    /\ remote' = [remote EXCEPT ![r].refcnt = @ + 1]
    /\ handling' = r /\ consuming' = TRUE
    /\ UNCHANGED <<now, locals, slots, keypair, table, creator, readers>>

\* Its success, for an initiation with timestamp ts: the caller is given the
\* reference, and l_identity_lock is released.
ConsumeInitiation(ts, i) ==
    LET r == handling IN
    /\ consuming
    /\ ts > remote[r].timestamp
    /\ TimerExpired(remote[r].lastInit, RejectInterval)
    /\ i \in FreshIndex(r)
    /\ remote' = [remote EXCEPT ![r].timestamp = ts, ![r].lastInit = now,
                                ![r].idx = i, ![r].state = "RESPONDER"]
    /\ table' = table \cup {r}
    /\ unclean' = Late(r)
    /\ consuming' = FALSE
    /\ UNCHANGED <<now, locals, slots, keypair, owned, destroyed, readers, handling>>

\* Its failure, for a replay or (ts = 0) one that is not authentic, or for a
\* flood, whose timestamp has been stored by then; the reference is put.
RefuseInitiation(ts) ==
    LET r == handling
        flood == ts > remote[r].timestamp
    IN  /\ consuming
        /\ flood => ~TimerExpired(remote[r].lastInit, RejectInterval)
        /\ PutRemote(r, IF flood THEN [remote[r] EXCEPT !.timestamp = ts] ELSE remote[r])
        /\ handling' = NULL /\ consuming' = FALSE
        /\ UNCHANGED <<now, identity, hasId, lOwned, slots, keypair, table, creator,
                       readers>>

\* noise_begin_session and noise_add_new_keypair: the new keypair k takes over
\* the index of the handshake, and the keypairs it displaces are dropped; refs
\* references to the remote besides that of k are taken for the caller.
BeginSession(r, k, refs) ==
    LET initiator == remote[r].state = "INITIATOR"
        D     == DroppedByAdd(slots[r], initiator)
        fresh == [refcnt |-> 1, remote |-> r, idx |-> remote[r].idx,
                  initiator |-> initiator, canSend |-> TRUE, birth |-> now,
                  nonce |-> 0, epoch |-> identity, heard |-> FALSE]
        rec   == [remote[r] EXCEPT !.refcnt = @ + 1 + refs - Cardinality(FreedBy(D)),
                                   !.state = "DEAD", !.idx = NULL,
                                   !.lastSent = IF initiator THEN @ ELSE now]
    IN  /\ keypair[k].refcnt = 0
        /\ slots' = [slots EXCEPT ![r] = AddKeypair(@, k, initiator)]
        /\ keypair' = [ReleaseKeypairs(D) EXCEPT ![k] = fresh]
        /\ table' = (table \ (D \cup {r})) \cup {k}
        /\ remote' = [remote EXCEPT ![r] = rec]
        /\ unclean' = Late(r)
        /\ UNCHANGED <<now, locals, owned, destroyed, readers, consuming>>

\* noise_create_response on the remote the handler was given.
CreateResponse(k) ==
    /\ handling # NULL /\ ~consuming
    /\ remote[handling].state = "RESPONDER"
    /\ BeginSession(handling, k, 0)
    /\ UNCHANGED handling

\* noise_consume_response of an authentic response to index i: the remote is
\* found by noise_remote_index_lookup, keypair entries excluded, and is still
\* the initiator of i under its lock.  The caller is given a reference.
ConsumeResponse(i, k) ==
    \E r \in table \cap Remotes :
        /\ handling = NULL
        /\ remote[r].idx = i
        /\ hasId
        /\ remote[r].state = "INITIATOR"
        /\ BeginSession(r, k, 1)
        /\ handling' = r

\* noise_remote_index: the remote of a handshake or of a keypair.
RemoteIndex(i) ==
    \E o \in table :
        LET r == IF o \in Remotes THEN o ELSE keypair[o].remote IN
        /\ handling = NULL
        /\ IndexOf(o) = i
        /\ remote' = [remote EXCEPT ![r].refcnt = @ + 1]
        /\ handling' = r
        /\ UNCHANGED <<now, locals, slots, keypair, table, creator, readers, consuming>>

\* noise_remote_put by the handler.
RemotePut ==
    /\ handling # NULL /\ ~consuming
    /\ PutRemote(handling, remote[handling])
    /\ handling' = NULL
    /\ UNCHANGED <<now, identity, hasId, lOwned, slots, keypair, table, creator,
                   readers, consuming>>

-----------------------------------------------------------------------------
(* Using keypairs.                                                           *)

\* The address of k is read, and nothing holds k for the reader yet.
Load(u, k, why) ==
    /\ held[u] = NULL /\ loaded[u].kp = NULL
    /\ loaded' = [loaded EXCEPT ![u] = [kp |-> k, for |-> why]]
    /\ UNCHANGED <<now, locals, remote, slots, keypair, table, creator, held, handler>>

\* noise_keypair_current reads r_current.
LoadCurrent(u, r) ==
    /\ remote[r].refcnt > 0
    /\ slots[r]["current"] # NULL
    /\ Load(u, slots[r]["current"], "send")

\* noise_keypair_lookup finds the keypair of receiver index i.
LoadIndexed(u, i) ==
    \E k \in table \cap Keypairs : keypair[k].idx = i /\ Load(u, k, "receive")

\* refcount_acquire_if_not_zero, on what is at the address by now: freed memory
\* counts zero references and may send nothing.  noise_keypair_current refuses
\* a stopped key, and stops one that is too old.
TakeLoaded(u) ==
    LET k == loaded[u].kp
        toSend == loaded[u].for = "send"
        old == TimerExpired(keypair[k].birth, RejectAfterTime)
        taken == keypair[k].refcnt > 0 /\ (toSend => keypair[k].canSend /\ ~old)
    IN  /\ k # NULL /\ held[u] = NULL
        /\ loaded' = [loaded EXCEPT ![u] = NotLoading]
        /\ \/ /\ taken
              /\ held' = [held EXCEPT ![u] = k]
              /\ keypair' = [keypair EXCEPT ![k].refcnt = @ + 1]
           \/ /\ ~taken
              /\ keypair' = [keypair EXCEPT ![k].canSend = @ /\ ~(toSend /\ old)]
              /\ UNCHANGED held
        /\ UNCHANGED <<now, locals, remote, slots, table, creator, handler>>

\* noise_keypair_nonce_next on the held keypair.
NonceNext(u) ==
    LET k == held[u] IN
    /\ k # NULL
    /\ keypair[k].canSend
    /\ keypair' = [keypair EXCEPT
          ![k].nonce = @ + 1,
          ![k].canSend = keypair[k].nonce < RejectAfterMessages]
    /\ UNCHANGED <<now, locals, remote, slots, table, creator, readers, handler>>

\* The keypair after noise_keypair_received_with: only history changes.
\* (Mutant: hearing from the peer re-arms the key.)
HeardAndRearmed(rec) == [rec EXCEPT !.heard = TRUE, !.canSend = TRUE]
Heard(rec) == [rec EXCEPT !.heard = TRUE]

\* noise_keypair_decrypt succeeded on the held keypair and the caller reports
\* it with noise_keypair_received_with, which promotes r_next.
ReceivedWith(u) ==
    LET k == held[u]
        r == keypair[k].remote
        D == DroppedByPromote(slots[r])
    IN  /\ k # NULL
        /\ ~TimerExpired(keypair[k].birth, RejectAfterTime)
        /\ \/ /\ slots[r]["next"] # k
              /\ keypair' = [keypair EXCEPT ![k] = Heard(@)]
              /\ UNCHANGED <<slots, table, remote>>
           \/ /\ slots[r]["next"] = k
              /\ slots' = [slots EXCEPT ![r] = Promote(@)]
              /\ table' = table \ D
              /\ keypair' = [ReleaseKeypairs(D) EXCEPT ![k] = Heard(@)]
              /\ remote' = [remote EXCEPT
                    ![r].refcnt = @ - Cardinality(FreedBy(D))]
        /\ UNCHANGED <<now, locals, creator, readers, handler>>

\* noise_keypair_put: the last reference frees the keypair, which may free its
\* remote, which puts the local.
KeypairPut(u) ==
    LET k   == held[u]
        r   == keypair[k].remote
    IN  /\ k # NULL
        /\ held' = [held EXCEPT ![u] = NULL]
        /\ keypair' = ReleaseKeypairs({k})
        /\ IF keypair[k].refcnt = 1
           THEN PutRemote(r, remote[r])
           ELSE UNCHANGED <<remote, lRef>>
        /\ UNCHANGED <<now, identity, hasId, lOwned, slots, table, creator, loaded,
                       handler>>

-----------------------------------------------------------------------------
\* A walk of the index table meets no freed memory.
Walkable == table \cap Dangling = {}

Next ==
    /\ Walkable /\ ~destroyed
    /\ \/ Tick
       \/ LocalFree
       \/ SessionDestroy
       \/ \E ok \in BOOLEAN : LocalPrivate(ok)
       \/ \E r \in Remotes :
             \/ RemoteAlloc(r)
             \/ RemoteDisable(r)
             \/ HandshakeClear(r)
             \/ KeypairsClear(r)
             \/ RemoteFree(r)
             \/ Tombstone(r)
             \/ RemoteLookup(r)
             \/ \E i \in Indices : CreateInitiation(r, i)
             \/ \E u \in Users : LoadCurrent(u, r)
       \/ \E ts \in 1..MaxTimestamp, i \in Indices : ConsumeInitiation(ts, i)
       \/ \E ts \in 0..MaxTimestamp : RefuseInitiation(ts)
       \/ \E k \in Keypairs : CreateResponse(k)
       \/ \E i \in Indices :
             \/ \E k \in Keypairs : ConsumeResponse(i, k)
             \/ RemoteIndex(i)
             \/ \E u \in Users : LoadIndexed(u, i)
       \/ RemotePut
       \/ \E u \in Users :
             \/ TakeLoaded(u)
             \/ NonceNext(u)
             \/ ReceivedWith(u)
             \/ KeypairPut(u)

Spec == Init /\ [][Next]_vars

-----------------------------------------------------------------------------
(* Correctness.                                                              *)

\* Every keypair a slot points to is allocated, belongs to that remote, and
\* no keypair sits in two slots, of one remote or of two (the pointers
\* r_next, r_current, r_previous after any sequence of rotations).
SlotsSound ==
    /\ \A r \in Remotes : \A k \in InSlots(slots[r]) :
          keypair[k].refcnt > 0 /\ keypair[k].remote = r
    /\ \A r \in Remotes : \A m, n \in SlotNames :
          slots[r][m] = slots[r][n] /\ slots[r][m] # NULL => m = n

\* l_index_hash holds exactly the handshakes in progress and the keypairs in a
\* slot: noise_keypair_drop and noise_remote_index_remove leave no entry behind
\* and never unlink an entry twice, and nothing usable is missing.  Only the
\* handshake of a remote that was freed without a clear, or that began after
\* its creator had let it go, can stay behind.
IndexTableExact ==
    table \ Dangling = {r \in Remotes : remote[r].state # "DEAD"}
                           \cup UNION {InSlots(slots[r]) : r \in Remotes}

\* A receiver index designates one object: noise_remote_index_lookup and
\* noise_keypair_lookup stop at the first match.
IndexUnambiguous ==
    \A o, p \in table \ Dangling : IndexOf(o) = IndexOf(p) => o = p

\* l_index_hash is what the handshakes and the slots say it is, entry by entry,
\* and a lookup in it has one answer.
IndexTableSound == IndexTableExact /\ IndexUnambiguous

\* kp_refcnt counts the slot and the users.
KeypairRefs ==
    \A k \in Keypairs :
        keypair[k].refcnt = Cardinality(Holders(k))
            + (IF \E r \in Remotes : k \in InSlots(slots[r]) THEN 1 ELSE 0)

\* r_refcnt counts the allocated keypairs, the creator and the handler.
RemoteRefs ==
    \A r \in Remotes :
        remote[r].refcnt = Cardinality(LiveOf(r)) + (IF r \in owned THEN 1 ELSE 0)
                               + (IF handling = r THEN 1 ELSE 0)

\* l_refcnt counts the creator and the allocated remotes.
LocalRefs == lRef = Cardinality(LiveRemotes) + (IF lOwned THEN 1 ELSE 0)

\* What noise_remote_free has let go is found by nobody, has no handshake and
\* keeps no keypair: only those who still use it keep it.
FreedIsClean ==
    \A r \in Remotes \ (owned \cup unclean) :
        ~remote[r].enabled /\ remote[r].state = "DEAD" /\ slots[r] = EmptySlots

\* The reference counts are exact after any sequence of rotations, clears and
\* puts, each reference counted is one that somebody holds, and noise_remote_free
\* leaves none behind, unless a handshake of the remote begins after it.
RefcountsExact == KeypairRefs /\ RemoteRefs /\ LocalRefs /\ FreedIsClean

\* "Tear down a peer's noise + cookie state" (peer_tombstone): a remote its
\* creator has let go has no handshake in the index table and no keypair.  The
\* session only disables and puts it: violated.
TornDown ==
    ~destroyed =>
        \A r \in Remotes \ owned : r \notin table /\ slots[r] = EmptySlots

\* The keypairs of wg_noise.c are "thread-safe" (wg_core.c, of its TX thread):
\* what a reader is about to count itself in on has not been freed.  Nothing
\* holds it between the load and the reference: violated.
ReadersSafe ==
    \A u \in Users : loaded[u].kp # NULL => keypair[loaded[u].kp].refcnt > 0

\* A responder never transmits under a key before the initiator has been heard
\* with it: r_current is either our own initiation's key or a confirmed one.
CurrentConfirmed ==
    \A r \in Remotes : LET k == slots[r]["current"] IN
        k # NULL => keypair[k].initiator \/ keypair[k].heard

\* Rotation never goes backwards: r_previous is no younger than r_current,
\* which is no younger than r_next.
SlotsAgeOrder ==
    \A r \in Remotes :
        LET born(n) == keypair[slots[r][n]].birth
            older(m, n) == slots[r][m] # NULL /\ slots[r][n] # NULL => born(m) <= born(n)
        IN  older("previous", "current") /\ older("current", "next")
            /\ older("previous", "next")

\* noise_add_new_keypair, noise_keypair_received_with: after any sequence of
\* sessions, promotions, clears and puts the three slots hold distinct live
\* keypairs of their own remote, in the order in which their handshakes completed.
RotationSound == SlotsSound /\ SlotsAgeOrder

\* After noise_local_private no remote in the hash table can send, now or
\* after a promotion of r_next, under a key of an earlier identity.
SendKeysOfThisIdentity ==
    \A r \in Remotes : \A n \in {"current", "next"} :
        LET k == slots[r][n] IN
        remote[r].enabled /\ k # NULL /\ keypair[k].canSend
            => keypair[k].epoch = identity

\* kp_can_send is one-way: a keypair stopped by age, by its message limit or by
\* a new identity is never sent with again, however it is rotated afterwards.
StoppedForGood ==
    [][\A k \in Keypairs :
          keypair[k].refcnt > 0 /\ ~keypair[k].canSend /\ keypair'[k].refcnt > 0
             => ~keypair'[k].canSend]_vars

=============================================================================
