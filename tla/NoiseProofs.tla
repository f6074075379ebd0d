----------------------------- MODULE NoiseProofs -----------------------------
(* Proofs about Noise, for every number of remotes, keypairs, indices and    *)
(* users: the keypair slots, the index table and the reference counts.       *)
EXTENDS Noise, FiniteSetTheorems, TLAPS

-----------------------------------------------------------------------------
(* Rotation of the keypair slots.                                            *)

\* A slot record with no keypair in two slots.
Distinct(s) == \A m, n \in SlotNames : s[m] = s[n] /\ s[m] # NULL => m = n

\* The keypairs left in the slots after noise_add_new_keypair are the new one
\* and the old ones that were not handed to noise_keypair_drop.
LEMMA AddSlots ==
    ASSUME NEW S, NEW s \in [SlotNames -> S \cup {NULL}], Distinct(s),
           NEW k \in S, k # NULL, k \notin InSlots(s), NEW initiator \in BOOLEAN
    PROVE  /\ AddKeypair(s, k, initiator) \in [SlotNames -> S \cup {NULL}]
           /\ Distinct(AddKeypair(s, k, initiator))
           /\ DroppedByAdd(s, initiator) \subseteq InSlots(s)
           /\ InSlots(AddKeypair(s, k, initiator)) =
                (InSlots(s) \ DroppedByAdd(s, initiator)) \cup {k}
<1>1. CASE initiator
  BY <1>1 DEF Distinct, SlotNames, InSlots, AddKeypair, DroppedByAdd,
              AddInitiator, DroppedByInitiator
<1>2. CASE ~initiator
  BY <1>2 DEF Distinct, SlotNames, InSlots, AddKeypair, DroppedByAdd,
              AddResponder, DroppedByResponder
<1> QED BY <1>1, <1>2

\* noise_keypair_received_with drops what it pushes out of r_previous.
LEMMA PromoteSlots ==
    ASSUME NEW S, NEW s \in [SlotNames -> S \cup {NULL}], Distinct(s)
    PROVE  /\ Promote(s) \in [SlotNames -> S \cup {NULL}]
           /\ Distinct(Promote(s))
           /\ DroppedByPromote(s) \subseteq InSlots(s)
           /\ InSlots(Promote(s)) = InSlots(s) \ DroppedByPromote(s)
BY DEF Distinct, SlotNames, InSlots, Promote, DroppedByPromote

\* Empty slots hold nothing.
LEMMA NoSlots ==
    ASSUME NEW S
    PROVE  /\ EmptySlots \in [SlotNames -> S \cup {NULL}]
           /\ Distinct(EmptySlots)
           /\ InSlots(EmptySlots) = {}
BY DEF Distinct, SlotNames, InSlots, EmptySlots

-----------------------------------------------------------------------------
(* The inductive invariant.                                                  *)

USE DEF locals, creator, readers, handler

\* Freed memory has no handshake and is found by no public key, an allocated
\* keypair knows its remote, and noise_consume_initiation has a remote.
Ownership ==
    /\ \A r \in Remotes :
          remote[r].refcnt = 0 => remote[r].state = "DEAD" /\ ~remote[r].enabled
    /\ \A k \in Keypairs : keypair[k].refcnt > 0 => keypair[k].remote \in Remotes
    /\ consuming => handling # NULL

IInv ==
    /\ TypeOK /\ SlotsSound /\ IndexTableExact /\ IndexUnambiguous
    /\ KeypairRefs /\ RemoteRefs /\ LocalRefs /\ FreedIsClean /\ Ownership

\* Freed memory and a cleared handshake are records of their types.
LEMMA RecordTypes ==
    /\ NoRemote \in RemoteType
    /\ NoKeypair \in KeypairType
    /\ \A rec \in RemoteType :
          /\ HandshakeCleared(rec) \in RemoteType
          /\ HandshakeCleared(rec).refcnt = rec.refcnt
          /\ HandshakeCleared(rec).enabled = rec.enabled
          /\ HandshakeCleared(rec).state = "DEAD"
<1>1. TimerReset \in Int
  BY TimeAssumption DEF TimerReset
<1>2. NoRemote \in RemoteType
  BY <1>1 DEF NoRemote, RemoteType, States
<1>3. NoKeypair \in KeypairType
  BY DEF NoKeypair, KeypairType
<1>4. ASSUME NEW rec \in RemoteType
      PROVE  /\ HandshakeCleared(rec) \in RemoteType
             /\ HandshakeCleared(rec).refcnt = rec.refcnt
             /\ HandshakeCleared(rec).enabled = rec.enabled
             /\ HandshakeCleared(rec).state = "DEAD"
  BY <1>1 DEF HandshakeCleared, RemoteType, States
<1> QED BY <1>2, <1>3, <1>4

\* The counts the invariant compares are counts of finite sets.
LEMMA Counts ==
    ASSUME TypeOK
    PROVE  /\ \A k : IsFiniteSet(Holders(k)) /\ Cardinality(Holders(k)) \in Nat
           /\ \A r : IsFiniteSet(LiveOf(r)) /\ Cardinality(LiveOf(r)) \in Nat
           /\ IsFiniteSet(LiveRemotes) /\ Cardinality(LiveRemotes) \in Nat
<1>1. \A k : Holders(k) \in SUBSET Users
  BY DEF Holders
<1>2. \A r : LiveOf(r) \in SUBSET Keypairs
  BY DEF LiveOf
<1>3. LiveRemotes \in SUBSET Remotes
  BY DEF LiveRemotes
<1>4. \A k : IsFiniteSet(Holders(k))
  BY <1>1, FS_Subset, ObjectAssumption
<1>5. \A r : IsFiniteSet(LiveOf(r))
  BY <1>2, FS_Subset, ObjectAssumption
<1>6. IsFiniteSet(LiveRemotes)
  BY <1>3, FS_Subset, ObjectAssumption
<1> QED BY <1>4, <1>5, <1>6, FS_CardinalityType

\* Taking part of a finite set away.
LEMMA Minus ==
    ASSUME NEW S, IsFiniteSet(S), NEW T \in SUBSET S
    PROVE  /\ Cardinality(S) \in Nat /\ Cardinality(T) \in Nat
           /\ Cardinality(T) <= Cardinality(S)
           /\ Cardinality(S \ T) = Cardinality(S) - Cardinality(T)
           /\ Cardinality(T) = Cardinality(S) => S \ T = {}
<1>1. S \cap T = T
  OBVIOUS
<1>2. IsFiniteSet(T) /\ Cardinality(T) <= Cardinality(S)
  BY FS_Subset
<1>3. Cardinality(S) \in Nat /\ Cardinality(T) \in Nat
  BY <1>2, FS_CardinalityType
<1>4. Cardinality(S \ T) = Cardinality(S) - Cardinality(T)
  BY <1>1, FS_Difference
<1>5. ASSUME Cardinality(T) = Cardinality(S) PROVE S \ T = {}
  BY <1>5, FS_Subset
<1> QED BY <1>2, <1>3, <1>4, <1>5

\* A keypair that is held or in a slot is allocated; one that is both has two
\* references at least.
LEMMA Referenced ==
    ASSUME IInv
    PROVE  /\ \A r \in Remotes : \A k \in InSlots(slots[r]) :
                k \in Keypairs /\ keypair[k].refcnt > 0 /\ keypair[k].remote = r
           /\ \A u \in Users : held[u] # NULL =>
                /\ held[u] \in Keypairs /\ keypair[held[u]].refcnt > 0
                /\ keypair[held[u]].remote \in Remotes
                /\ keypair[held[u]].refcnt = 1 =>
                      /\ \A r \in Remotes : held[u] \notin InSlots(slots[r])
                      /\ Holders(held[u]) = {u}
<1>1. \A r \in Remotes : \A k \in InSlots(slots[r]) :
          k \in Keypairs /\ keypair[k].refcnt > 0 /\ keypair[k].remote = r
  BY DEF IInv, TypeOK, SlotsType, SlotsSound, InSlots
<1>2. ASSUME NEW u \in Users, held[u] # NULL
      PROVE  /\ held[u] \in Keypairs /\ keypair[held[u]].refcnt > 0
             /\ keypair[held[u]].remote \in Remotes
             /\ keypair[held[u]].refcnt = 1 =>
                   /\ \A r \in Remotes : held[u] \notin InSlots(slots[r])
                   /\ Holders(held[u]) = {u}
  <2> DEFINE k == held[u]
  <2>1. k \in Keypairs
    BY <1>2 DEF IInv, TypeOK
  <2>2. u \in Holders(k) /\ IsFiniteSet(Holders(k)) /\ Cardinality(Holders(k)) \in Nat
    BY Counts DEF IInv, Holders
  <2>3. Cardinality(Holders(k)) > 0
    BY <2>2, FS_EmptySet
  <2>4. keypair[k].refcnt = Cardinality(Holders(k))
            + (IF \E r \in Remotes : k \in InSlots(slots[r]) THEN 1 ELSE 0)
    BY <2>1 DEF IInv, KeypairRefs
  <2>5. keypair[k].refcnt > 0
    BY <2>2, <2>3, <2>4
  <2>6. keypair[k].remote \in Remotes
    BY <2>1, <2>5 DEF IInv, Ownership
  <2>7. ASSUME keypair[k].refcnt = 1
        PROVE  /\ \A r \in Remotes : k \notin InSlots(slots[r])
               /\ Holders(k) = {u}
    <3>1. Cardinality(Holders(k)) = 1 /\ ~ \E r \in Remotes : k \in InSlots(slots[r])
      BY <2>2, <2>3, <2>4, <2>7
    <3> QED BY <3>1, <2>2, FS_Singleton
  <2> QED BY <2>1, <2>5, <2>6, <2>7
<1> QED BY <1>1, <1>2

-----------------------------------------------------------------------------
(* What the helpers of the actions do to the counts.                         *)

\* D is a set of allocated keypairs of remote r.
OwnedBy(D, r) ==
    D \in SUBSET Keypairs /\ \A k \in D : keypair[k].refcnt > 0 /\ keypair[k].remote = r

\* noise_keypair_put on a set of allocated keypairs of one remote: the pool.
LEMMA ReleasedPool ==
    ASSUME IInv, NEW r \in Remotes, NEW D, OwnedBy(D, r)
    PROVE  /\ ReleaseKeypairs(D) \in [Keypairs -> KeypairType]
           /\ \A k \in Keypairs :
                /\ ReleaseKeypairs(D)[k].refcnt =
                      IF k \in D THEN keypair[k].refcnt - 1 ELSE keypair[k].refcnt
                /\ ReleaseKeypairs(D)[k].refcnt > 0 =>
                      /\ ReleaseKeypairs(D)[k].remote = keypair[k].remote
                      /\ ReleaseKeypairs(D)[k].idx = keypair[k].idx
<1> DEFINE new == ReleaseKeypairs(D)
<1>1. keypair \in [Keypairs -> KeypairType] /\ D \in SUBSET Keypairs
  BY DEF IInv, TypeOK, OwnedBy
<1>2. new \in [Keypairs -> KeypairType]
  <2>1. ASSUME NEW k \in D, keypair[k].refcnt # 1
        PROVE  [keypair[k] EXCEPT !.refcnt = @ - 1] \in KeypairType
    BY <1>1, <2>1 DEF KeypairType, OwnedBy
  <2> QED BY <1>1, <2>1, RecordTypes DEF ReleaseKeypairs
<1>3. ASSUME NEW k \in Keypairs
      PROVE  /\ new[k].refcnt =
                   IF k \in D THEN keypair[k].refcnt - 1 ELSE keypair[k].refcnt
             /\ new[k].refcnt > 0 =>
                   new[k].remote = keypair[k].remote /\ new[k].idx = keypair[k].idx
  BY <1>1 DEF ReleaseKeypairs, NoKeypair, KeypairType, OwnedBy
<1> QED BY <1>2, <1>3

\* The keypairs each remote has left.
LEMMA ReleasedLive ==
    ASSUME IInv, NEW r \in Remotes, NEW D, OwnedBy(D, r), NEW q \in Remotes
    PROVE  /\ {k \in Keypairs : /\ ReleaseKeypairs(D)[k].refcnt > 0
                                /\ ReleaseKeypairs(D)[k].remote = q}
                = LiveOf(q) \ FreedBy(D)
           /\ q # r => LiveOf(q) \ FreedBy(D) = LiveOf(q)
<1> DEFINE new == ReleaseKeypairs(D)
<1>1. keypair \in [Keypairs -> KeypairType] /\ D \in SUBSET Keypairs
  BY DEF IInv, TypeOK, OwnedBy
<1>2. ASSUME NEW k \in Keypairs
      PROVE  new[k].refcnt =
                   IF k \in D THEN keypair[k].refcnt - 1 ELSE keypair[k].refcnt
  BY ReleasedPool
<1>3. ASSUME NEW k \in Keypairs, new[k].refcnt > 0
      PROVE  new[k].remote = keypair[k].remote
  BY <1>3, ReleasedPool
<1> HIDE DEF new
<1>4. ASSUME NEW k \in Keypairs
      PROVE  new[k].refcnt > 0 <=> keypair[k].refcnt > 0 /\ k \notin FreedBy(D)
  BY <1>1, <1>2 DEF FreedBy, KeypairType, OwnedBy
<1>5. {k \in Keypairs : new[k].refcnt > 0 /\ new[k].remote = q} = LiveOf(q) \ FreedBy(D)
  BY <1>3, <1>4 DEF LiveOf
<1>6. q # r => LiveOf(q) \ FreedBy(D) = LiveOf(q)
  BY DEF LiveOf, FreedBy, OwnedBy
<1> QED BY <1>5, <1>6 DEF new

\* The number of keypairs noise_keypair_smr_free frees, and of those left.
LEMMA ReleasedCount ==
    ASSUME IInv, NEW r \in Remotes, NEW D, OwnedBy(D, r)
    PROVE  /\ Cardinality(LiveOf(r)) \in Nat /\ Cardinality(FreedBy(D)) \in Nat
           /\ Cardinality(FreedBy(D)) <= Cardinality(LiveOf(r))
           /\ Cardinality(LiveOf(r) \ FreedBy(D))
                 = Cardinality(LiveOf(r)) - Cardinality(FreedBy(D))
           /\ Cardinality(FreedBy(D)) = Cardinality(LiveOf(r))
                 => LiveOf(r) \ FreedBy(D) = {}
<1> DEFINE L == LiveOf(r)
           F == FreedBy(D)
<1>1. F \in SUBSET L
  BY DEF FreedBy, LiveOf, OwnedBy
<1>2. IsFiniteSet(L)
  BY Counts DEF IInv
<1> HIDE DEF L, F
<1>3. /\ Cardinality(L) \in Nat /\ Cardinality(F) \in Nat
      /\ Cardinality(F) <= Cardinality(L)
      /\ Cardinality(L \ F) = Cardinality(L) - Cardinality(F)
      /\ Cardinality(F) = Cardinality(L) => L \ F = {}
  BY <1>1, <1>2, Minus
<1> QED BY <1>3 DEF L, F

\* A remote with no reference left is counted by nobody.
LEMMA RemoteCount ==
    ASSUME IInv, NEW r \in Remotes
    PROVE  /\ remote[r].refcnt \in Nat
           /\ remote[r].refcnt > 0 =>
                /\ lRef > 0
                /\ Cardinality(LiveRemotes \ {r}) = Cardinality(LiveRemotes) - 1
           /\ remote[r].refcnt = 0 =>
                /\ r \notin owned /\ handling # r /\ LiveOf(r) = {}
                /\ slots[r] = EmptySlots
                /\ Cardinality(LiveRemotes \cup {r}) = Cardinality(LiveRemotes) + 1
<1>1. IsFiniteSet(LiveRemotes) /\ Cardinality(LiveRemotes) \in Nat
  BY Counts DEF IInv
<1>2. IsFiniteSet(LiveOf(r)) /\ Cardinality(LiveOf(r)) \in Nat
  BY Counts DEF IInv
<1>3. remote[r].refcnt \in Nat /\ lRef \in Nat
  BY DEF IInv, TypeOK, RemoteType
<1>4. ASSUME remote[r].refcnt > 0
      PROVE  lRef > 0 /\ Cardinality(LiveRemotes \ {r}) = Cardinality(LiveRemotes) - 1
  <2>1. r \in LiveRemotes
    BY <1>4 DEF LiveRemotes
  <2>2. Cardinality(LiveRemotes) # 0
    BY <2>1, <1>1, FS_EmptySet
  <2>3. lRef > 0
    BY <2>2, <1>1, <1>3 DEF IInv, LocalRefs
  <2> QED BY <2>1, <2>3, <1>1, FS_RemoveElement
<1>5. ASSUME remote[r].refcnt = 0
      PROVE  /\ r \notin owned /\ handling # r /\ LiveOf(r) = {}
             /\ slots[r] = EmptySlots
             /\ Cardinality(LiveRemotes \cup {r}) = Cardinality(LiveRemotes) + 1
  <2>1. r \notin owned /\ handling # r /\ Cardinality(LiveOf(r)) = 0
    BY <1>2, <1>5 DEF IInv, RemoteRefs
  <2>2. LiveOf(r) = {}
    BY <2>1, <1>2, FS_EmptySet
  <2>3. InSlots(slots[r]) = {}
    BY <2>2, Referenced DEF LiveOf
  <2>4. slots[r] = EmptySlots
    <3>1. slots[r] \in [SlotNames -> Keypairs \cup {NULL}]
      BY DEF IInv, TypeOK, SlotsType
    <3>2. \A n \in SlotNames : slots[r][n] = NULL
      BY <2>3 DEF InSlots
    <3> QED BY <3>1, <3>2 DEF EmptySlots
  <2>5. r \notin LiveRemotes
    BY <1>5 DEF LiveRemotes
  <2> QED BY <2>1, <2>2, <2>4, <2>5, <1>1, FS_AddElement
<1> QED BY <1>3, <1>4, <1>5

\* Whoever holds a remote keeps it allocated.
LEMMA RemoteHeld ==
    ASSUME IInv, NEW r \in Remotes,
           r \in owned \/ handling = r \/ remote[r].state # "DEAD" \/ remote[r].enabled
    PROVE  remote[r].refcnt > 0
<1>1. remote[r].refcnt \in Nat
  BY RemoteCount
<1>2. remote[r].refcnt # 0
  BY RemoteCount DEF IInv, Ownership
<1> QED BY <1>1, <1>2

-----------------------------------------------------------------------------
(* The index table and the parts of the invariant a step leaves alone.       *)

\* As long as the table can be walked, a linked object is a remote with a
\* handshake or a keypair in a slot.
LEMMA Linked ==
    ASSUME IInv, Walkable
    PROVE  /\ \A r \in Remotes : r \in table <=> remote[r].state # "DEAD"
           /\ \A k \in Keypairs : k \in table <=> \E r \in Remotes : k \in InSlots(slots[r])
           /\ table \subseteq Remotes \cup Keypairs
<1>1. table \ Dangling = table
  BY DEF Walkable
<1> QED BY <1>1, Referenced, ObjectAssumption DEF IInv, IndexTableExact, TypeOK

\* The table a step leaves is exact if every handshake and every keypair in a
\* slot is in it, and what else is in it was freed without a clear.
LEMMA TableKept ==
    ASSUME TypeOK',
           \A r \in Remotes : remote'[r].state # "DEAD" =>
              r \in table' /\ remote'[r].refcnt > 0,
           \A r \in Remotes : r \in table' /\ remote'[r].state = "DEAD" =>
              r \in unclean' /\ remote'[r].refcnt = 0,
           \A k \in Keypairs : k \in table' <=> \E r \in Remotes : k \in InSlots(slots'[r])
    PROVE  IndexTableExact'
<1> DEFINE busy == {r \in Remotes : remote'[r].state # "DEAD"}
           slotted == UNION {InSlots(slots'[r]) : r \in Remotes}
<1>1. slotted \subseteq Keypairs
  BY DEF TypeOK, SlotsType, InSlots
<1>2. table' \subseteq Remotes \cup Keypairs
  BY DEF TypeOK
<1>3. Dangling' = {r \in unclean' : remote'[r].refcnt = 0}
  BY DEF Dangling
<1>4. \A r \in Remotes : remote'[r].refcnt > 0 => remote'[r].refcnt # 0
  BY DEF TypeOK, RemoteType
<1>5. ASSUME NEW o \in Remotes
      PROVE  o \in table' \ Dangling' <=> o \in busy \cup slotted
  BY <1>1, <1>3, <1>4, <1>5, ObjectAssumption
<1>6. ASSUME NEW o \in Keypairs
      PROVE  o \in table' \ Dangling' <=> o \in busy \cup slotted
  <2>1. o \notin Dangling' /\ o \notin busy
    BY <1>3, <1>6, ObjectAssumption DEF TypeOK
  <2>2. o \in slotted <=> \E r \in Remotes : o \in InSlots(slots'[r])
    OBVIOUS
  <2> QED BY <2>1, <2>2
<1> HIDE DEF slotted
<1>7. busy \cup slotted \subseteq Remotes \cup Keypairs
  BY <1>1
<1> HIDE DEF busy
<1>8. table' \ Dangling' = busy \cup slotted
  BY <1>2, <1>5, <1>6, <1>7
<1> QED BY <1>8 DEF IndexTableExact, busy, slotted

\* Entries that keep their index stay apart.
LEMMA IndicesKept ==
    ASSUME IInv, Walkable,
           \A o \in table' \ Dangling' : o \in table /\ IndexOf(o)' = IndexOf(o)
    PROVE  IndexUnambiguous'
<1>1. table \ Dangling = table
  BY DEF Walkable
<1> QED BY <1>1 DEF IInv, IndexUnambiguous

\* The parts of the invariant about references, when none is moved.
LEMMA SameCounts ==
    ASSUME IInv,
           \A k \in Keypairs : /\ keypair'[k].refcnt = keypair[k].refcnt
                               /\ keypair'[k].remote = keypair[k].remote,
           UNCHANGED <<slots, held>>
    PROVE  SlotsSound' /\ KeypairRefs' /\ \A r \in Remotes : LiveOf(r)' = LiveOf(r)
<1>1. SlotsSound'
  <2>1. \A r \in Remotes : \A k \in InSlots(slots[r]) :
           k \in Keypairs /\ keypair'[k].refcnt > 0 /\ keypair'[k].remote = r
    BY Referenced
  <2> QED BY <2>1 DEF IInv, SlotsSound
<1>2. \A k \in Keypairs : Holders(k)' = Holders(k)
  BY DEF Holders
<1>3. KeypairRefs'
  BY <1>2 DEF IInv, KeypairRefs
<1>4. \A r \in Remotes : LiveOf(r)' = LiveOf(r)
  BY DEF LiveOf
<1> QED BY <1>1, <1>3, <1>4

\* Steps that rewrite keypairs without touching their references, owners or
\* indices: a send key is stopped, a nonce is taken, a packet is heard.
LEMMA KeypairStep ==
    ASSUME IInv, TypeOK',
           \A k \in Keypairs : /\ keypair'[k].refcnt = keypair[k].refcnt
                               /\ keypair'[k].remote = keypair[k].remote
                               /\ keypair'[k].idx = keypair[k].idx,
           UNCHANGED <<lRef, lOwned, remote, slots, table, owned, unclean, held,
                       handling, consuming>>
    PROVE  IInv'
<1>1. SlotsSound' /\ KeypairRefs' /\ \A r \in Remotes : LiveOf(r)' = LiveOf(r)
  BY SameCounts
<1>2. RemoteRefs' /\ LocalRefs'
  BY <1>1 DEF IInv, RemoteRefs, LocalRefs, LiveRemotes
<1>3. Dangling' = Dangling
  BY DEF Dangling
<1>4. IndexTableExact' /\ FreedIsClean' /\ Ownership'
  BY <1>3 DEF IInv, IndexTableExact, FreedIsClean, Ownership
<1>5. IndexUnambiguous'
  <2>1. table \subseteq Remotes \cup Keypairs
    BY DEF IInv, TypeOK
  <2>2. \A o \in table : IndexOf(o)' = IndexOf(o)
    BY <2>1 DEF IndexOf
  <2> QED BY <1>3, <2>2 DEF IInv, IndexUnambiguous
<1> QED BY <1>1, <1>2, <1>4, <1>5 DEF IInv

\* The passing of time touches no object: the invariant is kept.
LEMMA TickStep == ASSUME IInv, Tick PROVE IInv'
<1>1. TypeOK'
  BY TimeAssumption DEF IInv, TypeOK, Tick
<1> QED BY <1>1, KeypairStep DEF Tick

\* noise_local_free: the count of the local drops together with its owner.
LEMMA LocalFreeStep == ASSUME IInv, LocalFree PROVE IInv'
<1>1. Cardinality(LiveRemotes) \in Nat
  BY Counts DEF IInv
<1>2. lRef' = Cardinality(LiveRemotes) /\ lOwned' = FALSE /\ lRef' \in Nat
  BY <1>1 DEF IInv, TypeOK, LocalRefs, LocalFree
<1>3. TypeOK'
  BY <1>2 DEF IInv, TypeOK, LocalFree
<1>4. LocalRefs'
  BY <1>1, <1>2 DEF LocalRefs, LiveRemotes, LocalFree
<1>5. SlotsSound' /\ KeypairRefs' /\ \A r \in Remotes : LiveOf(r)' = LiveOf(r)
  BY SameCounts DEF LocalFree
<1>6. RemoteRefs' /\ FreedIsClean' /\ Ownership'
  BY <1>5 DEF IInv, RemoteRefs, FreedIsClean, Ownership, LocalFree
<1>7. IndexTableExact' /\ IndexUnambiguous'
  BY DEF IInv, IndexTableExact, IndexUnambiguous, IndexOf, Dangling, LocalFree
<1> QED BY <1>3, <1>4, <1>5, <1>6, <1>7 DEF IInv

\* noise_local_private: exactly the enabled remotes lose their handshake and
\* their entry in the index table, so the table stays exact.
LEMMA LocalPrivateStep ==
    ASSUME IInv, Walkable, NEW ok \in BOOLEAN, LocalPrivate(ok) PROVE IInv'
<1> DEFINE expired == {r \in Remotes : remote[r].enabled}
           stopped == UNION {StoppedByExpiry(r) : r \in expired}
<1>0. /\ identity' = identity + 1 /\ hasId' = ok
      /\ remote' = [r \in Remotes |->
              IF r \in expired THEN HandshakeCleared(remote[r]) ELSE remote[r]]
      /\ table' = table \ expired
      /\ keypair' = [k \in Keypairs |->
              IF k \in stopped THEN [keypair[k] EXCEPT !.canSend = FALSE]
              ELSE keypair[k]]
      /\ UNCHANGED <<now, lRef, lOwned, slots, creator, readers, handler>>
  BY DEF LocalPrivate
<1>1. \A r \in Remotes : /\ remote[r] \in RemoteType
                          /\ HandshakeCleared(remote[r]) \in RemoteType
  BY RecordTypes DEF IInv, TypeOK
<1>2. \A k \in Keypairs : /\ keypair[k] \in KeypairType
                           /\ [keypair[k] EXCEPT !.canSend = FALSE] \in KeypairType
  BY DEF IInv, TypeOK, KeypairType
<1>a. expired \subseteq Remotes
  OBVIOUS
<1> HIDE DEF expired, stopped
<1>3. TypeOK'
  BY <1>0, <1>1, <1>2 DEF IInv, TypeOK
<1>4. \A k \in Keypairs : /\ keypair'[k].refcnt = keypair[k].refcnt
                           /\ keypair'[k].remote = keypair[k].remote
                           /\ keypair'[k].idx = keypair[k].idx
  BY <1>0, <1>2 DEF KeypairType
<1>5. \A r \in Remotes : /\ remote'[r].refcnt = remote[r].refcnt
                          /\ remote'[r].enabled = remote[r].enabled
                          /\ (r \in expired => remote'[r].state = "DEAD")
                          /\ (r \notin expired => remote'[r] = remote[r])
  BY <1>0, <1>1, RecordTypes
<1>6. SlotsSound' /\ KeypairRefs' /\ \A r \in Remotes : LiveOf(r)' = LiveOf(r)
  BY <1>0, <1>4, SameCounts
<1>7. RemoteRefs' /\ LocalRefs'
  <2>1. LiveRemotes' = LiveRemotes
    BY <1>5 DEF LiveRemotes
  <2> QED BY <1>0, <1>5, <1>6, <2>1 DEF IInv, RemoteRefs, LocalRefs
<1>8. IndexTableExact'
  <2>1. \A r \in Remotes : remote'[r].state # "DEAD" =>
            r \in table' /\ remote'[r].refcnt > 0
    BY <1>0, <1>5, Linked, RemoteHeld
  <2>2. \A r \in Remotes : r \in table' => remote'[r].state # "DEAD"
    BY <1>0, <1>5, Linked
  <2>3. \A k \in Keypairs : k \in table' <=> \E r \in Remotes : k \in InSlots(slots'[r])
    BY <1>0, <1>a, Linked, ObjectAssumption
  <2> QED BY <1>3, <2>1, <2>2, <2>3, TableKept
<1>9. IndexUnambiguous'
  <2>1. \A o \in table' : o \in table /\ IndexOf(o)' = IndexOf(o)
    BY <1>0, <1>4, <1>5, Linked DEF IndexOf
  <2> QED BY <2>1, IndicesKept
<1>10. FreedIsClean' /\ Ownership'
  BY <1>0, <1>4, <1>5 DEF IInv, FreedIsClean, Ownership
<1> QED BY <1>3, <1>6, <1>7, <1>8, <1>9, <1>10 DEF IInv

-----------------------------------------------------------------------------
(* Steps that change one remote and no keypair.                              *)

\* The record of r becomes rec, counted by its keypairs, its creator and the
\* handshake handler, and linked if it has a handshake; the local counts it.
RecordChanges(r, rec) ==
    /\ r \in Remotes /\ rec \in RemoteType
    /\ remote' = [remote EXCEPT ![r] = rec]
    /\ UNCHANGED <<slots, keypair, held, lOwned>>
    /\ \A q \in Remotes : q # r =>
          /\ q \in owned' <=> q \in owned
          /\ q \in unclean' <=> q \in unclean
          /\ q \in table' <=> q \in table
          /\ handling' = q <=> handling = q
    /\ \A k \in Keypairs : k \in table' <=> k \in table
    /\ rec.refcnt = Cardinality(LiveOf(r)) + (IF r \in owned' THEN 1 ELSE 0)
                        + (IF handling' = r THEN 1 ELSE 0)
    /\ lRef' = lRef + (IF rec.refcnt = 0 THEN 0 ELSE 1)
                    - (IF remote[r].refcnt = 0 THEN 0 ELSE 1)
    /\ rec.refcnt = 0 => rec.state = "DEAD" /\ ~rec.enabled
    /\ rec.state # "DEAD" =>
          /\ r \in table'
          /\ rec.idx \in FreshIndex(r) \/ (r \in table /\ rec.idx = remote[r].idx)
    /\ r \in table' /\ rec.state = "DEAD" => r \in unclean' /\ rec.refcnt = 0
    /\ \/ r \in owned' \cup unclean'
       \/ ~rec.enabled /\ rec.state = "DEAD" /\ slots[r] = EmptySlots
    /\ consuming' => handling' # NULL

\* The local counts the allocated remotes when the record of r becomes rec.
LEMMA LocalKept ==
    ASSUME IInv, NEW r \in Remotes, NEW rec \in RemoteType,
           remote' = [remote EXCEPT ![r] = rec], lOwned' = lOwned,
           lRef' = lRef + (IF rec.refcnt = 0 THEN 0 ELSE 1)
                        - (IF remote[r].refcnt = 0 THEN 0 ELSE 1)
    PROVE  LocalRefs' /\ lRef' \in Nat
<1>a. /\ remote'[r] = rec
      /\ \A q \in Remotes : q # r => remote'[q] = remote[q]
  BY DEF IInv, TypeOK
<1>1. /\ lRef = Cardinality(LiveRemotes) + (IF lOwned THEN 1 ELSE 0)
      /\ Cardinality(LiveRemotes) \in Nat /\ rec.refcnt \in Nat
  BY Counts DEF IInv, LocalRefs, RemoteType
<1>2. /\ remote[r].refcnt \in Nat
      /\ remote[r].refcnt > 0 =>
            Cardinality(LiveRemotes \ {r}) = Cardinality(LiveRemotes) - 1
      /\ remote[r].refcnt = 0 =>
            Cardinality(LiveRemotes \cup {r}) = Cardinality(LiveRemotes) + 1
  BY RemoteCount
<1>3. LiveRemotes' = IF rec.refcnt = 0 THEN LiveRemotes \ {r} ELSE LiveRemotes \cup {r}
  BY <1>a, <1>1 DEF LiveRemotes
<1>4. r \in LiveRemotes <=> remote[r].refcnt # 0
  BY <1>2 DEF LiveRemotes
<1>5. Cardinality(LiveRemotes') = Cardinality(LiveRemotes)
            + (IF rec.refcnt = 0 THEN 0 ELSE 1) - (IF remote[r].refcnt = 0 THEN 0 ELSE 1)
  <2>1. remote[r].refcnt = 0 => LiveRemotes \ {r} = LiveRemotes
    BY <1>4
  <2>2. remote[r].refcnt # 0 => LiveRemotes \cup {r} = LiveRemotes
    BY <1>4
  <2>3. CASE rec.refcnt = 0
    <3>1. Cardinality(LiveRemotes') = Cardinality(LiveRemotes \ {r})
      BY <1>3, <2>3
    <3>2. remote[r].refcnt = 0 => Cardinality(LiveRemotes') = Cardinality(LiveRemotes)
      BY <2>1, <3>1
    <3> QED BY <1>1, <1>2, <2>3, <3>1, <3>2
  <2>4. CASE rec.refcnt # 0
    <3>1. Cardinality(LiveRemotes') = Cardinality(LiveRemotes \cup {r})
      BY <1>3, <2>4
    <3>2. remote[r].refcnt # 0 => Cardinality(LiveRemotes') = Cardinality(LiveRemotes)
      BY <2>2, <3>1
    <3> QED BY <1>1, <1>2, <2>4, <3>1, <3>2
  <2> QED BY <2>3, <2>4
<1>6. lRef' = Cardinality(LiveRemotes') + (IF lOwned THEN 1 ELSE 0)
  BY <1>1, <1>5
<1>7. Cardinality(LiveRemotes') \in Nat
  <2>1. LiveRemotes' \subseteq Remotes
    BY DEF LiveRemotes
  <2>2. IsFiniteSet(LiveRemotes')
    BY <2>1, FS_Subset, ObjectAssumption
  <2> QED BY <2>2, FS_CardinalityType
<1>8. lRef' \in Nat
  BY <1>6, <1>7
<1> QED BY <1>6, <1>8 DEF LocalRefs

\* Such a step preserves the invariant.
LEMMA RecordStep ==
    ASSUME IInv, Walkable, TypeOK', NEW r, NEW rec, RecordChanges(r, rec)
    PROVE  IInv'
<1> USE DEF RecordChanges
<1>1. /\ remote'[r] = rec
      /\ \A q \in Remotes : q # r => remote'[q] = remote[q]
  BY DEF IInv, TypeOK
<1>2. SlotsSound' /\ KeypairRefs' /\ \A q \in Remotes : LiveOf(q)' = LiveOf(q)
  BY SameCounts
<1>3. RemoteRefs'
  BY <1>1, <1>2 DEF IInv, RemoteRefs
<1>4. LocalRefs'
  <2>1. /\ r \in Remotes /\ rec \in RemoteType /\ remote' = [remote EXCEPT ![r] = rec]
        /\ lOwned' = lOwned
        /\ lRef' = lRef + (IF rec.refcnt = 0 THEN 0 ELSE 1)
                        - (IF remote[r].refcnt = 0 THEN 0 ELSE 1)
    OBVIOUS
  <2> QED BY <2>1, LocalKept
<1>5. IndexTableExact'
  <2>1. \A q \in Remotes : remote'[q].state # "DEAD" =>
            q \in table' /\ remote'[q].refcnt > 0
    <3>1. \A q \in Remotes : q # r /\ remote'[q].state # "DEAD" =>
              q \in table' /\ remote'[q].refcnt > 0
      BY <1>1, Linked, RemoteHeld
    <3>2. rec.state # "DEAD" => r \in table' /\ rec.refcnt > 0
      BY DEF RemoteType
    <3> QED BY <1>1, <3>1, <3>2
  <2>2. \A q \in Remotes : q \in table' /\ remote'[q].state = "DEAD" =>
            q \in unclean' /\ remote'[q].refcnt = 0
    BY <1>1, Linked
  <2>3. \A k \in Keypairs : k \in table' <=> \E q \in Remotes : k \in InSlots(slots'[q])
    BY Linked
  <2> QED BY <2>1, <2>2, <2>3, TableKept
<1>6. IndexUnambiguous'
  <2>1. \A o \in table' : o # r => o \in table /\ IndexOf(o)' = IndexOf(o)
    BY <1>1 DEF TypeOK, IndexOf
  <2>2. r \in table' \ Dangling' =>
            /\ IndexOf(r)' = rec.idx
            /\ rec.idx \in FreshIndex(r) \/ (r \in table /\ rec.idx = IndexOf(r))
    <3>1. r \in table' \ Dangling' => rec.state # "DEAD"
      BY <1>1 DEF Dangling
    <3> QED BY <1>1, <3>1 DEF IndexOf
  <2>3. \A o \in table \ {r} : rec.idx \in FreshIndex(r) => IndexOf(o) # rec.idx
    BY DEF FreshIndex
  <2>4. table \ Dangling = table
    BY DEF Walkable
  <2>5. \A o, p \in table : IndexOf(o) = IndexOf(p) => o = p
    BY <2>4 DEF IInv, IndexUnambiguous
  <2> QED BY <2>1, <2>2, <2>3, <2>5 DEF IndexUnambiguous
<1>7. FreedIsClean' /\ Ownership'
  BY <1>1 DEF IInv, FreedIsClean, Ownership
<1> QED BY <1>2, <1>3, <1>4, <1>5, <1>6, <1>7 DEF IInv

\* A freed remote is not linked while the table can be walked.
LEMMA FreedUnlinked ==
    ASSUME IInv, Walkable, NEW r \in Remotes, remote[r].refcnt = 0
    PROVE  r \notin table
BY Linked DEF IInv, Ownership

\* noise_remote_alloc takes a reference on the local for the new remote.
LEMMA RemoteAllocStep ==
    ASSUME IInv, Walkable, NEW r \in Remotes, RemoteAlloc(r) PROVE IInv'
<1> DEFINE rec == [NoRemote EXCEPT !.refcnt = 1, !.enabled = TRUE]
<1>1. /\ remote \in [Remotes -> RemoteType] /\ remote[r].refcnt = 0
      /\ slots \in [Remotes -> SlotsType]
      /\ remote' = [remote EXCEPT ![r] = rec]
      /\ slots' = [slots EXCEPT ![r] = EmptySlots]
      /\ lRef' = lRef + 1 /\ owned' = owned \cup {r} /\ unclean' = unclean \ {r}
      /\ UNCHANGED <<now, identity, hasId, lOwned, keypair, table, destroyed, readers,
                     handler>>
  BY DEF RemoteAlloc, IInv, TypeOK
<1>2. /\ rec \in RemoteType /\ rec.refcnt = 1 /\ rec.state = "DEAD" /\ rec.enabled
  BY RecordTypes DEF NoRemote, RemoteType
<1> HIDE DEF rec
<1>3. /\ handling # r /\ LiveOf(r) = {} /\ slots[r] = EmptySlots /\ r \notin table
  BY <1>1, RemoteCount, FreedUnlinked
<1>4. slots' = slots
  BY <1>1, <1>3
<1>5. TypeOK'
  BY <1>1, <1>2, <1>4 DEF IInv, TypeOK
<1>6. Cardinality(LiveOf(r)) = 0
  BY <1>3, FS_EmptySet
<1>7. rec.refcnt = Cardinality(LiveOf(r)) + (IF r \in owned' THEN 1 ELSE 0)
                       + (IF handling' = r THEN 1 ELSE 0)
  BY <1>1, <1>2, <1>3, <1>6
<1>8. RecordChanges(r, rec)
  <2>1. lRef' = lRef + (IF rec.refcnt = 0 THEN 0 ELSE 1)
                     - (IF remote[r].refcnt = 0 THEN 0 ELSE 1)
    BY <1>1, <1>2 DEF IInv, TypeOK
  <2> QED BY <1>1, <1>2, <1>3, <1>4, <1>7, <2>1 DEF RecordChanges, IInv, Ownership
<1> QED BY <1>5, <1>8, RecordStep

\* Steps that change the handshake of one allocated remote and no reference:
\* rec is the record of r afterwards, linked or not.
LEMMA HandshakeStep ==
    ASSUME IInv, Walkable, NEW r \in Remotes, remote[r].refcnt > 0, NEW rec \in RemoteType,
           rec.refcnt = remote[r].refcnt, rec.enabled = remote[r].enabled,
           IF rec.state = "DEAD" THEN r \in owned ELSE rec.idx \in FreshIndex(r),
           remote' = [remote EXCEPT ![r] = rec],
           table' = (IF rec.state = "DEAD" THEN table \ {r} ELSE table \cup {r}),
           unclean' = (IF rec.state = "DEAD" THEN unclean ELSE Late(r)),
           consuming' \in BOOLEAN, consuming' => consuming,
           UNCHANGED <<now, locals, slots, keypair, owned, destroyed, readers, handling>>
    PROVE  IInv'
<1>1. unclean' = unclean \/ unclean' = unclean \cup {r}
  BY DEF Late
<1>2. r \in owned' \cup unclean'
  BY DEF Late
<1>3. TypeOK'
  BY <1>1 DEF IInv, TypeOK
<1>4. RecordChanges(r, rec)
  <2>1. /\ \A q \in Remotes : q # r => (q \in unclean' <=> q \in unclean)
        /\ \A q \in Remotes : q # r => (q \in table' <=> q \in table)
        /\ \A k \in Keypairs : k \in table' <=> k \in table
    BY <1>1, ObjectAssumption
  <2>2. rec.refcnt = Cardinality(LiveOf(r)) + (IF r \in owned' THEN 1 ELSE 0)
                         + (IF handling' = r THEN 1 ELSE 0)
    BY DEF IInv, RemoteRefs
  <2>3. lRef' = lRef + (IF rec.refcnt = 0 THEN 0 ELSE 1)
                     - (IF remote[r].refcnt = 0 THEN 0 ELSE 1)
    BY DEF IInv, TypeOK
  <2>4. rec.refcnt # 0
    BY DEF RemoteType
  <2> QED BY <1>2, <2>1, <2>2, <2>3, <2>4 DEF RecordChanges, IInv, Ownership
<1> QED BY <1>3, <1>4, RecordStep

\* noise_remote_handshake_clear unlinks the handshake it ends.
LEMMA HandshakeClearStep ==
    ASSUME IInv, Walkable, NEW r \in Remotes, HandshakeClear(r) PROVE IInv'
<1>1. remote[r] \in RemoteType /\ r \in owned /\ consuming \in BOOLEAN
  BY DEF IInv, TypeOK, HandshakeClear
<1>2. remote[r].refcnt > 0
  BY <1>1, RemoteHeld
<1> QED BY <1>1, <1>2, RecordTypes, HandshakeStep DEF HandshakeClear

\* noise_create_initiation links the remote under a fresh index.
LEMMA CreateInitiationStep ==
    ASSUME IInv, Walkable, NEW r \in Remotes, NEW i \in Indices, CreateInitiation(r, i)
    PROVE  IInv'
<1> DEFINE rec == [remote[r] EXCEPT !.idx = i, !.state = "INITIATOR", !.lastSent = now]
<1>1. /\ remote \in [Remotes -> RemoteType] /\ remote[r] \in RemoteType /\ now \in Int
      /\ consuming \in BOOLEAN
  BY DEF IInv, TypeOK
<1>2. remote' = [remote EXCEPT ![r] = rec]
  BY <1>1 DEF CreateInitiation
<1>3. /\ rec \in RemoteType /\ rec.refcnt = remote[r].refcnt
      /\ rec.enabled = remote[r].enabled /\ rec.idx = i /\ rec.state # "DEAD"
  BY <1>1 DEF RemoteType, States
<1> HIDE DEF rec
<1> QED BY <1>1, <1>2, <1>3, HandshakeStep DEF CreateInitiation

\* noise_consume_initiation links the remote under a fresh index, and leaves
\* the caller the reference it took.
LEMMA ConsumeInitiationStep ==
    ASSUME IInv, Walkable, NEW ts \in 1..MaxTimestamp, NEW i \in Indices,
           ConsumeInitiation(ts, i)
    PROVE  IInv'
<1>0. PICK r : r = handling
  OBVIOUS
<1> DEFINE rec == [remote[r] EXCEPT !.timestamp = ts, !.lastInit = now,
                                    !.idx = i, !.state = "RESPONDER"]
<1>1. r \in Remotes
  BY <1>0 DEF ConsumeInitiation, IInv, TypeOK, Ownership
<1>2. /\ remote \in [Remotes -> RemoteType] /\ remote[r] \in RemoteType
      /\ now \in Int /\ ts \in Nat /\ remote[r].refcnt > 0
  BY <1>0, <1>1, TimeAssumption, RemoteHeld DEF IInv, TypeOK
<1>3. /\ remote' = [remote EXCEPT ![r] = rec]
      /\ i \in FreshIndex(r) /\ table' = table \cup {r} /\ unclean' = Late(r)
      /\ consuming' = FALSE
      /\ UNCHANGED <<now, locals, slots, keypair, owned, destroyed, readers, handling>>
  BY <1>0, <1>2 DEF ConsumeInitiation
<1>4. /\ rec \in RemoteType /\ rec.refcnt = remote[r].refcnt
      /\ rec.enabled = remote[r].enabled /\ rec.idx = i /\ rec.state # "DEAD"
  BY <1>2 DEF RemoteType, States
<1> HIDE DEF rec
<1> QED BY <1>1, <1>2, <1>3, <1>4, HandshakeStep

\* noise_remote_disable changes nothing else the invariant speaks of.
LEMMA RemoteDisableStep ==
    ASSUME IInv, Walkable, NEW r \in Remotes, RemoteDisable(r) PROVE IInv'
<1> DEFINE rec == [remote[r] EXCEPT !.enabled = FALSE]
<1>1. /\ remote[r] \in RemoteType /\ r \in owned
      /\ remote' = [remote EXCEPT ![r] = rec]
      /\ UNCHANGED <<now, locals, slots, keypair, table, creator, readers, handler>>
  BY DEF IInv, TypeOK, RemoteDisable
<1>2. /\ rec \in RemoteType /\ rec.refcnt = remote[r].refcnt /\ rec.idx = remote[r].idx
      /\ rec.state = remote[r].state /\ remote[r].refcnt \in Nat /\ remote[r].refcnt > 0
  BY <1>1, RemoteHeld DEF RemoteType
<1> HIDE DEF rec
<1>3. TypeOK'
  BY <1>1, <1>2 DEF IInv, TypeOK
<1>4. RecordChanges(r, rec)
  <2>1. rec.refcnt = Cardinality(LiveOf(r)) + (IF r \in owned' THEN 1 ELSE 0)
                         + (IF handling' = r THEN 1 ELSE 0)
    BY <1>1, <1>2 DEF IInv, RemoteRefs
  <2>2. lRef' = lRef + (IF rec.refcnt = 0 THEN 0 ELSE 1)
                     - (IF remote[r].refcnt = 0 THEN 0 ELSE 1)
    BY <1>1, <1>2 DEF IInv, TypeOK
  <2> QED BY <1>1, <1>2, <2>1, <2>2, Linked DEF RecordChanges, IInv, Ownership
<1> QED BY <1>3, <1>4, RecordStep

\* The handler takes a reference on an allocated remote: noise_remote_lookup,
\* noise_remote_index.
LEMMA RemoteTakeStep ==
    ASSUME IInv, Walkable, NEW r \in Remotes, remote[r].refcnt > 0, handling = NULL,
           remote' = [remote EXCEPT ![r].refcnt = @ + 1], handling' = r,
           consuming' \in BOOLEAN,
           UNCHANGED <<now, locals, slots, keypair, table, creator, readers>>
    PROVE  IInv'
<1> DEFINE more == remote[r].refcnt + 1
           rec == [remote[r] EXCEPT !.refcnt = more]
<1>1. /\ remote \in [Remotes -> RemoteType] /\ remote[r] \in RemoteType
      /\ remote[r].refcnt \in Nat /\ r # NULL
  BY ObjectAssumption DEF IInv, TypeOK, RemoteType
<1>2. remote' = [remote EXCEPT ![r] = rec] /\ more \in Nat /\ more > 0
  BY <1>1
<1>3. more = Cardinality(LiveOf(r)) + (IF r \in owned' THEN 1 ELSE 0)
                 + (IF handling' = r THEN 1 ELSE 0)
  BY <1>1, Counts DEF IInv, RemoteRefs
<1> HIDE DEF more
<1>4. /\ rec \in RemoteType /\ rec.refcnt = more /\ rec.idx = remote[r].idx
      /\ rec.state = remote[r].state /\ rec.enabled = remote[r].enabled
  BY <1>1, <1>2 DEF RemoteType
<1> HIDE DEF rec
<1>5. TypeOK'
  BY <1>1, <1>2, <1>4 DEF IInv, TypeOK
<1>6. RecordChanges(r, rec)
  <2>1. lRef' = lRef + (IF rec.refcnt = 0 THEN 0 ELSE 1)
                     - (IF remote[r].refcnt = 0 THEN 0 ELSE 1)
    BY <1>1, <1>2, <1>4 DEF IInv, TypeOK
  <2>2. \/ r \in owned' \cup unclean'
        \/ ~rec.enabled /\ rec.state = "DEAD" /\ slots[r] = EmptySlots
    BY <1>4 DEF IInv, FreedIsClean
  <2>3. \A q \in Remotes : q # r => (handling' = q <=> handling = q)
    BY ObjectAssumption
  <2>4. rec.state # "DEAD" <=> r \in table
    BY <1>4, Linked
  <2>5. rec.refcnt # 0
    BY <1>2, <1>4
  <2>6. UNCHANGED <<slots, keypair, held, lOwned, owned, unclean, table>>
    OBVIOUS
  <2> QED BY <1>1, <1>2, <1>3, <1>4, <2>1, <2>2, <2>3, <2>4, <2>5, <2>6 DEF RecordChanges
<1> QED BY <1>5, <1>6, RecordStep

\* noise_consume_initiation finds an enabled remote.
LEMMA RemoteLookupStep ==
    ASSUME IInv, Walkable, NEW r \in Remotes, RemoteLookup(r) PROVE IInv'
BY RemoteTakeStep DEF RemoteLookup

\* noise_remote_index finds the remote of a linked object, which is allocated.
LEMMA RemoteIndexStep ==
    ASSUME IInv, Walkable, NEW i \in Indices, RemoteIndex(i) PROVE IInv'
<1>0. PICK o \in table :
          LET q == IF o \in Remotes THEN o ELSE keypair[o].remote IN
          /\ handling = NULL
          /\ remote' = [remote EXCEPT ![q].refcnt = @ + 1] /\ handling' = q
          /\ UNCHANGED <<now, locals, slots, keypair, table, creator, readers, consuming>>
  BY DEF RemoteIndex
<1>1. PICK r :
          /\ r = IF o \in Remotes THEN o ELSE keypair[o].remote
          /\ handling = NULL
          /\ remote' = [remote EXCEPT ![r].refcnt = @ + 1] /\ handling' = r
          /\ UNCHANGED <<now, locals, slots, keypair, table, creator, readers, consuming>>
  BY <1>0
<1>2. r \in Remotes /\ remote[r].refcnt > 0
  <2>1. CASE o \in Remotes
    BY <1>1, <2>1, Linked, RemoteHeld
  <2>2. CASE o \notin Remotes
    <3>1. o \in Keypairs /\ keypair[o].refcnt > 0 /\ r \in Remotes /\ o \in LiveOf(r)
      BY <1>1, <2>2, Linked, Referenced DEF LiveOf
    <3>2. LiveOf(r) # {}
      BY <3>1
    <3>3. remote[r].refcnt \in Nat /\ remote[r].refcnt # 0
      BY <3>1, <3>2, RemoteCount, Zenon
    <3> QED BY <3>1, <3>3
  <2> QED BY <2>1, <2>2
<1>3. consuming' \in BOOLEAN
  BY <1>1 DEF IInv, TypeOK
<1> QED BY <1>1, <1>2, <1>3, RemoteTakeStep

\* noise_remote_put on a record.
LEMMA RemoteReleased ==
    ASSUME NEW rec \in RemoteType, NEW n \in Nat
    PROVE  /\ ReleaseRemote(rec, n) \in RemoteType
           /\ rec.refcnt <= n =>
                /\ ReleaseRemote(rec, n).refcnt = 0
                /\ ReleaseRemote(rec, n).state = "DEAD"
                /\ ReleaseRemote(rec, n).enabled = FALSE
           /\ rec.refcnt > n =>
                /\ ReleaseRemote(rec, n).refcnt = rec.refcnt - n
                /\ ReleaseRemote(rec, n).state = rec.state
                /\ ReleaseRemote(rec, n).idx = rec.idx
                /\ ReleaseRemote(rec, n).enabled = rec.enabled
<1>1. CASE rec.refcnt <= n
  <2>1. ReleaseRemote(rec, n) = NoRemote /\ rec.refcnt \in Nat
    BY <1>1 DEF ReleaseRemote, RemoteType
  <2>2. ~(rec.refcnt > n)
    BY <1>1, <2>1
  <2>3. /\ NoRemote \in RemoteType /\ NoRemote.refcnt = 0
        /\ NoRemote.state = "DEAD" /\ NoRemote.enabled = FALSE
    BY RecordTypes DEF NoRemote
  <2> HIDE DEF NoRemote
  <2> QED BY <2>1, <2>2, <2>3
<1>2. CASE rec.refcnt > n
  <2> DEFINE left == rec.refcnt - n
             out == [rec EXCEPT !.refcnt = left]
  <2>1. left \in Nat /\ ReleaseRemote(rec, n) = out /\ rec.refcnt \in Nat
    BY <1>2 DEF ReleaseRemote, RemoteType
  <2>2. ~(rec.refcnt <= n)
    BY <1>2, <2>1
  <2> HIDE DEF left
  <2>3. /\ out \in RemoteType /\ out.refcnt = left
        /\ out.state = rec.state /\ out.idx = rec.idx /\ out.enabled = rec.enabled
    BY <2>1 DEF RemoteType
  <2> HIDE DEF out
  <2> QED BY <2>1, <2>2, <2>3 DEF left
<1>3. rec.refcnt \in Nat
  BY DEF RemoteType
<1>4. rec.refcnt <= n \/ rec.refcnt > n
  BY <1>3
<1> QED BY <1>1, <1>2, <1>4

\* One reference put: the remote is gone, or as it was.
LEMMA OnePut ==
    ASSUME NEW rec0 \in RemoteType, rec0.refcnt > 0
    PROVE  /\ ReleaseRemote(rec0, 1) \in RemoteType
           /\ rec0.refcnt = 1 =>
                /\ ReleaseRemote(rec0, 1).refcnt = 0
                /\ ReleaseRemote(rec0, 1).state = "DEAD"
                /\ ReleaseRemote(rec0, 1).enabled = FALSE
           /\ rec0.refcnt # 1 =>
                /\ ReleaseRemote(rec0, 1).refcnt = rec0.refcnt - 1
                /\ ReleaseRemote(rec0, 1).refcnt > 0
                /\ ReleaseRemote(rec0, 1).state = rec0.state
                /\ ReleaseRemote(rec0, 1).idx = rec0.idx
                /\ ReleaseRemote(rec0, 1).enabled = rec0.enabled
<1> DEFINE left == rec0.refcnt - 1
           out == ReleaseRemote(rec0, 1)
<1>1. rec0.refcnt \in Nat
  BY DEF RemoteType
<1>2. CASE rec0.refcnt = 1
  <2>1. out = NoRemote
    BY <1>2 DEF ReleaseRemote
  <2>2. /\ NoRemote \in RemoteType /\ NoRemote.refcnt = 0
        /\ NoRemote.state = "DEAD" /\ NoRemote.enabled = FALSE
    BY RecordTypes DEF NoRemote
  <2> HIDE DEF NoRemote
  <2> QED BY <1>2, <2>1, <2>2
<1>3. CASE rec0.refcnt # 1
  <2>1. left \in Nat /\ left > 0 /\ out = [rec0 EXCEPT !.refcnt = left]
    BY <1>1, <1>3 DEF ReleaseRemote
  <2> HIDE DEF left, out
  <2>2. /\ out \in RemoteType /\ out.refcnt = left
        /\ out.state = rec0.state /\ out.idx = rec0.idx /\ out.enabled = rec0.enabled
    BY <2>1 DEF RemoteType
  <2> QED BY <1>3, <2>1, <2>2 DEF left, out
<1> QED BY <1>2, <1>3

\* noise_remote_put, by whoever lets go of a reference on r whose record is rec0
\* by then: the creator or the handshake handler.  A remote freed while it is
\* linked is one let go without a clear.
LEMMA PutStep ==
    ASSUME IInv, Walkable, NEW r \in Remotes, remote[r].refcnt > 0, NEW rec0 \in RemoteType,
           rec0.refcnt = remote[r].refcnt, rec0.state = remote[r].state,
           rec0.idx = remote[r].idx, rec0.enabled => remote[r].enabled,
           PutRemote(r, rec0),
           UNCHANGED <<now, identity, hasId, lOwned, slots, keypair, table, destroyed,
                       readers>>,
           owned' \subseteq owned, unclean' \subseteq Remotes,
           \A q \in Remotes : q # r => /\ q \in owned' <=> q \in owned
                                       /\ q \in unclean' <=> q \in unclean
                                       /\ handling' = q <=> handling = q,
           r \in owned \cup unclean => r \in owned' \cup unclean',
           (IF r \in owned' THEN 1 ELSE 0) + (IF handling' = r THEN 1 ELSE 0)
             = (IF r \in owned THEN 1 ELSE 0) + (IF handling = r THEN 1 ELSE 0) - 1,
           handling' \in Remotes \cup {NULL}, consuming' \in BOOLEAN,
           consuming' => handling' # NULL
    PROVE  IInv'
<1> DEFINE rec == ReleaseRemote(rec0, 1)
<1>1. /\ remote \in [Remotes -> RemoteType] /\ remote[r] \in RemoteType
      /\ remote' = [remote EXCEPT ![r] = rec] /\ lRef' = LocalAfter(rec)
      /\ remote[r].refcnt \in Nat /\ lRef \in Nat /\ lRef > 0
  BY RemoteCount DEF PutRemote, IInv, TypeOK, RemoteType
<1>2. /\ rec \in RemoteType
      /\ remote[r].refcnt = 1 =>
            rec.refcnt = 0 /\ rec.state = "DEAD" /\ rec.enabled = FALSE
      /\ remote[r].refcnt # 1 =>
            /\ rec.refcnt = remote[r].refcnt - 1 /\ rec.refcnt > 0
            /\ rec.state = remote[r].state /\ rec.idx = remote[r].idx
            /\ rec.enabled => remote[r].enabled
  <2>1. rec0.refcnt > 0
    OBVIOUS
  <2>2. /\ rec \in RemoteType
        /\ rec0.refcnt = 1 => rec.refcnt = 0 /\ rec.state = "DEAD" /\ rec.enabled = FALSE
        /\ rec0.refcnt # 1 =>
              /\ rec.refcnt = rec0.refcnt - 1 /\ rec.refcnt > 0
              /\ rec.state = rec0.state /\ rec.idx = rec0.idx
              /\ rec.enabled = rec0.enabled
    BY <2>1, OnePut
  <2> HIDE DEF rec
  <2> QED BY <2>2
<1> HIDE DEF rec
<1>3. rec.refcnt = remote[r].refcnt - 1
  BY <1>1, <1>2
<1>4. rec.refcnt = Cardinality(LiveOf(r)) + (IF r \in owned' THEN 1 ELSE 0)
                       + (IF handling' = r THEN 1 ELSE 0)
  <2> DEFINE n == (IF r \in owned' THEN 1 ELSE 0) + (IF handling' = r THEN 1 ELSE 0)
             m == (IF r \in owned THEN 1 ELSE 0) + (IF handling = r THEN 1 ELSE 0)
             c == Cardinality(LiveOf(r))
  <2>1. /\ remote[r].refcnt = c + m /\ n = m - 1
        /\ m \in Nat /\ n \in Nat /\ c \in Nat
    BY Counts DEF IInv, RemoteRefs
  <2>2. rec.refcnt = c + n
    <3> HIDE DEF n, m, c
    <3> QED BY <1>1, <1>3, <2>1
  <2> QED BY <2>1, <2>2
<1>5. lRef' = lRef + (IF rec.refcnt = 0 THEN 0 ELSE 1)
                   - (IF remote[r].refcnt = 0 THEN 0 ELSE 1)
      /\ lRef' \in Nat
  BY <1>1 DEF LocalAfter
<1>6. TypeOK'
  BY <1>1, <1>2, <1>5 DEF IInv, TypeOK
<1>7. r \in table => r \in owned \cup unclean
  BY Linked DEF IInv, FreedIsClean
<1>8. rec.refcnt = 0 => r \notin owned'
  BY <1>4, Counts DEF IInv
<1>9. r \in table' /\ rec.state = "DEAD" => r \in unclean' /\ rec.refcnt = 0
  <2>1. r \in table' => remote[r].state # "DEAD"
    BY Linked
  <2> QED BY <1>2, <1>7, <1>8, <2>1
<1>10. rec.state # "DEAD" => r \in table /\ rec.idx = remote[r].idx
  BY <1>2, Linked
<1>11. \/ r \in owned' \cup unclean'
       \/ ~rec.enabled /\ rec.state = "DEAD" /\ slots[r] = EmptySlots
  BY <1>2 DEF IInv, FreedIsClean
<1>12. rec.refcnt = 0 => rec.state = "DEAD" /\ ~rec.enabled
  BY <1>2
<1>13. RecordChanges(r, rec)
  BY <1>1, <1>2, <1>4, <1>5, <1>9, <1>10, <1>11, <1>12 DEF RecordChanges
<1> QED BY <1>6, <1>13, RecordStep

\* peer_tombstone leaves the handshake and the keypairs where they are.
LEMMA TombstoneStep ==
    ASSUME IInv, Walkable, NEW r \in Remotes, Tombstone(r) PROVE IInv'
<1> DEFINE rec0 == [remote[r] EXCEPT !.enabled = FALSE]
<1>1. /\ remote[r] \in RemoteType /\ r \in owned /\ owned \subseteq Remotes
      /\ unclean \subseteq Remotes /\ remote[r].refcnt > 0
      /\ handling \in Remotes \cup {NULL} /\ consuming \in BOOLEAN
      /\ consuming => handling # NULL
  BY RemoteHeld DEF Tombstone, IInv, TypeOK, Ownership
<1>2. /\ rec0 \in RemoteType /\ rec0.refcnt = remote[r].refcnt /\ rec0.idx = remote[r].idx
      /\ rec0.state = remote[r].state /\ ~rec0.enabled /\ PutRemote(r, rec0)
  BY <1>1 DEF RemoteType, Tombstone
<1> HIDE DEF rec0
<1>3. /\ owned' = owned \ {r} /\ unclean' = unclean \cup {r}
      /\ UNCHANGED <<now, identity, hasId, lOwned, slots, keypair, table, destroyed,
                     readers, handler>>
  BY DEF Tombstone
<1> QED BY <1>1, <1>2, <1>3, PutStep

\* noise_remote_put by the handler.
LEMMA RemotePutStep == ASSUME IInv, Walkable, RemotePut PROVE IInv'
<1>1. PICK r : r = handling
  OBVIOUS
<1>2. /\ r \in Remotes /\ remote[r] \in RemoteType /\ remote[r].refcnt > 0 /\ r # NULL
      /\ owned \subseteq Remotes /\ unclean \subseteq Remotes
  BY <1>1, RemoteHeld DEF RemotePut, IInv, TypeOK
<1>3. /\ PutRemote(r, remote[r]) /\ handling' = NULL /\ consuming' = FALSE
      /\ UNCHANGED <<now, identity, hasId, lOwned, slots, keypair, table, creator,
                     readers>>
  BY <1>1 DEF RemotePut, IInv, TypeOK
<1>4. \A q \in Remotes : q # r => (handling' = q <=> handling = q)
  BY <1>1, <1>3, ObjectAssumption
<1>5. (IF r \in owned' THEN 1 ELSE 0) + (IF handling' = r THEN 1 ELSE 0)
        = (IF r \in owned THEN 1 ELSE 0) + (IF handling = r THEN 1 ELSE 0) - 1
  BY <1>1, <1>2, <1>3
<1>6. /\ owned' = owned /\ unclean' = unclean /\ NULL \in Remotes \cup {NULL}
      /\ FALSE \in BOOLEAN
  BY <1>3
<1> QED BY <1>2, <1>3, <1>4, <1>5, <1>6, PutStep

\* noise_consume_initiation puts the remote of an initiation it refuses.
LEMMA RefuseInitiationStep ==
    ASSUME IInv, Walkable, NEW ts \in 0..MaxTimestamp, RefuseInitiation(ts) PROVE IInv'
<1>1. PICK r : r = handling
  OBVIOUS
<1>2. /\ r \in Remotes /\ remote[r] \in RemoteType /\ remote[r].refcnt > 0 /\ r # NULL
      /\ owned \subseteq Remotes /\ unclean \subseteq Remotes /\ ts \in Nat
  BY <1>1, RemoteHeld, TimeAssumption DEF RefuseInitiation, IInv, TypeOK, Ownership
<1> DEFINE stored == [remote[r] EXCEPT !.timestamp = ts]
<1>3. /\ stored \in RemoteType /\ stored.refcnt = remote[r].refcnt
      /\ stored.idx = remote[r].idx /\ stored.state = remote[r].state
      /\ stored.enabled = remote[r].enabled
  BY <1>2 DEF RemoteType
<1>4. /\ PutRemote(r, stored) \/ PutRemote(r, remote[r])
      /\ handling' = NULL /\ consuming' = FALSE
      /\ UNCHANGED <<now, identity, hasId, lOwned, slots, keypair, table, creator,
                     readers>>
  BY <1>1 DEF RefuseInitiation
<1> HIDE DEF stored
<1>5. \A q \in Remotes : q # r => (handling' = q <=> handling = q)
  BY <1>1, <1>4, ObjectAssumption
<1>6. (IF r \in owned' THEN 1 ELSE 0) + (IF handling' = r THEN 1 ELSE 0)
        = (IF r \in owned THEN 1 ELSE 0) + (IF handling = r THEN 1 ELSE 0) - 1
  BY <1>1, <1>2, <1>4
<1>7. /\ owned' = owned /\ unclean' = unclean /\ NULL \in Remotes \cup {NULL}
      /\ FALSE \in BOOLEAN
  BY <1>4
<1>8. CASE PutRemote(r, stored)
  BY <1>2, <1>3, <1>4, <1>5, <1>6, <1>7, <1>8, PutStep
<1>9. CASE PutRemote(r, remote[r])
  BY <1>2, <1>4, <1>5, <1>6, <1>7, <1>9, PutStep
<1> QED BY <1>4, <1>8, <1>9

\* wg_session_destroy puts every remote and the local: what is freed while it is
\* linked was freed without a clear.
LEMMA SessionDestroyStep == ASSUME IInv, Walkable, SessionDestroy PROVE IInv'
<1> DEFINE freed == {r \in owned : remote[r].refcnt = 1}
<1>1. /\ remote' = [r \in Remotes |->
              IF r \in owned THEN ReleaseRemote(remote[r], 1) ELSE remote[r]]
      /\ lRef' = lRef - Cardinality(freed) - 1
      /\ lOwned /\ lOwned' = FALSE /\ owned' = {} /\ unclean' = unclean \cup owned
      /\ destroyed' = TRUE
      /\ UNCHANGED <<now, identity, hasId, slots, keypair, table, readers, handler>>
  BY DEF SessionDestroy
<1>2. owned \subseteq Remotes /\ remote \in [Remotes -> RemoteType]
  BY DEF IInv, TypeOK
\* A remote its creator holds loses that reference, and all else if it is the last.
<1>3. ASSUME NEW r \in owned
      PROVE  /\ remote'[r] \in RemoteType
             /\ r \in freed =>
                  /\ remote'[r].refcnt = 0 /\ remote'[r].state = "DEAD"
                  /\ ~remote'[r].enabled
             /\ r \notin freed =>
                  /\ remote'[r].refcnt > 0
                  /\ remote'[r].state = remote[r].state /\ remote'[r].idx = remote[r].idx
             /\ remote'[r].refcnt = remote[r].refcnt - 1
             /\ remote[r].refcnt > 0
  <2>1. remote[r] \in RemoteType /\ remote[r].refcnt > 0 /\ r \in Remotes
    BY <1>2, RemoteHeld
  <2>2. remote'[r] = ReleaseRemote(remote[r], 1)
    BY <1>1, <2>1
  <2>3. r \in freed <=> remote[r].refcnt = 1
    OBVIOUS
  <2> HIDE DEF freed
  <2> DEFINE old == remote[r]
             rec == ReleaseRemote(old, 1)
  <2>4. /\ rec \in RemoteType
        /\ old.refcnt = 1 => rec.refcnt = 0 /\ rec.state = "DEAD" /\ rec.enabled = FALSE
        /\ old.refcnt # 1 =>
              /\ rec.refcnt = old.refcnt - 1 /\ rec.refcnt > 0
              /\ rec.state = old.state /\ rec.idx = old.idx
    <3>1. old \in RemoteType /\ old.refcnt > 0
      BY <2>1
    <3> HIDE DEF old
    <3> QED BY <3>1, OnePut
  <2> HIDE DEF rec
  <2>5. remote'[r] = rec
    BY <2>2 DEF rec
  <2>6. old.refcnt = 1 => rec.refcnt = old.refcnt - 1
    BY <2>4
  <2> QED BY <2>1, <2>3, <2>4, <2>5, <2>6
<1>4. \A r \in Remotes : r \notin owned => remote'[r] = remote[r]
  BY <1>1
<1>a. freed \subseteq owned
  OBVIOUS
<1> HIDE DEF freed
<1>5. SlotsSound' /\ KeypairRefs' /\ \A r \in Remotes : LiveOf(r)' = LiveOf(r)
  BY <1>1, SameCounts
<1>6. RemoteRefs'
  <2>1. ASSUME NEW r \in Remotes
        PROVE  remote'[r].refcnt = Cardinality(LiveOf(r)) + (IF handling = r THEN 1 ELSE 0)
    <3>1. /\ remote[r].refcnt = Cardinality(LiveOf(r)) + (IF r \in owned THEN 1 ELSE 0)
                                    + (IF handling = r THEN 1 ELSE 0)
          /\ Cardinality(LiveOf(r)) \in Nat
      BY Counts DEF IInv, RemoteRefs
    <3>2. CASE r \in owned
      BY <3>1, <3>2, <1>3
    <3>3. CASE r \notin owned
      BY <3>1, <3>3, <1>4
    <3> QED BY <3>2, <3>3
  <2>2. \A r \in Remotes :
           Cardinality(LiveOf(r)) + (IF handling = r THEN 1 ELSE 0)
             = Cardinality(LiveOf(r)) + 0 + (IF handling = r THEN 1 ELSE 0)
    BY Counts DEF IInv
  <2> QED BY <1>1, <1>5, <2>1, <2>2 DEF RemoteRefs
<1>7. LiveRemotes' = LiveRemotes \ freed /\ freed \subseteq LiveRemotes
  <2>1. \A r \in Remotes : remote'[r].refcnt > 0 <=> remote[r].refcnt > 0 /\ r \notin freed
    BY <1>3, <1>4, <1>a
  <2> QED BY <1>2, <1>3, <1>a, <2>1 DEF LiveRemotes
<1>8. lRef' \in Nat /\ LocalRefs'
  <2>1. /\ Cardinality(LiveRemotes) \in Nat /\ Cardinality(freed) \in Nat
        /\ Cardinality(freed) <= Cardinality(LiveRemotes)
        /\ Cardinality(LiveRemotes \ freed) = Cardinality(LiveRemotes) - Cardinality(freed)
    BY <1>7, Counts, Minus DEF IInv
  <2>2. lRef = Cardinality(LiveRemotes) + 1
    BY <1>1 DEF IInv, LocalRefs
  <2>3. lRef' = Cardinality(LiveRemotes \ freed) /\ lRef' \in Nat
    BY <1>1, <2>1, <2>2
  <2>4. lRef' = Cardinality(LiveRemotes') + 0
    BY <1>7, <2>1, <2>3
  <2> QED BY <1>1, <2>3, <2>4 DEF LocalRefs
<1>9. TypeOK'
  <2>1. remote' \in [Remotes -> RemoteType]
    <3>1. \A r \in Remotes : remote'[r] \in RemoteType
      BY <1>2, <1>3, <1>4
    <3> QED BY <1>1, <3>1
  <2> QED BY <1>1, <1>8, <2>1 DEF IInv, TypeOK
<1>10. IndexTableExact'
  <2>1. \A r \in Remotes : remote'[r].state # "DEAD" =>
            r \in table' /\ remote'[r].refcnt > 0
    BY <1>1, <1>3, <1>4, Linked, RemoteHeld
  <2>2. \A r \in Remotes : r \in table' /\ remote'[r].state = "DEAD" =>
            r \in unclean' /\ remote'[r].refcnt = 0
    BY <1>1, <1>3, <1>4, Linked
  <2>3. \A k \in Keypairs : k \in table' <=> \E r \in Remotes : k \in InSlots(slots'[r])
    BY <1>1, Linked
  <2> QED BY <1>9, <2>1, <2>2, <2>3, TableKept
<1>11. IndexUnambiguous'
  <2>1. \A r \in table' \ Dangling' : r \in Remotes => remote'[r].idx = remote[r].idx
    BY <1>1, <1>3, <1>4, <1>a DEF Dangling
  <2>2. table \subseteq Remotes \cup Keypairs
    BY DEF IInv, TypeOK
  <2>3. \A o \in table' \ Dangling' : o \in table /\ IndexOf(o)' = IndexOf(o)
    BY <1>1, <2>1, <2>2 DEF IndexOf
  <2> QED BY <2>3, IndicesKept
<1>12. FreedIsClean'
  BY <1>1, <1>4 DEF IInv, FreedIsClean
<1>13. Ownership'
  BY <1>1, <1>3, <1>4 DEF IInv, Ownership
<1> QED BY <1>5, <1>6, <1>8, <1>9, <1>10, <1>11, <1>12, <1>13 DEF IInv

-----------------------------------------------------------------------------
(* Steps of the users of a keypair that change no slot.                      *)

\* Reading the address of a keypair moves no reference.
LEMMA LoadStep ==
    ASSUME IInv, NEW u \in Users, NEW k \in Keypairs, NEW why \in {"send", "receive"},
           Load(u, k, why)
    PROVE  IInv'
<1>1. [kp |-> k, for |-> why] \in LoadType
  BY DEF LoadType
<1>2. TypeOK'
  BY <1>1 DEF IInv, TypeOK, Load
<1> QED BY <1>2, KeypairStep DEF Load

\* noise_keypair_current reads a keypair from its slot.
LEMMA LoadCurrentStep ==
    ASSUME IInv, NEW u \in Users, NEW r \in Remotes, LoadCurrent(u, r) PROVE IInv'
<1>1. slots[r]["current"] \in Keypairs /\ Load(u, slots[r]["current"], "send")
  BY DEF LoadCurrent, IInv, TypeOK, SlotsType, SlotNames
<1> QED BY <1>1, LoadStep

\* noise_keypair_lookup finds one in the index table.
LEMMA LoadIndexedStep ==
    ASSUME IInv, NEW u \in Users, NEW i \in Indices, LoadIndexed(u, i) PROVE IInv'
<1>1. PICK k \in Keypairs : Load(u, k, "receive")
  BY DEF LoadIndexed
<1> QED BY <1>1, LoadStep

\* noise_keypair_nonce_next changes no reference.
LEMMA NonceNextStep ==
    ASSUME IInv, NEW u \in Users, NonceNext(u) PROVE IInv'
<1> DEFINE k == held[u]
           more == keypair[k].nonce < RejectAfterMessages
           next == keypair[k].nonce + 1
           rec == [keypair[k] EXCEPT !.nonce = next, !.canSend = more]
<1>1. k \in Keypairs /\ keypair \in [Keypairs -> KeypairType] /\ keypair[k] \in KeypairType
  BY Referenced DEF NonceNext, IInv, TypeOK
<1>2. keypair' = [keypair EXCEPT ![k] = rec]
  BY <1>1 DEF NonceNext
<1>3. /\ rec \in KeypairType /\ rec.refcnt = keypair[k].refcnt
      /\ rec.remote = keypair[k].remote /\ rec.idx = keypair[k].idx
  <2>1. more \in BOOLEAN /\ next \in Nat
    BY <1>1 DEF KeypairType
  <2> HIDE DEF more, next
  <2> QED BY <1>1, <2>1 DEF KeypairType
<1> HIDE DEF rec, k
<1>4. UNCHANGED <<now, locals, remote, slots, table, creator, readers, handler>>
  BY DEF NonceNext
<1>5. TypeOK'
  BY <1>1, <1>2, <1>3, <1>4 DEF IInv, TypeOK
<1> QED BY <1>1, <1>2, <1>3, <1>4, <1>5, KeypairStep

\* A caller takes a reference on an allocated keypair.
LEMMA AcquireStep ==
    ASSUME IInv, TypeOK', NEW u \in Users, NEW k \in Keypairs, keypair[k].refcnt > 0,
           held[u] = NULL, held' = [held EXCEPT ![u] = k],
           keypair' = [keypair EXCEPT ![k].refcnt = @ + 1],
           UNCHANGED <<lRef, lOwned, remote, slots, table, owned, unclean, handling,
                       consuming>>
    PROVE  IInv'
<1>1. /\ keypair \in [Keypairs -> KeypairType] /\ keypair[k] \in KeypairType
      /\ held \in [Users -> Keypairs \cup {NULL}]
  BY DEF IInv, TypeOK
<1>2. \A j \in Keypairs :
         /\ keypair'[j].refcnt = IF j = k THEN keypair[j].refcnt + 1 ELSE keypair[j].refcnt
         /\ keypair'[j].remote = keypair[j].remote /\ keypair'[j].idx = keypair[j].idx
         /\ keypair'[j].refcnt > 0 <=> keypair[j].refcnt > 0
  BY <1>1 DEF KeypairType
<1>3. SlotsSound'
  <2>1. \A r \in Remotes : \A j \in InSlots(slots[r]) :
           j \in Keypairs /\ keypair'[j].refcnt > 0 /\ keypair'[j].remote = r
    BY <1>2, Referenced
  <2> QED BY <2>1 DEF IInv, SlotsSound
<1>4. Dangling' = Dangling
  BY DEF Dangling
<1>5. IndexTableExact' /\ FreedIsClean' /\ Ownership'
  BY <1>2, <1>4 DEF IInv, IndexTableExact, FreedIsClean, Ownership
<1>6. IndexUnambiguous'
  <2>1. table \subseteq Remotes \cup Keypairs
    BY DEF IInv, TypeOK
  <2>2. \A o \in table : IndexOf(o)' = IndexOf(o)
    BY <1>2, <2>1 DEF IndexOf
  <2> QED BY <1>4, <2>2 DEF IInv, IndexUnambiguous
<1>7. KeypairRefs'
  <2>1. u \notin Holders(k) /\ Holders(k)' = Holders(k) \cup {u}
    BY <1>1, ObjectAssumption DEF Holders
  <2>2. \A j \in Keypairs : j # k => Holders(j)' = Holders(j)
    BY <1>1, ObjectAssumption DEF Holders
  <2>3. Cardinality(Holders(k)') = Cardinality(Holders(k)) + 1
    BY <2>1, Counts, FS_AddElement DEF IInv
  <2>4. Cardinality(Holders(k)) \in Nat
    BY Counts DEF IInv
  <2>5. ASSUME NEW j \in Keypairs
        PROVE  (keypair[j].refcnt = Cardinality(Holders(j))
                  + (IF \E r \in Remotes : j \in InSlots(slots[r]) THEN 1 ELSE 0))'
    <3>1. keypair[j].refcnt = Cardinality(Holders(j))
                + (IF \E r \in Remotes : j \in InSlots(slots[r]) THEN 1 ELSE 0)
      BY DEF IInv, KeypairRefs
    <3>2. CASE j = k
      BY <3>1, <3>2, <1>2, <2>3, <2>4
    <3>3. CASE j # k
      BY <3>1, <3>3, <1>2, <2>2
    <3> QED BY <3>2, <3>3
  <2> QED BY <2>5 DEF KeypairRefs
<1>8. RemoteRefs' /\ LocalRefs'
  <2>1. \A r \in Remotes : LiveOf(r)' = LiveOf(r)
    BY <1>2 DEF LiveOf
  <2> QED BY <2>1 DEF IInv, RemoteRefs, LocalRefs, LiveRemotes
<1> QED BY <1>3, <1>5, <1>6, <1>7, <1>8 DEF IInv

\* Having read an address, a user counts itself in on what is there, or not.
LEMMA TakeLoadedStep ==
    ASSUME IInv, NEW u \in Users, TakeLoaded(u) PROVE IInv'
<1>0. PICK k : k = loaded[u].kp
  OBVIOUS
<1>1. /\ k \in Keypairs /\ keypair \in [Keypairs -> KeypairType]
      /\ keypair[k] \in KeypairType
      /\ NotLoading \in LoadType
  BY <1>0 DEF TakeLoaded, IInv, TypeOK, LoadType, NotLoading
<1>2. PICK may \in BOOLEAN :
        /\ held[u] = NULL
        /\ loaded' = [loaded EXCEPT ![u] = NotLoading]
        /\ \/ /\ keypair[k].refcnt > 0
              /\ held' = [held EXCEPT ![u] = k]
              /\ keypair' = [keypair EXCEPT ![k].refcnt = @ + 1]
           \/ /\ keypair' = [keypair EXCEPT ![k].canSend = @ /\ may]
              /\ UNCHANGED held
        /\ UNCHANGED <<now, locals, remote, slots, table, creator, handler>>
  BY <1>0 DEF TakeLoaded
<1>3. CASE /\ keypair[k].refcnt > 0
           /\ held' = [held EXCEPT ![u] = k]
           /\ keypair' = [keypair EXCEPT ![k].refcnt = @ + 1]
  <2>1. keypair' \in [Keypairs -> KeypairType]
    BY <1>1, <1>3 DEF KeypairType
  <2>2. TypeOK'
    BY <1>1, <1>2, <1>3, <2>1 DEF IInv, TypeOK
  <2> QED BY <1>1, <1>2, <1>3, <2>2, AcquireStep
<1>4. CASE /\ keypair' = [keypair EXCEPT ![k].canSend = @ /\ may]
           /\ UNCHANGED held
  <2> DEFINE can == keypair[k].canSend /\ may
             rec == [keypair[k] EXCEPT !.canSend = can]
  <2>1. keypair' = [keypair EXCEPT ![k] = rec]
    BY <1>1, <1>4
  <2>2. can \in BOOLEAN
    BY <1>1 DEF KeypairType
  <2> HIDE DEF can
  <2>3. /\ rec \in KeypairType /\ rec.refcnt = keypair[k].refcnt
        /\ rec.remote = keypair[k].remote /\ rec.idx = keypair[k].idx
    BY <1>1, <2>2 DEF KeypairType
  <2> HIDE DEF rec
  <2>4. TypeOK'
    BY <1>1, <1>2, <1>4, <2>1, <2>3 DEF IInv, TypeOK
  <2> QED BY <1>1, <1>2, <1>4, <2>1, <2>3, <2>4, KeypairStep
<1> QED BY <1>2, <1>3, <1>4

-----------------------------------------------------------------------------
(* Steps that rotate the slots of a remote.                                  *)

\* The slots of r lose the keypairs of D and gain those of N: what becomes of
\* the references to keypairs and of the keypairs each remote counts.
Slotted == UNION {InSlots(slots[q]) : q \in Remotes}

Rotation(r, s, D, N) ==
    /\ r \in Remotes /\ s \in SlotsType /\ Distinct(s)
    /\ D \subseteq InSlots(slots[r]) /\ N \subseteq Keypairs
    /\ \A k \in N : keypair[k].refcnt = 0
    /\ InSlots(s) = (InSlots(slots[r]) \ D) \cup N
    /\ slots' = [slots EXCEPT ![r] = s] /\ held' = held
    /\ \A k \in N : keypair'[k].refcnt = 1 /\ keypair'[k].remote = r
    /\ \A k \in Keypairs \ N :
          /\ keypair'[k].refcnt = ReleaseKeypairs(D)[k].refcnt
          /\ keypair'[k].remote = ReleaseKeypairs(D)[k].remote
          /\ keypair'[k].idx = ReleaseKeypairs(D)[k].idx

\* What a rotation leaves behind: dropping the keypairs that leave the slots of
\* a remote, and only those, keeps every reference count exact.
LEMMA Rotated ==
    ASSUME IInv, NEW r, NEW s, NEW D, NEW N, Rotation(r, s, D, N)
    PROVE  /\ SlotsSound' /\ KeypairRefs'
           /\ \A q \in Remotes : q # r => LiveOf(q)' = LiveOf(q)
           /\ LiveOf(r)' = (LiveOf(r) \ FreedBy(D)) \cup N
           /\ N \cap LiveOf(r) = {}
           /\ Slotted' = (Slotted \ D) \cup N
           /\ \A k \in Keypairs \ N : keypair'[k].refcnt > 0 =>
                 /\ keypair'[k].remote = keypair[k].remote
                 /\ keypair'[k].idx = keypair[k].idx
                 /\ keypair[k].refcnt > 0
           /\ OwnedBy(D, r)
<1> USE DEF Rotation
<1>1. slots \in [Remotes -> SlotsType] /\ keypair \in [Keypairs -> KeypairType]
  BY DEF IInv, TypeOK
<1>2. D \in SUBSET Keypairs /\ \A k \in D : keypair[k].refcnt > 0 /\ keypair[k].remote = r
  BY Referenced
<1>a. OwnedBy(D, r)
  BY <1>2 DEF OwnedBy
<1>3. \A k \in Keypairs : keypair[k].refcnt \in Nat
  BY <1>1 DEF KeypairType
<1>4. \A k \in Keypairs \ N :
         /\ keypair'[k].refcnt =
               IF k \in D THEN keypair[k].refcnt - 1 ELSE keypair[k].refcnt
         /\ keypair'[k].refcnt > 0 => /\ keypair'[k].remote = keypair[k].remote
                                      /\ keypair'[k].idx = keypair[k].idx
  <2>1. \A k \in Keypairs :
           /\ ReleaseKeypairs(D)[k].refcnt =
                 IF k \in D THEN keypair[k].refcnt - 1 ELSE keypair[k].refcnt
           /\ ReleaseKeypairs(D)[k].refcnt > 0 =>
                 /\ ReleaseKeypairs(D)[k].remote = keypair[k].remote
                 /\ ReleaseKeypairs(D)[k].idx = keypair[k].idx
    BY <1>1, <1>2 DEF ReleaseKeypairs, NoKeypair, KeypairType
  <2> QED BY <2>1
<1>5. \A q \in Remotes : slots'[q] = IF q = r THEN s ELSE slots[q]
  BY <1>1
<1>6. \A q \in Remotes : \A k \in InSlots(slots[q]) :
         k \in Keypairs \ N /\ keypair[k].remote = q /\ keypair[k].refcnt > 0
  BY Referenced
<1>7. ASSUME NEW q \in Remotes, q # r
      PROVE  InSlots(slots[q]) \cap D = {}
  BY <1>2, <1>6, <1>7
<1>8. SlotsSound'
  <2>1. ASSUME NEW q \in Remotes, NEW k \in InSlots(slots'[q])
        PROVE  keypair'[k].refcnt > 0 /\ keypair'[k].remote = q
    <3>1. CASE k \in N
      BY <3>1, <1>5, <1>6
    <3>2. CASE k \notin N
      <4>1. k \in InSlots(slots[q]) /\ k \notin D
        BY <3>2, <1>5, <1>7
      <4> QED BY <4>1, <1>4, <1>6
    <3> QED BY <3>1, <3>2
  <2>2. \A q \in Remotes : Distinct(slots'[q])
    BY <1>5 DEF IInv, SlotsSound, Distinct
  <2> QED BY <2>1, <2>2 DEF SlotsSound, Distinct
<1>9. KeypairRefs'
  <2>1. ASSUME NEW k \in Keypairs
        PROVE  keypair'[k].refcnt = Cardinality(Holders(k))
                  + (IF \E q \in Remotes : k \in InSlots(slots'[q]) THEN 1 ELSE 0)
    <3>1. /\ keypair[k].refcnt = Cardinality(Holders(k))
               + (IF \E q \in Remotes : k \in InSlots(slots[q]) THEN 1 ELSE 0)
          /\ Cardinality(Holders(k)) \in Nat
      BY Counts DEF IInv, KeypairRefs
    <3>2. CASE k \in N
      <4>1. Cardinality(Holders(k)) = 0
        BY <3>1, <3>2
      <4>2. k \in InSlots(slots'[r])
        BY <3>2, <1>5
      <4> QED BY <3>2, <4>1, <4>2
    <3>3. CASE k \in D
      <4>1. ~ \E q \in Remotes : k \in InSlots(slots'[q])
        BY <3>3, <1>5, <1>6, <1>7
      <4>2. \E q \in Remotes : k \in InSlots(slots[q])
        BY <3>3
      <4>3. keypair'[k].refcnt = keypair[k].refcnt - 1
        BY <3>3, <1>4, <1>6
      <4> QED BY <3>1, <4>1, <4>2, <4>3
    <3>4. CASE k \notin N /\ k \notin D
      <4>1. \A q \in Remotes : k \in InSlots(slots'[q]) <=> k \in InSlots(slots[q])
        BY <3>4, <1>5
      <4> QED BY <3>1, <3>4, <4>1, <1>4
    <3> QED BY <3>2, <3>3, <3>4
  <2> QED BY <2>1 DEF KeypairRefs, Holders
<1>10. \A q \in Remotes : {k \in Keypairs \ N : keypair'[k].refcnt > 0 /\ keypair'[k].remote = q}
                              = LiveOf(q) \ FreedBy(D)
  <2>1. \A q \in Remotes :
           {k \in Keypairs : /\ ReleaseKeypairs(D)[k].refcnt > 0
                             /\ ReleaseKeypairs(D)[k].remote = q} = LiveOf(q) \ FreedBy(D)
    BY <1>a, ReleasedLive
  <2>2. \A q \in Remotes : (LiveOf(q) \ FreedBy(D)) \cap N = {}
    BY DEF LiveOf
  <2> QED BY <2>1, <2>2
<1>11. \A q \in Remotes : q # r => LiveOf(q)' = LiveOf(q)
  <2>1. \A q \in Remotes : q # r => LiveOf(q) \ FreedBy(D) = LiveOf(q)
    BY <1>a, ReleasedLive
  <2> QED BY <1>10, <2>1 DEF LiveOf
<1>12. LiveOf(r)' = (LiveOf(r) \ FreedBy(D)) \cup N
  BY <1>10 DEF LiveOf
<1>13. Slotted' = (Slotted \ D) \cup N
  BY <1>5, <1>7 DEF Slotted
<1>14. N \cap LiveOf(r) = {}
  BY DEF LiveOf
<1>15. \A k \in Keypairs \ N : keypair'[k].refcnt > 0 =>
                 /\ keypair'[k].remote = keypair[k].remote
                 /\ keypair'[k].idx = keypair[k].idx
                 /\ keypair[k].refcnt > 0
  BY <1>3, <1>4
<1> QED BY <1>a, <1>8, <1>9, <1>11, <1>12, <1>13, <1>14, <1>15

\* A rotation of the slots of r, with what the step does to the record of r,
\* to the index table and to those who hold r: the rest of the invariant follows.
\* The one new keypair takes over the index of the handshake it ends.
StepRotates(r, s, D, N, rec) ==
    /\ Rotation(r, s, D, N) /\ TypeOK' /\ LocalRefs'
    /\ remote' = [remote EXCEPT ![r] = rec]
    /\ rec.refcnt = Cardinality(LiveOf(r)') + (IF r \in owned' THEN 1 ELSE 0)
                        + (IF handling' = r THEN 1 ELSE 0)
    /\ \/ rec.state = "DEAD"
       \/ rec.refcnt > 0 /\ rec.state = remote[r].state /\ rec.idx = remote[r].idx
    /\ rec.refcnt = 0 => ~rec.enabled
    /\ \A q \in Remotes : q # r =>
          /\ q \in owned' <=> q \in owned
          /\ q \in unclean' <=> q \in unclean
          /\ handling' = q <=> handling = q
    /\ \/ r \in owned' \cup unclean'
       \/ ~rec.enabled /\ rec.state = "DEAD" /\ s = EmptySlots
    /\ table' = (table \ (D \cup (IF rec.state = "DEAD" THEN {r} ELSE {}))) \cup N
    /\ \A k \in N : /\ N = {k} /\ r \in table /\ rec.state = "DEAD"
                     /\ keypair'[k].idx = remote[r].idx
    /\ consuming' => handling' # NULL

\* A step that rotates the slots of one remote, and keeps its record, the table
\* and the counts in line with that, preserves the invariant.
LEMMA RotationStep ==
    ASSUME IInv, Walkable, NEW r, NEW s, NEW D, NEW N, NEW rec,
           StepRotates(r, s, D, N, rec)
    PROVE  IInv'
<1> USE DEF StepRotates
<1>1. /\ SlotsSound' /\ KeypairRefs'
      /\ \A q \in Remotes : q # r => LiveOf(q)' = LiveOf(q)
      /\ Slotted' = (Slotted \ D) \cup N
      /\ \A k \in Keypairs \ N : keypair'[k].refcnt > 0 =>
            /\ keypair'[k].remote = keypair[k].remote
            /\ keypair'[k].idx = keypair[k].idx
            /\ keypair[k].refcnt > 0
      /\ OwnedBy(D, r)
  BY Rotated
<1>2. /\ r \in Remotes /\ N \subseteq Keypairs /\ D \subseteq Keypairs
      /\ \A k \in N : keypair'[k].remote = r
      /\ slots'[r] = s /\ \A q \in Remotes : q # r => slots'[q] = slots[q]
  BY <1>1 DEF Rotation, OwnedBy, IInv, TypeOK
<1>3. /\ remote'[r] = rec
      /\ \A q \in Remotes : q # r => remote'[q] = remote[q]
  BY <1>2 DEF IInv, TypeOK
<1>4. \A o \in Remotes : o # r => (o \in table' <=> o \in table)
  BY <1>2, ObjectAssumption
<1>5. r \in table' => rec.state # "DEAD"
  BY <1>2, ObjectAssumption
<1>6. IndexTableExact'
  <2>1. \A q \in Remotes : remote'[q].state # "DEAD" =>
            q \in table' /\ remote'[q].refcnt > 0
    <3>1. \A q \in Remotes : q # r /\ remote'[q].state # "DEAD" =>
              q \in table' /\ remote'[q].refcnt > 0
      BY <1>3, <1>4, Linked, RemoteHeld
    <3>2. rec.state # "DEAD" => r \in table' /\ rec.refcnt > 0
      BY <1>2, Linked, ObjectAssumption
    <3> QED BY <1>3, <3>1, <3>2
  <2>2. \A q \in Remotes : q \in table' => remote'[q].state # "DEAD"
    BY <1>3, <1>4, <1>5, Linked
  <2>3. \A k \in Keypairs : k \in table' <=> \E q \in Remotes : k \in InSlots(slots'[q])
    <3>1. \A k \in Keypairs : k \in table <=> k \in Slotted
      BY Linked DEF Slotted
    <3>2. \A k \in Keypairs : k \in table' <=> k \in Slotted'
      BY <1>1, <1>2, <3>1, ObjectAssumption
    <3> QED BY <3>2 DEF Slotted
  <2> QED BY <2>1, <2>2, <2>3, TableKept
<1>7. IndexUnambiguous'
  <2>1. \A k \in table' \cap Keypairs : keypair'[k].refcnt > 0
    <3>1. \A k \in Keypairs : k \in table' => \E q \in Remotes : k \in InSlots(slots'[q])
      BY <1>1, <1>2, Linked, ObjectAssumption DEF Slotted
    <3> QED BY <1>1, <3>1 DEF SlotsSound
  <2>2. table' \subseteq Remotes \cup Keypairs
    BY DEF TypeOK
  <2>3. \A o \in table' \ N : o \in table /\ IndexOf(o)' = IndexOf(o)
    BY <1>1, <1>2, <1>3, <1>5, <2>1, <2>2, ObjectAssumption DEF IndexOf
  <2>4. ASSUME NEW k \in N
        PROVE  /\ N = {k} /\ IndexOf(k)' = IndexOf(r) /\ r \in table /\ r \notin table'
    BY <1>2, ObjectAssumption DEF IndexOf
  <2>5. \A o, p \in table : IndexOf(o) = IndexOf(p) => o = p
    BY DEF IInv, IndexUnambiguous, Walkable
  <2>6. ASSUME NEW o \in table', NEW p \in table', IndexOf(o)' = IndexOf(p)'
        PROVE  o = p
    <3>1. CASE o \in N /\ p \in N
      BY <2>4, <3>1
    <3>2. CASE o \in N /\ p \notin N
      BY <2>3, <2>4, <2>5, <2>6, <3>2
    <3>3. CASE o \notin N /\ p \in N
      BY <2>3, <2>4, <2>5, <2>6, <3>3
    <3>4. CASE o \notin N /\ p \notin N
      BY <2>3, <2>5, <2>6, <3>4
    <3> QED BY <3>1, <3>2, <3>3, <3>4
  <2> QED BY <2>6 DEF IndexUnambiguous
<1>8. RemoteRefs'
  BY <1>1, <1>3 DEF IInv, RemoteRefs
<1>9. FreedIsClean'
  BY <1>2, <1>3 DEF IInv, FreedIsClean
<1>10. Ownership'
  <2>1. \A k \in Keypairs : keypair'[k].refcnt > 0 => keypair'[k].remote \in Remotes
    BY <1>1, <1>2 DEF IInv, Ownership
  <2>2. \A q \in Remotes : remote'[q].refcnt = 0 =>
            remote'[q].state = "DEAD" /\ ~remote'[q].enabled
    BY <1>3 DEF IInv, Ownership
  <2> QED BY <2>1, <2>2 DEF Ownership
<1> QED BY <1>1, <1>6, <1>7, <1>8, <1>9, <1>10 DEF IInv

\* noise_remote_keypairs_clear is such a rotation.
LEMMA KeypairsClearStep ==
    ASSUME IInv, Walkable, NEW r \in Remotes, KeypairsClear(r) PROVE IInv'
<1> DEFINE D == InSlots(slots[r])
           c == Cardinality(FreedBy(D))
           m == IF handling = r THEN 1 ELSE 0
           rec == ReleaseRemote(remote[r], c)
<1>1. /\ r \in owned
      /\ slots' = [slots EXCEPT ![r] = EmptySlots] /\ table' = table \ D
      /\ keypair' = ReleaseKeypairs(D)
      /\ remote' = [remote EXCEPT ![r] = rec]
      /\ UNCHANGED <<now, locals, creator, readers, handler>>
  BY DEF KeypairsClear, IInv, TypeOK
<1>2. OwnedBy(D, r)
  BY Referenced DEF OwnedBy
<1>3. EmptySlots \in SlotsType /\ InSlots(EmptySlots) = {} /\ Distinct(EmptySlots)
  BY NoSlots DEF SlotsType
<1>4. Rotation(r, EmptySlots, D, {})
  BY <1>1, <1>3 DEF Rotation
<1> HIDE DEF D
<1>5. /\ c \in Nat /\ Cardinality(LiveOf(r)) \in Nat /\ c <= Cardinality(LiveOf(r))
      /\ Cardinality(LiveOf(r) \ FreedBy(D)) = Cardinality(LiveOf(r)) - c
  BY <1>2, ReleasedCount
<1>6. keypair' \in [Keypairs -> KeypairType]
  BY <1>1, <1>2, ReleasedPool
<1> HIDE DEF c
<1>7. /\ remote[r] \in RemoteType /\ remote[r].refcnt = Cardinality(LiveOf(r)) + 1 + m
      /\ m \in Nat
  BY <1>1 DEF IInv, TypeOK, RemoteRefs
<1>8. /\ rec \in RemoteType /\ rec.refcnt = remote[r].refcnt - c
      /\ rec.state = remote[r].state /\ rec.idx = remote[r].idx
      /\ rec.enabled = remote[r].enabled
  <2> HIDE DEF m
  <2>1. remote[r].refcnt > c
    BY <1>5, <1>7
  <2> QED BY <1>5, <1>7, <2>1, RemoteReleased
<1> HIDE DEF rec
<1>9. LiveOf(r)' = LiveOf(r) \ FreedBy(D)
  BY <1>4, Rotated
<1>10. /\ rec.refcnt = Cardinality(LiveOf(r)') + 1 + m
       /\ rec.refcnt > 0 /\ remote[r].refcnt > 0
  <2> HIDE DEF m
  <2> QED BY <1>5, <1>7, <1>8, <1>9
<1>11. LocalRefs' /\ lRef' \in Nat
  <2>1. lRef' = lRef + (IF rec.refcnt = 0 THEN 0 ELSE 1)
                     - (IF remote[r].refcnt = 0 THEN 0 ELSE 1)
    BY <1>1, <1>10 DEF IInv, TypeOK
  <2> QED BY <1>1, <1>8, <2>1, LocalKept
<1>12. TypeOK'
  BY <1>1, <1>3, <1>6, <1>8 DEF IInv, TypeOK
<1>13. rec.refcnt = Cardinality(LiveOf(r)') + (IF r \in owned' THEN 1 ELSE 0)
                         + (IF handling' = r THEN 1 ELSE 0)
  BY <1>1, <1>10
<1>14. table' = (table \ (D \cup (IF rec.state = "DEAD" THEN {r} ELSE {}))) \cup {}
  BY <1>1, <1>8, Linked
<1>15. /\ rec.refcnt # 0 /\ consuming' => handling' # NULL
  BY <1>1, <1>10 DEF IInv, Ownership
<1>16. StepRotates(r, EmptySlots, D, {}, rec)
  BY <1>1, <1>4, <1>8, <1>10, <1>11, <1>12, <1>13, <1>14, <1>15 DEF StepRotates, IInv, Ownership
<1> QED BY <1>16, RotationStep

\* noise_remote_free: the remote lives on exactly as long as keypairs that users
\* hold, or the handshake handler, refer to it, and takes the local with it.
LEMMA RemoteFreeStep ==
    ASSUME IInv, Walkable, NEW r \in Remotes, RemoteFree(r) PROVE IInv'
<1> DEFINE D == InSlots(slots[r])
           c == Cardinality(FreedBy(D))
           m == IF handling = r THEN 1 ELSE 0
           off == [HandshakeCleared(remote[r]) EXCEPT !.enabled = FALSE]
           rec == ReleaseRemote(off, c + 1)
<1>1. /\ r \in owned /\ owned' = owned \ {r}
      /\ slots' = [slots EXCEPT ![r] = EmptySlots] /\ table' = table \ ({r} \cup D)
      /\ keypair' = ReleaseKeypairs(D)
      /\ remote' = [remote EXCEPT ![r] = rec]
      /\ lRef' = LocalAfter(rec)
      /\ UNCHANGED <<now, identity, hasId, lOwned, unclean, destroyed, readers, handler>>
  BY DEF RemoteFree
<1>2. OwnedBy(D, r)
  BY Referenced DEF OwnedBy
<1>3. EmptySlots \in SlotsType /\ InSlots(EmptySlots) = {} /\ Distinct(EmptySlots)
  BY NoSlots DEF SlotsType
<1>4. Rotation(r, EmptySlots, D, {})
  BY <1>1, <1>3 DEF Rotation
<1> HIDE DEF D
<1>5. /\ c \in Nat /\ Cardinality(LiveOf(r)) \in Nat /\ c <= Cardinality(LiveOf(r))
      /\ Cardinality(LiveOf(r) \ FreedBy(D)) = Cardinality(LiveOf(r)) - c
  BY <1>2, ReleasedCount
<1>6. keypair' \in [Keypairs -> KeypairType]
  BY <1>1, <1>2, ReleasedPool
<1> HIDE DEF c
<1>7. /\ remote[r] \in RemoteType /\ remote[r].refcnt = Cardinality(LiveOf(r)) + 1 + m
      /\ m \in Nat
  BY <1>1 DEF IInv, TypeOK, RemoteRefs
<1>8. /\ off \in RemoteType /\ off.refcnt = remote[r].refcnt
      /\ off.state = "DEAD" /\ off.enabled = FALSE
  <2>1. /\ HandshakeCleared(remote[r]) \in RemoteType
        /\ HandshakeCleared(remote[r]).refcnt = remote[r].refcnt
        /\ HandshakeCleared(remote[r]).state = "DEAD"
    BY <1>7, RecordTypes
  <2> QED BY <2>1 DEF RemoteType
<1> HIDE DEF off, m
<1>9. /\ rec \in RemoteType /\ rec.state = "DEAD" /\ rec.enabled = FALSE
      /\ rec.refcnt = Cardinality(LiveOf(r)) + m - c
  <2>0. c + 1 \in Nat
    BY <1>5
  <2>1. CASE off.refcnt <= c + 1
    <3>1. rec \in RemoteType /\ rec.state = "DEAD" /\ rec.enabled = FALSE /\ rec.refcnt = 0
      BY <1>8, <2>0, <2>1, RemoteReleased
    <3> HIDE DEF rec
    <3> QED BY <1>5, <1>7, <1>8, <2>1, <3>1
  <2>2. CASE off.refcnt > c + 1
    <3>1. /\ rec \in RemoteType /\ rec.state = off.state /\ rec.enabled = off.enabled
          /\ rec.refcnt = off.refcnt - (c + 1)
      BY <1>8, <2>0, <2>2, RemoteReleased
    <3> HIDE DEF rec
    <3> QED BY <1>5, <1>7, <1>8, <3>1
  <2>3. off.refcnt <= c + 1 \/ off.refcnt > c + 1
    BY <1>5, <1>7, <1>8
  <2> HIDE DEF rec
  <2> QED BY <2>1, <2>2, <2>3
<1> HIDE DEF rec
<1>10. LiveOf(r)' = LiveOf(r) \ FreedBy(D)
  BY <1>4, Rotated
<1>11. /\ rec.refcnt = Cardinality(LiveOf(r)') + m /\ remote[r].refcnt > 0
       /\ Cardinality(LiveOf(r)') \in Nat
  BY <1>5, <1>7, <1>9, <1>10
<1>12. lRef' \in Nat /\ LocalRefs'
  <2>1. lRef \in Nat /\ remote[r].refcnt # 0
    BY <1>7, <1>11 DEF IInv, TypeOK
  <2>2. lRef' = lRef + (IF rec.refcnt = 0 THEN 0 ELSE 1)
                     - (IF remote[r].refcnt = 0 THEN 0 ELSE 1)
    BY <1>1, <2>1 DEF LocalAfter
  <2> QED BY <1>1, <1>9, <2>2, LocalKept
<1>13. TypeOK'
  BY <1>1, <1>3, <1>6, <1>9, <1>12 DEF IInv, TypeOK
<1>14. StepRotates(r, EmptySlots, D, {}, rec)
  <2>1. r \notin owned' /\ handling' = handling
    BY <1>1
  <2>2. rec.refcnt = Cardinality(LiveOf(r)') + (IF r \in owned' THEN 1 ELSE 0)
                         + (IF handling' = r THEN 1 ELSE 0)
    BY <1>11, <2>1 DEF m
  <2>3. table' = (table \ (D \cup (IF rec.state = "DEAD" THEN {r} ELSE {}))) \cup {}
    BY <1>1, <1>9
  <2>4. \A q \in Remotes : q # r => (q \in owned' <=> q \in owned)
    BY <1>1
  <2>5. consuming' => handling' # NULL
    BY <1>1 DEF IInv, Ownership
  <2> QED BY <1>1, <1>4, <1>9, <1>12, <1>13, <2>2, <2>3, <2>4, <2>5 DEF StepRotates
<1> QED BY <1>14, RotationStep

\* noise_begin_session: the new keypair inherits the index of the handshake and
\* takes its place in the table; what leaves the slots is unlinked and put.
LEMMA BeginSessionStep ==
    ASSUME IInv, Walkable, NEW r \in Remotes, NEW k \in Keypairs,
           remote[r].state # "DEAD", NEW refs \in {0, 1}, BeginSession(r, k, refs),
           IF refs = 0 THEN handling' = handling ELSE handling = NULL /\ handling' = r
    PROVE  IInv'
<1> DEFINE initiator == remote[r].state = "INITIATOR"
           D == DroppedByAdd(slots[r], initiator)
           s == AddKeypair(slots[r], k, initiator)
           c == Cardinality(FreedBy(D))
           m == (IF r \in owned THEN 1 ELSE 0) + (IF handling = r THEN 1 ELSE 0)
           sent == IF initiator THEN remote[r].lastSent ELSE now
           left == remote[r].refcnt + 1 + refs - c
           fresh == [refcnt |-> 1, remote |-> r, idx |-> remote[r].idx,
                     initiator |-> initiator, canSend |-> TRUE, birth |-> now,
                     nonce |-> 0, epoch |-> identity, heard |-> FALSE]
           rec == [remote[r] EXCEPT !.refcnt = left, !.state = "DEAD", !.idx = NULL,
                                    !.lastSent = sent]
<1>1. /\ keypair[k].refcnt = 0
      /\ slots' = [slots EXCEPT ![r] = s]
      /\ keypair' = [ReleaseKeypairs(D) EXCEPT ![k] = fresh]
      /\ table' = (table \ (D \cup {r})) \cup {k}
      /\ remote' = [remote EXCEPT ![r] = rec]
      /\ unclean' = Late(r)
      /\ UNCHANGED <<now, locals, owned, destroyed, readers, consuming>>
  BY DEF BeginSession, IInv, TypeOK
<1>2. /\ remote[r] \in RemoteType /\ remote[r].refcnt = Cardinality(LiveOf(r)) + m
      /\ m \in Nat /\ remote[r].refcnt > 0
      /\ slots[r] \in [SlotNames -> Keypairs \cup {NULL}] /\ Distinct(slots[r])
      /\ now \in Nat /\ identity \in Nat /\ initiator \in BOOLEAN
  <2>1. remote[r].refcnt = Cardinality(LiveOf(r)) + m
    BY Counts DEF IInv, RemoteRefs
  <2> QED BY <2>1, RemoteHeld DEF IInv, TypeOK, SlotsType, SlotsSound, Distinct
<1>3. k # NULL /\ k \notin InSlots(slots[r])
  BY <1>1, Referenced, ObjectAssumption
<1> HIDE DEF initiator, m
<1>4. /\ s \in SlotsType /\ Distinct(s) /\ D \subseteq InSlots(slots[r])
      /\ InSlots(s) = (InSlots(slots[r]) \ D) \cup {k}
  BY <1>2, <1>3, AddSlots DEF SlotsType
<1>5. OwnedBy(D, r)
  BY <1>4, Referenced DEF OwnedBy
<1>6. /\ fresh \in KeypairType /\ fresh.refcnt = 1 /\ fresh.remote = r
      /\ fresh.idx = remote[r].idx
  BY <1>2 DEF KeypairType, RemoteType
<1> HIDE DEF fresh, D, s
<1>7. ReleaseKeypairs(D) \in [Keypairs -> KeypairType]
  BY <1>5, ReleasedPool
<1>8. /\ keypair' \in [Keypairs -> KeypairType] /\ keypair'[k] = fresh
      /\ \A j \in Keypairs : j # k => keypair'[j] = ReleaseKeypairs(D)[j]
  BY <1>1, <1>6, <1>7
<1>9. Rotation(r, s, D, {k})
  BY <1>1, <1>4, <1>6, <1>8 DEF Rotation
<1>10. /\ c \in Nat /\ Cardinality(LiveOf(r)) \in Nat /\ c <= Cardinality(LiveOf(r))
       /\ Cardinality(LiveOf(r) \ FreedBy(D)) = Cardinality(LiveOf(r)) - c
  BY <1>5, ReleasedCount
<1> HIDE DEF c
<1>11. /\ left \in Nat /\ left > 0
       /\ left = Cardinality(LiveOf(r)) - c + 1 + (m + refs)
  BY <1>2, <1>10
<1>12. sent \in Int
  BY <1>2 DEF RemoteType
<1> HIDE DEF left, sent
<1>13. /\ rec \in RemoteType /\ rec.refcnt = left /\ rec.state = "DEAD"
       /\ rec.enabled = remote[r].enabled
  BY <1>2, <1>11, <1>12 DEF RemoteType, States
<1> HIDE DEF rec
<1>14. /\ Cardinality(LiveOf(r)') = Cardinality(LiveOf(r)) - c + 1
       /\ Cardinality(LiveOf(r)') \in Nat
  <2>1. LiveOf(r)' = (LiveOf(r) \ FreedBy(D)) \cup {k} /\ k \notin LiveOf(r)
    BY <1>9, Rotated
  <2>2. IsFiniteSet(LiveOf(r) \ FreedBy(D))
    BY Counts, FS_Difference DEF IInv
  <2>3. Cardinality(LiveOf(r)') = Cardinality(LiveOf(r)) - c + 1
    BY <1>10, <2>1, <2>2, FS_AddElement
  <2> QED BY <1>10, <2>3
<1>15. m + refs = (IF r \in owned' THEN 1 ELSE 0) + (IF handling' = r THEN 1 ELSE 0)
  BY <1>1, ObjectAssumption DEF m
<1>16. /\ unclean' = unclean \/ unclean' = unclean \cup {r}
       /\ r \in owned' \cup unclean'
  BY <1>1 DEF Late
<1>17. LocalRefs' /\ lRef' \in Nat
  <2>1. lRef' = lRef + (IF rec.refcnt = 0 THEN 0 ELSE 1)
                     - (IF remote[r].refcnt = 0 THEN 0 ELSE 1)
    BY <1>1, <1>2, <1>11, <1>13 DEF IInv, TypeOK
  <2> QED BY <1>1, <1>13, <2>1, LocalKept
<1>18. TypeOK'
  <2>1. handling' \in Remotes \cup {NULL}
    BY DEF IInv, TypeOK
  <2> QED BY <1>1, <1>4, <1>8, <1>13, <1>16, <2>1 DEF IInv, TypeOK
<1>19. StepRotates(r, s, D, {k}, rec)
  <2>1. rec.refcnt = Cardinality(LiveOf(r)') + (IF r \in owned' THEN 1 ELSE 0)
                         + (IF handling' = r THEN 1 ELSE 0)
    <3>1. rec.refcnt = Cardinality(LiveOf(r)') + (m + refs)
      BY <1>11, <1>13, <1>14
    <3> QED BY <1>14, <1>15, <3>1
  <2>2. table' = (table \ (D \cup (IF rec.state = "DEAD" THEN {r} ELSE {}))) \cup {k}
    BY <1>1, <1>13
  <2>3. \A j \in {k} : /\ {k} = {j} /\ r \in table /\ rec.state = "DEAD"
                        /\ keypair'[j].idx = remote[r].idx
    BY <1>6, <1>8, <1>13, Linked
  <2>4. \A q \in Remotes : q # r => /\ q \in owned' <=> q \in owned
                                    /\ q \in unclean' <=> q \in unclean
                                    /\ handling' = q <=> handling = q
    BY <1>1, <1>16, ObjectAssumption
  <2>5. rec.refcnt # 0 /\ (consuming' => handling' # NULL)
    BY <1>1, <1>11, <1>13, ObjectAssumption DEF IInv, Ownership
  <2> QED BY <1>1, <1>9, <1>13, <1>16, <1>17, <1>18, <2>1, <2>2, <2>3, <2>4, <2>5
          DEF StepRotates
<1> QED BY <1>19, RotationStep

\* noise_create_response, by noise_begin_session.
LEMMA CreateResponseStep ==
    ASSUME IInv, Walkable, NEW k \in Keypairs, CreateResponse(k) PROVE IInv'
<1>1. PICK r : r = handling
  OBVIOUS
<1>2. r \in Remotes /\ remote[r].state # "DEAD" /\ BeginSession(r, k, 0) /\ handling' = handling
  BY <1>1 DEF CreateResponse, IInv, TypeOK
<1> QED BY <1>2, BeginSessionStep

\* noise_consume_response, by noise_begin_session, which leaves the caller a
\* reference.
LEMMA ConsumeResponseStep ==
    ASSUME IInv, Walkable, NEW i \in Indices, NEW k \in Keypairs, ConsumeResponse(i, k)
    PROVE  IInv'
<1>1. PICK r \in Remotes : /\ remote[r].state = "INITIATOR" /\ BeginSession(r, k, 1)
                           /\ handling = NULL /\ handling' = r
  BY Zenon DEF ConsumeResponse
<1> QED BY <1>1, BeginSessionStep

\* noise_keypair_received_with: promotion drops r_previous and nothing else.
LEMMA ReceivedWithStep ==
    ASSUME IInv, Walkable, NEW u \in Users, ReceivedWith(u) PROVE IInv'
<1>0. PICK k, r : k = held[u] /\ r = keypair[k].remote
  OBVIOUS
<1> DEFINE D == DroppedByPromote(slots[r])
           s == Promote(slots[r])
           c == Cardinality(FreedBy(D))
           m == (IF r \in owned THEN 1 ELSE 0) + (IF handling = r THEN 1 ELSE 0)
           refs == remote[r].refcnt - c
           rec == [remote[r] EXCEPT !.refcnt = refs]
<1>1. /\ k \in Keypairs /\ r \in Remotes /\ keypair[k].refcnt > 0
      /\ keypair[k] \in KeypairType /\ keypair \in [Keypairs -> KeypairType]
      /\ UNCHANGED <<now, locals, creator, readers, handler>>
  BY <1>0, Referenced DEF ReceivedWith, IInv, TypeOK
<1>2. ASSUME NEW rec0 \in KeypairType
      PROVE  /\ Heard(rec0) \in KeypairType /\ Heard(rec0).refcnt = rec0.refcnt
             /\ Heard(rec0).remote = rec0.remote /\ Heard(rec0).idx = rec0.idx
  BY DEF Heard, KeypairType
<1>3. CASE /\ keypair' = [keypair EXCEPT ![k] = Heard(@)]
           /\ UNCHANGED <<slots, table, remote>>
  <2>1. keypair' \in [Keypairs -> KeypairType]
    BY <1>1, <1>2, <1>3
  <2>2. \A j \in Keypairs : /\ keypair'[j].refcnt = keypair[j].refcnt
                             /\ keypair'[j].remote = keypair[j].remote
                             /\ keypair'[j].idx = keypair[j].idx
    BY <1>1, <1>2, <1>3
  <2>3. TypeOK'
    BY <1>1, <1>3, <2>1 DEF IInv, TypeOK
  <2> QED BY <1>1, <1>3, <2>2, <2>3, KeypairStep
<1>4. CASE /\ slots[r]["next"] = k
           /\ slots' = [slots EXCEPT ![r] = s]
           /\ table' = table \ D
           /\ keypair' = [ReleaseKeypairs(D) EXCEPT ![k] = Heard(@)]
           /\ remote' = [remote EXCEPT ![r] = rec]
  <2>1. slots[r] \in [SlotNames -> Keypairs \cup {NULL}] /\ Distinct(slots[r])
    BY <1>1 DEF IInv, TypeOK, SlotsType, SlotsSound, Distinct
  <2>2. /\ s \in SlotsType /\ Distinct(s) /\ D \subseteq InSlots(slots[r])
        /\ InSlots(s) = InSlots(slots[r]) \ D
    BY <2>1, PromoteSlots DEF SlotsType
  <2>3. OwnedBy(D, r)
    BY <1>1, <2>2, Referenced DEF OwnedBy
  <2> HIDE DEF D, s
  <2>4. ReleaseKeypairs(D) \in [Keypairs -> KeypairType]
    BY <1>1, <2>3, ReleasedPool
  <2>5. /\ keypair' \in [Keypairs -> KeypairType]
        /\ \A j \in Keypairs : /\ keypair'[j].refcnt = ReleaseKeypairs(D)[j].refcnt
                                /\ keypair'[j].remote = ReleaseKeypairs(D)[j].remote
                                /\ keypair'[j].idx = ReleaseKeypairs(D)[j].idx
    BY <1>1, <1>2, <1>4, <2>4
  <2>6. Rotation(r, s, D, {})
    BY <1>1, <1>4, <2>2, <2>5 DEF Rotation
  <2>7. /\ c \in Nat /\ Cardinality(LiveOf(r)) \in Nat /\ c <= Cardinality(LiveOf(r))
        /\ Cardinality(LiveOf(r) \ FreedBy(D)) = Cardinality(LiveOf(r)) - c
    BY <1>1, <2>3, ReleasedCount
  <2>8. LiveOf(r)' = LiveOf(r) \ FreedBy(D) /\ k \in LiveOf(r)'
    <3>1. LiveOf(r)' = LiveOf(r) \ FreedBy(D)
      BY <2>6, Rotated
    <3>2. k \in LiveOf(r) /\ k \notin FreedBy(D)
      <4>1. k \in LiveOf(r)
        BY <1>0, <1>1, SMTT(30) DEF LiveOf
      <4>2. k \in D => keypair[k].refcnt # 1
        BY <1>0, <1>1, <2>2, Referenced DEF ReceivedWith
      <4> QED BY <4>1, <4>2 DEF FreedBy
    <3> QED BY <3>1, <3>2
  <2>9. c < Cardinality(LiveOf(r))
    <3>1. LiveOf(r) \ FreedBy(D) # {}
      BY <2>8
    <3>2. IsFiniteSet(LiveOf(r) \ FreedBy(D))
      BY Counts, FS_Difference DEF IInv
    <3>3. Cardinality(LiveOf(r) \ FreedBy(D)) # 0
      BY <3>1, <3>2, FS_EmptySet
    <3> QED BY <2>7, <3>3
  <2> HIDE DEF c
  <2>10. /\ remote[r] \in RemoteType /\ remote[r].refcnt = Cardinality(LiveOf(r)) + m
         /\ m \in Nat
    BY <1>1, Counts DEF IInv, TypeOK, RemoteRefs
  <2> HIDE DEF m
  <2>11. /\ refs \in Nat /\ refs > 0 /\ remote[r].refcnt > 0
         /\ refs = Cardinality(LiveOf(r)') + m /\ Cardinality(LiveOf(r)') \in Nat
    BY <2>7, <2>8, <2>9, <2>10
  <2> HIDE DEF refs
  <2>12. /\ rec \in RemoteType /\ rec.refcnt = refs /\ rec.state = remote[r].state
         /\ rec.idx = remote[r].idx /\ rec.enabled = remote[r].enabled
    BY <2>10, <2>11 DEF RemoteType
  <2> HIDE DEF rec
  <2>13. TypeOK'
    BY <1>1, <1>4, <2>2, <2>5, <2>12 DEF IInv, TypeOK
  <2>14. LocalRefs'
    <3>1. lRef' = lRef + (IF rec.refcnt = 0 THEN 0 ELSE 1)
                       - (IF remote[r].refcnt = 0 THEN 0 ELSE 1)
      BY <1>1, <2>11, <2>12 DEF IInv, TypeOK
    <3> QED BY <1>1, <1>4, <2>12, <3>1, LocalKept
  <2>15. StepRotates(r, s, D, {}, rec)
    <3>1. rec.refcnt = Cardinality(LiveOf(r)') + (IF r \in owned' THEN 1 ELSE 0)
                           + (IF handling' = r THEN 1 ELSE 0)
      <4>1. m = (IF r \in owned' THEN 1 ELSE 0) + (IF handling' = r THEN 1 ELSE 0)
        BY <1>1 DEF m
      <4> QED BY <2>11, <2>12, <4>1
    <3>2. table' = (table \ (D \cup (IF rec.state = "DEAD" THEN {r} ELSE {}))) \cup {}
      BY <1>1, <1>4, <2>12, Linked
    <3>3. r \in owned' \cup unclean'
      <4>1. slots[r] # EmptySlots
        BY <1>1, <1>4, ObjectAssumption DEF EmptySlots, SlotNames
      <4> QED BY <1>1, <4>1 DEF IInv, FreedIsClean
    <3>4. rec.refcnt # 0 /\ (consuming' => handling' # NULL)
      BY <1>1, <2>11, <2>12 DEF IInv, Ownership
    <3> QED BY <1>1, <1>4, <2>6, <2>11, <2>12, <2>13, <2>14, <3>1, <3>2, <3>3, <3>4
            DEF StepRotates
  <2> QED BY <2>15, RotationStep
<1> QED BY <1>0, <1>1, <1>3, <1>4 DEF ReceivedWith

\* noise_keypair_put: the last reference frees a keypair no slot points to.
LEMMA KeypairPutStep ==
    ASSUME IInv, Walkable, NEW u \in Users, KeypairPut(u) PROVE IInv'
<1>0. PICK k, r : k = held[u] /\ r = keypair[k].remote
  OBVIOUS
<1> DEFINE D == {k}
           m == (IF r \in owned THEN 1 ELSE 0) + (IF handling = r THEN 1 ELSE 0)
           rec == ReleaseRemote(remote[r], 1)
<1>1. /\ k \in Keypairs /\ k # NULL /\ r \in Remotes /\ keypair[k].refcnt > 0
      /\ keypair[k].refcnt = 1 =>
            Holders(k) = {u} /\ \A q \in Remotes : k \notin InSlots(slots[q])
  BY <1>0, Referenced DEF KeypairPut
<1>2. /\ held \in [Users -> Keypairs \cup {NULL}] /\ keypair[k] \in KeypairType
      /\ held' = [held EXCEPT ![u] = NULL]
      /\ keypair' = ReleaseKeypairs(D)
      /\ IF keypair[k].refcnt = 1
         THEN remote' = [remote EXCEPT ![r] = rec] /\ lRef' = LocalAfter(rec)
         ELSE UNCHANGED <<remote, lRef>>
      /\ UNCHANGED <<now, identity, hasId, lOwned, slots, table, creator, loaded,
                     handler>>
  BY <1>0, <1>1 DEF KeypairPut, PutRemote, IInv, TypeOK
<1>3. OwnedBy(D, r)
  BY <1>0, <1>1 DEF OwnedBy
<1> HIDE DEF D, rec, m
<1>4. /\ keypair' \in [Keypairs -> KeypairType]
      /\ \A j \in Keypairs :
            /\ keypair'[j].refcnt = IF j = k THEN keypair[j].refcnt - 1 ELSE keypair[j].refcnt
            /\ keypair'[j].refcnt > 0 =>
                  keypair'[j].remote = keypair[j].remote /\ keypair'[j].idx = keypair[j].idx
  <2>1. ReleaseKeypairs(D) \in [Keypairs -> KeypairType]
    BY <1>1, <1>3, ReleasedPool
  <2>2. \A j \in Keypairs :
          /\ ReleaseKeypairs(D)[j].refcnt =
                IF j \in D THEN keypair[j].refcnt - 1 ELSE keypair[j].refcnt
          /\ ReleaseKeypairs(D)[j].refcnt > 0 =>
                /\ ReleaseKeypairs(D)[j].remote = keypair[j].remote
                /\ ReleaseKeypairs(D)[j].idx = keypair[j].idx
    BY <1>1, <1>3, ReleasedPool
  <2> QED BY <1>2, <2>1, <2>2 DEF D
\* A keypair in a slot keeps its slot's reference.
<1>5. \A q \in Remotes : \A j \in InSlots(slots[q]) :
         /\ j \in Keypairs /\ keypair'[j].refcnt > 0 /\ keypair'[j].remote = q
         /\ keypair'[j].idx = keypair[j].idx
  <2>1. ASSUME NEW q \in Remotes, NEW j \in InSlots(slots[q])
        PROVE  /\ j \in Keypairs /\ keypair'[j].refcnt > 0 /\ keypair'[j].remote = q
               /\ keypair'[j].idx = keypair[j].idx
    <3>1. /\ j \in Keypairs /\ keypair[j].refcnt > 0 /\ keypair[j].remote = q
          /\ j = k => keypair[j].refcnt # 1
      BY <1>1, Referenced
    <3>2. keypair[j].refcnt \in Nat
      BY <3>1 DEF IInv, TypeOK, KeypairType
    <3>3. keypair'[j].refcnt > 0
      BY <1>4, <3>1, <3>2
    <3> QED BY <1>4, <3>1, <3>3
  <2> QED BY <2>1
<1>6. SlotsSound'
  BY <1>2, <1>5 DEF IInv, SlotsSound
<1>7. KeypairRefs'
  <2>1. /\ Holders(k)' = Holders(k) \ {u} /\ u \in Holders(k)
        /\ \A j \in Keypairs : j # k => Holders(j)' = Holders(j)
    BY <1>0, <1>1, <1>2, ObjectAssumption DEF Holders
  <2>2. /\ Cardinality(Holders(k)) \in Nat
        /\ Cardinality(Holders(k) \ {u}) = Cardinality(Holders(k)) - 1
    BY <2>1, Counts, FS_RemoveElement DEF IInv
  <2>3. ASSUME NEW j \in Keypairs
        PROVE  (keypair[j].refcnt = Cardinality(Holders(j))
                  + (IF \E q \in Remotes : j \in InSlots(slots[q]) THEN 1 ELSE 0))'
    <3>1. keypair[j].refcnt = Cardinality(Holders(j))
                + (IF \E q \in Remotes : j \in InSlots(slots[q]) THEN 1 ELSE 0)
      BY DEF IInv, KeypairRefs
    <3>2. CASE j = k
      <4>1. keypair'[j].refcnt = keypair[j].refcnt - 1
        BY <3>2, <1>4
      <4>2. Cardinality(Holders(j)') = Cardinality(Holders(j)) - 1
        BY <3>2, <2>1, <2>2
      <4>3. Cardinality(Holders(j)) \in Nat
        BY <3>2, <2>2
      <4> QED BY <3>1, <4>1, <4>2, <4>3, <1>2
    <3>3. CASE j # k
      BY <3>1, <3>3, <1>2, <1>4, <2>1
    <3> QED BY <3>2, <3>3
  <2> QED BY <2>3 DEF KeypairRefs
<1>8. \A q \in Remotes : LiveOf(q)' = LiveOf(q) \ FreedBy(D)
  BY <1>1, <1>2, <1>3, ReleasedLive DEF LiveOf
<1>9. \A q \in Remotes : q # r => LiveOf(q)' = LiveOf(q)
  <2>1. ASSUME NEW q \in Remotes, q # r PROVE LiveOf(q) \ FreedBy(D) = LiveOf(q)
    BY <1>1, <1>3, <2>1, ReleasedLive
  <2> QED BY <1>8, <2>1
<1>10. CASE keypair[k].refcnt = 1
  <2>1. /\ Cardinality(LiveOf(r)) \in Nat /\ Cardinality(LiveOf(r)) > 0
        /\ Cardinality(LiveOf(r)') = Cardinality(LiveOf(r)) - 1
    <3>1. FreedBy(D) = {k}
      BY <1>10 DEF FreedBy, D
    <3>2. LiveOf(r)' = LiveOf(r) \ {k} /\ k \in LiveOf(r)
      BY <1>0, <1>1, <1>8, <3>1 DEF LiveOf
    <3>3. IsFiniteSet(LiveOf(r)) /\ Cardinality(LiveOf(r)) \in Nat
      BY Counts DEF IInv
    <3>4. Cardinality(LiveOf(r)) # 0
      BY <3>2, <3>3, FS_EmptySet
    <3>5. Cardinality(LiveOf(r) \ {k}) = Cardinality(LiveOf(r)) - 1
      BY <3>2, <3>3, FS_RemoveElement
    <3>6. Cardinality(LiveOf(r)') = Cardinality(LiveOf(r) \ {k})
      BY <3>2
    <3> QED BY <3>3, <3>4, <3>5, <3>6
  <2>2. /\ remote[r] \in RemoteType /\ remote[r].refcnt = Cardinality(LiveOf(r)) + m
        /\ m \in Nat
    BY <1>1, <2>1 DEF IInv, TypeOK, RemoteRefs, m
  <2>3. remote[r].refcnt > 0 /\ remote[r].refcnt \in Nat
    BY <2>1, <2>2
  <2>4. /\ rec \in RemoteType
        /\ remote[r].refcnt = 1 =>
              rec.refcnt = 0 /\ rec.state = "DEAD" /\ rec.enabled = FALSE
        /\ remote[r].refcnt # 1 =>
              /\ rec.refcnt = remote[r].refcnt - 1 /\ rec.refcnt > 0
              /\ rec.state = remote[r].state /\ rec.idx = remote[r].idx
              /\ rec.enabled = remote[r].enabled
    BY <2>2, <2>3, OnePut DEF rec
  <2>5. rec.refcnt = remote[r].refcnt - 1 /\ rec.refcnt = Cardinality(LiveOf(r)') + m
    BY <2>1, <2>2, <2>3, <2>4
  <2>6. /\ remote' = [remote EXCEPT ![r] = rec] /\ lRef' = LocalAfter(rec)
        /\ remote'[r] = rec /\ \A q \in Remotes : q # r => remote'[q] = remote[q]
    BY <1>1, <1>2, <1>10 DEF IInv, TypeOK
  <2>7. lRef' \in Nat /\ LocalRefs'
    <3>1. lRef \in Nat /\ remote[r].refcnt # 0
      BY <2>3 DEF IInv, TypeOK
    <3>2. lRef' = lRef + (IF rec.refcnt = 0 THEN 0 ELSE 1)
                       - (IF remote[r].refcnt = 0 THEN 0 ELSE 1)
      BY <2>6, <3>1 DEF LocalAfter
    <3> QED BY <1>1, <1>2, <2>4, <2>6, <3>2, LocalKept
  <2>8. TypeOK'
    BY <1>2, <1>4, <2>4, <2>6, <2>7 DEF IInv, TypeOK
  <2>9. RemoteRefs'
    <3>1. rec.refcnt = Cardinality(LiveOf(r)') + (IF r \in owned' THEN 1 ELSE 0)
                           + (IF handling' = r THEN 1 ELSE 0)
      BY <1>2, <2>1, <2>5 DEF m
    <3> QED BY <1>2, <1>9, <2>6, <3>1 DEF IInv, RemoteRefs
\* A remote freed with a handshake is one that was let go without a clear.
  <2>10. r \in table /\ rec.state = "DEAD" => r \in unclean /\ rec.refcnt = 0
    <3>1. r \in table => remote[r].state # "DEAD"
      BY <1>1, Linked
    <3>2. remote[r].refcnt = 1 => r \notin owned
      BY <2>1, <2>2 DEF m
    <3> QED BY <1>1, <2>4, <3>1, <3>2 DEF IInv, FreedIsClean
  <2>11. IndexTableExact'
    <3>1. \A q \in Remotes : remote'[q].state # "DEAD" =>
              q \in table' /\ remote'[q].refcnt > 0
      <4>1. \A q \in Remotes : q # r /\ remote'[q].state # "DEAD" =>
                q \in table' /\ remote'[q].refcnt > 0
        BY <1>2, <2>6, Linked, RemoteHeld
      <4>2. rec.state # "DEAD" => r \in table' /\ rec.refcnt > 0
        BY <1>1, <1>2, <2>4, Linked
      <4> QED BY <2>6, <4>1, <4>2
    <3>2. \A q \in Remotes : q \in table' /\ remote'[q].state = "DEAD" =>
              q \in unclean' /\ remote'[q].refcnt = 0
      BY <1>2, <2>6, <2>10, Linked
    <3>3. \A j \in Keypairs : j \in table' <=> \E q \in Remotes : j \in InSlots(slots'[q])
      BY <1>2, Linked
    <3> QED BY <2>8, <3>1, <3>2, <3>3, TableKept
  <2>12. IndexUnambiguous'
    <3>1. \A q \in Remotes : q \in table' \ Dangling' => remote'[q].idx = remote[q].idx
      <4>1. r \in table' \ Dangling' => rec.idx = remote[r].idx
        <5>1. r \in table' \ Dangling' => remote[r].refcnt # 1
          BY <1>1, <1>2, <2>4, <2>6, <2>10 DEF Dangling
        <5> QED BY <2>4, <5>1
      <4> QED BY <2>6, <4>1
    <3>2. \A o \in table' \ Dangling' : o \in table /\ IndexOf(o)' = IndexOf(o)
      BY <1>2, <1>5, <3>1, Linked DEF IndexOf
    <3> QED BY <3>2, IndicesKept
  <2>13. FreedIsClean'
    BY <1>2, <2>4, <2>6 DEF IInv, FreedIsClean
  <2>14. Ownership'
    <3>1. \A j \in Keypairs : keypair'[j].refcnt > 0 => keypair'[j].remote \in Remotes
      <4>1. \A j \in Keypairs : keypair'[j].refcnt > 0 => keypair[j].refcnt > 0
        BY <1>4, <1>10
      <4> QED BY <1>4, <4>1 DEF IInv, Ownership
    <3>2. \A q \in Remotes : remote'[q].refcnt = 0 =>
              remote'[q].state = "DEAD" /\ ~remote'[q].enabled
      BY <2>4, <2>6 DEF IInv, Ownership
    <3> QED BY <1>2, <3>1, <3>2 DEF IInv, Ownership
  <2> QED BY <1>6, <1>7, <2>7, <2>8, <2>9, <2>11, <2>12, <2>13, <2>14 DEF IInv
<1>11. CASE keypair[k].refcnt # 1
  <2>1. UNCHANGED <<remote, lRef>>
    BY <1>2, <1>11
  <2>2. TypeOK'
    BY <1>2, <1>4, <2>1 DEF IInv, TypeOK
  <2>3. FreedBy(D) = {}
    BY <1>11 DEF FreedBy, D
  <2>4. RemoteRefs' /\ LocalRefs'
    BY <1>2, <1>8, <2>1, <2>3 DEF IInv, RemoteRefs, LocalRefs, LiveRemotes
  <2>5. Dangling' = Dangling
    BY <1>2, <2>1 DEF Dangling
  <2>6. IndexTableExact' /\ FreedIsClean'
    BY <1>2, <2>1, <2>5 DEF IInv, IndexTableExact, FreedIsClean
  <2>7. IndexUnambiguous'
    <3>1. \A o \in table : IndexOf(o)' = IndexOf(o)
      BY <1>5, <2>1, Linked DEF IndexOf
    <3> QED BY <1>2, <3>1, IndicesKept
  <2>8. Ownership'
    <3>1. \A j \in Keypairs : keypair'[j].refcnt > 0 => keypair[j].refcnt > 0
      BY <1>1, <1>4
    <3> QED BY <1>2, <1>4, <2>1, <3>1 DEF IInv, Ownership
  <2> QED BY <1>6, <1>7, <2>2, <2>4, <2>6, <2>7, <2>8 DEF IInv
<1> QED BY <1>10, <1>11

-----------------------------------------------------------------------------
(* The theorems.                                                             *)

\* noise_local_alloc establishes the invariant.
LEMMA InitIInv == ASSUME Init PROVE IInv
<1>1. TypeOK
  BY RecordTypes, NoSlots DEF Init, TypeOK, SlotsType, LoadType, NotLoading
<1>2. /\ \A r \in Remotes : InSlots(slots[r]) = {} /\ Distinct(slots[r])
                            /\ slots[r] = EmptySlots
      /\ \A r \in Remotes : remote[r].refcnt = 0 /\ remote[r].state = "DEAD"
                            /\ remote[r].enabled = FALSE
      /\ \A k \in Keypairs : keypair[k].refcnt = 0
  BY NoSlots DEF Init, NoRemote, NoKeypair
<1>3. SlotsSound
  BY <1>2 DEF SlotsSound, Distinct
<1>4. IndexTableExact /\ IndexUnambiguous /\ FreedIsClean
  BY <1>2 DEF Init, IndexTableExact, IndexUnambiguous, FreedIsClean
<1>5. KeypairRefs
  <2>1. \A k \in Keypairs : Holders(k) = {}
    BY ObjectAssumption DEF Init, Holders
  <2>2. \A k \in Keypairs : Cardinality(Holders(k)) = 0
    BY <2>1, FS_EmptySet
  <2> QED BY <1>2, <2>2 DEF KeypairRefs
<1>6. RemoteRefs
  <2>1. \A r \in Remotes : LiveOf(r) = {}
    BY <1>2 DEF LiveOf
  <2>2. \A r \in Remotes : Cardinality(LiveOf(r)) = 0
    BY <2>1, FS_EmptySet
  <2>3. \A r \in Remotes : handling # r /\ r \notin owned
    BY ObjectAssumption DEF Init
  <2> QED BY <1>2, <2>2, <2>3 DEF RemoteRefs
<1>7. LocalRefs
  <2>1. LiveRemotes = {}
    BY <1>2 DEF LiveRemotes
  <2> QED BY <2>1, FS_EmptySet DEF Init, LocalRefs
<1>8. Ownership
  BY <1>2 DEF Init, Ownership
<1> QED BY <1>1, <1>3, <1>4, <1>5, <1>6, <1>7, <1>8 DEF IInv

\* The steps of Next, each with the table it starts from.
LEMMA Steps ==
    ASSUME Next
    PROVE  /\ Walkable
           /\ \/ Tick \/ LocalFree \/ SessionDestroy \/ RemotePut
              \/ \E ok \in BOOLEAN : LocalPrivate(ok)
              \/ \E r \in Remotes : \/ RemoteAlloc(r)
                                    \/ RemoteDisable(r)
                                    \/ HandshakeClear(r)
                                    \/ KeypairsClear(r)
                                    \/ RemoteFree(r)
                                    \/ Tombstone(r)
                                    \/ RemoteLookup(r)
              \/ \E r \in Remotes, i \in Indices : CreateInitiation(r, i)
              \/ \E ts \in 1..MaxTimestamp, i \in Indices : ConsumeInitiation(ts, i)
              \/ \E ts \in 0..MaxTimestamp : RefuseInitiation(ts)
              \/ \E k \in Keypairs : CreateResponse(k)
              \/ \E i \in Indices, k \in Keypairs : ConsumeResponse(i, k)
              \/ \E i \in Indices : RemoteIndex(i)
              \/ \E u \in Users, r \in Remotes : LoadCurrent(u, r)
              \/ \E u \in Users, i \in Indices : LoadIndexed(u, i)
              \/ \E u \in Users : \/ TakeLoaded(u)
                                  \/ NonceNext(u)
                                  \/ ReceivedWith(u)
                                  \/ KeypairPut(u)
BY Zenon DEF Next

\* Every entry point preserves the invariant.
LEMMA NextIInv == ASSUME IInv, [Next]_vars PROVE IInv'
<1>1. CASE UNCHANGED vars
  BY <1>1 DEF vars, IInv, TypeOK, SlotsSound, IndexTableExact, IndexUnambiguous,
              IndexOf, KeypairRefs, Holders, RemoteRefs, LiveOf, LocalRefs,
              LiveRemotes, Dangling, FreedIsClean, Ownership
<1>2. CASE Next
  <2>0. Walkable
    BY <1>2, Steps
  <2>1. ASSUME Tick \/ LocalFree \/ SessionDestroy \/ RemotePut PROVE IInv'
    BY <2>0, <2>1, TickStep, LocalFreeStep, SessionDestroyStep, RemotePutStep
  <2>2. ASSUME NEW ok \in BOOLEAN, LocalPrivate(ok) PROVE IInv'
    BY <2>0, <2>2, LocalPrivateStep
  <2>3. ASSUME NEW r \in Remotes,
               RemoteAlloc(r) \/ RemoteDisable(r) \/ HandshakeClear(r) \/ KeypairsClear(r)
        PROVE  IInv'
    BY <2>0, <2>3, RemoteAllocStep, RemoteDisableStep, HandshakeClearStep, KeypairsClearStep
  <2>4. ASSUME NEW r \in Remotes, RemoteFree(r) \/ Tombstone(r) \/ RemoteLookup(r)
        PROVE  IInv'
    BY <2>0, <2>4, RemoteFreeStep, TombstoneStep, RemoteLookupStep
  <2>5. ASSUME NEW r \in Remotes, NEW i \in Indices, CreateInitiation(r, i) PROVE IInv'
    BY <2>0, <2>5, CreateInitiationStep
  <2>6. ASSUME NEW ts \in 1..MaxTimestamp, NEW i \in Indices, ConsumeInitiation(ts, i)
        PROVE  IInv'
    BY <2>0, <2>6, ConsumeInitiationStep
  <2>7. ASSUME NEW ts \in 0..MaxTimestamp, RefuseInitiation(ts) PROVE IInv'
    BY <2>0, <2>7, RefuseInitiationStep
  <2>8. ASSUME NEW k \in Keypairs, CreateResponse(k) PROVE IInv'
    BY <2>0, <2>8, CreateResponseStep
  <2>9. ASSUME NEW i \in Indices, NEW k \in Keypairs, ConsumeResponse(i, k) PROVE IInv'
    BY <2>0, <2>9, ConsumeResponseStep
  <2>10. ASSUME NEW i \in Indices, RemoteIndex(i) PROVE IInv'
    BY <2>0, <2>10, RemoteIndexStep
  <2>11. ASSUME NEW u \in Users, NEW r \in Remotes, LoadCurrent(u, r) PROVE IInv'
    BY <2>11, LoadCurrentStep
  <2>12. ASSUME NEW u \in Users, NEW i \in Indices, LoadIndexed(u, i) PROVE IInv'
    BY <2>12, LoadIndexedStep
  <2>13. ASSUME NEW u \in Users, TakeLoaded(u) \/ NonceNext(u) PROVE IInv'
    BY <2>13, TakeLoadedStep, NonceNextStep
  <2>14. ASSUME NEW u \in Users, ReceivedWith(u) \/ KeypairPut(u) PROVE IInv'
    BY <2>0, <2>14, ReceivedWithStep, KeypairPutStep
  <2> QED BY <1>2, <2>1, <2>2, <2>3, <2>4, <2>5, <2>6, <2>7, <2>8, <2>9, <2>10, <2>11,
             <2>12, <2>13, <2>14, Steps, Zenon
<1> QED BY <1>1, <1>2

\* The inductive invariant holds after any sequence of calls of the noise_*
\* functions, for any number of remotes, keypairs, indices and users.
THEOREM Inductive == Spec => []IInv
<1>1. Init => IInv
  BY InitIInv
<1>2. IInv /\ [Next]_vars => IInv'
  BY NextIInv
<1> QED BY <1>1, <1>2, PTL DEF Spec

\* The types of the noise objects, for any number of them.
THEOREM TypeCorrect == Spec => []TypeOK
<1>1. IInv => TypeOK
  BY DEF IInv
<1> QED BY <1>1, Inductive, PTL

\* The three slots of every remote point to its own live keypairs, each once,
\* whatever sequence of rotations noise_add_new_keypair and
\* noise_keypair_received_with perform.
THEOREM SlotsAlwaysSound == Spec => []SlotsSound
<1>1. IInv => SlotsSound
  BY DEF IInv
<1> QED BY <1>1, Inductive, PTL

\* l_index_hash holds the handshakes in progress and the keypairs in a slot, each
\* under an index of its own, through the hand-over of the index from a handshake
\* to its keypair: for remotes that are freed with a clear and for those that are
\* tombstoned without.  What else is in it is the handshake of a remote that was
\* freed without a clear.
THEOREM IndexTableAlwaysSound == Spec => []IndexTableSound
<1>1. IInv => IndexTableSound
  BY DEF IInv, IndexTableSound
<1> QED BY <1>1, Inductive, PTL

\* The reference counts of keypairs, remotes and the local are exact through the
\* noise_*_put functions, whoever calls them and whatever is read before it is
\* counted; a remote noise_remote_free has let go, and no handshake has revived,
\* keeps nothing.
THEOREM RefcountsAlwaysExact == Spec => []RefcountsExact
<1>1. IInv => RefcountsExact
  BY DEF IInv, RefcountsExact
<1> QED BY <1>1, Inductive, PTL

-----------------------------------------------------------------------------
(* What a step may do to a keypair that is allocated before and after it.    *)

Follows(old, new) ==
    /\ new.remote = old.remote /\ new.initiator = old.initiator
    /\ new.birth = old.birth /\ new.epoch = old.epoch
    /\ old.heard => new.heard
    /\ new.canSend => old.canSend

\* A keypair that survives noise_keypair_put is otherwise as it was.
LEMMA ReleaseFollows ==
    ASSUME IInv, NEW D, NEW k \in Keypairs, ReleaseKeypairs(D)[k].refcnt > 0
    PROVE  Follows(keypair[k], ReleaseKeypairs(D)[k])
<1> DEFINE new == ReleaseKeypairs(D)[k]
           left == keypair[k].refcnt - 1
<1>1. keypair[k] \in KeypairType
  BY DEF IInv, TypeOK
<1>2. new # NoKeypair
  BY DEF NoKeypair
<1>3. new = keypair[k] \/ new = NoKeypair \/ new = [keypair[k] EXCEPT !.refcnt = left]
  BY <1>1 DEF ReleaseKeypairs, KeypairType
<1> HIDE DEF new, left
<1>4. new = keypair[k] => Follows(keypair[k], new)
  BY DEF Follows
<1>5. new = [keypair[k] EXCEPT !.refcnt = left] => Follows(keypair[k], new)
  BY <1>1 DEF Follows, KeypairType
<1> QED BY <1>2, <1>3, <1>4, <1>5 DEF new

\* A session begins for a remote, in either role.
LEMMA Begins ==
    ASSUME IInv, NEW j \in Keypairs
    PROVE  /\ CreateResponse(j) =>
                \E r \in Remotes, refs \in {0, 1} : BeginSession(r, j, refs)
           /\ \A i \in Indices : ConsumeResponse(i, j) =>
                \E r \in Remotes, refs \in {0, 1} : BeginSession(r, j, refs)
<1>1. CreateResponse(j) => handling \in Remotes /\ BeginSession(handling, j, 0)
  BY DEF CreateResponse, IInv, TypeOK
<1>2. \A i \in Indices : ConsumeResponse(i, j) => \E r \in Remotes : BeginSession(r, j, 1)
  BY DEF ConsumeResponse
<1> QED BY <1>1, <1>2

\* The steps that change a keypair.
LEMMA KeypairSteps ==
    ASSUME IInv, [Next]_vars
    PROVE  \/ UNCHANGED keypair
           \/ \E ok \in BOOLEAN : LocalPrivate(ok)
           \/ \E r \in Remotes : KeypairsClear(r) \/ RemoteFree(r)
           \/ \E r \in Remotes, j \in Keypairs, refs \in {0, 1} : BeginSession(r, j, refs)
           \/ \E u \in Users : TakeLoaded(u) \/ NonceNext(u) \/ ReceivedWith(u) \/ KeypairPut(u)
<1>1. Tick \/ LocalFree \/ SessionDestroy \/ RemotePut => UNCHANGED keypair
  BY DEF Tick, LocalFree, SessionDestroy, RemotePut
<1>2. \A r \in Remotes : RemoteAlloc(r) \/ RemoteDisable(r) \/ HandshakeClear(r)
                           => UNCHANGED keypair
  BY DEF RemoteAlloc, RemoteDisable, HandshakeClear
<1>a. \A r \in Remotes : Tombstone(r) \/ RemoteLookup(r) => UNCHANGED keypair
  BY DEF Tombstone, RemoteLookup
<1>3. \A r \in Remotes, i \in Indices : CreateInitiation(r, i) => UNCHANGED keypair
  BY DEF CreateInitiation
<1>4. \A ts \in 1..MaxTimestamp, i \in Indices : ConsumeInitiation(ts, i) => UNCHANGED keypair
  BY DEF ConsumeInitiation
<1>5. \A ts \in 0..MaxTimestamp : RefuseInitiation(ts) => UNCHANGED keypair
  BY DEF RefuseInitiation
<1>6. \A i \in Indices : RemoteIndex(i) => UNCHANGED keypair
  BY DEF RemoteIndex
<1>7. \A u \in Users, r \in Remotes : LoadCurrent(u, r) => UNCHANGED keypair
  BY DEF LoadCurrent, Load
<1>8. \A u \in Users, i \in Indices : LoadIndexed(u, i) => UNCHANGED keypair
  BY DEF LoadIndexed, Load
<1>9. UNCHANGED vars => UNCHANGED keypair
  BY DEF vars
<1>10. CASE UNCHANGED vars
  BY <1>9, <1>10
<1>11. CASE Next
  BY <1>1, <1>2, <1>a, <1>3, <1>4, <1>5, <1>6, <1>7, <1>8, <1>11, Begins, Steps, Zenon
<1> QED BY <1>10, <1>11

\* Of a keypair that stays allocated no entry point changes the owner, the role,
\* the age or the identity; it is never un-heard, and never sendable again.
LEMMA KeypairFollows ==
    ASSUME IInv, [Next]_vars, NEW k \in Keypairs,
           keypair[k].refcnt > 0, keypair'[k].refcnt > 0
    PROVE  Follows(keypair[k], keypair'[k])
<1>0. /\ keypair \in [Keypairs -> KeypairType] /\ keypair[k] \in KeypairType
      /\ Follows(keypair[k], keypair[k])
  BY DEF IInv, TypeOK, Follows
<1>1. CASE UNCHANGED keypair
  BY <1>0, <1>1
<1>2. ASSUME NEW ok \in BOOLEAN, LocalPrivate(ok) PROVE Follows(keypair[k], keypair'[k])
  <2>1. \/ keypair'[k] = keypair[k]
        \/ keypair'[k] = [keypair[k] EXCEPT !.canSend = FALSE]
    BY <1>2 DEF LocalPrivate
  <2> QED BY <1>0, <2>1 DEF KeypairType, Follows
<1>3. ASSUME NEW r \in Remotes, KeypairsClear(r) \/ RemoteFree(r)
      PROVE  Follows(keypair[k], keypair'[k])
  BY <1>3, ReleaseFollows DEF KeypairsClear, RemoteFree
<1>4. ASSUME NEW r \in Remotes, NEW j \in Keypairs, NEW refs \in {0, 1},
             BeginSession(r, j, refs)
      PROVE  Follows(keypair[k], keypair'[k])
  <2> DEFINE D == DroppedByAdd(slots[r], remote[r].state = "INITIATOR")
             new == ReleaseKeypairs(D)
  <2> DEFINE fresh == [refcnt |-> 1, remote |-> r, idx |-> remote[r].idx,
                       initiator |-> remote[r].state = "INITIATOR", canSend |-> TRUE,
                       birth |-> now, nonce |-> 0, epoch |-> identity, heard |-> FALSE]
  <2>1. keypair' = [new EXCEPT ![j] = fresh] /\ k # j
    BY <1>4 DEF BeginSession
  <2> HIDE DEF D, fresh
  <2>2. keypair'[k] = new[k]
    BY <2>1 DEF ReleaseKeypairs
  <2> QED BY <2>2, ReleaseFollows
<1>5. ASSUME NEW u \in Users, TakeLoaded(u) PROVE Follows(keypair[k], keypair'[k])
  <2>0. PICK j : j = loaded[u].kp
    OBVIOUS
  <2> DEFINE may == ~(loaded[u].for = "send"
                        /\ TimerExpired(keypair[j].birth, RejectAfterTime))
  <2>1. \/ keypair' = [keypair EXCEPT ![j].refcnt = @ + 1]
        \/ keypair' = [keypair EXCEPT ![j].canSend = @ /\ may]
    BY <1>5, <2>0 DEF TakeLoaded
  <2> HIDE DEF may
  <2> DEFINE more == keypair[k].refcnt + 1
             can == keypair[k].canSend /\ may
  <2>2. \/ keypair'[k] = keypair[k]
        \/ keypair'[k] = [keypair[k] EXCEPT !.refcnt = more]
        \/ keypair'[k] = [keypair[k] EXCEPT !.canSend = can]
    BY <1>0, <2>1
  <2>3. can \in BOOLEAN /\ can => keypair[k].canSend
    BY <1>0 DEF KeypairType, may
  <2> HIDE DEF more, can
  <2> QED BY <1>0, <2>2, <2>3 DEF KeypairType, Follows
<1>8. ASSUME NEW u \in Users, NonceNext(u) PROVE Follows(keypair[k], keypair'[k])
  <2> DEFINE more == keypair[held[u]].nonce < RejectAfterMessages
             next == keypair[held[u]].nonce + 1
  <2>1. /\ keypair' = [keypair EXCEPT ![held[u]].nonce = next, ![held[u]].canSend = more]
        /\ keypair[held[u]].canSend
    BY <1>8 DEF NonceNext
  <2> HIDE DEF more, next
  <2>2. keypair'[k] = keypair[k] \/
          (k = held[u] /\ keypair'[k] = [keypair[k] EXCEPT !.nonce = next, !.canSend = more])
    BY <1>0, <2>1
  <2> QED BY <1>0, <2>1, <2>2 DEF KeypairType, Follows
<1>9. ASSUME NEW u \in Users, ReceivedWith(u) PROVE Follows(keypair[k], keypair'[k])
  <2>1. PICK j, D : /\ j = held[u]
                    /\ \/ keypair' = [keypair EXCEPT ![j] = Heard(@)]
                       \/ keypair' = [ReleaseKeypairs(D) EXCEPT ![j] = Heard(@)]
    BY <1>9 DEF ReceivedWith
  <2>2. \A rec \in KeypairType : Follows(rec, Heard(rec))
    BY DEF Heard, KeypairType, Follows
  <2>3. CASE keypair' = [keypair EXCEPT ![j] = Heard(@)]
    BY <1>0, <2>2, <2>3
  <2>4. CASE keypair' = [ReleaseKeypairs(D) EXCEPT ![j] = Heard(@)]
    <3> DEFINE new == ReleaseKeypairs(D)
    <3>1. \/ k # j /\ keypair'[k] = new[k]
          \/ k = j /\ keypair'[k] = Heard(new[k])
      BY <2>4 DEF ReleaseKeypairs
    <3>2. new[k] \in KeypairType
      BY <1>0, RecordTypes DEF ReleaseKeypairs, KeypairType
    <3>3. new[k].refcnt > 0
      BY <3>1, <3>2 DEF Heard, KeypairType
    <3>4. Follows(keypair[k], new[k])
      BY <3>3, ReleaseFollows
    <3> HIDE DEF new
    <3>5. k = j => Follows(new[k], keypair'[k])
      BY <2>2, <3>1, <3>2
    <3> QED BY <3>1, <3>4, <3>5 DEF Follows
  <2> QED BY <2>1, <2>3, <2>4
<1>10. ASSUME NEW u \in Users, KeypairPut(u) PROVE Follows(keypair[k], keypair'[k])
  BY <1>10, ReleaseFollows DEF KeypairPut
<1> QED BY <1>1, <1>2, <1>3, <1>4, <1>5, <1>8, <1>9, <1>10, KeypairSteps

\* A key that noise_keypair_current, noise_keypair_nonce_next or
\* noise_local_private has stopped is never sent with again.
THEOREM StopsForGood == Spec => StoppedForGood
<1>1. ASSUME IInv, [Next]_vars
      PROVE  \A k \in Keypairs :
                keypair[k].refcnt > 0 /\ ~keypair[k].canSend /\ keypair'[k].refcnt > 0
                   => ~keypair'[k].canSend
  BY <1>1, KeypairFollows DEF Follows
<1> QED BY <1>1, Inductive, PTL DEF Spec, StoppedForGood

\* The steps that change a slot.
LEMMA SlotsSteps ==
    ASSUME IInv, [Next]_vars
    PROVE  \/ UNCHANGED slots
           \/ \E q \in Remotes : slots' = [slots EXCEPT ![q] = EmptySlots]
           \/ \E q \in Remotes, j \in Keypairs, refs \in {0, 1} : BeginSession(q, j, refs)
           \/ \E u \in Users : ReceivedWith(u)
<1>1. Tick \/ LocalFree \/ SessionDestroy \/ RemotePut => UNCHANGED slots
  BY DEF Tick, LocalFree, SessionDestroy, RemotePut
<1>2. \A ok \in BOOLEAN : LocalPrivate(ok) => UNCHANGED slots
  BY DEF LocalPrivate
<1>3. \A q \in Remotes : RemoteAlloc(q) \/ KeypairsClear(q) \/ RemoteFree(q)
                           => slots' = [slots EXCEPT ![q] = EmptySlots]
  BY DEF RemoteAlloc, KeypairsClear, RemoteFree
<1>4. \A q \in Remotes : RemoteDisable(q) \/ HandshakeClear(q) \/ Tombstone(q) \/ RemoteLookup(q)
                           => UNCHANGED slots
  BY DEF RemoteDisable, HandshakeClear, Tombstone, RemoteLookup
<1>5. \A q \in Remotes, i \in Indices : CreateInitiation(q, i) => UNCHANGED slots
  BY DEF CreateInitiation
<1>6. \A ts \in 1..MaxTimestamp, i \in Indices : ConsumeInitiation(ts, i) => UNCHANGED slots
  BY DEF ConsumeInitiation
<1>7. \A ts \in 0..MaxTimestamp : RefuseInitiation(ts) => UNCHANGED slots
  BY DEF RefuseInitiation
<1>8. \A i \in Indices : RemoteIndex(i) => UNCHANGED slots
  BY DEF RemoteIndex
<1>9. \A u \in Users, q \in Remotes : LoadCurrent(u, q) => UNCHANGED slots
  BY DEF LoadCurrent, Load
<1>10. \A u \in Users, i \in Indices : LoadIndexed(u, i) => UNCHANGED slots
  BY DEF LoadIndexed, Load
<1>11. \A u \in Users : TakeLoaded(u) \/ NonceNext(u) \/ KeypairPut(u) => UNCHANGED slots
  BY DEF TakeLoaded, NonceNext, KeypairPut
<1>12. UNCHANGED vars => UNCHANGED slots
  BY DEF vars
<1>13. CASE UNCHANGED vars
  BY <1>12, <1>13
<1>14. CASE Next
  BY <1>1, <1>2, <1>3, <1>4, <1>5, <1>6, <1>7, <1>8, <1>9, <1>10, <1>11, <1>14, Begins,
     Steps, Zenon
<1> QED BY <1>13, <1>14

\* How a step may change r_current: to nothing, to the key of our own
\* initiation, or to the key the peer has just been heard with.
LEMMA CurrentSlot ==
    ASSUME IInv, [Next]_vars, NEW r \in Remotes
    PROVE  LET k == slots'[r]["current"] IN
           \/ k = slots[r]["current"]
           \/ k = NULL
           \/ k \in Keypairs /\ keypair'[k].initiator
           \/ k \in Keypairs /\ keypair'[k].heard
<1> DEFINE k == slots'[r]["current"]
           Goal == \/ k = slots[r]["current"]
                   \/ k = NULL
                   \/ k \in Keypairs /\ keypair'[k].initiator
                   \/ k \in Keypairs /\ keypair'[k].heard
<1>0. slots \in [Remotes -> SlotsType] /\ keypair \in [Keypairs -> KeypairType]
  BY DEF IInv, TypeOK
<1>1. CASE UNCHANGED slots
  BY <1>1
<1>2. ASSUME NEW q \in Remotes, slots' = [slots EXCEPT ![q] = EmptySlots] PROVE Goal
  BY <1>0, <1>2 DEF EmptySlots, SlotNames
<1>3. ASSUME NEW q \in Remotes, NEW j \in Keypairs, NEW refs \in {0, 1},
             BeginSession(q, j, refs)
      PROVE  Goal
  <2> DEFINE initiator == remote[q].state = "INITIATOR"
             D == DroppedByAdd(slots[q], initiator)
             fresh == [refcnt |-> 1, remote |-> q, idx |-> remote[q].idx,
                       initiator |-> initiator, canSend |-> TRUE, birth |-> now,
                       nonce |-> 0, epoch |-> identity, heard |-> FALSE]
  <2>1. /\ slots' = [slots EXCEPT ![q] = AddKeypair(@, j, initiator)]
        /\ keypair' = [ReleaseKeypairs(D) EXCEPT ![j] = fresh]
    BY <1>3 DEF BeginSession
  <2>2. fresh.initiator = initiator
    OBVIOUS
  <2> HIDE DEF D, fresh
  <2>3. keypair'[j].initiator = initiator
    BY <2>1, <2>2 DEF ReleaseKeypairs
  <2> HIDE DEF initiator
  <2>4. CASE q = r /\ initiator
    BY <1>0, <2>1, <2>3, <2>4 DEF AddKeypair, AddInitiator, SlotNames
  <2>5. CASE q = r /\ ~initiator
    BY <1>0, <2>1, <2>5 DEF AddKeypair, AddResponder, SlotNames
  <2>6. CASE q # r
    BY <1>0, <2>1, <2>6
  <2> QED BY <2>4, <2>5, <2>6
<1>4. ASSUME NEW u \in Users, ReceivedWith(u) PROVE Goal
  <2>1. PICK h, q, D :
           /\ h = held[u] /\ h # NULL
           /\ \/ UNCHANGED slots
              \/ /\ slots[q]["next"] = h
                 /\ slots' = [slots EXCEPT ![q] = Promote(@)]
                 /\ keypair' = [ReleaseKeypairs(D) EXCEPT ![h] = Heard(@)]
    BY <1>4 DEF ReceivedWith
  <2>2. h \in Keypairs /\ keypair[h].refcnt > 0
    BY <1>4, <2>1, Referenced
  <2>3. \A rec \in KeypairType : Heard(rec).heard
    BY DEF Heard, KeypairType
  <2>4. CASE UNCHANGED slots
    BY <2>4
  <2>5. CASE /\ slots[q]["next"] = h
             /\ slots' = [slots EXCEPT ![q] = Promote(@)]
             /\ keypair' = [ReleaseKeypairs(D) EXCEPT ![h] = Heard(@)]
    <3>1. ReleaseKeypairs(D)[h] \in KeypairType
      BY <1>0, <2>2, RecordTypes DEF ReleaseKeypairs, KeypairType
    <3>2. keypair'[h].heard
      BY <2>2, <2>3, <2>5, <3>1 DEF ReleaseKeypairs
    <3>3. k = slots[r]["current"] \/ k = h
      BY <1>0, <2>5 DEF Promote, SlotNames
    <3> QED BY <2>2, <3>2, <3>3
  <2> QED BY <2>1, <2>4, <2>5
<1>5. \/ UNCHANGED slots
      \/ \E q \in Remotes : slots' = [slots EXCEPT ![q] = EmptySlots]
      \/ \E q \in Remotes, j \in Keypairs, refs \in {0, 1} : BeginSession(q, j, refs)
      \/ \E u \in Users : ReceivedWith(u)
  BY SlotsSteps
<1> QED BY <1>1, <1>2, <1>3, <1>4, <1>5

\* A responder never transmits under a key the initiator has not confirmed.
THEOREM CurrentAlwaysConfirmed == Spec => []CurrentConfirmed
<1>1. Init => CurrentConfirmed
  BY DEF Init, EmptySlots, SlotNames, CurrentConfirmed
<1>2. ASSUME IInv, IInv', CurrentConfirmed, [Next]_vars
      PROVE  CurrentConfirmed'
  <2>1. ASSUME NEW r \in Remotes, slots'[r]["current"] # NULL
        PROVE  LET k == slots'[r]["current"] IN keypair'[k].initiator \/ keypair'[k].heard
    <3> DEFINE k == slots'[r]["current"]
    <3>1. k \in Keypairs /\ keypair'[k].refcnt > 0
      BY <1>2, <2>1 DEF IInv, TypeOK, SlotsType, SlotNames, SlotsSound, InSlots
    <3>2. CASE k = slots[r]["current"]
      <4>1. keypair[k].refcnt > 0 /\ (keypair[k].initiator \/ keypair[k].heard)
        BY <1>2, <2>1, <3>2 DEF IInv, SlotsSound, InSlots, SlotNames, CurrentConfirmed
      <4>2. Follows(keypair[k], keypair'[k])
        BY <1>2, <3>1, <4>1, KeypairFollows
      <4> QED BY <4>1, <4>2 DEF Follows
    <3>3. CASE keypair'[k].initiator \/ keypair'[k].heard
      BY <3>3
    <3> QED BY <1>2, <2>1, <3>2, <3>3, CurrentSlot
  <2> QED BY <2>1 DEF CurrentConfirmed
<1> QED BY <1>1, <1>2, Inductive, PTL DEF Spec

-----------------------------------------------------------------------------
(* The ages of the keypairs.                                                 *)

\* Memory becomes a keypair only in noise_begin_session.
LEMMA Born ==
    ASSUME IInv, [Next]_vars, NEW k \in Keypairs,
           keypair[k].refcnt = 0, keypair'[k].refcnt > 0
    PROVE  \E r \in Remotes, refs \in {0, 1} : BeginSession(r, k, refs)
<1> DEFINE Goal == \E r \in Remotes, refs \in {0, 1} : BeginSession(r, k, refs)
<1>0. keypair \in [Keypairs -> KeypairType] /\ keypair[k] \in KeypairType
  BY DEF IInv, TypeOK
<1>1. \A D : ~(ReleaseKeypairs(D)[k].refcnt > 0)
  BY <1>0 DEF ReleaseKeypairs, KeypairType, NoKeypair
<1>2. ASSUME keypair'[k].refcnt = keypair[k].refcnt PROVE Goal
  BY <1>2
<1>3. ASSUME NEW D, keypair' = ReleaseKeypairs(D) PROVE Goal
  BY <1>1, <1>3, <1>0 DEF ReleaseKeypairs
<1>4. ASSUME UNCHANGED keypair PROVE Goal
  BY <1>4
<1>5. ASSUME NEW ok \in BOOLEAN, LocalPrivate(ok) PROVE Goal
  BY <1>0, <1>2, <1>5 DEF LocalPrivate, KeypairType
<1>6. ASSUME NEW r \in Remotes, KeypairsClear(r) \/ RemoteFree(r) PROVE Goal
  BY <1>3, <1>6 DEF KeypairsClear, RemoteFree
<1>7. ASSUME NEW r \in Remotes, NEW j \in Keypairs, NEW refs \in {0, 1},
             BeginSession(r, j, refs)
      PROVE  Goal
  <2>1. CASE j = k
    BY <1>7, <2>1
  <2>2. CASE j # k
    <3>1. \E D : keypair'[k] = ReleaseKeypairs(D)[k]
      BY <1>7, <2>2 DEF BeginSession, ReleaseKeypairs
    <3> QED BY <1>0, <1>1, <3>1
  <2> QED BY <2>1, <2>2
<1>8. ASSUME NEW u \in Users, TakeLoaded(u) PROVE Goal
  <2>1. PICK j, can :
          \/ keypair[j].refcnt > 0 /\ keypair' = [keypair EXCEPT ![j].refcnt = @ + 1]
          \/ keypair' = [keypair EXCEPT ![j].canSend = can]
    BY <1>8 DEF TakeLoaded
  <2>2. CASE keypair[j].refcnt > 0 /\ keypair' = [keypair EXCEPT ![j].refcnt = @ + 1]
    <3>1. j # k
      BY <1>0, <2>2 DEF KeypairType
    <3> QED BY <1>0, <1>2, <2>2, <3>1
  <2>3. CASE keypair' = [keypair EXCEPT ![j].canSend = can]
    BY <1>0, <1>2, <2>3 DEF KeypairType
  <2> QED BY <2>1, <2>2, <2>3
<1>11. ASSUME NEW u \in Users, NonceNext(u) PROVE Goal
  <2> DEFINE more == keypair[held[u]].nonce < RejectAfterMessages
             next == keypair[held[u]].nonce + 1
  <2>1. keypair' = [keypair EXCEPT ![held[u]].nonce = next, ![held[u]].canSend = more]
    BY <1>11 DEF NonceNext
  <2> HIDE DEF more, next
  <2> QED BY <1>0, <1>2, <2>1 DEF KeypairType
<1>12. ASSUME NEW u \in Users, ReceivedWith(u) PROVE Goal
  <2>1. PICK j, D : \/ keypair' = [keypair EXCEPT ![j] = Heard(@)]
                    \/ keypair' = [ReleaseKeypairs(D) EXCEPT ![j] = Heard(@)]
    BY <1>12 DEF ReceivedWith
  <2>2. \A rec \in KeypairType : Heard(rec).refcnt = rec.refcnt
    BY DEF Heard, KeypairType
  <2>3. CASE keypair' = [keypair EXCEPT ![j] = Heard(@)]
    BY <1>0, <1>2, <2>2, <2>3
  <2>4. CASE keypair' = [ReleaseKeypairs(D) EXCEPT ![j] = Heard(@)]
    <3> DEFINE new == ReleaseKeypairs(D)
    <3>1. keypair'[k] = new[k] \/ keypair'[k] = Heard(new[k])
      BY <2>4 DEF ReleaseKeypairs
    <3>2. Heard(new[k]).refcnt = new[k].refcnt
      BY <1>0 DEF ReleaseKeypairs, Heard, KeypairType, NoKeypair
    <3>3. ~(new[k].refcnt > 0)
      BY <1>1
    <3> HIDE DEF new
    <3> QED BY <3>1, <3>2, <3>3
  <2> QED BY <2>1, <2>3, <2>4, SMTT(30)
<1>13. ASSUME NEW u \in Users, KeypairPut(u) PROVE Goal
  BY <1>3, <1>13 DEF KeypairPut
<1> HIDE DEF Goal
<1> QED BY <1>4, <1>5, <1>6, <1>7, <1>8, <1>11, <1>12, <1>13, KeypairSteps DEF Goal

\* What a step may make of the slots of a remote.
LEMMA SlotAfter ==
    ASSUME IInv, [Next]_vars, NEW r \in Remotes
    PROVE  \/ slots'[r] = slots[r]
           \/ slots'[r] = EmptySlots
           \/ \E k \in Keypairs, refs \in {0, 1}, initiator \in BOOLEAN :
                 /\ BeginSession(r, k, refs)
                 /\ slots'[r] = AddKeypair(slots[r], k, initiator)
           \/ slots'[r] = Promote(slots[r])
<1>0. slots \in [Remotes -> SlotsType]
  BY DEF IInv, TypeOK
<1> DEFINE Goal == \/ slots'[r] = slots[r]
                   \/ slots'[r] = EmptySlots
                   \/ \E k \in Keypairs, refs \in {0, 1}, initiator \in BOOLEAN :
                         /\ BeginSession(r, k, refs)
                         /\ slots'[r] = AddKeypair(slots[r], k, initiator)
                   \/ slots'[r] = Promote(slots[r])
<1>1. CASE UNCHANGED slots
  BY <1>1
<1>2. ASSUME NEW q \in Remotes, slots' = [slots EXCEPT ![q] = EmptySlots] PROVE Goal
  BY <1>0, <1>2
<1>3. ASSUME NEW q \in Remotes, NEW k \in Keypairs, NEW refs \in {0, 1},
             BeginSession(q, k, refs)
      PROVE  Goal
  <2>1. PICK initiator \in BOOLEAN :
          slots' = [slots EXCEPT ![q] = AddKeypair(@, k, initiator)]
    BY <1>3 DEF BeginSession
  <2> QED BY <1>0, <1>3, <2>1
<1>4. ASSUME NEW u \in Users, ReceivedWith(u) PROVE Goal
  <2>1. \/ UNCHANGED slots
        \/ \E q : slots' = [slots EXCEPT ![q] = Promote(@)]
    BY <1>4 DEF ReceivedWith
  <2> QED BY <1>0, <2>1
<1> HIDE DEF Goal
<1>5. Goal
  BY <1>1, <1>2, <1>3, <1>4, SlotsSteps DEF Goal
<1> QED BY <1>5 DEF Goal

\* The clock stands still or moves on.
LEMMA NowSteps ==
    ASSUME [Next]_vars
    PROVE  now' = now \/ now' = now + 1
<1>1. Tick => now' = now + 1
  BY DEF Tick
<1>2. LocalFree \/ SessionDestroy \/ RemotePut => UNCHANGED now
  BY DEF LocalFree, SessionDestroy, RemotePut, PutRemote
<1>3. \A ok \in BOOLEAN : LocalPrivate(ok) => UNCHANGED now
  BY DEF LocalPrivate
<1>4. \A q \in Remotes : \/ RemoteAlloc(q) \/ RemoteDisable(q) \/ HandshakeClear(q)
                         \/ KeypairsClear(q)
                      => UNCHANGED now
  BY DEF RemoteAlloc, RemoteDisable, HandshakeClear, KeypairsClear
<1>5. \A q \in Remotes : RemoteFree(q) \/ Tombstone(q) \/ RemoteLookup(q) => UNCHANGED now
  BY DEF RemoteFree, Tombstone, RemoteLookup
<1>6. \A q \in Remotes, i \in Indices : CreateInitiation(q, i) => UNCHANGED now
  BY DEF CreateInitiation
<1>7. \A ts \in 1..MaxTimestamp, i \in Indices : ConsumeInitiation(ts, i) => UNCHANGED now
  BY DEF ConsumeInitiation
<1>8. \A ts \in 0..MaxTimestamp : RefuseInitiation(ts) => UNCHANGED now
  BY DEF RefuseInitiation
<1>9. \A j \in Keypairs : CreateResponse(j) => UNCHANGED now
  BY DEF CreateResponse, BeginSession
<1>10. \A i \in Indices, j \in Keypairs : ConsumeResponse(i, j) => UNCHANGED now
  BY DEF ConsumeResponse, BeginSession
<1>11. \A i \in Indices : RemoteIndex(i) => UNCHANGED now
  BY DEF RemoteIndex
<1>12. \A u \in Users, q \in Remotes : LoadCurrent(u, q) => UNCHANGED now
  BY DEF LoadCurrent, Load
<1>13. \A u \in Users, i \in Indices : LoadIndexed(u, i) => UNCHANGED now
  BY DEF LoadIndexed, Load
<1>14. \A u \in Users : TakeLoaded(u) \/ NonceNext(u) => UNCHANGED now
  BY DEF TakeLoaded, NonceNext
<1>15. \A u \in Users : ReceivedWith(u) \/ KeypairPut(u) => UNCHANGED now
  BY DEF ReceivedWith, KeypairPut
<1>16. UNCHANGED vars => UNCHANGED now
  BY DEF vars
<1>17. CASE UNCHANGED vars
  BY <1>16, <1>17
<1>18. CASE Next
  BY <1>1, <1>2, <1>3, <1>4, <1>5, <1>6, <1>7, <1>8, <1>9, <1>10, <1>11, <1>12, <1>13,
     <1>14, <1>15, <1>18, Steps, Zenon
<1> QED BY <1>17, <1>18

\* No keypair was born in the future.
Births == \A k \in Keypairs : keypair[k].refcnt > 0 => keypair[k].birth <= now

\* A keypair is as old as the session that made it.
LEMMA BirthsStep ==
    ASSUME IInv, IInv', Births, [Next]_vars
    PROVE  Births'
<1>1. now \in Nat /\ now' \in Nat /\ now <= now'
  <2>1. now \in Nat /\ now' \in Nat
    BY DEF IInv, TypeOK
  <2>2. now' = now \/ now' = now + 1
    BY NowSteps
  <2> QED BY <2>1, <2>2
<1>2. ASSUME NEW k \in Keypairs, keypair'[k].refcnt > 0
      PROVE  keypair'[k].birth <= now'
  <2>1. /\ keypair[k].refcnt \in Nat /\ keypair[k].birth \in Nat
        /\ keypair'[k].birth \in Nat
    BY DEF IInv, TypeOK, KeypairType
  <2>2. CASE keypair[k].refcnt > 0
    <3>1. keypair'[k].birth = keypair[k].birth /\ keypair[k].birth <= now
      BY <1>2, <2>2, KeypairFollows DEF Follows, Births
    <3> QED BY <1>1, <2>1, <3>1
  <2>3. CASE keypair[k].refcnt = 0
    <3>1. keypair'[k].birth = now
      <4>1. PICK r \in Remotes, refs \in {0, 1} : BeginSession(r, k, refs)
        BY <1>2, <2>3, Born
      <4> QED BY <4>1 DEF BeginSession, ReleaseKeypairs
    <3> QED BY <1>1, <3>1
  <2> QED BY <2>1, <2>2, <2>3
<1> QED BY <1>2 DEF Births

\* The slots of one remote, from the oldest key to the youngest.
AgeOrdered(s) ==
    /\ s["previous"] # NULL /\ s["current"] # NULL
          => keypair[s["previous"]].birth <= keypair[s["current"]].birth
    /\ s["current"] # NULL /\ s["next"] # NULL
          => keypair[s["current"]].birth <= keypair[s["next"]].birth
    /\ s["previous"] # NULL /\ s["next"] # NULL
          => keypair[s["previous"]].birth <= keypair[s["next"]].birth

\* Rotation never goes backwards: with r_previous, r_current and r_next in the
\* order in which their handshakes completed, noise_keypair_received_with never
\* puts an older key in the place of a younger one.
THEOREM SlotsAlwaysInAgeOrder == Spec => []SlotsAgeOrder
<1>1. SlotsAgeOrder <=> \A r \in Remotes : AgeOrdered(slots[r])
  BY DEF SlotsAgeOrder, AgeOrdered
<1>2. Init => Births /\ SlotsAgeOrder
  BY DEF Init, Births, SlotsAgeOrder, EmptySlots, SlotNames, NoKeypair
<1>3. ASSUME IInv, IInv', Births, SlotsAgeOrder, [Next]_vars
      PROVE  Births' /\ SlotsAgeOrder'
  <2> DEFINE born(k) == keypair'[k].birth
             Ordered(s) == /\ s["previous"] # NULL /\ s["current"] # NULL
                                 => born(s["previous"]) <= born(s["current"])
                           /\ s["current"] # NULL /\ s["next"] # NULL
                                 => born(s["current"]) <= born(s["next"])
                           /\ s["previous"] # NULL /\ s["next"] # NULL
                                 => born(s["previous"]) <= born(s["next"])
  <2>1. Births'
    BY <1>3, BirthsStep
  <2>2. ASSUME NEW r \in Remotes PROVE Ordered(slots'[r])
    <3> DEFINE s == slots[r]
    <3>1. AgeOrdered(s) /\ s \in SlotsType /\ slots \in [Remotes -> SlotsType]
      BY <1>1, <1>3 DEF IInv, TypeOK
    \* Of the keypairs that are still in a slot the age has not changed.
    <3>2. ASSUME NEW n \in SlotNames, s[n] # NULL, s[n] \in InSlots(slots'[r])
          PROVE  /\ s[n] \in Keypairs /\ born(s[n]) = keypair[s[n]].birth
                 /\ keypair[s[n]].birth \in Nat /\ keypair[s[n]].birth <= now
      <4>1. s[n] \in Keypairs /\ keypair[s[n]].refcnt > 0 /\ keypair'[s[n]].refcnt > 0
        BY <1>3, <3>2 DEF IInv, SlotsSound, InSlots, TypeOK, SlotsType
      <4>2. keypair[s[n]].birth \in Nat
        BY <1>3, <4>1 DEF IInv, TypeOK, KeypairType
      <4> QED BY <1>3, <4>1, <4>2, KeypairFollows DEF Follows, Births
    <3> HIDE DEF s, born
    <3>3. CASE slots'[r] = s
      BY <3>1, <3>2, <3>3 DEF AgeOrdered, InSlots, SlotNames
    <3>4. CASE slots'[r] = EmptySlots
      BY <3>4 DEF EmptySlots, SlotNames
    <3>5. ASSUME NEW j \in Keypairs, NEW refs \in {0, 1}, NEW initiator \in BOOLEAN,
                 BeginSession(r, j, refs), slots'[r] = AddKeypair(s, j, initiator)
          PROVE  Ordered(slots'[r])
      <4>1. born(j) = now /\ now \in Nat
        BY <1>3, <3>5 DEF BeginSession, ReleaseKeypairs, born, IInv, TypeOK
      <4>2. CASE initiator
        BY <3>1, <3>2, <3>5, <4>1, <4>2
           DEF AddKeypair, AddInitiator, AgeOrdered, InSlots, SlotNames
      <4>3. CASE ~initiator
        BY <3>1, <3>2, <3>5, <4>1, <4>3
           DEF AddKeypair, AddResponder, AgeOrdered, InSlots, SlotNames
      <4> QED BY <4>2, <4>3
    <3>6. CASE slots'[r] = Promote(s)
      BY <3>1, <3>2, <3>6 DEF Promote, AgeOrdered, InSlots, SlotNames
    <3>7. \/ slots'[r] = s \/ slots'[r] = EmptySlots
          \/ \E j \in Keypairs, refs \in {0, 1}, initiator \in BOOLEAN :
                BeginSession(r, j, refs) /\ slots'[r] = AddKeypair(s, j, initiator)
          \/ slots'[r] = Promote(s)
      BY <1>3, SlotAfter DEF s
    <3> QED BY <3>3, <3>4, <3>5, <3>6, <3>7
  <2>3. SlotsAgeOrder' <=> \A r \in Remotes : Ordered(slots'[r])
    BY DEF SlotsAgeOrder
  <2> QED BY <2>1, <2>2, <2>3
<1> QED BY <1>2, <1>3, Inductive, PTL DEF Spec

\* noise_add_new_keypair and noise_keypair_received_with neither share, swap nor
\* keep past its use what the three slots point to.
THEOREM RotationAlwaysSound == Spec => []RotationSound
<1>1. RotationSound <=> SlotsSound /\ SlotsAgeOrder
  BY DEF RotationSound
<1> QED BY <1>1, SlotsAlwaysSound, SlotsAlwaysInAgeOrder, PTL

-----------------------------------------------------------------------------
(* The identity under which keys are sent with.                              *)

\* A put does not enable a remote.
LEMMA ReleaseDisables ==
    ASSUME NEW rec \in RemoteType, NEW n \in Nat, ReleaseRemote(rec, n).enabled
    PROVE  rec.enabled
<1> DEFINE left == rec.refcnt - n
<1>1. NoRemote.enabled = FALSE
  BY DEF NoRemote
<1>2. ReleaseRemote(rec, n) = NoRemote \/ ReleaseRemote(rec, n) = [rec EXCEPT !.refcnt = left]
  BY DEF ReleaseRemote
<1> HIDE DEF left
<1> QED BY <1>1, <1>2 DEF RemoteType

\* A remote is enabled in noise_remote_alloc only, before it has any keypair.
LEMMA EnabledAfter ==
    ASSUME IInv, [Next]_vars, NEW r \in Remotes, remote'[r].enabled
    PROVE  remote[r].enabled \/ slots'[r] = EmptySlots
<1> DEFINE Goal == remote[r].enabled \/ slots'[r] = EmptySlots
<1>0. /\ remote \in [Remotes -> RemoteType] /\ slots \in [Remotes -> SlotsType]
      /\ \A D : IsFiniteSet(D) => Cardinality(D) \in Nat
  BY FS_CardinalityType DEF IInv, TypeOK
\* The steps that keep r_enabled or reset it.
<1>1. ASSUME remote'[r].enabled => remote[r].enabled PROVE Goal
  BY <1>1
<1>2. ASSUME UNCHANGED remote PROVE Goal
  BY <1>2
<1>3. ASSUME NEW q \in Remotes, NEW rec,
             remote' = [remote EXCEPT ![q] = rec], rec.enabled => remote[q].enabled
      PROVE  Goal
  BY <1>0, <1>1, <1>3
<1>4. ASSUME NEW q \in Remotes, NEW rec \in RemoteType, rec.enabled => remote[q].enabled,
             PutRemote(q, rec)
      PROVE  Goal
  <2>1. remote' = [remote EXCEPT ![q] = ReleaseRemote(rec, 1)]
    BY <1>4 DEF PutRemote
  <2>2. ReleaseRemote(rec, 1).enabled => remote[q].enabled
    BY <1>4, ReleaseDisables
  <2> QED BY <1>3, <2>1, <2>2
<1>5. ASSUME NEW ok \in BOOLEAN, LocalPrivate(ok) PROVE Goal
  BY <1>0, <1>1, <1>5 DEF LocalPrivate
<1>6. ASSUME NEW q \in Remotes, RemoteAlloc(q) PROVE Goal
  BY <1>0, <1>1, <1>6 DEF RemoteAlloc
<1>7. ASSUME NEW q \in Remotes, RemoteDisable(q) \/ HandshakeClear(q) PROVE Goal
  BY <1>0, <1>1, <1>7 DEF RemoteDisable, HandshakeClear, HandshakeCleared, RemoteType
<1>8. ASSUME NEW q \in Remotes, KeypairsClear(q) \/ RemoteFree(q) PROVE Goal
  <2>1. InSlots(slots[q]) \in SUBSET Keypairs
    BY Referenced
  <2>2. IsFiniteSet(FreedBy(InSlots(slots[q])))
    BY <2>1, FS_Subset, ObjectAssumption DEF FreedBy
  <2>3. Cardinality(FreedBy(InSlots(slots[q]))) \in Nat
    BY <2>2, FS_CardinalityType
  <2> DEFINE n == Cardinality(FreedBy(InSlots(slots[q])))
             off == [HandshakeCleared(remote[q]) EXCEPT !.enabled = FALSE]
  <2>4. off \in RemoteType /\ off.enabled = FALSE
    <3>1. HandshakeCleared(remote[q]) \in RemoteType
      BY <1>0, RecordTypes
    <3> QED BY <3>1 DEF RemoteType
  <2>5. \/ remote' = [remote EXCEPT ![q] = ReleaseRemote(remote[q], n)]
        \/ remote' = [remote EXCEPT ![q] = ReleaseRemote(off, n + 1)]
    BY <1>8 DEF KeypairsClear, RemoteFree
  <2> HIDE DEF n, off
  <2>6. /\ ReleaseRemote(remote[q], n).enabled => remote[q].enabled
        /\ ReleaseRemote(off, n + 1).enabled => remote[q].enabled
    BY <1>0, <2>3, <2>4, ReleaseDisables DEF n
  <2> QED BY <1>3, <2>5, <2>6
<1>9. ASSUME NEW q \in Remotes, Tombstone(q) PROVE Goal
  <2>1. /\ [remote[q] EXCEPT !.enabled = FALSE] \in RemoteType
        /\ [remote[q] EXCEPT !.enabled = FALSE].enabled = FALSE
    BY <1>0 DEF RemoteType
  <2> QED BY <1>4, <1>9, <2>1 DEF Tombstone
<1>10. ASSUME SessionDestroy PROVE Goal
  <2>1. remote'[r] = remote[r] \/ remote'[r] = ReleaseRemote(remote[r], 1)
    BY <1>10 DEF SessionDestroy
  <2> QED BY <1>0, <1>1, <2>1, ReleaseDisables
<1>11. ASSUME NEW q \in Remotes, RemoteLookup(q) PROVE Goal
  BY <1>0, <1>1, <1>11 DEF RemoteLookup, RemoteType
<1>12. ASSUME NEW q \in Remotes, NEW i \in Indices, CreateInitiation(q, i) PROVE Goal
  BY <1>0, <1>1, <1>12 DEF CreateInitiation, RemoteType
<1>13. ASSUME NEW ts \in 1..MaxTimestamp, NEW i \in Indices, ConsumeInitiation(ts, i) PROVE Goal
  BY <1>0, <1>1, <1>13 DEF ConsumeInitiation, RemoteType
<1>14. ASSUME NEW ts \in 0..MaxTimestamp, RefuseInitiation(ts) PROVE Goal
  <2>1. handling \in Remotes
    BY <1>14 DEF RefuseInitiation, IInv, TypeOK, Ownership
  <2>2. PICK rec \in {remote[handling], [remote[handling] EXCEPT !.timestamp = ts]} :
          PutRemote(handling, rec)
    BY <1>14 DEF RefuseInitiation
  <2>3. rec \in RemoteType /\ rec.enabled = remote[handling].enabled
    BY <1>0, <2>1 DEF RemoteType
  <2> QED BY <1>4, <2>1, <2>2, <2>3
<1>15. ASSUME RemotePut PROVE Goal
  <2>1. handling \in Remotes
    BY <1>15 DEF RemotePut, IInv, TypeOK
  <2> QED BY <1>0, <1>4, <1>15, <2>1 DEF RemotePut
<1>16. ASSUME NEW q \in Remotes, NEW j \in Keypairs, NEW refs \in {0, 1},
              BeginSession(q, j, refs)
       PROVE  Goal
  <2>1. PICK n, sent :
          remote' = [remote EXCEPT ![q] = [remote[q] EXCEPT !.refcnt = n, !.state = "DEAD",
                                             !.idx = NULL, !.lastSent = sent]]
    BY <1>16 DEF BeginSession
  <2> QED BY <1>0, <1>1, <2>1 DEF RemoteType
<1>17. ASSUME NEW i \in Indices, RemoteIndex(i) PROVE Goal
  <2>1. PICK q : remote' = [remote EXCEPT ![q].refcnt = @ + 1]
    BY <1>17 DEF RemoteIndex
  <2> QED BY <1>0, <1>1, <2>1 DEF RemoteType
<1>18. ASSUME NEW u \in Users, TakeLoaded(u) \/ NonceNext(u) PROVE Goal
  BY <1>2, <1>18 DEF TakeLoaded, NonceNext
<1>19. ASSUME NEW u \in Users, ReceivedWith(u) PROVE Goal
  <2>1. PICK q, n : UNCHANGED remote \/ remote' = [remote EXCEPT ![q].refcnt = n]
    BY <1>19 DEF ReceivedWith
  <2> QED BY <1>0, <1>1, <1>2, <2>1 DEF RemoteType
<1>20. ASSUME NEW u \in Users, KeypairPut(u) PROVE Goal
  <2>1. PICK q : /\ q = keypair[held[u]].remote /\ held[u] # NULL
                 /\ UNCHANGED remote \/ PutRemote(q, remote[q])
    BY <1>20 DEF KeypairPut
  <2>2. q \in Remotes
    BY <2>1, Referenced
  <2> QED BY <1>0, <1>2, <1>4, <2>1, <2>2
<1>21. ASSUME Tick \/ LocalFree \/ UNCHANGED vars PROVE Goal
  BY <1>2, <1>21 DEF Tick, LocalFree, vars
<1>22. ASSUME NEW u \in Users, NEW q \in Remotes, LoadCurrent(u, q) PROVE Goal
  BY <1>2, <1>22 DEF LoadCurrent, Load
<1>23. ASSUME NEW u \in Users, NEW i \in Indices, LoadIndexed(u, i) PROVE Goal
  BY <1>2, <1>23 DEF LoadIndexed, Load
<1> HIDE DEF Goal
<1>24. ASSUME Next PROVE Goal
  BY <1>5, <1>6, <1>7, <1>8, <1>9, <1>10, <1>11, <1>12, <1>13, <1>14, <1>15, <1>16,
     <1>17, <1>18, <1>19, <1>20, <1>21, <1>22, <1>23, <1>24, Begins, Steps, Zenon
<1>25. Goal
  BY <1>21, <1>24
<1> QED BY <1>25 DEF Goal

\* Only noise_local_private changes the identity.
LEMMA IdentitySteps ==
    ASSUME [Next]_vars
    PROVE  UNCHANGED identity \/ \E ok \in BOOLEAN : LocalPrivate(ok)
<1>1. Tick => UNCHANGED identity
  BY DEF Tick
<1>2. LocalFree \/ SessionDestroy \/ RemotePut => UNCHANGED identity
  BY DEF LocalFree, SessionDestroy, RemotePut, PutRemote
<1>4. \A q \in Remotes : \/ RemoteAlloc(q) \/ RemoteDisable(q) \/ HandshakeClear(q)
                         \/ KeypairsClear(q)
                      => UNCHANGED identity
  BY DEF RemoteAlloc, RemoteDisable, HandshakeClear, KeypairsClear
<1>5. \A q \in Remotes : RemoteFree(q) \/ Tombstone(q) \/ RemoteLookup(q) => UNCHANGED identity
  BY DEF RemoteFree, Tombstone, RemoteLookup
<1>6. \A q \in Remotes, i \in Indices : CreateInitiation(q, i) => UNCHANGED identity
  BY DEF CreateInitiation
<1>7. \A ts \in 1..MaxTimestamp, i \in Indices : ConsumeInitiation(ts, i) => UNCHANGED identity
  BY DEF ConsumeInitiation
<1>8. \A ts \in 0..MaxTimestamp : RefuseInitiation(ts) => UNCHANGED identity
  BY DEF RefuseInitiation
<1>9. \A j \in Keypairs : CreateResponse(j) => UNCHANGED identity
  BY DEF CreateResponse, BeginSession
<1>10. \A i \in Indices, j \in Keypairs : ConsumeResponse(i, j) => UNCHANGED identity
  BY DEF ConsumeResponse, BeginSession
<1>11. \A i \in Indices : RemoteIndex(i) => UNCHANGED identity
  BY DEF RemoteIndex
<1>12. \A u \in Users, q \in Remotes : LoadCurrent(u, q) => UNCHANGED identity
  BY DEF LoadCurrent, Load
<1>13. \A u \in Users, i \in Indices : LoadIndexed(u, i) => UNCHANGED identity
  BY DEF LoadIndexed, Load
<1>14. \A u \in Users : TakeLoaded(u) \/ NonceNext(u) => UNCHANGED identity
  BY DEF TakeLoaded, NonceNext
<1>15. \A u \in Users : ReceivedWith(u) \/ KeypairPut(u) => UNCHANGED identity
  BY DEF ReceivedWith, KeypairPut
<1>16. UNCHANGED vars => UNCHANGED identity
  BY DEF vars
<1>17. CASE UNCHANGED vars
  BY <1>16, <1>17
<1>18. CASE Next
  BY <1>1, <1>2, <1>4, <1>5, <1>6, <1>7, <1>8, <1>9, <1>10, <1>11, <1>12, <1>13,
     <1>14, <1>15, <1>18, Steps, Zenon
<1> QED BY <1>17, <1>18

\* After noise_local_private no remote that can be found sends, then or after a
\* promotion of r_next, under a key of an earlier identity.
THEOREM SendsUnderThisIdentity == Spec => []SendKeysOfThisIdentity
<1>1. Init => SendKeysOfThisIdentity
  BY DEF Init, SendKeysOfThisIdentity, NoRemote
<1>2. ASSUME IInv, IInv', SendKeysOfThisIdentity, [Next]_vars
      PROVE  SendKeysOfThisIdentity'
  <2>3. ASSUME NEW r \in Remotes, NEW n \in {"current", "next"}, remote'[r].enabled,
               slots'[r][n] # NULL, keypair'[slots'[r][n]].canSend
        PROVE  keypair'[slots'[r][n]].epoch = identity'
    <3> DEFINE k == slots'[r][n]
    <3>1. k \in Keypairs /\ keypair'[k].refcnt > 0
      BY <1>2, <2>3 DEF IInv, TypeOK, SlotsType, SlotNames, SlotsSound, InSlots
    <3>e. remote[r].enabled
      BY <1>2, <2>3, EnabledAfter DEF EmptySlots, SlotNames
    \* A key that was in such a slot before the step.
    <3>2. ASSUME NEW m \in {"current", "next"}, k = slots[r][m]
          PROVE  keypair'[k].epoch = identity'
      <4>1. keypair[k].refcnt > 0
        BY <1>2, <2>3, <3>2 DEF IInv, SlotsSound, InSlots, SlotNames
      <4>2. Follows(keypair[k], keypair'[k])
        BY <1>2, <3>1, <4>1, KeypairFollows
      <4>3. keypair'[k].epoch = identity
        BY <1>2, <2>3, <3>2, <3>e, <4>2 DEF Follows, SendKeysOfThisIdentity
      <4>4. ASSUME NEW ok \in BOOLEAN, LocalPrivate(ok) PROVE FALSE
        <5>1. keypair'[k].canSend = FALSE
          BY <1>2, <3>1, <3>2, <3>e, <4>4
             DEF LocalPrivate, StoppedByExpiry, IInv, TypeOK, KeypairType
        <5> QED BY <2>3, <5>1
      <4> QED BY <1>2, <4>3, <4>4, IdentitySteps
    <3>3. ASSUME NEW j \in Keypairs, NEW refs \in {0, 1}, BeginSession(r, j, refs), k = j
          PROVE  keypair'[k].epoch = identity'
      BY <3>1, <3>3 DEF BeginSession, ReleaseKeypairs
    <3>4. CASE slots'[r] = EmptySlots
      BY <2>3, <3>4 DEF EmptySlots, SlotNames
    <3>5. ASSUME NEW j \in Keypairs, NEW refs \in {0, 1}, NEW initiator \in BOOLEAN,
                 BeginSession(r, j, refs), slots'[r] = AddKeypair(slots[r], j, initiator)
          PROVE  keypair'[k].epoch = identity'
      <4>1. k = j \/ k = slots[r]["current"]
        BY <2>3, <3>5 DEF AddKeypair, AddInitiator, AddResponder, SlotNames
      <4> HIDE DEF k
      <4> QED BY <3>2, <3>3, <3>5, <4>1
    <3>6. CASE slots'[r] = Promote(slots[r])
      BY <2>3, <3>2, <3>6 DEF Promote, SlotNames
    <3>7. CASE slots'[r] = slots[r]
      BY <3>2, <3>7
    <3>8. \/ slots'[r] = slots[r]
          \/ slots'[r] = EmptySlots
          \/ \E j \in Keypairs, refs \in {0, 1}, initiator \in BOOLEAN :
                BeginSession(r, j, refs) /\ slots'[r] = AddKeypair(slots[r], j, initiator)
          \/ slots'[r] = Promote(slots[r])
      BY <1>2, SlotAfter
    <3> QED BY <3>4, <3>5, <3>6, <3>7, <3>8
  <2> QED BY <2>3 DEF SendKeysOfThisIdentity
<1> QED BY <1>1, <1>2, Inductive, PTL DEF Spec

=============================================================================
