-------------------------- MODULE KernelQueuesProofs --------------------------
(* Proofs about KernelQueues, for every number of peers, packets, threads and *)
(* workers and queues of every length: a packet is in one place, and a peer   *)
(* is not freed under those that use it.                                      *)
EXTENDS KernelQueues, SequenceTheorems, TLAPS

-----------------------------------------------------------------------------
(* The inductive invariant.                                                  *)

Types ==
    /\ peer \in [Peers -> {"live", "leaving", "gone", "freed"}]
    /\ keyed \in [Peers -> BOOLEAN]
    /\ route \in [Addresses -> Peers \cup {None}]
    /\ staged \in [Peers -> Seq(Packets)]
    /\ serial \in [Dirs -> [Peers -> Seq(Packets)]]
    /\ parallel \in [Dirs -> Seq(Packets)]
    /\ state \in [Packets -> States]
    /\ thread \in [Threads -> Calls \cup {Returned}]
    /\ job \in [Workers -> Jobs \cup {NoJob}]
    /\ task \in [Dirs -> [Peers -> [queued : BOOLEAN, running : BOOLEAN]]]

\* A peer that has been freed is at rest, but for handlers of its callouts.
Retired(p) ==
    /\ ~keyed[p] /\ Queued(p) = {}
    /\ \A t \in Threads : Referenced(t) => thread[t].peer # p
    /\ \A w \in Workers : job[w] # NoJob => job[w].peer # p
    /\ \A d \in Dirs : ~task[d][p].queued /\ ~task[d][p].running

PeersKept ==
    \A p \in Peers :
        /\ peer[p] = "freed" => Retired(p)
        /\ \A a \in Addresses : route[a] = p => peer[p] = "live"

\* The places of a packet.  Of the packets a call carries, the one between the
\* halves of wg_queue_both is in its serial queue already.
InStaged(n, p) == n \in ToSet(staged[p])
InSerial(n, d, p) == n \in ToSet(serial[d][p])
Half(n, t) == At(t, "parallel") /\ n = Head(thread[t].list)
Rest(n, t) == InCall(t) /\ IF thread[t].at = "parallel" THEN n \in ToSet(Tail(thread[t].list))
                                                      ELSE n \in ToSet(thread[t].list)

OnePlace(n) ==
    /\ \A p \in Peers : InStaged(n, p) =>
          /\ \A q \in Peers : InStaged(n, q) => q = p
          /\ \A t \in Threads : ~Rest(n, t)
          /\ \A d \in Dirs, q \in Peers : ~InSerial(n, d, q)
    /\ \A t \in Threads : Rest(n, t) =>
          /\ \A u \in Threads : Rest(n, u) => u = t
          /\ \A d \in Dirs, q \in Peers : ~InSerial(n, d, q)
    /\ \A d, e \in Dirs, p, q \in Peers : InSerial(n, d, p) /\ InSerial(n, e, q) => d = e /\ p = q

\* Who is to finish a packet: one of the parallel queues, a worker, or the call
\* that is about to pass it on; until then it is in its serial queue, unfinished.
Waits(n, d) == n \in ToSet(parallel[d])
Worked(n, w) == job[w].at = "crypt" /\ job[w].packet = n

OneOwner(n) ==
    /\ \A d \in Dirs : Waits(n, d) =>
          /\ \A e \in Dirs : Waits(n, e) => e = d
          /\ \A w \in Workers : ~Worked(n, w)
          /\ \A t \in Threads : ~Half(n, t)
          /\ \E p \in Peers : InSerial(n, d, p)
          /\ state[n] = "uncrypted"
    /\ \A w \in Workers : Worked(n, w) =>
          /\ \A v \in Workers : Worked(n, v) => v = w
          /\ \A t \in Threads : ~Half(n, t)
          /\ InSerial(n, job[w].dir, job[w].peer)
          /\ state[n] = "uncrypted"
    /\ \A t \in Threads : Half(n, t) =>
          /\ \A u \in Threads : Half(n, u) => u = t
          /\ InSerial(n, thread[t].dir, thread[t].peer)
          /\ state[n] = "uncrypted"

Lists ==
    /\ \A p \in Peers : IsInjective(staged[p])
    /\ \A d \in Dirs : IsInjective(parallel[d])
    /\ \A d \in Dirs, p \in Peers : IsInjective(serial[d][p])
    /\ \A t \in Threads : InCall(t) =>
          /\ IsInjective(thread[t].list)
          /\ thread[t].list = <<>> <=> thread[t].at \in {"callout", "handshake", "delist"}

PacketsKept == Lists /\ \A n \in Packets : OnePlace(n) /\ OneOwner(n)

IInv == Types /\ PeersKept /\ PacketsKept

-----------------------------------------------------------------------------
(* Queues.                                                                   *)

LEMMA EmptyQueue == ToSet(<<>>) = {} /\ IsInjective(<<>>)
    BY DEF ToSet, IsInjective

\* A packet at the end of a queue.
LEMMA Appended ==
    ASSUME NEW S, NEW q \in Seq(S), NEW n \in S
    PROVE  /\ Append(q, n) \in Seq(S) /\ Append(q, n) # <<>>
           /\ ToSet(Append(q, n)) = ToSet(q) \cup {n}
           /\ IsInjective(q) /\ n \notin ToSet(q) => IsInjective(Append(q, n))
<1>1. /\ Append(q, n) \in Seq(S) /\ Len(Append(q, n)) = Len(q) + 1 /\ Len(q) \in Nat
      /\ \A i \in 1 .. Len(q) : Append(q, n)[i] = q[i]
      /\ Append(q, n)[Len(q) + 1] = n
    BY AppendProperties, LenProperties
<1>2. DOMAIN q = 1 .. Len(q) /\ DOMAIN Append(q, n) = 1 .. Len(q) + 1
    BY <1>1, LenProperties
<1>3. Append(q, n) # <<>>
    BY <1>1
<1>4. \A i \in 1 .. Len(q) + 1 : i \in 1 .. Len(q) \/ i = Len(q) + 1
    BY <1>1
<1>5. \A i \in 1 .. Len(q) : i \in 1 .. Len(q) + 1
    BY <1>1
<1>6. ToSet(Append(q, n)) = ToSet(q) \cup {n}
    <2>1. Len(q) + 1 \in 1 .. Len(q) + 1
        BY <1>1
    <2>2. ASSUME NEW x \in ToSet(Append(q, n)) PROVE x \in ToSet(q) \cup {n}
        <3>1. PICK i \in 1 .. Len(q) + 1 : x = Append(q, n)[i]
            BY <1>2 DEF ToSet
        <3> QED
            BY <1>1, <1>2, <1>4, <3>1 DEF ToSet
    <2>3. ASSUME NEW x \in ToSet(q) PROVE x \in ToSet(Append(q, n))
        <3>1. PICK i \in 1 .. Len(q) : x = q[i]
            BY <1>2 DEF ToSet
        <3>2. i \in DOMAIN Append(q, n) /\ x = Append(q, n)[i]
            BY <1>1, <1>2, <1>5, <3>1
        <3> QED
            BY <3>2 DEF ToSet
    <2>4. n \in ToSet(Append(q, n))
        BY <1>1, <1>2, <2>1 DEF ToSet
    <2> QED
        BY <2>2, <2>3, <2>4
<1>7. ASSUME IsInjective(q), n \notin ToSet(q) PROVE IsInjective(Append(q, n))
    <2>1. ASSUME NEW i \in 1 .. Len(q) + 1, NEW j \in 1 .. Len(q) + 1,
                 Append(q, n)[i] = Append(q, n)[j]
          PROVE  i = j
        <3>1. CASE i \in 1 .. Len(q) /\ j \in 1 .. Len(q)
            BY <1>1, <1>2, <1>7, <2>1, <3>1 DEF IsInjective
        <3>2. \A k \in 1 .. Len(q) : Append(q, n)[k] # n
            BY <1>1, <1>2, <1>7 DEF ToSet
        <3> QED
            BY <1>1, <1>4, <2>1, <3>1, <3>2
    <2> QED
        BY <1>2, <2>1 DEF IsInjective
<1> QED
    BY <1>1, <1>3, <1>6, <1>7

\* A queue without its head.
LEMMA Tailed ==
    ASSUME NEW S, NEW q \in Seq(S), q # <<>>
    PROVE  /\ Head(q) \in S /\ Tail(q) \in Seq(S)
           /\ ToSet(q) = {Head(q)} \cup ToSet(Tail(q))
           /\ IsInjective(q) => IsInjective(Tail(q)) /\ Head(q) \notin ToSet(Tail(q))
<1>1. /\ Head(q) \in S /\ Tail(q) \in Seq(S) /\ Len(Tail(q)) = Len(q) - 1
      /\ \A i \in 1 .. Len(Tail(q)) : Tail(q)[i] = q[i + 1]
    BY HeadTailProperties
<1>2. Len(q) \in Nat \ {0} /\ Head(q) = q[1] /\ DOMAIN q = 1 .. Len(q)
      /\ DOMAIN Tail(q) = 1 .. Len(Tail(q))
    BY <1>1, LenProperties, EmptySeq
<1>3. \A i \in 1 .. Len(Tail(q)) : i + 1 \in 1 .. Len(q) /\ i + 1 # 1
    BY <1>1, <1>2
<1>4. \A i \in 1 .. Len(q) : i = 1 \/ (i - 1 \in 1 .. Len(Tail(q)) /\ (i - 1) + 1 = i)
    BY <1>1, <1>2
<1>5. ToSet(q) = {Head(q)} \cup ToSet(Tail(q))
    <2>1. ASSUME NEW x \in ToSet(q) PROVE x \in {Head(q)} \cup ToSet(Tail(q))
        <3>1. PICK i \in 1 .. Len(q) : x = q[i]
            BY <1>2 DEF ToSet
        <3>2. CASE i = 1
            BY <1>2, <3>1, <3>2
        <3>3. CASE i # 1
            <4>1. i - 1 \in DOMAIN Tail(q) /\ Tail(q)[i - 1] = x
                BY <1>1, <1>2, <1>4, <3>1, <3>3
            <4> QED
                BY <4>1 DEF ToSet
        <3> QED
            BY <3>2, <3>3
    <2>2. ASSUME NEW x \in ToSet(Tail(q)) PROVE x \in ToSet(q)
        <3>1. PICK i \in 1 .. Len(Tail(q)) : x = Tail(q)[i]
            BY <1>2 DEF ToSet
        <3>2. i + 1 \in DOMAIN q /\ x = q[i + 1]
            BY <1>1, <1>2, <1>3, <3>1
        <3> QED
            BY <3>2 DEF ToSet
    <2>3. 1 \in 1 .. Len(q)
        BY <1>2
    <2>4. Head(q) \in ToSet(q)
        BY <1>2, <2>3 DEF ToSet
    <2> QED
        BY <2>1, <2>2, <2>4
<1>6. ASSUME IsInjective(q) PROVE IsInjective(Tail(q)) /\ Head(q) \notin ToSet(Tail(q))
    <2>1. ASSUME NEW i \in 1 .. Len(Tail(q)), NEW j \in 1 .. Len(Tail(q)), Tail(q)[i] = Tail(q)[j]
          PROVE  i = j
        <3>1. q[i + 1] = q[j + 1] /\ i + 1 \in DOMAIN q /\ j + 1 \in DOMAIN q
            BY <1>1, <1>2, <1>3, <2>1
        <3>2. i + 1 = j + 1
            BY <1>6, <3>1 DEF IsInjective
        <3> QED
            BY <3>2
    <2>2. ASSUME NEW i \in 1 .. Len(Tail(q)) PROVE Tail(q)[i] # Head(q)
        <3>1. Tail(q)[i] = q[i + 1] /\ i + 1 \in DOMAIN q /\ 1 \in DOMAIN q /\ i + 1 # 1
            BY <1>1, <1>2, <1>3
        <3> QED
            BY <1>2, <1>6, <3>1 DEF IsInjective
    <2>3. Head(q) \notin ToSet(Tail(q))
        BY <1>2, <2>2 DEF ToSet
    <2> QED
        BY <1>2, <2>1, <2>3 DEF IsInjective
<1> QED
    BY <1>1, <1>5, <1>6

\* wg_queue_push_staged may drop the oldest packet and adds the new one.
LEMMA PushedSound ==
    ASSUME NEW q \in Seq(Packets), NEW n \in Packets
    PROVE  /\ Pushed(q, n) \in Seq(Packets)
           /\ ToSet(Pushed(q, n)) \subseteq ToSet(q) \cup {n}
           /\ IsInjective(q) /\ n \notin ToSet(q) => IsInjective(Pushed(q, n))
<1>1. CASE Len(q) >= MaxStaged
    <2> DEFINE r == Tail(q)
    <2>1. q # <<>>
        BY <1>1, LimitAssumption, Len(<<>>) = 0
    <2>2. /\ r \in Seq(Packets) /\ ToSet(r) \subseteq ToSet(q)
          /\ IsInjective(q) => IsInjective(r)
        BY <2>1, Tailed
    <2>3. Pushed(q, n) = Append(r, n)
        BY <1>1 DEF Pushed
    <2> HIDE DEF r
    <2>4. /\ Append(r, n) \in Seq(Packets)
          /\ ToSet(Append(r, n)) = ToSet(r) \cup {n}
          /\ IsInjective(r) /\ n \notin ToSet(r) => IsInjective(Append(r, n))
        BY <2>2, Appended
    <2> QED
        BY <2>2, <2>3, <2>4
<1>2. CASE ~(Len(q) >= MaxStaged)
    BY <1>2, Appended DEF Pushed
<1> QED
    BY <1>1, <1>2

-----------------------------------------------------------------------------
(* Calls.                                                                    *)

\* Only the call of t changes: it is at at, for p, with list.
Moves(t, at, p, d, list) ==
    /\ thread' \in [Threads -> Calls \cup {Returned}]
    /\ \A u \in Threads \ {t} : thread'[u] = thread[u]
    /\ thread'[t] \in Calls /\ thread'[t] # Returned
    /\ thread'[t].at = at /\ thread'[t].peer = p /\ thread'[t].dir = d /\ thread'[t].list = list

\* It is over.
Ends(t) ==
    /\ thread' \in [Threads -> Calls \cup {Returned}]
    /\ \A u \in Threads \ {t} : thread'[u] = thread[u]
    /\ thread'[t] = Returned

Ats == {"callout", "handshake", "delist", "key", "enlist", "queue", "parallel"}

LEMMA CallNotReturned == \A c \in Calls : c # Returned
<1> SUFFICES ASSUME NEW c \in Calls PROVE c # Returned
    OBVIOUS
<1>1. c.at # "returned"
    BY DEF Calls
<1> QED
    BY <1>1 DEF Returned

LEMMA CallTypes ==
    ASSUME Types, NEW t \in Threads, InCall(t)
    PROVE  /\ thread[t] \in Calls /\ thread[t].at \in Ats /\ thread[t].peer \in Peers
           /\ thread[t].dir \in Dirs /\ thread[t].list \in Seq(Packets)
<1>1. thread[t] \in Calls
    BY DEF Types, InCall
<1> QED
    BY <1>1 DEF Calls, Ats

LEMMA CallMoves ==
    ASSUME Types, NEW t \in Threads, NEW at \in Ats, NEW p \in Peers, NEW d \in Dirs,
           NEW list \in Seq(Packets), NEW ref \in BOOLEAN, Call(t, at, p, d, list, ref)
    PROVE  Moves(t, at, p, d, list)
<1> DEFINE c == [at |-> at, peer |-> p, dir |-> d, list |-> list, ref |-> ref]
<1>1. c \in Calls /\ c.at = at /\ c.peer = p /\ c.dir = d /\ c.list = list
    BY DEF Calls, Ats
<1>2. thread' = [thread EXCEPT ![t] = c]
    BY DEF Call
<1> HIDE DEF c
<1>3. c # Returned
    BY <1>1, CallNotReturned
<1> QED
    BY <1>1, <1>2, <1>3 DEF Types, Moves

\* A call goes on at another place, with another list.
LEMMA CallGoesOn ==
    ASSUME Types, NEW t \in Threads, InCall(t), NEW at \in Ats, NEW list \in Seq(Packets),
           thread' = [thread EXCEPT ![t] = [@ EXCEPT !.at = at, !.list = list]]
    PROVE  Moves(t, at, thread[t].peer, thread[t].dir, list)
<1> DEFINE c == [thread[t] EXCEPT !.at = at, !.list = list]
<1>0. thread[t] \in Calls
    BY CallTypes
<1>1. /\ c \in Calls /\ c.at = at /\ c.peer = thread[t].peer /\ c.dir = thread[t].dir
      /\ c.list = list
    BY <1>0 DEF Calls, Ats
<1>2. thread' = [thread EXCEPT ![t] = c]
    OBVIOUS
<1> HIDE DEF c
<1>3. c # Returned
    BY <1>1, CallNotReturned
<1> QED
    BY <1>1, <1>2, <1>3 DEF Types, Moves

LEMMA CallElsewhere ==
    ASSUME Types, NEW t \in Threads, InCall(t), NEW at \in Ats,
           \/ thread' = [thread EXCEPT ![t].at = at]
           \/ thread' = [thread EXCEPT ![t].at = at, ![t].ref = TRUE]
    PROVE  Moves(t, at, thread[t].peer, thread[t].dir, thread[t].list)
<1>0. thread[t] \in Calls
    BY CallTypes
<1>1. PICK c : /\ c \in {[thread[t] EXCEPT !.at = at], [thread[t] EXCEPT !.at = at, !.ref = TRUE]}
               /\ thread' = [thread EXCEPT ![t] = c]
    BY DEF Types
<1>2. /\ c \in Calls /\ c.at = at /\ c.peer = thread[t].peer /\ c.dir = thread[t].dir
      /\ c.list = thread[t].list
    BY <1>0, <1>1 DEF Calls, Ats
<1>3. c # Returned
    BY <1>2, CallNotReturned
<1> QED
    BY <1>1, <1>2, <1>3 DEF Types, Moves

LEMMA CallEnds ==
    ASSUME Types, NEW t \in Threads, thread' = [thread EXCEPT ![t] = Returned]
    PROVE  Ends(t)
    BY DEF Types, Ends

LEMMA CallOnWith ==
    ASSUME Types, NEW t \in Threads, InCall(t), NEW at \in Ats, NEW list \in Seq(Packets),
           OnWith(t, at, list)
    PROVE  IF list = <<>> THEN Ends(t) ELSE Moves(t, at, thread[t].peer, thread[t].dir, list)
<1>1. CASE list = <<>>
    BY <1>1, CallEnds DEF OnWith
<1>2. CASE list # <<>>
    BY <1>2, CallGoesOn DEF OnWith
<1> QED
    BY <1>1, <1>2

\* A packet that uma_zalloc returns is in no place.
LEMMA AllocatedFree ==
    ASSUME IInv, CanAllocate
    PROVE  /\ Allocated \in Packets
           /\ \A p \in Peers : ~InStaged(Allocated, p)
           /\ \A d \in Dirs, p \in Peers : ~InSerial(Allocated, d, p)
           /\ \A t \in Threads : ~Rest(Allocated, t) /\ ~Half(Allocated, t)
<1> DEFINE n == Allocated
<1>1. \E m \in Packets : m \in Pool
    BY DEF CanAllocate, Pool
<1>2. n \in Packets /\ n \in Pool
    BY <1>1 DEF Allocated
<1> HIDE DEF n
<1>3. /\ \A t \in Threads : n \notin Carried(t)
      /\ \A p \in Peers : n \notin Queued(p)
      /\ \A p \in Peers : n \notin ToSet(staged[p])
    BY <1>2 DEF Pool
<1>4. \A d \in Dirs, p \in Peers : n \notin ToSet(serial[d][p])
    BY <1>3 DEF Queued
<1>5. ASSUME NEW t \in Threads PROVE ~Rest(n, t) /\ ~Half(n, t)
    <2>1. CASE ~InCall(t)
        BY <2>1 DEF Rest, Half, At
    <2>2. CASE InCall(t)
        <3>1. n \notin ToSet(thread[t].list)
            BY <1>3, <2>2 DEF Carried
        <3>2. CASE thread[t].at = "parallel"
            <4>1. thread[t].list \in Seq(Packets) /\ thread[t].list # <<>>
                BY <2>2, <3>2, CallTypes DEF IInv, PacketsKept, Lists
            <4>2. ToSet(thread[t].list) = {Head(thread[t].list)} \cup ToSet(Tail(thread[t].list))
                BY <4>1, Tailed
            <4> QED
                BY <3>1, <3>2, <4>2 DEF Rest, Half, At
        <3>3. CASE thread[t].at # "parallel"
            BY <3>1, <3>3 DEF Rest, Half, At
        <3> QED
            BY <3>2, <3>3
    <2> QED
        BY <2>1, <2>2
<1> QED
    BY <1>2, <1>3, <1>4, <1>5 DEF InStaged, InSerial, n

\* A queue of one packet.
LEMMA Single ==
    ASSUME NEW n \in Packets
    PROVE  /\ <<n>> \in Seq(Packets) /\ <<n>> # <<>>
           /\ ToSet(<<n>>) = {n} /\ IsInjective(<<n>>)
<1>1. <<>> \in Seq(Packets) /\ Append(<<>>, n) = <<n>>
    OBVIOUS
<1>2. /\ Append(<<>>, n) \in Seq(Packets) /\ Append(<<>>, n) # <<>>
      /\ ToSet(Append(<<>>, n)) = ToSet(<<>>) \cup {n}
      /\ IsInjective(<<>>) /\ n \notin ToSet(<<>>) => IsInjective(Append(<<>>, n))
    BY <1>1, Appended
<1> QED
    BY <1>1, <1>2, EmptyQueue

-----------------------------------------------------------------------------
(* What a step of a call changes for the packets.                            *)

\* The calls of other threads carry what they carried.
SameCall(u) ==
    /\ InCall(u)' = InCall(u) /\ thread'[u] = thread[u]
    /\ \A n \in Packets : Rest(n, u)' = Rest(n, u) /\ Half(n, u)' = Half(n, u)

LEMMA CallsUnchanged ==
    ASSUME thread' = thread
    PROVE  \A t \in Threads : SameCall(t)
    BY DEF SameCall, InCall, Rest, Half, At

LEMMA MovesView ==
    ASSUME NEW t \in Threads, NEW at, NEW p, NEW d, NEW list, Moves(t, at, p, d, list)
    PROVE  /\ \A u \in Threads \ {t} : SameCall(u)
           /\ InCall(t)'
           /\ \A n \in Packets :
                 /\ Half(n, t)' <=> at = "parallel" /\ n = Head(list)
                 /\ Rest(n, t)' <=> IF at = "parallel" THEN n \in ToSet(Tail(list))
                                                       ELSE n \in ToSet(list)
    BY DEF Moves, SameCall, InCall, Rest, Half, At

LEMMA EndsView ==
    ASSUME NEW t \in Threads, Ends(t)
    PROVE  /\ \A u \in Threads \ {t} : SameCall(u)
           /\ ~InCall(t)' /\ \A n \in Packets : ~Half(n, t)' /\ ~Rest(n, t)'
    BY DEF Ends, SameCall, InCall, Rest, Half, At

\* The lists of the calls, when one of them moves or ends.
CallLists ==
    \A t \in Threads : InCall(t) =>
        /\ IsInjective(thread[t].list)
        /\ thread[t].list = <<>> <=> thread[t].at \in {"callout", "handshake", "delist"}

LEMMA MovesLists ==
    ASSUME Lists, NEW t \in Threads, NEW at, NEW p, NEW d, NEW list, Moves(t, at, p, d, list),
           IsInjective(list), list = <<>> <=> at \in {"callout", "handshake", "delist"}
    PROVE  CallLists'
    BY DEF Moves, Lists, CallLists, InCall

LEMMA EndsLists ==
    ASSUME Lists, NEW t \in Threads, Ends(t)
    PROVE  CallLists'
    BY DEF Ends, Lists, CallLists, InCall

-----------------------------------------------------------------------------
(* Places.                                                                   *)

\* Nothing is anywhere it was not.
LEMMA OnlyKept ==
    ASSUME NEW n \in Packets, OnePlace(n),
           \A p \in Peers : InStaged(n, p)' => InStaged(n, p),
           \A t \in Threads : Rest(n, t)' => Rest(n, t),
           \A d \in Dirs, p \in Peers : InSerial(n, d, p)' => InSerial(n, d, p)
    PROVE  OnePlace(n)'
    BY DEF OnePlace

LEMMA OnlyStaged ==
    ASSUME NEW n \in Packets, NEW p \in Peers,
           \A q \in Peers : InStaged(n, q)' => q = p,
           \A t \in Threads : ~Rest(n, t)',
           \A d \in Dirs, q \in Peers : ~InSerial(n, d, q)'
    PROVE  OnePlace(n)'
    BY DEF OnePlace

LEMMA OnlyRest ==
    ASSUME NEW n \in Packets, NEW t \in Threads,
           \A q \in Peers : ~InStaged(n, q)',
           \A u \in Threads : Rest(n, u)' => u = t,
           \A d \in Dirs, q \in Peers : ~InSerial(n, d, q)'
    PROVE  OnePlace(n)'
    BY DEF OnePlace

LEMMA OnlySerial ==
    ASSUME NEW n \in Packets, NEW d \in Dirs, NEW p \in Peers,
           \A q \in Peers : ~InStaged(n, q)',
           \A u \in Threads : ~Rest(n, u)',
           \A e \in Dirs, q \in Peers : InSerial(n, e, q)' => e = d /\ q = p
    PROVE  OnePlace(n)'
    BY DEF OnePlace

\* A packet is where its place says, and nowhere else.
LEMMA StagedOnly ==
    ASSUME IInv, NEW n \in Packets, NEW p \in Peers, InStaged(n, p)
    PROVE  /\ \A q \in Peers : InStaged(n, q) => q = p
           /\ \A t \in Threads : ~Rest(n, t)
           /\ \A d \in Dirs, q \in Peers : ~InSerial(n, d, q)
    BY DEF IInv, PacketsKept, OnePlace

LEMMA RestOnly ==
    ASSUME IInv, NEW n \in Packets, NEW t \in Threads, Rest(n, t)
    PROVE  /\ \A q \in Peers : ~InStaged(n, q)
           /\ \A u \in Threads : Rest(n, u) => u = t
           /\ \A d \in Dirs, q \in Peers : ~InSerial(n, d, q)
    BY DEF IInv, PacketsKept, OnePlace

LEMMA SerialOnly ==
    ASSUME IInv, NEW n \in Packets, NEW d \in Dirs, NEW p \in Peers, InSerial(n, d, p)
    PROVE  /\ \A q \in Peers : ~InStaged(n, q)
           /\ \A u \in Threads : ~Rest(n, u)
           /\ \A e \in Dirs, q \in Peers : InSerial(n, e, q) => e = d /\ q = p
    BY DEF IInv, PacketsKept, OnePlace

-----------------------------------------------------------------------------
(* Owners.                                                                   *)

Unowned(n) ==
    /\ \A d \in Dirs : ~Waits(n, d)
    /\ \A w \in Workers : ~Worked(n, w)
    /\ \A t \in Threads : ~Half(n, t)

\* What is in no serial queue has no owner.
LEMMA NoPlaceNoOwner ==
    ASSUME IInv, NEW n \in Packets, \A d \in Dirs, p \in Peers : ~InSerial(n, d, p)
    PROVE  Unowned(n)
<1>1. OneOwner(n)
    BY DEF IInv, PacketsKept
<1>2. \A d \in Dirs : ~Waits(n, d)
    BY <1>1 DEF OneOwner
<1>3. ASSUME NEW w \in Workers, Worked(n, w) PROVE FALSE
    <2>1. job[w].dir \in Dirs /\ job[w].peer \in Peers
        BY <1>3 DEF IInv, Types, Jobs, NoJob, Worked
    <2> QED
        BY <1>1, <1>3, <2>1 DEF OneOwner
<1>4. ASSUME NEW t \in Threads, Half(n, t) PROVE FALSE
    <2>1. thread[t].dir \in Dirs /\ thread[t].peer \in Peers
        BY <1>4, CallTypes DEF IInv, Half, At
    <2> QED
        BY <1>1, <1>4, <2>1 DEF OneOwner
<1> QED
    BY <1>2, <1>3, <1>4 DEF Unowned

\* What is finished has no owner.
LEMMA FinishedNoOwner ==
    ASSUME IInv, NEW n \in Packets, state[n] # "uncrypted"
    PROVE  Unowned(n)
    BY DEF IInv, PacketsKept, OneOwner, Unowned

LEMMA UnownedSound ==
    ASSUME NEW n \in Packets, Unowned(n)'
    PROVE  OneOwner(n)'
    BY DEF OneOwner, Unowned

LEMMA UnownedKept ==
    ASSUME NEW n \in Packets, Unowned(n),
           \A d \in Dirs : Waits(n, d)' => Waits(n, d),
           \A w \in Workers : Worked(n, w)' => Worked(n, w),
           \A t \in Threads : Half(n, t)' => Half(n, t)
    PROVE  OneOwner(n)'
    BY DEF OneOwner, Unowned

\* No new owner, and the packet is as it was.
LEMMA OwnerKept ==
    ASSUME IInv, NEW n \in Packets,
           \A d \in Dirs : Waits(n, d)' => Waits(n, d),
           \A w \in Workers : Worked(n, w)' => Worked(n, w) /\ job'[w] = job[w],
           \A t \in Threads : Half(n, t)' => Half(n, t) /\ thread'[t].dir = thread[t].dir
                                                        /\ thread'[t].peer = thread[t].peer,
           \A d \in Dirs, p \in Peers : InSerial(n, d, p) => InSerial(n, d, p)',
           state'[n] = state[n]
    PROVE  OneOwner(n)'
<1>1. OneOwner(n)
    BY DEF IInv, PacketsKept
<1>2. \A w \in Workers : Worked(n, w) => job[w].dir \in Dirs /\ job[w].peer \in Peers
    BY DEF IInv, Types, Jobs, NoJob, Worked
<1>3. \A t \in Threads : Half(n, t) => thread[t].dir \in Dirs /\ thread[t].peer \in Peers
    BY CallTypes DEF IInv, Half, At
<1> QED
    BY <1>1, <1>2, <1>3 DEF OneOwner

LEMMA OwnedByQueue ==
    ASSUME NEW n \in Packets, NEW d \in Dirs,
           \A e \in Dirs : Waits(n, e)' => e = d,
           \A w \in Workers : ~Worked(n, w)',
           \A t \in Threads : ~Half(n, t)',
           \E p \in Peers : InSerial(n, d, p)',
           state'[n] = "uncrypted"
    PROVE  OneOwner(n)'
    BY DEF OneOwner

LEMMA OwnedByWorker ==
    ASSUME NEW n \in Packets, NEW w \in Workers,
           \A d \in Dirs : ~Waits(n, d)',
           \A v \in Workers : Worked(n, v)' => v = w,
           \A t \in Threads : ~Half(n, t)',
           InSerial(n, job[w].dir, job[w].peer)',
           state'[n] = "uncrypted"
    PROVE  OneOwner(n)'
    BY DEF OneOwner

LEMMA OwnedByCall ==
    ASSUME NEW n \in Packets, NEW t \in Threads,
           \A d \in Dirs : ~Waits(n, d)',
           \A w \in Workers : ~Worked(n, w)',
           \A u \in Threads : Half(n, u)' => u = t,
           InSerial(n, thread[t].dir, thread[t].peer)',
           state'[n] = "uncrypted"
    PROVE  OneOwner(n)'
    BY DEF OneOwner

-----------------------------------------------------------------------------
(* Calls that stage packets.                                                 *)

Sound == Types /\ PacketsKept

\* The queues and the workers are left alone, and no call is between the halves
\* of wg_queue_both that was not.
LEMMA OwnersKept ==
    ASSUME IInv, UNCHANGED <<serial, parallel, state, job>>,
           NEW t \in Threads, \A u \in Threads \ {t} : SameCall(u),
           \A n \in Packets : ~Half(n, t)'
    PROVE  \A n \in Packets : OneOwner(n)'
<1> SUFFICES ASSUME NEW n \in Packets PROVE OneOwner(n)'
    OBVIOUS
<1>1. \A u \in Threads : Half(n, u)' => /\ Half(n, u) /\ thread'[u].dir = thread[u].dir
                                        /\ thread'[u].peer = thread[u].peer
    BY DEF SameCall
<1>2. \A d \in Dirs : Waits(n, d)' => Waits(n, d)
    BY DEF Waits
<1>3. \A w \in Workers : Worked(n, w)' => Worked(n, w) /\ job'[w] = job[w]
    BY DEF Worked
<1>4. \A d \in Dirs, p \in Peers : InSerial(n, d, p) => InSerial(n, d, p)'
    BY DEF InSerial
<1> QED
    BY <1>1, <1>2, <1>3, <1>4, OwnerKept

\* A packet that is in no place is staged for p.
LEMMA StagedStep ==
    ASSUME IInv, UNCHANGED serial, NEW m \in Packets, NEW p \in Peers,
           \A q \in Peers : ~InStaged(m, q),
           \A t \in Threads : ~Rest(m, t)',
           \A d \in Dirs, q \in Peers : ~InSerial(m, d, q),
           \A n \in Packets, q \in Peers : InStaged(n, q)' => InStaged(n, q) \/ (n = m /\ q = p),
           \A n \in Packets, t \in Threads : Rest(n, t)' => Rest(n, t)
    PROVE  \A n \in Packets : OnePlace(n)'
<1> SUFFICES ASSUME NEW n \in Packets PROVE OnePlace(n)'
    OBVIOUS
<1>1. \A d \in Dirs, q \in Peers : InSerial(n, d, q)' => InSerial(n, d, q)
    BY DEF InSerial
<1>2. CASE n = m
    BY <1>1, <1>2, OnlyStaged
<1>3. CASE n # m
    <2>1. OnePlace(n)
        BY DEF IInv, PacketsKept
    <2> QED
        BY <1>1, <1>3, <2>1, OnlyKept
<1> QED
    BY <1>2, <1>3

\* The queue of p becomes q.
LEMMA StagedSet ==
    ASSUME Types, NEW p \in Peers, NEW q \in Seq(Packets), staged' = [staged EXCEPT ![p] = q]
    PROVE  /\ staged' \in [Peers -> Seq(Packets)]
           /\ staged'[p] = q /\ \A r \in Peers : r # p => staged'[r] = staged[r]
    BY DEF Types

\* A call of t is at at, and the packet m has been added to what is staged for p.
LEMMA StagedCall ==
    ASSUME IInv, NEW t \in Threads, ~InCall(t) \/ thread[t].at \in {"callout", "handshake"},
           NEW p \in Peers, NEW q \in Seq(Packets), staged' = [staged EXCEPT ![p] = q],
           ToSet(q) \subseteq ToSet(staged[p]) \cup {Allocated},
           IsInjective(q), CanAllocate,
           Moves(t, "delist", p, "tx", <<>>),
           UNCHANGED <<serial, parallel, state, job>>
    PROVE  /\ staged' \in [Peers -> Seq(Packets)] /\ thread' \in [Threads -> Calls \cup {Returned}]
           /\ PacketsKept'
<1> DEFINE m == Allocated
<1>1. /\ m \in Packets
      /\ \A r \in Peers : ~InStaged(m, r)
      /\ \A d \in Dirs, r \in Peers : ~InSerial(m, d, r)
      /\ \A u \in Threads : ~Rest(m, u) /\ ~Half(m, u)
    BY AllocatedFree
<1>2. /\ \A u \in Threads \ {t} : SameCall(u)
      /\ \A n \in Packets : ~Half(n, t)' /\ ~Rest(n, t)'
    BY MovesView, EmptyQueue
<1>3. /\ staged' \in [Peers -> Seq(Packets)]
      /\ staged'[p] = q /\ \A r \in Peers : r # p => staged'[r] = staged[r]
    BY StagedSet DEF IInv
<1> HIDE DEF m
<1>4. \A n \in Packets, r \in Peers : InStaged(n, r)' => InStaged(n, r) \/ (n = m /\ r = p)
    BY <1>3 DEF InStaged, m
<1>5. \A n \in Packets, u \in Threads : Rest(n, u)' => Rest(n, u)
    BY <1>2 DEF SameCall
<1>6. \A n \in Packets : OnePlace(n)'
    BY <1>1, <1>4, <1>5, StagedStep
<1>7. \A n \in Packets : OneOwner(n)'
    BY <1>2, OwnersKept
<1>8. CallLists'
    BY EmptyQueue, MovesLists DEF IInv, PacketsKept
<1>9. \A r \in Peers : IsInjective(staged'[r])
    BY <1>3 DEF IInv, PacketsKept, Lists
<1>10. Lists'
    BY <1>8, <1>9 DEF Lists, CallLists, IInv, PacketsKept
<1> QED
    BY <1>3, <1>6, <1>7, <1>10 DEF PacketsKept, Moves

LEMMA Names == /\ <<>> \in Seq(Packets) /\ "tx" \in Dirs /\ "rx" \in Dirs
              /\ {"callout", "handshake", "delist", "key", "enlist", "queue", "parallel"} \subseteq Ats
              /\ {TRUE, FALSE} \subseteq BOOLEAN
    BY DEF Dirs, Ats

LEMMA XmitKept ==
    ASSUME IInv, NEW t \in Threads, NEW a \in Addresses, Xmit(t, a)
    PROVE  Sound'
<1> DEFINE p == route[a]  q == Pushed(staged[p], Allocated)
<1>1. p \in Peers /\ staged[p] \in Seq(Packets) /\ IsInjective(staged[p])
    BY DEF IInv, Types, PacketsKept, Lists, Xmit
<1>2. Allocated \in Packets /\ Allocated \notin ToSet(staged[p])
    BY <1>1, AllocatedFree DEF Xmit, InStaged
<1>3. q \in Seq(Packets) /\ ToSet(q) \subseteq ToSet(staged[p]) \cup {Allocated} /\ IsInjective(q)
    BY <1>1, <1>2, PushedSound
<1>4. staged' = [staged EXCEPT ![p] = q] /\ Call(t, "delist", p, "tx", <<>>, TRUE)
    BY DEF Xmit
<1> HIDE DEF p, q
<1>5. Moves(t, "delist", p, "tx", <<>>)
    BY <1>1, <1>4, CallMoves, Names DEF IInv
<1>6. /\ staged' \in [Peers -> Seq(Packets)] /\ thread' \in [Threads -> Calls \cup {Returned}]
      /\ PacketsKept'
    BY <1>1, <1>3, <1>4, <1>5, StagedCall DEF Xmit
<1> QED
    BY <1>6 DEF Sound, IInv, Types, Xmit, ctlVars

\* A call that goes on without packets to carry, or is over, where none are staged
\* or those of a peer are dropped.
LEMMA EmptyCall ==
    ASSUME IInv, NEW t \in Threads,
           \/ \E at \in {"callout", "handshake", "delist"}, p \in Peers, d \in Dirs : Moves(t, at, p, d, <<>>)
           \/ Ends(t),
           staged' = staged \/ \E p \in Peers : staged' = [staged EXCEPT ![p] = <<>>],
           UNCHANGED <<serial, parallel, state, job>>
    PROVE  staged' \in [Peers -> Seq(Packets)] /\ PacketsKept'
<1>0. /\ staged' \in [Peers -> Seq(Packets)]
      /\ \A r \in Peers : staged'[r] = staged[r] \/ staged'[r] = <<>>
    BY StagedSet, Names DEF IInv, Types
<1>1. /\ \A u \in Threads \ {t} : SameCall(u)
      /\ \A n \in Packets : ~Half(n, t)' /\ ~Rest(n, t)'
    <2>1. CASE Ends(t)
        BY <2>1, EndsView
    <2>2. ASSUME NEW at \in {"callout", "handshake", "delist"}, NEW p, NEW d, Moves(t, at, p, d, <<>>)
          PROVE  /\ \A u \in Threads \ {t} : SameCall(u)
                 /\ \A n \in Packets : ~Half(n, t)' /\ ~Rest(n, t)'
        BY <2>2, MovesView, EmptyQueue
    <2> QED
        BY <2>1, <2>2
<1>2. CallLists'
    <2>1. CASE Ends(t)
        BY <2>1, EndsLists DEF IInv, PacketsKept
    <2>2. ASSUME NEW at \in {"callout", "handshake", "delist"}, NEW p, NEW d, Moves(t, at, p, d, <<>>)
          PROVE  CallLists'
        BY <2>2, EmptyQueue, MovesLists DEF IInv, PacketsKept
    <2> QED
        BY <2>1, <2>2
<1>3. Lists'
    <2>1. \A r \in Peers : IsInjective(staged'[r])
        BY <1>0, EmptyQueue DEF IInv, PacketsKept, Lists
    <2> QED
        BY <1>2, <2>1 DEF Lists, CallLists, IInv, PacketsKept
<1>4. \A n \in Packets : OneOwner(n)'
    BY <1>1, OwnersKept
<1>5. ASSUME NEW n \in Packets PROVE OnePlace(n)'
    <2>1. \A u \in Threads : Rest(n, u)' => Rest(n, u)
        BY <1>1 DEF SameCall
    <2>2. /\ \A p \in Peers : InStaged(n, p)' => InStaged(n, p)
          /\ \A d \in Dirs, p \in Peers : InSerial(n, d, p)' => InSerial(n, d, p)
        BY <1>0, EmptyQueue DEF InStaged, InSerial
    <2>3. OnePlace(n)
        BY DEF IInv, PacketsKept
    <2> QED
        BY <2>1, <2>2, <2>3, OnlyKept
<1> QED
    BY <1>0, <1>3, <1>4, <1>5 DEF PacketsKept

LEMMA BeginKept ==
    ASSUME IInv, NEW t \in Threads, NEW p \in Peers, HandshakeBegin(t, p) \/ Callout(t, p)
    PROVE  Sound'
<1>1. Moves(t, "handshake", p, "tx", <<>>) \/ Moves(t, "callout", p, "tx", <<>>)
    BY CallMoves, Names DEF IInv, HandshakeBegin, Callout
<1>2. UNCHANGED <<ctlVars, queueVars, job, task>>
    BY DEF HandshakeBegin, Callout
<1>3. PacketsKept'
    BY <1>1, <1>2, EmptyCall, Names DEF queueVars
<1> QED
    BY <1>1, <1>2, <1>3 DEF Sound, IInv, Types, Moves, ctlVars, queueVars

\* A packet is staged for p if there is none, and the call goes on with what is
\* staged.
LEMMA SendKeepaliveKept ==
    ASSUME IInv, NEW t \in Threads, ~InCall(t) \/ thread[t].at \in {"callout", "handshake"},
           NEW p \in Peers, NEW ref \in BOOLEAN, SendKeepalive(t, p, ref),
           UNCHANGED <<serial, parallel, state, job>>
    PROVE  /\ staged' \in [Peers -> Seq(Packets)] /\ thread' \in [Threads -> Calls \cup {Returned}]
           /\ PacketsKept'
<1> DEFINE q == IF staged[p] = <<>> THEN <<Allocated>> ELSE staged[p]
<1>1. staged[p] \in Seq(Packets) /\ IsInjective(staged[p])
    BY DEF IInv, Types, PacketsKept, Lists
<1>2. Allocated \in Packets
    BY AllocatedFree DEF SendKeepalive
<1>3. q \in Seq(Packets) /\ ToSet(q) \subseteq ToSet(staged[p]) \cup {Allocated} /\ IsInjective(q)
    BY <1>1, <1>2, Single
<1>4. staged' = [staged EXCEPT ![p] = q] /\ Call(t, "delist", p, "tx", <<>>, ref)
    BY DEF SendKeepalive
<1> HIDE DEF q
<1>5. Moves(t, "delist", p, "tx", <<>>)
    BY <1>4, CallMoves, Names DEF IInv
<1> QED
    BY <1>3, <1>4, <1>5, StagedCall DEF SendKeepalive

LEMMA HandshakeKept ==
    ASSUME IInv, NEW t \in Threads, Handshake(t)
    PROVE  Sound'
<1>1. InCall(t) /\ thread[t].at = "handshake" /\ thread[t].peer \in Peers
    BY CallTypes DEF Handshake, At, IInv
<1>2. UNCHANGED <<peer, route, serial, parallel, state, job, task>>
    BY DEF Handshake
<1>3. keyed' \in [Peers -> BOOLEAN]
    BY <1>1 DEF Handshake, IInv, Types
<1>4. CASE Flush(t, thread[t].peer)
    BY <1>1, <1>2, <1>3, <1>4, SendKeepaliveKept, Names DEF Flush, Sound, IInv, Types
<1>5. CASE thread' = [thread EXCEPT ![t] = Returned] /\ UNCHANGED staged
    <2>1. Ends(t)
        BY <1>5, CallEnds DEF IInv
    <2>2. PacketsKept'
        BY <1>2, <1>5, <2>1, EmptyCall
    <2> QED
        BY <1>2, <1>3, <1>5, <2>1, <2>2 DEF Sound, IInv, Types, Ends
<1> QED
    BY <1>4, <1>5 DEF Handshake

LEMMA HandlerKept ==
    ASSUME IInv, NEW t \in Threads, HandlerStep(t)
    PROVE  Sound'
<1>1. InCall(t) /\ thread[t].at = "callout" /\ thread[t].peer \in Peers
    BY CallTypes
       DEF HandlerStep, HandlerSends, HandlerClears, HandlerPurges, HandlerInitiates, At, IInv
<1>2. UNCHANGED <<peer, route, serial, parallel, state, job, task>>
    BY DEF HandlerStep, HandlerSends, HandlerClears, HandlerPurges, HandlerInitiates, ctlVars,
           queueVars
<1>3. keyed' \in [Peers -> BOOLEAN]
    BY <1>1 DEF HandlerStep, HandlerSends, HandlerClears, HandlerPurges, HandlerInitiates, ctlVars,
                IInv, Types
<1>4. CASE HandlerSends(t)
    BY <1>1, <1>2, <1>3, <1>4, SendKeepaliveKept, Names DEF HandlerSends, Sound, IInv, Types
<1>5. CASE HandlerClears(t) \/ HandlerPurges(t) \/ HandlerInitiates(t)
    <2>1. Ends(t)
        BY <1>5, CallEnds DEF HandlerClears, HandlerPurges, HandlerInitiates, IInv
    <2>2. staged' = staged \/ staged' = [staged EXCEPT ![thread[t].peer] = <<>>]
        BY <1>5 DEF HandlerClears, HandlerPurges, HandlerInitiates, queueVars
    <2>3. staged' \in [Peers -> Seq(Packets)] /\ PacketsKept'
        BY <1>1, <1>2, <2>1, <2>2, EmptyCall
    <2> QED
        BY <1>2, <1>3, <2>1, <2>3 DEF Sound, IInv, Types, Ends
<1> QED
    BY <1>4, <1>5 DEF HandlerStep

LEMMA ConfirmedKept ==
    ASSUME IInv, NEW t \in Threads, NEW p \in Peers, Confirmed(t, p)
    PROVE  Sound'
<1>1. /\ staged' \in [Peers -> Seq(Packets)] /\ thread' \in [Threads -> Calls \cup {Returned}]
      /\ PacketsKept'
    BY SendKeepaliveKept, Names DEF Confirmed, Flush
<1> QED
    BY <1>1 DEF Sound, IInv, Types, Confirmed, ctlVars

\* A received packet.
LEMMA InputKept ==
    ASSUME IInv, NEW t \in Threads, NEW p \in Peers, Input(t, p)
    PROVE  Sound'
<1> DEFINE m == Allocated
<1>1. /\ m \in Packets
      /\ \A r \in Peers : ~InStaged(m, r)
      /\ \A d \in Dirs, r \in Peers : ~InSerial(m, d, r)
      /\ \A u \in Threads : ~Rest(m, u) /\ ~Half(m, u)
    BY AllocatedFree DEF Input
<1>2. ~InCall(t) /\ Call(t, "queue", p, "rx", <<m>>, TRUE)
    BY DEF Input
<1> HIDE DEF m
<1>3. <<m>> \in Seq(Packets) /\ <<m>> # <<>> /\ ToSet(<<m>>) = {m} /\ IsInjective(<<m>>)
    BY <1>1, Single
<1>4. Moves(t, "queue", p, "rx", <<m>>)
    BY <1>2, <1>3, CallMoves, Names DEF IInv
<1>5. /\ \A u \in Threads \ {t} : SameCall(u)
      /\ \A n \in Packets : ~Half(n, t)' /\ (Rest(n, t)' <=> n = m)
    BY <1>3, <1>4, MovesView
<1>6. CallLists'
    BY <1>3, <1>4, MovesLists DEF IInv, PacketsKept
<1>7. UNCHANGED <<ctlVars, queueVars, job, task>>
    BY DEF Input
<1>8. Lists'
    BY <1>6, <1>7 DEF Lists, CallLists, IInv, PacketsKept, queueVars
<1>9. \A n \in Packets : OneOwner(n)'
    BY <1>5, <1>7, OwnersKept DEF queueVars
<1>10. ASSUME NEW n \in Packets PROVE OnePlace(n)'
    <2>1. /\ \A q \in Peers : InStaged(n, q)' => InStaged(n, q)
          /\ \A d \in Dirs, q \in Peers : InSerial(n, d, q)' => InSerial(n, d, q)
        BY <1>7 DEF InStaged, InSerial, queueVars
    <2>2. CASE n = m
        <3>1. \A u \in Threads : Rest(n, u)' => u = t
            BY <1>1, <1>5, <2>2 DEF SameCall
        <3> QED
            BY <1>1, <2>1, <2>2, <3>1, OnlyRest
    <2>3. CASE n # m
        <3>1. \A u \in Threads : Rest(n, u)' => Rest(n, u)
            BY <1>5, <2>3 DEF SameCall
        <3>2. OnePlace(n)
            BY DEF IInv, PacketsKept
        <3> QED
            BY <2>1, <3>1, <3>2, OnlyKept
    <2> QED
        BY <2>2, <2>3
<1> QED
    BY <1>4, <1>7, <1>8, <1>9, <1>10 DEF Sound, PacketsKept, IInv, Types, Moves, ctlVars, queueVars

\* What is staged becomes the list of the call.
LEMMA DelistKept ==
    ASSUME IInv, NEW t \in Threads, Delist(t)
    PROVE  Sound'
<1> DEFINE p == thread[t].peer  q == staged[p]
<1>1. InCall(t) /\ p \in Peers /\ q \in Seq(Packets) /\ IsInjective(q)
    BY CallTypes DEF Delist, At, IInv, Types, PacketsKept, Lists
<1>2. /\ staged' = [staged EXCEPT ![p] = <<>>]
      /\ UNCHANGED <<ctlVars, serial, parallel, state, job, task>>
    BY DEF Delist
<1>3. IF q = <<>> THEN Ends(t) ELSE Moves(t, "key", p, thread[t].dir, q)
    <2>1. CASE q = <<>>
        BY <2>1, CallEnds DEF Delist, IInv
    <2>2. CASE q # <<>>
        BY <1>1, <2>2, CallGoesOn, Names DEF Delist, IInv
    <2> QED
        BY <2>1, <2>2
<1> HIDE DEF p, q
<1>4. /\ staged' \in [Peers -> Seq(Packets)]
      /\ staged'[p] = <<>> /\ \A r \in Peers : r # p => staged'[r] = staged[r]
    BY <1>1, <1>2, StagedSet, Names DEF IInv
<1>5. /\ \A u \in Threads \ {t} : SameCall(u)
      /\ \A n \in Packets : ~Half(n, t)' /\ (Rest(n, t)' => n \in ToSet(q))
    BY <1>3, MovesView, EndsView
<1>6. CallLists'
    BY <1>1, <1>3, MovesLists, EndsLists DEF IInv, PacketsKept
<1>7. Lists'
    <2>1. \A r \in Peers : IsInjective(staged'[r])
        BY <1>4, EmptyQueue DEF IInv, PacketsKept, Lists
    <2> QED
        BY <1>2, <1>6, <2>1 DEF Lists, CallLists, IInv, PacketsKept
<1>8. \A n \in Packets : OneOwner(n)'
    BY <1>2, <1>5, OwnersKept
<1>9. ASSUME NEW n \in Packets PROVE OnePlace(n)'
    <2>1. /\ \A r \in Peers : InStaged(n, r)' => InStaged(n, r) /\ r # p
          /\ \A d \in Dirs, r \in Peers : InSerial(n, d, r)' => InSerial(n, d, r)
        BY <1>2, <1>4, EmptyQueue DEF InStaged, InSerial
    <2>2. CASE InStaged(n, p)
        <3>1. /\ \A r \in Peers : ~InStaged(n, r)'
              /\ \A u \in Threads : Rest(n, u)' => u = t
              /\ \A d \in Dirs, r \in Peers : ~InSerial(n, d, r)'
            BY <1>1, <1>5, <2>1, <2>2, StagedOnly DEF SameCall
        <3> QED
            BY <3>1, OnlyRest
    <2>3. CASE ~InStaged(n, p)
        <3>1. \A u \in Threads : Rest(n, u)' => Rest(n, u)
            BY <1>5, <2>3 DEF SameCall, InStaged, q
        <3>2. OnePlace(n)
            BY DEF IInv, PacketsKept
        <3> QED
            BY <2>1, <3>1, <3>2, OnlyKept
    <2> QED
        BY <2>2, <2>3
<1>10. thread' \in [Threads -> Calls \cup {Returned}]
    BY <1>3 DEF Moves, Ends
<1> QED
    BY <1>2, <1>4, <1>7, <1>8, <1>9, <1>10 DEF Sound, PacketsKept, IInv, Types, ctlVars

\* A call that carries packets has some.
LEMMA CarriesSome ==
    ASSUME IInv, NEW t \in Threads, InCall(t), thread[t].at \in {"key", "enlist", "queue", "parallel"}
    PROVE  /\ thread[t].list \in Seq(Packets) /\ thread[t].list # <<>> /\ IsInjective(thread[t].list)
           /\ thread[t].peer \in Peers /\ thread[t].dir \in Dirs
    BY CallTypes DEF IInv, PacketsKept, Lists

\* Without a key the list goes back, with one it goes on.
LEMMA KeyKept ==
    ASSUME IInv, NEW t \in Threads, Key(t)
    PROVE  Sound'
<1> DEFINE q == thread[t].list  p == thread[t].peer  d == thread[t].dir
<1>1. /\ InCall(t) /\ thread[t].at = "key" /\ q \in Seq(Packets) /\ q # <<>> /\ IsInjective(q)
      /\ UNCHANGED <<ctlVars, queueVars, job, task>>
    BY CarriesSome DEF Key, At
<1>2. PICK at \in {"queue", "enlist"} : Moves(t, at, p, d, q)
    BY <1>1, CallElsewhere, Names DEF Key, IInv
<1>3. \A n \in Packets : Rest(n, t) <=> n \in ToSet(q)
    BY <1>1 DEF Rest
<1> HIDE DEF q, p, d
<1>4. /\ \A u \in Threads \ {t} : SameCall(u)
      /\ \A n \in Packets : ~Half(n, t)' /\ (Rest(n, t)' <=> n \in ToSet(q))
    BY <1>2, MovesView
<1>5. CallLists'
    BY <1>1, <1>2, MovesLists DEF IInv, PacketsKept
<1>6. Lists'
    BY <1>1, <1>5 DEF Lists, CallLists, IInv, PacketsKept, queueVars
<1>7. \A n \in Packets : OneOwner(n)'
    BY <1>1, <1>4, OwnersKept DEF queueVars
<1>8. ASSUME NEW n \in Packets PROVE OnePlace(n)'
    <2>1. /\ \A r \in Peers : InStaged(n, r)' => InStaged(n, r)
          /\ \A e \in Dirs, r \in Peers : InSerial(n, e, r)' => InSerial(n, e, r)
        BY <1>1 DEF InStaged, InSerial, queueVars
    <2>2. \A u \in Threads : Rest(n, u)' => Rest(n, u)
        BY <1>3, <1>4 DEF SameCall
    <2>3. OnePlace(n)
        BY DEF IInv, PacketsKept
    <2> QED
        BY <2>1, <2>2, <2>3, OnlyKept
<1> QED
    BY <1>1, <1>2, <1>6, <1>7, <1>8 DEF Sound, PacketsKept, IInv, Types, Moves, ctlVars, queueVars

\* The call of t goes on at at with the rest r of its list, or is over.
LEMMA OnWithView ==
    ASSUME IInv, NEW t \in Threads, InCall(t), NEW at \in {"enlist", "queue"},
           NEW r \in Seq(Packets), IsInjective(r), OnWith(t, at, r)
    PROVE  /\ thread' \in [Threads -> Calls \cup {Returned}] /\ CallLists'
           /\ \A u \in Threads \ {t} : SameCall(u)
           /\ \A n \in Packets : ~Half(n, t)' /\ (Rest(n, t)' <=> n \in ToSet(r))
<1>1. at \in Ats
    BY DEF Ats
<1>2. IF r = <<>> THEN Ends(t) ELSE Moves(t, at, thread[t].peer, thread[t].dir, r)
    BY <1>1, CallOnWith DEF IInv
<1>3. CASE r = <<>>
    BY <1>2, <1>3, EndsView, EndsLists, EmptyQueue DEF Ends, IInv, PacketsKept
<1>4. CASE r # <<>>
    BY <1>2, <1>4, MovesView, MovesLists DEF Moves, IInv, PacketsKept
<1> QED
    BY <1>3, <1>4

\* wg_queue_enlist_staged puts the first packet of the list back.
LEMMA EnlistKept ==
    ASSUME IInv, NEW t \in Threads, Enlist(t)
    PROVE  Sound'
<1> DEFINE q == thread[t].list  p == thread[t].peer  r == Tail(q)
           s == Pushed(staged[p], Head(q))
<1>1. /\ InCall(t) /\ thread[t].at = "enlist" /\ p \in Peers
      /\ q \in Seq(Packets) /\ q # <<>> /\ IsInjective(q)
      /\ UNCHANGED <<ctlVars, serial, parallel, state, job, task>>
    BY CarriesSome DEF Enlist, At
<1>2. \A n \in Packets : Rest(n, t) <=> n \in ToSet(q)
    BY <1>1 DEF Rest
<1>3. staged' = [staged EXCEPT ![p] = s] /\ OnWith(t, "enlist", r)
    BY DEF Enlist
<1>4. PICK h \in Packets : /\ h = Head(q) /\ r \in Seq(Packets) /\ IsInjective(r)
                           /\ ToSet(q) = {h} \cup ToSet(r) /\ h \notin ToSet(r)
    BY <1>1, Tailed
<1>5. staged[p] \in Seq(Packets) /\ IsInjective(staged[p])
    BY <1>1 DEF IInv, Types, PacketsKept, Lists
<1> HIDE DEF q, p, r
<1>6. /\ \A u \in Peers : ~InStaged(h, u)
      /\ \A u \in Threads : Rest(h, u) => u = t
      /\ \A d \in Dirs, u \in Peers : ~InSerial(h, d, u)
    BY <1>2, <1>4, RestOnly
<1>7. s \in Seq(Packets) /\ ToSet(s) \subseteq ToSet(staged[p]) \cup {h} /\ IsInjective(s)
    BY <1>1, <1>4, <1>5, <1>6, PushedSound DEF InStaged
<1> HIDE DEF s
<1>8. /\ staged' \in [Peers -> Seq(Packets)]
      /\ staged'[p] = s /\ \A u \in Peers : u # p => staged'[u] = staged[u]
    BY <1>1, <1>3, <1>7, StagedSet DEF IInv
<1>9. /\ thread' \in [Threads -> Calls \cup {Returned}] /\ CallLists'
      /\ \A u \in Threads \ {t} : SameCall(u)
      /\ \A n \in Packets : ~Half(n, t)' /\ (Rest(n, t)' <=> n \in ToSet(r))
    BY <1>1, <1>3, <1>4, OnWithView
<1>10. Lists'
    <2>1. \A u \in Peers : IsInjective(staged'[u])
        BY <1>7, <1>8 DEF IInv, PacketsKept, Lists
    <2> QED
        BY <1>1, <1>9, <2>1 DEF Lists, CallLists, IInv, PacketsKept
<1>11. \A n \in Packets : OneOwner(n)'
    BY <1>1, <1>9, OwnersKept
<1>12. \A n \in Packets : OnePlace(n)'
    <2>1. ASSUME NEW n \in Packets, NEW u \in Peers, InStaged(n, u)'
          PROVE  InStaged(n, u) \/ (n = h /\ u = p)
        <3>1. n \in ToSet(staged'[u])
            BY <2>1 DEF InStaged
        <3> QED
            BY <1>7, <1>8, <3>1 DEF InStaged
    <2>2. ASSUME NEW n \in Packets, NEW u \in Threads, Rest(n, u)' PROVE Rest(n, u)
        <3>1. CASE u = t
            BY <1>2, <1>4, <1>9, <2>2, <3>1
        <3>2. CASE u # t
            BY <1>9, <2>2, <3>2 DEF SameCall
        <3> QED
            BY <3>1, <3>2
    <2>3. \A u \in Threads : ~Rest(h, u)'
        BY <1>4, <1>6, <1>9 DEF SameCall
    <2> QED
        BY <1>1, <1>4, <1>6, <2>1, <2>2, <2>3, StagedStep
<1> QED
    BY <1>1, <1>8, <1>9, <1>10, <1>11, <1>12 DEF Sound, PacketsKept, IInv, Types, ctlVars

\* The first half of wg_queue_both: the packet is in the queue that keeps the order.
LEMMA QueueSerialAccepts ==
    ASSUME IInv, NEW t \in Threads, At(t, "queue"),
           NEW h \in Packets, h = Head(thread[t].list),
           NEW d \in Dirs, d = thread[t].dir, NEW p \in Peers, p = thread[t].peer,
           serial' = [serial EXCEPT ![d][p] = Append(@, h)],
           state' = [state EXCEPT ![h] = "uncrypted"],
           OnWith(t, "parallel", thread[t].list),
           UNCHANGED <<ctlVars, staged, parallel, job, task>>
    PROVE  Sound'
<1> DEFINE q == thread[t].list  r == Tail(q)
<1>1. InCall(t) /\ thread[t].at = "queue" /\ q \in Seq(Packets) /\ q # <<>> /\ IsInjective(q)
    BY CarriesSome DEF At
<1>2. /\ h = Head(q) /\ r \in Seq(Packets) /\ IsInjective(r)
      /\ ToSet(q) = {h} \cup ToSet(r) /\ h \notin ToSet(r)
    BY <1>1, Tailed
<1>3. \A n \in Packets : Rest(n, t) <=> n \in ToSet(q)
    BY <1>1 DEF Rest
<1>4. Moves(t, "parallel", p, d, q)
    BY <1>1, CallOnWith, Names DEF IInv
<1> HIDE DEF q
<1>5. /\ \A u \in Threads \ {t} : SameCall(u)
      /\ \A n \in Packets : (Half(n, t)' <=> n = h) /\ (Rest(n, t)' <=> n \in ToSet(r))
    BY <1>2, <1>4, MovesView
<1> HIDE DEF r
<1>6. /\ \A u \in Peers : ~InStaged(h, u)
      /\ \A u \in Threads : Rest(h, u) => u = t
      /\ \A e \in Dirs, u \in Peers : ~InSerial(h, e, u)
    BY <1>2, <1>3, RestOnly
<1>7. serial[d][p] \in Seq(Packets) /\ IsInjective(serial[d][p]) /\ h \notin ToSet(serial[d][p])
    BY <1>6 DEF IInv, Types, PacketsKept, Lists, InSerial
<1> DEFINE s == Append(serial[d][p], h)
<1>8. s \in Seq(Packets) /\ ToSet(s) = ToSet(serial[d][p]) \cup {h} /\ IsInjective(s)
    BY <1>7, Appended
<1>9. serial' = [serial EXCEPT ![d][p] = s]
    OBVIOUS
<1> HIDE DEF s
<1>10. /\ serial' \in [Dirs -> [Peers -> Seq(Packets)]] /\ serial'[d][p] = s
       /\ \A e \in Dirs, u \in Peers : e # d \/ u # p => serial'[e][u] = serial[e][u]
    BY <1>8, <1>9 DEF IInv, Types
<1>11. ASSUME NEW n \in Packets, NEW e \in Dirs, NEW u \in Peers
       PROVE  InSerial(n, e, u)' <=> InSerial(n, e, u) \/ (n = h /\ e = d /\ u = p)
    BY <1>8, <1>10 DEF InSerial
<1>12. Lists'
    <2>1. CallLists'
        BY <1>1, <1>4, MovesLists DEF IInv, PacketsKept
    <2>2. \A e \in Dirs, u \in Peers : IsInjective(serial'[e][u])
        BY <1>8, <1>10 DEF IInv, PacketsKept, Lists
    <2> QED
        BY <2>1, <2>2 DEF Lists, CallLists, IInv, PacketsKept
<1>13. ASSUME NEW n \in Packets PROVE OnePlace(n)'
    <2>1. \A u \in Peers : InStaged(n, u)' => InStaged(n, u)
        BY DEF InStaged
    <2>2. CASE n = h
        <3>1. ASSUME NEW u \in Threads, Rest(n, u)' PROVE FALSE
            <4>1. CASE u = t
                BY <1>2, <1>5, <2>2, <3>1, <4>1
            <4>2. CASE u # t
                <5>1. Rest(n, u)
                    BY <1>5, <3>1, <4>2 DEF SameCall
                <5> QED
                    BY <1>6, <2>2, <4>2, <5>1
            <4> QED
                BY <4>1, <4>2
        <3>2. \A u \in Peers : ~InStaged(n, u)'
            BY <1>6, <2>1, <2>2
        <3>3. \A e \in Dirs, u \in Peers : InSerial(n, e, u)' => e = d /\ u = p
            BY <1>6, <1>11, <2>2
        <3> QED
            BY <3>1, <3>2, <3>3, OnlySerial
    <2>3. CASE n # h
        <3>1. \A u \in Threads : Rest(n, u)' => Rest(n, u)
            BY <1>2, <1>3, <1>5 DEF SameCall
        <3>2. OnePlace(n)
            BY DEF IInv, PacketsKept
        <3> QED
            BY <1>11, <2>1, <2>3, <3>1, <3>2, OnlyKept
    <2> QED
        BY <2>2, <2>3
<1>14. ASSUME NEW n \in Packets PROVE OneOwner(n)'
    <2>1. /\ \A e \in Dirs : Waits(n, e)' => Waits(n, e)
          /\ \A w \in Workers : Worked(n, w)' => Worked(n, w) /\ job'[w] = job[w]
        BY DEF Waits, Worked
    <2>2. CASE n = h
        <3>1. Unowned(n)
            BY <1>6, <2>2, NoPlaceNoOwner
        <3>2. \A u \in Threads : Half(n, u)' => u = t
            BY <1>5, <3>1 DEF SameCall, Unowned
        <3>3. InSerial(n, d, p)' /\ thread'[t].dir = d /\ thread'[t].peer = p
            BY <1>4, <1>11, <2>2 DEF Moves
        <3>4. InSerial(n, thread[t].dir, thread[t].peer)'
            BY <3>3 DEF InSerial
        <3>5. state'[n] = "uncrypted"
            BY <2>2 DEF IInv, Types
        <3> QED
            BY <2>1, <3>1, <3>2, <3>4, <3>5, OwnedByCall DEF Unowned
    <2>3. CASE n # h
        <3>1. \A u \in Threads : Half(n, u)' => Half(n, u) /\ thread'[u] = thread[u]
            BY <1>5, <2>3 DEF SameCall
        <3>2. state'[n] = state[n]
            BY <2>3 DEF IInv, Types
        <3> QED
            BY <1>11, <2>1, <3>1, <3>2, OwnerKept
    <2> QED
        BY <2>2, <2>3
<1>15. state' \in [Packets -> States]
    BY DEF IInv, Types, States
<1> QED
    BY <1>4, <1>10, <1>12, <1>13, <1>14, <1>15
       DEF Sound, PacketsKept, IInv, Types, Moves, ctlVars

LEMMA QueueSerialKept ==
    ASSUME IInv, NEW t \in Threads, QueueSerial(t)
    PROVE  Sound'
<1> DEFINE q == thread[t].list  r == Tail(q)
<1>1. /\ InCall(t) /\ thread[t].at = "queue" /\ q \in Seq(Packets) /\ q # <<>> /\ IsInjective(q)
      /\ thread[t].dir \in Dirs /\ thread[t].peer \in Peers
    BY CarriesSome DEF QueueSerial, At
<1>2. /\ Head(q) \in Packets /\ r \in Seq(Packets) /\ IsInjective(r)
      /\ ToSet(q) = {Head(q)} \cup ToSet(r)
    BY <1>1, Tailed
<1>3. CASE /\ serial' = [serial EXCEPT ![thread[t].dir][thread[t].peer] = Append(@, Head(q))]
           /\ state' = [state EXCEPT ![Head(q)] = "uncrypted"]
           /\ OnWith(t, "parallel", q) /\ UNCHANGED <<ctlVars, staged, parallel, job, task>>
    <2>1. PICK h \in Packets, d \in Dirs, p \in Peers :
              h = Head(q) /\ d = thread[t].dir /\ p = thread[t].peer
        BY <1>1, <1>2
    <2> QED
        BY <1>1, <1>3, <2>1, QueueSerialAccepts DEF At
<1>4. CASE /\ OnWith(t, "queue", r) /\ UNCHANGED <<serial, state>>
           /\ UNCHANGED <<ctlVars, staged, parallel, job, task>>
    <2>1. \A n \in Packets : Rest(n, t) <=> n \in ToSet(q)
        BY <1>1 DEF Rest
    <2> HIDE DEF q, r
    <2>2. /\ thread' \in [Threads -> Calls \cup {Returned}] /\ CallLists'
          /\ \A u \in Threads \ {t} : SameCall(u)
          /\ \A n \in Packets : ~Half(n, t)' /\ (Rest(n, t)' <=> n \in ToSet(r))
        BY <1>1, <1>2, <1>4, OnWithView
    <2>3. Lists'
        BY <1>4, <2>2 DEF Lists, CallLists, IInv, PacketsKept
    <2>4. \A n \in Packets : OneOwner(n)'
        BY <1>4, <2>2, OwnersKept
    <2>5. ASSUME NEW n \in Packets PROVE OnePlace(n)'
        <3>1. /\ \A u \in Peers : InStaged(n, u)' => InStaged(n, u)
              /\ \A e \in Dirs, u \in Peers : InSerial(n, e, u)' => InSerial(n, e, u)
            BY <1>4 DEF InStaged, InSerial
        <3>2. \A u \in Threads : Rest(n, u)' => Rest(n, u)
            BY <1>2, <2>1, <2>2 DEF SameCall
        <3>3. OnePlace(n)
            BY DEF IInv, PacketsKept
        <3> QED
            BY <3>1, <3>2, <3>3, OnlyKept
    <2> QED
        BY <1>4, <2>2, <2>3, <2>4, <2>5 DEF Sound, PacketsKept, IInv, Types, ctlVars
<1> QED
    BY <1>3, <1>4 DEF QueueSerial

\* The packet a call has put in its serial queue only has no other owner.
LEMMA HalfOnly ==
    ASSUME IInv, NEW n \in Packets, NEW t \in Threads, Half(n, t)
    PROVE  /\ \A d \in Dirs : ~Waits(n, d)
           /\ \A w \in Workers : ~Worked(n, w)
           /\ \A u \in Threads : Half(n, u) => u = t
           /\ InSerial(n, thread[t].dir, thread[t].peer)
           /\ state[n] = "uncrypted"
    BY DEF IInv, PacketsKept, OneOwner

\* The second half: the packet waits for a worker, or is dead.
LEMMA QueueParallelKept ==
    ASSUME IInv, NEW t \in Threads, QueueParallel(t)
    PROVE  Sound'
<1> DEFINE q == thread[t].list  r == Tail(q)
<1>1. /\ InCall(t) /\ thread[t].at = "parallel" /\ q \in Seq(Packets) /\ q # <<>> /\ IsInjective(q)
      /\ thread[t].dir \in Dirs /\ thread[t].peer \in Peers
    BY CarriesSome DEF QueueParallel, At
<1>2. PICK h \in Packets : h = Head(q) /\ r \in Seq(Packets) /\ IsInjective(r)
    BY <1>1, Tailed
<1>3. PICK d \in Dirs, p \in Peers : d = thread[t].dir /\ p = thread[t].peer
    BY <1>1
<1>4. /\ \A n \in Packets : (Rest(n, t) <=> n \in ToSet(r)) /\ (Half(n, t) <=> n = h)
    BY <1>1, <1>2 DEF Rest, Half, At
<1>5. /\ \/ parallel' = [parallel EXCEPT ![d] = Append(@, h)] /\ UNCHANGED state
         \/ state' = [state EXCEPT ![h] = "dead"] /\ UNCHANGED parallel
      /\ OnWith(t, "queue", r)
      /\ UNCHANGED <<ctlVars, staged, serial, job, task>>
    BY <1>2, <1>3 DEF QueueParallel, Refused
<1> HIDE DEF q, r
<1>6. /\ thread' \in [Threads -> Calls \cup {Returned}] /\ CallLists'
      /\ \A u \in Threads \ {t} : SameCall(u)
      /\ \A n \in Packets : ~Half(n, t)' /\ (Rest(n, t)' <=> n \in ToSet(r))
    BY <1>1, <1>2, <1>5, OnWithView
<1>7. /\ \A e \in Dirs : ~Waits(h, e)
      /\ \A w \in Workers : ~Worked(h, w)
      /\ \A u \in Threads : Half(h, u) => u = t
      /\ InSerial(h, d, p) /\ state[h] = "uncrypted"
    BY <1>3, <1>4, HalfOnly
<1>8. /\ parallel' \in [Dirs -> Seq(Packets)]
      /\ \A e \in Dirs : IsInjective(parallel'[e])
      /\ \A n \in Packets, e \in Dirs : Waits(n, e)' => Waits(n, e) \/ (n = h /\ e = d)
      /\ parallel' # parallel => state' = state
    <2>1. parallel[d] \in Seq(Packets) /\ IsInjective(parallel[d]) /\ h \notin ToSet(parallel[d])
        BY <1>7 DEF IInv, Types, PacketsKept, Lists, Waits
    <2> DEFINE s == Append(parallel[d], h)
    <2>2. s \in Seq(Packets) /\ ToSet(s) = ToSet(parallel[d]) \cup {h} /\ IsInjective(s)
        BY <2>1, Appended
    <2>3. parallel' = [parallel EXCEPT ![d] = s] \/ parallel' = parallel
        BY <1>5
    <2> HIDE DEF s
    <2>4. /\ parallel' \in [Dirs -> Seq(Packets)] /\ parallel'[d] \in {s, parallel[d]}
          /\ \A e \in Dirs : e # d => parallel'[e] = parallel[e]
        BY <2>2, <2>3 DEF IInv, Types
    <2>5. \A e \in Dirs : IsInjective(parallel'[e])
        BY <2>2, <2>4 DEF IInv, PacketsKept, Lists
    <2>6. ASSUME NEW n \in Packets, NEW e \in Dirs, Waits(n, e)'
          PROVE  Waits(n, e) \/ (n = h /\ e = d)
        <3>1. n \in ToSet(parallel'[e])
            BY <2>6 DEF Waits
        <3> QED
            BY <2>2, <2>4, <3>1 DEF Waits
    <2> QED
        BY <1>5, <2>4, <2>5, <2>6
<1>9. Lists'
    BY <1>5, <1>6, <1>8 DEF Lists, CallLists, IInv, PacketsKept
<1>10. ASSUME NEW n \in Packets PROVE OnePlace(n)'
    <2>1. /\ \A u \in Peers : InStaged(n, u)' => InStaged(n, u)
          /\ \A e \in Dirs, u \in Peers : InSerial(n, e, u)' => InSerial(n, e, u)
        BY <1>5 DEF InStaged, InSerial
    <2>2. \A u \in Threads : Rest(n, u)' => Rest(n, u)
        BY <1>4, <1>6 DEF SameCall
    <2>3. OnePlace(n)
        BY DEF IInv, PacketsKept
    <2> QED
        BY <2>1, <2>2, <2>3, OnlyKept
<1>11. ASSUME NEW n \in Packets PROVE OneOwner(n)'
    <2>1. \A w \in Workers : Worked(n, w)' => Worked(n, w) /\ job'[w] = job[w]
        BY <1>5 DEF Worked
    <2>2. \A e \in Dirs, u \in Peers : InSerial(n, e, u) => InSerial(n, e, u)'
        BY <1>5 DEF InSerial
    <2>3. \A u \in Threads : Half(n, u)' => Half(n, u) /\ thread'[u] = thread[u] /\ u # t
        BY <1>6 DEF SameCall
    <2>4. CASE n = h
        <3>1. \A u \in Threads : ~Half(n, u)'
            BY <1>7, <2>3, <2>4
        <3>2. \A w \in Workers : ~Worked(n, w)'
            BY <1>7, <2>1, <2>4
        <3>3. CASE parallel' = parallel
            <4>1. \A e \in Dirs : ~Waits(n, e)'
                BY <1>7, <2>4, <3>3 DEF Waits
            <4>2. Unowned(n)'
                BY <3>1, <3>2, <4>1 DEF Unowned
            <4> QED
                BY <4>2, UnownedSound
        <3>4. CASE parallel' # parallel
            <4>1. \A e \in Dirs : Waits(n, e)' => e = d
                BY <1>7, <1>8, <2>4
            <4>2. state'[n] = "uncrypted" /\ \E u \in Peers : InSerial(n, d, u)'
                BY <1>7, <1>8, <2>2, <2>4, <3>4
            <4> QED
                BY <3>1, <3>2, <4>1, <4>2, OwnedByQueue
        <3> QED
            BY <3>3, <3>4
    <2>5. CASE n # h
        <3>1. \A e \in Dirs : Waits(n, e)' => Waits(n, e)
            BY <1>8, <2>5
        <3>2. state'[n] = state[n]
            BY <1>5, <2>5 DEF IInv, Types
        <3> QED
            BY <2>1, <2>2, <2>3, <3>1, <3>2, OwnerKept
    <2> QED
        BY <2>4, <2>5
<1>12. state' \in [Packets -> States]
    BY <1>5 DEF IInv, Types, States
<1> QED
    BY <1>5, <1>6, <1>8, <1>9, <1>10, <1>11, <1>12
       DEF Sound, PacketsKept, IInv, Types, ctlVars

-----------------------------------------------------------------------------
(* The workers, the tasks and the control.                                   *)

\* Nothing new is anywhere.
LEMMA PlacesShrink ==
    ASSUME IInv, thread' = thread,
           \A n \in Packets, p \in Peers : InStaged(n, p)' => InStaged(n, p),
           \A n \in Packets, d \in Dirs, p \in Peers : InSerial(n, d, p)' => InSerial(n, d, p)
    PROVE  CallLists' /\ \A n \in Packets : OnePlace(n)'
<1>1. \A n \in Packets, t \in Threads : Rest(n, t)' => Rest(n, t)
    BY CallsUnchanged DEF SameCall
<1>2. \A n \in Packets : OnePlace(n)
    BY DEF IInv, PacketsKept
<1>3. \A n \in Packets : OnePlace(n)'
    BY <1>1, <1>2, OnlyKept
<1>4. CallLists'
    BY DEF CallLists, InCall, IInv, PacketsKept, Lists
<1> QED
    BY <1>3, <1>4

LEMMA HalfUnchanged ==
    ASSUME thread' = thread
    PROVE  \A n \in Packets, t \in Threads :
              Half(n, t)' => Half(n, t) /\ thread'[t].dir = thread[t].dir
                                       /\ thread'[t].peer = thread[t].peer
    BY CallsUnchanged DEF SameCall

\* The packets are left alone, and no worker begins with one.
LEMMA QuietKept ==
    ASSUME IInv, UNCHANGED <<queueVars, thread>>,
           \A w \in Workers : job'[w] = job[w] \/ job'[w].at # "crypt"
    PROVE  PacketsKept'
<1>1. /\ \A n \in Packets, p \in Peers : InStaged(n, p)' <=> InStaged(n, p)
      /\ \A n \in Packets, d \in Dirs, p \in Peers : InSerial(n, d, p)' <=> InSerial(n, d, p)
      /\ \A n \in Packets, d \in Dirs : Waits(n, d)' <=> Waits(n, d)
      /\ \A n \in Packets : state'[n] = state[n]
    BY DEF InStaged, InSerial, Waits, queueVars
<1>2. \A n \in Packets, w \in Workers : Worked(n, w)' => Worked(n, w) /\ job'[w] = job[w]
    BY DEF Worked
<1>3. CallLists' /\ \A n \in Packets : OnePlace(n)'
    BY <1>1, PlacesShrink
<1>4. Lists'
    BY <1>3 DEF Lists, CallLists, IInv, PacketsKept, queueVars
<1>5. \A n \in Packets : OneOwner(n)'
    BY <1>1, <1>2, HalfUnchanged, OwnerKept
<1> QED
    BY <1>3, <1>4, <1>5 DEF PacketsKept

\* A worker has the packet at the head of its queue, which nobody else has.
LEMMA TakeKept ==
    ASSUME IInv, NEW w \in Workers, NEW d \in Dirs, Take(w, d)
    PROVE  Sound'
<1> DEFINE q == parallel[d]  r == Tail(q)
<1>1. /\ q \in Seq(Packets) /\ q # <<>> /\ IsInjective(q)
      /\ UNCHANGED <<ctlVars, staged, serial, state, thread, task>>
      /\ parallel' = [parallel EXCEPT ![d] = r]
    BY DEF Take, IInv, Types, PacketsKept, Lists
<1>2. PICK h \in Packets : /\ h = Head(q) /\ r \in Seq(Packets) /\ IsInjective(r)
                           /\ ToSet(q) = {h} \cup ToSet(r) /\ h \notin ToSet(r)
    BY <1>1, Tailed
<1>3. PICK p \in Peers :
          /\ h \in ToSet(serial[d][p])
          /\ job' = [job EXCEPT ![w] = [at |-> "crypt", packet |-> h, peer |-> p, dir |-> d]]
    BY <1>2 DEF Take
<1>4. Waits(h, d)
    BY <1>2 DEF Waits
<1>5. /\ \A e \in Dirs : Waits(h, e) => e = d
      /\ \A v \in Workers : ~Worked(h, v)
      /\ \A t \in Threads : ~Half(h, t)
      /\ state[h] = "uncrypted"
    BY <1>4 DEF IInv, PacketsKept, OneOwner
<1>6. /\ parallel' \in [Dirs -> Seq(Packets)] /\ parallel'[d] = r
      /\ \A e \in Dirs : e # d => parallel'[e] = parallel[e]
    BY <1>1, <1>2 DEF IInv, Types
<1>7. ASSUME NEW n \in Packets, NEW e \in Dirs, Waits(n, e)'
      PROVE  Waits(n, e) /\ ~(n = h /\ e = d)
    <2>1. n \in ToSet(parallel'[e])
        BY <1>7 DEF Waits
    <2> HIDE DEF r
    <2>2. CASE e = d
        BY <1>2, <1>6, <2>1, <2>2 DEF Waits
    <2>3. CASE e # d
        BY <1>6, <2>1, <2>3 DEF Waits
    <2> QED
        BY <2>2, <2>3
<1>8. /\ job' \in [Workers -> Jobs \cup {NoJob}]
      /\ job'[w].at = "crypt" /\ job'[w].packet = h /\ job'[w].peer = p /\ job'[w].dir = d
      /\ \A v \in Workers \ {w} : job'[v] = job[v]
    <2> DEFINE j == [at |-> "crypt", packet |-> h, peer |-> p, dir |-> d]
    <2>1. j \in Jobs /\ j.at = "crypt" /\ j.packet = h /\ j.peer = p /\ j.dir = d
        BY DEF Jobs
    <2>2. job' = [job EXCEPT ![w] = j]
        BY <1>3
    <2> HIDE DEF j
    <2> QED
        BY <2>1, <2>2 DEF IInv, Types
<1> HIDE DEF q, r
<1>9. /\ \A n \in Packets, u \in Peers : InStaged(n, u)' <=> InStaged(n, u)
      /\ \A n \in Packets, e \in Dirs, u \in Peers : InSerial(n, e, u)' <=> InSerial(n, e, u)
    BY <1>1 DEF InStaged, InSerial
<1>10. CallLists' /\ \A n \in Packets : OnePlace(n)'
    BY <1>1, <1>9, PlacesShrink
<1>11. Lists'
    <2>1. \A e \in Dirs : IsInjective(parallel'[e])
        BY <1>2, <1>6 DEF IInv, PacketsKept, Lists
    <2> QED
        BY <1>1, <1>10, <2>1 DEF Lists, CallLists, IInv, PacketsKept
<1>12. ASSUME NEW n \in Packets PROVE OneOwner(n)'
    <2>1. \A t \in Threads : Half(n, t)' => Half(n, t) /\ thread'[t].dir = thread[t].dir
                                                     /\ thread'[t].peer = thread[t].peer
        BY <1>1, HalfUnchanged
    <2>2. CASE n = h
        <3>1. \A e \in Dirs : ~Waits(n, e)'
            BY <1>5, <1>7, <2>2
        <3>2. \A v \in Workers : Worked(n, v)' => v = w
            BY <1>5, <1>8, <2>2 DEF Worked
        <3>3. \A t \in Threads : ~Half(n, t)'
            BY <1>5, <2>1, <2>2
        <3>4. InSerial(n, job[w].dir, job[w].peer)'
            BY <1>1, <1>3, <1>8, <2>2 DEF InSerial
        <3>5. state'[n] = "uncrypted"
            BY <1>1, <1>5, <2>2
        <3> QED
            BY <3>1, <3>2, <3>3, <3>4, <3>5, OwnedByWorker
    <2>3. CASE n # h
        <3>1. \A v \in Workers : Worked(n, v)' => Worked(n, v) /\ job'[v] = job[v]
            BY <1>8, <2>3 DEF Worked
        <3>2. \A e \in Dirs : Waits(n, e)' => Waits(n, e)
            BY <1>7
        <3>3. state'[n] = state[n]
            BY <1>1
        <3>4. \A e \in Dirs, u \in Peers : InSerial(n, e, u) => InSerial(n, e, u)'
            BY <1>9
        <3> QED
            BY <2>1, <3>1, <3>2, <3>3, <3>4, OwnerKept
    <2> QED
        BY <2>2, <2>3
<1> QED
    BY <1>1, <1>6, <1>8, <1>10, <1>11, <1>12 DEF Sound, PacketsKept, IInv, Types, ctlVars

\* A job in progress.
LEMMA JobTypes ==
    ASSUME Types, NEW w \in Workers, job[w].at \in {"crypt", "notify"}
    PROVE  /\ job[w] # NoJob /\ job[w].peer \in Peers /\ job[w].dir \in Dirs
           /\ job[w].at = "crypt" => job[w].packet \in Packets
<1>1. job[w] \in Jobs /\ job[w] # NoJob
    BY DEF Types, NoJob
<1> QED
    BY <1>1 DEF Jobs

\* The packet a worker has finished has no owner any more.
LEMMA CryptKept ==
    ASSUME IInv, NEW w \in Workers, Crypt(w)
    PROVE  Sound'
<1>1. job[w].at = "crypt" /\ UNCHANGED <<ctlVars, staged, serial, parallel, thread, task>>
    BY DEF Crypt
<1>2. /\ job[w].peer \in Peers /\ job[w].dir \in Dirs /\ job[w].packet \in Packets
    BY <1>1, JobTypes DEF IInv
<1>3. PICK h \in Packets, p \in Peers, d \in Dirs :
          h = job[w].packet /\ p = job[w].peer /\ d = job[w].dir
    BY <1>2
<1>4. PICK s \in {"crypted", "dead"} :
          /\ state' = [state EXCEPT ![h] = s]
          /\ job' = [job EXCEPT ![w] = [at |-> "notify", peer |-> p, dir |-> d]]
    BY <1>3 DEF Crypt
<1>5. /\ job' \in [Workers -> Jobs \cup {NoJob}] /\ job'[w].at = "notify"
      /\ \A v \in Workers \ {w} : job'[v] = job[v]
    <2> DEFINE j == [at |-> "notify", peer |-> p, dir |-> d]
    <2>1. j \in Jobs /\ j.at = "notify"
        BY DEF Jobs
    <2>2. job' = [job EXCEPT ![w] = j]
        BY <1>4
    <2> HIDE DEF j
    <2> QED
        BY <2>1, <2>2 DEF IInv, Types
<1>6. Worked(h, w)
    BY <1>1, <1>3 DEF Worked
<1>7. /\ \A e \in Dirs : ~Waits(h, e)
      /\ \A v \in Workers : Worked(h, v) => v = w
      /\ \A t \in Threads : ~Half(h, t)
    BY <1>6 DEF IInv, PacketsKept, OneOwner
<1>8. /\ \A n \in Packets, u \in Peers : InStaged(n, u)' <=> InStaged(n, u)
      /\ \A n \in Packets, e \in Dirs, u \in Peers : InSerial(n, e, u)' <=> InSerial(n, e, u)
      /\ \A n \in Packets, e \in Dirs : Waits(n, e)' <=> Waits(n, e)
    BY <1>1 DEF InStaged, InSerial, Waits
<1>9. CallLists' /\ \A n \in Packets : OnePlace(n)'
    BY <1>1, <1>8, PlacesShrink
<1>10. Lists'
    BY <1>1, <1>9 DEF Lists, CallLists, IInv, PacketsKept
<1>11. ASSUME NEW n \in Packets PROVE OneOwner(n)'
    <2>1. \A t \in Threads : Half(n, t)' => Half(n, t) /\ thread'[t].dir = thread[t].dir
                                                     /\ thread'[t].peer = thread[t].peer
        BY <1>1, HalfUnchanged
    <2>2. \A v \in Workers : Worked(n, v)' => Worked(n, v) /\ job'[v] = job[v] /\ v # w
        BY <1>5 DEF Worked
    <2>3. CASE n = h
        <3>1. Unowned(n)'
            BY <1>7, <1>8, <2>1, <2>2, <2>3 DEF Unowned
        <3> QED
            BY <3>1, UnownedSound
    <2>4. CASE n # h
        <3>1. state'[n] = state[n]
            BY <1>4, <2>4 DEF IInv, Types
        <3> QED
            BY <1>8, <2>1, <2>2, <3>1, OwnerKept
    <2> QED
        BY <2>3, <2>4
<1>12. state' \in [Packets -> States]
    BY <1>4 DEF IInv, Types, States
<1> QED
    BY <1>1, <1>5, <1>9, <1>10, <1>11, <1>12 DEF Sound, PacketsKept, IInv, Types, ctlVars

\* The record of one task changes.
LEMMA TaskSet ==
    ASSUME Types, NEW d \in Dirs, NEW p \in Peers
    PROVE  /\ [task EXCEPT ![d][p].queued = TRUE]
                  \in [Dirs -> [Peers -> [queued : BOOLEAN, running : BOOLEAN]]]
           /\ [task EXCEPT ![d][p].running = FALSE]
                  \in [Dirs -> [Peers -> [queued : BOOLEAN, running : BOOLEAN]]]
           /\ [task EXCEPT ![d][p] = [queued |-> FALSE, running |-> TRUE]]
                  \in [Dirs -> [Peers -> [queued : BOOLEAN, running : BOOLEAN]]]
<1>1. task[d][p] \in [queued : BOOLEAN, running : BOOLEAN]
    BY DEF Types
<1>2. ASSUME NEW rec \in [queued : BOOLEAN, running : BOOLEAN]
      PROVE  [task EXCEPT ![d][p] = rec]
                \in [Dirs -> [Peers -> [queued : BOOLEAN, running : BOOLEAN]]]
    BY DEF Types
<1>3. /\ [task[d][p] EXCEPT !.queued = TRUE] \in [queued : BOOLEAN, running : BOOLEAN]
      /\ [task[d][p] EXCEPT !.running = FALSE] \in [queued : BOOLEAN, running : BOOLEAN]
      /\ [queued |-> FALSE, running |-> TRUE] \in [queued : BOOLEAN, running : BOOLEAN]
    BY <1>1
<1>4. /\ [task EXCEPT ![d][p].queued = TRUE]
            = [task EXCEPT ![d][p] = [task[d][p] EXCEPT !.queued = TRUE]]
      /\ [task EXCEPT ![d][p].running = FALSE]
            = [task EXCEPT ![d][p] = [task[d][p] EXCEPT !.running = FALSE]]
    OBVIOUS
<1> QED
    BY <1>2, <1>3, <1>4

LEMMA NotifyKept ==
    ASSUME IInv, NEW w \in Workers, Notify(w)
    PROVE  Sound'
<1>1. /\ job[w].at = "notify" /\ job' = [job EXCEPT ![w] = NoJob]
      /\ UNCHANGED <<ctlVars, queueVars, thread>>
      /\ task' = [task EXCEPT ![job[w].dir][job[w].peer].queued = TRUE] \/ task' = task
    BY DEF Notify
<1>2. job[w].peer \in Peers /\ job[w].dir \in Dirs
    BY <1>1, JobTypes DEF IInv
<1>3. NoJob.at # "crypt"
    BY DEF NoJob
<1>4. /\ job' \in [Workers -> Jobs \cup {NoJob}]
      /\ \A v \in Workers : job'[v] = job[v] \/ job'[v].at # "crypt"
    BY <1>1, <1>3 DEF IInv, Types
<1>5. PacketsKept'
    BY <1>1, <1>4, QuietKept
<1>6. task' \in [Dirs -> [Peers -> [queued : BOOLEAN, running : BOOLEAN]]]
    <2>1. CASE task' = [task EXCEPT ![job[w].dir][job[w].peer].queued = TRUE]
        BY <1>2, <2>1, TaskSet, Zenon DEF IInv
    <2> QED
        BY <1>1, <2>1 DEF IInv, Types
<1> QED
    BY <1>1, <1>4, <1>5, <1>6 DEF Sound, IInv, Types, ctlVars, queueVars

LEMMA TaskTurnKept ==
    ASSUME IInv, NEW d \in Dirs, NEW p \in Peers, TaskStart(d, p) \/ TaskEnd(d, p)
    PROVE  Sound'
<1>1. UNCHANGED <<ctlVars, queueVars, thread, job>>
    BY DEF TaskStart, TaskEnd
<1>2. PacketsKept'
    BY <1>1, QuietKept
<1>3. task' \in [Dirs -> [Peers -> [queued : BOOLEAN, running : BOOLEAN]]]
    <2>1. CASE TaskStart(d, p)
        BY <2>1, TaskSet, Zenon DEF TaskStart, IInv
    <2>2. CASE TaskEnd(d, p)
        BY <2>2, TaskSet, Zenon DEF TaskEnd, IInv
    <2> QED
        BY <2>1, <2>2
<1> QED
    BY <1>1, <1>2, <1>3 DEF Sound, IInv, Types, ctlVars, queueVars

\* The task delivers and frees a packet that is finished, so that nobody has it.
LEMMA DeliverKept ==
    ASSUME IInv, NEW d \in Dirs, NEW p \in Peers, Deliver(d, p)
    PROVE  Sound'
<1> DEFINE q == serial[d][p]  r == Tail(q)
<1>1. /\ q \in Seq(Packets) /\ q # <<>> /\ IsInjective(q)
      /\ state[Head(q)] # "uncrypted"
      /\ serial' = [serial EXCEPT ![d][p] = r]
      /\ UNCHANGED <<ctlVars, staged, parallel, thread, job, task>>
    BY DEF Deliver, Ready, IInv, Types, PacketsKept, Lists
<1>2. PICK h \in Packets : /\ h = Head(q) /\ r \in Seq(Packets) /\ IsInjective(r)
                           /\ ToSet(q) = {h} \cup ToSet(r) /\ h \notin ToSet(r)
    BY <1>1, Tailed
<1>3. state' = [state EXCEPT ![h] = "uncrypted"]
    BY <1>2 DEF Deliver
<1>4. Unowned(h)
    BY <1>1, <1>2, FinishedNoOwner
<1> HIDE DEF r
<1>5. /\ serial' \in [Dirs -> [Peers -> Seq(Packets)]] /\ serial'[d][p] = r
      /\ \A e \in Dirs, u \in Peers : e # d \/ u # p => serial'[e][u] = serial[e][u]
    BY <1>1, <1>2 DEF IInv, Types
<1>6. ASSUME NEW n \in Packets, NEW e \in Dirs, NEW u \in Peers
      PROVE  /\ InSerial(n, e, u)' => InSerial(n, e, u)
             /\ InSerial(n, e, u) /\ n # h => InSerial(n, e, u)'
    <2>1. CASE e = d /\ u = p
        BY <1>2, <1>5, <2>1 DEF InSerial
    <2>2. CASE e # d \/ u # p
        BY <1>5, <2>2 DEF InSerial
    <2> QED
        BY <2>1, <2>2
<1> HIDE DEF q
<1>7. \A n \in Packets, u \in Peers : InStaged(n, u)' => InStaged(n, u)
    BY <1>1 DEF InStaged
<1>8. CallLists' /\ \A n \in Packets : OnePlace(n)'
    BY <1>1, <1>6, <1>7, PlacesShrink
<1>9. Lists'
    <2>1. \A e \in Dirs, u \in Peers : IsInjective(serial'[e][u])
        BY <1>2, <1>5 DEF IInv, PacketsKept, Lists
    <2> QED
        BY <1>1, <1>8, <2>1 DEF Lists, CallLists, IInv, PacketsKept
<1>10. ASSUME NEW n \in Packets PROVE OneOwner(n)'
    <2>1. \A t \in Threads : Half(n, t)' => Half(n, t) /\ thread'[t].dir = thread[t].dir
                                                     /\ thread'[t].peer = thread[t].peer
        BY <1>1, HalfUnchanged
    <2>2. /\ \A e \in Dirs : Waits(n, e)' => Waits(n, e)
          /\ \A w \in Workers : Worked(n, w)' => Worked(n, w) /\ job'[w] = job[w]
        BY <1>1 DEF Waits, Worked
    <2>3. CASE n = h
        <3>1. Unowned(n)
            BY <1>4, <2>3
        <3> QED
            BY <2>1, <2>2, <3>1, UnownedKept
    <2>4. CASE n # h
        <3>1. state'[n] = state[n]
            BY <1>3, <2>4 DEF IInv, Types
        <3>2. \A e \in Dirs, u \in Peers : InSerial(n, e, u) => InSerial(n, e, u)'
            BY <1>6, <2>4
        <3> QED
            BY <2>1, <2>2, <3>1, <3>2, OwnerKept
    <2> QED
        BY <2>3, <2>4
<1>11. state' \in [Packets -> States]
    BY <1>3 DEF IInv, Types, States
<1> QED
    BY <1>1, <1>5, <1>8, <1>9, <1>10, <1>11 DEF Sound, PacketsKept, IInv, Types, ctlVars

\* Queues of a peer are emptied, in which nobody has a packet.
LEMMA EmptiedKept ==
    ASSUME IInv, NEW p \in Peers, UNCHANGED <<parallel, state, thread, job>>,
           staged' = [staged EXCEPT ![p] = <<>>],
           \/ serial' = serial
           \/ serial' = [d \in Dirs |-> [serial[d] EXCEPT ![p] = <<>>]] /\ Queued(p) = {}
    PROVE  /\ staged' \in [Peers -> Seq(Packets)] /\ serial' \in [Dirs -> [Peers -> Seq(Packets)]]
           /\ PacketsKept'
<1>1. /\ staged' \in [Peers -> Seq(Packets)]
      /\ staged'[p] = <<>> /\ \A r \in Peers : r # p => staged'[r] = staged[r]
    BY StagedSet, Names DEF IInv
<1>2. /\ serial' \in [Dirs -> [Peers -> Seq(Packets)]]
      /\ \A d \in Dirs, u \in Peers : \/ serial'[d][u] = serial[d][u]
                                      \/ serial'[d][u] = <<>> /\ ToSet(serial[d][u]) = {}
    <2>1. CASE serial' = serial
        BY <2>1 DEF IInv, Types
    <2>2. CASE serial' = [d \in Dirs |-> [serial[d] EXCEPT ![p] = <<>>]] /\ Queued(p) = {}
        <3>1. \A d \in Dirs : ToSet(serial[d][p]) = {}
            BY <2>2 DEF Queued
        <3>2. serial' \in [Dirs -> [Peers -> Seq(Packets)]]
            BY <2>2, Names DEF IInv, Types
        <3>3. \A d \in Dirs, u \in Peers : serial'[d][u] = IF u = p THEN <<>> ELSE serial[d][u]
            BY <2>2 DEF IInv, Types
        <3> QED
            BY <3>1, <3>2, <3>3
    <2> QED
        BY <2>1, <2>2
<1>3. \A n \in Packets, u \in Peers : InStaged(n, u)' => InStaged(n, u)
    BY <1>1, EmptyQueue DEF InStaged
<1>4. \A n \in Packets, d \in Dirs, u \in Peers : InSerial(n, d, u)' <=> InSerial(n, d, u)
    BY <1>2, EmptyQueue DEF InSerial
<1>5. CallLists' /\ \A n \in Packets : OnePlace(n)'
    BY <1>3, <1>4, PlacesShrink
<1>6. Lists'
    <2>1. /\ \A u \in Peers : IsInjective(staged'[u])
          /\ \A d \in Dirs, u \in Peers : IsInjective(serial'[d][u])
        BY <1>1, <1>2, EmptyQueue DEF IInv, PacketsKept, Lists
    <2> QED
        BY <1>5, <2>1 DEF Lists, CallLists, IInv, PacketsKept
<1>7. ASSUME NEW n \in Packets PROVE OneOwner(n)'
    <2>1. /\ \A d \in Dirs : Waits(n, d)' => Waits(n, d)
          /\ \A w \in Workers : Worked(n, w)' => Worked(n, w) /\ job'[w] = job[w]
          /\ state'[n] = state[n]
        BY DEF Waits, Worked
    <2> QED
        BY <1>4, <2>1, HalfUnchanged, OwnerKept
<1> QED
    BY <1>1, <1>2, <1>5, <1>6, <1>7 DEF PacketsKept

\* wgc_set.
LEMMA ControlKept ==
    ASSUME IInv, Control
    PROVE  Sound'
<1>1. ASSUME NEW p \in Peers, PeerDestroy(p) \/ RemoteFree(p) \/ PeerCreate(p) \/ KeysCleared(p)
      PROVE  Sound'
    <2>1. PacketsKept'
        BY <1>1, QuietKept DEF PeerDestroy, RemoteFree, PeerCreate, KeysCleared
    <2>2. route' \in [Addresses -> Peers \cup {None}]
        BY <1>1 DEF PeerDestroy, RoutesWithout, RemoteFree, PeerCreate, KeysCleared, IInv, Types
    <2> QED
        BY <1>1, <2>1, <2>2 DEF Sound, PeerDestroy, RemoteFree, PeerCreate, KeysCleared, IInv, Types,
                                queueVars
<1>2. ASSUME NEW p \in Peers, FreeDeferred(p) \/ Purge(p)
      PROVE  Sound'
    <2>1. /\ staged' \in [Peers -> Seq(Packets)] /\ serial' \in [Dirs -> [Peers -> Seq(Packets)]]
          /\ PacketsKept'
        BY <1>2, EmptiedKept DEF FreeDeferred, Purge, Unreferenced
    <2> QED
        BY <1>2, <2>1 DEF Sound, FreeDeferred, Purge, IInv, Types, ctlVars
<1>3. ASSUME NEW a \in Addresses, NEW p \in Peers, AipAdd(a, p) \/ AipDel(a, p)
      PROVE  Sound'
    <2>1. PacketsKept'
        BY <1>3, QuietKept DEF AipAdd, AipDel
    <2> QED
        BY <1>3, <2>1 DEF Sound, AipAdd, AipDel, IInv, Types, queueVars
<1> QED
    BY <1>1, <1>2, <1>3 DEF Control

LEMMA SoundStep ==
    ASSUME IInv, [Next]_vars
    PROVE  Sound'
<1>1. CASE UNCHANGED vars
    <2>1. UNCHANGED <<ctlVars, queueVars, thread, job, task>>
        BY <1>1 DEF vars
    <2>2. PacketsKept'
        BY <2>1, QuietKept
    <2> QED
        BY <2>1, <2>2 DEF Sound, IInv, Types, ctlVars, queueVars
<1>2. ASSUME NEW t \in Threads, CallStep(t) PROVE Sound'
    BY <1>2, HandshakeKept, HandlerKept, DelistKept, KeyKept, EnlistKept, QueueSerialKept,
       QueueParallelKept DEF CallStep
<1>3. ASSUME NEW w \in Workers, WorkerStep(w) PROVE Sound'
    BY <1>3, CryptKept, NotifyKept DEF WorkerStep
<1>4. ASSUME NEW d \in Dirs, NEW p \in Peers, TaskStep(d, p) PROVE Sound'
    BY <1>4, TaskTurnKept, DeliverKept DEF TaskStep
<1> QED
    BY <1>1, <1>2, <1>3, <1>4, XmitKept, BeginKept, ConfirmedKept, InputKept, TakeKept,
       ControlKept DEF Next

-----------------------------------------------------------------------------
(* Peers.                                                                    *)

\* A peer that is not freed by the step, or is not by then, is not constrained.
InUse(p) == peer[p] # "freed"

\* The calls with a reference stay with their peers, or go to one in use.
CallsStay ==
    \A t \in Threads : Referenced(t)' => \/ Referenced(t) /\ thread'[t].peer = thread[t].peer
                                         \/ InUse(thread'[t].peer)

LEMMA EndsStay ==
    ASSUME NEW t \in Threads, Ends(t)
    PROVE  CallsStay
    BY DEF Ends, CallsStay, Referenced, InCall

LEMMA MovesStay ==
    ASSUME NEW t \in Threads, NEW at, NEW p, NEW d, NEW list, Moves(t, at, p, d, list), InUse(p)
    PROVE  CallsStay
    BY DEF Moves, CallsStay, Referenced, InCall

LEMMA CallStays ==
    ASSUME IInv, ~UsedAfterFree, NEW t \in Threads,
           \/ CallStep(t)
           \/ \E a \in Addresses : Xmit(t, a)
           \/ \E p \in Peers : \/ HandshakeBegin(t, p) \/ Confirmed(t, p) \/ Input(t, p)
                              \/ Callout(t, p)
    PROVE  CallsStay
<1> DEFINE c == thread[t]
<1>0. Types /\ (InCall(t) => InUse(c.peer))
    BY DEF IInv, UsedAfterFree, InUse
<1>1. ASSUME NEW at \in {"callout", "handshake", "delist", "queue"}, NEW p \in Peers, NEW d \in Dirs,
             NEW list \in Seq(Packets), NEW ref \in BOOLEAN, Call(t, at, p, d, list, ref), InUse(p)
      PROVE  CallsStay
    <2>1. Moves(t, at, p, d, list)
        BY <1>0, <1>1, CallMoves, Names
    <2> QED
        BY <1>1, <2>1, MovesStay
<1>2. ASSUME NEW p \in Peers, NEW ref \in BOOLEAN, SendKeepalive(t, p, ref), InUse(p)
      PROVE  CallsStay
    BY <1>1, <1>2, Names DEF SendKeepalive
<1>3. ASSUME NEW a \in Addresses, Xmit(t, a) PROVE CallsStay
    <2>1. route[a] \in Peers /\ InUse(route[a])
        BY <1>3 DEF Xmit, IInv, Types, PeersKept, InUse
    <2> QED
        BY <1>1, <1>3, <2>1, Names DEF Xmit
<1>4. ASSUME NEW p \in Peers, HandshakeBegin(t, p) \/ Callout(t, p) PROVE CallsStay
    BY <1>1, <1>4, Names DEF HandshakeBegin, Callout, InUse
<1>5. ASSUME NEW p \in Peers, Confirmed(t, p) PROVE CallsStay
    BY <1>2, <1>5, Names DEF Confirmed, Flush, InUse
<1>6. ASSUME NEW p \in Peers, Input(t, p) PROVE CallsStay
    <2>1. InUse(p)
        BY <1>6 DEF Input, IInv, PeersKept, Retired, InUse
    <2>2. <<Allocated>> \in Seq(Packets)
        BY <1>6, AllocatedFree, Single DEF Input
    <2> QED
        BY <1>1, <1>6, <2>1, <2>2, Names DEF Input
<1>7. ASSUME InCall(t), thread' = [thread EXCEPT ![t] = Returned] PROVE CallsStay
    BY <1>0, <1>7, CallEnds, EndsStay
<1>8. ASSUME InCall(t), NEW at \in Ats, NEW list \in Seq(Packets),
             thread' = [thread EXCEPT ![t] = [@ EXCEPT !.at = at, !.list = list]]
      PROVE  CallsStay
    <2>1. Moves(t, at, c.peer, c.dir, list)
        BY <1>0, <1>8, CallGoesOn
    <2> QED
        BY <1>0, <1>8, <2>1, MovesStay
<1>9. ASSUME InCall(t), NEW at \in Ats, NEW list \in Seq(Packets), OnWith(t, at, list)
      PROVE  CallsStay
    BY <1>7, <1>8, <1>9 DEF OnWith
<1>10. ASSUME CallStep(t) PROVE CallsStay
    <2>1. InCall(t) /\ c.peer \in Peers /\ c.list \in Seq(Packets)
        BY <1>0, <1>10, CallTypes
           DEF CallStep, Handshake, HandlerStep, HandlerSends, HandlerClears, HandlerPurges,
               HandlerInitiates, Delist, Key, Enlist, QueueSerial, QueueParallel, At
    <2>2. CASE Handshake(t)
        BY <1>0, <1>2, <1>7, <2>1, <2>2, Names DEF Handshake, Flush
    <2>9. CASE HandlerStep(t)
        BY <1>0, <1>2, <1>7, <2>1, <2>9, Names
           DEF HandlerStep, HandlerSends, HandlerClears, HandlerPurges, HandlerInitiates
    <2>3. CASE Delist(t)
        <3>1. staged[c.peer] \in Seq(Packets)
            BY <1>0, <2>1 DEF Types
        <3> QED
            BY <1>7, <1>8, <2>1, <2>3, <3>1, Names DEF Delist
    <2>4. CASE Key(t)
        <3>1. PICK at \in {"queue", "enlist"} : Moves(t, at, c.peer, c.dir, c.list)
            BY <1>0, <2>1, <2>4, CallElsewhere, Names DEF Key
        <3> QED
            BY <1>0, <2>1, <3>1, MovesStay
    <2>5. ASSUME c.at \in {"enlist", "queue", "parallel"} PROVE Tail(c.list) \in Seq(Packets)
        <3>1. c.list # <<>>
            BY <2>1, <2>5, CarriesSome
        <3> QED
            BY <2>1, <3>1, Tailed
    <2>6. CASE Enlist(t)
        BY <1>9, <2>1, <2>5, <2>6, Names DEF Enlist, At
    <2>7. CASE QueueSerial(t)
        BY <1>9, <2>1, <2>5, <2>7, Names DEF QueueSerial, At
    <2>8. CASE QueueParallel(t)
        BY <1>9, <2>1, <2>5, <2>8, Names DEF QueueParallel, At
    <2> QED
        BY <1>10, <2>2, <2>3, <2>4, <2>6, <2>7, <2>8, <2>9, Zenon DEF CallStep
<1> QED
    BY <1>3, <1>4, <1>5, <1>6, <1>10

\* So do the workers.
JobsStay ==
    \A w \in Workers : job'[w] # NoJob => \/ job[w] # NoJob /\ job'[w].peer = job[w].peer
                                          \/ InUse(job'[w].peer)

\* What has been freed stays at rest, but for PeerCreate.
LEMMA RestKept ==
    ASSUME IInv, CallsStay, JobsStay, NEW p \in Peers, peer[p] = "freed",
           keyed'[p] => keyed[p],
           \A d \in Dirs : serial'[d][p] = serial[d][p] /\ task'[d][p] = task[d][p]
    PROVE  Retired(p)'
<1>1. Retired(p)
    BY DEF IInv, PeersKept
<1>2. \A t \in Threads : Referenced(t)' => thread'[t].peer # p
    BY <1>1 DEF Retired, CallsStay, InUse
<1>3. \A w \in Workers : job'[w] # NoJob => job'[w].peer # p
    BY <1>1 DEF Retired, JobsStay, InUse
<1>4. Queued(p)' = {}
    BY <1>1 DEF Retired, Queued
<1> QED
    BY <1>1, <1>2, <1>3, <1>4 DEF Retired

LEMMA TaskElsewhere ==
    ASSUME Types, NEW d \in Dirs, NEW p \in Peers, NEW q \in Peers, q # p
    PROVE  \A e \in Dirs : [task EXCEPT ![d][p].queued = TRUE][e][q] = task[e][q]
<1> DEFINE s == [task[d] EXCEPT ![p].queued = TRUE]
<1>1. /\ task \in [Dirs -> [Peers -> [queued : BOOLEAN, running : BOOLEAN]]]
      /\ [task EXCEPT ![d][p].queued = TRUE] = [task EXCEPT ![d] = s]
    BY DEF Types
<1>2. s[q] = task[d][q]
    BY <1>1
<1> HIDE DEF s
<1>3. \A e \in Dirs : [task EXCEPT ![d] = s][e] = IF e = d THEN s ELSE task[e]
    BY <1>1
<1> QED
    BY <1>1, <1>2, <1>3

LEMMA SerialElsewhere ==
    ASSUME Types, NEW d \in Dirs, NEW p \in Peers, NEW s, serial' = [serial EXCEPT ![d][p] = s]
    PROVE  \A e \in Dirs, q \in Peers : q # p => serial'[e][q] = serial[e][q]
<1>1. serial \in [Dirs -> [Peers -> Seq(Packets)]]
    BY DEF Types
<1>2. \A e \in Dirs : serial'[e] = IF e = d THEN [serial[d] EXCEPT ![p] = s] ELSE serial[e]
    BY <1>1
<1> QED
    BY <1>1, <1>2

\* A step of a call.
LEMMA CallPeers ==
    ASSUME IInv, ~UsedAfterFree, NEW t \in Threads,
           \/ CallStep(t)
           \/ \E a \in Addresses : Xmit(t, a)
           \/ \E p \in Peers : \/ HandshakeBegin(t, p) \/ Confirmed(t, p) \/ Input(t, p)
                              \/ Callout(t, p)
    PROVE  PeersKept'
<1>1. UNCHANGED <<peer, route, job, task>>
    BY DEF CallStep, Handshake, HandlerStep, HandlerSends, HandlerClears, HandlerPurges,
           HandlerInitiates, Delist, Key, Enlist, QueueSerial, QueueParallel, Xmit,
           HandshakeBegin, Callout, Confirmed, Input, ctlVars
<1>2. CallsStay
    BY CallStays
<1>3. JobsStay
    BY <1>1 DEF JobsStay
<1>4. ASSUME NEW p \in Peers, peer[p] = "freed"
      PROVE  (keyed'[p] => keyed[p]) /\ \A d \in Dirs : serial'[d][p] = serial[d][p]
    <2>1. InCall(t) => thread[t].peer # p /\ thread[t].peer \in Peers
        BY <1>4, CallTypes DEF IInv, UsedAfterFree
    <2>2. CASE Handshake(t)
        BY <2>1, <2>2 DEF Handshake, At, IInv, Types
    <2>4. CASE HandlerStep(t)
        BY <2>1, <2>4 DEF HandlerStep, HandlerSends, HandlerClears, HandlerPurges, HandlerInitiates,
                          At, IInv, Types, ctlVars, queueVars
    <2>3. CASE QueueSerial(t)
        <3>1. InCall(t) /\ thread[t].dir \in Dirs /\ UNCHANGED keyed
            BY <2>3, CallTypes DEF QueueSerial, At, ctlVars, IInv
        <3>2. PICK d \in Dirs, r \in Peers : r = thread[t].peer /\ d = thread[t].dir /\ r # p
            BY <2>1, <3>1
        <3> DEFINE s == Append(serial[d][r], Head(thread[t].list))
        <3>3. serial' = serial \/ serial' = [serial EXCEPT ![d][r] = s]
            BY <2>3, <3>2 DEF QueueSerial
        <3> HIDE DEF s
        <3>4. serial' # serial => \A e \in Dirs, u \in Peers : u # r => serial'[e][u] = serial[e][u]
            BY <3>3, SerialElsewhere DEF IInv
        <3>5. \A e \in Dirs : serial'[e][p] = serial[e][p]
            BY <3>2, <3>4
        <3> QED
            BY <3>1, <3>5
    <2> QED
        BY <2>2, <2>3, <2>4 DEF CallStep, Delist, Key, Enlist, QueueParallel, Xmit,
                          HandshakeBegin, Callout, Confirmed, Input, ctlVars, queueVars
<1>5. ASSUME NEW p \in Peers, peer'[p] = "freed" PROVE Retired(p)'
    BY <1>1, <1>2, <1>3, <1>4, <1>5, RestKept
<1> QED
    BY <1>1, <1>5, SMTT(30) DEF PeersKept, IInv

\* A step of a worker or a task.
LEMMA WorkPeers ==
    ASSUME IInv,
           \/ \E w \in Workers : WorkerStep(w) \/ \E d \in Dirs : Take(w, d)
           \/ \E d \in Dirs, p \in Peers : TaskStep(d, p)
    PROVE  PeersKept'
<1>1. UNCHANGED <<ctlVars, thread>>
    BY DEF WorkerStep, Crypt, Notify, Take, TaskStep, TaskStart, Deliver, TaskEnd
<1>2. CallsStay
    BY <1>1 DEF CallsStay, Referenced, InCall
<1>3. \A w \in Workers : job[w] # NoJob => job[w] \in Jobs /\ job[w].peer \in Peers
    BY DEF IInv, Types, Jobs
<1>4. ASSUME NEW q \in Peers, peer[q] = "freed", JobsStay,
             \A d \in Dirs : serial'[d][q] = serial[d][q] /\ task'[d][q] = task[d][q]
      PROVE  Retired(q)'
    BY <1>1, <1>2, <1>4, RestKept DEF ctlVars
<1>5. ASSUME NEW w \in Workers, NEW d \in Dirs, Take(w, d), NEW q \in Peers, peer[q] = "freed"
      PROVE  Retired(q)'
    <2>1. JobsStay
        <3> DEFINE h == Head(parallel[d])
        <3>1. PICK p \in Peers : /\ h \in ToSet(serial[d][p])
                                 /\ job' = [job EXCEPT ![w] =
                                       [at |-> "crypt", packet |-> h, peer |-> p, dir |-> d]]
            BY <1>5 DEF Take
        <3> HIDE DEF h
        <3>2. Queued(p) # {}
            BY <3>1 DEF Queued
        <3>3. InUse(p)
            BY <3>2 DEF InUse, IInv, PeersKept, Retired
        <3> DEFINE j == [at |-> "crypt", packet |-> h, peer |-> p, dir |-> d]
        <3>4. j.peer = p /\ job' = [job EXCEPT ![w] = j]
            BY <3>1
        <3> HIDE DEF j
        <3>5. job'[w].peer = p /\ \A v \in Workers \ {w} : job'[v] = job[v]
            BY <3>4 DEF IInv, Types
        <3> QED
            BY <3>3, <3>5 DEF JobsStay
    <2> QED
        BY <1>4, <1>5, <2>1 DEF Take
<1>6. ASSUME NEW w \in Workers, Crypt(w), NEW q \in Peers, peer[q] = "freed" PROVE Retired(q)'
    <2>1. JobsStay
        <3>1. job[w] # NoJob
            BY <1>6 DEF Crypt, NoJob
        <3> DEFINE j == [at |-> "notify", peer |-> job[w].peer, dir |-> job[w].dir]
        <3>2. j.peer = job[w].peer /\ job' = [job EXCEPT ![w] = j]
            BY <1>6 DEF Crypt
        <3> HIDE DEF j
        <3>3. job'[w].peer = job[w].peer /\ \A v \in Workers \ {w} : job'[v] = job[v]
            BY <3>2 DEF IInv, Types
        <3> QED
            BY <3>1, <3>3 DEF JobsStay
    <2> QED
        BY <1>4, <1>6, <2>1 DEF Crypt
<1>7. ASSUME NEW w \in Workers, Notify(w), NEW q \in Peers, peer[q] = "freed" PROVE Retired(q)'
    <2>1. JobsStay
        BY <1>7 DEF Notify, JobsStay, IInv, Types
    <2>2. job[w] # NoJob /\ job[w].peer # q /\ job[w].peer \in Peers /\ job[w].dir \in Dirs
        BY <1>7, JobTypes DEF Notify, IInv, PeersKept, Retired
    <2>3. \A d \in Dirs : task'[d][q] = task[d][q]
        <3>1. \/ task' = [task EXCEPT ![job[w].dir][job[w].peer].queued = TRUE]
              \/ task' = task
            BY <1>7 DEF Notify
        <3>2. CASE task' = [task EXCEPT ![job[w].dir][job[w].peer].queued = TRUE]
            BY <2>2, <3>2, TaskElsewhere DEF IInv
        <3> QED
            BY <3>1, <3>2
    <2> QED
        BY <1>4, <1>7, <2>1, <2>3 DEF Notify, queueVars
<1>8. ASSUME NEW d \in Dirs, NEW p \in Peers, TaskStep(d, p), NEW q \in Peers, peer[q] = "freed"
      PROVE  Retired(q)'
    <2>1. JobsStay
        BY <1>8 DEF TaskStep, TaskStart, Deliver, TaskEnd, JobsStay
    <2>2. p # q
        BY <1>8 DEF TaskStep, TaskStart, Deliver, TaskEnd, IInv, PeersKept, Retired
    <2>3. CASE TaskStart(d, p)
        <3>1. UNCHANGED serial /\ \A e \in Dirs : task'[e][q] = task[e][q]
            BY <2>2, <2>3 DEF TaskStart, IInv, Types, queueVars
        <3> QED
            BY <1>4, <1>8, <2>1, <3>1
    <2>4. CASE TaskEnd(d, p)
        <3>1. UNCHANGED serial /\ \A e \in Dirs : task'[e][q] = task[e][q]
            BY <2>2, <2>4 DEF TaskEnd, IInv, Types, queueVars
        <3> QED
            BY <1>4, <1>8, <2>1, <3>1
    <2>5. CASE Deliver(d, p)
        <3> DEFINE s == Tail(serial[d][p])
        <3>1. UNCHANGED task /\ serial' = [serial EXCEPT ![d][p] = s]
            BY <2>5 DEF Deliver
        <3> HIDE DEF s
        <3>2. \A e \in Dirs, r \in Peers : r # p => serial'[e][r] = serial[e][r]
            BY <3>1, SerialElsewhere DEF IInv
        <3>3. \A e \in Dirs : serial'[e][q] = serial[e][q] /\ task'[e][q] = task[e][q]
            BY <2>2, <3>1, <3>2
        <3> QED
            BY <1>4, <1>8, <2>1, <3>3
    <2> QED
        BY <1>8, <2>3, <2>4, <2>5 DEF TaskStep
<1>9. ASSUME NEW q \in Peers, peer[q] = "freed" PROVE Retired(q)'
    BY <1>5, <1>6, <1>7, <1>8, <1>9 DEF WorkerStep
<1> QED
    BY <1>1, <1>9, SMTT(30) DEF PeersKept, IInv, ctlVars

\* A peer is freed when nobody uses it, and then no call, worker or task can
\* find it again; wg_peer_destroy takes its addresses away first.
LEMMA ControlPeers ==
    ASSUME IInv, Control
    PROVE  PeersKept'
<1>1. UNCHANGED <<thread, job, task>>
    BY DEF Control, PeerDestroy, RemoteFree, FreeDeferred, PeerCreate, KeysCleared, Purge,
           AipAdd, AipDel
<1>2. CallsStay /\ JobsStay
    BY <1>1 DEF CallsStay, JobsStay, Referenced, InCall
<1>3. \A q \in Peers : keyed'[q] => keyed[q]
    BY DEF Control, PeerDestroy, RemoteFree, FreeDeferred, PeerCreate, KeysCleared, Purge,
           AipAdd, AipDel, IInv, Types, ctlVars
<1>4. \A q \in Peers : peer[q] = "freed" => \A d \in Dirs : serial'[d][q] = serial[d][q]
    <2>1. ASSUME NEW p \in Peers, FreeDeferred(p), NEW q \in Peers, peer[q] = "freed"
          PROVE  \A d \in Dirs : serial'[d][q] = serial[d][q]
        BY <2>1 DEF FreeDeferred, Unreferenced, IInv, Types
    <2> QED
        BY <2>1 DEF Control, PeerDestroy, RemoteFree, PeerCreate, KeysCleared, Purge,
                    AipAdd, AipDel, queueVars
<1>5. ASSUME NEW q \in Peers, peer[q] = "freed" PROVE Retired(q)'
    BY <1>1, <1>2, <1>3, <1>4, <1>5, RestKept
<1>6. ASSUME NEW p \in Peers, FreeDeferred(p) PROVE Retired(p)'
    <2>1. /\ ~keyed[p] /\ UNCHANGED <<keyed, thread, job, task>>
          /\ \A t \in Threads : Referenced(t) => thread[t].peer # p
          /\ \A w \in Workers : job[w] # NoJob => job[w].peer # p
        BY <1>6 DEF FreeDeferred, Unreferenced, Callers, WorkersFor
    <2>2. \A d \in Dirs : ~task[d][p].queued /\ ~task[d][p].running
        BY <1>6 DEF FreeDeferred, Drained
    <2>3. Queued(p)' = {}
        <3>1. \A d \in Dirs : serial'[d][p] = <<>>
            BY <1>6 DEF FreeDeferred, IInv, Types
        <3> QED
            BY <3>1, EmptyQueue DEF Queued
    <2> QED
        BY <2>1, <2>2, <2>3 DEF Retired, Referenced, InCall
<1>7. ASSUME NEW q \in Peers, peer'[q] = "freed" PROVE Retired(q)'
    <2>1. peer[q] = "freed" \/ FreeDeferred(q)
        BY <1>7 DEF Control, PeerDestroy, RemoteFree, FreeDeferred, PeerCreate, KeysCleared, Purge,
                    AipAdd, AipDel, IInv, Types, ctlVars
    <2> QED
        BY <1>5, <1>6, <2>1
<1>8. ASSUME NEW q \in Peers, NEW a \in Addresses, route'[a] = q PROVE peer'[q] = "live"
    <2>0. route[a] = q => peer[q] = "live"
        BY DEF IInv, PeersKept
    <2> QED
        BY <1>8, <2>0, NoneAssumption DEF Control, PeerDestroy, RoutesWithout, RemoteFree, FreeDeferred,
              Unreferenced, PeerCreate, KeysCleared, Purge, AipAdd, AipDel, IInv, Types, ctlVars
<1> QED
    BY <1>7, <1>8 DEF PeersKept

-----------------------------------------------------------------------------
(* The theorems.                                                             *)

LEMMA InitInvariant == Init => IInv
<1> SUFFICES ASSUME Init PROVE IInv
    OBVIOUS
<1>1. Types
    BY Names DEF Init, Types, States, Returned, NoJob
<1>2. \A t \in Threads : ~InCall(t)
    BY DEF Init, InCall
<1>3. \A w \in Workers : job[w] = NoJob /\ job[w].at # "crypt"
    BY DEF Init, NoJob
<1>4. \A p \in Peers : ToSet(staged[p]) = {} /\ \A d \in Dirs : ToSet(serial[d][p]) = {}
    BY EmptyQueue DEF Init
<1>5. \A d \in Dirs : ToSet(parallel[d]) = {}
    BY EmptyQueue DEF Init
<1>6. PeersKept
    BY DEF Init, PeersKept
<1>7. Lists
    BY <1>2, EmptyQueue DEF Init, Lists
<1>8. ASSUME NEW n \in Packets PROVE OnePlace(n) /\ OneOwner(n)
    <2>1. \A p \in Peers : ~InStaged(n, p) /\ \A d \in Dirs : ~InSerial(n, d, p)
        BY <1>4 DEF InStaged, InSerial
    <2>2. \A t \in Threads : ~Rest(n, t) /\ ~Half(n, t)
        BY <1>2 DEF Rest, Half, At
    <2>3. (\A d \in Dirs : ~Waits(n, d)) /\ \A w \in Workers : ~Worked(n, w)
        BY <1>3, <1>5 DEF Waits, Worked
    <2> QED
        BY <2>1, <2>2, <2>3 DEF OnePlace, OneOwner
<1> QED
    BY <1>1, <1>6, <1>7, <1>8 DEF IInv, PacketsKept

LEMMA InvariantStep == IInv /\ [Next]_vars => IInv'
<1> SUFFICES ASSUME IInv, [Next]_vars PROVE IInv'
    OBVIOUS
<1>1. Sound'
    BY SoundStep
<1>2. PeersKept'
    <2>1. CASE UNCHANGED vars
        BY <2>1 DEF vars, ctlVars, queueVars, IInv, PeersKept, Retired, Queued, Referenced, InCall
    <2>2. CASE Next
        BY <2>2, CallPeers, WorkPeers, ControlPeers DEF Next
    <2> QED
        BY <2>1, <2>2
<1> QED
    BY <1>1, <1>2 DEF IInv, Sound

\* The strengthened invariant: a packet has one place and at most one owner, and
\* what has been freed is at rest.
THEOREM Inductive == Spec => []IInv
<1> QED
    BY InitInvariant, InvariantStep, PTL DEF Spec

\* No worker or task, and no call that holds a reference, goes on with a peer that
\* wg_peer_free_deferred has freed, and no allowed address leads to a peer that is
\* being destroyed.  The handlers of the callouts, which hold none, may.
THEOREM PeersAlwaysOutlive == Spec => []PeerOutlivesUse
<1>1. IInv => PeerOutlivesUse
    BY DEF IInv, PeersKept, Retired, PeerOutlivesUse, Callers
<1> QED
    BY <1>1, Inductive, PTL

\* Every packet is in one place: staged, in a call, or in one serial queue; and
\* wg_deliver_out or wg_deliver_in cannot free it under the worker that has it.
THEOREM PacketsAlwaysExact == Spec => []PacketsExact
<1>1. ASSUME IInv PROVE PacketsExact
    <2>1. ASSUME NEW n \in Packets, NEW x \in Places(n), NEW y \in Places(n) PROVE x = y
        <3>1. \A t \in Threads : n \in Carried(t) /\ thread[t].at # "parallel" => Rest(n, t)
            BY DEF Carried, Rest
        <3>2. ASSUME NEW z \in Places(n)
              PROVE  \/ \E p \in Peers : InStaged(n, p) /\ z = <<"staged", p>>
                     \/ \E t \in Threads : Rest(n, t) /\ z = <<"carried", t>>
                     \/ \E d \in Dirs, p \in Peers : InSerial(n, d, p) /\ z = <<"queued", p>>
            <4>1. CASE z \in {"staged"} \X {p \in Peers : n \in ToSet(staged[p])}
                BY <4>1 DEF InStaged
            <4>2. CASE z \in {"carried"} \X {t \in Threads : n \in Carried(t)
                                                             /\ thread[t].at # "parallel"}
                BY <3>1, <4>2
            <4>3. CASE z \in {"queued"} \X {p \in Peers : n \in Queued(p)}
                BY <4>3 DEF Queued, InSerial
            <4> QED
                BY <3>2, <4>1, <4>2, <4>3 DEF Places
        <3>3. OnePlace(n)
            BY <1>1 DEF IInv, PacketsKept
        <3>4. CASE \E p \in Peers : InStaged(n, p) /\ x = <<"staged", p>>
            BY <3>2, <3>3, <3>4 DEF OnePlace
        <3>5. CASE \E t \in Threads : Rest(n, t) /\ x = <<"carried", t>>
            BY <3>2, <3>3, <3>5 DEF OnePlace
        <3>6. CASE \E d \in Dirs, p \in Peers : InSerial(n, d, p) /\ x = <<"queued", p>>
            BY <3>2, <3>3, <3>6 DEF OnePlace
        <3> QED
            BY <3>2, <3>4, <3>5, <3>6
    <2>2. \A d \in Dirs, p \in Peers : IsInjective(serial[d][p]) /\ IsInjective(parallel[d])
        BY <1>1 DEF IInv, PacketsKept, Lists
    <2>3. \A n \in Packets : OneOwner(n)
        BY <1>1 DEF IInv, PacketsKept
    <2>4. \A d \in Dirs, n \in Packets :
              n \in ToSet(parallel[d])
                => (\E p \in Peers : n \in ToSet(serial[d][p])) /\ state[n] = "uncrypted"
        BY <2>3 DEF OneOwner, Waits, InSerial
    <2>5. ASSUME NEW w \in Workers, job[w].at = "crypt"
          PROVE  /\ job[w].packet \in ToSet(serial[job[w].dir][job[w].peer])
                 /\ state[job[w].packet] = "uncrypted"
                 /\ job[w].packet \notin ToSet(parallel[job[w].dir])
                 /\ \A v \in Workers \ {w} : job[v].at = "crypt" => job[v].packet # job[w].packet
        <3>1. job[w].packet \in Packets /\ job[w].dir \in Dirs
            BY <1>1, <2>5, JobTypes DEF IInv
        <3>2. PICK n \in Packets : n = job[w].packet
            BY <3>1
        <3>3. OneOwner(n) /\ Worked(n, w)
            BY <2>3, <2>5, <3>2 DEF Worked
        <3> QED
            BY <3>1, <3>2, <3>3 DEF OneOwner, Worked, Waits, InSerial
    <2> QED
        BY <2>1, <2>2, <2>4, <2>5 DEF PacketsExact
<1> QED
    BY <1>1, Inductive, PTL
=============================================================================
