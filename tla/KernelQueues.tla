---------------------------- MODULE KernelQueues ----------------------------
(* The packet queues of the kernel interface, src/src/if_wg.c.  A packet is  *)
(* put on the serial queue of its peer, which keeps the order, and on the    *)
(* parallel queue of the interface, from which the encryption or decryption  *)
(* workers of all processors take it; the task of the peer delivers from the *)
(* head of the serial queue whatever is finished.  Meanwhile wgc_set removes *)
(* peers and moves allowed addresses.  A peer is freed when its last         *)
(* reference is gone: every keypair of the peer holds one, every queued      *)
(* packet holds a keypair, and so do the calls that use the peer, but not    *)
(* the handlers of its callouts.  (That the noise layer counts these         *)
(* references exactly is shown in Noise.)                                    *)
EXTENDS Naturals, Sequences, SequencesExt

CONSTANTS
    Peers, Packets, Addresses,
    Threads,    \* the transmit path, the UDP input, the handshake task, callouts
    Workers,    \* the group tasks of sc_encrypt and sc_decrypt
    MaxStaged,  \* MAX_STAGED_PKT
    MaxSerial,  \* MAX_QUEUED_PKT of a peer's queue
    MaxParallel, \* MAX_QUEUED_PKT of the queue all peers share; in a small
                \* instance less, to stand for the packets of other peers
    None

Dirs == {"tx", "rx"}

ASSUME LimitAssumption == MaxStaged \in Nat \ {0} /\ {MaxSerial, MaxParallel} \subseteq Nat \ {0}
ASSUME NoneAssumption == None \notin Peers

VARIABLES
    peer,      \* "live"; "leaving" and "gone" in wg_peer_destroy; "freed"
    keyed,     \* the peer has a keypair in use
    route,     \* a_peer of an allowed address
    staged,    \* p_stage_queue
    serial,    \* p_encrypt_serial ("tx"), p_decrypt_serial ("rx")
    parallel,  \* sc_encrypt_parallel, sc_decrypt_parallel
    state,     \* p_state of a packet
    thread,    \* a call in progress: where it is, its peer, the packets it carries,
               \* and whether it holds a reference
    job,       \* the packet a worker is at
    task       \* p_send, p_recv: queued, running

ctlVars == <<peer, keyed, route>>
queueVars == <<staged, serial, parallel, state>>
vars == <<ctlVars, queueVars, thread, job, task>>

Calls == [at : {"callout", "handshake", "delist", "key", "enlist", "queue", "parallel"},
          peer : Peers, dir : Dirs, list : Seq(Packets), ref : BOOLEAN]
Returned == [at |-> "returned"]
Jobs == [at : {"crypt"}, packet : Packets, peer : Peers, dir : Dirs]
          \cup [at : {"notify"}, peer : Peers, dir : Dirs]
NoJob == [at |-> "none"]
States == {"uncrypted", "crypted", "dead"}

TypeOK ==
    /\ peer \in [Peers -> {"live", "leaving", "gone", "freed"}]
    /\ keyed \in [Peers -> BOOLEAN]
    /\ route \in [Addresses -> Peers \cup {None}]
    /\ staged \in [Peers -> BoundedSeq(Packets, MaxStaged)]
    /\ serial \in [Dirs -> [Peers -> BoundedSeq(Packets, MaxSerial)]]
    /\ parallel \in [Dirs -> BoundedSeq(Packets, MaxParallel)]
    /\ state \in [Packets -> States]
    /\ thread \in [Threads -> Calls \cup {Returned}]
    /\ job \in [Workers -> Jobs \cup {NoJob}]
    /\ task \in [Dirs -> [Peers -> [queued : BOOLEAN, running : BOOLEAN]]]

Init ==
    /\ peer = [p \in Peers |-> "live"]
    /\ keyed = [p \in Peers |-> FALSE]
    /\ route = [a \in Addresses |-> None]
    /\ staged = [p \in Peers |-> <<>>]
    /\ serial = [d \in Dirs |-> [p \in Peers |-> <<>>]]
    /\ parallel = [d \in Dirs |-> <<>>]
    /\ state = [n \in Packets |-> "uncrypted"]
    /\ thread = [t \in Threads |-> Returned]
    /\ job = [w \in Workers |-> NoJob]
    /\ task = [d \in Dirs |-> [p \in Peers |-> [queued |-> FALSE, running |-> FALSE]]]

-----------------------------------------------------------------------------
(* Packets and references.                                                   *)

InCall(t) == thread[t] # Returned
At(t, at) == InCall(t) /\ thread[t].at = at
Carried(t) == IF InCall(t) THEN ToSet(thread[t].list) ELSE {}
Queued(p) == UNION {ToSet(serial[d][p]) : d \in Dirs}
Pool == Packets \ UNION ({Carried(t) : t \in Threads} \cup {Queued(p) : p \in Peers}
                            \cup {ToSet(staged[p]) : p \in Peers})
\* uma_zalloc; which of the free ones it returns does not matter.
Allocated == CHOOSE n \in Packets : n \in Pool
CanAllocate == Pool # {}

Referenced(t) == InCall(t) /\ thread[t].ref
Callers(p) == {t \in Threads : Referenced(t) /\ thread[t].peer = p}
\* Mutant: a worker relies on the packet's keypair alone.
WorkersAtCrypt(p) == {w \in Workers : job[w] # NoJob /\ job[w].peer = p /\ job[w].at = "crypt"}
WorkersFor(p) == {w \in Workers : job[w] # NoJob /\ job[w].peer = p}

\* The references on the remote of p: the list of peers, the keypairs in use
\* and those of queued packets, and noise_remote_ref by callers and workers.
Unreferenced(p) ==
    /\ peer[p] = "gone" /\ ~keyed[p]
    /\ Callers(p) = {} /\ WorkersFor(p) = {} /\ Queued(p) = {}

\* wg_queue_push_staged drops the oldest packet when the queue is full.
Pushed(q, n) == Append(IF Len(q) >= MaxStaged THEN Tail(q) ELSE q, n)

-----------------------------------------------------------------------------
(* wg_xmit, wg_send_keepalive, wg_peer_send_staged, wg_input.                *)

Call(t, at, p, d, list, ref) ==
    thread' = [thread EXCEPT ![t] =
                  [at |-> at, peer |-> p, dir |-> d, list |-> list, ref |-> ref]]

\* wg_xmit: the lookup takes a reference, the packet is staged.
Xmit(t, a) ==
    /\ ~InCall(t) /\ CanAllocate
    /\ route[a] # None
    /\ staged' = [staged EXCEPT ![route[a]] = Pushed(@, Allocated)]
    /\ Call(t, "delist", route[a], "tx", <<>>, TRUE)
    /\ UNCHANGED <<ctlVars, serial, parallel, state, job, task>>

\* wg_handshake: the noise layer has found the remote of p and referenced it; a
\* response finds it until noise_remote_free.
HandshakeBegin(t, p) ==
    /\ ~InCall(t)
    /\ peer[p] \in {"live", "leaving"}
    /\ Call(t, "handshake", p, "tx", <<>>, TRUE)
    /\ UNCHANGED <<ctlVars, queueVars, job, task>>

\* wg_send_keepalive: what is staged, or an empty packet, is sent.
SendKeepalive(t, p, ref) ==
    /\ CanAllocate
    /\ staged' = [staged EXCEPT ![p] = IF @ = <<>> THEN <<Allocated>> ELSE @]
    /\ Call(t, "delist", p, "tx", <<>>, ref)

\* A complete handshake of an enabled peer sends what waited for it.  wg_deliver_in
\* does so too, when the first packet under a new key confirms it.
Flush(t, p) == peer[p] = "live" /\ SendKeepalive(t, p, TRUE)

Handshake(t) ==
    /\ At(t, "handshake")
    /\ \/ /\ thread' = [thread EXCEPT ![t] = Returned]
          /\ UNCHANGED <<keyed, staged>>
       \/ /\ keyed' = [keyed EXCEPT ![thread[t].peer] = TRUE]
          /\ \/ Flush(t, thread[t].peer)
             \/ /\ thread' = [thread EXCEPT ![t] = Returned]
                /\ UNCHANGED staged
    /\ UNCHANGED <<peer, route, serial, parallel, state, job, task>>

Confirmed(t, p) ==
    /\ ~InCall(t)
    /\ task["rx"][p].running /\ serial["rx"][p] # <<>>
    /\ state[Head(serial["rx"][p])] = "crypted"
    /\ Flush(t, p)
    /\ UNCHANGED <<ctlVars, serial, parallel, state, job, task>>

\* wg_input: the keypair that the index designates leads to the peer.
Input(t, p) ==
    /\ ~InCall(t) /\ CanAllocate
    /\ keyed[p]
    /\ Call(t, "queue", p, "rx", <<Allocated>>, TRUE)
    /\ UNCHANGED <<ctlVars, queueVars, job, task>>

\* wg_queue_delist_staged; an empty list ends the call.
Delist(t) ==
    /\ At(t, "delist")
    /\ LET p == thread[t].peer
       IN  /\ thread' = [thread EXCEPT ![t] =
                            IF staged[p] = <<>> THEN Returned
                            ELSE [@ EXCEPT !.at = "key", !.list = staged[p]]]
           /\ staged' = [staged EXCEPT ![p] = <<>>]
    /\ UNCHANGED <<ctlVars, serial, parallel, state, job, task>>

\* noise_keypair_current, which also references the keypair, and
\* noise_keypair_nonce_next, which may refuse; without a key or a nonce the list
\* goes back.
Key(t) ==
    /\ At(t, "key")
    /\ \/ /\ keyed[thread[t].peer]
          /\ thread' = [thread EXCEPT ![t].at = "queue", ![t].ref = TRUE]
       \/ thread' = [thread EXCEPT ![t].at = "enlist"]
    /\ UNCHANGED <<ctlVars, queueVars, job, task>>

\* The call goes on with the rest of its list, or dispatches and returns.
OnWith(t, at, list) ==
    thread' = [thread EXCEPT ![t] =
                  IF list = <<>> THEN Returned ELSE [@ EXCEPT !.at = at, !.list = list]]

\* wg_queue_enlist_staged, one push at a time.
Enlist(t) ==
    /\ At(t, "enlist")
    /\ staged' = [staged EXCEPT ![thread[t].peer] = Pushed(@, Head(thread[t].list))]
    /\ OnWith(t, "enlist", Tail(thread[t].list))
    /\ UNCHANGED <<ctlVars, serial, parallel, state, job, task>>

\* The first half of wg_queue_both; a full queue drops the packet.
QueueSerial(t) ==
    /\ At(t, "queue")
    /\ LET c == thread[t]
           n == Head(c.list)
       IN  \/ /\ Len(serial[c.dir][c.peer]) < MaxSerial
              /\ serial' = [serial EXCEPT ![c.dir][c.peer] = Append(@, n)]
              /\ state' = [state EXCEPT ![n] = "uncrypted"]
              /\ OnWith(t, "parallel", c.list)
           \/ /\ Len(serial[c.dir][c.peer]) >= MaxSerial
              /\ OnWith(t, "queue", Tail(c.list))
              /\ UNCHANGED <<serial, state>>
    /\ UNCHANGED <<ctlVars, staged, parallel, job, task>>

\* Mutant: the packet is left as it is when the parallel queue is full.
RefusedUntouched(s, n) == s
Refused(s, n) == [s EXCEPT ![n] = "dead"]

\* The second half; a packet the full parallel queue refuses stays in the
\* serial queue, dead.
QueueParallel(t) ==
    /\ At(t, "parallel")
    /\ LET c == thread[t]
           n == Head(c.list)
       IN  /\ \/ /\ Len(parallel[c.dir]) < MaxParallel
                 /\ parallel' = [parallel EXCEPT ![c.dir] = Append(@, n)]
                 /\ UNCHANGED state
              \/ /\ Len(parallel[c.dir]) >= MaxParallel
                 /\ state' = Refused(state, n)
                 /\ UNCHANGED parallel
           /\ OnWith(t, "queue", Tail(c.list))
    /\ UNCHANGED <<ctlVars, staged, serial, job, task>>

-----------------------------------------------------------------------------
(* The handlers of a peer's callouts, which wg_timers_disable stops but does *)
(* not wait for.  They may send what is staged, clear the keypairs or purge  *)
(* the staged packets.  None reads p_enabled first or takes a reference, and *)
(* what they do after that to a timer is in KernelTimers.                    *)

Callout(t, p) ==
    /\ ~InCall(t)
    /\ peer[p] = "live"
    /\ Call(t, "callout", p, "tx", <<>>, FALSE)
    /\ UNCHANGED <<ctlVars, queueVars, job, task>>

HandlerSends(t) ==
    /\ At(t, "callout")
    /\ SendKeepalive(t, thread[t].peer, FALSE)
    /\ UNCHANGED <<ctlVars, serial, parallel, state, job, task>>

\* wg_timers_run_zero_key_material
HandlerClears(t) ==
    /\ At(t, "callout")
    /\ keyed' = [keyed EXCEPT ![thread[t].peer] = FALSE]
    /\ thread' = [thread EXCEPT ![t] = Returned]
    /\ UNCHANGED <<peer, route, queueVars, job, task>>

\* wg_timers_run_retry_handshake, when it gives up.
HandlerPurges(t) ==
    /\ At(t, "callout")
    /\ staged' = [staged EXCEPT ![thread[t].peer] = <<>>]
    /\ thread' = [thread EXCEPT ![t] = Returned]
    /\ UNCHANGED <<ctlVars, serial, parallel, state, job, task>>

\* The others, which at most make an initiation.
HandlerInitiates(t) ==
    /\ At(t, "callout")
    /\ thread' = [thread EXCEPT ![t] = Returned]
    /\ UNCHANGED <<ctlVars, queueVars, job, task>>

-----------------------------------------------------------------------------
(* The workers and the tasks of the peers.                                   *)

\* wg_queue_dequeue_parallel.  Every caller dispatches a worker after it has
\* queued, and a worker stops only when the queue is empty.
Take(w, d) ==
    /\ parallel[d] # <<>>
    /\ \E v \in Workers : job[v] = NoJob
    /\ w = CHOOSE v \in Workers : job[v] = NoJob  \* they are all alike
    /\ LET n == Head(parallel[d])
       IN  \E p \in Peers :
              /\ n \in ToSet(serial[d][p])
              /\ job' = [job EXCEPT ![w] = [at |-> "crypt", packet |-> n, peer |-> p, dir |-> d]]
    /\ parallel' = [parallel EXCEPT ![d] = Tail(@)]
    /\ UNCHANGED <<ctlVars, staged, serial, state, thread, task>>

\* wg_encrypt, wg_decrypt up to the store of p_state.
Crypt(w) ==
    /\ job[w].at = "crypt"
    /\ \E s \in {"crypted", "dead"} :
          /\ state' = [state EXCEPT ![job[w].packet] = s]
          /\ job' = [job EXCEPT ![w] =
                [at |-> "notify", peer |-> @.peer, dir |-> @.dir]]
    /\ UNCHANGED <<ctlVars, staged, serial, parallel, thread, task>>

\* Mutant: only a packet that succeeded wakes the task.
WakesCrypted(w) == \E n \in ToSet(serial[job[w].dir][job[w].peer]) : state[n] = "crypted"
Wakes(w) == TRUE

\* The rest: GROUPTASK_ENQUEUE and noise_remote_put.
Notify(w) ==
    /\ job[w].at = "notify"
    /\ task' = IF Wakes(w) THEN [task EXCEPT ![job[w].dir][job[w].peer].queued = TRUE] ELSE task
    /\ job' = [job EXCEPT ![w] = NoJob]
    /\ UNCHANGED <<ctlVars, queueVars, thread>>

TaskStart(d, p) ==
    /\ task[d][p].queued /\ ~task[d][p].running
    /\ task' = [task EXCEPT ![d][p] = [queued |-> FALSE, running |-> TRUE]]
    /\ UNCHANGED <<ctlVars, queueVars, thread, job>>

\* Mutant: wg_queue_dequeue_serial does not look at p_state.
ReadyAnyway(d, p) == serial[d][p] # <<>>
Ready(d, p) == serial[d][p] # <<>> /\ state[Head(serial[d][p])] # "uncrypted"

\* wg_deliver_out, wg_deliver_in: one packet, which is freed with its
\* reference, while the task goes on with the peer.
Deliver(d, p) ==
    /\ task[d][p].running /\ Ready(d, p)
    /\ serial' = [serial EXCEPT ![d][p] = Tail(@)]
    /\ state' = [state EXCEPT ![Head(serial[d][p])] = "uncrypted"]
    /\ UNCHANGED <<ctlVars, staged, parallel, thread, job, task>>

TaskEnd(d, p) ==
    /\ task[d][p].running /\ ~Ready(d, p)
    /\ task' = [task EXCEPT ![d][p].running = FALSE]
    /\ UNCHANGED <<ctlVars, queueVars, thread, job>>

-----------------------------------------------------------------------------
(* wgc_set, under sc_lock.                                                   *)

\* wg_aip_add also moves an address that another peer had; wg_aip_del leaves
\* such an address alone.
AipAdd(a, p) ==
    /\ peer[p] = "live"
    /\ route' = [route EXCEPT ![a] = p]
    /\ UNCHANGED <<peer, keyed, queueVars, thread, job, task>>

AipDel(a, p) ==
    /\ peer[p] = "live" /\ route[a] = p
    /\ route' = [route EXCEPT ![a] = None]
    /\ UNCHANGED <<peer, keyed, queueVars, thread, job, task>>

\* Mutant: the addresses of a destroyed peer stay in the tree.
RoutesKept(p) == route
RoutesWithout(p) == [a \in Addresses |-> IF route[a] = p THEN None ELSE route[a]]

\* wg_peer_destroy up to wg_aip_remove_all.
PeerDestroy(p) ==
    /\ peer[p] = "live"
    /\ peer' = [peer EXCEPT ![p] = "leaving"]
    /\ route' = RoutesWithout(p)
    /\ UNCHANGED <<keyed, queueVars, thread, job, task>>

\* noise_remote_free: no keypair stays in use, and the list gives up its
\* reference.
RemoteFree(p) ==
    /\ peer[p] = "leaving"
    /\ peer' = [peer EXCEPT ![p] = "gone"]
    /\ keyed' = [keyed EXCEPT ![p] = FALSE]
    /\ UNCHANGED <<route, queueVars, thread, job, task>>

\* Mutant: it does not wait for the tasks.
DrainedNot(p) == TRUE
Drained(p) == \A d \in Dirs : task[d][p] = [queued |-> FALSE, running |-> FALSE]

\* wg_peer_free_deferred: drains the tasks, then purges the queues.
FreeDeferred(p) ==
    /\ Unreferenced(p) /\ Drained(p)
    /\ peer' = [peer EXCEPT ![p] = "freed"]
    /\ staged' = [staged EXCEPT ![p] = <<>>]
    /\ serial' = [d \in Dirs |-> [serial[d] EXCEPT ![p] = <<>>]]
    /\ UNCHANGED <<keyed, route, parallel, state, thread, job, task>>

\* wg_peer_create; the memory may be the old one's.
PeerCreate(p) ==
    /\ peer[p] = "freed"
    /\ peer' = [peer EXCEPT ![p] = "live"]
    /\ UNCHANGED <<keyed, route, queueVars, thread, job, task>>

\* The last keypair is given up, by wg_down.
KeysCleared(p) ==
    /\ peer[p] = "live" /\ keyed[p]
    /\ keyed' = [keyed EXCEPT ![p] = FALSE]
    /\ UNCHANGED <<peer, route, queueVars, thread, job, task>>

\* wg_queue_purge of the staged packets, by wg_down.
Purge(p) ==
    /\ peer[p] = "live" /\ staged[p] # <<>>
    /\ staged' = [staged EXCEPT ![p] = <<>>]
    /\ UNCHANGED <<ctlVars, serial, parallel, state, thread, job, task>>

-----------------------------------------------------------------------------
HandlerStep(t) == HandlerSends(t) \/ HandlerClears(t) \/ HandlerPurges(t) \/ HandlerInitiates(t)
CallStep(t) == Handshake(t) \/ HandlerStep(t) \/ Delist(t) \/ Key(t) \/ Enlist(t) \/ QueueSerial(t) \/ QueueParallel(t)
WorkerStep(w) == Crypt(w) \/ Notify(w)
TaskStep(d, p) == TaskStart(d, p) \/ Deliver(d, p) \/ TaskEnd(d, p)
Control ==
    \/ \E p \in Peers : PeerDestroy(p) \/ RemoteFree(p) \/ FreeDeferred(p) \/ PeerCreate(p)
                            \/ KeysCleared(p) \/ Purge(p)
    \/ \E a \in Addresses, p \in Peers : AipAdd(a, p) \/ AipDel(a, p)

\* A callout's handler still runs for a peer that has been freed.  What it does to
\* the memory is undefined, and the model ends there.
UsedAfterFree == \E t \in Threads : InCall(t) /\ peer[thread[t].peer] = "freed"

Next ==
    /\ ~UsedAfterFree
    /\ \/ \E t \in Threads :
             \/ \E a \in Addresses : Xmit(t, a)
             \/ \E p \in Peers : HandshakeBegin(t, p) \/ Confirmed(t, p) \/ Input(t, p) \/ Callout(t, p)
       \/ \E t \in Threads : CallStep(t)
       \/ \E w \in Workers : WorkerStep(w) \/ \E d \in Dirs : Take(w, d)
       \/ \E d \in Dirs, p \in Peers : TaskStep(d, p)
       \/ Control

\* Calls, workers and tasks that have begun go on; the group tasks of a processor
\* get their turn one after the other; a destruction is completed.
Fairness ==
    /\ \A t \in Threads : WF_vars(CallStep(t))
    /\ \A w \in Workers : WF_vars(WorkerStep(w))
    /\ \A d \in Dirs : SF_vars(\E w \in Workers : Take(w, d))
    /\ \A d \in Dirs, p \in Peers : WF_vars(TaskStep(d, p))
    /\ \A p \in Peers : WF_vars(RemoteFree(p)) /\ WF_vars(FreeDeferred(p))

Spec == Init /\ [][Next]_vars /\ Fairness

-----------------------------------------------------------------------------
(* Correctness.                                                              *)

Places(n) ==
    ({"staged"} \X {p \in Peers : n \in ToSet(staged[p])})
      \cup ({"carried"} \X {t \in Threads : n \in Carried(t) /\ thread[t].at # "parallel"})
      \cup ({"queued"} \X {p \in Peers : n \in Queued(p)})

\* Every packet is in one place: the staged queue, a call, or one serial queue,
\* and there once.  What waits for a worker or is with one is in a serial queue
\* and unfinished, so that it cannot be delivered and freed under the worker.
PacketsExact ==
    /\ \A n \in Packets : \A x, y \in Places(n) : x = y
    /\ \A d \in Dirs, p \in Peers : IsInjective(serial[d][p]) /\ IsInjective(parallel[d])
    /\ \A d \in Dirs, n \in Packets :
          n \in ToSet(parallel[d])
            => /\ \E p \in Peers : n \in ToSet(serial[d][p])
               /\ state[n] = "uncrypted"
    /\ \A w \in Workers : job[w].at = "crypt"
            => /\ job[w].packet \in ToSet(serial[job[w].dir][job[w].peer])
               /\ state[job[w].packet] = "uncrypted"
               /\ job[w].packet \notin ToSet(parallel[job[w].dir])
               /\ \A v \in Workers \ {w} : job[v].at = "crypt" => job[v].packet # job[w].packet

\* No worker or task, and no call that holds a reference, goes on with a peer that
\* has been freed, and no address leads to a peer that is being destroyed.
PeerOutlivesUse ==
    \A p \in Peers :
        /\ peer[p] = "freed" =>
              /\ Callers(p) = {} /\ {w \in Workers : job[w] # NoJob /\ job[w].peer = p} = {}
              /\ \A d \in Dirs : ~task[d][p].queued /\ ~task[d][p].running
        /\ \A a \in Addresses : route[a] = p => peer[p] = "live"

\* wg_timers_disable leaves no callouts active, and once there are no references only
\* the tasks are waited for (so the comments there and in wg_peer_free_deferred): a
\* peer outlives the handlers of its callouts too.
HandlersOutlived == ~UsedAfterFree

\* What a worker's queue has accepted leaves the peer's queue again, whatever
\* order the workers finish in and whatever else fails: no wake-up is lost.
PacketsMoveOn ==
    \A n \in Packets :
        (\E d \in Dirs : n \in ToSet(parallel[d])) ~> n \notin UNION {Queued(p) : p \in Peers}

\* All that is left in a queue of p are packets the parallel queue refused.
Stranded(p) ==
    \E d \in Dirs : serial[d][p] # <<>> /\ \A n \in ToSet(serial[d][p]) : state[n] = "dead"

\* A destroyed peer is freed in the end, but for two cases.  A packet that the
\* full parallel queue refused is the last in its queue: nothing wakes the task
\* for it, and it holds the peer.  Or a handshake that had found the peer before
\* wg_peer_destroy gave it a keypair after noise_remote_free had cleared them.
DestroyedFreed == \A p \in Peers : <>[](peer[p] = "gone") => <>[](Stranded(p) \/ keyed[p])
=============================================================================
