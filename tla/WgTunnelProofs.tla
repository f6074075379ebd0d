--------------------------- MODULE WgTunnelProofs ---------------------------
(* Proofs about WgTunnel, for every pairing of the two implementations, any   *)
(* number of handshakes, indices and packets, any loss, delay, duplication    *)
(* and reordering of datagrams, and any failures of malloc and sendto: an     *)
(* initiation is answered once, a key is installed once, and the two ends     *)
(* agree on every key they share.                                             *)
EXTENDS WgTunnel, FiniteSetTheorems, TLAPS

-----------------------------------------------------------------------------
(* The inductive invariant.                                                  *)

Ephemerals == Nodes \X Nat
SessionKeys == Ephemerals \X Ephemerals
Index == Indices \cup {NULL}

Keypairs ==
    [idx : Index, ridx : Index, key : SessionKeys, initiator : BOOLEAN,
     birth : Int, sent : Nat]

Remotes ==
    [state : {"DEAD", "INITIATOR", "RESPONDER"}, idx : Index, hs : Ephemerals \cup {NULL},
     ridx : Index, lastSent : Int, lastInit : Int, timestamp : Nat,
     slots : [SlotNames -> Keypairs \cup {NULL}], made : Nat,
     answered : SUBSET SessionKeys, completed : SUBSET SessionKeys]

Waits ==
    [pending : BOOLEAN, sentAt : Int, localIdx : Index, attempts : Int, birth : Int,
     jitter : Jitters \cup {0}, endpoint : BOOLEAN]

Initiations ==
    [type : {"initiation"}, to : Nodes, sidx : Index, e : Ephemerals, timestamp : Nat]
Responses ==
    [type : {"response"}, to : Nodes, sidx : Index, ridx : Index, key : SessionKeys]
Packets ==
    [type : {"data"}, to : Nodes, ridx : Index, key : SessionKeys, nonce : Nat]

Types ==
    /\ now \in Int
    /\ peer \in [Nodes -> Waits]
    /\ noise \in [Nodes -> Remotes]
    /\ net \subseteq Initiations \cup Responses \cup Packets

\* An initiation carries the ephemeral that its timestamp numbers, and that
\* ephemeral is its sender's.
InitiationsSound ==
    \A m \in net : m.type = "initiation" => m.e = <<Other(m.to), m.timestamp>>

\* An endpoint has answered only its peer's initiations, none newer than its
\* timestamp and none twice, each with an ephemeral of its own.
AnswersOf(n, s) ==
    /\ IsFiniteSet(s.answered)
    /\ \A a \in s.answered :
          /\ a[1][1] = Other(n) /\ a[1][2] <= s.timestamp
          /\ a[2][1] = n /\ a[2][2] <= Cardinality(s.answered)
    /\ \A a, b \in s.answered : a[1] = b[1] => a = b
AnswersSound == \A n \in Nodes : AnswersOf(n, noise[n])

\* A response carries a key that its sender has derived, and says the same
\* indices whenever it is seen.
ResponsesSound ==
    /\ \A m \in net : m.type = "response" => m.key \in noise[Other(m.to)].answered
    /\ \A m1, m2 \in net :
          /\ m1.type = "response" /\ m2.type = "response"
          /\ m1.to = m2.to /\ m1.key = m2.key
          => m1 = m2

\* The handshake an endpoint has open is its latest, and is not completed.
CompletedOf(n, s) ==
    /\ s.state = "INITIATOR" => s.hs = <<n, s.made>>
    /\ \A c \in s.completed :
          /\ c[1][1] = n /\ c[1][2] <= s.made
          /\ s.state = "INITIATOR" => c[1][2] < s.made
CompletedSound ==
    \A n \in Nodes :
        /\ CompletedOf(n, noise[n])
        /\ \A c \in noise[n].completed :
              \E m \in net : m.type = "response" /\ m.to = n /\ m.key = c

\* A keypair in a slot is one the endpoint has derived, and every response that
\* carries its key names its indices.
Derived(s, k) == k.key \in (IF k.initiator THEN s.completed ELSE s.answered)
Named(n, k, m) ==
    /\ m.type = "response" /\ m.key = k.key
    => /\ k.initiator /\ m.to = n => k.idx = m.ridx /\ k.ridx = m.sidx
       /\ ~k.initiator /\ m.to = Other(n) => k.idx = m.sidx /\ k.ridx = m.ridx
SlotsSound ==
    \A n \in Nodes : \A x \in SlotNames :
        noise[n].slots[x] # NULL =>
            /\ Derived(noise[n], noise[n].slots[x])
            /\ \A m \in net : Named(n, noise[n].slots[x], m)

\* No two slots hold the same key.
SlotsDistinct ==
    \A n \in Nodes : \A x, y \in SlotNames :
        /\ noise[n].slots[x] # NULL /\ noise[n].slots[y] # NULL /\ x # y
        => noise[n].slots[x].key # noise[n].slots[y].key

\* A data packet under a key that its sender began is under a key its sender
\* has completed.
PacketsSound ==
    \A m \in net :
        m.type = "data" /\ m.key[1][1] = Other(m.to) => m.key \in noise[Other(m.to)].completed

\* While a session waits, its noise state is the handshake it waits for, unless
\* an answer of its own failed half-way.
WaitOf(p, s) ==
    p.pending => s.state = "RESPONDER" \/ (s.state = "INITIATOR" /\ s.idx = p.localIdx)
WaitsSound == \A n \in Nodes : Impl[n] = "session" => WaitOf(peer[n], noise[n])

IInv ==
    /\ Types
    /\ InitiationsSound
    /\ AnswersSound
    /\ ResponsesSound
    /\ CompletedSound
    /\ SlotsSound
    /\ SlotsDistinct
    /\ PacketsSound
    /\ SendsUnderSharedKey
    /\ WaitsSound

-----------------------------------------------------------------------------
(* The two nodes.                                                            *)

LEMMA OtherNode ==
    ASSUME NEW n \in Nodes
    PROVE  /\ Other(n) \in Nodes /\ Other(n) # n /\ Other(Other(n)) = n
           /\ \A p \in Nodes : p = n \/ p = Other(n)
<1>1. \A p \in Nodes : \E q \in Nodes : q # p
    BY NodesAssumption
<1>2. \A p \in Nodes : Other(p) \in Nodes /\ Other(p) # p
    BY <1>1 DEF Other
<1> QED
    BY <1>2, NodesAssumption

-----------------------------------------------------------------------------
(* What the functions of the noise layer return.                             *)

LEMMA SlotFields ==
    ASSUME NEW s \in [SlotNames -> Keypairs \cup {NULL}], NEW k \in Keypairs
    PROVE  /\ AddKeypair(s, k, TRUE) \in [SlotNames -> Keypairs \cup {NULL}]
           /\ AddKeypair(s, k, FALSE) \in [SlotNames -> Keypairs \cup {NULL}]
           /\ Promote(s) \in [SlotNames -> Keypairs \cup {NULL}]
           /\ AddKeypair(s, k, TRUE)["next"] = NULL
           /\ AddKeypair(s, k, TRUE)["current"] = k
           /\ AddKeypair(s, k, TRUE)["previous"] \in {s["next"], s["current"]}
           /\ AddKeypair(s, k, FALSE)["next"] = k
           /\ AddKeypair(s, k, FALSE)["current"] = s["current"]
           /\ AddKeypair(s, k, FALSE)["previous"] = NULL
           /\ Promote(s)["next"] = NULL
           /\ Promote(s)["current"] = s["next"]
           /\ Promote(s)["previous"] = s["current"]
    BY DEF AddKeypair, AddInitiator, AddResponder, Promote, SlotNames

\* noise_create_initiation.
LEMMA CreateInitiationFields ==
    ASSUME Types, NEW n \in Nodes, NEW i \in Indices
    PROVE  LET s == noise[n]
               t == CreateInitiation(n, i)
           IN  /\ t \in Remotes
               /\ t.state = "INITIATOR" /\ t.idx = i /\ t.hs = <<n, s.made + 1>>
               /\ t.made = s.made + 1 /\ t.timestamp = s.timestamp /\ t.slots = s.slots
               /\ t.answered = s.answered /\ t.completed = s.completed
<1> DEFINE s == noise[n]
           made == s.made + 1
           hs == <<n, made>>
           t == [s EXCEPT !.state = "INITIATOR", !.idx = i, !.hs = hs, !.lastSent = now,
                          !.made = made]
<1>1. s \in Remotes /\ now \in Int /\ i \in Index
    BY DEF Types, Index
<1>2. made \in Nat
    BY <1>1 DEF Remotes
<1>3. hs \in Ephemerals \cup {NULL}
    BY <1>2 DEF Ephemerals
<1>4. CreateInitiation(n, i) = t
    BY DEF CreateInitiation
<1> HIDE DEF s, made, hs
<1>5. /\ t \in Remotes
      /\ t.state = "INITIATOR" /\ t.idx = i /\ t.hs = hs /\ t.made = made
      /\ t.timestamp = s.timestamp /\ t.slots = s.slots
      /\ t.answered = s.answered /\ t.completed = s.completed
    BY <1>1, <1>2, <1>3 DEF Remotes
<1> HIDE DEF t
<1> QED
    BY <1>4, <1>5 DEF s, made, hs

\* noise_consume_initiation.
LEMMA ConsumeInitiationFields ==
    ASSUME Types, NEW n \in Nodes, NEW m \in Initiations, NEW i \in Indices
    PROVE  LET s == noise[n]
               t == ConsumeInitiation(s, m, i)
           IN  /\ t \in Remotes
               /\ t.state = "RESPONDER" /\ t.idx = i /\ t.hs = m.e /\ t.ridx = m.sidx
               /\ t.made = s.made /\ t.timestamp = m.timestamp /\ t.slots = s.slots
               /\ t.answered = s.answered /\ t.completed = s.completed
<1> DEFINE s == noise[n]
           t == [s EXCEPT !.timestamp = m.timestamp, !.lastInit = now, !.idx = i,
                          !.ridx = m.sidx, !.state = "RESPONDER", !.hs = m.e]
<1>1. s \in Remotes /\ now \in Int /\ i \in Index
    BY DEF Types, Index
<1>2. m.timestamp \in Nat /\ m.sidx \in Index /\ m.e \in Ephemerals \cup {NULL}
    BY DEF Initiations
<1>3. ConsumeInitiation(s, m, i) = t
    BY DEF ConsumeInitiation
<1> HIDE DEF s
<1>4. /\ t \in Remotes
      /\ t.state = "RESPONDER" /\ t.idx = i /\ t.hs = m.e /\ t.ridx = m.sidx
      /\ t.made = s.made /\ t.timestamp = m.timestamp /\ t.slots = s.slots
      /\ t.answered = s.answered /\ t.completed = s.completed
    BY <1>1, <1>2 DEF Remotes
<1> HIDE DEF t
<1> QED
    BY <1>3, <1>4 DEF s

\* noise_begin_session.
BegunKeypair(s, key, ridx, initiator) ==
    [idx |-> s.idx, ridx |-> ridx, key |-> key, initiator |-> initiator,
     birth |-> now, sent |-> 0]

LEMMA BeginSessionFields ==
    ASSUME now \in Int, NEW s \in Remotes, NEW key \in SessionKeys, NEW ridx \in Index,
           NEW initiator \in BOOLEAN, initiator <=> s.state = "INITIATOR"
    PROVE  LET k == BegunKeypair(s, key, ridx, initiator)
               t == BeginSession(s, key, ridx)
           IN  /\ k \in Keypairs
               /\ t \in Remotes /\ t.state = "DEAD"
               /\ t.made = s.made /\ t.timestamp = s.timestamp
               /\ t.slots = AddKeypair(s.slots, k, initiator)
               /\ t.answered = s.answered /\ t.completed = s.completed
<1> DEFINE k == BegunKeypair(s, key, ridx, initiator)
           slots == AddKeypair(s.slots, k, initiator)
           t == [s EXCEPT !.slots = slots, !.state = "DEAD", !.hs = NULL, !.ridx = ridx]
<1>1. k \in Keypairs
    BY DEF BegunKeypair, Keypairs, Remotes, Index
<1>2. (s.state = "INITIATOR") = initiator
    OBVIOUS
<1>3. BeginSession(s, key, ridx) = t
    BY <1>2 DEF BeginSession, BegunKeypair
<1>4. s.slots \in [SlotNames -> Keypairs \cup {NULL}]
    BY DEF Remotes
<1>5. slots \in [SlotNames -> Keypairs \cup {NULL}]
    <2>1. CASE initiator = TRUE
        BY <1>1, <1>4, <2>1, SlotFields
    <2>2. CASE initiator = FALSE
        BY <1>1, <1>4, <2>2, SlotFields
    <2> QED
        BY <2>1, <2>2
<1> HIDE DEF slots
<1>6. /\ t \in Remotes /\ t.slots = slots /\ t.state = "DEAD"
      /\ t.made = s.made /\ t.timestamp = s.timestamp
      /\ t.answered = s.answered /\ t.completed = s.completed
    BY <1>5 DEF Remotes
<1> HIDE DEF t, k
<1> QED
    BY <1>1, <1>3, <1>6 DEF slots, k

\* noise_create_response: the keypair it adds and the key it derives.
AnswerKey(n, s, m) == <<m.e, <<n, Cardinality(s.answered) + 1>> >>
AnswerKeypair(n, s, m, i) ==
    [idx |-> i, ridx |-> m.sidx, key |-> AnswerKey(n, s, m), initiator |-> FALSE,
     birth |-> now, sent |-> 0]

LEMMA AnswerFields ==
    ASSUME Types, AnswersSound, NEW n \in Nodes, NEW m \in Initiations, NEW i \in Indices
    PROVE  LET s == noise[n]
               t == CreateResponse(ConsumeInitiation(s, m, i), n)
           IN  /\ AnswerKeypair(n, s, m, i) \in Keypairs
               /\ AnswerKey(n, s, m) \in SessionKeys
               /\ t \in Remotes /\ t.state = "DEAD"
               /\ t.made = s.made /\ t.timestamp = m.timestamp
               /\ t.slots = AddKeypair(s.slots, AnswerKeypair(n, s, m, i), FALSE)
               /\ t.answered = s.answered \cup {AnswerKey(n, s, m)}
               /\ t.completed = s.completed
<1> DEFINE s == noise[n]
           c == ConsumeInitiation(s, m, i)
           key == AnswerKey(n, s, m)
           b == BeginSession(c, key, m.sidx)
<1>1. c \in Remotes /\ c.state = "RESPONDER" /\ c.idx = i /\ c.hs = m.e /\ c.ridx = m.sidx
      /\ c.made = s.made /\ c.timestamp = m.timestamp /\ c.slots = s.slots
      /\ c.answered = s.answered /\ c.completed = s.completed
    BY ConsumeInitiationFields, Zenon
<1>2. Cardinality(s.answered) \in Nat
    BY FS_CardinalityType DEF AnswersSound, AnswersOf
<1>3. key \in SessionKeys /\ m.sidx \in Index
    BY <1>2 DEF AnswerKey, SessionKeys, Ephemerals, Initiations
<1>4. CreateResponse(c, n) = [b EXCEPT !.lastSent = now, !.answered = @ \cup {key}]
    BY <1>1 DEF CreateResponse, AnswerKey
<1>5. now \in Int
    BY DEF Types
<1>6. PICK initiator \in BOOLEAN : (initiator <=> c.state = "INITIATOR") /\ initiator = FALSE
    BY <1>1
<1>7. AnswerKeypair(n, s, m, i) = BegunKeypair(c, key, m.sidx, initiator)
    BY <1>1, <1>6 DEF AnswerKeypair, BegunKeypair
<1> HIDE DEF c, key
<1>8. /\ AnswerKeypair(n, s, m, i) \in Keypairs
      /\ b \in Remotes /\ b.state = "DEAD"
      /\ b.made = c.made /\ b.timestamp = c.timestamp
      /\ b.slots = AddKeypair(c.slots, AnswerKeypair(n, s, m, i), FALSE)
      /\ b.answered = c.answered /\ b.completed = c.completed
    <2>1. /\ BegunKeypair(c, key, m.sidx, initiator) \in Keypairs
          /\ b \in Remotes /\ b.state = "DEAD"
          /\ b.made = c.made /\ b.timestamp = c.timestamp
          /\ b.slots = AddKeypair(c.slots, BegunKeypair(c, key, m.sidx, initiator), initiator)
          /\ b.answered = c.answered /\ b.completed = c.completed
        BY <1>1, <1>3, <1>5, <1>6, BeginSessionFields
    <2> QED
        BY <1>6, <1>7, <2>1
<1> HIDE DEF b, s
<1> DEFINE answered == b.answered \cup {key}
           t == [b EXCEPT !.lastSent = now, !.answered = answered]
<1>9. answered \in SUBSET SessionKeys
    BY <1>3, <1>8 DEF Remotes
<1>10. CreateResponse(c, n) = t
    BY <1>4
<1> HIDE DEF answered
<1>11. t \in Remotes /\ t.state = "DEAD" /\ t.made = b.made /\ t.timestamp = b.timestamp
      /\ t.slots = b.slots /\ t.answered = answered /\ t.completed = b.completed
    BY <1>5, <1>8, <1>9 DEF Remotes
<1> HIDE DEF t
<1> QED
    BY <1>1, <1>3, <1>8, <1>10, <1>11 DEF c, key, s, answered

\* noise_consume_response.
CompletedKeypair(s, m) ==
    [idx |-> s.idx, ridx |-> m.sidx, key |-> m.key, initiator |-> TRUE,
     birth |-> now, sent |-> 0]

LEMMA CompleteFields ==
    ASSUME Types, NEW n \in Nodes, NEW m \in Responses, noise[n].state = "INITIATOR"
    PROVE  LET s == noise[n]
               t == ConsumeResponse(s, m)
           IN  /\ CompletedKeypair(s, m) \in Keypairs
               /\ t \in Remotes /\ t.state = "DEAD"
               /\ t.made = s.made /\ t.timestamp = s.timestamp
               /\ t.slots = AddKeypair(s.slots, CompletedKeypair(s, m), TRUE)
               /\ t.answered = s.answered
               /\ t.completed = s.completed \cup {m.key}
<1> DEFINE s == noise[n]
           b == BeginSession(s, m.key, m.sidx)
<1>1. s \in Remotes /\ now \in Int /\ m.key \in SessionKeys /\ m.sidx \in Index
    BY DEF Types, Responses
<1>2. PICK initiator \in BOOLEAN : (initiator <=> s.state = "INITIATOR") /\ initiator = TRUE
    OBVIOUS
<1>3. CompletedKeypair(s, m) = BegunKeypair(s, m.key, m.sidx, initiator)
    BY <1>2 DEF CompletedKeypair, BegunKeypair
<1>4. ConsumeResponse(s, m) = [b EXCEPT !.completed = @ \cup {m.key}]
    BY DEF ConsumeResponse
<1>5. /\ CompletedKeypair(s, m) \in Keypairs
      /\ b \in Remotes /\ b.state = "DEAD"
      /\ b.made = s.made /\ b.timestamp = s.timestamp
      /\ b.slots = AddKeypair(s.slots, CompletedKeypair(s, m), TRUE)
      /\ b.answered = s.answered /\ b.completed = s.completed
    <2>1. /\ BegunKeypair(s, m.key, m.sidx, initiator) \in Keypairs
          /\ b \in Remotes /\ b.state = "DEAD"
          /\ b.made = s.made /\ b.timestamp = s.timestamp
          /\ b.slots = AddKeypair(s.slots, BegunKeypair(s, m.key, m.sidx, initiator), initiator)
          /\ b.answered = s.answered /\ b.completed = s.completed
        BY <1>1, <1>2, BeginSessionFields
    <2> QED
        BY <1>2, <1>3, <2>1
<1> HIDE DEF b, s
<1> DEFINE completed == b.completed \cup {m.key}
           t == [b EXCEPT !.completed = completed]
<1>6. completed \in SUBSET SessionKeys
    BY <1>1, <1>5 DEF Remotes
<1>7. ConsumeResponse(s, m) = t
    BY <1>4
<1> HIDE DEF completed
<1>8. t \in Remotes /\ t.state = "DEAD" /\ t.made = b.made /\ t.timestamp = b.timestamp
      /\ t.slots = b.slots /\ t.answered = b.answered /\ t.completed = completed
    BY <1>5, <1>6 DEF Remotes
<1> HIDE DEF t
<1> QED
    BY <1>5, <1>7, <1>8 DEF s, completed

-----------------------------------------------------------------------------
(* Steps that derive no key.                                                 *)

\* What such a step leaves of the noise state of p: the keys it has derived,
\* its timestamp or a newer one, and its handshake, a new one or none.
Recorded(p, s, t) ==
    /\ t.answered = s.answered /\ t.completed = s.completed
    /\ s.timestamp <= t.timestamp
    /\ \/ t.state = s.state /\ t.hs = s.hs /\ t.made = s.made
       \/ t.state # "INITIATOR" /\ t.made = s.made
       \/ t.hs = <<p, t.made>> /\ t.made = s.made + 1

LEMMA OneNode ==
    ASSUME Types, NEW n \in Nodes, NEW t \in Remotes, noise' = [noise EXCEPT ![n] = t]
    PROVE  /\ noise' \in [Nodes -> Remotes] /\ noise'[n] = t
           /\ \A p \in Nodes : p # n => noise'[p] = noise[p]
    BY DEF Types

LEMMA RecordsKept ==
    ASSUME IInv, noise' \in [Nodes -> Remotes],
           NEW D \in SUBSET (Initiations \cup Packets), net' = net \cup D,
           \A p \in Nodes : Recorded(p, noise[p], noise'[p]),
           \A m \in D : m.type = "initiation" => m.e = <<Other(m.to), m.timestamp>>,
           \A m \in D : m.type = "data" /\ m.key[1][1] = Other(m.to)
                            => m.key \in noise[Other(m.to)].completed
    PROVE  /\ InitiationsSound' /\ AnswersSound' /\ ResponsesSound' /\ CompletedSound'
           /\ PacketsSound'
           /\ net' \subseteq Initiations \cup Responses \cup Packets
<1>1. net' \subseteq Initiations \cup Responses \cup Packets
    BY DEF IInv, Types
<1>2. \A m \in net' : m.to \in Nodes
    BY <1>1 DEF Initiations, Responses, Packets
<1>3. \A m \in net' : m.type = "response" => m \in net
    BY DEF Initiations, Packets
<1>4. InitiationsSound'
    BY DEF IInv, InitiationsSound
<1>5. AnswersSound'
    <2> SUFFICES ASSUME NEW n \in Nodes PROVE AnswersOf(n, noise'[n])
        BY DEF AnswersSound
    <2>1. AnswersOf(n, noise[n]) /\ Recorded(n, noise[n], noise'[n])
        BY DEF IInv, AnswersSound
    <2>2. noise[n] \in Remotes /\ noise'[n] \in Remotes
        BY DEF IInv, Types
    <2>3. noise[n].timestamp \in Nat /\ noise'[n].timestamp \in Nat
          /\ \A a \in noise[n].answered : a[1][2] \in Nat
        BY <2>2 DEF Remotes, SessionKeys, Ephemerals
    <2> QED
        BY <2>1, <2>3 DEF AnswersOf, Recorded
<1>6. ResponsesSound'
    <2>1. \A m \in net : m.to \in Nodes /\ Other(m.to) \in Nodes
        BY <1>1, <1>2, OtherNode
    <2> QED
        BY <1>3, <2>1 DEF IInv, ResponsesSound, Recorded
<1>7. CompletedSound'
    <2> SUFFICES ASSUME NEW n \in Nodes
                 PROVE  /\ CompletedOf(n, noise'[n])
                        /\ \A c \in noise'[n].completed :
                              \E m \in net' : m.type = "response" /\ m.to = n /\ m.key = c
        BY DEF CompletedSound
    <2>1. CompletedOf(n, noise[n]) /\ Recorded(n, noise[n], noise'[n])
        BY DEF IInv, CompletedSound
    <2>2. noise[n] \in Remotes /\ noise'[n] \in Remotes
        BY DEF IInv, Types
    <2>3. noise[n].made \in Nat /\ noise'[n].made \in Nat
          /\ \A c \in noise[n].completed : c[1][2] \in Nat
        BY <2>2 DEF Remotes, SessionKeys, Ephemerals
    <2>4. CompletedOf(n, noise'[n])
        BY <2>1, <2>3 DEF CompletedOf, Recorded
    <2>5. \A c \in noise'[n].completed :
              \E m \in net' : m.type = "response" /\ m.to = n /\ m.key = c
        BY <2>1 DEF IInv, CompletedSound, Recorded
    <2> QED
        BY <2>4, <2>5
<1>8. PacketsSound'
    <2>1. \A m \in net' : Other(m.to) \in Nodes
        BY <1>2, OtherNode
    <2> QED
        BY <2>1 DEF IInv, PacketsSound, Recorded
<1> QED
    BY <1>1, <1>4, <1>5, <1>6, <1>7, <1>8

\* Two keypairs that differ at most in their use.
Alike(j, k) ==
    j # NULL /\ j.key = k.key /\ j.idx = k.idx /\ j.ridx = k.ridx /\ j.initiator = k.initiator

LEMMA SlotsKept ==
    ASSUME IInv, noise' \in [Nodes -> Remotes],
           NEW D \in SUBSET (Initiations \cup Packets), net' = net \cup D,
           \A p \in Nodes : Recorded(p, noise[p], noise'[p]),
           NEW p \in Nodes, NEW x \in SlotNames, NEW y \in SlotNames,
           Alike(noise[p].slots[y], noise'[p].slots[x])
    PROVE  /\ Derived(noise'[p], noise'[p].slots[x])
           /\ \A m \in net' : Named(p, noise'[p].slots[x], m)
<1>1. \A m \in net' : m.type = "response" => m \in net
    BY DEF Initiations, Packets
<1>2. /\ Derived(noise[p], noise[p].slots[y])
      /\ \A m \in net : Named(p, noise[p].slots[y], m)
    BY DEF IInv, SlotsSound, Alike
<1>3. Derived(noise'[p], noise'[p].slots[x])
    BY <1>2 DEF Derived, Alike, Recorded
<1>4. \A m \in net' : Named(p, noise'[p].slots[x], m)
    BY <1>1, <1>2 DEF Named, Alike
<1> QED
    BY <1>3, <1>4

\* A step that leaves every keypair where it is, or in no slot.
LEMMA SlotsStay ==
    ASSUME IInv, noise' \in [Nodes -> Remotes],
           NEW D \in SUBSET (Initiations \cup Packets), net' = net \cup D,
           \A p \in Nodes : Recorded(p, noise[p], noise'[p]),
           \A p \in Nodes : \A x \in SlotNames : noise'[p].slots[x] # NULL =>
               Alike(noise[p].slots[x], noise'[p].slots[x])
    PROVE  SlotsSound' /\ SlotsDistinct' /\ SendsUnderSharedKey'
<1>1. SlotsSound'
    BY SlotsKept, Zenon DEF SlotsSound
<1>2. SlotsDistinct'
    BY DEF IInv, SlotsDistinct, Alike
<1>3. SendsUnderSharedKey'
    <2>1. "current" \in SlotNames
        BY DEF SlotNames
    <2>2. \A n \in Nodes : Other(n) \in Nodes
        BY OtherNode
    <2> QED
        BY <2>1, <2>2 DEF IInv, SendsUnderSharedKey, Alike, Recorded
<1> QED
    BY <1>1, <1>2, <1>3

\* All of the invariant but what it says of the peers.
Records ==
    /\ noise \in [Nodes -> Remotes]
    /\ net \subseteq Initiations \cup Responses \cup Packets
    /\ InitiationsSound /\ AnswersSound /\ ResponsesSound /\ CompletedSound
    /\ SlotsSound /\ SlotsDistinct /\ PacketsSound /\ SendsUnderSharedKey

\* noise_create_initiation, with the initiation sent or not.
Creates(n, i) ==
    /\ noise' = [noise EXCEPT ![n] = CreateInitiation(n, i)]
    /\ \/ net' = net \cup {Initiation(n, CreateInitiation(n, i))}
       \/ net' = net

LEMMA CreatesRecords ==
    ASSUME IInv, NEW n \in Nodes, NEW i \in Indices, Creates(n, i)
    PROVE  Records'
<1> DEFINE t == CreateInitiation(n, i)
           m == Initiation(n, t)
<1>1. Types
    BY DEF IInv
<1>2. /\ t \in Remotes
      /\ t.state = "INITIATOR" /\ t.idx = i /\ t.hs = <<n, noise[n].made + 1>>
      /\ t.made = noise[n].made + 1 /\ t.timestamp = noise[n].timestamp
      /\ t.slots = noise[n].slots
      /\ t.answered = noise[n].answered /\ t.completed = noise[n].completed
    BY <1>1, CreateInitiationFields, Zenon
<1>3. noise[n].made \in Nat /\ noise[n].timestamp \in Nat
    BY <1>1 DEF Types, Remotes
<1>4. m.type = "initiation" /\ m.e = <<Other(m.to), m.timestamp>>
    BY <1>2, OtherNode DEF Initiation
<1>5. m \in Initiations
    BY <1>2, <1>3, OtherNode DEF Initiation, Initiations, Index, Ephemerals
<1>6. noise' = [noise EXCEPT ![n] = t] /\ (net' = net \cup {m} \/ net' = net)
    BY DEF Creates
<1> HIDE DEF t, m
<1>7. /\ noise' \in [Nodes -> Remotes] /\ noise'[n] = t
      /\ \A p \in Nodes : p # n => noise'[p] = noise[p]
    BY <1>1, <1>2, <1>6, OneNode
<1>8. ASSUME NEW p \in Nodes PROVE Recorded(p, noise[p], noise'[p])
    <2>1. noise[p].timestamp \in Nat
        BY <1>1 DEF Types, Remotes
    <2> QED
        BY <1>2, <1>7, <2>1 DEF Recorded
<1>9. \A p \in Nodes : \A x \in SlotNames : noise'[p].slots[x] # NULL =>
          Alike(noise[p].slots[x], noise'[p].slots[x])
    BY <1>2, <1>7 DEF Alike
<1>10. PICK D \in SUBSET (Initiations \cup Packets) :
          net' = net \cup D /\ \A d \in D : d = m
    <2>1. {m} \in SUBSET (Initiations \cup Packets) /\ {} \in SUBSET (Initiations \cup Packets)
        BY <1>5
    <2>2. net' = net \cup {m} \/ net' = net \cup {}
        BY <1>6
    <2> QED
        BY <2>1, <2>2
<1>11. /\ InitiationsSound' /\ AnswersSound' /\ ResponsesSound' /\ CompletedSound'
       /\ PacketsSound' /\ net' \subseteq Initiations \cup Responses \cup Packets
    BY <1>4, <1>6, <1>7, <1>8, <1>10, RecordsKept
<1>12. SlotsSound' /\ SlotsDistinct' /\ SendsUnderSharedKey'
    BY <1>4, <1>6, <1>7, <1>8, <1>9, <1>10, SlotsStay
<1> QED
    BY <1>7, <1>11, <1>12 DEF Records

\* The timestamp of an initiation is kept, and the handshake state perhaps too,
\* and nothing comes of it.
Stamps(n, t) ==
    /\ noise' = [noise EXCEPT ![n] = t] /\ net' = net
    /\ t \in Remotes /\ t.slots = noise[n].slots
    /\ t.answered = noise[n].answered /\ t.completed = noise[n].completed
    /\ noise[n].timestamp <= t.timestamp /\ t.made = noise[n].made
    /\ \/ t.state = "RESPONDER"
       \/ t.state = noise[n].state /\ t.hs = noise[n].hs

LEMMA StampsRecords ==
    ASSUME IInv, NEW n \in Nodes, NEW t, Stamps(n, t)
    PROVE  Records'
<1>1. Types /\ t \in Remotes /\ noise' = [noise EXCEPT ![n] = t]
    BY DEF IInv, Stamps
<1>2. /\ noise' \in [Nodes -> Remotes] /\ noise'[n] = t
      /\ \A p \in Nodes : p # n => noise'[p] = noise[p]
    BY <1>1, OneNode
<1>3. ASSUME NEW p \in Nodes PROVE Recorded(p, noise[p], noise'[p])
    <2>1. noise[p].timestamp \in Nat
        BY <1>1 DEF Types, Remotes
    <2> QED
        BY <1>2, <2>1 DEF Recorded, Stamps
<1>4. \A p \in Nodes : \A x \in SlotNames : noise'[p].slots[x] # NULL =>
          Alike(noise[p].slots[x], noise'[p].slots[x])
    BY <1>2 DEF Alike, Stamps
<1>5. net' = net \cup {} /\ {} \in SUBSET (Initiations \cup Packets)
    BY DEF Stamps
<1>6. /\ InitiationsSound' /\ AnswersSound' /\ ResponsesSound' /\ CompletedSound'
      /\ PacketsSound' /\ net' \subseteq Initiations \cup Responses \cup Packets
    BY <1>2, <1>3, <1>5, RecordsKept
<1>7. SlotsSound' /\ SlotsDistinct' /\ SendsUnderSharedKey'
    BY <1>2, <1>3, <1>4, <1>5, SlotsStay
<1> QED
    BY <1>2, <1>6, <1>7 DEF Records

\* A data packet under the current keypair: its count goes up.
Uses(s) == [s EXCEPT !.slots["current"].sent = @ + 1]

LEMMA UsesFields ==
    ASSUME NEW s \in Remotes, s.slots["current"] # NULL
    PROVE  /\ Uses(s) \in Remotes
           /\ Uses(s).state = s.state /\ Uses(s).hs = s.hs /\ Uses(s).made = s.made
           /\ Uses(s).idx = s.idx /\ Uses(s).timestamp = s.timestamp
           /\ Uses(s).answered = s.answered /\ Uses(s).completed = s.completed
           /\ \A x \in SlotNames : Uses(s).slots[x] # NULL => Alike(s.slots[x], Uses(s).slots[x])
<1> DEFINE k == s.slots["current"]
           j == [k EXCEPT !.sent = @ + 1]
           slots == [s.slots EXCEPT !["current"] = j]
<1>1. "current" \in SlotNames /\ s.slots \in [SlotNames -> Keypairs \cup {NULL}]
    BY DEF SlotNames, Remotes
<1>2. k \in Keypairs
    BY <1>1
<1>3. j \in Keypairs /\ j.key = k.key /\ j.idx = k.idx /\ j.ridx = k.ridx
      /\ j.initiator = k.initiator
    BY <1>2 DEF Keypairs
<1>4. Uses(s) = [s EXCEPT !.slots = slots]
    BY DEF Uses
<1> HIDE DEF j
<1>5. slots \in [SlotNames -> Keypairs \cup {NULL}]
    BY <1>1, <1>3
<1>6. \A x \in SlotNames : slots[x] # NULL => Alike(s.slots[x], slots[x])
    BY <1>1, <1>3 DEF Alike
<1> HIDE DEF slots
<1> QED
    BY <1>4, <1>5, <1>6 DEF Remotes

LEMMA HandleTunRecords ==
    ASSUME IInv, NEW n \in Nodes, HandleTun(n)
    PROVE  Records'
<1> DEFINE s == noise[n]
           k == s.slots["current"]
           t == Uses(s)
           m == Data(n, k)
<1>1. Types /\ s \in Remotes /\ k # NULL /\ k \in Keypairs /\ "current" \in SlotNames
    BY DEF IInv, Types, Remotes, SlotNames, HandleTun
<1>2. noise' = [noise EXCEPT ![n] = t] /\ net' = net \cup {m}
    BY DEF HandleTun, Uses, Send
<1>3. /\ t \in Remotes
      /\ t.state = s.state /\ t.hs = s.hs /\ t.made = s.made
      /\ t.idx = s.idx /\ t.timestamp = s.timestamp
      /\ t.answered = s.answered /\ t.completed = s.completed
      /\ \A x \in SlotNames : t.slots[x] # NULL => Alike(s.slots[x], t.slots[x])
    BY <1>1, UsesFields
<1>4. m \in Packets
    BY <1>1, OtherNode DEF Data, Packets, Keypairs, Index
<1>5. /\ m.type = "data" /\ m.to = Other(n) /\ Other(m.to) = n /\ m.key = k.key
    BY OtherNode DEF Data
<1>6. k.key[1][1] = n => k.key \in s.completed
    <2>1. Derived(s, k)
        BY <1>1 DEF IInv, SlotsSound
    <2>2. \A a \in s.answered : a[1][1] = Other(n)
        BY DEF IInv, AnswersSound, AnswersOf
    <2> QED
        BY <2>1, <2>2, OtherNode DEF Derived
<1> HIDE DEF t, m, k
<1>7. /\ noise' \in [Nodes -> Remotes] /\ noise'[n] = t
      /\ \A p \in Nodes : p # n => noise'[p] = noise[p]
    BY <1>1, <1>2, <1>3, OneNode
<1>8. ASSUME NEW p \in Nodes PROVE Recorded(p, noise[p], noise'[p])
    <2>1. noise[p].timestamp \in Nat
        BY <1>1 DEF Types, Remotes
    <2> QED
        BY <1>3, <1>7, <2>1 DEF Recorded
<1>9. \A p \in Nodes : \A x \in SlotNames : noise'[p].slots[x] # NULL =>
          Alike(noise[p].slots[x], noise'[p].slots[x])
    BY <1>3, <1>7 DEF Alike
<1>10. {m} \in SUBSET (Initiations \cup Packets)
    BY <1>4
<1>11. /\ InitiationsSound' /\ AnswersSound' /\ ResponsesSound' /\ CompletedSound'
       /\ PacketsSound' /\ net' \subseteq Initiations \cup Responses \cup Packets
    BY <1>2, <1>5, <1>6, <1>7, <1>8, <1>10, RecordsKept
<1>12. SlotsSound' /\ SlotsDistinct' /\ SendsUnderSharedKey'
    BY <1>2, <1>7, <1>8, <1>9, <1>10, SlotsStay
<1> QED
    BY <1>7, <1>11, <1>12 DEF Records

-----------------------------------------------------------------------------
(* The responder's new keypair is put to use.                                *)

LEMMA PromoteFields ==
    ASSUME NEW s \in Remotes
    PROVE  LET t == [s EXCEPT !.slots = Promote(s.slots)]
           IN  /\ t \in Remotes
               /\ t.state = s.state /\ t.hs = s.hs /\ t.made = s.made
               /\ t.idx = s.idx /\ t.timestamp = s.timestamp
               /\ t.answered = s.answered /\ t.completed = s.completed
               /\ t.slots["next"] = NULL /\ t.slots["current"] = s.slots["next"]
               /\ t.slots["previous"] = s.slots["current"]
<1> DEFINE slots == Promote(s.slots)
           t == [s EXCEPT !.slots = slots]
<1>1. s.slots \in [SlotNames -> Keypairs \cup {NULL}]
    BY DEF Remotes
<1>2. /\ slots \in [SlotNames -> Keypairs \cup {NULL}]
      /\ slots["next"] = NULL /\ slots["current"] = s.slots["next"]
      /\ slots["previous"] = s.slots["current"]
    BY <1>1 DEF Promote, SlotNames
<1> HIDE DEF slots
<1>3. /\ t \in Remotes
      /\ t.state = s.state /\ t.hs = s.hs /\ t.made = s.made
      /\ t.idx = s.idx /\ t.timestamp = s.timestamp
      /\ t.answered = s.answered /\ t.completed = s.completed /\ t.slots = slots
    BY <1>2 DEF Remotes
<1> QED
    BY <1>2, <1>3 DEF slots

\* noise_keypair_received_with: the packet is its sender's proof that it has
\* completed the key.
LEMMA PromoteRecords ==
    ASSUME IInv, NEW n \in Nodes, NEW m \in net, m.type = "data", m.to = n,
           noise[n].slots["next"] # NULL, noise[n].slots["next"].key = m.key,
           noise' = [noise EXCEPT ![n] = [noise[n] EXCEPT !.slots = Promote(noise[n].slots)]],
           net' = net
    PROVE  Records'
<1> DEFINE s == noise[n]
           t == [s EXCEPT !.slots = Promote(s.slots)]
<1>1. Types /\ s \in Remotes
    BY DEF IInv, Types
<1>2. /\ t \in Remotes
      /\ t.state = s.state /\ t.hs = s.hs /\ t.made = s.made
      /\ t.idx = s.idx /\ t.timestamp = s.timestamp
      /\ t.answered = s.answered /\ t.completed = s.completed
      /\ t.slots["next"] = NULL /\ t.slots["current"] = s.slots["next"]
      /\ t.slots["previous"] = s.slots["current"]
    BY <1>1, PromoteFields
<1>3. noise' = [noise EXCEPT ![n] = t]
    OBVIOUS
<1> HIDE DEF t
<1>4. /\ noise' \in [Nodes -> Remotes] /\ noise'[n] = t
      /\ \A p \in Nodes : p # n => noise'[p] = noise[p]
    BY <1>1, <1>2, <1>3, OneNode
<1>5. ASSUME NEW p \in Nodes PROVE Recorded(p, noise[p], noise'[p])
    <2>1. noise[p].timestamp \in Nat
        BY <1>1 DEF Types, Remotes
    <2> QED
        BY <1>2, <1>4, <2>1 DEF Recorded
<1>6. net' = net \cup {} /\ {} \in SUBSET (Initiations \cup Packets)
    OBVIOUS
<1>7. /\ InitiationsSound' /\ AnswersSound' /\ ResponsesSound' /\ CompletedSound'
      /\ PacketsSound' /\ net' \subseteq Initiations \cup Responses \cup Packets
    BY <1>4, <1>5, <1>6, RecordsKept
<1> DEFINE from(x) == IF x = "current" THEN "next" ELSE "current"
<1>8. ASSUME NEW p \in Nodes, NEW x \in SlotNames, noise'[p].slots[x] # NULL
      PROVE  \E y \in SlotNames : /\ Alike(noise[p].slots[y], noise'[p].slots[x])
                                  /\ y = IF p = n THEN from(x) ELSE x
    <2>1. CASE p # n
        BY <1>4, <1>8, <2>1 DEF Alike
    <2>2. CASE p = n
        <3>1. from(x) \in SlotNames /\ x \in {"next", "current", "previous"}
            BY DEF SlotNames
        <3>2. noise'[p].slots[x] = noise[p].slots[from(x)]
            BY <1>2, <1>4, <1>8, <2>2, <3>1
        <3> QED
            BY <1>8, <2>2, <3>1, <3>2 DEF Alike
    <2> QED
        BY <2>1, <2>2
<1>9. SlotsSound'
    <2> SUFFICES ASSUME NEW p \in Nodes, NEW x \in SlotNames, noise'[p].slots[x] # NULL
                 PROVE  /\ Derived(noise'[p], noise'[p].slots[x])
                        /\ \A q \in net' : Named(p, noise'[p].slots[x], q)
        BY Zenon DEF SlotsSound
    <2>1. PICK y \in SlotNames : Alike(noise[p].slots[y], noise'[p].slots[x])
        BY <1>8
    <2> QED
        BY <1>4, <1>5, <1>6, <2>1, SlotsKept
<1>10. SlotsDistinct'
    <2>1. ASSUME NEW p \in Nodes, NEW x \in SlotNames, NEW y \in SlotNames, x # y,
                 noise'[p].slots[x] # NULL, noise'[p].slots[y] # NULL
          PROVE  noise'[p].slots[x].key # noise'[p].slots[y].key
        <3>1. PICK w \in SlotNames : /\ Alike(noise[p].slots[w], noise'[p].slots[x])
                                     /\ w = IF p = n THEN from(x) ELSE x
            BY <1>8, <2>1
        <3>2. PICK z \in SlotNames : /\ Alike(noise[p].slots[z], noise'[p].slots[y])
                                     /\ z = IF p = n THEN from(y) ELSE y
            BY <1>8, <2>1
        <3>3. w # z
            <4>1. p = n => x # "next" /\ y # "next"
                BY <1>2, <1>4, <2>1
            <4> QED
                BY <2>1, <3>1, <3>2, <4>1 DEF SlotNames
        <3> QED
            BY <3>1, <3>2, <3>3 DEF IInv, SlotsDistinct, Alike
    <2> QED
        BY <2>1 DEF SlotsDistinct
<1>11. SendsUnderSharedKey'
    <2> SUFFICES ASSUME NEW p \in Nodes,
                        noise'[p].slots["current"] # NULL,
                        ~noise'[p].slots["current"].initiator
                 PROVE  noise'[p].slots["current"].key \in noise'[Other(p)].completed
        BY DEF SendsUnderSharedKey
    <2>1. Other(p) \in Nodes /\ Other(p) # p /\ noise'[Other(p)].completed = noise[Other(p)].completed
        BY <1>2, <1>4, OtherNode
    <2>2. CASE p = n
        <3>1. "next" \in SlotNames
            BY DEF SlotNames
        <3>2. m.key \in s.answered
            BY <1>2, <1>4, <2>2, <3>1 DEF IInv, SlotsSound, Derived
        <3>3. m.key[1][1] = Other(n)
            BY <3>2 DEF IInv, AnswersSound, AnswersOf
        <3>4. m.key \in noise[Other(n)].completed
            BY <3>3 DEF IInv, PacketsSound
        <3> QED
            BY <1>2, <1>4, <2>1, <2>2, <3>4
    <2>3. CASE p # n
        BY <1>4, <2>1, <2>3 DEF IInv, SendsUnderSharedKey
    <2> QED
        BY <2>2, <2>3
<1> QED
    BY <1>4, <1>7, <1>9, <1>10, <1>11 DEF Records

-----------------------------------------------------------------------------
(* The responder derives a key.                                              *)

\* noise_consume_initiation and noise_create_response, with or without the
\* response leaving.
Answers(n, m, i) ==
    LET t == CreateResponse(ConsumeInitiation(noise[n], m, i), n) IN
    /\ m \in net /\ m.type = "initiation" /\ m.to = n
    /\ noise[n].timestamp < m.timestamp
    /\ noise' = [noise EXCEPT ![n] = t]
    /\ net' = net \/ net' = net \cup {Response(n, t, t.slots["next"])}

\* The key is new.
LEMMA AnswerFresh ==
    ASSUME IInv, NEW n \in Nodes, NEW m \in net, m.type = "initiation", m.to = n,
           noise[n].timestamp < m.timestamp
    PROVE  LET s == noise[n]
               key == AnswerKey(n, s, m)
           IN  /\ m \in Initiations
               /\ m.e = <<Other(n), m.timestamp>>
               /\ key[1] = <<Other(n), m.timestamp>>
               /\ key[2] = <<n, Cardinality(s.answered) + 1>>
               /\ \A a \in s.answered : a # key /\ a[1] # key[1]
               /\ key \notin s.completed
<1> DEFINE s == noise[n]
           key == AnswerKey(n, s, m)
<1>1. m \in Initiations
    BY DEF IInv, Types, Responses, Packets
<1>2. m.e = <<Other(n), m.timestamp>>
    BY DEF IInv, InitiationsSound
<1>3. key[1] = <<Other(n), m.timestamp>> /\ key[2] = <<n, Cardinality(s.answered) + 1>>
    BY <1>2 DEF AnswerKey
<1>4. AnswersOf(n, s) /\ CompletedOf(n, s) /\ s \in Remotes
    BY DEF IInv, AnswersSound, CompletedSound, Types
<1>5. m.timestamp \in Nat /\ s.timestamp \in Nat
      /\ \A a \in s.answered : a[1][2] \in Nat
    BY <1>1, <1>4 DEF Initiations, Remotes, SessionKeys, Ephemerals
<1>6. \A a \in s.answered : a[1] # key[1]
    BY <1>3, <1>4, <1>5 DEF AnswersOf
<1>7. key \notin s.completed
    BY <1>3, <1>4, OtherNode DEF CompletedOf
<1> QED
    BY <1>1, <1>2, <1>3, <1>6, <1>7

LEMMA AnswersFacts ==
    ASSUME IInv, NEW n \in Nodes, NEW m, NEW i \in Indices, Answers(n, m, i)
    PROVE  LET s == noise[n]
               k == AnswerKeypair(n, s, m, i)
           IN  /\ m \in Initiations /\ m \in net
               /\ k \in Keypairs /\ ~k.initiator
               /\ noise' \in [Nodes -> Remotes]
               /\ \A p \in Nodes : p # n => noise'[p] = noise[p]
               /\ noise'[n].state = "DEAD" /\ noise'[n].made = s.made
               /\ noise'[n].timestamp = m.timestamp
               /\ noise'[n].slots["next"] = k
               /\ noise'[n].slots["current"] = s.slots["current"]
               /\ noise'[n].slots["previous"] = NULL
               /\ noise'[n].answered = s.answered \cup {AnswerKey(n, s, m)}
               /\ noise'[n].completed = s.completed
               /\ net' = net \/ net' = net \cup {Response(n, noise'[n], k)}
<1> DEFINE s == noise[n]
           k == AnswerKeypair(n, s, m, i)
           t == CreateResponse(ConsumeInitiation(s, m, i), n)
<1>1. m \in net /\ m.type = "initiation" /\ m.to = n /\ noise[n].timestamp < m.timestamp
    BY DEF Answers
<1>2. m \in Initiations
    BY <1>1, AnswerFresh
<1>3. Types /\ AnswersSound
    BY DEF IInv
<1>4. /\ k \in Keypairs
      /\ t \in Remotes /\ t.state = "DEAD"
      /\ t.made = s.made /\ t.timestamp = m.timestamp
      /\ t.slots = AddKeypair(s.slots, k, FALSE)
      /\ t.answered = s.answered \cup {AnswerKey(n, s, m)}
      /\ t.completed = s.completed
    BY <1>2, <1>3, AnswerFields, Zenon
<1>5. k.initiator = FALSE /\ k.key = AnswerKey(n, s, m)
    BY DEF AnswerKeypair
<1>6. s.slots \in [SlotNames -> Keypairs \cup {NULL}]
    BY <1>3 DEF Types, Remotes
<1>7. /\ noise' = [noise EXCEPT ![n] = t]
      /\ net' = net \/ net' = net \cup {Response(n, t, t.slots["next"])}
    BY DEF Answers
<1> HIDE DEF t, k
<1>8. /\ t.slots["next"] = k
      /\ t.slots["current"] = s.slots["current"]
      /\ t.slots["previous"] = NULL
    BY <1>4 DEF AddKeypair, AddResponder, SlotNames
<1>9. /\ noise' \in [Nodes -> Remotes] /\ noise'[n] = t
      /\ \A p \in Nodes : p # n => noise'[p] = noise[p]
    BY <1>3, <1>4, <1>7, OneNode
<1>10. net' = net \/ net' = net \cup {Response(n, noise'[n], k)}
    BY <1>7, <1>8, <1>9
<1> HIDE DEF s
<1>11. /\ noise'[n].state = "DEAD" /\ noise'[n].made = s.made
       /\ noise'[n].timestamp = m.timestamp
       /\ noise'[n].slots["next"] = k
       /\ noise'[n].slots["current"] = s.slots["current"]
       /\ noise'[n].slots["previous"] = NULL
       /\ noise'[n].answered = s.answered \cup {AnswerKey(n, s, m)}
       /\ noise'[n].completed = s.completed
    BY <1>4, <1>8, <1>9
<1> QED
    BY <1>1, <1>2, <1>4, <1>5, <1>9, <1>10, <1>11 DEF s, k

\* The answers of n to initiations of o that are no newer than t.
AnswersBy(n, o, as, t) ==
    /\ IsFiniteSet(as)
    /\ \A a \in as : /\ a[1][1] = o /\ a[1][2] <= t
                     /\ a[2][1] = n /\ a[2][2] <= Cardinality(as)

LEMMA OneMoreAnswer ==
    ASSUME NEW n, NEW o, NEW as \in SUBSET SessionKeys, NEW t0 \in Nat, NEW t1 \in Nat, t0 < t1,
           AnswersBy(n, o, as, t0),
           NEW key, key \notin as,
           key[1] = <<o, t1>>, key[2] = <<n, Cardinality(as) + 1>>
    PROVE  AnswersBy(n, o, as \cup {key}, t1)
<1> DEFINE c == Cardinality(as)
<1>1. /\ IsFiniteSet(as)
      /\ \A a \in as : a[1][1] = o /\ a[1][2] <= t0 /\ a[2][1] = n /\ a[2][2] <= c
    BY DEF AnswersBy
<1>2. IsFiniteSet(as \cup {key}) /\ Cardinality(as \cup {key}) = c + 1
    BY <1>1, FS_AddElement
<1>3. c \in Nat
    BY <1>1, FS_CardinalityType
<1>4. \A a \in as : a[1][2] \in Nat /\ a[2][2] \in Nat
    BY DEF SessionKeys, Ephemerals
<1>5. key[1][2] = t1 /\ key[2][2] = c + 1 /\ key[1][1] = o /\ key[2][1] = n
    OBVIOUS
<1> HIDE DEF c
<1>6. ASSUME NEW a \in as
      PROVE  a[1][2] <= t1 /\ a[2][2] <= c + 1
    <2> DEFINE x == a[1][2]
               y == a[2][2]
    <2>1. x \in Nat /\ y \in Nat /\ x <= t0 /\ y <= c
        BY <1>1, <1>4
    <2> HIDE DEF x, y
    <2>2. x <= t1 /\ y <= c + 1
        BY <1>3, <2>1
    <2> QED
        BY <2>2 DEF x, y
<1>7. key[1][2] <= t1 /\ key[2][2] <= c + 1
    <2>1. t1 <= t1 /\ c + 1 <= c + 1
        BY <1>3
    <2> QED
        BY <1>5, <2>1
<1> QED
    BY <1>1, <1>2, <1>5, <1>6, <1>7 DEF AnswersBy

LEMMA AnswersRecords ==
    ASSUME IInv, NEW n \in Nodes, NEW m, NEW i \in Indices, Answers(n, m, i)
    PROVE  Records'
<1> DEFINE s == noise[n]
           k == AnswerKeypair(n, s, m, i)
           key == AnswerKey(n, s, m)
           r == Response(n, noise'[n], k)
<1>1. m \in Initiations /\ m \in net /\ m.type = "initiation" /\ m.to = n
      /\ s.timestamp < m.timestamp /\ s \in Remotes /\ Other(n) \in Nodes /\ Other(n) # n
      /\ Other(Other(n)) = n
    BY AnswersFacts, OtherNode DEF Answers, IInv, Types
<1>2. /\ k \in Keypairs /\ ~k.initiator
      /\ noise' \in [Nodes -> Remotes]
      /\ \A p \in Nodes : p # n => noise'[p] = noise[p]
      /\ noise'[n].state = "DEAD" /\ noise'[n].made = s.made
      /\ noise'[n].timestamp = m.timestamp
      /\ noise'[n].slots["next"] = k
      /\ noise'[n].slots["current"] = s.slots["current"]
      /\ noise'[n].slots["previous"] = NULL
      /\ noise'[n].answered = s.answered \cup {key}
      /\ noise'[n].completed = s.completed
      /\ net' = net \/ net' = net \cup {r}
    BY AnswersFacts
<1>3. /\ key[1] = <<Other(n), m.timestamp>>
      /\ key[2] = <<n, Cardinality(s.answered) + 1>>
      /\ \A a \in s.answered : a # key /\ a[1] # key[1]
      /\ key \notin s.completed
    BY <1>1, AnswerFresh
<1>4. /\ r.type = "response" /\ r.to = Other(n) /\ r.sidx = k.idx /\ r.ridx = k.ridx
      /\ r.key = key /\ k.key = key
    BY DEF Response, AnswerKeypair
<1>5. r \in Responses
    BY <1>1, <1>2 DEF Response, Responses, Keypairs, Index
<1> HIDE DEF k, key, r
<1>6. net' \subseteq Initiations \cup Responses \cup Packets
    BY <1>2, <1>5 DEF IInv, Types
<1>7. InitiationsSound'
    BY <1>2, <1>4 DEF IInv, InitiationsSound
<1>8. AnswersSound'
    <2> SUFFICES ASSUME NEW p \in Nodes PROVE AnswersOf(p, noise'[p])
        BY DEF AnswersSound
    <2>1. CASE p = n
        <3>1. AnswersOf(n, s)
            BY DEF IInv, AnswersSound
        <3>2. m.timestamp \in Nat /\ s.timestamp \in Nat /\ s.answered \in SUBSET SessionKeys
            BY <1>1 DEF Initiations, Remotes
        <3>3. key \notin s.answered
            BY <1>3
        <3> DEFINE as == s.answered
                   ts == s.timestamp
                   tm == m.timestamp
        <3>4. AnswersBy(n, Other(n), as, ts)
            BY <3>1 DEF AnswersOf, AnswersBy
        <3>5. /\ ts < tm /\ ts \in Nat /\ tm \in Nat /\ key \notin as /\ as \in SUBSET SessionKeys
              /\ key[1] = <<Other(n), tm>> /\ key[2] = <<n, Cardinality(as) + 1>>
            BY <1>1, <1>3, <3>2, <3>3
        <3> HIDE DEF as, ts, tm
        <3>6. AnswersBy(n, Other(n), as \cup {key}, tm)
            BY <3>4, <3>5, OneMoreAnswer
        <3>7. AnswersBy(n, Other(n), noise'[n].answered, noise'[n].timestamp)
            BY <1>2, <3>6 DEF as, tm
        <3>8. \A a, b \in s.answered \cup {key} : a[1] = b[1] => a = b
            BY <1>3, <3>1 DEF AnswersOf
        <3> QED
            BY <1>2, <2>1, <3>7, <3>8 DEF AnswersOf, AnswersBy
    <2>2. CASE p # n
        BY <1>2, <2>2 DEF IInv, AnswersSound
    <2> QED
        BY <2>1, <2>2
<1>9. \A p \in Nodes : noise[p].answered \subseteq noise'[p].answered
                        /\ noise'[p].completed = noise[p].completed
    BY <1>2
<1>10. \A q \in net : q.to \in Nodes /\ Other(q.to) \in Nodes /\ Other(Other(q.to)) = q.to
    BY OtherNode DEF IInv, Types, Initiations, Responses, Packets
\* A response sent before has another key.
<1>11. \A q \in net : q.type = "response" /\ q.to = Other(n) => q.key # key
    BY <1>1, <1>3 DEF IInv, ResponsesSound
<1>12. ResponsesSound'
    <2>1. \A q \in net' : q.type = "response" => q.key \in noise'[Other(q.to)].answered
        BY <1>1, <1>2, <1>4, <1>9, <1>10 DEF IInv, ResponsesSound
    <2>2. ASSUME NEW q1 \in net', NEW q2 \in net', q1.type = "response", q2.type = "response",
                 q1.to = q2.to, q1.key = q2.key
          PROVE  q1 = q2
        BY <1>2, <1>4, <1>11, <2>2 DEF IInv, ResponsesSound
    <2> QED
        BY <2>1, <2>2 DEF ResponsesSound
<1>13. CompletedSound'
    <2> SUFFICES ASSUME NEW p \in Nodes
                 PROVE  /\ CompletedOf(p, noise'[p])
                        /\ \A c \in noise'[p].completed :
                              \E q \in net' : q.type = "response" /\ q.to = p /\ q.key = c
        BY DEF CompletedSound
    <2>1. CompletedOf(p, noise'[p])
        BY <1>2 DEF IInv, CompletedSound, CompletedOf
    <2>2. \A c \in noise'[p].completed :
              \E q \in net' : q.type = "response" /\ q.to = p /\ q.key = c
        BY <1>2, <1>9 DEF IInv, CompletedSound
    <2> QED
        BY <2>1, <2>2
\* No keypair that was in a slot before has the new key.
<1>14. ASSUME NEW p \in Nodes, NEW x \in SlotNames, noise[p].slots[x] # NULL
       PROVE  noise[p].slots[x].key # key
    <2> DEFINE j == noise[p].slots[x]
    <2>1. Derived(noise[p], j)
        BY <1>14 DEF IInv, SlotsSound
    <2>2. CASE p = n
        BY <1>3, <2>1, <2>2 DEF Derived
    <2>3. CASE p = Other(n)
        <3>1. CASE j.initiator
            <4>1. j.key \in noise[p].completed
                BY <2>1, <3>1 DEF Derived
            <4>2. PICK q \in net : q.type = "response" /\ q.to = p /\ q.key = j.key
                BY <4>1 DEF IInv, CompletedSound
            <4> QED
                BY <1>11, <2>3, <4>2
        <3>2. CASE ~j.initiator
            <4>1. j.key \in noise[p].answered
                BY <2>1, <3>2 DEF Derived
            <4>2. j.key[1][1] = n
                BY <1>1, <2>3, <4>1 DEF IInv, AnswersSound, AnswersOf
            <4> QED
                BY <1>1, <1>3, <4>2
        <3> QED
            BY <3>1, <3>2
    <2> QED
        BY <2>2, <2>3, OtherNode
<1>15. ASSUME NEW p \in Nodes, NEW x \in SlotNames, noise'[p].slots[x] # NULL
       PROVE  \/ p = n /\ x = "next" /\ noise'[p].slots[x] = k
              \/ p = n /\ x = "current" /\ noise'[p].slots[x] = noise[p].slots[x]
              \/ p # n /\ noise'[p].slots[x] = noise[p].slots[x]
    BY <1>2, <1>15 DEF SlotNames
<1>16. SlotsSound'
    <2> SUFFICES ASSUME NEW p \in Nodes, NEW x \in SlotNames, noise'[p].slots[x] # NULL
                 PROVE  /\ Derived(noise'[p], noise'[p].slots[x])
                        /\ \A q \in net' : Named(p, noise'[p].slots[x], q)
        BY Zenon DEF SlotsSound
    <2>1. CASE noise'[p].slots[x] = noise[p].slots[x]
        <3>1. /\ Derived(noise[p], noise[p].slots[x])
              /\ \A q \in net : Named(p, noise[p].slots[x], q)
            BY <2>1 DEF IInv, SlotsSound
        <3>2. noise[p].slots[x].key # key
            BY <1>14, <2>1
        <3>3. Derived(noise'[p], noise[p].slots[x])
            BY <1>9, <3>1 DEF Derived
        <3>4. Named(p, noise[p].slots[x], r)
            BY <1>4, <3>2 DEF Named
        <3> QED
            BY <1>2, <2>1, <3>1, <3>3, <3>4
    <2>2. CASE p = n /\ noise'[p].slots[x] = k
        <3>1. Derived(noise'[n], k)
            BY <1>2, <1>4 DEF Derived
        <3>2. \A q \in net : Named(n, k, q)
            BY <1>2, <1>4, <1>11 DEF Named
        <3>3. Named(n, k, r)
            BY <1>2, <1>4 DEF Named
        <3> QED
            BY <1>2, <2>2, <3>1, <3>2, <3>3
    <2> QED
        BY <1>15, <2>1, <2>2
<1>17. SlotsDistinct'
    <2> SUFFICES ASSUME NEW p \in Nodes, NEW x \in SlotNames, NEW y \in SlotNames, x # y,
                        noise'[p].slots[x] # NULL, noise'[p].slots[y] # NULL
                 PROVE  noise'[p].slots[x].key # noise'[p].slots[y].key
        BY DEF SlotsDistinct
    <2>1. CASE p # n
        BY <1>2, <2>1 DEF IInv, SlotsDistinct
    <2>2. CASE p = n
        BY <1>4, <1>14, <1>15, <2>2
    <2> QED
        BY <2>1, <2>2
<1>18. PacketsSound'
    BY <1>2, <1>4, <1>9, <1>10 DEF IInv, PacketsSound
<1>19. SendsUnderSharedKey'
    <2>1. "current" \in SlotNames
        BY DEF SlotNames
    <2>2. \A p \in Nodes : Other(p) \in Nodes
                            /\ noise'[p].slots["current"] = noise[p].slots["current"]
        BY <1>2, OtherNode
    <2> QED
        BY <1>9, <2>1, <2>2 DEF IInv, SendsUnderSharedKey
<1> QED
    BY <1>2, <1>6, <1>7, <1>8, <1>12, <1>13, <1>16, <1>17, <1>18, <1>19 DEF Records

-----------------------------------------------------------------------------
(* The initiator derives a key.                                              *)

\* noise_consume_response.
Completes(n, m) ==
    /\ m \in net /\ m.type = "response" /\ m.to = n /\ Consumable(noise[n], m)
    /\ noise' = [noise EXCEPT ![n] = ConsumeResponse(noise[n], m)]
    /\ net' = net

\* The key is new here, and the peer has derived it.
LEMMA CompleteFresh ==
    ASSUME IInv, NEW n \in Nodes, NEW m \in net, m.type = "response", m.to = n,
           Consumable(noise[n], m)
    PROVE  /\ m \in Responses /\ m.key[1] = <<n, noise[n].made>>
           /\ m.key \in noise[Other(n)].answered
           /\ m.key \notin noise[n].completed
           /\ m.key \notin noise[n].answered
<1> DEFINE s == noise[n]
<1>1. m \in Responses
    BY DEF IInv, Types, Initiations, Packets
<1>2. s \in Remotes /\ s.state = "INITIATOR" /\ s.hs = m.key[1]
    BY DEF IInv, Types, Consumable
<1>3. CompletedOf(n, s) /\ AnswersOf(n, s)
    BY DEF IInv, CompletedSound, AnswersSound
<1>4. m.key[1] = <<n, s.made>>
    BY <1>2, <1>3 DEF CompletedOf
<1>5. s.made \in Nat /\ \A c \in s.completed : c[1][2] \in Nat
    BY <1>2 DEF Remotes, SessionKeys, Ephemerals
<1>6. m.key \notin s.completed
    BY <1>2, <1>3, <1>4, <1>5 DEF CompletedOf
<1>7. m.key \notin s.answered
    BY <1>3, <1>4, OtherNode DEF AnswersOf
<1>8. m.key \in noise[Other(n)].answered
    BY DEF IInv, ResponsesSound
<1> QED
    BY <1>1, <1>4, <1>6, <1>7, <1>8

LEMMA CompletesFacts ==
    ASSUME IInv, NEW n \in Nodes, NEW m, Completes(n, m)
    PROVE  LET s == noise[n]
               k == CompletedKeypair(s, m)
           IN  /\ k \in Keypairs /\ k.initiator /\ k.key = m.key
               /\ k.idx = m.ridx /\ k.ridx = m.sidx
               /\ noise' \in [Nodes -> Remotes]
               /\ \A p \in Nodes : p # n => noise'[p] = noise[p]
               /\ noise'[n].state = "DEAD" /\ noise'[n].made = s.made
               /\ noise'[n].timestamp = s.timestamp
               /\ noise'[n].slots["next"] = NULL
               /\ noise'[n].slots["current"] = k
               /\ noise'[n].slots["previous"] \in {s.slots["next"], s.slots["current"]}
               /\ noise'[n].answered = s.answered
               /\ noise'[n].completed = s.completed \cup {m.key}
<1> DEFINE s == noise[n]
           k == CompletedKeypair(s, m)
           t == ConsumeResponse(s, m)
<1>1. m \in net /\ m.type = "response" /\ m.to = n /\ Consumable(s, m)
    BY DEF Completes
<1>2. m \in Responses
    BY <1>1, CompleteFresh
<1>3. Types /\ s.state = "INITIATOR" /\ s.idx = m.ridx
    BY <1>1 DEF IInv, Consumable
<1>4. /\ k \in Keypairs
      /\ t \in Remotes /\ t.state = "DEAD"
      /\ t.made = s.made /\ t.timestamp = s.timestamp
      /\ t.slots = AddKeypair(s.slots, k, TRUE)
      /\ t.answered = s.answered
      /\ t.completed = s.completed \cup {m.key}
    BY <1>2, <1>3, CompleteFields, Zenon
<1>5. k.initiator /\ k.key = m.key /\ k.idx = m.ridx /\ k.ridx = m.sidx
    BY <1>3 DEF CompletedKeypair
<1>6. noise' = [noise EXCEPT ![n] = t]
    BY DEF Completes
<1> HIDE DEF t, k
<1>7. /\ t.slots["next"] = NULL
      /\ t.slots["current"] = k
      /\ t.slots["previous"] \in {s.slots["next"], s.slots["current"]}
    BY <1>4 DEF AddKeypair, AddInitiator, SlotNames
<1>8. /\ noise' \in [Nodes -> Remotes] /\ noise'[n] = t
      /\ \A p \in Nodes : p # n => noise'[p] = noise[p]
    BY <1>3, <1>4, <1>6, OneNode
<1> HIDE DEF s
<1>9. /\ noise'[n].state = "DEAD" /\ noise'[n].made = s.made
      /\ noise'[n].timestamp = s.timestamp
      /\ noise'[n].slots["next"] = NULL
      /\ noise'[n].slots["current"] = k
      /\ noise'[n].slots["previous"] \in {s.slots["next"], s.slots["current"]}
      /\ noise'[n].answered = s.answered
      /\ noise'[n].completed = s.completed \cup {m.key}
    BY <1>4, <1>7, <1>8
<1> QED
    BY <1>4, <1>5, <1>8, <1>9 DEF s, k

LEMMA CompletesRecords ==
    ASSUME IInv, NEW n \in Nodes, NEW m, Completes(n, m)
    PROVE  Records'
<1> DEFINE s == noise[n]
           k == CompletedKeypair(s, m)
           key == m.key
<1>1. /\ m \in net /\ m.type = "response" /\ m.to = n /\ s.state = "INITIATOR"
      /\ net' = net /\ s \in Remotes /\ Other(n) \in Nodes /\ Other(n) # n
      /\ Other(Other(n)) = n
    BY OtherNode DEF Completes, Consumable, IInv, Types
<1>2. /\ key[1] = <<n, s.made>> /\ key \notin s.completed /\ key \notin s.answered
      /\ key \in noise[Other(n)].answered
    BY CompleteFresh DEF Completes
<1>3. /\ k \in Keypairs /\ k.initiator /\ k.key = key
      /\ k.idx = m.ridx /\ k.ridx = m.sidx
      /\ noise' \in [Nodes -> Remotes]
      /\ \A p \in Nodes : p # n => noise'[p] = noise[p]
      /\ noise'[n].state = "DEAD" /\ noise'[n].made = s.made
      /\ noise'[n].timestamp = s.timestamp
      /\ noise'[n].slots["next"] = NULL
      /\ noise'[n].slots["current"] = k
      /\ noise'[n].slots["previous"] \in {s.slots["next"], s.slots["current"]}
      /\ noise'[n].answered = s.answered
      /\ noise'[n].completed = s.completed \cup {key}
    BY CompletesFacts
<1> HIDE DEF k, key
<1>4. \A p \in Nodes : noise'[p].answered = noise[p].answered
                        /\ noise'[p].timestamp = noise[p].timestamp
                        /\ noise[p].completed \subseteq noise'[p].completed
    BY <1>3
<1>5. \A q \in net : q.to \in Nodes /\ Other(q.to) \in Nodes
    BY OtherNode DEF IInv, Types, Initiations, Responses, Packets
<1>6. net' \subseteq Initiations \cup Responses \cup Packets /\ InitiationsSound'
    BY <1>1 DEF IInv, Types, InitiationsSound
<1>7. AnswersSound'
    BY <1>4 DEF IInv, AnswersSound, AnswersOf
<1>8. ResponsesSound'
    BY <1>1, <1>4, <1>5 DEF IInv, ResponsesSound
<1>9. CompletedSound'
    <2> SUFFICES ASSUME NEW p \in Nodes
                 PROVE  /\ CompletedOf(p, noise'[p])
                        /\ \A c \in noise'[p].completed :
                              \E q \in net' : q.type = "response" /\ q.to = p /\ q.key = c
        BY DEF CompletedSound
    <2>1. /\ CompletedOf(p, noise[p])
          /\ \A c \in noise[p].completed :
                \E q \in net : q.type = "response" /\ q.to = p /\ q.key = c
        BY DEF IInv, CompletedSound
    <2>2. CASE p = n
        <3>1. s.made \in Nat
            BY <1>1 DEF Remotes
        <3>2. key[1][1] = n /\ key[1][2] = s.made /\ s.made <= s.made
            BY <1>2, <3>1
        <3>3. CompletedOf(p, noise'[p])
            BY <1>3, <2>1, <2>2, <3>2 DEF CompletedOf
        <3>4. \E q \in net : q.type = "response" /\ q.to = p /\ q.key = key
            BY <1>1, <2>2 DEF key
        <3> QED
            BY <1>1, <1>3, <2>1, <2>2, <3>3, <3>4
    <2>3. CASE p # n
        BY <1>1, <1>3, <2>1, <2>3
    <2> QED
        BY <2>2, <2>3
\* The responses that carry the key name the indices of the keypair.
<1>10. \A q \in net : Named(n, k, q)
    <2> SUFFICES ASSUME NEW q \in net, q.type = "response", q.key = key, q.to = n
                 PROVE  k.idx = q.ridx /\ k.ridx = q.sidx
        BY <1>3 DEF Named
    <2>1. q = m
        BY <1>1 DEF IInv, ResponsesSound, key
    <2> QED
        BY <1>3, <2>1
<1>11. ASSUME NEW p \in Nodes, NEW x \in SlotNames, noise'[p].slots[x] # NULL
       PROVE  \/ p = n /\ x = "current" /\ noise'[p].slots[x] = k
              \/ /\ p = n /\ x = "previous"
                 /\ \E y \in SlotNames : noise'[p].slots[x] = s.slots[y]
              \/ p # n /\ noise'[p].slots[x] = noise[p].slots[x]
    BY <1>3, <1>11 DEF SlotNames
\* No keypair that was in a slot here before has the key.
<1>12. \A y \in SlotNames : s.slots[y] # NULL => s.slots[y].key # key
    BY <1>2 DEF IInv, SlotsSound, Derived
<1>13. SlotsSound'
    <2> SUFFICES ASSUME NEW p \in Nodes, NEW x \in SlotNames, noise'[p].slots[x] # NULL
                 PROVE  /\ Derived(noise'[p], noise'[p].slots[x])
                        /\ \A q \in net' : Named(p, noise'[p].slots[x], q)
        BY Zenon DEF SlotsSound
    <2>1. ASSUME NEW y \in SlotNames, noise'[p].slots[x] = noise[p].slots[y]
          PROVE  /\ Derived(noise'[p], noise'[p].slots[x])
                 /\ \A q \in net' : Named(p, noise'[p].slots[x], q)
        <3>1. /\ Derived(noise[p], noise[p].slots[y])
              /\ \A q \in net : Named(p, noise[p].slots[y], q)
            BY <2>1 DEF IInv, SlotsSound
        <3>2. Derived(noise'[p], noise[p].slots[y])
            BY <1>4, <3>1 DEF Derived
        <3> QED
            BY <1>1, <2>1, <3>1, <3>2
    <2>2. CASE p = n /\ noise'[p].slots[x] = k
        <3>1. Derived(noise'[n], k)
            BY <1>3 DEF Derived
        <3> QED
            BY <1>1, <1>10, <2>2, <3>1
    <2> QED
        BY <1>11, <2>1, <2>2
<1>14. SlotsDistinct'
    <2> SUFFICES ASSUME NEW p \in Nodes, NEW x \in SlotNames, NEW y \in SlotNames, x # y,
                        noise'[p].slots[x] # NULL, noise'[p].slots[y] # NULL
                 PROVE  noise'[p].slots[x].key # noise'[p].slots[y].key
        BY DEF SlotsDistinct
    <2>1. CASE p # n
        BY <1>3, <2>1 DEF IInv, SlotsDistinct
    <2>2. CASE p = n
        BY <1>3, <1>11, <1>12, <2>2
    <2> QED
        BY <2>1, <2>2
<1>15. PacketsSound'
    BY <1>1, <1>4, <1>5 DEF IInv, PacketsSound
<1>16. SendsUnderSharedKey'
    <2>1. "current" \in SlotNames
        BY DEF SlotNames
    <2>2. \A p \in Nodes : Other(p) \in Nodes
        BY OtherNode
    <2>3. ~noise'[n].slots["current"].initiator => FALSE
        BY <1>3
    <2> QED
        BY <1>3, <1>4, <2>1, <2>2, <2>3 DEF IInv, SendsUnderSharedKey
<1> QED
    BY <1>3, <1>6, <1>7, <1>8, <1>9, <1>13, <1>14, <1>15, <1>16 DEF Records

-----------------------------------------------------------------------------
(* The actions.                                                              *)

LEMMA RecordsOfInvariant == IInv => Records
    BY DEF IInv, Types, Records

LEMMA InvariantOfRecords ==
    Records /\ now \in Int /\ peer \in [Nodes -> Waits] /\ WaitsSound => IInv
    BY DEF IInv, Types, Records

LEMMA StillRecords ==
    ASSUME IInv, noise' = noise, net' = net
    PROVE  Records'
<1>1. Records
    BY RecordsOfInvariant
<1> QED
    BY <1>1 DEF Records, InitiationsSound, AnswersSound, ResponsesSound, CompletedSound,
                SlotsSound, SlotsDistinct, PacketsSound, SendsUnderSharedKey

\* One peer changes, to a state that waits for what its noise state can take.
LEMMA OnePeer ==
    ASSUME IInv, NEW n \in Nodes, NEW w \in Waits, peer' = [peer EXCEPT ![n] = w],
           \A p \in Nodes : p # n => noise'[p] = noise[p],
           Impl[n] = "session" => WaitOf(w, noise'[n])
    PROVE  peer' \in [Nodes -> Waits] /\ WaitsSound'
<1>1. peer \in [Nodes -> Waits]
    BY DEF IInv, Types
<1>2. peer'[n] = w /\ \A p \in Nodes : p # n => peer'[p] = peer[p]
    BY <1>1
<1>3. WaitsSound'
    BY <1>2 DEF IInv, WaitsSound
<1> QED
    BY <1>1, <1>3

\* A step puts the invariant together again.
LEMMA Assembled ==
    ASSUME Records', now' \in Int, peer' \in [Nodes -> Waits], WaitsSound'
    PROVE  IInv'
<1>1. (now \in Int)' /\ (peer \in [Nodes -> Waits])'
    OBVIOUS
<1> QED
    BY <1>1, InvariantOfRecords, PTL

\* wgs_send_initiation and tunnel_send_initiation.
LEMMA TrySendInvariant ==
    ASSUME IInv, NEW n \in Nodes, NEW p0 \in Waits, TrySendInitiation(n, p0), now' = now,
           Impl[n] = "session" => WaitOf(p0, noise[n])
    PROVE  IInv'
<1>1. now \in Int /\ noise \in [Nodes -> Remotes] /\ Types
    BY DEF IInv, Types
<1>2. CASE /\ peer' = [peer EXCEPT ![n] = p0]
           /\ UNCHANGED <<noise, net>>
    <2>1. peer' \in [Nodes -> Waits] /\ WaitsSound'
        BY <1>2, OnePeer
    <2> QED
        BY <1>1, <1>2, <2>1, StillRecords, Assembled
<1>3. ASSUME NEW i \in FreshIndices(noise[n]),
             noise' = [noise EXCEPT ![n] = CreateInitiation(n, i)],
             peer' = [peer EXCEPT ![n] = InitiationSent(n, p0, i)],
             Send({Initiation(n, CreateInitiation(n, i))})
      PROVE  IInv'
    <2> DEFINE t == CreateInitiation(n, i)
               w == InitiationSent(n, p0, i)
    <2>1. i \in Indices
        BY DEF FreshIndices
    <2>2. Creates(n, i)
        BY <1>3 DEF Creates, Send
    <2>3. Records'
        BY <2>1, <2>2, CreatesRecords
    <2>4. w \in Waits /\ w.localIdx = i
        <3> DEFINE attempts == p0.attempts + 1
        <3>1. attempts \in Int /\ i \in Index
            BY <2>1 DEF Waits, Index
        <3>2. w = [p0 EXCEPT !.pending = TRUE, !.sentAt = now, !.localIdx = i,
                             !.attempts = attempts]
            BY DEF InitiationSent
        <3> HIDE DEF attempts, w
        <3> QED
            BY <1>1, <3>1, <3>2 DEF Waits
    <2>5. t \in Remotes /\ t.state = "INITIATOR" /\ t.idx = i
        BY <1>1, <2>1, CreateInitiationFields, Zenon
    <2>6. noise'[n] = t /\ \A p \in Nodes : p # n => noise'[p] = noise[p]
        BY <1>1, <1>3, <2>5, OneNode
    <2> HIDE DEF t, w
    <2>7. peer' = [peer EXCEPT ![n] = w]
        BY <1>3 DEF w
    <2>8. WaitOf(w, noise'[n])
        BY <2>4, <2>5, <2>6 DEF WaitOf
    <2>9. peer' \in [Nodes -> Waits] /\ WaitsSound'
        BY <2>4, <2>6, <2>7, <2>8, OnePeer
    <2> QED
        BY <1>1, <2>3, <2>9, Assembled
<1>4. ASSUME NEW i \in FreshIndices(noise[n]),
             noise' = [noise EXCEPT ![n] = CreateInitiation(n, i)],
             peer' = [peer EXCEPT ![n] = p0], net' = net,
             Impl[n] = "core"
      PROVE  IInv'
    <2>1. Creates(n, i) /\ i \in Indices
        BY <1>4 DEF Creates, FreshIndices
    <2>2. Records'
        BY <2>1, CreatesRecords
    <2>3. CreateInitiation(n, i) \in Remotes
        BY <1>1, <2>1, CreateInitiationFields, Zenon
    <2>4. /\ \A p \in Nodes : p # n => noise'[p] = noise[p]
        BY <1>1, <1>4, <2>3, OneNode
    <2>5. peer' \in [Nodes -> Waits] /\ WaitsSound'
        BY <1>4, <2>4, OnePeer
    <2> QED
        BY <1>1, <2>2, <2>5, Assembled
<1> QED
    BY <1>2, <1>3, <1>4 DEF TrySendInitiation

LEMMA AdvanceInvariant == IInv /\ Advance => IInv'
<1> SUFFICES ASSUME IInv, Advance PROVE IInv'
    OBVIOUS
<1>1. Records' /\ now' \in Int /\ peer' \in [Nodes -> Waits]
    BY StillRecords DEF Advance, IInv, Types
<1>2. WaitsSound'
    BY DEF Advance, IInv, WaitsSound
<1> QED
    BY <1>1, <1>2, Assembled

LEMMA KickInvariant ==
    ASSUME IInv, NEW n \in Nodes, Kick(n)
    PROVE  IInv'
<1>1. peer[n] \in Waits /\ (Impl[n] = "session" => WaitOf(peer[n], noise[n]))
    BY DEF IInv, Types, WaitsSound
<1> QED
    BY <1>1, TrySendInvariant DEF Kick

\* A peer that is stored without an initiation.
LEMMA StoredInvariant ==
    ASSUME IInv, NEW n \in Nodes, NEW w \in Waits, peer' = [peer EXCEPT ![n] = w],
           UNCHANGED <<noise, net, now>>,
           Impl[n] = "session" => WaitOf(w, noise[n])
    PROVE  IInv'
<1>1. now' \in Int /\ noise' = noise /\ net' = net
    BY DEF IInv, Types
<1>2. peer' \in [Nodes -> Waits] /\ WaitsSound'
    BY <1>1, OnePeer
<1> QED
    BY <1>1, <1>2, StillRecords, Assembled

LEMMA TickPeerInvariant ==
    ASSUME IInv, NEW n \in Nodes, TickPeer(n)
    PROVE  IInv'
<1> DEFINE p == peer[n]
           p1 == IF RetransmitDue(p) THEN AfterBackoff(p) ELSE p
           p2 == [p1 EXCEPT !.attempts = 0]
           Waiting(w) == Impl[n] = "session" => WaitOf(w, noise[n])
           Step(w) == IF n \in HasEndpoint THEN TrySendInitiation(n, w)
                      ELSE peer' = [peer EXCEPT ![n] = w] /\ UNCHANGED <<noise, net>>
           Stored(w) == peer' = [peer EXCEPT ![n] = w] /\ UNCHANGED <<noise, net>>
<1>1. p \in Waits /\ Waiting(p) /\ now \in Int
    BY DEF IInv, Types, WaitsSound
<1>2. p1 \in Waits /\ Waiting(p1)
    <2>1. CASE RetransmitDue(p)
        <3>1. p1 \in Waits /\ (p1.pending => p.pending) /\ p1.localIdx = p.localIdx
            <4> HIDE DEF p
            <4>1. CASE GivesUp(p)
                <5>1. PICK none \in Int : none = 0
                    OBVIOUS
                <5>2. p1 = [p EXCEPT !.sentAt = now, !.pending = FALSE, !.attempts = none]
                    BY <2>1, <4>1, <5>1 DEF AfterBackoff
                <5> HIDE DEF p1
                <5>3. p1 \in Waits /\ p1.pending = FALSE /\ p1.localIdx = p.localIdx
                    BY <1>1, <5>2, Zenon DEF Waits
                <5> QED
                    BY <5>3
            <4>2. CASE ~GivesUp(p)
                <5>1. p1 = [p EXCEPT !.sentAt = now]
                    BY <2>1, <4>2 DEF AfterBackoff
                <5> HIDE DEF p1
                <5> QED
                    BY <1>1, <5>1 DEF Waits
            <4> QED
                BY <4>1, <4>2
        <3> QED
            BY <1>1, <3>1 DEF WaitOf
    <2>2. CASE ~RetransmitDue(p)
        BY <1>1, <2>2
    <2> QED
        BY <2>1, <2>2
<1>3. TickPeer(n) => (Step(p1) \/ Step(p2) \/ Stored(p1)) /\ now' = now
    BY DEF TickPeer
<1> HIDE DEF p, p1
<1>4. p2 \in Waits /\ Waiting(p2)
    BY <1>2 DEF Waits, WaitOf
<1> HIDE DEF p2
<1>5. ASSUME NEW w \in Waits, Waiting(w), Step(w), now' = now PROVE IInv'
    BY <1>5, TrySendInvariant, StoredInvariant
<1>6. ASSUME NEW w \in Waits, Waiting(w), Stored(w), now' = now PROVE IInv'
    BY <1>6, StoredInvariant
<1> HIDE DEF Step, Stored, Waiting
<1> QED
    BY <1>2, <1>3, <1>4, <1>5, <1>6

\* The noise state changes and no peer does: it waits for what it did.
LEMMA NoiseInvariant ==
    ASSUME IInv, NEW n \in Nodes, Records', UNCHANGED <<now, peer>>,
           \A p \in Nodes : p # n => noise'[p] = noise[p],
           \/ Impl[n] # "session"
           \/ noise'[n].state = noise[n].state /\ noise'[n].idx = noise[n].idx
           \/ noise'[n].state = "RESPONDER"
    PROVE  IInv'
<1>1. now' \in Int /\ peer' \in [Nodes -> Waits]
    BY DEF IInv, Types
<1>2. WaitsSound'
    BY DEF IInv, WaitsSound, WaitOf
<1> QED
    BY <1>1, <1>2, Assembled

LEMMA HandleTunInvariant ==
    ASSUME IInv, NEW n \in Nodes, HandleTun(n)
    PROVE  IInv'
<1>1. Types /\ noise[n] \in Remotes /\ noise[n].slots["current"] # NULL
    BY DEF IInv, Types, HandleTun
<1>2. noise' = [noise EXCEPT ![n] = Uses(noise[n])] /\ UNCHANGED <<now, peer>>
    BY DEF HandleTun, Uses
<1>3. Uses(noise[n]) \in Remotes
      /\ Uses(noise[n]).state = noise[n].state /\ Uses(noise[n]).idx = noise[n].idx
    BY <1>1, UsesFields
<1>4. /\ noise'[n].state = noise[n].state /\ noise'[n].idx = noise[n].idx
      /\ \A p \in Nodes : p # n => noise'[p] = noise[p]
    BY <1>1, <1>2, <1>3, OneNode
<1> QED
    BY <1>2, <1>4, HandleTunRecords, NoiseInvariant

\* noise_consume_initiation refuses a flood after it has kept the timestamp.
LEMMA FloodInvariant ==
    ASSUME IInv, NEW n \in Nodes, NEW m \in Initiations, noise[n].timestamp < m.timestamp,
           noise' = [noise EXCEPT ![n].timestamp = m.timestamp], UNCHANGED <<now, peer, net>>
    PROVE  IInv'
<1> DEFINE s == noise[n]
           t == [s EXCEPT !.timestamp = m.timestamp]
<1>1. Types /\ s \in Remotes
    BY DEF IInv, Types
<1>2. s.timestamp <= m.timestamp
    <2>1. m.timestamp \in Nat /\ s.timestamp \in Nat
        BY <1>1 DEF Initiations, Remotes
    <2> QED
        BY <2>1
<1>3. noise' = [noise EXCEPT ![n] = t]
    OBVIOUS
<1> HIDE DEF s
<1>4. /\ t \in Remotes /\ t.state = s.state /\ t.idx = s.idx /\ t.hs = s.hs /\ t.made = s.made
      /\ t.slots = s.slots /\ t.answered = s.answered /\ t.completed = s.completed
      /\ t.timestamp = m.timestamp
    <2>1. m.timestamp \in Nat
        BY DEF Initiations
    <2> QED
        BY <1>1, <2>1 DEF Remotes
<1> HIDE DEF t
<1>5. Stamps(n, t)
    BY <1>2, <1>3, <1>4 DEF Stamps, s
<1>6. Records'
    BY <1>5, StampsRecords
<1>7. /\ noise'[n].state = noise[n].state /\ noise'[n].idx = noise[n].idx
      /\ \A p \in Nodes : p # n => noise'[p] = noise[p]
    BY <1>1, <1>3, <1>4, OneNode DEF s
<1> QED
    BY <1>6, <1>7, NoiseInvariant

\* noise_create_response fails after noise_consume_initiation has succeeded.
LEMMA ConsumedInvariant ==
    ASSUME IInv, NEW n \in Nodes, NEW m \in Initiations, NEW i \in Indices,
           noise[n].timestamp < m.timestamp,
           noise' = [noise EXCEPT ![n] = ConsumeInitiation(noise[n], m, i)],
           UNCHANGED <<now, peer, net>>
    PROVE  IInv'
<1> DEFINE s == noise[n]
           t == ConsumeInitiation(s, m, i)
<1>1. Types /\ s \in Remotes
    BY DEF IInv, Types
<1>2. s.timestamp <= m.timestamp
    <2>1. m.timestamp \in Nat /\ s.timestamp \in Nat
        BY <1>1 DEF Initiations, Remotes
    <2> QED
        BY <2>1
<1>3. noise' = [noise EXCEPT ![n] = t]
    OBVIOUS
<1>4. /\ t \in Remotes /\ t.state = "RESPONDER" /\ t.made = s.made
      /\ t.slots = s.slots /\ t.answered = s.answered /\ t.completed = s.completed
      /\ t.timestamp = m.timestamp
    BY <1>1, ConsumeInitiationFields, Zenon
<1> HIDE DEF t, s
<1>5. Stamps(n, t)
    BY <1>2, <1>3, <1>4 DEF Stamps, s
<1>6. Records'
    BY <1>5, StampsRecords
<1>7. noise'[n].state = "RESPONDER" /\ \A p \in Nodes : p # n => noise'[p] = noise[p]
    BY <1>1, <1>3, <1>4, OneNode
<1> QED
    BY <1>6, <1>7, NoiseInvariant

LEMMA HandleInitiationInvariant ==
    ASSUME IInv, NEW n \in Nodes, NEW m \in net, HandleInitiation(n, m)
    PROVE  IInv'
<1> DEFINE s == noise[n]
<1>1. /\ m.type = "initiation" /\ m.to = n /\ now' = now /\ NotReplayed(s, m)
    BY DEF HandleInitiation
<1>2. m \in Initiations
    BY <1>1 DEF IInv, Types, Responses, Packets
<1>3. Types /\ s \in Remotes /\ peer[n] \in Waits /\ now \in Int
    BY DEF IInv, Types
<1>4. s.timestamp < m.timestamp
    BY <1>1, <1>2, <1>3 DEF NotReplayed, Initiations, Remotes
<1>5. CASE /\ s.lastInit = now
           /\ noise' = [noise EXCEPT ![n].timestamp = m.timestamp]
           /\ UNCHANGED <<peer, net>>
    BY <1>1, <1>2, <1>4, <1>5, FloodInvariant
<1>6. ASSUME NEW i \in FreshIndices(s),
             noise' = [noise EXCEPT ![n] = ConsumeInitiation(s, m, i)],
             UNCHANGED <<peer, net>>
      PROVE  IInv'
    <2>1. i \in Indices
        BY DEF FreshIndices
    <2> QED
        BY <1>1, <1>2, <1>4, <1>6, <2>1, ConsumedInvariant
<1>7. ASSUME NEW i \in FreshIndices(s), Impl[n] = "core",
             noise' = [noise EXCEPT ![n] = CreateResponse(ConsumeInitiation(s, m, i), n)],
             UNCHANGED <<peer, net>>
      PROVE  IInv'
    <2>1. i \in Indices
        BY DEF FreshIndices
    <2>2. Answers(n, m, i)
        BY <1>1, <1>4, <1>7 DEF Answers
    <2>3. Records' /\ \A p \in Nodes : p # n => noise'[p] = noise[p]
        BY <2>1, <2>2, AnswersRecords, AnswersFacts
    <2> QED
        BY <1>1, <1>7, <2>3, NoiseInvariant
<1>8. ASSUME NEW i \in FreshIndices(s), NEW j \in Jitters,
             noise' = [noise EXCEPT ![n] = CreateResponse(ConsumeInitiation(s, m, i), n)],
             peer' = [peer EXCEPT ![n] = Responded(n, @, j)],
             Send({Response(n, CreateResponse(ConsumeInitiation(s, m, i), n),
                            CreateResponse(ConsumeInitiation(s, m, i), n).slots["next"])})
      PROVE  IInv'
    <2> DEFINE w == Responded(n, peer[n], j)
    <2>1. i \in Indices
        BY DEF FreshIndices
    <2>2. Answers(n, m, i)
        BY <1>1, <1>4, <1>8 DEF Answers, Send
    <2>3. Records' /\ \A p \in Nodes : p # n => noise'[p] = noise[p]
        BY <2>1, <2>2, AnswersRecords, AnswersFacts
    <2>4. w \in Waits
        <3> DEFINE p == peer[n]
                   ws == [p EXCEPT !.endpoint = TRUE, !.birth = now, !.pending = FALSE]
                   wc == [p EXCEPT !.endpoint = TRUE, !.birth = now, !.jitter = j]
        <3>1. w = IF Impl[n] = "session" THEN ws ELSE wc
            BY DEF Responded, RespondedSession, RespondedCore
        <3> HIDE DEF w, p
        <3>2. ws \in Waits /\ wc \in Waits
            BY <1>3 DEF Waits, p
        <3> QED
            BY <3>1, <3>2
    <2>5. Impl[n] = "session" => ~w.pending
        BY <1>3 DEF Responded, RespondedSession, Waits
    <2>6. peer' = [peer EXCEPT ![n] = w]
        BY <1>8
    <2> HIDE DEF w
    <2>7. peer' \in [Nodes -> Waits] /\ WaitsSound'
        BY <2>3, <2>4, <2>5, <2>6, OnePeer DEF WaitOf
    <2> QED
        BY <1>1, <1>3, <2>3, <2>7, Assembled
<1> QED
    BY <1>5, <1>6, <1>7, <1>8 DEF HandleInitiation

LEMMA HandleResponseInvariant ==
    ASSUME IInv, NEW n \in Nodes, NEW m \in net, HandleResponse(n, m)
    PROVE  IInv'
<1>1. Completes(n, m) /\ now' = now
    BY DEF HandleResponse, Completes
<1>2. Records' /\ \A p \in Nodes : p # n => noise'[p] = noise[p]
    BY <1>1, CompletesRecords, CompletesFacts
<1>3. PICK j \in Jitters :
          peer' = [peer EXCEPT ![n].pending = FALSE, ![n].attempts = 0,
                               ![n].birth = now, ![n].jitter = j]
    BY DEF HandleResponse
<1> DEFINE p == peer[n]
<1>4. PICK none \in Int : none = 0
    OBVIOUS
<1> DEFINE w == [p EXCEPT !.pending = FALSE, !.attempts = none, !.birth = now, !.jitter = j]
<1>5. p \in Waits /\ now \in Int /\ peer \in [Nodes -> Waits]
    BY DEF IInv, Types
<1>6. peer' = [peer EXCEPT ![n] = w]
    BY <1>3, <1>5, <1>4
<1> HIDE DEF p
<1>7. w \in Waits /\ w.pending = FALSE
    BY <1>5, Zenon DEF Waits
<1> HIDE DEF w
<1>8. peer' \in [Nodes -> Waits] /\ WaitsSound'
    BY <1>2, <1>6, <1>7, OnePeer DEF WaitOf
<1> QED
    BY <1>1, <1>2, <1>5, <1>8, Assembled

LEMMA HandleDataInvariant ==
    ASSUME IInv, NEW n \in Nodes, NEW m \in net, HandleData(n, m)
    PROVE  IInv'
<1> DEFINE s == noise[n]
           w == [peer[n] EXCEPT !.endpoint = TRUE]
<1>1. PICK k \in InSlots(s.slots) :
          /\ m.type = "data" /\ m.to = n /\ k.key = m.key
          /\ noise' = [noise EXCEPT ![n] = ReceivedWith(@, k)]
          /\ peer' = [peer EXCEPT ![n].endpoint = TRUE]
          /\ UNCHANGED <<now, net>>
    BY DEF HandleData
<1>2. Types /\ s \in Remotes /\ peer[n] \in Waits /\ now \in Int /\ noise \in [Nodes -> Remotes]
    BY DEF IInv, Types
<1>3. w \in Waits /\ w.pending = peer[n].pending /\ w.localIdx = peer[n].localIdx
      /\ peer' = [peer EXCEPT ![n] = w]
    BY <1>1, <1>2 DEF Waits
<1> HIDE DEF w
<1>4. /\ Records' /\ noise'[n].state = s.state /\ noise'[n].idx = s.idx
      /\ \A p \in Nodes : p # n => noise'[p] = noise[p]
    <2>1. CASE s.slots["next"] = k
        <3> DEFINE t == [s EXCEPT !.slots = Promote(s.slots)]
        <3>1. noise' = [noise EXCEPT ![n] = t]
            BY <1>1, <2>1 DEF ReceivedWith
        <3>2. k # NULL
            BY DEF InSlots
        <3>3. Records'
            BY <1>1, <2>1, <3>1, <3>2, PromoteRecords
        <3>4. t \in Remotes /\ t.state = s.state /\ t.idx = s.idx
            BY <1>2, PromoteFields
        <3> HIDE DEF t
        <3> QED
            BY <1>2, <3>1, <3>3, <3>4, OneNode
    <2>2. CASE s.slots["next"] # k
        <3>1. noise' = [noise EXCEPT ![n] = noise[n]]
            BY <1>1, <2>2 DEF ReceivedWith
        <3>2. noise' = noise
            BY <1>2, <3>1
        <3> QED
            BY <1>1, <3>2, StillRecords
    <2> QED
        BY <2>1, <2>2
<1>5. Impl[n] = "session" => WaitOf(w, noise'[n])
    BY <1>3, <1>4 DEF IInv, WaitsSound, WaitOf
<1>6. peer' \in [Nodes -> Waits] /\ WaitsSound'
    BY <1>3, <1>4, <1>5, OnePeer
<1> QED
    BY <1>1, <1>2, <1>4, <1>6, Assembled

-----------------------------------------------------------------------------
LEMMA InitInvariant == Init => IInv
<1> SUFFICES ASSUME Init PROVE IInv
    OBVIOUS
<1>1. EmptySlots \in [SlotNames -> Keypairs \cup {NULL}] /\ \A x \in SlotNames : EmptySlots[x] = NULL
    BY DEF EmptySlots
<1>2. NoiseInit \in Remotes
    BY <1>1 DEF NoiseInit, Remotes, Index, NEVER
<1>3. ASSUME NEW n \in Nodes PROVE PeerInit(n) \in Waits /\ ~PeerInit(n).pending
    BY DEF PeerInit, Waits, Index, NEVER
<1>4. Types /\ WaitsSound
    BY <1>2, <1>3 DEF Init, Types, WaitsSound, WaitOf
<1>5. /\ NoiseInit.answered = {} /\ NoiseInit.completed = {} /\ NoiseInit.state = "DEAD"
      /\ \A x \in SlotNames : NoiseInit.slots[x] = NULL
    BY <1>1 DEF NoiseInit
<1>6. noise = [n \in Nodes |-> NoiseInit] /\ net = {}
    BY DEF Init
<1> HIDE DEF NoiseInit
<1>7. AnswersSound
    BY <1>5, <1>6, FS_EmptySet DEF AnswersSound, AnswersOf
<1>8. CompletedSound
    BY <1>5, <1>6 DEF CompletedSound, CompletedOf
<1>9. InitiationsSound /\ ResponsesSound /\ PacketsSound
    BY <1>6 DEF InitiationsSound, ResponsesSound, PacketsSound
<1>10. SlotsSound /\ SlotsDistinct
    BY <1>5, <1>6 DEF SlotsSound, SlotsDistinct
<1>11. SendsUnderSharedKey
    BY <1>5, <1>6 DEF SendsUnderSharedKey, SlotNames
<1> QED
    BY <1>4, <1>7, <1>8, <1>9, <1>10, <1>11 DEF IInv

LEMMA NextInvariant == IInv /\ [Next]_vars => IInv'
<1> SUFFICES ASSUME IInv, [Next]_vars PROVE IInv'
    OBVIOUS
<1>1. CASE Advance
    BY <1>1, AdvanceInvariant
<1>2. ASSUME NEW n \in Nodes, Kick(n) \/ TickPeer(n) \/ HandleTun(n)
      PROVE  IInv'
    BY <1>2, KickInvariant, TickPeerInvariant, HandleTunInvariant
<1>3. ASSUME NEW n \in Nodes, NEW m \in net,
             HandleInitiation(n, m) \/ HandleResponse(n, m) \/ HandleData(n, m)
      PROVE  IInv'
    BY <1>3, HandleInitiationInvariant, HandleResponseInvariant, HandleDataInvariant
<1>4. CASE UNCHANGED vars
    <2>1. Records' /\ now' \in Int /\ peer' \in [Nodes -> Waits]
        BY <1>4, StillRecords DEF vars, IInv, Types
    <2>2. WaitsSound'
        BY <1>4 DEF vars, IInv, WaitsSound
    <2> QED
        BY <2>1, <2>2, Assembled
<1> QED
    BY <1>1, <1>2, <1>3, <1>4 DEF Next

\* IInv, from which the theorems below follow, is an invariant.
THEOREM Inductive == Spec => []IInv
    BY InitInvariant, NextInvariant, PTL DEF Spec

-----------------------------------------------------------------------------
(* No key is installed twice.                                                *)

\* A keypair that p gets into a slot has a key that p had, or one that p had
\* not derived.
Installs(p) ==
    \A k \in InSlots(noise'[p].slots) :
        k.key \notin Keys(p) => k.key \notin noise[p].answered \cup noise[p].completed

LEMMA InstallsOld ==
    ASSUME NEW p \in Nodes,
           \A x \in SlotNames : noise'[p].slots[x] # NULL =>
               \E y \in SlotNames : /\ noise[p].slots[y] # NULL
                                    /\ noise[p].slots[y].key = noise'[p].slots[x].key
    PROVE  Installs(p)
<1> SUFFICES ASSUME NEW x \in SlotNames, noise'[p].slots[x] # NULL
             PROVE  noise'[p].slots[x].key \in Keys(p)
    BY DEF Installs, InSlots
<1>1. PICK y \in SlotNames : /\ noise[p].slots[y] # NULL
                             /\ noise[p].slots[y].key = noise'[p].slots[x].key
    OBVIOUS
<1> QED
    BY <1>1 DEF Keys, InSlots

LEMMA InstallsSame ==
    ASSUME NEW p \in Nodes, noise'[p].slots = noise[p].slots
    PROVE  Installs(p)
    BY InstallsOld

LEMMA TrySendInstalls ==
    ASSUME IInv, NEW n \in Nodes, NEW p0, TrySendInitiation(n, p0), NEW p \in Nodes
    PROVE  Installs(p)
<1>1. noise' = noise \/ \E i \in Indices : noise' = [noise EXCEPT ![n] = CreateInitiation(n, i)]
    BY DEF TrySendInitiation, FreshIndices
<1>2. ASSUME NEW i \in Indices, noise' = [noise EXCEPT ![n] = CreateInitiation(n, i)]
      PROVE  Installs(p)
    <2> DEFINE t == CreateInitiation(n, i)
    <2>1. Types
        BY DEF IInv
    <2>2. t \in Remotes /\ t.slots = noise[n].slots
        BY <2>1, CreateInitiationFields, Zenon
    <2>3. noise' = [noise EXCEPT ![n] = t]
        BY <1>2
    <2> HIDE DEF t
    <2>4. noise'[n] = t /\ \A q \in Nodes : q # n => noise'[q] = noise[q]
        BY <2>1, <2>2, <2>3, OneNode
    <2> QED
        BY <2>2, <2>4, InstallsSame
<1> QED
    BY <1>1, <1>2, InstallsSame

LEMMA HandleTunInstalls ==
    ASSUME IInv, NEW n \in Nodes, HandleTun(n), NEW p \in Nodes
    PROVE  Installs(p)
<1> DEFINE t == Uses(noise[n])
<1>1. Types /\ noise[n] \in Remotes /\ noise[n].slots["current"] # NULL
    BY DEF IInv, Types, HandleTun
<1>2. noise' = [noise EXCEPT ![n] = t]
    BY DEF HandleTun, Uses
<1>3. t \in Remotes /\ \A x \in SlotNames : t.slots[x] # NULL => Alike(noise[n].slots[x], t.slots[x])
    BY <1>1, UsesFields
<1> HIDE DEF t
<1>4. noise'[n] = t /\ \A q \in Nodes : q # n => noise'[q] = noise[q]
    BY <1>1, <1>2, <1>3, OneNode
<1> QED
    BY <1>3, <1>4, InstallsSame, InstallsOld DEF Alike

LEMMA AnswersInstalls ==
    ASSUME IInv, NEW n \in Nodes, NEW m, NEW i \in Indices, Answers(n, m, i), NEW p \in Nodes
    PROVE  Installs(p)
<1> DEFINE s == noise[n]
           k == AnswerKeypair(n, s, m, i)
           key == AnswerKey(n, s, m)
<1>1. /\ noise'[n].slots["next"] = k
      /\ noise'[n].slots["current"] = s.slots["current"]
      /\ noise'[n].slots["previous"] = NULL
      /\ \A q \in Nodes : q # n => noise'[q] = noise[q]
    BY AnswersFacts
<1>2. key \notin s.completed /\ key \notin s.answered
    BY AnswerFresh DEF Answers
<1>3. k.key = key
    BY DEF AnswerKeypair
<1>4. ASSUME p = n, NEW x \in SlotNames, noise'[n].slots[x] # NULL
      PROVE  \/ noise'[n].slots[x].key \in Keys(n)
             \/ noise'[n].slots[x].key \notin s.answered \cup s.completed
    <2> HIDE DEF k, key, s
    <2>1. x = "next" \/ x = "current"
        BY <1>1, <1>4 DEF SlotNames
    <2>2. CASE x = "next"
        BY <1>1, <1>2, <1>3, <2>2
    <2>3. CASE x = "current"
        BY <1>1, <1>4, <2>3 DEF Keys, InSlots, s
    <2> QED
        BY <2>1, <2>2, <2>3
<1>5. CASE p = n
    BY <1>4, <1>5 DEF Installs, InSlots
<1>6. CASE p # n
    BY <1>1, <1>6, InstallsSame
<1> QED
    BY <1>5, <1>6

LEMMA CompletesInstalls ==
    ASSUME IInv, NEW n \in Nodes, NEW m, Completes(n, m), NEW p \in Nodes
    PROVE  Installs(p)
<1> DEFINE s == noise[n]
           k == CompletedKeypair(s, m)
<1>1. /\ noise'[n].slots["next"] = NULL
      /\ noise'[n].slots["current"] = k
      /\ noise'[n].slots["previous"] \in {s.slots["next"], s.slots["current"]}
      /\ k.key = m.key
      /\ \A q \in Nodes : q # n => noise'[q] = noise[q]
    BY CompletesFacts
<1>2. m.key \notin s.completed /\ m.key \notin s.answered
    BY CompleteFresh DEF Completes
<1>3. ASSUME p = n, NEW x \in SlotNames, noise'[n].slots[x] # NULL
      PROVE  \/ noise'[n].slots[x].key \in Keys(n)
             \/ noise'[n].slots[x].key \notin s.answered \cup s.completed
    <2> HIDE DEF k, s
    <2>1. x = "previous" \/ x = "current"
        BY <1>1, <1>3 DEF SlotNames
    <2>2. CASE x = "current"
        BY <1>1, <1>2, <2>2
    <2>3. CASE x = "previous"
        <3>1. PICK y \in SlotNames : noise'[n].slots[x] = s.slots[y]
            BY <1>1, <2>3 DEF SlotNames
        <3> QED
            BY <1>3, <3>1 DEF Keys, InSlots, s
    <2> QED
        BY <2>1, <2>2, <2>3
<1>4. CASE p = n
    BY <1>3, <1>4 DEF Installs, InSlots
<1>5. CASE p # n
    BY <1>1, <1>5, InstallsSame
<1> QED
    BY <1>4, <1>5

LEMMA HandleInitiationInstalls ==
    ASSUME IInv, NEW n \in Nodes, NEW m \in net, HandleInitiation(n, m), NEW p \in Nodes
    PROVE  Installs(p)
<1> DEFINE s == noise[n]
<1>1. m.type = "initiation" /\ m.to = n /\ NotReplayed(s, m)
    BY DEF HandleInitiation
<1>2. m \in Initiations /\ Types /\ s \in Remotes
    BY <1>1 DEF IInv, Types, Responses, Packets
<1>3. s.timestamp < m.timestamp
    BY <1>1, <1>2 DEF NotReplayed, Initiations, Remotes
<1>4. CASE noise' = [noise EXCEPT ![n].timestamp = m.timestamp]
    BY <1>2, <1>4, InstallsSame DEF Types, Remotes
<1>5. ASSUME NEW i \in Indices, noise' = [noise EXCEPT ![n] = ConsumeInitiation(s, m, i)]
      PROVE  Installs(p)
    <2> DEFINE t == ConsumeInitiation(s, m, i)
    <2>1. t \in Remotes /\ t.slots = s.slots
        BY <1>2, ConsumeInitiationFields, Zenon
    <2>2. noise' = [noise EXCEPT ![n] = t]
        BY <1>5
    <2> HIDE DEF t
    <2>3. noise'[n] = t /\ \A q \in Nodes : q # n => noise'[q] = noise[q]
        BY <1>2, <2>1, <2>2, OneNode
    <2> QED
        BY <2>1, <2>3, InstallsSame
<1>6. ASSUME NEW i \in Indices,
             noise' = [noise EXCEPT ![n] = CreateResponse(ConsumeInitiation(s, m, i), n)],
             \/ net' = net
             \/ Send({Response(n, CreateResponse(ConsumeInitiation(s, m, i), n),
                               CreateResponse(ConsumeInitiation(s, m, i), n).slots["next"])})
      PROVE  Installs(p)
    <2>1. Answers(n, m, i)
        BY <1>1, <1>3, <1>6 DEF Answers, Send
    <2> QED
        BY <2>1, AnswersInstalls
<1>7. \A i \in FreshIndices(s) : i \in Indices
    BY DEF FreshIndices
<1> QED
    BY <1>4, <1>5, <1>6, <1>7 DEF HandleInitiation

LEMMA HandleDataInstalls ==
    ASSUME IInv, NEW n \in Nodes, NEW m \in net, HandleData(n, m), NEW p \in Nodes
    PROVE  Installs(p)
<1> DEFINE s == noise[n]
           t == [s EXCEPT !.slots = Promote(s.slots)]
<1>1. PICK k \in InSlots(s.slots) : noise' = [noise EXCEPT ![n] = ReceivedWith(@, k)]
    BY DEF HandleData
<1>2. Types /\ s \in Remotes /\ noise \in [Nodes -> Remotes]
    BY DEF IInv, Types
<1>3. noise' = [noise EXCEPT ![n] = t] \/ noise' = [noise EXCEPT ![n] = s]
    BY <1>1 DEF ReceivedWith
<1>4. CASE noise' = [noise EXCEPT ![n] = s]
    BY <1>2, <1>4, InstallsSame
<1>5. CASE noise' = [noise EXCEPT ![n] = t]
    <2>1. /\ t \in Remotes
          /\ t.slots["next"] = NULL /\ t.slots["current"] = s.slots["next"]
          /\ t.slots["previous"] = s.slots["current"]
        BY <1>2, PromoteFields
    <2> HIDE DEF t
    <2>2. noise'[n] = t /\ \A q \in Nodes : q # n => noise'[q] = noise[q]
        BY <1>2, <1>5, <2>1, OneNode
    <2>3. ASSUME NEW x \in SlotNames, t.slots[x] # NULL
          PROVE  \E y \in SlotNames : t.slots[x] = s.slots[y]
        BY <2>1, <2>3 DEF SlotNames
    <2>4. CASE p = n
        BY <2>2, <2>3, <2>4, InstallsOld
    <2>5. CASE p # n
        BY <2>2, <2>5, InstallsSame
    <2> QED
        BY <2>4, <2>5
<1> QED
    BY <1>3, <1>4, <1>5

LEMMA NextInstalls ==
    ASSUME IInv, [Next]_vars, NEW p \in Nodes
    PROVE  Installs(p)
<1>1. CASE Advance \/ UNCHANGED vars
    BY <1>1, InstallsSame DEF Advance, vars
<1>2. ASSUME NEW n \in Nodes, Kick(n) \/ TickPeer(n) PROVE Installs(p)
    <2>1. noise' = noise \/ \E p0 : TrySendInitiation(n, p0)
        BY <1>2 DEF Kick, TickPeer
    <2> QED
        BY <2>1, TrySendInstalls, InstallsSame
<1>3. ASSUME NEW n \in Nodes, HandleTun(n) PROVE Installs(p)
    BY <1>3, HandleTunInstalls
<1>4. ASSUME NEW n \in Nodes, NEW m \in net,
             HandleInitiation(n, m) \/ HandleResponse(n, m) \/ HandleData(n, m)
      PROVE  Installs(p)
    <2>1. HandleResponse(n, m) => Completes(n, m)
        BY DEF HandleResponse, Completes
    <2> QED
        BY <1>4, <2>1, HandleInitiationInstalls, CompletesInstalls, HandleDataInstalls
<1> QED
    BY <1>1, <1>2, <1>3, <1>4 DEF Next

-----------------------------------------------------------------------------
(* The theorems.                                                             *)

\* An initiation is answered at most once, whatever copies of it arrive and in
\* whatever order (noise_consume_initiation).
THEOREM AlwaysAnsweredOnce == Spec => []AnsweredOnce
<1>1. IInv => AnsweredOnce
    BY DEF IInv, AnswersSound, AnswersOf, AnsweredOnce
<1> QED
    BY <1>1, Inductive, PTL

\* While a session waits for the answer to its latest initiation, that answer
\* can be consumed when it lands (wgs_handle_initiation, find_pending).
THEOREM AnswersAlwaysComplete == Spec => []SessionAnswerCompletes
<1>1. IInv => SessionAnswerCompletes
    BY DEF IInv, WaitsSound, WaitOf, CompletedSound, CompletedOf, SessionAnswerCompletes,
           IsPendingFor, Consumable
<1> QED
    BY <1>1, Inductive, PTL

\* The two ends agree on every key that both hold, on its indices and on who
\* began it, and a responder sends only under a key that its peer has completed
\* (noise_begin_session, noise_keypair_received_with).
THEOREM KeysAlwaysAgree == Spec => []KeysAgree
<1>1. IInv => KeysPaired
    <2> SUFFICES ASSUME IInv, NEW n \in Nodes, NEW j \in InSlots(noise[n].slots),
                        NEW k \in InSlots(noise[Other(n)].slots), j.key = k.key
                 PROVE  j.idx = k.ridx /\ j.ridx = k.idx /\ j.initiator # k.initiator
        BY Zenon DEF KeysPaired
    <2>1. PICK x \in SlotNames : j = noise[n].slots[x] /\ noise[n].slots[x] # NULL
        BY DEF InSlots
    <2>2. PICK y \in SlotNames :
               k = noise[Other(n)].slots[y] /\ noise[Other(n)].slots[y] # NULL
        BY DEF InSlots
    <2>3. /\ Derived(noise[n], j) /\ \A m \in net : Named(n, j, m)
          /\ Derived(noise[Other(n)], k) /\ \A m \in net : Named(Other(n), k, m)
          /\ Other(n) \in Nodes /\ Other(n) # n /\ Other(Other(n)) = n
        BY <2>1, <2>2, OtherNode DEF IInv, SlotsSound
    <2>4. /\ \A p \in Nodes : \A a \in noise[p].answered : a[1][1] = Other(p)
          /\ \A p \in Nodes : \A c \in noise[p].completed : c[1][1] = p
        BY DEF IInv, AnswersSound, AnswersOf, CompletedSound, CompletedOf
    <2>5. j \in Keypairs /\ k \in Keypairs
        BY <2>3, <2>1, <2>2 DEF IInv, Types, Remotes
    <2>6. j.initiator \in BOOLEAN /\ k.initiator \in BOOLEAN
        BY <2>5 DEF Keypairs
    <2>7. j.initiator <=> j.key[1][1] = n
        BY <2>3, <2>4 DEF Derived
    <2>8. k.initiator <=> k.key[1][1] = Other(n)
        BY <2>3, <2>4 DEF Derived
    <2>9. j.key[1][1] = n \/ j.key[1][1] = Other(n)
        BY <2>3, <2>4 DEF Derived
    <2>10. CASE j.initiator /\ ~k.initiator
        <3>1. PICK m \in net : m.type = "response" /\ m.to = n /\ m.key = j.key
            BY <2>3, <2>10 DEF IInv, CompletedSound, Derived
        <3>2. j.idx = m.ridx /\ j.ridx = m.sidx /\ k.idx = m.sidx /\ k.ridx = m.ridx
            BY <2>3, <2>10, <3>1 DEF Named
        <3> QED
            BY <2>6, <2>10, <3>2
    <2>11. CASE ~j.initiator /\ k.initiator
        <3>1. PICK m \in net : m.type = "response" /\ m.to = Other(n) /\ m.key = k.key
            BY <2>3, <2>11 DEF IInv, CompletedSound, Derived
        <3>2. j.idx = m.sidx /\ j.ridx = m.ridx /\ k.idx = m.ridx /\ k.ridx = m.sidx
            BY <2>3, <2>11, <3>1 DEF Named
        <3> QED
            BY <2>6, <2>11, <3>2
    <2> QED
        BY <2>3, <2>7, <2>8, <2>9, <2>10, <2>11
<1>2. IInv => SendsUnderSharedKey
    BY DEF IInv
<1> QED
    BY <1>1, <1>2, Inductive, PTL DEF KeysAgree

\* No key is installed twice on one endpoint, also when indices are reused and
\* old responses arrive again (noise_begin_session, noise_add_new_keypair).
THEOREM KeysInstalledOnce == Spec => KeyInstalledOnce
<1>1. IInv /\ IInv' /\ [Next]_vars
        => [\A n \in Nodes :
              /\ \A k \in InSlots(noise'[n].slots) :
                    k.key \notin Keys(n)
                       => k.key \notin noise[n].answered \cup noise[n].completed
              /\ \A m1, m2 \in SlotNames :
                    LET k1 == noise'[n].slots[m1]
                        k2 == noise'[n].slots[m2]
                    IN  k1 # NULL /\ k2 # NULL /\ m1 # m2 => k1.key # k2.key]_vars
    <2> SUFFICES ASSUME IInv, IInv', [Next]_vars, NEW n \in Nodes
                 PROVE  /\ Installs(n)
                        /\ \A m1, m2 \in SlotNames :
                              LET k1 == noise'[n].slots[m1]
                                  k2 == noise'[n].slots[m2]
                              IN  k1 # NULL /\ k2 # NULL /\ m1 # m2 => k1.key # k2.key
        BY DEF Installs
    <2>1. Installs(n)
        BY NextInstalls
    <2>2. SlotsDistinct'
        BY DEF IInv
    <2> QED
        BY <2>1, <2>2 DEF SlotsDistinct
<1> QED
    BY <1>1, Inductive, PTL DEF Spec, KeyInstalledOnce
=============================================================================
