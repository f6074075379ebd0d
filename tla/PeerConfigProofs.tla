-------------------------- MODULE PeerConfigProofs --------------------------
(* Proofs about how peers are configured, in two parts that share no state.   *)
(*                                                                            *)
(* Agent, for every budget, wait, floor and latency, and every number of      *)
(* changes, stops and refusals: the long poll is spaced out and ends with its *)
(* budget, an interface that has been evicted is down for good, and wg_core   *)
(* runs the peers of its conf.                                                *)
(*                                                                            *)
(* PeerTable, for every set of keys, prefixes, noise_remotes and keypairs and *)
(* every size of the arrays: slots, tries, the hash of public keys and the    *)
(* reference counts agree between requests, whatever lines those had.         *)
EXTENDS Agent, PeerTable, SequenceTheorems, FiniteSetTheorems,
        WellFoundedInduction, TLAPS

-----------------------------------------------------------------------------
(* The long poll.                                                            *)

\* The shortest time that a request which brings no change takes, its pause
\* included.
Pace == Min({MinReturn, Floor})

LEMMA MinOfTwo ==
    ASSUME NEW x \in Int, NEW y \in Int
    PROVE  Min({x, y}) = IF x <= y THEN x ELSE y
<1> DEFINE m == IF x <= y THEN x ELSE y
<1>1. m \in {x, y} /\ \A z \in {x, y} : m =< z
    OBVIOUS
<1>2. \A n \in {x, y} : (\A z \in {x, y} : n =< z) => n = m
    OBVIOUS
<1> QED
    BY <1>1, <1>2 DEF Min

LEMMA PaceBounds ==
    /\ Pace \in Nat \ {0} /\ Pace <= MinReturn /\ Pace <= Floor /\ Pace <= Wait
<1>1. /\ MinReturn \in Nat \ {0} /\ Floor \in Nat \ {0}
      /\ Wait \in Nat /\ MinReturn <= Wait
    BY PollAssumption
<1>2. Pace = IF MinReturn <= Floor THEN MinReturn ELSE Floor
    BY <1>1, MinOfTwo DEF Pace
<1> QED
    BY <1>1, <1>2

LEMMA DivisionForm ==
    ASSUME NEW n \in Nat, NEW b \in Nat \ {0}
    PROVE  n \div b \in Nat /\ \E r \in Nat : r < b /\ n = b * (n \div b) + r
<1>1. /\ n \div b \in Nat /\ n % b \in Nat /\ n % b < b
      /\ n = b * (n \div b) + (n % b)
    OBVIOUS
<1> QED
    BY <1>1

\* Time that passes never takes laps away, and a pace of it is one more.
LEMMA LapsGrow ==
    ASSUME NEW n \in Nat, NEW e \in Nat, NEW b \in Nat \ {0}
    PROVE  /\ n \div b <= (n + e) \div b
           /\ e >= b => (n \div b) + 1 <= (n + e) \div b
<1> DEFINE p == n \div b
           q == (n + e) \div b
<1>1. PICK r \in Nat : r < b /\ n = b * p + r
    BY DivisionForm
<1>2. PICK s \in Nat : s < b /\ n + e = b * q + s
    <2>1. n + e \in Nat
        OBVIOUS
    <2> QED
        BY <2>1, DivisionForm
<1>3. p \in Nat /\ q \in Nat
    BY DivisionForm
<1> HIDE DEF p, q
<1>4. ASSUME q < p PROVE FALSE
    <2>1. PICK d \in Nat : p = q + 1 + d
        <3>1. p - q - 1 \in Nat /\ p = q + 1 + (p - q - 1)
            BY <1>3, <1>4
        <3> QED
            BY <3>1
    <2>2. b * p = b * q + b + b * d /\ b * d \in Nat /\ b * q \in Nat
        BY <1>3, <2>1
    <2> QED
        BY <1>1, <1>2, <2>2
<1>5. ASSUME e >= b, q <= p PROVE FALSE
    <2>1. PICK d \in Nat : p = q + d
        <3>1. p - q \in Nat /\ p = q + (p - q)
            BY <1>3, <1>5
        <3> QED
            BY <3>1
    <2>2. b * p = b * q + b * d /\ b * d \in Nat /\ b * q \in Nat
        BY <1>3, <2>1
    <2> QED
        BY <1>1, <1>2, <1>5, <2>2
<1>6. p <= q /\ (e >= b => p + 1 <= q)
    BY <1>3, <1>4, <1>5
<1> QED
    BY <1>6 DEF p, q

LEMMA HoldBounds ==
    ASSUME now \in Nat, Budget - now > 1
    PROVE  /\ Hold \in 0 .. Wait /\ Hold <= Budget - now
           /\ Hold = Wait \/ Hold = Budget - now
<1>1. Wait \in Nat \ {0} /\ Budget \in Nat \ {0}
    BY PollAssumption
<1>2. Hold = IF Wait <= Budget - now THEN Wait ELSE Budget - now
    BY <1>1, MinOfTwo DEF Hold
<1> QED
    BY <1>1, <1>2

Laps(t) == t \div Pace

\* What a request may cost, by how far the planner has found out what the server
\* can do: the probe and the trial are free, and so is the last request, whose
\* hold may be cut to what the budget has left.  A hasty server costs nothing.
Spaced ==
    /\ server # "hasty" => requests <= 3 + changes + Laps(now)
    /\ mode = "probe" => requests <= 1
    /\ mode = "trial" => requests <= 2
    /\ asked = None /\ ~stopped /\ ~sleeping =>
          /\ mode = "probe" => requests = 0
          /\ mode = "trial" => requests <= 1
          /\ mode = "longPoll" /\ server # "hasty" =>
                Budget - now <= 1 \/ requests <= 2 + changes + Laps(now)

\* A request asks for no more than the budget has left, a pause ends within it.
Budgeted ==
    /\ now <= Budget + Latency
    /\ asked # None =>
          /\ ~stopped /\ ~sleeping /\ Budget - now > 1
          /\ asked = IF mode = "probe" THEN 0 ELSE Hold
    /\ sleeping => mode = "longPoll" /\ Budget - now > Floor

PollInv == PollTypeOK /\ Spaced /\ Budgeted

LEMMA PollInitially ==
    ASSUME PollInit
    PROVE  PollInv
<1>1. Budget \in Nat /\ Latency \in Nat /\ Floor \in Nat /\ Pace \in Nat \ {0}
    BY PollAssumption, PaceBounds
<1>2. Laps(now) \in Nat
    <2>1. 0 \div Pace \in Nat
        BY <1>1, DivisionForm
    <2> QED
        BY <2>1 DEF PollInit, Laps
<1>3. PollTypeOK
    BY DEF PollInit, PollTypeOK
<1>4. Spaced
    BY <1>2 DEF PollInit, Spaced
<1>5. Budgeted
    BY <1>1 DEF PollInit, Budgeted
<1> QED
    BY <1>3, <1>4, <1>5 DEF PollInv

LEMMA RestartKeeps ==
    ASSUME PollInv, Restart
    PROVE  PollInv'
<1>1. Budget \in Nat /\ Latency \in Nat /\ Floor \in Nat /\ Pace \in Nat \ {0}
    BY PollAssumption, PaceBounds
<1>2. Laps(now') \in Nat
    <2>1. 0 \div Pace \in Nat
        BY <1>1, DivisionForm
    <2> QED
        BY <2>1 DEF Restart, Laps, Pace
<1>3. PollTypeOK'
    BY DEF Restart, PollInv, PollTypeOK
<1>4. Spaced'
    <2>1. requests' = 0 /\ changes' = 0 /\ mode' = "probe"
        BY DEF Restart
    <2> QED
        BY <1>2, <2>1 DEF Spaced
<1>5. Budgeted'
    BY <1>1 DEF Restart, Budgeted
<1> QED
    BY <1>3, <1>4, <1>5 DEF PollInv

LEMMA LoopKeeps ==
    ASSUME PollInv, Sleep \/ Exhausted \/ Fetch
    PROVE  PollInv'
<1>1. /\ Budget \in Nat /\ Latency \in Nat /\ Floor \in Nat \ {0} /\ Wait \in Nat \ {0}
      /\ Pace \in Nat \ {0} /\ Pace <= Floor /\ None \notin 0 .. Wait
    BY PollAssumption, PaceBounds
<1>2. now \in Nat /\ requests \in Nat /\ changes \in Nat /\ Laps(now) \in Nat
    BY <1>1, DivisionForm DEF PollInv, PollTypeOK, Laps
<1>3. CASE Sleep
    <2>1. Laps(now) + 1 <= Laps(now') /\ Laps(now') \in Nat
        <3>1. now' = now + Floor /\ Pace' = Pace
            BY <1>3 DEF Sleep, Pace
        <3>2. now + Floor \in Nat
            BY <1>1, <1>2
        <3>3. (now \div Pace) + 1 <= (now + Floor) \div Pace
            BY <1>1, <1>2, LapsGrow
        <3>4. (now + Floor) \div Pace \in Nat
            BY <1>1, <3>2, DivisionForm
        <3> QED
            BY <3>1, <3>3, <3>4 DEF Laps
    <2>2. PollTypeOK'
        <3>1. now' = now + Floor
            BY <1>3 DEF Sleep
        <3>2. now' \in Nat
            BY <1>1, <1>2, <3>1
        <3> QED
            BY <1>3, <3>2, Zenon DEF Sleep, PollInv, PollTypeOK
    <2>3. Spaced'
        <3>1. /\ mode = "longPoll" /\ mode' = mode /\ server' = server
              /\ server # "hasty" => requests <= 3 + changes + Laps(now)
              /\ requests' = requests /\ changes' = changes
            BY <1>3, Zenon DEF Sleep, PollInv, Spaced, Budgeted
        <3> QED
            BY <1>2, <2>1, <3>1 DEF Spaced
    <2>4. Budgeted'
        <3>1. /\ now' = now + Floor /\ Budget - now > Floor
              /\ asked' = None /\ ~sleeping'
            BY <1>3, Zenon DEF Sleep, PollInv, Budgeted
        <3> QED
            BY <1>1, <1>2, <3>1 DEF Budgeted
    <2> QED
        BY <2>2, <2>3, <2>4 DEF PollInv
<1>4. CASE Exhausted
    <2>1. Laps(now') = Laps(now) /\ Hold' = Hold
        BY <1>4 DEF Exhausted, Laps, Pace, Hold
    <2>2. PollTypeOK'
        BY <1>4 DEF Exhausted, PollInv, PollTypeOK
    <2>3. Spaced'
        BY <1>2, <1>4, <2>1 DEF Exhausted, PollInv, PollTypeOK, Spaced
    <2>4. Budgeted'
        BY <1>4, <2>1 DEF Exhausted, PollInv, Budgeted
    <2> QED
        BY <2>2, <2>3, <2>4 DEF PollInv
<1>5. CASE Fetch
    <2>1. Laps(now') = Laps(now) /\ Hold' = Hold
        BY <1>5 DEF Fetch, Laps, Pace, Hold
    <2>2. Hold \in 0 .. Wait
        BY <1>2, <1>5, HoldBounds DEF Fetch
    <2>3. asked' \in 0 .. Wait /\ asked' # None
        BY <1>1, <1>5, <2>2 DEF Fetch
    <2>4. PollTypeOK'
        BY <1>2, <1>5, <2>3 DEF Fetch, PollInv, PollTypeOK
    <2>5. Spaced'
        BY <1>1, <1>2, <1>5, <2>1, <2>3 DEF Fetch, PollInv, PollTypeOK, Spaced
    <2>6. Budgeted'
        BY <1>5, <2>1 DEF Fetch, PollInv, PollTypeOK, Budgeted
    <2> QED
        BY <2>4, <2>5, <2>6 DEF PollInv
<1> QED
    BY <1>3, <1>4, <1>5

\* An answer takes at most its hold and the latency, which the budget bounds.
LEMMA AnswerInBudget ==
    ASSUME PollInv, NEW e \in Elapsed, asked # None
    PROVE  /\ e \in Nat /\ now \in Nat /\ now + e \in Nat
           /\ now + e <= Budget + Latency
           /\ Laps(now) \in Nat /\ Laps(now + e) \in Nat
           /\ Laps(now) <= Laps(now + e)
           /\ e >= Pace => Laps(now) + 1 <= Laps(now + e)
<1>1. /\ Budget \in Nat /\ Latency \in Nat /\ Wait \in Nat \ {0} /\ Pace \in Nat \ {0}
    BY PollAssumption, PaceBounds
<1>2. now \in Nat /\ e \in Nat /\ e <= asked + Latency
    BY <1>1 DEF PollInv, PollTypeOK, Elapsed
<1>3. Budget - now > 1 /\ asked = IF mode = "probe" THEN 0 ELSE Hold
    BY DEF PollInv, Budgeted
<1>4. Hold \in 0 .. Wait /\ Hold <= Budget - now
    BY <1>2, <1>3, HoldBounds
<1>5. now + e \in Nat /\ now + e <= Budget + Latency
    BY <1>1, <1>2, <1>3, <1>4
<1>6. Laps(now) \in Nat /\ Laps(now + e) \in Nat
    BY <1>1, <1>2, <1>5, DivisionForm DEF Laps
<1>7. /\ Laps(now) <= Laps(now + e)
      /\ e >= Pace => Laps(now) + 1 <= Laps(now + e)
    BY <1>1, <1>2, LapsGrow DEF Laps
<1> QED
    BY <1>2, <1>5, <1>6, <1>7

LEMMA AnswerTypes ==
    ASSUME PollInv, NEW e \in Elapsed, Answered(e)
    PROVE  /\ asked # None /\ asked' = None /\ now' = now + e /\ now' \in Nat
           /\ requests' = requests /\ server' = server /\ server \in Servers
           /\ requests \in Nat /\ changes \in Nat
           /\ ~sleeping /\ ~stopped
<1>1. asked # None /\ asked' = None /\ now' = now + e
    BY DEF Answered
<1>2. now' \in Nat
    BY <1>1, AnswerInBudget
<1>3. ~sleeping /\ ~stopped
    BY <1>1, Zenon DEF PollInv, Budgeted
<1> QED
    BY <1>1, <1>2, <1>3, Zenon DEF Answered, PollInv, PollTypeOK

\* What is left to show of an answer.
LEMMA AnswerKeeps ==
    ASSUME PollInv, NEW e \in Elapsed, Answered(e),
           mode' \in {"probe", "trial", "longPoll"},
           changes' \in Nat, changes <= changes',
           sleeping' \in BOOLEAN, stopped' \in BOOLEAN,
           mode' = "probe" => requests <= 1,
           mode' = "trial" => requests <= 2,
           ~stopped' /\ ~sleeping' =>
              /\ mode' # "probe"
              /\ mode' = "trial" => requests <= 1
              /\ mode' = "longPoll" /\ server # "hasty" =>
                    Budget - now' <= 1 \/ requests <= 2 + changes' + Laps(now'),
           sleeping' => mode' = "longPoll" /\ Budget - now' > Floor
    PROVE  PollInv'
<1>1. /\ asked # None /\ asked' = None /\ now' = now + e /\ now' \in Nat
      /\ requests' = requests /\ server' = server /\ server \in Servers
      /\ requests \in Nat /\ changes \in Nat
    BY AnswerTypes
<1>2. PollTypeOK'
    BY <1>1, Zenon DEF PollTypeOK
<1>3. Spaced'
    <2>1. server' # "hasty" => requests' <= 3 + changes' + Laps(now')
        <3>1. server # "hasty" => requests <= 3 + changes + Laps(now)
            BY DEF PollInv, Spaced
        <3>2. Laps(now) \in Nat /\ Laps(now + e) \in Nat /\ Laps(now) <= Laps(now + e)
            BY <1>1, AnswerInBudget
        <3> QED
            BY <1>1, <3>1, <3>2
    <2>2. /\ mode' = "probe" => requests' <= 1
          /\ mode' = "trial" => requests' <= 2
          /\ ~stopped' /\ ~sleeping' =>
                /\ mode' = "probe" => requests' = 0
                /\ mode' = "trial" => requests' <= 1
                /\ mode' = "longPoll" /\ server' # "hasty" =>
                      Budget - now' <= 1 \/ requests' <= 2 + changes' + Laps(now')
        BY <1>1, Zenon
    <2> QED
        BY <2>1, <2>2, Zenon DEF Spaced
<1>4. Budgeted'
    <2>1. now' <= Budget + Latency
        BY <1>1, AnswerInBudget
    <2> QED
        BY <1>1, <2>1, Zenon DEF Budgeted
<1> QED
    BY <1>2, <1>3, <1>4 DEF PollInv

\* How far the count may be when an answer comes.
LEMMA AskedSpaced ==
    ASSUME PollInv, asked # None
    PROVE  /\ mode \in {"probe", "trial", "longPoll"}
           /\ mode = "probe" => requests <= 1
           /\ mode = "trial" => requests <= 2
           /\ server # "hasty" => requests <= 3 + changes + Laps(now)
           /\ mode # "probe" => asked = Hold /\ (Hold = Wait \/ Hold = Budget - now)
<1>1. now \in Nat /\ Budget - now > 1
    BY Zenon DEF PollInv, PollTypeOK, Budgeted
<1>2. Hold = Wait \/ Hold = Budget - now
    BY <1>1, HoldBounds
<1> QED
    BY <1>2, Zenon DEF PollInv, PollTypeOK, Spaced, Budgeted

LEMMA ErrorKeeps ==
    ASSUME PollInv, NEW e \in Elapsed, Error(e)
    PROVE  PollInv'
<1>1. Answered(e) /\ stopped' = TRUE /\ mode' = mode /\ sleeping' = sleeping /\ changes' = changes
    BY DEF Error
<1>2. asked # None /\ ~sleeping /\ changes \in Nat
    BY <1>1, AnswerTypes
<1>3. changes <= changes' /\ changes' \in Nat
    BY <1>1, <1>2
<1>4. /\ mode' \in {"probe", "trial", "longPoll"}
      /\ mode' = "probe" => requests <= 1
      /\ mode' = "trial" => requests <= 2
    BY <1>1, <1>2, AskedSpaced
<1>5. sleeping' = FALSE
    BY <1>1, <1>2, Zenon DEF PollInv, PollTypeOK
<1> QED
    BY <1>1, <1>3, <1>4, <1>5, AnswerKeeps

LEMMA NotModifiedKeeps ==
    ASSUME PollInv, NEW e \in Elapsed, NotModified(e)
    PROVE  PollInv'
<1>1. /\ Answered(e) /\ mode # "probe" /\ mode' = "longPoll"
      /\ server # "hasty" => e >= asked
      /\ sleeping' = sleeping /\ stopped' = stopped /\ changes' = changes
    BY DEF NotModified
<1>2. /\ asked # None /\ now' = now + e
      /\ requests \in Nat /\ changes \in Nat /\ ~sleeping /\ ~stopped
    BY <1>1, AnswerTypes
<1>3. sleeping' \in BOOLEAN /\ stopped' \in BOOLEAN /\ ~sleeping'
    BY <1>1, <1>2, Zenon DEF PollInv, PollTypeOK
<1>4. ASSUME server # "hasty"
      PROVE  Budget - now' <= 1 \/ requests <= 2 + changes' + Laps(now')
    <2>1. /\ requests <= 3 + changes + Laps(now)
          /\ asked = Wait \/ asked = Budget - now
        BY <1>1, <1>2, <1>4, AskedSpaced
    <2>2. /\ e \in Nat /\ now \in Nat /\ Laps(now) \in Nat /\ Laps(now + e) \in Nat
          /\ e >= Pace => Laps(now) + 1 <= Laps(now + e)
        BY <1>2, AnswerInBudget
    <2>3. Budget \in Nat /\ Wait \in Nat /\ Pace \in Nat /\ Pace <= Wait
        BY PollAssumption, PaceBounds
    <2>4. CASE asked = Wait
        <3>1. e >= Pace
            BY <1>1, <1>4, <2>2, <2>3, <2>4
        <3> QED
            BY <1>1, <1>2, <2>1, <2>2, <3>1
    <2>5. CASE asked = Budget - now
        BY <1>1, <1>2, <1>4, <2>2, <2>3, <2>5
    <2> QED
        BY <2>1, <2>4, <2>5
<1>5. changes <= changes' /\ changes' \in Nat
    BY <1>1, <1>2
<1> QED
    BY <1>1, <1>3, <1>4, <1>5, AnswerKeeps

LEMMA ListedKeeps ==
    ASSUME PollInv, NEW e \in Elapsed, NEW moved \in BOOLEAN, NEW applied \in BOOLEAN,
           Listed(e, moved, applied)
    PROVE  PollInv'
<1>1. /\ Answered(e)
      /\ changes' = IF applied THEN changes + 1 ELSE changes
    BY DEF Listed
<1>2. /\ asked # None /\ now' = now + e /\ now' \in Nat
      /\ requests \in Nat /\ changes \in Nat /\ ~sleeping /\ ~stopped
    BY <1>1, AnswerTypes
<1>3. changes <= changes' /\ changes' \in Nat
    BY <1>1, <1>2
<1>4. /\ mode = "probe" => requests <= 1
      /\ mode = "trial" => requests <= 2
      /\ server # "hasty" => requests <= 3 + changes + Laps(now)
    BY <1>2, AskedSpaced
<1>5. /\ e \in Nat /\ Laps(now) \in Nat /\ Laps(now') \in Nat /\ Laps(now) <= Laps(now')
      /\ e >= Pace => Laps(now) + 1 <= Laps(now')
    BY <1>2, AnswerInBudget
<1>6. sleeping = FALSE /\ stopped = FALSE
    BY <1>2, Zenon DEF PollInv, PollTypeOK
<1>7. CASE /\ mode = "probe"
           /\ IF server = "legacy" THEN stopped' = TRUE /\ UNCHANGED mode
              ELSE mode' = "trial" /\ UNCHANGED stopped
           /\ UNCHANGED sleeping
    <2>1. sleeping' = FALSE /\ requests <= 1 /\ requests <= 2
        BY <1>2, <1>4, <1>6, <1>7
    <2>2. CASE server = "legacy"
        <3>1. stopped' = TRUE /\ mode' = "probe"
            BY <1>7, <2>2
        <3> QED
            BY <1>1, <1>3, <2>1, <3>1, AnswerKeeps
    <2>3. CASE server # "legacy"
        <3>1. stopped' = FALSE /\ mode' = "trial"
            BY <1>6, <1>7, <2>3
        <3> QED
            BY <1>1, <1>3, <2>1, <3>1, AnswerKeeps
    <2> QED
        BY <2>2, <2>3
<1>8. CASE /\ mode = "trial"
           /\ IF e >= MinReturn THEN mode' = "longPoll" /\ UNCHANGED stopped
              ELSE stopped' = TRUE /\ UNCHANGED mode
           /\ UNCHANGED sleeping
    <2>1. /\ sleeping' = FALSE /\ requests <= 2
          /\ requests <= 2 + changes' + Laps(now')
        BY <1>2, <1>3, <1>4, <1>5, <1>6, <1>8
    <2>2. CASE e >= MinReturn
        <3>1. stopped' = FALSE /\ mode' = "longPoll"
            BY <1>6, <1>8, <2>2
        <3> QED
            BY <1>1, <1>3, <2>1, <3>1, AnswerKeeps
    <2>3. CASE ~(e >= MinReturn)
        <3>1. stopped' = TRUE /\ mode' = "trial"
            BY <1>8, <2>3
        <3> QED
            BY <1>1, <1>3, <2>1, <3>1, AnswerKeeps
    <2> QED
        BY <2>2, <2>3
<1>9. CASE /\ mode = "longPoll"
           /\ stopped' = (Floored(e, applied) /\ Budget - now' <= Floor)
           /\ sleeping' = (Floored(e, applied) /\ Budget - now' > Floor)
           /\ UNCHANGED mode
    <2>1. mode' = "longPoll" /\ stopped' \in BOOLEAN /\ sleeping' \in BOOLEAN
        BY <1>9, Zenon
    <2>2. Floored(e, applied) => (Budget - now' <= Floor) \/ (Budget - now' > Floor)
        BY <1>2, PollAssumption
    <2>3. ASSUME ~Floored(e, applied), server # "hasty"
          PROVE  requests <= 2 + changes' + Laps(now')
        <3>1. applied \/ e >= MinReturn
            BY <1>5, <2>3, PollAssumption DEF Floored
        <3>2. CASE applied
            BY <1>1, <1>2, <1>4, <1>5, <2>3, <3>2
        <3>3. CASE e >= MinReturn
            <4>1. e >= Pace
                BY <1>5, <3>3, PaceBounds, PollAssumption
            <4> QED
                BY <1>2, <1>3, <1>4, <1>5, <2>3, <4>1
        <3> QED
            BY <3>1, <3>2, <3>3
    <2>4. ~stopped' /\ ~sleeping' /\ server # "hasty" => requests <= 2 + changes' + Laps(now')
        BY <1>9, <2>2, <2>3, Zenon
    <2>5. sleeping' => Budget - now' > Floor
        BY <1>9, Zenon
    <2> QED
        BY <1>1, <1>3, <2>1, <2>4, <2>5, AnswerKeeps
<1> QED
    BY <1>7, <1>8, <1>9, Zenon DEF Listed

\* What the rest of the agent can do to the poll.
PollMove ==
    \/ Sleep \/ Exhausted \/ Fetch \/ Restart
    \/ \E e \in Elapsed : Error(e) \/ NotModified(e)
    \/ \E e \in Elapsed, moved \in BOOLEAN, applied \in BOOLEAN : Listed(e, moved, applied)
    \/ UNCHANGED pollVars

LEMMA PollKeeps ==
    ASSUME PollInv, PollMove
    PROVE  PollInv'
<1>1. CASE UNCHANGED pollVars
    BY <1>1 DEF pollVars, progress, PollInv, PollTypeOK, Spaced, Budgeted, Hold
<1> QED
    BY <1>1, LoopKeeps, RestartKeeps, ErrorKeeps, NotModifiedKeeps, ListedKeeps, Zenon DEF PollMove

LEMMA PollInvBounded ==
    ASSUME PollInv
    PROVE  PollBounded
<1>1. server # "hasty" => NeverBusy
    BY DEF PollInv, Spaced, Laps, Pace, NeverBusy
<1>2. EndsInBudget
    BY DEF PollInv, Budgeted, EndsInBudget
<1> QED
    BY <1>1, <1>2 DEF PollBounded

-----------------------------------------------------------------------------
(* The agent around it.                                                      *)

LEMMA AgentPolls ==
    ASSUME [AgentNext]_agentVars
    PROVE  PollMove
<1>1. CASE LoopStep
    BY <1>1, Zenon DEF LoopStep, PollMove
<1>2. CASE LoopEnds
    BY <1>2, Zenon DEF LoopEnds, PollMove
<1>3. CASE FetchFails
    BY <1>3, Zenon DEF FetchFails, PollMove
<1>4. CASE PeersNotModified
    BY <1>4, Zenon DEF PeersNotModified, PollMove
<1>5. CASE PeersListed
    <2>1. PICK e \in Elapsed : Listed(e, resp # rev, conf # rev)
        BY <1>5, Zenon DEF PeersListed
    <2>2. (resp # rev) \in BOOLEAN /\ (conf # rev) \in BOOLEAN
        OBVIOUS
    <2> QED
        BY <2>1, <2>2, Zenon DEF PollMove
<1>6. CASE Stop \/ Reboot
    BY <1>6, Zenon DEF Stop, Reboot, PollMove
<1>7. CASE Tick \/ HubFine \/ HubUnpingable \/ Stamp \/ Forget \/ Revive \/ Reported
              \/ Rejected \/ Evict \/ Install \/ Kick
    <2>1. UNCHANGED pollVars
        BY <1>7, Zenon DEF Tick, HubFine, HubUnpingable, Stamp, Forget, Revive, Reported,
                           Rejected, Evict, Install, Kick
    <2> QED
        BY <2>1, Zenon DEF PollMove
<1>8. CASE CoreRestarts \/ LinkChanges \/ PeersChange \/ Revoke
    <2>1. UNCHANGED pollVars
        BY <1>8, Zenon DEF CoreRestarts, LinkChanges, PeersChange, Revoke
    <2> QED
        BY <2>1, Zenon DEF PollMove
<1>9. CASE UNCHANGED agentVars
    <2>1. UNCHANGED pollVars
        BY <1>9, Zenon DEF agentVars
    <2> QED
        BY <2>1, Zenon DEF PollMove
<1> QED
    BY <1>1, <1>2, <1>3, <1>4, <1>5, <1>6, <1>7, <1>8, <1>9, Zenon DEF AgentNext, AgentStep

LEMMA EvictSteps ==
    /\ EvictOrder[1] = "bootout" /\ After("bootout") = "disable"
    /\ After("disable") = "rm conf" /\ After("rm conf") = "rm state"
    /\ After("rm state") = "idle"
    /\ ToSet(EvictOrder) = {"bootout", "disable", "rm conf", "rm state"}
<1>1. /\ Len(EvictOrder) = 4 /\ DOMAIN EvictOrder = 1 .. 4
      /\ EvictOrder[1] = "bootout" /\ EvictOrder[2] = "disable"
      /\ EvictOrder[3] = "rm conf" /\ EvictOrder[4] = "rm state"
    BY DEF EvictOrder
<1>2. 1 .. 4 = {1, 2, 3, 4}
    OBVIOUS
<1>3. /\ 1 # 4 /\ 2 # 4 /\ 3 # 4 /\ 1 + 1 = 2 /\ 2 + 1 = 3 /\ 3 + 1 = 4
    OBVIOUS
<1>4. (CHOOSE n \in 1 .. Len(EvictOrder) : EvictOrder[n] = "bootout") = 1
    BY <1>1, <1>2
<1>5. (CHOOSE n \in 1 .. Len(EvictOrder) : EvictOrder[n] = "disable") = 2
    BY <1>1, <1>2
<1>6. (CHOOSE n \in 1 .. Len(EvictOrder) : EvictOrder[n] = "rm conf") = 3
    BY <1>1, <1>2
<1>7. (CHOOSE n \in 1 .. Len(EvictOrder) : EvictOrder[n] = "rm state") = 4
    BY <1>1, <1>2
<1>8. ToSet(EvictOrder) = {"bootout", "disable", "rm conf", "rm state"}
    BY <1>1, <1>2 DEF ToSet
<1>9. /\ After("bootout") = "disable" /\ After("disable") = "rm conf"
      /\ After("rm conf") = "rm state" /\ After("rm state") = "idle"
    BY <1>1, <1>3, <1>4, <1>5, <1>6, <1>7 DEF After
<1> QED
    BY <1>1, <1>8, <1>9

\* An eviction takes away, before the state file, everything that a restart or a
\* reboot could bring wg_core back from, but for what launchd refused.
DownKept ==
    /\ pc \in {"disable", "rm conf", "rm state"} /\ loaded => "bootout" \in kept
    /\ pc \in {"rm conf", "rm state"} /\ enabled => "disable" \in kept
    /\ pc = "rm state" => conf = None
    /\ ~state => pc = "idle"
    /\ ~loaded => running = None

AgentInv == DownKept /\ EvictedIsDown /\ RunsItsConf

LEMMA AgentInvInitially ==
    ASSUME AgentInit
    PROVE  AgentInv
<1>1. /\ state = TRUE /\ loaded = TRUE /\ pc = "idle" /\ running = conf
    BY DEF AgentInit
<1> QED
    BY <1>1 DEF AgentInv, DownKept, EvictedIsDown, RunsItsConf

LEMMA KickstartKeeps ==
    ASSUME AgentInv, pc \in {"revive", "kick"}, Kickstart,
           pc' \in {"heartbeat", "fetch"},
           UNCHANGED <<state, conf, loaded, enabled, kept>>
    PROVE  AgentInv'
<1>1. state
    BY Zenon DEF AgentInv, DownKept
<1>2. /\ pc' # "idle" /\ pc' # "kick"
      /\ pc' \notin {"disable", "rm conf", "rm state"} /\ pc' # "rm state"
      /\ pc' \notin {"rm conf", "rm state"}
    OBVIOUS
<1>3. /\ conf' = conf /\ kept' = kept
      /\ (state' <=> state) /\ (loaded' <=> loaded) /\ (enabled' <=> enabled)
    BY Zenon
<1>4. CASE loaded /\ Restarts /\ UNCHANGED cut
    BY <1>1, <1>2, <1>3, <1>4
    DEF Restarts, AgentInv, DownKept, EvictedIsDown, RunsItsConf
<1>5. CASE ~loaded /\ UNCHANGED <<running, cut>>
    <2>1. running' = None
        BY <1>5, Zenon DEF AgentInv, DownKept
    <2>2. running' \in {None, conf'}
        BY <2>1
    <2> QED
        BY <1>1, <1>2, <1>3, <2>1, <2>2
        DEF AgentInv, DownKept, EvictedIsDown, RunsItsConf
<1>6. CASE cut' = (cut \/ pc = "kick") /\ UNCHANGED running
    <2>1. ~cut' /\ "bootout" \notin kept' => running' \in {None, conf'}
        BY <1>3, <1>6, Zenon DEF AgentInv, RunsItsConf
    <2>2. ~loaded' => running' = None
        BY <1>3, <1>6, Zenon DEF AgentInv, DownKept
    <2> QED
        BY <1>1, <1>2, <1>3, <2>1, <2>2
        DEF AgentInv, DownKept, EvictedIsDown, RunsItsConf
<1> QED
    BY <1>4, <1>5, <1>6, Zenon DEF Kickstart

LEMMA EvictKeeps ==
    ASSUME AgentInv, Evict
    PROVE  AgentInv'
<1>1. cut' = cut /\ pc' = After(pc)
    BY DEF Evict
<1>2. state \/ pc = "idle"
    BY Zenon DEF AgentInv, DownKept
<1>3. CASE Bootout
    <2>1. /\ pc' = "disable" /\ state' = state /\ state /\ conf' = conf
        BY <1>1, <1>2, <1>3, EvictSteps DEF Bootout, disk
    <2>2. \/ loaded' = FALSE /\ running' = None
          \/ /\ loaded' = loaded /\ running' = running
             /\ "bootout" \in kept'
        BY <1>3 DEF Bootout, Refused, job
    <2> QED
        BY <2>1, <2>2 DEF AgentInv, DownKept, EvictedIsDown, RunsItsConf
<1>4. CASE Disable
    <2>1. /\ pc = "disable" /\ pc' = "rm conf" /\ state' = state /\ state /\ conf' = conf
          /\ loaded' = loaded /\ running' = running
        BY <1>1, <1>2, <1>4, EvictSteps DEF Disable, Refused, disk, job
    <2>2. /\ enabled' = FALSE \/ "disable" \in kept'
          /\ "bootout" \in kept => "bootout" \in kept'
        BY <1>4 DEF Disable, Refused, Accepted
    <2>3. /\ loaded => "bootout" \in kept
          /\ ~loaded => running = None
        BY <2>1, Zenon DEF AgentInv, DownKept
    <2> QED
        BY <2>1, <2>2, <2>3 DEF AgentInv, DownKept, EvictedIsDown, RunsItsConf
<1>5. CASE RemoveConf
    <2>1. pc = "rm conf" /\ pc' = "rm state" /\ state
        BY <1>1, <1>2, <1>5, EvictSteps DEF RemoveConf
    <2>2. /\ conf' = None /\ kept' = kept /\ state' = state
          /\ enabled' = enabled /\ loaded' = loaded /\ running' = running
        BY <1>5, Zenon DEF RemoveConf, job
    <2>3. /\ loaded => "bootout" \in kept
          /\ enabled => "disable" \in kept
          /\ ~loaded => running = None
        BY <2>1, Zenon DEF AgentInv, DownKept
    <2> QED
        BY <2>1, <2>2, <2>3 DEF AgentInv, DownKept, EvictedIsDown, RunsItsConf
<1>6. CASE RemoveState
    <2>1. pc = "rm state" /\ pc' = "idle"
        BY <1>1, <1>6, EvictSteps DEF RemoveState
    <2>2. /\ conf' = conf /\ kept' = kept
          /\ enabled' = enabled /\ loaded' = loaded /\ running' = running
        BY <1>6, Zenon DEF RemoveState, job
    <2>3. /\ loaded => "bootout" \in kept
          /\ enabled => "disable" \in kept
          /\ ~loaded => running = None
          /\ conf = None
        BY <2>1, Zenon DEF AgentInv, DownKept
    <2>4. EvictedIsDown'
        BY <2>2, <2>3 DEF EvictedIsDown, Down
    <2> QED
        BY <2>1, <2>2, <2>3, <2>4 DEF AgentInv, DownKept, RunsItsConf
<1> QED
    BY <1>3, <1>4, <1>5, <1>6, Zenon DEF Evict

\* The steps that leave the job, the conf and the state file alone.
LEMMA BystandersKeep ==
    ASSUME AgentInv,
           UNCHANGED <<state, conf, loaded, enabled, running, kept>>,
           \/ UNCHANGED pc
           \/ /\ state
              /\ pc # "kick"
              /\ pc' \notin {"disable", "rm conf", "rm state"}
           \/ pc' = "idle",
           pc = "kick" /\ pc' # "kick" => cut',
           cut => cut'
    PROVE  AgentInv'
<1>1. /\ conf' = conf /\ running' = running /\ kept' = kept
      /\ (state' <=> state) /\ (loaded' <=> loaded) /\ (enabled' <=> enabled)
    BY Zenon
<1>2. ~cut' /\ pc' # "kick" => ~cut /\ pc # "kick"
    OBVIOUS
<1>3. EvictedIsDown' /\ RunsItsConf'
    BY <1>1, <1>2 DEF AgentInv, EvictedIsDown, Down, RunsItsConf
<1>4. DownKept'
    <2>1. CASE UNCHANGED pc
        BY <1>1, <2>1 DEF AgentInv, DownKept
    <2>2. CASE state /\ pc # "kick" /\ pc' \notin {"disable", "rm conf", "rm state"}
        BY <1>1, <2>2 DEF AgentInv, DownKept
    <2>3. CASE pc' = "idle"
        BY <1>1, <2>3 DEF AgentInv, DownKept
    <2> QED
        BY <2>1, <2>2, <2>3
<1> QED
    BY <1>3, <1>4 DEF AgentInv

LEMMA AgentInvKept ==
    ASSUME AgentInv, [AgentNext]_agentVars
    PROVE  AgentInv'
<1>1. pc # "idle" => state
    BY Zenon DEF AgentInv, DownKept
<1>2. CASE Tick \/ HubFine \/ HubUnpingable \/ Stamp \/ Forget \/ Reported \/ PeersListed
    <2>1. /\ UNCHANGED <<state, conf, loaded, enabled, running, kept>> /\ cut' = cut
        BY <1>2, Zenon DEF Tick, HubFine, HubUnpingable, Stamp, Forget, Reported,
                           PeersListed, disk, job, counts
    <2>2. /\ pc \in {"idle", "watch", "stamp", "forget", "heartbeat", "fetch"}
          /\ pc = "idle" => state
          /\ pc' \in {"watch", "heartbeat", "stamp", "forget", "revive", "fetch", "install"}
        BY <1>2 DEF Tick, HubFine, HubUnpingable, Stamp, Forget, Reported, PeersListed
    <2>3. state /\ pc # "kick" /\ pc' \notin {"disable", "rm conf", "rm state"}
        <3>1. state
            BY <1>1, <2>2, Zenon
        <3>2. pc # "kick" /\ pc' \notin {"disable", "rm conf", "rm state"}
            BY <2>2
        <3> QED
            BY <3>1, <3>2
    <2> QED
        BY <2>1, <2>3, BystandersKeep, Zenon
<1>3. CASE Revive \/ Kick
    <2>1. /\ pc \in {"revive", "kick"} /\ Kickstart /\ pc' \in {"heartbeat", "fetch"}
        BY <1>3, Zenon DEF Revive, Kick
    <2>2. UNCHANGED <<state, conf, loaded, enabled, kept>>
        BY <1>3, Zenon DEF Revive, Kick, disk
    <2> QED
        BY <2>1, <2>2, KickstartKeeps, Zenon
<1>4. CASE Rejected
    <2>1. /\ UNCHANGED <<state, conf, loaded, enabled, running, kept>> /\ cut' = cut
          /\ pc = "heartbeat" /\ pc' = "bootout"
        BY <1>4, EvictSteps, Zenon DEF Rejected, disk, job, counts
    <2>2. state /\ pc # "kick" /\ pc' \notin {"disable", "rm conf", "rm state"}
        <3>1. pc # "idle" /\ pc # "kick" /\ pc' \notin {"disable", "rm conf", "rm state"}
            BY <2>1
        <3> QED
            BY <1>1, <3>1, Zenon
    <2> QED
        BY <2>1, <2>2, BystandersKeep, Zenon
<1>5. CASE Evict
    BY <1>5, EvictKeeps
<1>6. CASE LoopStep \/ FetchFails \/ PeersNotModified \/ LinkChanges \/ PeersChange \/ Revoke
              \/ UNCHANGED agentVars
    <2>1. /\ UNCHANGED <<state, conf, loaded, enabled, running, kept>> /\ cut' = cut /\ pc' = pc
        BY <1>6, Zenon DEF LoopStep, FetchFails, PeersNotModified, LinkChanges, PeersChange,
                           Revoke, agentVars, disk, job, counts
    <2> QED
        BY <2>1, BystandersKeep, Zenon
<1>7. CASE LoopEnds
    <2>1. /\ UNCHANGED <<state, conf, loaded, enabled, running, kept>> /\ cut' = cut
          /\ pc = "fetch" /\ pc' = "idle"
        BY <1>7, Zenon DEF LoopEnds, disk, job, counts
    <2>2. pc # "kick"
        BY <2>1
    <2> QED
        BY <2>1, <2>2, BystandersKeep, Zenon
<1>8. CASE Install
    <2>1. /\ pc = "install" /\ pc' = "kick"
          /\ state' = state /\ loaded' = loaded /\ enabled' = enabled /\ running' = running
          /\ kept' = kept
        BY <1>8, Zenon DEF Install, job, counts
    <2>2. state
        BY <1>1, <2>1
    <2>3. pc' \notin {"disable", "rm conf", "rm state"} /\ pc' # "rm state" /\ pc' # "idle"
          /\ pc' \notin {"rm conf", "rm state"}
        BY <2>1
    <2> QED
        BY <2>1, <2>2, <2>3, Zenon DEF AgentInv, DownKept, EvictedIsDown, RunsItsConf
<1>9. CASE Stop
    <2>1. /\ UNCHANGED <<state, conf, loaded, enabled, running, kept>>
          /\ cut' = (cut \/ pc = "kick") /\ pc' = "idle"
        BY <1>9, Zenon DEF Stop, disk, job
    <2> QED
        BY <2>1, BystandersKeep, Zenon
<1>10. CASE Reboot
    <2>1. /\ pc' = "idle" /\ state' = state /\ conf' = conf
          /\ enabled' = enabled /\ loaded' = enabled
          /\ running' = (IF enabled THEN conf ELSE None)
          /\ kept' = (IF enabled THEN kept ELSE kept \ {"bootout"})
        BY <1>10, Zenon DEF Reboot, disk
    <2>2. pc' \notin {"disable", "rm conf", "rm state"} /\ pc' # "rm state"
          /\ pc' \notin {"rm conf", "rm state"}
        BY <2>1
    <2>3. running' \in {None, conf'} /\ (~loaded' => running' = None)
        BY <2>1, Zenon
    <2>4. EvictedIsDown'
        BY <2>1 DEF AgentInv, EvictedIsDown, Down
    <2>5. DownKept'
        <3>1. ~state' => pc' = "idle"
            BY <2>1
        <3> QED
            BY <2>2, <2>3, <3>1, Zenon DEF DownKept
    <2> QED
        BY <2>3, <2>4, <2>5, Zenon DEF AgentInv, RunsItsConf
<1>11. CASE CoreRestarts
    <2>1. /\ running # None /\ running' = conf /\ pc' = pc /\ cut' = cut
          /\ state' = state /\ conf' = conf /\ loaded' = loaded /\ enabled' = enabled
          /\ kept' = kept
        BY <1>11, Zenon DEF CoreRestarts, disk, counts
    <2>2. loaded
        BY <2>1, Zenon DEF AgentInv, DownKept
    <2>3. EvictedIsDown'
        BY <2>1 DEF AgentInv, EvictedIsDown, Down
    <2> QED
        BY <2>1, <2>2, <2>3, Zenon DEF AgentInv, DownKept, RunsItsConf
<1> QED
    BY <1>2, <1>3, <1>4, <1>5, <1>6, <1>7, <1>8, <1>9, <1>10, <1>11, Zenon
    DEF AgentNext, AgentStep

\* What is left to show of the types once the poll has its own.
AgentOwnTypes ==
    /\ rev \in Revs /\ revoked \in BOOLEAN
    /\ state \in BOOLEAN /\ conf \in Revs \cup {None}
    /\ fails \in 0 .. FailMax + 1 /\ cooling \in 0 .. Cooldown
    /\ loaded \in BOOLEAN /\ enabled \in BOOLEAN
    /\ running \in Revs \cup {None} /\ link \in {"silent", "fine", "wedged"}
    /\ resp \in Revs \cup {None} /\ kept \subseteq {"bootout", "disable"}
    /\ pc \in {"idle", "watch", "stamp", "forget", "revive", "heartbeat", "fetch",
               "install", "kick", "bootout", "disable", "rm conf", "rm state"}

LEMMA AgentTypesSplit == AgentTypeOK <=> AgentOwnTypes /\ PollTypeOK
<1>1. \A x : x \in {"idle", "watch", "stamp", "forget", "revive", "heartbeat", "fetch",
                   "install", "kick"} \cup ToSet(EvictOrder)
          <=> x \in {"idle", "watch", "stamp", "forget", "revive", "heartbeat", "fetch",
                    "install", "kick", "bootout", "disable", "rm conf", "rm state"}
    BY EvictSteps
<1> QED
    BY <1>1, Zenon DEF AgentTypeOK, AgentOwnTypes

LEMMA AgentTypesKept ==
    ASSUME AgentOwnTypes, [AgentNext]_agentVars
    PROVE  AgentOwnTypes'
<1> FailMax \in Nat \ {0} /\ Cooldown \in Nat /\ MaxRev \in Nat
    BY AgentAssumption
<1>1. fails \in 0 .. FailMax + 1 /\ cooling \in 0 .. Cooldown /\ rev \in 0 .. MaxRev
    BY Zenon DEF AgentOwnTypes, Revs
<1>2. CASE UNCHANGED agentVars
    BY <1>2, ZenonT(60) DEF AgentOwnTypes, agentVars, control, disk, watchdog, job, counts
<1>3. CASE Tick
    <2>1. cooling' \in 0 .. Cooldown /\ pc' = "watch"
        BY <1>1, <1>3 DEF Tick
    <2> QED
        BY <1>3, <2>1, Zenon DEF Tick, AgentOwnTypes, control, disk, job, counts
<1>4. CASE HubFine \/ HubUnpingable
    <2>1. fails' \in 0 .. FailMax + 1
        BY <1>1, <1>4 DEF HubFine, HubUnpingable
    <2>2. pc' \in {"stamp", "heartbeat"}
        BY <1>4 DEF HubFine, HubUnpingable
    <2> QED
        BY <1>4, <2>1, <2>2, Zenon DEF HubFine, HubUnpingable, AgentOwnTypes, control, disk, job, counts
<1>5. CASE Stamp \/ Forget
    <2>1. fails' \in 0 .. FailMax + 1 /\ cooling' \in 0 .. Cooldown
        BY <1>1, <1>5 DEF Stamp, Forget
    <2> QED
        BY <1>5, <2>1, Zenon DEF Stamp, Forget, AgentOwnTypes, control, disk, job, counts
<1>6. CASE Revive \/ Kick
    <2>1. running' \in {running, conf} /\ link' \in {"silent", link}
        BY <1>6 DEF Revive, Kick, Kickstart, Restarts
    <2>2. running' \in Revs \cup {None} /\ link' \in {"silent", "fine", "wedged"}
        BY <2>1 DEF AgentOwnTypes
    <2> QED
        BY <1>6, <2>2, Zenon DEF Revive, Kick, AgentOwnTypes, control, disk, watchdog, counts
<1>7. CASE Reported \/ Rejected
    <2>1. pc' \in {"fetch", "bootout"}
        BY <1>7, EvictSteps DEF Reported, Rejected
    <2> QED
        BY <1>7, <2>1, Zenon DEF Reported, Rejected, AgentOwnTypes, control, disk, watchdog, job, counts
<1>8. CASE Evict
    <2>1. pc' \in {"disable", "rm conf", "rm state", "idle"}
        BY <1>8, EvictSteps DEF Evict, Bootout, Disable, RemoveConf, RemoveState
    <2>2. kept' \subseteq {"bootout", "disable"}
        BY <1>8 DEF Evict, Bootout, Disable, RemoveConf, RemoveState, Refused, Accepted, AgentOwnTypes
    <2>3. UNCHANGED <<control, watchdog, resp>>
        BY <1>8, Zenon DEF Evict
    <2>4. state' \in BOOLEAN /\ conf' \in Revs \cup {None}
        BY <1>8, Zenon DEF Evict, Bootout, Disable, RemoveConf, RemoveState, disk, AgentOwnTypes
    <2>5. loaded' \in BOOLEAN /\ enabled' \in BOOLEAN /\ running' \in Revs \cup {None}
        BY <1>8, Zenon DEF Evict, Bootout, Disable, RemoveConf, RemoveState, Refused, job,
                           AgentOwnTypes
    <2>6. link' \in {link, "silent"}
        BY <1>8, Zenon DEF Evict, Bootout, Disable, RemoveConf, RemoveState, Refused, job
    <2>7. link' \in {"silent", "fine", "wedged"}
        BY <2>6, Zenon DEF AgentOwnTypes
    <2> QED
        BY <2>1, <2>2, <2>3, <2>4, <2>5, <2>7, Zenon DEF AgentOwnTypes, control, watchdog
<1>9. CASE LoopStep \/ LoopEnds \/ FetchFails \/ PeersNotModified
    BY <1>9, Zenon DEF LoopStep, LoopEnds, FetchFails, PeersNotModified,
                       AgentOwnTypes, control, disk, watchdog, job, counts
<1>10. CASE PeersListed
    <2>1. resp' \in Revs /\ pc' \in {"fetch", "install"}
        BY <1>10 DEF PeersListed, AgentOwnTypes
    <2> QED
        BY <1>10, <2>1, Zenon DEF PeersListed, AgentOwnTypes, control, disk, watchdog, job, counts
<1>11. CASE Install
    BY <1>11, Zenon DEF Install, AgentOwnTypes, control, watchdog, job, counts
<1>12. CASE Stop
    BY <1>12, Zenon DEF Stop, AgentOwnTypes, control, disk, watchdog, job, counts
<1>13. CASE Reboot
    <2>1. fails' \in 0 .. FailMax + 1 /\ cooling' \in 0 .. Cooldown
        BY <1>1, <1>13 DEF Reboot
    <2>2. loaded' \in BOOLEAN /\ running' \in Revs \cup {None}
        BY <1>13, Zenon DEF Reboot, disk, AgentOwnTypes
    <2>3. kept' \subseteq {"bootout", "disable"}
        BY <1>13 DEF Reboot, AgentOwnTypes
    <2> QED
        BY <1>13, <2>1, <2>2, <2>3, Zenon DEF Reboot, AgentOwnTypes, control, disk, counts
<1>14. CASE CoreRestarts
    BY <1>14, Zenon DEF CoreRestarts, AgentOwnTypes, control, disk, watchdog, counts
<1>15. CASE LinkChanges
    <2>1. link' \in {"silent", "fine", "wedged"}
        BY <1>15 DEF LinkChanges, AgentOwnTypes
    <2> QED
        BY <1>15, <2>1, ZenonT(60) DEF LinkChanges, AgentOwnTypes, control, disk, watchdog, counts
<1>16. CASE PeersChange \/ Revoke
    <2>1. rev' \in Revs
        BY <1>1, <1>16 DEF PeersChange, Revoke, Revs
    <2> QED
        BY <1>16, <2>1, ZenonT(60) DEF PeersChange, Revoke, AgentOwnTypes, disk, watchdog, job, counts
<1> QED
    BY <1>2, <1>3, <1>4, <1>5, <1>6, <1>7, <1>8, <1>9, <1>10, <1>11, <1>12, <1>13, <1>14,
       <1>15, <1>16, Zenon DEF AgentNext, AgentStep

(* No run of the agent outlives its budget by more than a request, and none   *)
(* of its loops is busy unless the server answers "not modified" without      *)
(* having held the request: LongPollPlanner's promise, inside whatever else   *)
(* the agent does and wherever it is stopped.                                 *)
THEOREM PollAlwaysBounded == AgentSpec => []PollBounded
<1>1. AgentInit => PollInv
    BY PollInitially, Zenon DEF AgentInit
<1>2. PollInv /\ [AgentNext]_agentVars => PollInv'
    BY AgentPolls, PollKeeps
<1>3. PollInv => PollBounded
    BY PollInvBounded
<1> QED
    BY <1>1, <1>2, <1>3, PTL DEF AgentSpec

(* What outlives a run, on disk and in launchd, stays what the next run can    *)
(* read: the count of failed pings never passes DP_FAIL_MAX by more than one.  *)
THEOREM AgentTypeCorrect == AgentSpec => []AgentTypeOK
<1>1. AgentInit => PollInv /\ AgentOwnTypes
    <2> SUFFICES ASSUME AgentInit PROVE PollInv /\ AgentOwnTypes
        OBVIOUS
    <2>1. 0 \in Revs /\ 0 \in 0 .. FailMax + 1 /\ 0 \in 0 .. Cooldown
        BY AgentAssumption DEF Revs
    <2>2. AgentOwnTypes
        BY <2>1, Zenon DEF AgentInit, AgentOwnTypes
    <2> QED
        BY <2>2, PollInitially DEF AgentInit
<1>2. PollInv /\ AgentOwnTypes /\ [AgentNext]_agentVars => (PollInv /\ AgentOwnTypes)'
    BY AgentPolls, PollKeeps, AgentTypesKept
<1>3. PollInv /\ AgentOwnTypes => AgentTypeOK
    BY AgentTypesSplit DEF PollInv
<1> QED
    BY <1>1, <1>2, <1>3, PTL DEF AgentSpec

LEMMA AgentInvAlways == AgentSpec => []AgentInv
<1>1. AgentInit => AgentInv
    BY AgentInvInitially
<1>2. AgentInv /\ [AgentNext]_agentVars => AgentInv'
    BY AgentInvKept
<1> QED
    BY <1>1, <1>2, PTL DEF AgentSpec

(* process_iface deletes the state file last: an interface without one has no *)
(* conf, and no loaded or enabled job but for what launchd refused to take    *)
(* down, over every stop and reboot; and wg_core runs the peers of the conf   *)
(* on disk, unless a new conf was not followed by a kickstart that launchctl  *)
(* accepted or a bootout was refused.                                         *)
THEOREM JobAlwaysFollowsDisk == AgentSpec => []JobFollowsDisk
<1>1. AgentInv => JobFollowsDisk
    BY DEF AgentInv, JobFollowsDisk
<1> QED
    BY <1>1, AgentInvAlways, PTL

-----------------------------------------------------------------------------
(* Numbers and prefixes.                                                     *)

LEMMA MinOfNat ==
    ASSUME NEW S, S \subseteq Nat, S # {}
    PROVE  Min(S) \in S /\ \A y \in S : Min(S) =< y
<1>1. PICK x \in S : \A y \in S : ~ (<<y, x>> \in OpToRel(<, Nat))
    BY WFMin, NatLessThanWellFounded, Zenon
<1>2. ASSUME NEW y \in S PROVE x =< y
    <2>1. y \in Nat /\ x \in Nat
        OBVIOUS
    <2>2. ~(y < x)
        BY <1>1, <2>1 DEF OpToRel
    <2> QED
        BY <2>1, <2>2
<1> QED
    BY <1>2, Zenon DEF Min

LEMMA MaxOfBounded ==
    ASSUME NEW n \in Nat, NEW S, S \subseteq 0 .. n, S # {}
    PROVE  Max(S) \in S /\ \A y \in S : Max(S) >= y
<1> DEFINE below == {n - x : x \in S}
<1>1. below \subseteq Nat /\ below # {}
    OBVIOUS
<1> HIDE DEF below
<1>2. PICK m \in below : \A y \in below : m =< y
    BY <1>1, MinOfNat
<1>3. PICK x \in S : m = n - x
    BY <1>2 DEF below
<1>4. ASSUME NEW y \in S PROVE x >= y
    <2>1. n - x =< n - y
        BY <1>2, <1>3 DEF below
    <2> QED
        BY <2>1
<1> QED
    BY <1>4, Zenon DEF Max

LEMMA PrefixShape ==
    ASSUME NEW a \in Addresses, NEW d \in 0 .. AddressBits
    PROVE  /\ a \in Seq({0, 1}) /\ Len(a) = AddressBits
           /\ SubSeq(a, 1, d) \in Seq({0, 1}) /\ Len(SubSeq(a, 1, d)) = d
           /\ \A i \in 1 .. d : SubSeq(a, 1, d)[i] = a[i]
<1>1. AddressBits \in Nat /\ a \in [1 .. AddressBits -> {0, 1}]
    BY PeerTableAssumption DEF Addresses
<1>2. a \in Seq({0, 1}) /\ Len(a) = AddressBits
    BY <1>1, SeqDef
<1>3. \A i \in 1 .. d : a[i] \in {0, 1}
    BY <1>1
<1>4. /\ SubSeq(a, 1, d) \in Seq({0, 1})
      /\ Len(SubSeq(a, 1, d)) = IF 1 <= d THEN d - 1 + 1 ELSE 0
      /\ \A i \in 1 .. d - 1 + 1 : SubSeq(a, 1, d)[i] = a[1 + i - 1]
    <2>1. 1 \in Int /\ d \in Int
        BY <1>1
    <2> QED
        BY <1>3, <2>1, SubSeqProperties
<1>5. d - 1 + 1 = d /\ \A i \in 1 .. d : 1 + i - 1 = i
    BY <1>1
<1>6. \A i \in 1 .. d : SubSeq(a, 1, d)[i] = a[i]
    BY <1>4, <1>5
<1>7. Len(SubSeq(a, 1, d)) = d
    BY <1>1, <1>4
<1> QED
    BY <1>2, <1>4, <1>6, <1>7

LEMMA PrefixOfPrefix ==
    ASSUME NEW a \in Addresses, NEW d \in 0 .. AddressBits, NEW e \in 0 .. d
    PROVE  SubSeq(SubSeq(a, 1, d), 1, e) = SubSeq(a, 1, e)
<1> DEFINE s == SubSeq(a, 1, d)
<1>1. AddressBits \in Nat /\ e \in 0 .. AddressBits /\ e \in Int /\ 1 \in Int
    BY PeerTableAssumption
<1>2. s \in Seq({0, 1}) /\ Len(s) = d /\ \A i \in 1 .. d : s[i] = a[i]
    BY PrefixShape
<1>3. SubSeq(a, 1, e) \in Seq({0, 1}) /\ Len(SubSeq(a, 1, e)) = e
      /\ \A i \in 1 .. e : SubSeq(a, 1, e)[i] = a[i]
    BY <1>1, PrefixShape
<1> HIDE DEF s
<1>4. \A i \in 1 .. e : s[i] \in {0, 1}
    <2>1. \A i \in 1 .. Len(s) : s[i] \in {0, 1}
        BY <1>2, ElementOfSeq
    <2>2. 1 .. e \subseteq 1 .. Len(s)
        BY <1>1, <1>2
    <2> QED
        BY <2>1, <2>2
<1>5. /\ SubSeq(s, 1, e) \in Seq({0, 1})
      /\ Len(SubSeq(s, 1, e)) = IF 1 <= e THEN e - 1 + 1 ELSE 0
      /\ \A i \in 1 .. e - 1 + 1 : SubSeq(s, 1, e)[i] = s[1 + i - 1]
    BY <1>1, <1>4, SubSeqProperties
<1>6. e - 1 + 1 = e /\ \A i \in 1 .. e : 1 + i - 1 = i /\ i \in 1 .. d
    BY <1>1
<1>7. Len(SubSeq(s, 1, e)) = e
    BY <1>1, <1>5
<1>8. \A i \in 1 .. e : SubSeq(s, 1, e)[i] = SubSeq(a, 1, e)[i]
    BY <1>2, <1>3, <1>5, <1>6
<1>9. SubSeq(s, 1, e) = SubSeq(a, 1, e)
    BY <1>3, <1>5, <1>7, <1>8, SeqEqual
<1> QED
    BY <1>9 DEF s

\* The prefixes that cover an address are its own, one of each length.
LEMMA CoversArePrefixes ==
    ASSUME NEW a \in Addresses, NEW c \in Cidrs
    PROVE  IsPrefix(c, a) <=> \E d \in 0 .. AddressBits : c = SubSeq(a, 1, d)
<1>1. AddressBits \in Nat /\ c \in Seq({0, 1}) /\ Len(c) \in Nat
    BY PeerTableAssumption, LenProperties
<1>2. Len(a) = AddressBits
    <2>1. 0 \in 0 .. AddressBits
        BY <1>1
    <2> QED
        BY <2>1, PrefixShape
<1>3. SubSeq(c, 1, Len(c)) = c
    BY <1>1, SubSeqFull, SMTT(30)
<1>4. ASSUME IsPrefix(c, a) PROVE \E d \in 0 .. AddressBits : c = SubSeq(a, 1, d)
    <2>1. Len(c) <= AddressBits /\ c = SubSeq(a, 1, Len(c))
        BY <1>2, <1>3, <1>4 DEF IsPrefix
    <2>2. Len(c) \in 0 .. AddressBits
        BY <1>1, <2>1
    <2> QED
        BY <2>1, <2>2
<1>5. ASSUME NEW d \in 0 .. AddressBits, c = SubSeq(a, 1, d) PROVE IsPrefix(c, a)
    <2>1. Len(c) = d
        BY <1>5, PrefixShape
    <2>2. Len(c) <= Len(a) /\ SubSeq(c, 1, Len(c)) = SubSeq(a, 1, Len(c))
        BY <1>1, <1>2, <1>3, <1>5, <2>1
    <2> QED
        BY <2>2 DEF IsPrefix
<1> QED
    BY <1>4, <1>5

-----------------------------------------------------------------------------
(* The table of peers.                                                       *)

PeerRecords ==
    [active : BOOLEAN, pubkey : PublicKeys \cup {NULL},
     remote : Remotes \cup {NULL}, allowed : Seq(Cidrs), configured : BOOLEAN]
RemoteRecords ==
    [refcnt : Nat, pubkey : PublicKeys \cup {NULL},
     arg : 0 .. MaxPeers, enabled : BOOLEAN]

TableTypes ==
    /\ peers \in [Slots -> PeerRecords]
    /\ remote \in [Remotes -> RemoteRecords]
    /\ keypair \in [Keypairs -> Remotes \cup {NULL}]
    /\ nPeers \in 0 .. MaxPeers /\ cur \in 0 .. nPeers

Owned(r) == \E i \in Slots : peers[i].remote = r
Holders(r) == {k \in Keypairs : keypair[k] = r}

\* What a tombstone keeps, and which slots a request and a lookup can meet.
SlotsSound ==
    /\ cur # 0 => busy /\ peers[cur].active
    /\ \A i \in Slots : peers[i].active => i <= nPeers
    /\ \A i \in Slots : ~peers[i].active => peers[i] = EmptyPeer
    /\ \A i, j \in Slots :
          peers[i].active /\ peers[j].active /\ peers[i].pubkey = peers[j].pubkey
             => i = j \/ (peers[i].configured /\ peers[j].configured)

\* A noise_remote is found by its key exactly while one slot owns it.
RemotesSound ==
    /\ \A i, j \in Slots :
          peers[i].remote # NULL /\ peers[i].remote = peers[j].remote => i = j
    /\ \A i \in Slots : peers[i].remote # NULL =>
          LET r == remote[peers[i].remote] IN
          r.enabled /\ r.pubkey = peers[i].pubkey /\ r.arg = i
    /\ \A r \in Remotes : remote[r].enabled => Owned(r)

\* Its references are its slot's and one of each keypair.
RefsExact ==
    \A r \in Remotes :
        remote[r].refcnt = Cardinality(Holders(r)) + (IF Owned(r) THEN 1 ELSE 0)

TriesCurrent == ~busy => trie = Rebuilt(peers)

TableInv == TableTypes /\ SlotsSound /\ RemotesSound /\ RefsExact /\ TriesCurrent

-----------------------------------------------------------------------------
(* Lookups.                                                                  *)

LEMMA ListedIsCidr ==
    ASSUME TableTypes, NEW i \in 1 .. nPeers, NEW c, Lists(peers[i], c)
    PROVE  c \in Cidrs
<1>1. i \in Slots
    BY PeerTableAssumption DEF TableTypes, Slots
<1>2. peers[i].allowed \in Seq(Cidrs) /\ c \in Range(peers[i].allowed)
    BY <1>1 DEF TableTypes, PeerRecords, Lists
<1>3. PICK x \in DOMAIN peers[i].allowed : c = peers[i].allowed[x]
    BY <1>2 DEF Range
<1>4. x \in 1 .. Len(peers[i].allowed)
    BY <1>2, <1>3, LenProperties
<1> QED
    BY <1>2, <1>3, <1>4, ElementOfSeq

LEMMA LastOwner ==
    ASSUME TableTypes, NEW c, Owners(peers, c) # {}
    PROVE  /\ Max(Owners(peers, c)) \in Owners(peers, c)
           /\ Max(Owners(peers, c)) # 0 /\ Max(Owners(peers, c)) # NULL
<1>1. nPeers \in Nat /\ nPeers <= MaxPeers /\ MaxPeers \in Nat /\ NULL \notin 0 .. MaxPeers
    BY PeerTableAssumption DEF TableTypes
<1>2. Owners(peers, c) \subseteq 1 .. nPeers /\ Owners(peers, c) \subseteq 0 .. nPeers
    BY <1>1 DEF Owners
<1>3. Max(Owners(peers, c)) \in Owners(peers, c)
    BY <1>1, <1>2, MaxOfBounded
<1>4. Max(Owners(peers, c)) \in 1 .. nPeers
    BY <1>2, <1>3
<1> QED
    BY <1>1, <1>3, <1>4

\* The walk passes every node above a prefix that is listed, and keeps the
\* listed ones.
LEMMA WalkMeetsListed ==
    ASSUME TableTypes, trie = Rebuilt(peers), NEW a \in Addresses
    PROVE  Met(a) = {d \in 0 .. AddressBits : Owners(peers, SubSeq(a, 1, d)) # {}}
<1>1. AddressBits \in Nat /\ NULL # 0
    BY PeerTableAssumption
<1>2. \A n \in Nodes : trie[n] = IF Owners(peers, n) # {} THEN Max(Owners(peers, n))
                                 ELSE IF HasNode(peers, n) THEN 0 ELSE NULL
    BY DEF Rebuilt
<1>3. ASSUME NEW d \in Met(a)
      PROVE  d \in 0 .. AddressBits /\ Owners(peers, SubSeq(a, 1, d)) # {}
    <2>1. /\ d \in 0 .. AddressBits
          /\ \A e \in 0 .. d : SubSeq(a, 1, e) \in Nodes /\ trie[SubSeq(a, 1, e)] # NULL
          /\ trie[SubSeq(a, 1, d)] # 0
        BY DEF Met, Walked
    <2>2. d \in 0 .. d
        BY <1>1, <2>1
    <2>3. SubSeq(a, 1, d) \in Nodes /\ trie[SubSeq(a, 1, d)] # NULL
        BY <2>1, <2>2
    <2> QED
        BY <1>2, <2>1, <2>3
<1>4. ASSUME NEW d \in 0 .. AddressBits, Owners(peers, SubSeq(a, 1, d)) # {}
      PROVE  d \in Met(a)
    <2> DEFINE c == SubSeq(a, 1, d)
    <2>1. PICK i \in 1 .. nPeers : Lists(peers[i], c)
        BY <1>4 DEF Owners
    <2>2. c \in Cidrs /\ Len(c) = d
        BY <2>1, ListedIsCidr, PrefixShape
    <2>3. ASSUME NEW e \in 0 .. d
          PROVE  SubSeq(a, 1, e) \in Nodes /\ trie[SubSeq(a, 1, e)] # NULL
        <3>1. SubSeq(a, 1, e) = SubSeq(c, 1, e)
            BY PrefixOfPrefix
        <3>2. SubSeq(a, 1, e) \in Above(c)
            BY <2>2, <3>1 DEF Above
        <3>3. SubSeq(a, 1, e) \in Nodes
            BY <2>2, <3>2 DEF Nodes
        <3>4. HasNode(peers, SubSeq(a, 1, e))
            BY <2>1, <2>2, <3>2 DEF HasNode
        <3>5. Owners(peers, SubSeq(a, 1, e)) # {} => Max(Owners(peers, SubSeq(a, 1, e))) # NULL
            BY LastOwner
        <3> QED
            BY <1>1, <1>2, <3>3, <3>4, <3>5
    <2>4. d \in Walked(a)
        BY <2>3 DEF Walked
    <2>5. trie[c] # 0
        <3>1. d \in 0 .. d
            BY <1>1
        <3>2. c \in Nodes
            BY <2>3, <3>1
        <3> QED
            BY <1>2, <1>4, <3>2, LastOwner
    <2> QED
        BY <2>4, <2>5 DEF Met
<1> QED
    BY <1>3, <1>4

LEMMA LookupIsLongest ==
    ASSUME TableInv
    PROVE  RoutesAgree
<1> DEFINE covers(a) == {c \in Cidrs : IsPrefix(c, a) /\ Owners(peers, c) # {}}
           longest(a) == CHOOSE c \in covers(a) : \A d \in covers(a) : Len(d) <= Len(c)
<1>1. SUFFICES ASSUME ~busy, NEW a \in Addresses
               PROVE  Lookup(a) = IF covers(a) = {} THEN 0
                                  ELSE Max(Owners(peers, longest(a)))
    BY DEF RoutesAgree
<1>2. TableTypes /\ trie = Rebuilt(peers) /\ AddressBits \in Nat
    BY <1>1, PeerTableAssumption DEF TableInv, TriesCurrent
<1>3. Met(a) = {d \in 0 .. AddressBits : Owners(peers, SubSeq(a, 1, d)) # {}}
    BY <1>2, WalkMeetsListed
<1>4. \A d \in Met(a) : SubSeq(a, 1, d) \in covers(a) /\ Len(SubSeq(a, 1, d)) = d
    <2> SUFFICES ASSUME NEW d \in Met(a)
                 PROVE  SubSeq(a, 1, d) \in covers(a) /\ Len(SubSeq(a, 1, d)) = d
        OBVIOUS
    <2>1. d \in 0 .. AddressBits /\ Owners(peers, SubSeq(a, 1, d)) # {}
        BY <1>3
    <2>2. PICK i \in 1 .. nPeers : Lists(peers[i], SubSeq(a, 1, d))
        BY <2>1 DEF Owners
    <2>3. SubSeq(a, 1, d) \in Cidrs
        BY <1>2, <2>2, ListedIsCidr
    <2> QED
        BY <2>1, <2>3, CoversArePrefixes, PrefixShape
<1>5. \A c \in covers(a) : \E d \in Met(a) : c = SubSeq(a, 1, d)
    BY <1>3, CoversArePrefixes
<1>6. CASE Met(a) = {}
    BY <1>5, <1>6 DEF Lookup
<1>7. CASE Met(a) # {}
    <2> DEFINE m == Max(Met(a))
    <2>1. m \in Met(a) /\ \A d \in Met(a) : m >= d
        BY <1>2, <1>3, <1>7, MaxOfBounded
    <2>2. SubSeq(a, 1, m) \in covers(a)
        BY <1>4, <2>1
    <2> HIDE DEF m, covers
    <2>3. \A d \in covers(a) : Len(d) <= Len(SubSeq(a, 1, m))
        BY <1>3, <1>4, <1>5, <2>1
    <2>4. longest(a) \in covers(a) /\ \A d \in covers(a) : Len(d) <= Len(longest(a))
        BY <2>2, <2>3
    <2> HIDE DEF longest
    <2>5. PICK d \in Met(a) : longest(a) = SubSeq(a, 1, d)
        BY <1>5, <2>4
    <2>6. d = m
        <3>1. Len(SubSeq(a, 1, m)) = m /\ Len(SubSeq(a, 1, d)) = d
            BY <1>4, <2>1
        <3>2. m <= d
            BY <2>2, <2>4, <2>5, <3>1
        <3>3. m \in Int /\ d \in Int /\ m >= d
            BY <1>2, <1>3, <2>1
        <3> QED
            BY <3>2, <3>3
    <2>7. Lookup(a) = trie[SubSeq(a, 1, m)]
        BY <1>7 DEF Lookup, m
    <2>8. SubSeq(a, 1, m) \in Nodes
        <3>1. m \in 0 .. AddressBits /\ m \in 0 .. m
            BY <1>2, <1>3, <2>1
        <3> QED
            BY <2>1, <3>1 DEF Met, Walked
    <2>9. trie[SubSeq(a, 1, m)] = Max(Owners(peers, SubSeq(a, 1, m)))
        BY <1>2, <1>3, <2>1, <2>8 DEF Rebuilt
    <2> QED
        BY <2>2, <2>5, <2>6, <2>7, <2>9
<1> QED
    BY <1>6, <1>7

-----------------------------------------------------------------------------
(* Steps of the table.                                                       *)

LEMMA EmptyPeerTyped ==
    /\ EmptyPeer \in PeerRecords
    /\ ~EmptyPeer.active /\ EmptyPeer.remote = NULL /\ Range(EmptyPeer.allowed) = {}
<1>1. <<>> \in Seq(Cidrs)
    BY EmptySeq
<1>2. Range(<<>>) = {}
    BY DEF Range
<1> QED
    BY <1>1, <1>2 DEF EmptyPeer, PeerRecords

LEMMA HoldersCounted ==
    ASSUME NEW r
    PROVE  IsFiniteSet(Holders(r)) /\ Cardinality(Holders(r)) \in Nat
<1>1. Holders(r) \subseteq Keypairs
    BY DEF Holders
<1> QED
    BY <1>1, PeerTableAssumption, FS_Subset, FS_CardinalityType

LEMMA ListTyped ==
    ASSUME NEW l \in BoundedSeq(Cidrs, MaxAllowed)
    PROVE  l \in Seq(Cidrs) /\ Len(l) <= MaxAllowed
<1>1. PICK m \in 0 .. MaxAllowed : l \in [1 .. m -> Cidrs]
    BY DEF BoundedSeq, SeqOf
<1>2. MaxAllowed \in Nat /\ m \in Nat
    BY PeerTableAssumption
<1>3. l \in Seq(Cidrs) /\ Len(l) = m
    BY <1>1, <1>2, SeqDef
<1> QED
    BY <1>2, <1>3

\* The configured peers, each with a noise_remote of its own.
ConfiguredAs(pks, rs, als) ==
    /\ nPeers \in 1 .. MaxPeers
    /\ pks \in [1 .. nPeers -> PublicKeys] /\ rs \in [1 .. nPeers -> Remotes]
    /\ als \in [1 .. nPeers -> BoundedSeq(Cidrs, MaxAllowed)]
    /\ \A i, j \in 1 .. nPeers : rs[i] = rs[j] => i = j
    /\ peers \in [Slots -> PeerRecords]
    /\ \A i \in Slots : IF i > nPeers THEN peers[i] = EmptyPeer ELSE
          /\ i \in 1 .. nPeers
          /\ peers[i].active /\ peers[i].configured /\ peers[i].pubkey = pks[i]
          /\ peers[i].remote = rs[i] /\ peers[i].allowed = als[i]
    /\ remote \in [Remotes -> RemoteRecords]
    /\ \A i \in 1 .. nPeers : LET r == remote[rs[i]] IN
          r.refcnt = 1 /\ r.pubkey = pks[i] /\ r.arg = i /\ r.enabled
    /\ \A r \in Remotes : (\A i \in 1 .. nPeers : rs[i] # r) => remote[r] = FreeRemote
    /\ keypair = [k \in Keypairs |-> NULL]
    /\ trie = Rebuilt(peers) /\ cur = 0 /\ ~busy

LEMMA InitForm ==
    ASSUME Init
    PROVE  \E pks, rs, als : ConfiguredAs(pks, rs, als)
<1>1. PICK pks \in [1..nPeers -> PublicKeys], rs \in [1..nPeers -> Remotes],
           als \in [1..nPeers -> BoundedSeq(Cidrs, MaxAllowed)] :
          /\ IsInjective(rs)
          /\ peers = [i \in Slots |-> IF i > nPeers THEN EmptyPeer ELSE
                [active |-> TRUE, pubkey |-> pks[i], remote |-> rs[i],
                 allowed |-> als[i], configured |-> TRUE]]
          /\ remote = [r \in Remotes |-> IF r \notin Range(rs) THEN FreeRemote ELSE
                LET i == CHOOSE i \in 1..nPeers : rs[i] = r IN
                [refcnt |-> 1, pubkey |-> pks[i], arg |-> i, enabled |-> TRUE]]
    BY DEF Init
<1>2. /\ nPeers \in 1 .. MaxPeers /\ keypair = [k \in Keypairs |-> NULL]
      /\ trie = Rebuilt(peers) /\ cur = 0 /\ ~busy
    BY DEF Init
<1>3. MaxPeers \in Nat /\ nPeers \in Nat /\ 0 \in 0 .. MaxPeers /\ nPeers <= MaxPeers
    BY <1>2, PeerTableAssumption
<1>4. \A i, j \in 1 .. nPeers : rs[i] = rs[j] => i = j
    BY <1>1 DEF IsInjective
<1>5. ASSUME NEW i \in Slots
      PROVE  /\ peers[i] \in PeerRecords
             /\ IF i > nPeers THEN peers[i] = EmptyPeer ELSE
                   /\ i \in 1 .. nPeers
                   /\ peers[i].active /\ peers[i].configured /\ peers[i].pubkey = pks[i]
                   /\ peers[i].remote = rs[i] /\ peers[i].allowed = als[i]
    <2>1. CASE i > nPeers
        BY <1>1, <2>1, EmptyPeerTyped
    <2>2. CASE ~(i > nPeers)
        <3>1. i \in 1 .. nPeers
            BY <1>3, <2>2 DEF Slots
        <3>2. als[i] \in Seq(Cidrs) /\ pks[i] \in PublicKeys /\ rs[i] \in Remotes
            BY <3>1, ListTyped
        <3>3. peers[i] = [active |-> TRUE, pubkey |-> pks[i], remote |-> rs[i],
                          allowed |-> als[i], configured |-> TRUE]
            BY <1>1, <2>2
        <3> QED
            BY <2>2, <3>1, <3>2, <3>3 DEF PeerRecords
    <2> QED
        BY <2>1, <2>2
<1>6. ASSUME NEW r \in Remotes, \A i \in 1 .. nPeers : rs[i] # r
      PROVE  remote[r] = FreeRemote /\ remote[r] \in RemoteRecords
    <2>1. r \notin Range(rs)
        BY <1>6 DEF Range
    <2>2. remote[r] = FreeRemote
        BY <1>1, <2>1
    <2> QED
        BY <1>3, <2>2 DEF FreeRemote, RemoteRecords
<1>7. ASSUME NEW i \in 1 .. nPeers
      PROVE  /\ remote[rs[i]] = [refcnt |-> 1, pubkey |-> pks[i], arg |-> i, enabled |-> TRUE]
             /\ remote[rs[i]] \in RemoteRecords
    <2>1. rs[i] \in Range(rs) /\ rs[i] \in Remotes
        BY DEF Range
    <2>2. (CHOOSE j \in 1 .. nPeers : rs[j] = rs[i]) = i
        BY <1>4
    <2>3. remote[rs[i]] = [refcnt |-> 1, pubkey |-> pks[i], arg |-> i, enabled |-> TRUE]
        BY <1>1, <2>1, <2>2
    <2>4. i \in 0 .. MaxPeers /\ pks[i] \in PublicKeys
        BY <1>3
    <2> QED
        BY <2>3, <2>4 DEF RemoteRecords
<1>8. peers \in [Slots -> PeerRecords]
    BY <1>1, <1>5
<1>9. remote \in [Remotes -> RemoteRecords]
    <2>1. \A r \in Remotes : remote[r] \in RemoteRecords
        BY <1>6, <1>7
    <2> QED
        BY <1>1, <2>1
<1>10. \A i \in 1 .. nPeers : LET r == remote[rs[i]] IN
          r.refcnt = 1 /\ r.pubkey = pks[i] /\ r.arg = i /\ r.enabled
    <2> SUFFICES ASSUME NEW i \in 1 .. nPeers, NEW r, r = remote[rs[i]]
                 PROVE  r.refcnt = 1 /\ r.pubkey = pks[i] /\ r.arg = i /\ r.enabled
        OBVIOUS
    <2>1. r = [refcnt |-> 1, pubkey |-> pks[i], arg |-> i, enabled |-> TRUE]
        BY <1>7
    <2> QED
        BY <2>1
<1>11. \A i \in Slots : IF i > nPeers THEN peers[i] = EmptyPeer ELSE
          /\ i \in 1 .. nPeers
          /\ peers[i].active /\ peers[i].configured /\ peers[i].pubkey = pks[i]
          /\ peers[i].remote = rs[i] /\ peers[i].allowed = als[i]
    BY <1>5
<1>12. \A r \in Remotes : (\A i \in 1 .. nPeers : rs[i] # r) => remote[r] = FreeRemote
    BY <1>6
<1>13. /\ pks \in [1..nPeers -> PublicKeys] /\ rs \in [1..nPeers -> Remotes]
       /\ als \in [1..nPeers -> BoundedSeq(Cidrs, MaxAllowed)]
    OBVIOUS
<1>14. ConfiguredAs(pks, rs, als)
    BY <1>2, <1>4, <1>8, <1>9, <1>10, <1>11, <1>12, <1>13, Zenon DEF ConfiguredAs
<1> QED
    BY <1>14

LEMMA TableInitially == Init => TableInv
<1> SUFFICES ASSUME Init PROVE TableInv
    OBVIOUS
<1>1. PICK pks, rs, als : ConfiguredAs(pks, rs, als)
    BY InitForm
<1>2. /\ MaxPeers \in Nat /\ nPeers \in Nat /\ nPeers \in 0 .. MaxPeers
      /\ NULL \notin Remotes /\ 0 \in 0 .. nPeers /\ 1 .. nPeers \subseteq Slots
    BY <1>1, PeerTableAssumption DEF ConfiguredAs, Slots
<1>4. \A i \in Slots : peers[i].remote # NULL =>
          i \in 1 .. nPeers /\ peers[i].remote = rs[i] /\ peers[i].pubkey = pks[i]
    BY <1>1, EmptyPeerTyped DEF ConfiguredAs
<1>5. \A i \in 1 .. nPeers : peers[i].remote = rs[i] /\ rs[i] \in Remotes
    BY <1>1, <1>2 DEF ConfiguredAs
<1>6. \A r : Holders(r) = {} \/ r = NULL
    BY <1>1 DEF ConfiguredAs, Holders
<1>7. TableTypes
    BY <1>1, <1>2 DEF ConfiguredAs, TableTypes
<1>8. SlotsSound
    <2>1. \A i \in Slots : peers[i].active => i <= nPeers /\ peers[i].configured
        BY <1>1, <1>2, EmptyPeerTyped DEF ConfiguredAs
    <2>2. \A i \in Slots : ~peers[i].active => peers[i] = EmptyPeer
        BY <1>1 DEF ConfiguredAs
    <2> QED
        BY <1>1, <2>1, <2>2 DEF ConfiguredAs, SlotsSound
<1>9. RemotesSound
    <2>1. \A i, j \in Slots :
              peers[i].remote # NULL /\ peers[i].remote = peers[j].remote => i = j
        BY <1>1, <1>4 DEF ConfiguredAs
    <2>2. \A i \in Slots : peers[i].remote # NULL =>
              LET r == remote[peers[i].remote] IN
              r.enabled /\ r.pubkey = peers[i].pubkey /\ r.arg = i
        BY <1>1, <1>4 DEF ConfiguredAs
    <2>3. \A r \in Remotes : remote[r].enabled => Owned(r)
        <3>1. ~FreeRemote.enabled
            BY DEF FreeRemote
        <3>2. \A r \in Remotes : remote[r].enabled => \E i \in 1 .. nPeers : rs[i] = r
            BY <1>1, <3>1 DEF ConfiguredAs
        <3> QED
            BY <1>2, <1>5, <3>2 DEF Owned
    <2> QED
        BY <2>1, <2>2, <2>3 DEF RemotesSound
<1>10. RefsExact
    <2> SUFFICES ASSUME NEW r \in Remotes
                 PROVE  remote[r].refcnt = IF Owned(r) THEN 1 ELSE 0
        BY <1>2, <1>6, FS_EmptySet DEF RefsExact
    <2>1. CASE Owned(r)
        BY <1>1, <1>2, <1>4, <2>1 DEF ConfiguredAs, Owned
    <2>2. CASE ~Owned(r)
        <3>1. \A i \in 1 .. nPeers : rs[i] # r
            BY <1>2, <1>5, <2>2 DEF Owned
        <3> QED
            BY <1>1, <2>2, <3>1 DEF ConfiguredAs, FreeRemote
    <2> QED
        BY <2>1, <2>2
<1>11. TriesCurrent
    BY <1>1 DEF ConfiguredAs, TriesCurrent
<1> QED
    BY <1>7, <1>8, <1>9, <1>10, <1>11 DEF TableInv

\* Steps that leave every slot its peer and every reference in place.
LEMMA SamePeersKeep ==
    ASSUME TableInv, UNCHANGED <<remote, keypair, nPeers>>,
           peers' \in [Slots -> PeerRecords],
           \A i \in Slots :
              /\ peers'[i].active <=> peers[i].active
              /\ peers'[i].pubkey = peers[i].pubkey
              /\ peers'[i].remote = peers[i].remote
              /\ peers'[i].configured <=> peers[i].configured
              /\ ~peers[i].active => peers'[i] = peers[i],
           cur' \in 0 .. nPeers,
           cur' # 0 => busy' /\ peers[cur'].active
    PROVE  TableTypes' /\ SlotsSound' /\ RemotesSound' /\ RefsExact'
<1>1. TableTypes'
    BY DEF TableInv, TableTypes, PeerRecords
<1>2. SlotsSound'
    <2>1. cur' # 0 => cur' \in Slots
        BY PeerTableAssumption DEF TableInv, TableTypes, Slots
    <2> QED
        BY <2>1 DEF TableInv, SlotsSound
<1>3. \A r : (Owned(r)' <=> Owned(r)) /\ Holders(r)' = Holders(r)
    BY DEF Owned, Holders
<1>4. RemotesSound'
    BY <1>3 DEF TableInv, RemotesSound
<1>5. RefsExact'
    BY <1>3 DEF TableInv, RefsExact
<1> QED
    BY <1>1, <1>2, <1>4, <1>5

LEMMA FinishKeepsTries ==
    ASSUME UNCHANGED <<peers, nPeers>>, trie' = Rebuilt(peers)
    PROVE  TriesCurrent'
    BY DEF TriesCurrent, Rebuilt, Owners, HasNode

LEMMA LinesKeep ==
    ASSUME TableInv,
           \/ Begin \/ End \/ LineUnsupported \/ LineAllowedTooMany
           \/ \E pk \in PublicKeys : LinePublicKeyKnown(pk) \/ LinePublicKeyNoSlot(pk)
    PROVE  TableInv'
<1>1. UNCHANGED <<peers, nPeers, remote, keypair>>
    BY DEF Begin, End, LineUnsupported, LineAllowedTooMany, LinePublicKeyKnown,
           LinePublicKeyNoSlot, noiseVars
<1>2. nPeers \in Nat /\ 1 .. nPeers \subseteq Slots
    BY PeerTableAssumption DEF TableInv, TableTypes, Slots
<1>3. CASE \E pk \in PublicKeys : LinePublicKeyKnown(pk)
    <2>1. PICK pk \in PublicKeys : LinePublicKeyKnown(pk)
        BY <1>3
    <2>2. Matches(pk) \subseteq Nat /\ Matches(pk) # {}
        BY <1>2, <2>1 DEF Matches, LinePublicKeyKnown
    <2>3. cur' \in Matches(pk) /\ busy' = busy /\ busy = TRUE
        BY <2>1, <2>2, MinOfNat DEF LinePublicKeyKnown
    <2>4. cur' \in 1 .. nPeers /\ peers[cur'].active
        BY <2>3 DEF Matches
    <2>5. cur' \in 0 .. nPeers
        BY <2>4
    <2>6. TriesCurrent'
        BY <2>3 DEF TriesCurrent
    <2> QED
        BY <1>1, <2>3, <2>4, <2>5, <2>6, SamePeersKeep DEF TableInv, TableTypes, PeerRecords
<1>4. CASE \/ Begin \/ End \/ LineUnsupported \/ LineAllowedTooMany
           \/ \E pk \in PublicKeys : LinePublicKeyNoSlot(pk)
    <2>1. cur' = 0 /\ (busy' \/ trie' = Rebuilt(peers))
        BY <1>4 DEF Begin, End, LineUnsupported, LineAllowedTooMany, LinePublicKeyNoSlot, Finish
    <2>2. cur' \in 0 .. nPeers
        BY <1>2, <2>1
    <2>3. TriesCurrent'
        BY <1>1, <2>1, FinishKeepsTries DEF TriesCurrent
    <2> QED
        BY <1>1, <2>1, <2>2, <2>3, SamePeersKeep DEF TableInv, TableTypes, PeerRecords
<1> QED
    BY <1>3, <1>4

LEMMA AllowedKeeps ==
    ASSUME TableInv, LineReplaceAllowed \/ \E c \in Cidrs : LineAllowed(c)
    PROVE  TableInv'
<1>1. /\ busy /\ busy' = busy /\ cur # 0 /\ cur' = cur
      /\ UNCHANGED <<remote, keypair, nPeers>>
    BY DEF LineReplaceAllowed, LineAllowed, noiseVars
<1>2. cur \in Slots /\ peers[cur].active /\ peers \in [Slots -> PeerRecords]
      /\ cur \in 0 .. nPeers
    BY <1>1, PeerTableAssumption DEF TableInv, TableTypes, SlotsSound, Slots, PeerRecords
<1>3. PICK l \in Seq(Cidrs) : peers' = [peers EXCEPT ![cur] = [peers[cur] EXCEPT !.allowed = l]]
    <2>1. CASE LineReplaceAllowed
        BY <2>1, EmptySeq DEF LineReplaceAllowed
    <2>2. CASE \E c \in Cidrs : LineAllowed(c)
        <3>1. PICK c \in Cidrs : LineAllowed(c)
            BY <2>2
        <3>2. peers[cur].allowed \in Seq(Cidrs)
            BY <1>2 DEF PeerRecords
        <3>3. Append(peers[cur].allowed, c) \in Seq(Cidrs)
            BY <3>2
        <3> QED
            BY <3>1, <3>3 DEF LineAllowed
    <2> QED
        BY <2>1, <2>2
<1>4. [peers[cur] EXCEPT !.allowed = l] \in PeerRecords
    BY <1>2 DEF PeerRecords
<1>5. /\ [peers[cur] EXCEPT !.allowed = l].active <=> peers[cur].active
      /\ [peers[cur] EXCEPT !.allowed = l].pubkey = peers[cur].pubkey
      /\ [peers[cur] EXCEPT !.allowed = l].remote = peers[cur].remote
      /\ [peers[cur] EXCEPT !.allowed = l].configured <=> peers[cur].configured
    BY <1>2 DEF PeerRecords
<1>6. peers' \in [Slots -> PeerRecords]
    BY <1>2, <1>3, <1>4
<1>7. \A i \in Slots :
          /\ peers'[i].active <=> peers[i].active
          /\ peers'[i].pubkey = peers[i].pubkey
          /\ peers'[i].remote = peers[i].remote
          /\ peers'[i].configured <=> peers[i].configured
          /\ ~peers[i].active => peers'[i] = peers[i]
    BY <1>2, <1>3, <1>5
<1>8. TriesCurrent'
    BY <1>1 DEF TriesCurrent
<1> QED
    BY <1>1, <1>2, <1>6, <1>7, <1>8, SamePeersKeep DEF TableInv

\* A free slot, behind or at the end of the ones in use.
LEMMA SlotToUseFree ==
    ASSUME TableInv, NEW i \in SlotToUse
    PROVE  /\ i \in Slots /\ i \in 1 .. MaxPeers /\ i <= nPeers + 1
           /\ ~peers[i].active /\ peers[i] = EmptyPeer
<1>1. nPeers \in 0 .. MaxPeers /\ MaxPeers \in Nat
    BY PeerTableAssumption DEF TableInv, TableTypes
<1>2. CASE Tombstones # {}
    <2>1. Tombstones \subseteq Nat
        BY <1>1 DEF Tombstones
    <2>2. i \in Tombstones
        BY <1>2, <2>1, MinOfNat DEF SlotToUse
    <2>3. i \in 1 .. nPeers /\ ~peers[i].active
        BY <2>2 DEF Tombstones
    <2> QED
        BY <1>1, <2>3 DEF TableInv, SlotsSound, Slots
<1>3. CASE Tombstones = {}
    <2>1. i = nPeers + 1 /\ nPeers < MaxPeers
        BY <1>3 DEF SlotToUse
    <2>2. i \in Slots /\ ~(i <= nPeers)
        BY <1>1, <2>1 DEF Slots
    <2> QED
        BY <1>1, <2>1, <2>2 DEF TableInv, SlotsSound, Slots
<1> QED
    BY <1>2, <1>3

IsNewPeer(p, pk, r) ==
    /\ p \in PeerRecords
    /\ p.active /\ p.pubkey = pk /\ p.remote = r /\ p.allowed = <<>>

LEMMA NewPeerForm ==
    ASSUME NEW pk \in PublicKeys, NEW r \in Remotes \cup {NULL}
    PROVE  /\ IsNewPeer([EmptyPeer EXCEPT !.active = TRUE, !.pubkey = pk, !.remote = r], pk, r)
           /\ IsNewPeer([EmptyPeer EXCEPT !.active = TRUE, !.pubkey = pk], pk, NULL)
<1>1. <<>> \in Seq(Cidrs)
    BY EmptySeq
<1> QED
    BY <1>1 DEF EmptyPeer, PeerRecords, IsNewPeer

FillsSlot(i, new, pk, r) ==
    /\ i \in SlotToUse /\ Matches(pk) = {} /\ IsNewPeer(new, pk, r)
    /\ peers' = [peers EXCEPT ![i] = new]
    /\ nPeers' = IF i > nPeers THEN i ELSE nPeers
    /\ cur' \in {0, i} /\ (cur' # 0 => busy')

\* What a new peer, with a noise_remote or without, does to the slots.
LEMMA NewSlotKeeps ==
    ASSUME TableInv, NEW pk, NEW r, NEW i, NEW new, FillsSlot(i, new, pk, r)
    PROVE  /\ peers' \in [Slots -> PeerRecords]
           /\ nPeers' \in 0 .. MaxPeers /\ cur' \in 0 .. nPeers'
           /\ SlotsSound'
           /\ peers'[i].pubkey = pk /\ peers'[i].remote = r
           /\ peers[i].remote = NULL /\ peers[i].allowed = <<>> /\ peers'[i].allowed = <<>>
           /\ \A j \in Slots : j # i => peers'[j] = peers[j]
<1>1. /\ i \in Slots /\ i \in 1 .. MaxPeers /\ i <= nPeers + 1
      /\ ~peers[i].active /\ peers[i] = EmptyPeer
    BY SlotToUseFree DEF FillsSlot
<1>2. nPeers \in 0 .. MaxPeers /\ MaxPeers \in Nat /\ peers \in [Slots -> PeerRecords]
    BY PeerTableAssumption DEF TableInv, TableTypes
<1>3. /\ new \in PeerRecords /\ new.active /\ new.pubkey = pk /\ new.remote = r
      /\ new.allowed = <<>>
    BY DEF FillsSlot, IsNewPeer
<1>4. /\ peers' = [peers EXCEPT ![i] = new] /\ Matches(pk) = {}
      /\ nPeers' = IF i > nPeers THEN i ELSE nPeers
      /\ cur' \in {0, i} /\ (cur' # 0 => busy')
    BY DEF FillsSlot
<1>5. peers'[i] = new /\ \A j \in Slots : j # i => peers'[j] = peers[j]
    BY <1>1, <1>2, <1>4
<1>6. peers' \in [Slots -> PeerRecords]
    BY <1>2, <1>3, <1>4
<1>7. /\ nPeers' \in 0 .. MaxPeers /\ i <= nPeers' /\ nPeers <= nPeers'
      /\ cur' \in 0 .. nPeers'
    BY <1>1, <1>2, <1>4
<1>8. ASSUME NEW j \in Slots, peers[j].active
      PROVE  peers[j].pubkey # pk /\ j <= nPeers'
    <2>1. j <= nPeers /\ j \in 1 .. nPeers
        BY <1>2, <1>8 DEF TableInv, SlotsSound, Slots
    <2> QED
        BY <1>2, <1>4, <1>7, <1>8, <2>1 DEF Matches
<1>9. SlotsSound'
    <2>1. cur' # 0 => busy' /\ peers'[cur'].active
        BY <1>3, <1>4, <1>5
    <2>2. \A j \in Slots : peers'[j].active => j <= nPeers'
        BY <1>5, <1>7, <1>8
    <2>3. \A j \in Slots : ~peers'[j].active => peers'[j] = EmptyPeer
        BY <1>3, <1>5 DEF TableInv, SlotsSound
    <2>4. \A j, k \in Slots :
              peers'[j].active /\ peers'[k].active /\ peers'[j].pubkey = peers'[k].pubkey
                 => j = k \/ (peers'[j].configured /\ peers'[k].configured)
        BY <1>3, <1>5, <1>8 DEF TableInv, SlotsSound
    <2> QED
        BY <2>1, <2>2, <2>3, <2>4 DEF SlotsSound
<1>10. peers[i].remote = NULL /\ peers[i].allowed = <<>>
    BY <1>1 DEF EmptyPeer
<1> QED
    BY <1>3, <1>5, <1>6, <1>7, <1>9, <1>10

LEMMA NewPeerKeeps ==
    ASSUME TableInv, NEW pk \in PublicKeys, NEW r \in Remotes, LinePublicKeyNew(pk, r)
    PROVE  TableInv'
<1>1. PICK i \in SlotToUse :
          /\ peers' = [peers EXCEPT ![i] =
                 [EmptyPeer EXCEPT !.active = TRUE, !.pubkey = pk, !.remote = r]]
          /\ nPeers' = IF i > nPeers THEN i ELSE nPeers
          /\ remote' = [remote EXCEPT ![r] =
                 [refcnt |-> 1, pubkey |-> pk, arg |-> i, enabled |-> TRUE]]
          /\ cur' = i
    BY DEF LinePublicKeyNew
<1>2. /\ busy /\ busy' = busy /\ Matches(pk) = {} /\ remote[r].refcnt = 0
      /\ UNCHANGED keypair
    BY DEF LinePublicKeyNew
<1>3. i \in Slots /\ i \in 1 .. MaxPeers
    BY <1>1, SlotToUseFree
<1>4. /\ peers' \in [Slots -> PeerRecords] /\ nPeers' \in 0 .. MaxPeers
      /\ cur' \in 0 .. nPeers' /\ SlotsSound'
      /\ peers'[i].pubkey = pk /\ peers'[i].remote = r /\ peers[i].remote = NULL
      /\ \A j \in Slots : j # i => peers'[j] = peers[j]
    <2> DEFINE new == [EmptyPeer EXCEPT !.active = TRUE, !.pubkey = pk, !.remote = r]
    <2>1. IsNewPeer(new, pk, r)
        BY NewPeerForm
    <2>2. FillsSlot(i, new, pk, r)
        BY <1>1, <1>2, <2>1 DEF FillsSlot
    <2> HIDE DEF new
    <2> QED
        BY <2>2, NewSlotKeeps
<1>5. remote \in [Remotes -> RemoteRecords] /\ NULL \notin Remotes /\ MaxPeers \in Nat
    BY PeerTableAssumption DEF TableInv, TableTypes
<1> DEFINE rec == [refcnt |-> 1, pubkey |-> pk, arg |-> i, enabled |-> TRUE]
<1>6. /\ rec \in RemoteRecords /\ rec.refcnt = 1 /\ rec.pubkey = pk /\ rec.arg = i
      /\ rec.enabled
    BY <1>3, <1>5 DEF RemoteRecords
<1>7. remote' = [remote EXCEPT ![r] = rec]
    BY <1>1
<1> HIDE DEF rec
<1>8. /\ remote' \in [Remotes -> RemoteRecords] /\ remote'[r] = rec
      /\ \A q \in Remotes : q # r => remote'[q] = remote[q]
    BY <1>5, <1>6, <1>7
<1>9. \A q : Holders(q)' = Holders(q)
    BY <1>2 DEF Holders
<1>10. Cardinality(Holders(r)) = 0 /\ \A j \in Slots : peers[j].remote # r
    <2>1. Cardinality(Holders(r)) \in Nat
        BY HoldersCounted
    <2>2. 0 = Cardinality(Holders(r)) + (IF Owned(r) THEN 1 ELSE 0)
        BY <1>2 DEF TableInv, RefsExact
    <2>3. Cardinality(Holders(r)) = 0 /\ ~Owned(r)
        BY <2>1, <2>2
    <2> QED
        BY <2>3 DEF Owned
<1>11. Owned(r)' /\ \A q \in Remotes : q # r => (Owned(q)' <=> Owned(q))
    BY <1>3, <1>4, <1>5 DEF Owned
<1>12. TableTypes'
    BY <1>2, <1>4, <1>8 DEF TableInv, TableTypes
<1>13. RemotesSound'
    <2>1. \A j, k \in Slots :
              peers'[j].remote # NULL /\ peers'[j].remote = peers'[k].remote => j = k
        BY <1>4, <1>10 DEF TableInv, RemotesSound
    <2>2. ASSUME NEW j \in Slots, peers'[j].remote # NULL
          PROVE  /\ remote'[peers'[j].remote].enabled
                 /\ remote'[peers'[j].remote].pubkey = peers'[j].pubkey
                 /\ remote'[peers'[j].remote].arg = j
        <3>1. CASE j = i
            BY <1>4, <1>6, <1>8, <3>1
        <3>2. CASE j # i
            <4>1. peers'[j] = peers[j] /\ peers[j].remote \in Remotes /\ peers[j].remote # r
                BY <1>4, <1>10, <2>2, <3>2 DEF TableInv, TableTypes, PeerRecords
            <4> QED
                BY <1>8, <2>2, <4>1 DEF TableInv, RemotesSound
        <3> QED
            BY <3>1, <3>2
    <2>3. \A q \in Remotes : remote'[q].enabled => Owned(q)'
        BY <1>8, <1>11 DEF TableInv, RemotesSound
    <2> QED
        BY <2>1, <2>2, <2>3 DEF RemotesSound
<1>14. RefsExact'
    <2> SUFFICES ASSUME NEW q \in Remotes
                 PROVE  remote'[q].refcnt = Cardinality(Holders(q)') + (IF Owned(q)' THEN 1 ELSE 0)
        BY DEF RefsExact
    <2>1. CASE q = r
        BY <1>6, <1>8, <1>9, <1>10, <1>11, <2>1
    <2>2. CASE q # r
        BY <1>8, <1>9, <1>11, <2>2 DEF TableInv, RefsExact
    <2> QED
        BY <2>1, <2>2
<1>15. TriesCurrent'
    BY <1>2 DEF TriesCurrent
<1> QED
    BY <1>4, <1>12, <1>13, <1>14, <1>15 DEF TableInv

\* Without memory for a noise_remote the slot lists nothing, so that growing the
\* array after the tries were rebuilt makes no difference.
LEMMA NoMemoryKeeps ==
    ASSUME TableInv, NEW pk \in PublicKeys, LinePublicKeyNoMemory(pk)
    PROVE  TableInv'
<1>1. PICK i \in SlotToUse :
          /\ peers' = [peers EXCEPT ![i] = [EmptyPeer EXCEPT !.active = TRUE, !.pubkey = pk]]
          /\ nPeers' = IF i > nPeers THEN i ELSE nPeers
          /\ Finish(peers')
    BY DEF LinePublicKeyNoMemory
<1>2. /\ busy /\ Matches(pk) = {} /\ UNCHANGED <<remote, keypair>>
      /\ cur' = 0 /\ trie' = Rebuilt(peers')
    BY <1>1 DEF LinePublicKeyNoMemory, noiseVars, Finish
<1>3. /\ i \in Slots /\ i \in 1 .. MaxPeers /\ i <= nPeers + 1 /\ nPeers \in Nat
      /\ nPeers \in 0 .. MaxPeers
    BY <1>1, SlotToUseFree, PeerTableAssumption DEF TableInv, TableTypes
<1> DEFINE new == [EmptyPeer EXCEPT !.active = TRUE, !.pubkey = pk]
<1>4. FillsSlot(i, new, pk, NULL)
    <2>1. NULL \in Remotes \cup {NULL}
        OBVIOUS
    <2>2. IsNewPeer(new, pk, NULL)
        BY <2>1, NewPeerForm
    <2> QED
        BY <1>1, <1>2, <2>2 DEF FillsSlot
<1> HIDE DEF new
<1>5. /\ peers' \in [Slots -> PeerRecords] /\ nPeers' \in 0 .. MaxPeers
      /\ cur' \in 0 .. nPeers' /\ SlotsSound'
      /\ peers'[i].remote = NULL /\ peers[i].remote = NULL
      /\ peers'[i].allowed = <<>>
      /\ \A j \in Slots : j # i => peers'[j] = peers[j]
    BY <1>4, NewSlotKeeps
<1>6. TableTypes'
    BY <1>2, <1>5 DEF TableInv, TableTypes
<1>7. \A q : Holders(q)' = Holders(q) /\ (q # NULL => (Owned(q)' <=> Owned(q)))
    BY <1>2, <1>3, <1>5 DEF Holders, Owned
<1>8. NULL \notin Remotes
    BY PeerTableAssumption
<1>9. RemotesSound'
    BY <1>2, <1>5, <1>7, <1>8 DEF TableInv, RemotesSound
<1>10. RefsExact'
    BY <1>2, <1>7, <1>8 DEF TableInv, RefsExact
<1>11. TriesCurrent'
    <2>1. \A c : ~Lists(peers'[i], c)
        BY <1>5 DEF Lists, Range
    <2>2. \A j : j \in 1 .. nPeers' => j \in 1 .. nPeers \/ j = i
        BY <1>1, <1>3
    <2>3. 1 .. nPeers \subseteq 1 .. nPeers'
        BY <1>1, <1>3
    <2>4. \A c : Owners(peers, c)' = Owners(peers', c)
        BY <2>1, <2>2, <2>3 DEF Owners
    <2>5. \A c : HasNode(peers, c)' <=> HasNode(peers', c)
        BY <2>1, <2>2, <2>3 DEF HasNode
    <2>6. Rebuilt(peers)' = Rebuilt(peers')
        BY <2>4, <2>5 DEF Rebuilt
    <2> QED
        BY <1>2, <2>6 DEF TriesCurrent
<1> QED
    BY <1>5, <1>6, <1>9, <1>10, <1>11 DEF TableInv

LEMMA ReleasedTyped ==
    ASSUME NEW rec \in RemoteRecords, rec.refcnt # 0
    PROVE  /\ Released(rec) \in RemoteRecords
           /\ Released(rec).refcnt = rec.refcnt - 1 /\ ~Released(rec).enabled
<1>1. rec.refcnt \in Nat /\ rec.refcnt - 1 \in Nat /\ 0 \in 0 .. MaxPeers
    BY PeerTableAssumption DEF RemoteRecords
<1>2. CASE rec.refcnt = 1
    BY <1>1, <1>2 DEF Released, FreeRemote, RemoteRecords
<1>3. CASE rec.refcnt # 1
    BY <1>1, <1>3 DEF Released, RemoteRecords
<1> QED
    BY <1>2, <1>3

LEMMA RemoveKeeps ==
    ASSUME TableInv, LineRemove
    PROVE  TableInv'
<1> PICK r : r = peers[cur].remote
    OBVIOUS
<1>1. /\ busy /\ busy' = busy /\ cur # 0 /\ cur' = 0
      /\ UNCHANGED <<nPeers, keypair>>
      /\ peers' = [peers EXCEPT ![cur] = EmptyPeer]
      /\ remote' = [q \in Remotes |-> IF q = r THEN Released(remote[q]) ELSE remote[q]]
    BY DEF LineRemove
<1>2. /\ cur \in Slots /\ peers \in [Slots -> PeerRecords] /\ nPeers \in 0 .. MaxPeers
      /\ remote \in [Remotes -> RemoteRecords] /\ NULL \notin Remotes /\ MaxPeers \in Nat
    BY <1>1, PeerTableAssumption DEF TableInv, TableTypes, Slots
<1>3. peers'[cur] = EmptyPeer /\ \A j \in Slots : j # cur => peers'[j] = peers[j]
    BY <1>1, <1>2
<1>4. \A q : Holders(q)' = Holders(q)
    BY <1>1 DEF Holders
<1>5. \A j \in Slots : j # cur /\ peers[j].remote # NULL => peers[j].remote # r
    BY <1>2 DEF TableInv, RemotesSound
<1>6. ASSUME r \in Remotes
      PROVE  /\ Owned(r) /\ ~Owned(r)'
             /\ remote'[r] \in RemoteRecords
             /\ remote'[r].refcnt = Cardinality(Holders(r)) /\ ~remote'[r].enabled
    <2>1. Owned(r)
        BY <1>2 DEF Owned
    <2>2. ~Owned(r)'
        BY <1>2, <1>3, <1>5, <1>6, EmptyPeerTyped DEF Owned
    <2>3. Cardinality(Holders(r)) \in Nat
        BY HoldersCounted
    <2>4. remote[r].refcnt = Cardinality(Holders(r)) + 1
        BY <1>6, <2>1 DEF TableInv, RefsExact
    <2>5. /\ Released(remote[r]) \in RemoteRecords
          /\ Released(remote[r]).refcnt = remote[r].refcnt - 1 /\ ~Released(remote[r]).enabled
        <3>1. remote[r].refcnt # 0 /\ remote[r] \in RemoteRecords
            BY <1>2, <1>6, <2>3, <2>4
        <3> QED
            BY <3>1, ReleasedTyped
    <2>6. remote'[r] = Released(remote[r])
        BY <1>1, <1>6
    <2>7. remote'[r].refcnt = Cardinality(Holders(r))
        BY <2>3, <2>4, <2>5, <2>6
    <2> QED
        BY <2>1, <2>2, <2>5, <2>6, <2>7
<1>7. \A q \in Remotes : q # r => remote'[q] = remote[q] /\ (Owned(q)' <=> Owned(q))
    BY <1>1, <1>2, <1>3, EmptyPeerTyped DEF Owned
<1>8. TableTypes'
    <2>1. remote' \in [Remotes -> RemoteRecords]
        <3>1. \A q \in Remotes : remote'[q] \in RemoteRecords
            BY <1>2, <1>6, <1>7
        <3> QED
            BY <1>1, <3>1
    <2>2. peers' \in [Slots -> PeerRecords]
        BY <1>1, <1>2, EmptyPeerTyped
    <2>3. cur' \in 0 .. nPeers'
        BY <1>1, <1>2
    <2> QED
        BY <1>1, <2>1, <2>2, <2>3 DEF TableInv, TableTypes
<1>9. SlotsSound'
    BY <1>1, <1>3, EmptyPeerTyped DEF TableInv, SlotsSound
<1>10. RemotesSound'
    <2>1. \A j, k \in Slots :
              peers'[j].remote # NULL /\ peers'[j].remote = peers'[k].remote => j = k
        BY <1>3, EmptyPeerTyped DEF TableInv, RemotesSound
    <2>2. ASSUME NEW j \in Slots, peers'[j].remote # NULL
          PROVE  /\ remote'[peers'[j].remote].enabled
                 /\ remote'[peers'[j].remote].pubkey = peers'[j].pubkey
                 /\ remote'[peers'[j].remote].arg = j
        <3>1. j # cur /\ peers'[j] = peers[j]
            BY <1>3, <2>2, EmptyPeerTyped
        <3>2. peers[j].remote \in Remotes /\ peers[j].remote # r
            BY <1>2, <1>5, <2>2, <3>1 DEF PeerRecords
        <3> QED
            BY <1>7, <2>2, <3>1, <3>2 DEF TableInv, RemotesSound
    <2>3. \A q \in Remotes : remote'[q].enabled => Owned(q)'
        BY <1>6, <1>7 DEF TableInv, RemotesSound
    <2> QED
        BY <2>1, <2>2, <2>3 DEF RemotesSound
<1>11. RefsExact'
    <2> SUFFICES ASSUME NEW q \in Remotes
                 PROVE  remote'[q].refcnt = Cardinality(Holders(q)') + (IF Owned(q)' THEN 1 ELSE 0)
        BY DEF RefsExact
    <2>1. CASE q = r
        <3>1. Cardinality(Holders(q)) \in Nat
            BY HoldersCounted
        <3> QED
            BY <1>4, <1>6, <2>1, <3>1
    <2>2. CASE q # r
        BY <1>4, <1>7, <2>2 DEF TableInv, RefsExact
    <2> QED
        BY <2>1, <2>2
<1>12. TriesCurrent'
    BY <1>1 DEF TriesCurrent
<1> QED
    BY <1>8, <1>9, <1>10, <1>11, <1>12 DEF TableInv

\* A keypair that takes or drops its reference to the remote r.
LEMMA ReferenceKeeps ==
    ASSUME TableInv, NEW r \in Remotes, NEW k \in Keypairs, NEW n \in Nat,
           UNCHANGED <<peers, nPeers, trie, cur, busy>>,
           remote' = [remote EXCEPT ![r] = [remote[r] EXCEPT !.refcnt = n]],
           \/ /\ keypair[k] = NULL /\ keypair' = [keypair EXCEPT ![k] = r]
              /\ n = remote[r].refcnt + 1
           \/ /\ keypair[k] = r /\ keypair' = [keypair EXCEPT ![k] = NULL]
              /\ n = remote[r].refcnt - 1
    PROVE  TableInv'
<1>1. /\ remote \in [Remotes -> RemoteRecords] /\ NULL \notin Remotes
      /\ keypair \in [Keypairs -> Remotes \cup {NULL}]
    BY PeerTableAssumption DEF TableInv, TableTypes
<1>2. PICK rec : rec = [remote[r] EXCEPT !.refcnt = n]
    OBVIOUS
<1>3. /\ rec \in RemoteRecords /\ rec.refcnt = n /\ rec.pubkey = remote[r].pubkey
      /\ rec.arg = remote[r].arg /\ (rec.enabled <=> remote[r].enabled)
    BY <1>1, <1>2 DEF RemoteRecords
<1>4. /\ remote' \in [Remotes -> RemoteRecords] /\ remote'[r] = rec
      /\ \A q \in Remotes : q # r => remote'[q] = remote[q]
    BY <1>1, <1>2, <1>3
<1>5. \A q : Owned(q)' <=> Owned(q)
    BY DEF Owned
<1>6. TableTypes'
    BY <1>1, <1>4 DEF TableInv, TableTypes
<1>7. SlotsSound'
    BY DEF TableInv, SlotsSound
<1>8. RemotesSound'
    <2>1. \A q \in Remotes :
              /\ remote'[q].enabled <=> remote[q].enabled
              /\ remote'[q].pubkey = remote[q].pubkey /\ remote'[q].arg = remote[q].arg
        BY <1>3, <1>4
    <2>2. \A j \in Slots : peers[j].remote # NULL => peers[j].remote \in Remotes
        BY DEF TableInv, TableTypes, PeerRecords
    <2> QED
        BY <1>5, <2>1, <2>2 DEF TableInv, RemotesSound
<1>9. \A q \in Remotes : q # r => Holders(q)' = Holders(q)
    BY <1>1 DEF Holders
<1>10. n = Cardinality(Holders(r)') + (IF Owned(r) THEN 1 ELSE 0)
    <2>1. /\ IsFiniteSet(Holders(r)) /\ Cardinality(Holders(r)) \in Nat
          /\ remote[r].refcnt = Cardinality(Holders(r)) + (IF Owned(r) THEN 1 ELSE 0)
        BY HoldersCounted DEF TableInv, RefsExact
    <2>2. CASE /\ keypair[k] = NULL /\ keypair' = [keypair EXCEPT ![k] = r]
               /\ n = remote[r].refcnt + 1
        <3>1. Holders(r)' = Holders(r) \cup {k} /\ k \notin Holders(r)
            BY <1>1, <2>2 DEF Holders
        <3>2. Cardinality(Holders(r)') = Cardinality(Holders(r)) + 1
            BY <2>1, <3>1, FS_AddElement, ZenonT(60)
        <3> QED
            BY <2>1, <2>2, <3>2
    <2>3. CASE /\ keypair[k] = r /\ keypair' = [keypair EXCEPT ![k] = NULL]
               /\ n = remote[r].refcnt - 1
        <3>1. Holders(r)' = Holders(r) \ {k} /\ k \in Holders(r)
            BY <1>1, <2>3 DEF Holders
        <3>2. Cardinality(Holders(r)') = Cardinality(Holders(r)) - 1
            BY <2>1, <3>1, FS_RemoveElement, ZenonT(60)
        <3> QED
            BY <2>1, <2>3, <3>2
    <2> QED
        BY <2>2, <2>3
<1>11. RefsExact'
    <2> SUFFICES ASSUME NEW q \in Remotes
                 PROVE  remote'[q].refcnt = Cardinality(Holders(q)') + (IF Owned(q)' THEN 1 ELSE 0)
        BY DEF RefsExact
    <2>1. CASE q = r
        BY <1>3, <1>4, <1>5, <1>10, <2>1
    <2>2. CASE q # r
        BY <1>4, <1>5, <1>9, <2>2 DEF TableInv, RefsExact
    <2> QED
        BY <2>1, <2>2
<1>12. TriesCurrent'
    BY DEF TableInv, TriesCurrent, Rebuilt, Owners, HasNode
<1> QED
    BY <1>6, <1>7, <1>8, <1>11, <1>12 DEF TableInv

LEMMA HandshakesKeep ==
    ASSUME TableInv, NEW i \in Slots,
           HandshakeStarts(i) \/ \E k \in Keypairs : HandshakeEnds(i, k)
    PROVE  TableInv'
<1>1. UNCHANGED <<peers, nPeers, trie, cur, busy>>
    BY DEF HandshakeStarts, HandshakeEnds
<1>2. CASE HandshakeStarts(i)
    <2>1. UNCHANGED <<remote, keypair>>
        BY <1>2 DEF HandshakeStarts
    <2>2. TriesCurrent'
        BY <1>1 DEF TableInv, TriesCurrent, Rebuilt, Owners, HasNode
    <2> QED
        BY <1>1, <2>1, <2>2, SamePeersKeep DEF TableInv, TableTypes, SlotsSound
<1>3. CASE \E k \in Keypairs : HandshakeEnds(i, k)
    <2>1. PICK k \in Keypairs : HandshakeEnds(i, k)
        BY <1>3
    <2>2. PICK r : r = peers[i].remote
        OBVIOUS
    <2>3. r \in Remotes
        <3>1. r # NULL
            BY <2>1, <2>2 DEF HandshakeEnds
        <3> QED
            BY <2>2, <3>1 DEF TableInv, TableTypes, PeerRecords
    <2>4. remote[r].refcnt + 1 \in Nat
        BY <2>3 DEF TableInv, TableTypes, RemoteRecords
    <2>5. /\ keypair[k] = NULL /\ keypair' = [keypair EXCEPT ![k] = r]
          /\ remote' = [remote EXCEPT ![r] = [remote[r] EXCEPT !.refcnt = remote[r].refcnt + 1]]
        BY <2>1, <2>2 DEF HandshakeEnds
    <2> QED
        BY <1>1, <2>3, <2>4, <2>5, ReferenceKeeps
<1> QED
    BY <1>2, <1>3

\* A keypair's remote has at least the keypair's reference.
LEMMA HeldCounted ==
    ASSUME TableInv, NEW k \in Keypairs, keypair[k] # NULL
    PROVE  keypair[k] \in Remotes /\ remote[keypair[k]].refcnt - 1 \in Nat
           /\ remote[keypair[k]].refcnt > 0
<1> DEFINE r == keypair[k]
<1>1. r \in Remotes
    BY DEF TableInv, TableTypes
<1>2. IsFiniteSet(Holders(r)) /\ Cardinality(Holders(r)) \in Nat /\ k \in Holders(r)
    BY HoldersCounted DEF Holders
<1>3. Cardinality(Holders(r)) # 0
    BY <1>2, FS_EmptySet
<1>4. remote[r].refcnt = Cardinality(Holders(r)) + (IF Owned(r) THEN 1 ELSE 0)
    BY <1>1 DEF TableInv, RefsExact
<1> QED
    BY <1>1, <1>2, <1>3, <1>4

LEMMA DropKeeps ==
    ASSUME TableInv, NEW k \in Keypairs, KeypairDrops(k)
    PROVE  TableInv'
<1>1. PICK r : r = keypair[k]
    OBVIOUS
<1>2. /\ UNCHANGED <<peers, nPeers, trie, cur, busy>>
      /\ r # NULL /\ keypair' = [keypair EXCEPT ![k] = NULL]
      /\ remote' = [remote EXCEPT ![r] = [remote[r] EXCEPT !.refcnt = remote[r].refcnt - 1]]
    BY <1>1 DEF KeypairDrops
<1>3. r \in Remotes /\ remote[r].refcnt - 1 \in Nat
    BY <1>1, <1>2, HeldCounted
<1> QED
    BY <1>1, <1>2, <1>3, ReferenceKeeps

LEMMA StutterKeeps ==
    ASSUME TableInv, UNCHANGED vars
    PROVE  TableInv'
<1>1. UNCHANGED <<peers, nPeers, remote, keypair, trie, cur, busy>>
    BY DEF vars
<1>2. TriesCurrent'
    BY <1>1 DEF TableInv, TriesCurrent, Rebuilt, Owners, HasNode
<1> QED
    BY <1>1, <1>2, SamePeersKeep DEF TableInv, TableTypes, SlotsSound

LEMMA TableInvAlways == Spec => []TableInv
<1>1. TableInv /\ [Next]_vars => TableInv'
    BY LinesKeep, AllowedKeeps, NewPeerKeeps, NoMemoryKeeps, RemoveKeeps, HandshakesKeep,
       DropKeeps, StutterKeeps, Zenon DEF Next
<1> QED
    BY <1>1, TableInitially, PTL DEF Spec

\* The arrays of the code are not overrun, and no trie leads past them: right
\* after it was rebuilt, and then as long as slots are only added.
TriesInBounds == \A n \in Nodes : trie[n] \in 0 .. nPeers \cup {NULL}
InBounds ==
    /\ \A i \in Slots : Len(peers[i].allowed) <= MaxAllowed
    /\ TriesInBounds

BuiltInBounds == ~busy => TriesInBounds

LEMMA RebuildInBounds ==
    ASSUME TableInv
    PROVE  BuiltInBounds
<1> SUFFICES ASSUME ~busy
             PROVE  \A n \in Nodes : trie[n] \in 0 .. nPeers \cup {NULL}
    BY DEF BuiltInBounds, TriesInBounds
<1>1. TableTypes /\ trie = Rebuilt(peers) /\ nPeers \in Nat
    BY PeerTableAssumption DEF TableInv, TriesCurrent, TableTypes
<1>2. ASSUME NEW c, Owners(peers, c) # {} PROVE Max(Owners(peers, c)) \in 0 .. nPeers
    <2>1. Max(Owners(peers, c)) \in 1 .. nPeers
        BY <1>1, <1>2, LastOwner DEF Owners
    <2> QED
        BY <1>1, <2>1
<1>3. 0 \in 0 .. nPeers
    BY <1>1
<1> QED
    BY <1>1, <1>2, <1>3 DEF Rebuilt

LEMMA BoundsKept ==
    ASSUME TableInv, TableInv', BuiltInBounds', InBounds, [Next]_vars
    PROVE  InBounds'
<1>1. /\ MaxPeers \in Nat /\ MaxAllowed \in Nat /\ nPeers \in Nat /\ nPeers' \in Nat
      /\ peers \in [Slots -> PeerRecords]
    BY PeerTableAssumption DEF TableInv, TableTypes
<1>2. (trie' = trie /\ nPeers <= nPeers') \/ ~busy'
    <2>1. (trie' = trie /\ nPeers' = nPeers) \/ busy' = FALSE
              \/ \E pk \in PublicKeys, r \in Remotes : LinePublicKeyNew(pk, r)
        BY Zenon
        DEF Next, Begin, End, LineUnsupported, LinePublicKeyKnown, LinePublicKeyNoSlot,
            LinePublicKeyNoMemory, LineRemove, LineReplaceAllowed, LineAllowedTooMany,
            LineAllowed, HandshakeStarts, HandshakeEnds, KeypairDrops, Finish, vars
    <2>2. CASE \E pk \in PublicKeys, r \in Remotes : LinePublicKeyNew(pk, r)
        <3>1. trie' = trie /\ \E i \in SlotToUse : nPeers' = IF i > nPeers THEN i ELSE nPeers
            BY <2>2 DEF LinePublicKeyNew
        <3> QED
            BY <1>1, <3>1, SlotToUseFree
    <2> QED
        BY <1>1, <2>1, <2>2
<1>3. TriesInBounds'
    <2>1. CASE trie' = trie /\ nPeers <= nPeers'
        <3>1. 0 .. nPeers \subseteq 0 .. nPeers'
            BY <1>1, <2>1
        <3> QED
            BY <2>1, <3>1 DEF InBounds, TriesInBounds
    <2> QED
        BY <1>2, <2>1 DEF BuiltInBounds
<1>4. Len(<<>>) = 0 /\ 0 <= MaxAllowed
    BY <1>1
<1>5. \/ peers' = peers
      \/ \E i \in Slots : \E p : peers' = [peers EXCEPT ![i] = p] /\ Len(p.allowed) <= MaxAllowed
    <2>1. CASE \E pk \in PublicKeys : LinePublicKeyNoMemory(pk)
        <3>1. PICK pk \in PublicKeys : LinePublicKeyNoMemory(pk)
            BY <2>1
        <3>2. PICK i \in SlotToUse : peers' = [peers EXCEPT ![i] =
                                          [EmptyPeer EXCEPT !.active = TRUE, !.pubkey = pk]]
            BY <3>1 DEF LinePublicKeyNoMemory
        <3>3. i \in Slots
            BY <3>2, SlotToUseFree
        <3>4. [EmptyPeer EXCEPT !.active = TRUE, !.pubkey = pk].allowed = <<>>
            BY DEF EmptyPeer
        <3> QED
            BY <1>4, <3>2, <3>3, <3>4
    <2>2. CASE \E pk \in PublicKeys, r \in Remotes : LinePublicKeyNew(pk, r)
        <3>1. PICK pk \in PublicKeys, r \in Remotes : LinePublicKeyNew(pk, r)
            BY <2>2
        <3>2. PICK i \in SlotToUse : peers' = [peers EXCEPT ![i] =
                    [EmptyPeer EXCEPT !.active = TRUE, !.pubkey = pk, !.remote = r]]
            BY <3>1 DEF LinePublicKeyNew
        <3>3. i \in Slots
            BY <3>2, SlotToUseFree
        <3>4. [EmptyPeer EXCEPT !.active = TRUE, !.pubkey = pk, !.remote = r].allowed = <<>>
            BY DEF EmptyPeer
        <3> QED
            BY <1>4, <3>2, <3>3, <3>4
    <2>3. ASSUME cur # 0 PROVE cur \in Slots
        BY <1>1, <2>3 DEF TableInv, TableTypes, Slots
    <2>4. CASE LineRemove
        <3>1. EmptyPeer.allowed = <<>>
            BY DEF EmptyPeer
        <3> QED
            BY <1>4, <2>3, <2>4, <3>1 DEF LineRemove
    <2>5. CASE LineReplaceAllowed
        <3>1. PICK p : p = [peers[cur] EXCEPT !.allowed = <<>>]
            OBVIOUS
        <3>2. cur \in Slots /\ peers' = [peers EXCEPT ![cur] = p]
            BY <2>3, <2>5, <3>1 DEF LineReplaceAllowed
        <3>3. p.allowed = <<>>
            BY <1>1, <3>1, <3>2 DEF PeerRecords
        <3> QED
            BY <1>4, <3>2, <3>3
    <2>6. CASE \E c \in Cidrs : LineAllowed(c)
        <3>1. PICK c \in Cidrs : LineAllowed(c)
            BY <2>6
        <3>2. PICK p : p = [peers[cur] EXCEPT !.allowed = Append(peers[cur].allowed, c)]
            OBVIOUS
        <3>3. cur \in Slots /\ peers' = [peers EXCEPT ![cur] = p]
              /\ Len(peers[cur].allowed) < MaxAllowed
            BY <2>3, <3>1, <3>2 DEF LineAllowed, HasRoom
        <3>4. /\ peers[cur].allowed \in Seq(Cidrs)
              /\ p.allowed = Append(peers[cur].allowed, c)
            BY <1>1, <3>2, <3>3 DEF PeerRecords
        <3>5. Len(p.allowed) = Len(peers[cur].allowed) + 1 /\ Len(peers[cur].allowed) \in Nat
            BY <3>4
        <3>6. Len(p.allowed) <= MaxAllowed
            BY <1>1, <3>3, <3>5
        <3> QED
            BY <3>3, <3>6
    <2>7. CASE \/ Begin \/ End \/ LineUnsupported \/ LineAllowedTooMany
               \/ \E pk \in PublicKeys : LinePublicKeyKnown(pk) \/ LinePublicKeyNoSlot(pk)
               \/ \E i \in Slots : HandshakeStarts(i) \/ \E k \in Keypairs : HandshakeEnds(i, k)
               \/ \E k \in Keypairs : KeypairDrops(k)
               \/ UNCHANGED vars
        BY <2>7 DEF Begin, End, LineUnsupported, LineAllowedTooMany, LinePublicKeyKnown,
                    LinePublicKeyNoSlot, HandshakeStarts, HandshakeEnds, KeypairDrops, vars
    <2> QED
        BY <2>1, <2>2, <2>4, <2>5, <2>6, <2>7, Zenon DEF Next
<1>6. \A i \in Slots : Len(peers'[i].allowed) <= MaxAllowed
    BY <1>1, <1>5 DEF InBounds
<1> QED
    BY <1>3, <1>6 DEF InBounds

(* WGS_MAX_PEERS and WGS_MAX_ALLOWED_CIDRS: no sequence of lines overruns the  *)
(* slots or a slot's list of cidrs, and the tries lead to slots in use, also   *)
(* while a request is being applied.                                           *)
THEOREM TableTypeCorrect == Spec => []TypeOK
<1>1. Init => InBounds
    <2> SUFFICES ASSUME Init PROVE InBounds
        OBVIOUS
    <2>1. PICK pks, rs, als : ConfiguredAs(pks, rs, als)
        BY InitForm
    <2>2. TriesInBounds
        BY <2>1, TableInitially, RebuildInBounds DEF ConfiguredAs, BuiltInBounds
    <2>3. Len(EmptyPeer.allowed) = 0 /\ MaxAllowed \in Nat
        BY PeerTableAssumption, EmptySeq DEF EmptyPeer
    <2>4. \A i \in Slots : Len(peers[i].allowed) <= MaxAllowed
        BY <2>1, <2>3, ListTyped DEF ConfiguredAs
    <2> QED
        BY <2>2, <2>4 DEF InBounds
<1>2. TableInv => BuiltInBounds
    BY RebuildInBounds
<1>3. TableInv /\ TableInv' /\ BuiltInBounds' /\ InBounds /\ [Next]_vars => InBounds'
    BY BoundsKept
<1>4. TableInv /\ InBounds => TypeOK
    BY DEF TableInv, TableTypes, SlotsSound, PeerRecords, InBounds, TriesInBounds, TypeOK
<1> QED
    BY <1>1, <1>2, <1>3, <1>4, TableInvAlways, PTL DEF Spec

(* rebuild_aips: between requests, whatever lines they had and wherever one   *)
(* was refused, aips_lookup takes every address to the last slot that lists   *)
(* the longest prefix listed, and to nobody where none is.                    *)
THEOREM RoutesAlwaysAgree == Spec => []RoutesAgree
<1>1. TableInv => RoutesAgree
    BY LookupIsLongest
<1> QED
    BY <1>1, TableInvAlways, PTL

(* peer_init_runtime and peer_tombstone: a public key leads to the one slot   *)
(* that has it, over every order of additions, removals and handshakes, and   *)
(* to none once the peer has been removed; the keypairs of a peer that has    *)
(* not been removed lead to its slot.                                         *)
THEOREM InitiationsAlwaysAttributed == Spec => []InitiationsAttributed
<1>1. TableInv => InitiationsAttributed
    <2> SUFFICES ASSUME TableInv PROVE InitiationsAttributed
        OBVIOUS
    <2>1. \A i \in Slots : peers[i].remote # NULL => peers[i].active
        BY EmptyPeerTyped DEF TableInv, SlotsSound
    <2>2. ASSUME NEW r \in Remotes, remote[r].enabled
          PROVE  \E i \in Slots : peers[i].active /\ peers[i].remote = r
        <3>1. PICK i \in Slots : peers[i].remote = r
            BY <2>2 DEF TableInv, RemotesSound, Owned
        <3>2. r # NULL
            BY PeerTableAssumption
        <3> QED
            BY <2>1, <3>1, <3>2
    <2>3. ASSUME NEW k \in Keypairs, keypair[k] # NULL
          PROVE  /\ remote[keypair[k]].refcnt > 0
                 /\ remote[keypair[k]].enabled => peers[SourceOf(k)].remote = keypair[k]
        <3>1. keypair[k] \in Remotes /\ remote[keypair[k]].refcnt > 0
            BY <2>3, HeldCounted
        <3>2. ASSUME remote[keypair[k]].enabled
              PROVE  peers[SourceOf(k)].remote = keypair[k]
            <4>1. PICK i \in Slots : peers[i].remote = keypair[k]
                BY <2>2, <3>1, <3>2
            <4>2. remote[keypair[k]].arg = i
                BY <2>3, <4>1 DEF TableInv, RemotesSound
            <4> QED
                BY <4>1, <4>2 DEF SourceOf
        <3> QED
            BY <3>1, <3>2
    <2> QED
        BY <2>2, <2>3 DEF TableInv, SlotsSound, RemotesSound, InitiationsAttributed
<1> QED
    BY <1>1, TableInvAlways, PTL

(* noise_remote_put: the references of a noise_remote are those of its slot   *)
(* and of its keypairs, so that a slot never holds one that has been freed.   *)
THEOREM ReferencesAlwaysExact == Spec => []RefsExact
<1>1. TableInv => RefsExact
    BY DEF TableInv
<1> QED
    BY <1>1, TableInvAlways, PTL

=============================================================================
