------------------------- MODULE KernelTimersProofs -------------------------
(* Proofs for KernelTimers: once the timers of a peer are disabled they stay *)
(* still (TimersStopped), and while they are enabled a packet that waits is  *)
(* attended to (WaitingAttended).                                            *)
EXTENDS KernelTimers, SequenceTheorems, TLAPS

Steps == {"complete", "want_initiation", "send_staged", "again", "initiation", "create",
          "initiated", "retry", "received", "enable", "disable", "epoch_wait",
          "stop_callouts", "clear"}

\* What a thread has still to do: inside the epoch, after it, and of that
\* what is not its first step.
Inside(r) == ToSet(todo[r].epoch)
After(r) == ToSet(todo[r].rest)
Later(r) == IF todo[r].rest = <<>> THEN {} ELSE ToSet(Tail(todo[r].rest))

Typed == todo \in [Runners -> [epoch : Seq(Steps), rest : Seq(Steps)]]

\* r is done with step s and has taken ins inside the epoch and out after it.
Moves(r, s, ins, out) ==
    /\ Typed'
    /\ \A q \in Runners \ {r} : todo'[q] = todo[q]
    /\ Inside(r)' \subseteq Inside(r) \cup ins
    /\ After(r)' \subseteq After(r) \cup out
    /\ Later(r)' \subseteq Later(r) \cup out
    /\ (Ahead(r) \ {s}) \cup ins \cup out \subseteq Ahead(r)'

-----------------------------------------------------------------------------
(* Sequences.                                                                *)

LEMMA ShortLists ==
    /\ ToSet(<<>>) = {}
    /\ \A a : ToSet(<<a>>) = {a}
    /\ \A a, b : ToSet(<<a, b>>) = {a, b}
    BY DEF ToSet

LEMMA Elements ==
    ASSUME NEW S, NEW s \in Seq(S)
    PROVE  ToSet(s) \subseteq S
    BY DEF ToSet

LEMMA Concatenated ==
    ASSUME NEW S, NEW s \in Seq(S), NEW t \in Seq(S)
    PROVE  s \o t \in Seq(S) /\ ToSet(s \o t) = ToSet(s) \cup ToSet(t)
<1>1. /\ s \o t \in Seq(S) /\ Len(s \o t) = Len(s) + Len(t)
      /\ \A i \in 1 .. Len(s) + Len(t) : (s \o t)[i] = IF i <= Len(s) THEN s[i] ELSE t[i - Len(s)]
      /\ Len(s) \in Nat /\ Len(t) \in Nat
    BY ConcatProperties, LenProperties
<1>2. DOMAIN s = 1 .. Len(s) /\ DOMAIN t = 1 .. Len(t) /\ DOMAIN (s \o t) = 1 .. Len(s) + Len(t)
    BY <1>1, LenProperties
<1>3. ASSUME NEW x \in ToSet(s \o t) PROVE x \in ToSet(s) \cup ToSet(t)
    <2>1. PICK i \in 1 .. Len(s) + Len(t) : x = (s \o t)[i]
        BY <1>2 DEF ToSet
    <2>2. CASE i <= Len(s)
        BY <1>1, <1>2, <2>1, <2>2 DEF ToSet
    <2>3. CASE ~(i <= Len(s))
        <3>1. i - Len(s) \in DOMAIN t
            BY <1>1, <1>2, <2>3
        <3> QED
            BY <1>1, <2>1, <2>3, <3>1 DEF ToSet
    <2> QED
        BY <2>2, <2>3
<1>4. ASSUME NEW x \in ToSet(s) PROVE x \in ToSet(s \o t)
    <2>1. PICK i \in 1 .. Len(s) : x = s[i]
        BY <1>2 DEF ToSet
    <2>2. i \in 1 .. Len(s) + Len(t) /\ i <= Len(s)
        BY <1>1
    <2> QED
        BY <1>1, <1>2, <2>1, <2>2 DEF ToSet
<1>5. ASSUME NEW x \in ToSet(t) PROVE x \in ToSet(s \o t)
    <2>1. PICK i \in 1 .. Len(t) : x = t[i]
        BY <1>2 DEF ToSet
    <2>2. /\ i + Len(s) \in 1 .. Len(s) + Len(t) /\ ~(i + Len(s) <= Len(s))
          /\ i + Len(s) - Len(s) = i
        BY <1>1
    <2> QED
        BY <1>1, <1>2, <2>1, <2>2 DEF ToSet
<1> QED
    BY <1>1, <1>3, <1>4, <1>5

LEMMA HeadAndTail ==
    ASSUME NEW S, NEW s \in Seq(S), s # <<>>
    PROVE  /\ Head(s) \in S /\ Tail(s) \in Seq(S)
           /\ ToSet(s) = {Head(s)} \cup ToSet(Tail(s))
<1>1. /\ Head(s) \in S /\ Tail(s) \in Seq(S) /\ Len(Tail(s)) = Len(s) - 1
      /\ \A i \in 1 .. Len(Tail(s)) : Tail(s)[i] = s[i + 1]
      /\ Len(s) \in Nat /\ Len(s) # 0 /\ Head(s) = s[1]
    BY HeadTailProperties, LenProperties, EmptySeq
<1>2. DOMAIN s = 1 .. Len(s) /\ DOMAIN Tail(s) = 1 .. Len(s) - 1
    BY <1>1, LenProperties
<1>3. ASSUME NEW x \in ToSet(s) PROVE x = Head(s) \/ x \in ToSet(Tail(s))
    <2>1. PICK i \in 1 .. Len(s) : x = s[i]
        BY <1>2 DEF ToSet
    <2>2. CASE i = 1
        BY <1>1, <2>1, <2>2
    <2>3. CASE i # 1
        <3>1. i - 1 \in 1 .. Len(s) - 1 /\ (i - 1) + 1 = i
            BY <1>1, <2>3
        <3> QED
            BY <1>1, <1>2, <2>1, <3>1 DEF ToSet
    <2> QED
        BY <2>2, <2>3
<1>4. Head(s) \in ToSet(s)
    <2>1. 1 \in DOMAIN s
        BY <1>1, <1>2
    <2> QED
        BY <1>1, <2>1 DEF ToSet
<1>5. ASSUME NEW x \in ToSet(Tail(s)) PROVE x \in ToSet(s)
    <2>1. PICK i \in 1 .. Len(s) - 1 : x = Tail(s)[i]
        BY <1>2 DEF ToSet
    <2>2. i + 1 \in 1 .. Len(s) /\ x = s[i + 1]
        BY <1>1, <2>1
    <2> QED
        BY <1>2, <2>2 DEF ToSet
<1> QED
    BY <1>1, <1>3, <1>4, <1>5

\* What follows the first element of a list and the rest.
LEMMA TailOfConcat ==
    ASSUME NEW S, NEW a \in S, NEW b \in S, NEW t \in Seq(S)
    PROVE  ToSet(Tail(<<a, b>> \o t)) \subseteq {b} \cup ToSet(t)
<1> DEFINE h == <<a, b>>
           s == h \o t
<1>1. h \in Seq(S) /\ Len(h) = 2 /\ h[2] = b
    OBVIOUS
<1> HIDE DEF h
<1>8. /\ s \in Seq(S) /\ Len(s) = Len(h) + Len(t) /\ Len(t) \in Nat
      /\ \A i \in 1 .. Len(h) + Len(t) : s[i] = IF i <= Len(h) THEN h[i] ELSE t[i - Len(h)]
    BY <1>1, ConcatProperties, LenProperties
<1> HIDE DEF s
<1>2. /\ s \in Seq(S) /\ Len(s) = 2 + Len(t) /\ Len(t) \in Nat
      /\ \A i \in 1 .. 2 + Len(t) : s[i] = IF i <= 2 THEN h[i] ELSE t[i - 2]
    BY <1>1, <1>8
<1>3. s # <<>>
    BY <1>2
<1>4. /\ Tail(s) \in Seq(S) /\ Len(Tail(s)) = 1 + Len(t)
      /\ \A i \in 1 .. Len(Tail(s)) : Tail(s)[i] = s[i + 1]
    BY <1>2, <1>3, HeadTailProperties
<1>5. DOMAIN Tail(s) = 1 .. 1 + Len(t) /\ DOMAIN t = 1 .. Len(t)
    BY <1>2, <1>4, LenProperties
<1>6. ASSUME NEW x \in ToSet(Tail(s)) PROVE x = b \/ x \in ToSet(t)
    <2>1. PICK i \in 1 .. 1 + Len(t) : x = Tail(s)[i]
        BY <1>5 DEF ToSet
    <2>2. x = s[i + 1] /\ i + 1 \in 1 .. 2 + Len(t)
        BY <1>2, <1>4, <2>1
    <2>3. CASE i = 1
        BY <1>1, <1>2, <2>2, <2>3
    <2>4. CASE i # 1
        <3>1. i - 1 \in DOMAIN t /\ ~(i + 1 <= 2) /\ i + 1 - 2 = i - 1
            BY <1>2, <1>5, <2>1, <2>4
        <3> QED
            BY <1>2, <2>2, <3>1 DEF ToSet
    <2> QED
        BY <2>3, <2>4
<1> QED
    BY <1>6 DEF s, h

LEMMA TailWithin ==
    ASSUME NEW S, NEW s \in Seq(S)
    PROVE  (IF s = <<>> THEN {} ELSE ToSet(Tail(s))) \subseteq ToSet(s)
    BY HeadAndTail

-----------------------------------------------------------------------------
(* How the steps change what there is still to do.                           *)

LEMMA Parts ==
    ASSUME Typed, NEW r \in Runners
    PROVE  /\ todo[r] = [epoch |-> todo[r].epoch, rest |-> todo[r].rest]
           /\ todo[r].epoch \in Seq(Steps) /\ todo[r].rest \in Seq(Steps)
           /\ Ahead(r) = Inside(r) \cup After(r)
           /\ Later(r) \subseteq After(r)
<1>1. todo[r] \in [epoch : Seq(Steps), rest : Seq(Steps)]
    BY DEF Typed
<1>2. todo[r].epoch \in Seq(Steps) /\ todo[r].rest \in Seq(Steps)
    BY <1>1
<1> QED
    BY <1>1, <1>2, TailWithin DEF Ahead, Inside, After, Later

\* A thread that is idle has nothing to do, and one that is not has a first step.
LEMMA IdleHasNothing ==
    ASSUME Typed, NEW r \in Runners
    PROVE  Idle(r) => Ahead(r) = {} /\ Inside(r) = {} /\ After(r) = {} /\ Later(r) = {}
    BY ShortLists DEF Idle, Ahead, Inside, After, Later

LEMMA AtStep ==
    ASSUME Typed, NEW r \in Runners, NEW s, At(r, s)
    PROVE  /\ InEpoch(r) => s \in Inside(r) /\ s = Head(todo[r].epoch)
           /\ ~InEpoch(r) => s \in After(r) /\ todo[r].rest # <<>> /\ s = Head(todo[r].rest)
           /\ s \in Ahead(r)
<1>1. CASE InEpoch(r)
    BY <1>1, Parts, HeadAndTail DEF At, InEpoch, Inside
<1>2. CASE ~InEpoch(r)
    <2>1. todo[r].rest # <<>>
        BY <1>2, Parts DEF At, InEpoch, Idle
    <2> QED
        BY <1>2, <2>1, Parts, HeadAndTail DEF At, After
<1> QED
    BY <1>1, <1>2, Parts

\* The record of thread r becomes a record of the same kind.
LEMMA Replaced ==
    ASSUME Typed, NEW r \in Runners, NEW v \in [epoch : Seq(Steps), rest : Seq(Steps)],
           todo' = [todo EXCEPT ![r] = v]
    PROVE  Typed' /\ todo'[r] = v /\ \A q \in Runners \ {r} : todo'[q] = todo[q]
    BY DEF Typed

\* Where the new steps of Goes go.
Into(r, list) == IF InEpoch(r) THEN ToSet(list) ELSE {}
OutOf(r, list) == IF InEpoch(r) THEN {} ELSE ToSet(list)

LEMMA MovesInEpoch ==
    ASSUME Typed, NEW r \in Runners, NEW s, At(r, s), NEW list \in Seq(Steps), InEpoch(r),
           todo' = [todo EXCEPT ![r] =
                       [epoch |-> list \o Tail(todo[r].epoch), rest |-> todo[r].rest]]
    PROVE  Moves(r, s, ToSet(list), {})
<1> DEFINE e == todo[r].epoch
           x == todo[r].rest
           f == list \o Tail(e)
           v == [epoch |-> f, rest |-> x]
<1>1. e \in Seq(Steps) /\ x \in Seq(Steps) /\ e # <<>> /\ s = Head(e)
    BY Parts, AtStep DEF InEpoch
<1>2. Tail(e) \in Seq(Steps) /\ ToSet(e) = {s} \cup ToSet(Tail(e))
    BY <1>1, HeadAndTail
<1>3. f \in Seq(Steps) /\ ToSet(f) = ToSet(list) \cup ToSet(Tail(e))
    <2> DEFINE l == Tail(e)
    <2>1. l \in Seq(Steps)
        BY <1>2
    <2> HIDE DEF l
    <2>2. list \o l \in Seq(Steps) /\ ToSet(list \o l) = ToSet(list) \cup ToSet(l)
        BY <2>1, Concatenated
    <2> QED
        BY <2>2 DEF l
<1>4. todo' = [todo EXCEPT ![r] = v]
    OBVIOUS
<1> HIDE DEF f
<1>5. v \in [epoch : Seq(Steps), rest : Seq(Steps)]
    BY <1>1, <1>3
<1>6. v.epoch = f /\ v.rest = x
    OBVIOUS
<1> HIDE DEF v
<1>7. Typed' /\ todo'[r] = v /\ \A q \in Runners \ {r} : todo'[q] = todo[q]
    BY <1>4, <1>5, Replaced
<1>8. Inside(r)' = ToSet(f) /\ After(r)' = After(r) /\ Later(r)' = Later(r)
    <2>1. todo'[r].epoch = f /\ todo'[r].rest = x
        BY <1>6, <1>7
    <2>2. Inside(r)' = ToSet(f)
        BY <2>1 DEF Inside
    <2>3. After(r)' = After(r)
        BY <2>1 DEF After
    <2>4. Later(r)' = Later(r)
        BY <2>1 DEF Later
    <2> QED
        BY <2>2, <2>3, <2>4
<1>9. Ahead(r)' = ToSet(f) \cup After(r) /\ Ahead(r) = ToSet(e) \cup After(r) /\ Inside(r) = ToSet(e)
    BY <1>6, <1>7 DEF Ahead, Inside, After
<1> QED
    BY <1>2, <1>3, <1>7, <1>8, <1>9 DEF Moves

LEMMA MovesAfter ==
    ASSUME Typed, NEW r \in Runners, NEW s, At(r, s), NEW list \in Seq(Steps), ~InEpoch(r),
           todo' = [todo EXCEPT ![r] =
                       [epoch |-> <<>>, rest |-> list \o Tail(todo[r].rest)]]
    PROVE  Moves(r, s, {}, ToSet(list))
<1> DEFINE e == todo[r].epoch
           x == todo[r].rest
           f == list \o Tail(x)
           v == [epoch |-> <<>>, rest |-> f]
<1>1. e = <<>> /\ x \in Seq(Steps) /\ x # <<>> /\ s = Head(x)
    BY Parts, AtStep DEF InEpoch
<1>2. Tail(x) \in Seq(Steps) /\ ToSet(x) = {s} \cup ToSet(Tail(x)) /\ Later(r) = ToSet(Tail(x))
    BY <1>1, HeadAndTail DEF Later
<1>3. f \in Seq(Steps) /\ ToSet(f) = ToSet(list) \cup ToSet(Tail(x))
    <2> DEFINE l == Tail(x)
    <2>1. l \in Seq(Steps)
        BY <1>2
    <2> HIDE DEF l
    <2>2. list \o l \in Seq(Steps) /\ ToSet(list \o l) = ToSet(list) \cup ToSet(l)
        BY <2>1, Concatenated
    <2> QED
        BY <2>2 DEF l
<1>4. todo' = [todo EXCEPT ![r] = v]
    OBVIOUS
<1> HIDE DEF f
<1>5. v \in [epoch : Seq(Steps), rest : Seq(Steps)]
    BY <1>1, <1>3
<1>6. v.epoch = <<>> /\ v.rest = f
    OBVIOUS
<1> HIDE DEF v
<1>7. Typed' /\ todo'[r] = v /\ \A q \in Runners \ {r} : todo'[q] = todo[q]
    BY <1>4, <1>5, Replaced
<1>8. Inside(r)' = {} /\ Inside(r) = {} /\ After(r)' = ToSet(f)
    BY <1>1, <1>6, <1>7, ShortLists DEF Inside, After
<1>9. Later(r)' \subseteq ToSet(f)
    BY <1>3, <1>6, <1>7, TailWithin DEF Later
<1>10. Ahead(r)' = ToSet(f) /\ Ahead(r) = ToSet(x) /\ After(r) = ToSet(x)
    BY <1>8, Parts DEF Ahead, Inside, After
<1> QED
    BY <1>2, <1>3, <1>7, <1>8, <1>9, <1>10 DEF Moves

LEMMA GoesMoves ==
    ASSUME Typed, NEW r \in Runners, NEW s, At(r, s), NEW list \in Seq(Steps), Goes(r, list)
    PROVE  Moves(r, s, Into(r, list), OutOf(r, list))
<1>1. CASE InEpoch(r)
    <2>1. todo' = [todo EXCEPT ![r] =
                       [epoch |-> list \o Tail(todo[r].epoch), rest |-> todo[r].rest]]
        BY <1>1 DEF Goes
    <2>2. Moves(r, s, ToSet(list), {})
        BY <1>1, <2>1, MovesInEpoch
    <2> QED
        BY <1>1, <2>2 DEF Into, OutOf
<1>2. CASE ~InEpoch(r)
    <2>1. todo' = [todo EXCEPT ![r] =
                       [epoch |-> <<>>, rest |-> list \o Tail(todo[r].rest)]]
        BY <1>2 DEF Goes
    <2>2. Moves(r, s, {}, ToSet(list))
        BY <1>2, <2>1, MovesAfter
    <2> QED
        BY <1>2, <2>2 DEF Into, OutOf
<1> QED
    BY <1>1, <1>2

LEMMA GoesInsideMoves ==
    ASSUME Typed, NEW r \in Runners, NEW s, At(r, s), NEW list \in Seq(Steps), GoesInside(r, list)
    PROVE  Moves(r, s, ToSet(list), {})
<1>1. CASE InEpoch(r)
    <2>1. todo' = [todo EXCEPT ![r] =
                       [epoch |-> list \o Tail(todo[r].epoch), rest |-> todo[r].rest]]
        BY <1>1 DEF GoesInside
    <2> QED
        BY <1>1, <2>1, MovesInEpoch
<1>2. CASE ~InEpoch(r)
    <2> DEFINE x == todo[r].rest
               v == [epoch |-> list, rest |-> Tail(x)]
    <2>1. todo' = [todo EXCEPT ![r] = v]
        BY <1>2 DEF GoesInside
    <2>2. x \in Seq(Steps) /\ x # <<>> /\ s = Head(x) /\ todo[r].epoch = <<>>
        BY <1>2, Parts, AtStep DEF InEpoch
    <2>3. Tail(x) \in Seq(Steps) /\ ToSet(x) = {s} \cup ToSet(Tail(x)) /\ Later(r) = ToSet(Tail(x))
        BY <2>2, HeadAndTail DEF Later
    <2>4. v \in [epoch : Seq(Steps), rest : Seq(Steps)] /\ v.epoch = list /\ v.rest = Tail(x)
        BY <2>3
    <2> HIDE DEF v
    <2>5. Typed' /\ todo'[r] = v /\ \A q \in Runners \ {r} : todo'[q] = todo[q]
        BY <2>1, <2>4, Replaced
    <2>6. Inside(r)' = ToSet(list) /\ After(r)' = ToSet(Tail(x))
        BY <2>4, <2>5 DEF Inside, After
    <2>7. Later(r)' \subseteq ToSet(Tail(x))
        BY <2>3, <2>4, <2>5, TailWithin DEF Later
    <2>8. Ahead(r)' = ToSet(list) \cup ToSet(Tail(x)) /\ Ahead(r) = ToSet(x) /\ After(r) = ToSet(x)
        BY <2>2, <2>4, <2>5, ShortLists DEF Ahead, Inside, After
    <2> QED
        BY <2>3, <2>5, <2>6, <2>7, <2>8 DEF Moves
<1> QED
    BY <1>1, <1>2

LEMMA BeginsMoves ==
    ASSUME Typed, NEW r \in Runners, NEW s, NEW list \in Seq(Steps), Begins(r, list)
    PROVE  Moves(r, s, {}, ToSet(list))
<1> DEFINE v == [epoch |-> <<>>, rest |-> list]
<1>1. todo[r] = [epoch |-> <<>>, rest |-> <<>>]
    BY DEF Begins, Idle
<1>2. todo' = [todo EXCEPT ![r] = v]
    <2>1. [todo[r] EXCEPT !.rest = list] = v
        BY <1>1
    <2>2. todo' = [todo EXCEPT ![r] = [todo[r] EXCEPT !.rest = list]]
        BY Zenon DEF Begins
    <2> HIDE DEF v
    <2> QED
        BY <2>1, <2>2
<1>3. v \in [epoch : Seq(Steps), rest : Seq(Steps)] /\ v.epoch = <<>> /\ v.rest = list
    OBVIOUS
<1> HIDE DEF v
<1>4. Typed' /\ todo'[r] = v /\ \A q \in Runners \ {r} : todo'[q] = todo[q]
    BY <1>2, <1>3, Replaced
<1>5. Inside(r)' = {} /\ After(r)' = ToSet(list) /\ Ahead(r)' = ToSet(list)
    BY <1>3, <1>4, ShortLists DEF Inside, After, Ahead
<1>6. Later(r)' \subseteq ToSet(list)
    BY <1>3, <1>4, TailWithin DEF Later
<1>7. Ahead(r) = {}
    BY <1>1, ShortLists DEF Ahead
<1> QED
    BY <1>4, <1>5, <1>6, <1>7 DEF Moves

LEMMA StandsStill ==
    ASSUME Typed, NEW r \in Runners, NEW s, UNCHANGED todo
    PROVE  Moves(r, s, {}, {})
    BY DEF Typed, Moves, Inside, After, Later, Ahead

-----------------------------------------------------------------------------
(* The inductive invariant.                                                  *)

\* Only wg_down waits for the epoch, before it stops the callouts, and not
\* inside the epoch; only a callout's handler starts a handshake outside it.
Ordered ==
    /\ \A r \in Runners : Inside(r) \cap {"epoch_wait", "stop_callouts", "disable", "retry"} = {}
    /\ \A r \in Runners \ {Clock} : After(r) \cap {"initiation", "create", "retry"} = {}
    /\ "epoch_wait" \notin Later(Control)
    /\ "epoch_wait" \in Ahead(Control) => "stop_callouts" \in Ahead(Control)

\* After NET_EPOCH_WAIT nobody who saw p_enabled set has its section to finish.
Stopped ==
    ~enabled /\ "epoch_wait" \notin Ahead(Control) =>
        \A r \in Runners \ {Clock} : Ahead(r) \cap {"initiation", "create"} = {}

\* Callouts are set only where p_enabled is set.
Silent == ~enabled /\ "stop_callouts" \notin Ahead(Control) => pending = {}

Safe == Typed /\ Ordered /\ Stopped /\ Silent

\* The packets that wait will be sent or asked for a handshake again, or their
\* callouts are about to be stopped.
Coming == {"want_initiation", "send_staged"}
Awaited ==
    \/ \E r \in Runners : Ahead(r) \cap Coming # {}
    \/ "stop_callouts" \in Ahead(Control)

\* A handshake is tried for them.
Trying == {"initiation", "create", "initiated", "retry"}
Tried ==
    \/ "retry_handshake" \in pending
    \/ \E r \in Runners : Ahead(r) \cap Trying # {}

Attended == staged /\ ~forgotten => Awaited \/ (enabled /\ Tried)

IInv == Safe /\ Attended

-----------------------------------------------------------------------------
(* What a step that leaves p_enabled alone has to respect.                   *)

Ordinary(r, s, ins, out) ==
    /\ Moves(r, s, ins, out)
    /\ enabled' = enabled
    /\ s \notin {"stop_callouts", "epoch_wait"}
    /\ ins \cap {"epoch_wait", "stop_callouts", "disable", "retry"} = {}
    /\ "epoch_wait" \notin out
    /\ r # Clock => out \cap {"initiation", "create", "retry"} = {}
    /\ r # Clock /\ (ins \cup out) \cap {"initiation", "create"} # {} =>
          enabled \/ Ahead(r) \cap {"initiation", "create"} # {}
    /\ enabled \/ pending' \subseteq pending

LEMMA AheadParts ==
    ASSUME Typed
    PROVE  \A r \in Runners : Ahead(r) = Inside(r) \cup After(r)
    BY Parts

LEMMA MovesParts ==
    ASSUME Typed, NEW r \in Runners, NEW s, NEW ins, NEW out, Moves(r, s, ins, out)
    PROVE  /\ Typed'
           /\ Ahead(r)' = Inside(r)' \cup After(r)'
           /\ Ahead(r) = Inside(r) \cup After(r)
           /\ Inside(r)' \subseteq Inside(r) \cup ins
           /\ After(r)' \subseteq After(r) \cup out
           /\ Later(r)' \subseteq Later(r) \cup out
           /\ (Ahead(r) \ {s}) \cup ins \cup out \subseteq Ahead(r)'
           /\ Ahead(r)' \subseteq Ahead(r) \cup ins \cup out
<1>1. Typed'
    BY DEF Moves
<1>2. Ahead(r)' = Inside(r)' \cup After(r)'
    BY DEF Ahead, Inside, After
<1>3. Ahead(r) = Inside(r) \cup After(r)
    BY AheadParts
<1>4. /\ Inside(r)' \subseteq Inside(r) \cup ins
      /\ After(r)' \subseteq After(r) \cup out
      /\ Later(r)' \subseteq Later(r) \cup out
      /\ (Ahead(r) \ {s}) \cup ins \cup out \subseteq Ahead(r)'
    BY DEF Moves
<1> QED
    BY <1>1, <1>2, <1>3, <1>4

LEMMA OthersStand ==
    ASSUME NEW r \in Runners, NEW s, NEW ins, NEW out, Moves(r, s, ins, out), NEW q \in Runners, q # r
    PROVE  Ahead(q)' = Ahead(q) /\ Inside(q)' = Inside(q) /\ After(q)' = After(q) /\ Later(q)' = Later(q)
<1>1. todo'[q] = todo[q]
    BY DEF Moves
<1>2. Ahead(q)' = Ahead(q)
    BY <1>1 DEF Ahead
<1>3. Inside(q)' = Inside(q)
    BY <1>1 DEF Inside
<1>4. After(q)' = After(q)
    BY <1>1 DEF After
<1>5. Later(q)' = Later(q)
    BY <1>1 DEF Later
<1> QED
    BY <1>2, <1>3, <1>4, <1>5

LEMMA KindsOfRunners ==
    Control \in Runners /\ Clock \in Runners /\ Control # Clock /\ Threads \subseteq Runners
    /\ \A t \in Threads : t # Clock /\ t # Control
    BY RunnersAssumption DEF Runners

LEMMA OrderedKept ==
    ASSUME Typed, Ordered, NEW r \in Runners, NEW s, NEW ins, NEW out, Moves(r, s, ins, out),
           ins \cap {"epoch_wait", "stop_callouts", "disable", "retry"} = {},
           "epoch_wait" \notin out,
           r # Clock => out \cap {"initiation", "create", "retry"} = {},
           s = "stop_callouts" => "epoch_wait" \notin Ahead(Control)
    PROVE  Ordered'
<1>1. /\ Ahead(r)' = Inside(r)' \cup After(r)' /\ Ahead(r) = Inside(r) \cup After(r)
      /\ Inside(r)' \subseteq Inside(r) \cup ins /\ After(r)' \subseteq After(r) \cup out
      /\ Later(r)' \subseteq Later(r) \cup out
      /\ (Ahead(r) \ {s}) \cup ins \cup out \subseteq Ahead(r)'
      /\ Ahead(r)' \subseteq Ahead(r) \cup ins \cup out
    BY MovesParts
<1>2. \A q \in Runners : q # r => /\ Ahead(q)' = Ahead(q) /\ Inside(q)' = Inside(q)
                                   /\ After(q)' = After(q) /\ Later(q)' = Later(q)
    BY OthersStand
<1>3. Control \in Runners
    BY KindsOfRunners
<1>4. ASSUME NEW q \in Runners
      PROVE  Inside(q)' \cap {"epoch_wait", "stop_callouts", "disable", "retry"} = {}
    <2>1. Inside(q) \cap {"epoch_wait", "stop_callouts", "disable", "retry"} = {}
        BY DEF Ordered
    <2> QED
        BY <1>1, <1>2, <2>1
<1>5. ASSUME NEW q \in Runners \ {Clock}
      PROVE  After(q)' \cap {"initiation", "create", "retry"} = {}
    <2>1. After(q) \cap {"initiation", "create", "retry"} = {}
        BY DEF Ordered
    <2> QED
        BY <1>1, <1>2, <2>1
<1>6. "epoch_wait" \notin Later(Control)'
    BY <1>1, <1>2, <1>3 DEF Ordered
<1>7. ("epoch_wait" \in Ahead(Control) => "stop_callouts" \in Ahead(Control))'
    <2>1. CASE r = Control
        BY <1>1, <2>1 DEF Ordered
    <2>2. CASE r # Control
        BY <1>2, <1>3, <2>2 DEF Ordered
    <2> QED
        BY <2>1, <2>2
<1> QED
    BY <1>4, <1>5, <1>6, <1>7 DEF Ordered

LEMMA OrdinarySound ==
    ASSUME Safe, NEW r \in Runners, NEW s, NEW ins, NEW out, Ordinary(r, s, ins, out)
    PROVE  Safe'
<1>1. Typed /\ Ordered /\ Stopped /\ Silent /\ Moves(r, s, ins, out)
    BY DEF Safe, Ordinary
<1>2. /\ Typed'
      /\ Ahead(r)' = Inside(r)' \cup After(r)' /\ Ahead(r) = Inside(r) \cup After(r)
      /\ Inside(r)' \subseteq Inside(r) \cup ins /\ After(r)' \subseteq After(r) \cup out
      /\ Later(r)' \subseteq Later(r) \cup out
      /\ (Ahead(r) \ {s}) \cup ins \cup out \subseteq Ahead(r)'
      /\ Ahead(r)' \subseteq Ahead(r) \cup ins \cup out
    BY <1>1, MovesParts
<1>3. \A q \in Runners : q # r => /\ Ahead(q)' = Ahead(q) /\ Inside(q)' = Inside(q)
                                   /\ After(q)' = After(q) /\ Later(q)' = Later(q)
    BY <1>1, OthersStand
<1>4. /\ enabled' = enabled /\ s \notin {"stop_callouts", "epoch_wait"}
      /\ ins \cap {"epoch_wait", "stop_callouts", "disable", "retry"} = {} /\ "epoch_wait" \notin out
      /\ r # Clock => out \cap {"initiation", "create", "retry"} = {}
      /\ r # Clock /\ (ins \cup out) \cap {"initiation", "create"} # {} =>
            enabled \/ Ahead(r) \cap {"initiation", "create"} # {}
      /\ enabled \/ pending' \subseteq pending
    BY DEF Ordinary
<1>5. Control \in Runners
    BY KindsOfRunners
<1>6. /\ "epoch_wait" \in Ahead(Control)' <=> "epoch_wait" \in Ahead(Control)
      /\ "stop_callouts" \in Ahead(Control) => "stop_callouts" \in Ahead(Control)'
    <2>1. CASE r = Control
        BY <1>2, <1>4, <2>1
    <2>2. CASE r # Control
        BY <1>3, <1>5, <2>2
    <2> QED
        BY <2>1, <2>2
<1>7. Ordered'
    BY <1>1, <1>4, OrderedKept
<1>8. Stopped'
    <2> SUFFICES ASSUME ~enabled', "epoch_wait" \notin Ahead(Control)', NEW q \in Runners \ {Clock}
                 PROVE  Ahead(q)' \cap {"initiation", "create"} = {}
        BY DEF Stopped
    <2>1. ~enabled /\ Ahead(q) \cap {"initiation", "create"} = {}
        BY <1>1, <1>4, <1>6 DEF Stopped
    <2>2. CASE q = r
        BY <1>2, <1>4, <2>1, <2>2
    <2>3. CASE q # r
        BY <1>3, <2>1, <2>3
    <2> QED
        BY <2>2, <2>3
<1>9. Silent'
    BY <1>1, <1>4, <1>6 DEF Silent
<1> QED
    BY <1>2, <1>7, <1>8, <1>9 DEF Safe

LEMMA StillAwaited ==
    ASSUME Typed, NEW r \in Runners, NEW s, NEW ins, NEW out, Moves(r, s, ins, out),
           s \notin Coming, s # "stop_callouts", Awaited
    PROVE  Awaited'
<1>1. (Ahead(r) \ {s}) \subseteq Ahead(r)'
    BY MovesParts
<1>2. \A q \in Runners : q # r => Ahead(q)' = Ahead(q)
    BY OthersStand
<1>3. \A q \in Runners : \A x : x # s /\ x \in Ahead(q) => x \in Ahead(q)'
    BY <1>1, <1>2
<1>4. CASE "stop_callouts" \in Ahead(Control)
    BY <1>3, <1>4, KindsOfRunners DEF Awaited
<1>5. CASE \E q \in Runners : Ahead(q) \cap Coming # {}
    <2>1. PICK q \in Runners, x \in Coming : x \in Ahead(q)
        BY <1>5
    <2>2. x \in Ahead(q)'
        BY <1>3, <2>1
    <2>3. \E p \in Runners : Ahead(p)' \cap Coming # {}
        BY <2>1, <2>2
    <2> QED
        BY <2>3 DEF Awaited
<1> QED
    BY <1>4, <1>5 DEF Awaited

LEMMA StillTried ==
    ASSUME Typed, NEW r \in Runners, NEW s, NEW ins, NEW out, Moves(r, s, ins, out),
           s \notin Trying, "retry_handshake" \in pending => "retry_handshake" \in pending', Tried
    PROVE  Tried'
<1>1. (Ahead(r) \ {s}) \subseteq Ahead(r)'
    BY MovesParts
<1>2. \A q \in Runners : q # r => Ahead(q)' = Ahead(q)
    BY OthersStand
<1>3. \A q \in Runners : \A x : x # s /\ x \in Ahead(q) => x \in Ahead(q)'
    BY <1>1, <1>2
<1>4. CASE "retry_handshake" \in pending
    BY <1>4 DEF Tried
<1>5. CASE \E q \in Runners : Ahead(q) \cap Trying # {}
    <2>1. PICK q \in Runners, x \in Trying : x \in Ahead(q)
        BY <1>5
    <2>2. x \in Ahead(q)'
        BY <1>3, <2>1
    <2>3. \E p \in Runners : Ahead(p)' \cap Trying # {}
        BY <2>1, <2>2
    <2> QED
        BY <2>3 DEF Tried
<1> QED
    BY <1>4, <1>5 DEF Tried

LEMMA NowThere ==
    ASSUME Typed, NEW r \in Runners, NEW s, NEW ins, NEW out, Moves(r, s, ins, out),
           NEW x \in ins \cup out
    PROVE  (x \in Coming => Awaited') /\ (x \in Trying => Tried')
<1>1. x \in Ahead(r)'
    BY MovesParts
<1> QED
    BY <1>1 DEF Awaited, Tried

\* A step that takes nothing from the packets that wait.
LEMMA Quiet ==
    ASSUME Typed, Attended, NEW r \in Runners, NEW s, NEW ins, NEW out, Moves(r, s, ins, out),
           staged' /\ ~forgotten' => staged /\ ~forgotten,
           enabled => enabled',
           "retry_handshake" \in pending => "retry_handshake" \in pending',
           s \notin Coming, s \notin Trying, s # "stop_callouts"
    PROVE  Attended'
<1>1. Awaited => Awaited'
    BY StillAwaited
<1>2. Tried => Tried'
    BY StillTried
<1> QED
    BY <1>1, <1>2 DEF Attended

-----------------------------------------------------------------------------
(* The common cases of a step.                                               *)

LEMMA CalmGoes ==
    ASSUME Safe, NEW r \in Runners, NEW s, At(r, s), s \notin {"stop_callouts", "epoch_wait"},
           NEW list \in Seq(Steps), Goes(r, list),
           ToSet(list) \cap {"epoch_wait", "stop_callouts", "disable", "retry", "initiation",
                             "create"} = {},
           enabled' = enabled, enabled \/ pending' \subseteq pending
    PROVE  Safe' /\ Moves(r, s, Into(r, list), OutOf(r, list))
<1>1. Typed
    BY DEF Safe
<1>2. Moves(r, s, Into(r, list), OutOf(r, list))
    BY <1>1, GoesMoves
<1>3. Into(r, list) \subseteq ToSet(list) /\ OutOf(r, list) \subseteq ToSet(list)
    BY DEF Into, OutOf
<1>4. Ordinary(r, s, Into(r, list), OutOf(r, list))
    BY <1>2, <1>3 DEF Ordinary
<1> QED
    BY <1>2, <1>4, OrdinarySound

\* A thread that was idle may have been at any step before.
LEMMA CalmBegins ==
    ASSUME Safe, NEW r \in Runners, NEW list \in Seq(Steps), Begins(r, list),
           "epoch_wait" \notin ToSet(list),
           r # Clock => ToSet(list) \cap {"retry", "initiation", "create"} = {},
           enabled' = enabled, enabled \/ pending' \subseteq pending
    PROVE  Safe' /\ Moves(r, "clear", {}, ToSet(list))
<1>1. Typed
    BY DEF Safe
<1>2. Moves(r, "clear", {}, ToSet(list))
    BY <1>1, BeginsMoves
<1>3. Ordinary(r, "clear", {}, ToSet(list))
    BY <1>2 DEF Ordinary
<1> QED
    BY <1>2, <1>3, OrdinarySound

LEMMA CalmStill ==
    ASSUME Safe, UNCHANGED todo, enabled' = enabled, enabled \/ pending' \subseteq pending
    PROVE  Safe' /\ Moves(Clock, "clear", {}, {})
<1>1. Typed /\ Clock \in Runners
    BY KindsOfRunners DEF Safe
<1>2. Moves(Clock, "clear", {}, {})
    BY <1>1, StandsStill
<1>3. Ordinary(Clock, "clear", {}, {})
    BY <1>2 DEF Ordinary
<1> QED
    BY <1>1, <1>2, <1>3, OrdinarySound

\* What a step leaves of the packets that wait, when it takes the callout of
\* the retry from none of them.
LEMMA Undisturbed ==
    ASSUME IInv, NEW r \in Runners, NEW s, NEW ins, NEW out, Moves(r, s, ins, out),
           s \notin Coming, s \notin Trying, s # "stop_callouts",
           enabled' = enabled, staged' = staged, forgotten' = forgotten,
           "retry_handshake" \in pending => "retry_handshake" \in pending'
    PROVE  Attended'
    BY Quiet DEF IInv, Safe

LEMMA NothingWaits ==
    ASSUME staged' = FALSE
    PROVE  Attended'
    BY DEF Attended

LEMMA Lists ==
    /\ <<>> \in Seq(Steps) /\ <<"create">> \in Seq(Steps) /\ <<"initiated">> \in Seq(Steps)
    /\ <<"want_initiation">> \in Seq(Steps) /\ <<"send_staged">> \in Seq(Steps)
    /\ <<"initiation">> \in Seq(Steps) /\ <<"send_staged", "again">> \in Seq(Steps)
    /\ <<"retry">> \in Seq(Steps) /\ <<"complete", "received">> \in Seq(Steps)
    /\ <<"enable">> \in Seq(Steps) /\ <<"disable", "clear">> \in Seq(Steps)
    /\ <<"epoch_wait", "stop_callouts">> \in Seq(Steps)
    BY DEF Steps

-----------------------------------------------------------------------------
(* The steps.                                                                *)

LEMMA InitiallySound ==
    ASSUME Init
    PROVE  IInv
<1>1. todo = [r \in Runners |-> [epoch |-> <<>>, rest |-> <<>>]] /\ pending = {} /\ staged = FALSE
    BY DEF Init
<1>2. Typed
    BY <1>1, Lists DEF Typed
<1>3. \A r \in Runners : Ahead(r) = {} /\ Inside(r) = {} /\ After(r) = {} /\ Later(r) = {}
    BY <1>1, <1>2, IdleHasNothing DEF Idle
<1>4. Control \in Runners
    BY KindsOfRunners
<1>5. Ordered
    BY <1>3, <1>4 DEF Ordered
<1>6. Stopped /\ Silent /\ Attended
    BY <1>1, <1>3 DEF Stopped, Silent, Attended
<1> QED
    BY <1>2, <1>5, <1>6 DEF IInv, Safe

LEMMA EnterSound ==
    ASSUME IInv, NEW r \in Runners, Enter(r)
    PROVE  IInv'
<1>1. Typed /\ Safe /\ Attended
    BY DEF IInv, Safe
<1>2. enabled' = enabled /\ staged' = staged
    BY DEF Enter
<1>3. CASE ~enabled
    <2>1. PICK event \in {"complete", "want_initiation"} :
             /\ At(r, event) /\ GoesInside(r, <<>>) /\ pending' = pending
             /\ forgotten' = (forgotten \/ (event = "want_initiation" /\ staged))
        BY <1>3 DEF Enter, Enters, Section
    <2>2. Moves(r, event, {}, {})
        <3>1. Moves(r, event, ToSet(<<>>), {})
            BY <1>1, <2>1, GoesInsideMoves, Lists
        <3> QED
            BY <3>1, ShortLists
    <2>3. Ordinary(r, event, {}, {})
        BY <1>2, <2>1, <2>2 DEF Ordinary
    <2>4. Safe'
        BY <1>1, <2>3, OrdinarySound
    <2>5. CASE event = "want_initiation"
        <3>1. ~(staged' /\ ~forgotten')
            BY <1>2, <2>1, <2>5
        <3> QED
            BY <2>4, <3>1 DEF IInv, Attended
    <2>6. CASE event = "complete"
        <3>1. Attended'
            <4>1. event \notin Coming /\ event \notin Trying /\ event # "stop_callouts"
                BY <2>6 DEF Coming, Trying
            <4>2. staged' /\ ~forgotten' => staged /\ ~forgotten
                BY <1>2, <2>1
            <4> QED
                BY <1>1, <1>2, <2>1, <2>2, <4>1, <4>2, Quiet
        <3> QED
            BY <2>4, <3>1 DEF IInv
    <2> QED
        BY <2>1, <2>5, <2>6
<1>4. CASE enabled
    <2>1. \/ At(r, "complete") /\ GoesInside(r, <<"send_staged", "again">>)
          \/ At(r, "want_initiation") /\ GoesInside(r, <<"initiation">>)
        BY <1>4 DEF Enter, Enters, Section
    <2>2. CASE At(r, "complete") /\ GoesInside(r, <<"send_staged", "again">>)
        <3>1. Moves(r, "complete", {"send_staged", "again"}, {})
            <4>1. Moves(r, "complete", ToSet(<<"send_staged", "again">>), {})
                BY <1>1, <2>2, GoesInsideMoves, Lists
            <4> QED
                BY <4>1, ShortLists
        <3>2. Ordinary(r, "complete", {"send_staged", "again"}, {})
            BY <1>2, <1>4, <3>1 DEF Ordinary
        <3>3. Safe'
            BY <1>1, <3>2, OrdinarySound
        <3>4. Awaited'
            <4>1. "send_staged" \in {"send_staged", "again"} \cup {} /\ "send_staged" \in Coming
                BY DEF Coming
            <4> QED
                BY <1>1, <3>1, <4>1, NowThere
        <3> QED
            BY <3>3, <3>4 DEF IInv, Attended
    <2>3. CASE At(r, "want_initiation") /\ GoesInside(r, <<"initiation">>)
        <3>1. Moves(r, "want_initiation", {"initiation"}, {})
            <4>1. Moves(r, "want_initiation", ToSet(<<"initiation">>), {})
                BY <1>1, <2>3, GoesInsideMoves, Lists
            <4> QED
                BY <4>1, ShortLists
        <3>2. Ordinary(r, "want_initiation", {"initiation"}, {})
            BY <1>2, <1>4, <3>1 DEF Ordinary
        <3>3. Safe'
            BY <1>1, <3>2, OrdinarySound
        <3>4. Tried'
            <4>1. "initiation" \in {"initiation"} \cup {} /\ "initiation" \in Trying
                BY DEF Trying
            <4> QED
                BY <1>1, <3>1, <4>1, NowThere
        <3> QED
            BY <1>2, <1>4, <3>3, <3>4 DEF IInv, Attended
    <2> QED
        BY <2>1, <2>2, <2>3
<1> QED
    BY <1>3, <1>4

\* Callouts are set only where p_enabled is set, and the retry is kept.
LEMMA CalloutsSet ==
    ASSUME NEW set
    PROVE  /\ ~enabled => If(set) = {} /\ Derived = {} /\ DataSent = {} /\ Traversal = {}
           /\ AuthenticatedSent(set) \subseteq set \cup Traversal
           /\ AuthenticatedReceived(set) \subseteq set \cup Traversal
           /\ "retry_handshake" \in set =>
                 /\ "retry_handshake" \in AuthenticatedSent(set)
                 /\ "retry_handshake" \in AuthenticatedReceived(set)
<1>1. ~enabled => If(set) = {} /\ Derived = {} /\ DataSent = {} /\ Traversal = {}
    BY DEF If, Derived, DataSent, Traversal
<1>2. /\ AuthenticatedSent(set) = (set \ {"send_keepalive"}) \cup Traversal
      /\ AuthenticatedReceived(set) = (set \ {"new_handshake"}) \cup Traversal
    BY DEF AuthenticatedSent, AuthenticatedReceived
<1> HIDE DEF Traversal
<1> QED
    BY <1>1, <1>2

LEMMA InitiatedSound ==
    ASSUME IInv, NEW r \in Runners, Initiated(r)
    PROVE  IInv'
<1>1. Typed /\ Safe /\ Attended
    BY DEF IInv, Safe
<1>2. /\ At(r, "initiated") /\ Goes(r, <<>>) /\ enabled' = enabled /\ staged' = staged
      /\ pending' = pending \cup If({"retry_handshake"}) /\ forgotten' = (forgotten /\ ~enabled)
    BY DEF Initiated
<1>3. ToSet(<<>>) = {} /\ <<>> \in Seq(Steps)
    BY ShortLists, Lists
<1>4. enabled \/ pending' \subseteq pending
    BY <1>2, CalloutsSet
<1>5. Safe' /\ Moves(r, "initiated", Into(r, <<>>), OutOf(r, <<>>))
    BY <1>1, <1>2, <1>3, <1>4, CalmGoes
<1>6. CASE enabled
    <2>1. Tried'
        BY <1>2, <1>6 DEF If, Tried
    <2> QED
        BY <1>2, <1>5, <1>6, <2>1 DEF IInv, Attended
<1>7. CASE ~enabled
    <2>1. Awaited => Awaited'
        <3>1. "initiated" \notin Coming /\ "initiated" # "stop_callouts"
            BY DEF Coming
        <3> QED
            BY <1>1, <1>5, <3>1, StillAwaited
    <2>2. staged' /\ ~forgotten' => staged /\ ~forgotten
        BY <1>2, <1>7
    <2> QED
        BY <1>1, <1>5, <1>7, <2>1, <2>2 DEF IInv, Attended
<1> QED
    BY <1>6, <1>7

LEMMA AgainSound ==
    ASSUME IInv, NEW r \in Runners, Again(r)
    PROVE  IInv'
<1>1. Typed /\ Safe /\ Attended
    BY DEF IInv, Safe
<1>2. /\ At(r, "again") /\ Goes(r, <<>>) /\ enabled' = enabled /\ staged' = staged
      /\ pending' = pending \cup If({"send_keepalive" : a \in {another} \ {FALSE}})
      /\ forgotten' = forgotten
    BY DEF Again
<1>3. ToSet(<<>>) = {} /\ <<>> \in Seq(Steps)
    BY ShortLists, Lists
<1>4. enabled \/ pending' \subseteq pending
    BY <1>2 DEF If
<1>5. Safe' /\ Moves(r, "again", Into(r, <<>>), OutOf(r, <<>>))
    BY <1>1, <1>2, <1>3, <1>4, CalmGoes
<1>6. Attended'
    <2>1. "again" \notin Coming /\ "again" \notin Trying /\ "again" # "stop_callouts"
        BY DEF Coming, Trying
    <2> QED
        BY <1>2, <1>5, <2>1, Undisturbed
<1> QED
    BY <1>5, <1>6 DEF IInv

LEMMA SendStagedSound ==
    ASSUME IInv, NEW r \in Runners, SendStaged(r)
    PROVE  IInv'
<1>1. Typed /\ Safe
    BY DEF IInv, Safe
<1>2. /\ At(r, "send_staged") /\ enabled' = enabled /\ pending' = pending
      /\ (staged' = FALSE /\ Goes(r, <<>>)) \/ Goes(r, <<"want_initiation">>)
    BY DEF SendStaged, peerVars
<1>3. CASE staged' = FALSE /\ Goes(r, <<>>)
    <2>1. ToSet(<<>>) = {} /\ <<>> \in Seq(Steps)
        BY ShortLists, Lists
    <2>2. Safe'
        BY <1>1, <1>2, <1>3, <2>1, CalmGoes
    <2> QED
        BY <1>3, <2>2, NothingWaits DEF IInv
<1>4. CASE Goes(r, <<"want_initiation">>)
    <2> DEFINE list == <<"want_initiation">>
    <2>1. ToSet(list) = {"want_initiation"} /\ list \in Seq(Steps)
        BY ShortLists, Lists
    <2>2. Goes(r, list)
        BY <1>4
    <2> HIDE DEF list
    <2>3. Safe' /\ Moves(r, "send_staged", Into(r, list), OutOf(r, list))
        BY <1>1, <1>2, <2>1, <2>2, CalmGoes
    <2>4. "want_initiation" \in Into(r, list) \cup OutOf(r, list) /\ "want_initiation" \in Coming
        BY <2>1 DEF Into, OutOf, Coming
    <2>5. Awaited'
        BY <1>1, <2>3, <2>4, NowThere
    <2> QED
        BY <2>3, <2>5 DEF IInv, Attended
<1> QED
    BY <1>2, <1>3, <1>4

\* A handshake that is not begun, at the step s of a section or a handler.
LEMMA NotBegunSound ==
    ASSUME IInv, NEW r \in Runners, NEW s \in {"initiation", "retry", "create"}, At(r, s), NotBegun(r),
           UNCHANGED <<enabled, pending, staged>>
    PROVE  IInv'
<1>1. Typed /\ Safe /\ Attended
    BY DEF IInv, Safe
<1>2. Goes(r, <<>>) /\ forgotten' = (forgotten \/ (staged /\ "retry_handshake" \notin pending))
    BY DEF NotBegun
<1>3. s \notin Coming /\ s # "stop_callouts" /\ s # "epoch_wait"
    BY DEF Coming
<1>4. ToSet(<<>>) = {} /\ <<>> \in Seq(Steps)
    BY ShortLists, Lists
<1>5. Safe' /\ Moves(r, s, Into(r, <<>>), OutOf(r, <<>>))
    BY <1>1, <1>2, <1>3, <1>4, CalmGoes
<1>6. Awaited => Awaited'
    BY <1>1, <1>3, <1>5, StillAwaited
<1>7. staged' /\ ~forgotten' => staged /\ ~forgotten /\ "retry_handshake" \in pending
    BY <1>2
<1>8. "retry_handshake" \in pending => Tried'
    BY DEF Tried
<1> QED
    BY <1>1, <1>5, <1>6, <1>7, <1>8 DEF IInv, Attended

\* wg_timers_run_send_initiation, at the step s.
LEMMA RunSendInitiationSound ==
    ASSUME IInv, NEW r \in Runners, NEW s \in {"initiation", "retry"}, At(r, s), RunSendInitiation(r),
           UNCHANGED <<enabled, pending, staged>>
    PROVE  IInv'
<1>1. Typed /\ Safe /\ Attended /\ Ordered
    BY DEF IInv, Safe
<1>2. s \notin Coming /\ s # "stop_callouts" /\ s # "epoch_wait" /\ s # "clear"
    BY DEF Coming
<1>3. CASE NotBegun(r)
    BY <1>3, NotBegunSound
<1>4. CASE Goes(r, <<"create">>) /\ UNCHANGED forgotten
    <2> DEFINE list == <<"create">>
    <2>1. ToSet(list) = {"create"} /\ list \in Seq(Steps)
        BY ShortLists, Lists
    <2>2. Goes(r, list)
        BY <1>4
    <2> HIDE DEF list
    <2>3. Moves(r, s, Into(r, list), OutOf(r, list))
        BY <1>1, <2>1, <2>2, GoesMoves
    <2>4. s \in Ahead(r) /\ (InEpoch(r) => s \in Inside(r)) /\ (~InEpoch(r) => s \in After(r))
        BY <1>1, AtStep
    <2>5. r # Clock => InEpoch(r) /\ s = "initiation"
        BY <1>1, <2>4 DEF Ordered
    <2>6. /\ Into(r, list) \subseteq {"create"} /\ OutOf(r, list) \subseteq {"create"}
          /\ InEpoch(r) => OutOf(r, list) = {}
          /\ "create" \in Into(r, list) \cup OutOf(r, list)
        BY <2>1 DEF Into, OutOf
    <2>7. Ordinary(r, s, Into(r, list), OutOf(r, list))
        BY <1>2, <2>3, <2>4, <2>5, <2>6 DEF Ordinary
    <2>8. Safe'
        BY <1>1, <2>7, OrdinarySound
    <2>9. Awaited => Awaited'
        BY <1>1, <1>2, <2>3, StillAwaited
    <2>10. Tried'
        <3>1. "create" \in Trying
            BY DEF Trying
        <3> QED
            BY <1>1, <2>3, <2>6, <3>1, NowThere
    <2>11. staged' /\ ~forgotten' => staged /\ ~forgotten
        BY <1>4
    <2> QED
        BY <1>1, <2>8, <2>9, <2>10, <2>11 DEF IInv, Attended
<1> QED
    BY <1>3, <1>4 DEF RunSendInitiation

LEMMA InitiationSound ==
    ASSUME IInv, NEW r \in Runners, Initiation(r)
    PROVE  IInv'
    BY RunSendInitiationSound DEF Initiation

LEMMA RetryHandshakeSound ==
    ASSUME IInv, NEW r \in Runners, RetryHandshake(r)
    PROVE  IInv'
    BY RunSendInitiationSound DEF RetryHandshake

LEMMA CreateSound ==
    ASSUME IInv, NEW r \in Runners, Create(r)
    PROVE  IInv'
<1> DEFINE list == <<"initiated">>
<1>1. Typed /\ Safe /\ Attended
    BY DEF IInv, Safe
<1>2. /\ At(r, "create") /\ Goes(r, list) /\ enabled' = enabled /\ staged' = staged
      /\ pending' = AuthenticatedSent(pending) /\ forgotten' = forgotten
    BY DEF Create
<1>3. ToSet(list) = {"initiated"} /\ list \in Seq(Steps)
    BY ShortLists, Lists
<1> HIDE DEF list
<1>4. enabled \/ pending' \subseteq pending
    BY <1>2, CalloutsSet
<1>5. Safe' /\ Moves(r, "create", Into(r, list), OutOf(r, list))
    BY <1>1, <1>2, <1>3, <1>4, CalmGoes
<1>6. Awaited => Awaited'
    <2>1. "create" \notin Coming /\ "create" # "stop_callouts"
        BY DEF Coming
    <2> QED
        BY <1>1, <1>5, <2>1, StillAwaited
<1>7. Tried'
    <2>1. "initiated" \in Into(r, list) \cup OutOf(r, list) /\ "initiated" \in Trying
        BY <1>3 DEF Into, OutOf, Trying
    <2> QED
        BY <1>1, <1>5, <2>1, NowThere
<1> QED
    BY <1>1, <1>2, <1>5, <1>6, <1>7 DEF IInv, Attended

LEMMA CreateRefusedSound ==
    ASSUME IInv, NEW r \in Runners, CreateRefused(r)
    PROVE  IInv'
    BY NotBegunSound DEF CreateRefused, peerVars

LEMMA GiveUpSound ==
    ASSUME IInv, NEW r \in Runners, GiveUp(r)
    PROVE  IInv'
<1>1. Safe
    BY DEF IInv
<1>2. /\ At(r, "retry") /\ Goes(r, <<>>) /\ enabled' = enabled /\ staged' = FALSE
      /\ pending' = (pending \ {"send_keepalive"}) \cup Derived
    BY DEF GiveUp
<1>3. ToSet(<<>>) = {} /\ <<>> \in Seq(Steps)
    BY ShortLists, Lists
<1>4. enabled \/ pending' \subseteq pending
    BY <1>2, CalloutsSet
<1>5. Safe'
    BY <1>1, <1>2, <1>3, <1>4, CalmGoes
<1> QED
    BY <1>2, <1>5, NothingWaits DEF IInv

LEMMA AnyReceivedKeeps ==
    ASSUME AnyReceived
    PROVE  /\ enabled \/ pending' \subseteq pending
           /\ "retry_handshake" \in pending => "retry_handshake" \in pending'
<1>1. PICK data \in {{}, If({"send_keepalive"})} : pending' = AuthenticatedReceived(pending) \cup data
    BY DEF AnyReceived
<1>2. ~enabled => data = {}
    BY <1>1 DEF If
<1> QED
    BY <1>1, <1>2, CalloutsSet

LEMMA ReceivedSound ==
    ASSUME IInv, NEW r \in Runners, Received(r)
    PROVE  IInv'
<1>1. Safe
    BY DEF IInv
<1>2. /\ At(r, "received") /\ Goes(r, <<>>) /\ enabled' = enabled /\ staged' = staged
      /\ AnyReceived /\ forgotten' = forgotten
    BY DEF Received
<1>3. ToSet(<<>>) = {} /\ <<>> \in Seq(Steps)
    BY ShortLists, Lists
<1>4. /\ enabled \/ pending' \subseteq pending
      /\ "retry_handshake" \in pending => "retry_handshake" \in pending'
    BY <1>2, AnyReceivedKeeps
<1>5. Safe' /\ Moves(r, "received", Into(r, <<>>), OutOf(r, <<>>))
    BY <1>1, <1>2, <1>3, <1>4, CalmGoes
<1>6. Attended'
    <2>1. "received" \notin Coming /\ "received" \notin Trying /\ "received" # "stop_callouts"
        BY DEF Coming, Trying
    <2> QED
        BY <1>2, <1>4, <1>5, <2>1, Undisturbed
<1> QED
    BY <1>5, <1>6 DEF IInv

-----------------------------------------------------------------------------
(* The handlers of the callouts and what comes and goes.                     *)

LEMMA Keepalives ==
    PersistentKeepalive \in Seq(Steps) /\ ToSet(PersistentKeepalive) \subseteq {"send_staged"}
<1>1. CASE interval
    BY <1>1, Lists, ShortLists DEF PersistentKeepalive
<1>2. CASE ~interval
    BY <1>2, Lists, ShortLists DEF PersistentKeepalive
<1> QED
    BY <1>1, <1>2

LEMMA ClearIsNone == "clear" \notin Coming /\ "clear" \notin Trying /\ "clear" # "stop_callouts"
    BY DEF Coming, Trying

LEMMA FireSound ==
    ASSUME IInv, NEW c \in Callouts, Fire(c)
    PROVE  IInv'
<1>1. Typed /\ Safe /\ Attended /\ Clock \in Runners
    BY KindsOfRunners DEF IInv, Safe
<1>2. /\ c \in pending /\ pending' = pending \ {c}
      /\ enabled' = enabled /\ staged' = staged /\ forgotten' = forgotten
      /\ c = "zero_key_material" => UNCHANGED todo
      /\ c # "zero_key_material" => Begins(Clock, Handler[c])
    BY DEF Fire
<1>3. CASE c = "zero_key_material"
    <2>1. Safe' /\ Moves(Clock, "clear", {}, {})
        BY <1>1, <1>2, <1>3, CalmStill
    <2>2. Attended'
        BY <1>1, <1>2, <1>3, <2>1, ClearIsNone, Undisturbed
    <2> QED
        BY <2>1, <2>2 DEF IInv
<1>4. CASE c = "retry_handshake"
    <2> DEFINE list == <<"retry">>
    <2>1. Begins(Clock, list)
        BY <1>2, <1>4 DEF Handler
    <2>2. list \in Seq(Steps) /\ ToSet(list) = {"retry"}
        BY Lists, ShortLists
    <2> HIDE DEF list
    <2>3. Safe' /\ Moves(Clock, "clear", {}, {"retry"})
        BY <1>1, <1>2, <2>1, <2>2, CalmBegins
    <2>4. Awaited => Awaited'
        BY <1>1, <2>3, ClearIsNone, StillAwaited
    <2>5. Tried'
        <3>1. "retry" \in {} \cup {"retry"} /\ "retry" \in Trying
            BY DEF Trying
        <3> QED
            BY <1>1, <2>3, <3>1, NowThere
    <2> QED
        BY <1>1, <1>2, <2>3, <2>4, <2>5 DEF IInv, Attended
<1>5. CASE c \in {"new_handshake", "send_keepalive", "persistent_keepalive"}
    <2>1. PICK list \in Seq(Steps) : Begins(Clock, list) /\ "epoch_wait" \notin ToSet(list)
        <3>1. CASE c = "new_handshake"
            <4>1. Begins(Clock, <<"initiation">>)
                BY <1>2, <3>1 DEF Handler
            <4>2. <<"initiation">> \in Seq(Steps) /\ ToSet(<<"initiation">>) = {"initiation"}
                BY Lists, ShortLists
            <4>3. "epoch_wait" \notin ToSet(<<"initiation">>)
                BY <4>2
            <4> QED
                BY Zenon, <4>1, <4>2, <4>3
        <3>2. CASE c = "send_keepalive"
            <4>1. Begins(Clock, <<"send_staged", "again">>)
                BY <1>2, <3>2 DEF Handler
            <4>2. <<"send_staged", "again">> \in Seq(Steps) /\ ToSet(<<"send_staged", "again">>) = {"send_staged", "again"}
                BY Lists, ShortLists
            <4>3. "epoch_wait" \notin ToSet(<<"send_staged", "again">>)
                BY <4>2
            <4> QED
                BY Zenon, <4>1, <4>2, <4>3
        <3>3. CASE c = "persistent_keepalive"
            BY <1>2, <3>3, Keepalives DEF Handler
        <3> QED
            BY <1>5, <3>1, <3>2, <3>3
    <2>2. Safe' /\ Moves(Clock, "clear", {}, ToSet(list))
        BY <1>1, <1>2, <2>1, CalmBegins
    <2>3. Attended'
        BY <1>1, <1>2, <1>5, <2>2, ClearIsNone, Undisturbed
    <2> QED
        BY <2>2, <2>3 DEF IInv
<1> QED
    BY <1>3, <1>4, <1>5 DEF Callouts

\* A packet brings a thread to steps that start no handshake outside the epoch.
LEMMA ArrivalSound ==
    ASSUME IInv, NEW r \in Runners, NEW list \in Seq(Steps), Begins(r, list),
           ToSet(list) \cap {"epoch_wait", "retry", "initiation", "create"} = {},
           enabled' = enabled, staged' = staged, forgotten' = forgotten,
           enabled \/ pending' \subseteq pending,
           "retry_handshake" \in pending => "retry_handshake" \in pending'
    PROVE  IInv'
<1>1. Typed /\ Safe /\ Attended
    BY DEF IInv, Safe
<1>2. Safe' /\ Moves(r, "clear", {}, ToSet(list))
    BY <1>1, CalmBegins
<1>3. Attended'
    BY <1>1, <1>2, ClearIsNone, Undisturbed
<1> QED
    BY <1>2, <1>3 DEF IInv

LEMMA XmitSound ==
    ASSUME IInv, NEW t \in Threads, Xmit(t)
    PROVE  IInv'
<1>1. /\ t \in Runners /\ <<"send_staged">> \in Seq(Steps) /\ ToSet(<<"send_staged">>) = {"send_staged"}
    BY KindsOfRunners, Lists, ShortLists
<1>2. /\ Begins(t, <<"send_staged">>) /\ enabled' = enabled /\ staged' = staged
      /\ forgotten' = forgotten /\ pending' = pending
    BY DEF Xmit, peerVars
<1> QED
    BY <1>1, <1>2, ArrivalSound

LEMMA Asked ==
    ASSUME NEW ask \in Asks \cup {<<>>, <<"want_initiation">>}
    PROVE  ask \in Seq(Steps) /\ ToSet(ask) \subseteq {"want_initiation"}
<1>1. ask = <<>> \/ ask = <<"want_initiation">>
    BY DEF Asks
<1> QED
    BY <1>1, Lists, ShortLists

LEMMA DeliverOutSound ==
    ASSUME IInv, NEW t \in Threads, DeliverOut(t)
    PROVE  IInv'
<1>1. PICK data \in {{}, DataSent} : pending' = AuthenticatedSent(pending) \cup data
    BY DEF DeliverOut
<1>2. PICK ask \in Asks : Begins(t, ask)
    BY DEF DeliverOut
<1>3. enabled' = enabled /\ staged' = staged /\ forgotten' = forgotten
    BY DEF DeliverOut
<1>4. /\ enabled \/ pending' \subseteq pending
      /\ "retry_handshake" \in pending => "retry_handshake" \in pending'
    BY <1>1, CalloutsSet
<1>5. ask \in Seq(Steps) /\ ToSet(ask) \subseteq {"want_initiation"} /\ t \in Runners
    BY Asked, KindsOfRunners
<1>6. ToSet(ask) \cap {"epoch_wait", "retry", "initiation", "create"} = {}
    BY <1>5
<1> QED
    BY <1>2, <1>3, <1>4, <1>5, <1>6, ArrivalSound

LEMMA DeliverInSound ==
    ASSUME IInv, NEW t \in Threads, DeliverIn(t)
    PROVE  IInv'
<1>1. enabled' = enabled /\ staged' = staged /\ forgotten' = forgotten /\ t \in Runners
    BY KindsOfRunners DEF DeliverIn
<1>2. CASE AnyReceived /\ \E ask \in Asks : Begins(t, ask)
    <2>1. PICK ask \in Asks : Begins(t, ask)
        BY <1>2
    <2>2. /\ enabled \/ pending' \subseteq pending
          /\ "retry_handshake" \in pending => "retry_handshake" \in pending'
        BY <1>2, AnyReceivedKeeps
    <2>3. ask \in Seq(Steps) /\ ToSet(ask) \subseteq {"want_initiation"}
        BY Asked
    <2>4. ToSet(ask) \cap {"epoch_wait", "retry", "initiation", "create"} = {}
        BY <2>3
    <2> QED
        BY <1>1, <2>1, <2>2, <2>3, <2>4, ArrivalSound
<1>3. CASE /\ \E ask \in {<<>>, <<"want_initiation">>} : Begins(t, <<"complete", "received">> \o ask)
           /\ pending' = pending
    <2> DEFINE first == <<"complete", "received">>
    <2>1. PICK ask \in {<<>>, <<"want_initiation">>} : Begins(t, first \o ask)
        BY <1>3
    <2>2. ask \in Seq(Steps) /\ ToSet(ask) \subseteq {"want_initiation"}
        BY Asked
    <2>3. first \in Seq(Steps) /\ ToSet(first) = {"complete", "received"}
        BY Lists, ShortLists
    <2> HIDE DEF first
    <2>4. first \o ask \in Seq(Steps) /\ ToSet(first \o ask) = ToSet(first) \cup ToSet(ask)
        BY <2>2, <2>3, Concatenated
    <2>5. ToSet(first \o ask) \cap {"epoch_wait", "retry", "initiation", "create"} = {}
        BY <2>2, <2>3, <2>4
    <2> QED
        BY <1>1, <1>3, <2>1, <2>4, <2>5, ArrivalSound
<1> QED
    BY <1>2, <1>3 DEF DeliverIn

LEMMA HandshakeInitiationSound ==
    ASSUME IInv, NEW t \in Threads, HandshakeInitiation(t)
    PROVE  IInv'
<1>1. Typed /\ Safe /\ Attended /\ Clock \in Runners
    BY KindsOfRunners DEF IInv, Safe
<1>2. /\ enabled' = enabled /\ staged' = staged /\ forgotten' = forgotten /\ UNCHANGED todo
      /\ pending' = AuthenticatedReceived(AuthenticatedSent(pending \cup Derived))
    BY DEF HandshakeInitiation
<1>3. PICK p : p = AuthenticatedSent(pending \cup Derived)
    OBVIOUS
<1>4. /\ enabled \/ p \subseteq pending
      /\ "retry_handshake" \in pending => "retry_handshake" \in p
    BY <1>3, CalloutsSet
<1>5. /\ enabled \/ pending' \subseteq pending
      /\ "retry_handshake" \in pending => "retry_handshake" \in pending'
    BY <1>2, <1>3, <1>4, CalloutsSet
<1>6. Safe' /\ Moves(Clock, "clear", {}, {})
    BY <1>1, <1>2, <1>5, CalmStill
<1>7. Attended'
    BY <1>1, <1>2, <1>5, <1>6, ClearIsNone, Undisturbed
<1> QED
    BY <1>6, <1>7 DEF IInv

LEMMA HandshakeResponseSound ==
    ASSUME IInv, NEW t \in Threads, HandshakeResponse(t)
    PROVE  IInv'
<1>1. /\ t \in Runners /\ <<"complete", "received">> \in Seq(Steps)
      /\ ToSet(<<"complete", "received">>) = {"complete", "received"}
    BY KindsOfRunners, Lists, ShortLists
<1>2. /\ Begins(t, <<"complete", "received">>) /\ enabled' = enabled /\ staged' = staged
      /\ forgotten' = forgotten /\ pending' = pending \cup Derived
    BY DEF HandshakeResponse
<1>3. /\ enabled \/ pending' \subseteq pending
      /\ "retry_handshake" \in pending => "retry_handshake" \in pending'
    BY <1>2, CalloutsSet
<1> QED
    BY <1>1, <1>2, <1>3, ArrivalSound

LEMMA ExpireSound ==
    ASSUME IInv, Expire
    PROVE  IInv'
<1>1. Typed /\ Safe /\ Attended /\ Clock \in Runners
    BY KindsOfRunners DEF IInv, Safe
<1>2. UNCHANGED <<enabled, staged, forgotten, todo, pending>>
    BY DEF Expire, peerVars
<1>3. Safe' /\ Moves(Clock, "clear", {}, {})
    BY <1>1, <1>2, CalmStill
<1>4. Attended'
    BY <1>1, <1>2, <1>3, ClearIsNone, Undisturbed
<1> QED
    BY <1>3, <1>4 DEF IInv

-----------------------------------------------------------------------------
(* The interface.                                                            *)

LEMMA UpSound ==
    ASSUME IInv, Up
    PROVE  IInv'
<1>1. Control \in Runners /\ <<"enable">> \in Seq(Steps) /\ ToSet(<<"enable">>) = {"enable"}
    BY KindsOfRunners, Lists, ShortLists
<1>2. Begins(Control, <<"enable">>) /\ UNCHANGED <<enabled, staged, forgotten, pending>>
    BY DEF Up, peerVars
<1> QED
    BY <1>1, <1>2, ArrivalSound

LEMMA DownSound ==
    ASSUME IInv, Down
    PROVE  IInv'
<1>1. Safe /\ Control \in Runners /\ <<"disable", "clear">> \in Seq(Steps)
      /\ ToSet(<<"disable", "clear">>) = {"disable", "clear"}
    BY KindsOfRunners, Lists, ShortLists DEF IInv
<1>2. Begins(Control, <<"disable", "clear">>) /\ UNCHANGED <<enabled, pending>> /\ staged' = FALSE
    BY DEF Down, peerVars
<1>3. Safe'
    BY <1>1, <1>2, CalmBegins
<1> QED
    BY <1>2, <1>3, NothingWaits DEF IInv

LEMMA KeepaliveIntervalSound ==
    ASSUME IInv, KeepaliveInterval
    PROVE  IInv'
<1>1. Control \in Runners /\ UNCHANGED <<enabled, staged, forgotten, pending>>
    BY KindsOfRunners DEF KeepaliveInterval
<1>2. PICK list : list = IF enabled /\ ~interval THEN <<"send_staged">> ELSE <<>>
    OBVIOUS
<1>3. Begins(Control, list)
    BY <1>2 DEF KeepaliveInterval
<1>4. list \in Seq(Steps) /\ ToSet(list) \subseteq {"send_staged"}
    <2>1. list = <<"send_staged">> \/ list = <<>>
        BY <1>2
    <2> QED
        BY <2>1, Lists, ShortLists
<1>5. ToSet(list) \cap {"epoch_wait", "retry", "initiation", "create"} = {}
    BY <1>4
<1> QED
    BY <1>1, <1>3, <1>4, <1>5, ArrivalSound

\* The steps of wg_up and wg_down are not taken inside the epoch.
LEMMA ControlAt ==
    ASSUME Typed, Ordered, NEW s \in {"epoch_wait", "stop_callouts", "disable"}, At(Control, s)
    PROVE  /\ ~InEpoch(Control) /\ Inside(Control) = {} /\ Ahead(Control) = After(Control)
           /\ After(Control) = {s} \cup Later(Control)
<1>1. Control \in Runners
    BY KindsOfRunners
<1>2. ~InEpoch(Control)
    BY <1>1, AtStep DEF Ordered
<1>3. todo[Control].rest # <<>> /\ s = Head(todo[Control].rest) /\ todo[Control].rest \in Seq(Steps)
    BY <1>1, <1>2, AtStep, Parts
<1>4. Inside(Control) = {}
    BY <1>2, ShortLists DEF InEpoch, Inside
<1>5. After(Control) = {s} \cup Later(Control)
    BY <1>3, HeadAndTail DEF After, Later
<1> QED
    BY <1>1, <1>2, <1>4, <1>5, AheadParts

LEMMA EpochWaitSound ==
    ASSUME IInv, EpochWait
    PROVE  IInv'
<1>1. Typed /\ Ordered /\ Stopped /\ Silent /\ Attended /\ Control \in Runners
    BY KindsOfRunners DEF IInv, Safe
<1>2. /\ At(Control, "epoch_wait") /\ Goes(Control, <<>>)
      /\ \A r \in Runners \ {Control} : ~InEpoch(r)
      /\ UNCHANGED <<enabled, pending, staged, forgotten>>
    BY DEF EpochWait, peerVars
<1>3. ~InEpoch(Control) /\ Inside(Control) = {}
    BY <1>1, <1>2, ControlAt
<1>4. Moves(Control, "epoch_wait", {}, {})
    <2>1. Moves(Control, "epoch_wait", Into(Control, <<>>), OutOf(Control, <<>>))
        BY <1>1, <1>2, Lists, GoesMoves
    <2>2. Into(Control, <<>>) = {} /\ OutOf(Control, <<>>) = {}
        BY ShortLists DEF Into, OutOf
    <2> QED
        BY <2>1, <2>2
<1>5. Ordered'
    BY <1>1, <1>4, OrderedKept
<1>6. /\ Typed' /\ Ahead(Control)' \subseteq Ahead(Control)
      /\ Ahead(Control) \ {"epoch_wait"} \subseteq Ahead(Control)'
    BY <1>1, <1>4, MovesParts
<1>7. \A q \in Runners : q # Control => Ahead(q)' = Ahead(q)
    BY <1>1, <1>4, OthersStand
<1>8. ASSUME NEW q \in Runners \ {Clock} PROVE Ahead(q)' \cap {"initiation", "create"} = {}
    <2>1. Inside(q) = {}
        BY <1>2, <1>3, ShortLists DEF InEpoch, Inside
    <2>2. After(q) \cap {"initiation", "create", "retry"} = {} /\ Ahead(q) = Inside(q) \cup After(q)
        BY <1>1, AheadParts DEF Ordered
    <2>3. Ahead(q) \cap {"initiation", "create"} = {}
        BY <2>1, <2>2
    <2> QED
        BY <1>6, <1>7, <2>3
<1>9. "stop_callouts" \in Ahead(Control)'
    <2>1. "epoch_wait" \in Ahead(Control)
        BY <1>1, <1>2, AtStep
    <2> QED
        BY <1>1, <1>6, <2>1 DEF Ordered
<1>10. Stopped' /\ Silent'
    BY <1>8, <1>9 DEF Stopped, Silent
<1>11. Attended'
    BY <1>1, <1>9 DEF Attended, Awaited
<1> QED
    BY <1>5, <1>6, <1>10, <1>11 DEF IInv, Safe

LEMMA EnableSound ==
    ASSUME IInv, Enable
    PROVE  IInv'
<1>1. Typed /\ Ordered /\ Attended /\ Control \in Runners
    BY KindsOfRunners DEF IInv, Safe
<1>2. PICK list \in Seq(Steps) : list = PersistentKeepalive /\ ToSet(list) \subseteq {"send_staged"}
    BY Keepalives
<1>3. /\ At(Control, "enable") /\ Goes(Control, list) /\ enabled' = TRUE
      /\ UNCHANGED <<pending, staged, forgotten>>
    BY <1>2 DEF Enable
<1>4. Moves(Control, "enable", Into(Control, list), OutOf(Control, list))
    BY <1>1, <1>3, GoesMoves
<1>5. Into(Control, list) \subseteq {"send_staged"} /\ OutOf(Control, list) \subseteq {"send_staged"}
    BY <1>2 DEF Into, OutOf
<1>6. Ordered'
    BY <1>1, <1>4, <1>5, OrderedKept
<1>7. Typed'
    BY <1>1, <1>4, MovesParts
<1>8. Stopped' /\ Silent'
    BY <1>3 DEF Stopped, Silent
<1>9. Attended'
    <2>1. "enable" \notin Coming /\ "enable" \notin Trying /\ "enable" # "stop_callouts"
        BY DEF Coming, Trying
    <2> QED
        BY <1>1, <1>3, <1>4, <2>1, Quiet
<1> QED
    BY <1>6, <1>7, <1>8, <1>9 DEF IInv, Safe

LEMMA DisableSound ==
    ASSUME IInv, Disable
    PROVE  IInv'
<1> DEFINE list == <<"epoch_wait", "stop_callouts">>
           x == todo[Control].rest
<1>1. Typed /\ Ordered /\ Control \in Runners
    BY KindsOfRunners DEF IInv, Safe
<1>2. At(Control, "disable") /\ Goes(Control, list) /\ enabled' = FALSE
    BY DEF Disable, Disabled
<1>3. list \in Seq(Steps) /\ ToSet(list) = {"epoch_wait", "stop_callouts"}
    BY Lists, ShortLists
<1>4. /\ ~InEpoch(Control) /\ Inside(Control) = {} /\ Ahead(Control) = After(Control)
      /\ After(Control) = {"disable"} \cup Later(Control)
    BY <1>1, <1>2, ControlAt
<1>5. x # <<>> /\ x \in Seq(Steps) /\ Tail(x) \in Seq(Steps) /\ Later(Control) = ToSet(Tail(x))
    <2>1. x # <<>> /\ x \in Seq(Steps)
        BY <1>1, <1>2, <1>4, AtStep, Parts
    <2> QED
        BY <2>1, HeadAndTail DEF Later
<1>6. todo'[Control].rest = list \o Tail(x)
    BY <1>1, <1>2, <1>4 DEF Goes, Typed
<1>7. ToSet(Tail(list \o Tail(x))) \subseteq {"stop_callouts"} \cup ToSet(Tail(x))
    <2>1. "epoch_wait" \in Steps /\ "stop_callouts" \in Steps
        BY DEF Steps
    <2> DEFINE l == Tail(x)
    <2>2. l \in Seq(Steps)
        BY <1>5
    <2> HIDE DEF l
    <2>3. ToSet(Tail(<<"epoch_wait", "stop_callouts">> \o l)) \subseteq {"stop_callouts"} \cup ToSet(l)
        BY <2>1, <2>2, TailOfConcat
    <2> QED
        BY <2>3 DEF l
<1>8. Later(Control)' \subseteq {"stop_callouts"} \cup Later(Control)
    <2>1. Later(Control)' \subseteq ToSet(Tail(list \o Tail(x)))
        BY <1>6 DEF Later
    <2> QED
        BY <1>5, <1>7, <2>1
<1> HIDE DEF list
<1>9. Moves(Control, "disable", {}, {"epoch_wait", "stop_callouts"})
    <2>1. Moves(Control, "disable", Into(Control, list), OutOf(Control, list))
        BY <1>1, <1>2, <1>3, GoesMoves
    <2>2. Into(Control, list) = {} /\ OutOf(Control, list) = {"epoch_wait", "stop_callouts"}
        BY <1>3, <1>4 DEF Into, OutOf
    <2> QED
        BY <2>1, <2>2
<1>10. /\ Typed' /\ Ahead(Control)' = Inside(Control)' \cup After(Control)'
       /\ Inside(Control)' \subseteq Inside(Control) \cup {}
       /\ After(Control)' \subseteq After(Control) \cup {"epoch_wait", "stop_callouts"}
       /\ {"epoch_wait", "stop_callouts"} \subseteq Ahead(Control)'
    BY <1>1, <1>9, MovesParts
<1>11. \A q \in Runners : q # Control => Inside(q)' = Inside(q) /\ After(q)' = After(q)
    BY <1>1, <1>9, OthersStand
<1>12. Ordered'
    <2>1. ASSUME NEW q \in Runners
          PROVE  Inside(q)' \cap {"epoch_wait", "stop_callouts", "disable", "retry"} = {}
        <3>1. Inside(q) \cap {"epoch_wait", "stop_callouts", "disable", "retry"} = {}
            BY <1>1 DEF Ordered
        <3> QED
            BY <1>10, <1>11, <3>1
    <2>2. ASSUME NEW q \in Runners \ {Clock}
          PROVE  After(q)' \cap {"initiation", "create", "retry"} = {}
        <3>1. After(q) \cap {"initiation", "create", "retry"} = {}
            BY <1>1 DEF Ordered
        <3> QED
            BY <1>10, <1>11, <3>1
    <2>3. "epoch_wait" \notin Later(Control)'
        BY <1>1, <1>8 DEF Ordered
    <2> QED
        BY <1>10, <2>1, <2>2, <2>3 DEF Ordered
<1>13. Stopped' /\ Silent' /\ Attended'
    BY <1>1, <1>10 DEF Stopped, Silent, Attended, Awaited
<1> QED
    BY <1>10, <1>12, <1>13 DEF IInv, Safe

LEMMA StopCalloutsSound ==
    ASSUME IInv, StopCallouts
    PROVE  IInv'
<1>1. Typed /\ Ordered /\ Stopped /\ Control \in Runners
    BY KindsOfRunners DEF IInv, Safe
<1>2. /\ At(Control, "stop_callouts") /\ Goes(Control, <<>>) /\ enabled' = enabled /\ pending' = {}
      /\ staged' = staged /\ forgotten' = (forgotten \/ staged)
    BY DEF StopCallouts
<1>3. "epoch_wait" \notin Ahead(Control)
    <2>1. Ahead(Control) = {"stop_callouts"} \cup Later(Control)
        BY <1>1, <1>2, ControlAt
    <2> QED
        BY <1>1, <2>1 DEF Ordered
<1>4. Moves(Control, "stop_callouts", {}, {})
    <2>1. Moves(Control, "stop_callouts", Into(Control, <<>>), OutOf(Control, <<>>))
        BY <1>1, <1>2, Lists, GoesMoves
    <2>2. Into(Control, <<>>) = {} /\ OutOf(Control, <<>>) = {}
        BY ShortLists DEF Into, OutOf
    <2> QED
        BY <2>1, <2>2
<1>5. Ordered'
    BY <1>1, <1>3, <1>4, OrderedKept
<1>6. Typed' /\ Ahead(Control)' \subseteq Ahead(Control)
    BY <1>1, <1>4, MovesParts
<1>7. \A q \in Runners : q # Control => Ahead(q)' = Ahead(q)
    BY <1>1, <1>4, OthersStand
<1>8. Stopped'
    <2> SUFFICES ASSUME ~enabled', NEW q \in Runners \ {Clock}
                 PROVE  Ahead(q)' \cap {"initiation", "create"} = {}
        BY DEF Stopped
    <2>1. Ahead(q) \cap {"initiation", "create"} = {}
        BY <1>1, <1>2, <1>3 DEF Stopped
    <2> QED
        BY <1>6, <1>7, <2>1
<1>9. Silent' /\ Attended'
    BY <1>2 DEF Silent, Attended
<1> QED
    BY <1>5, <1>6, <1>8, <1>9 DEF IInv, Safe

LEMMA ClearSound ==
    ASSUME IInv, Clear
    PROVE  IInv'
<1>1. Safe /\ Control \in Runners /\ ToSet(<<>>) = {} /\ <<>> \in Seq(Steps)
    BY KindsOfRunners, ShortLists, Lists DEF IInv
<1>2. /\ At(Control, "clear") /\ Goes(Control, <<>>)
      /\ UNCHANGED <<enabled, pending, staged, forgotten>>
    BY DEF Clear, peerVars
<1>3. Safe' /\ Moves(Control, "clear", Into(Control, <<>>), OutOf(Control, <<>>))
    BY <1>1, <1>2, CalmGoes
<1>4. Attended'
    BY <1>1, <1>2, <1>3, ClearIsNone, Undisturbed
<1> QED
    BY <1>3, <1>4 DEF IInv

LEMMA StutterSound ==
    ASSUME IInv, UNCHANGED vars
    PROVE  IInv'
<1>1. Typed /\ Safe /\ Attended /\ Clock \in Runners
    BY KindsOfRunners DEF IInv, Safe
<1>2. UNCHANGED <<enabled, staged, forgotten, todo, pending>>
    BY DEF vars, peerVars
<1>3. Safe' /\ Moves(Clock, "clear", {}, {})
    BY <1>1, <1>2, CalmStill
<1>4. Attended'
    BY <1>1, <1>2, <1>3, ClearIsNone, Undisturbed
<1> QED
    BY <1>3, <1>4 DEF IInv

LEMMA StepSound ==
    ASSUME IInv, [Next]_vars
    PROVE  IInv'
<1>1. ASSUME NEW r \in Runners, Step(r) PROVE IInv'
    BY <1>1, EnterSound, InitiatedSound, AgainSound, SendStagedSound, InitiationSound, CreateSound,
       CreateRefusedSound, RetryHandshakeSound, GiveUpSound, ReceivedSound DEF Step
<1>2. ASSUME NEW c \in Callouts, Fire(c) PROVE IInv'
    BY <1>2, FireSound
<1>3. CASE Traffic
    BY <1>3, XmitSound, DeliverOutSound, DeliverInSound, HandshakeInitiationSound,
       HandshakeResponseSound DEF Traffic
<1>4. CASE Expire
    BY <1>4, ExpireSound
<1>5. CASE Up \/ Down \/ KeepaliveInterval
    BY <1>5, UpSound, DownSound, KeepaliveIntervalSound
<1>6. CASE ControlStep
    BY <1>6, EpochWaitSound, EnableSound, DisableSound, StopCalloutsSound, ClearSound DEF ControlStep
<1>7. CASE UNCHANGED vars
    BY <1>7, StutterSound
<1> QED
    BY <1>1, <1>2, <1>3, <1>4, <1>5, <1>6, <1>7 DEF Next

-----------------------------------------------------------------------------
\* The inductive invariant holds in every state, for any number of threads that
\* carry packets and of handshakes that are retried.
THEOREM Inductive == Spec => []IInv
<1>1. Init => IInv
    BY InitiallySound
<1>2. IInv /\ [Next]_vars => IInv'
    BY StepSound
<1> QED
    BY <1>1, <1>2, PTL DEF Spec

\* wg_timers_disable, NET_EPOCH_WAIT between p_enabled and the calls of
\* callout_stop: once it has returned, no callout is set, and nobody but a handler
\* that was running already starts a handshake.
THEOREM TimersAlwaysStopped == Spec => []TimersStopped
<1>1. IInv => TimersStopped
    <2> SUFFICES ASSUME IInv, ~enabled, "stop_callouts" \notin Ahead(Control)
                 PROVE  /\ pending = {}
                        /\ \A r \in Runners \ {Clock} : Ahead(r) \cap {"initiation", "create"} = {}
        BY DEF TimersStopped
    <2>1. "epoch_wait" \notin Ahead(Control)
        BY DEF IInv, Safe, Ordered
    <2> QED
        BY <2>1 DEF IInv, Safe, Stopped, Silent
<1> QED
    BY <1>1, Inductive, PTL

\* wg_peer_send_staged and wg_timers_event_want_initiation: when all is quiet, a
\* packet that waits has the retry of a handshake to wait for.
THEOREM WaitingAlwaysAttended == Spec => []WaitingAttended
<1>1. IInv => WaitingAttended
    <2> SUFFICES ASSUME IInv, staged, enabled, ~forgotten, \A r \in Runners : Idle(r)
                 PROVE  "retry_handshake" \in pending
        BY DEF WaitingAttended
    <2>1. \A r \in Runners : Ahead(r) = {}
        BY IdleHasNothing DEF IInv, Safe
    <2>2. ~Awaited
        BY <2>1, KindsOfRunners DEF Awaited
    <2> QED
        BY <2>1, <2>2 DEF IInv, Attended, Tried
<1> QED
    BY <1>1, Inductive, PTL
=============================================================================
