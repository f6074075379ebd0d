--------------------------- MODULE DataPlaneProofs ---------------------------
(* Proofs about the data plane, in two parts that share no state.             *)
(*                                                                            *)
(* ReplayWindow and DataPath, for every width of a word, every number of      *)
(* words and every counter range: the ring of words accepts what the window   *)
(* of WindowSpec accepts and nothing else, the receiver that asks it delivers *)
(* no packet twice, and what is sent in order is not refused.                 *)
(*                                                                            *)
(* PeerSockets, for every number of peers and descriptors and any roaming and *)
(* outages: the two threads never leave a descriptor open that no peer has,   *)
(* nor a peer with one that is closed or another peer's.                      *)
EXTENDS DataPath, PeerSockets, FiniteSetTheorems, WellFoundedInduction, TLAPS

-----------------------------------------------------------------------------
(* Arithmetic.                                                               *)

LEMMA DivMod ==
    ASSUME NEW c \in Nat, NEW b \in Nat \ {0}
    PROVE  /\ c = b * (c \div b) + (c % b)
           /\ c \div b \in Nat /\ (c % b) \in Nat /\ (c % b) < b
    OBVIOUS

LEMMA TimesMonotone ==
    ASSUME NEW b \in Nat, NEW x \in Int, NEW y \in Int, x <= y
    PROVE  b * x <= b * y /\ b * x \in Int /\ b * y \in Int
    OBVIOUS

LEMMA DivModUnique ==
    ASSUME NEW b \in Nat \ {0}, NEW x \in Int, NEW y \in Int,
           NEW r \in Nat, NEW s \in Nat, r < b, s < b, b * x + r = b * y + s
    PROVE  x = y /\ r = s
    OBVIOUS

LEMMA Remainder ==
    ASSUME NEW c \in Nat, NEW b \in Nat \ {0}, c < b
    PROVE  (c % b) = c
    OBVIOUS

\* Numbers with the same remainder are the same or b apart.
LEMMA SameRemainder ==
    ASSUME NEW b \in Nat \ {0}, NEW x \in Nat, NEW y \in Nat, x % b = y % b, x - y < b, y - x < b
    PROVE  x = y
<1> DEFINE p == x \div b
           q == y \div b
           r == x % b
<1>1. x = b * p + r /\ y = b * q + r /\ p \in Nat /\ q \in Nat /\ r \in Nat
    BY DivMod
<1> HIDE DEF p, q, r
<1>2. ASSUME p < q PROVE FALSE
    <2>1. b * (p + 1) <= b * q /\ b * q \in Int
        BY <1>1, <1>2, TimesMonotone
    <2>2. b * (p + 1) = b * p + b /\ b * p \in Int
        BY <1>1
    <2> QED
        BY <1>1, <2>1, <2>2
<1>3. ASSUME q < p PROVE FALSE
    <2>1. b * (q + 1) <= b * p /\ b * p \in Int
        BY <1>1, <1>3, TimesMonotone
    <2>2. b * (q + 1) = b * q + b /\ b * q \in Int
        BY <1>1
    <2> QED
        BY <1>1, <2>1, <2>2
<1> QED
    BY <1>1, <1>2, <1>3

\* Of b numbers in a row one has the remainder of any later number.
LEMMA EveryRemainder ==
    ASSUME NEW b \in Nat \ {0}, NEW a \in Nat, NEW e \in Nat, a < e
    PROVE  \E w \in (a + 1)..(a + b) : (w % b) = (e % b)
<1> DEFINE d == e - a - 1
           q == d \div b
           r == (d % b)
           w == a + 1 + r
<1>1. d \in Nat
    OBVIOUS
<1>2. d = b * q + r /\ q \in Nat /\ r \in Nat /\ r < b
    BY <1>1, DivMod
<1>3. w \in Nat /\ w \in (a + 1)..(a + b)
    BY <1>2
<1>4. e = b * q + w
    BY <1>2
<1> DEFINE x == w \div b
           y == e \div b
<1>5. w = b * x + (w % b) /\ x \in Nat /\ (w % b) \in Nat /\ (w % b) < b
    BY <1>3, DivMod
<1>6. e = b * y + (e % b) /\ y \in Nat /\ (e % b) \in Nat /\ (e % b) < b
    BY DivMod
<1> HIDE DEF w, x, y, q, r, d
<1>7. b * (q + x) = b * q + b * x /\ q + x \in Int /\ b * q \in Int /\ b * x \in Int
    BY <1>2, <1>5
<1>8. b * (q + x) + (w % b) = b * y + (e % b)
    BY <1>4, <1>5, <1>6, <1>7
<1> DEFINE z == q + x
           rw == w % b
           re == e % b
<1>9. /\ z \in Int /\ y \in Int /\ rw \in Nat /\ re \in Nat /\ rw < b /\ re < b
      /\ b * z + rw = b * y + re
    BY <1>5, <1>6, <1>7, <1>8
<1> HIDE DEF z, rw, re
<1>10. rw = re
    BY <1>9, DivModUnique
<1> QED
    BY <1>3, <1>10 DEF rw, re

-----------------------------------------------------------------------------
(* Words and slots.                                                          *)

LEMMA WordSound ==
    ASSUME NEW c \in Nat
    PROVE  /\ c = Bits * Word(c) + (c % Bits)
           /\ Word(c) \in Nat /\ (c % Bits) \in 0..(Bits - 1)
           /\ Slot(Word(c)) \in 0..(Words - 1)
<1>1. Bits \in Nat \ {0} /\ Words \in Nat \ {0}
    BY RingAssumption
<1>2. c = Bits * Word(c) + (c % Bits) /\ Word(c) \in Nat /\ (c % Bits) \in Nat /\ (c % Bits) < Bits
    BY <1>1, DivMod DEF Word
<1>3. Slot(Word(c)) \in Nat /\ Slot(Word(c)) < Words
    BY <1>1, <1>2, DivMod DEF Slot
<1> QED
    BY <1>1, <1>2, <1>3

LEMMA WordMonotone ==
    ASSUME NEW c \in Nat, NEW d \in Nat, c <= d
    PROVE  Word(c) <= Word(d)
<1>1. /\ c = Bits * Word(c) + (c % Bits) /\ d = Bits * Word(d) + (d % Bits)
      /\ Word(c) \in Nat /\ Word(d) \in Nat /\ (c % Bits) \in 0..(Bits - 1)
      /\ (d % Bits) \in 0..(Bits - 1) /\ Bits \in Nat
    BY WordSound, RingAssumption
<1>2. ASSUME Word(d) < Word(c) PROVE FALSE
    <2>1. Bits * (Word(d) + 1) <= Bits * Word(c) /\ Bits * Word(c) \in Int
        BY <1>1, <1>2, TimesMonotone
    <2>2. Bits * (Word(d) + 1) = Bits * Word(d) + Bits /\ Bits * Word(d) \in Int
        BY <1>1
    <2> QED
        BY <1>1, <2>1, <2>2
<1> QED
    BY <1>1, <1>2

\* A counter no more than a window behind is in one of the last words.
LEMMA WordInRing ==
    ASSUME NEW c \in Nat, NEW d \in Nat, d <= c + WindowSize
    PROVE  Word(d) - Words < Word(c)
<1>1. /\ c = Bits * Word(c) + (c % Bits) /\ d = Bits * Word(d) + (d % Bits)
      /\ Word(c) \in Nat /\ Word(d) \in Nat /\ (c % Bits) \in 0..(Bits - 1)
      /\ (d % Bits) \in 0..(Bits - 1) /\ Bits \in Nat \ {0} /\ Words \in Nat
    BY WordSound, RingAssumption
<1>2. ASSUME Word(c) <= Word(d) - Words PROVE FALSE
    <2> DEFINE u == Word(c)
               v == Word(d)
    <2>1. Bits * (u + Words) <= Bits * v /\ Bits * v \in Int
        BY <1>1, <1>2, TimesMonotone
    <2>2. Bits * (u + Words) = Bits * u + Bits * Words /\ Bits * u \in Int /\ Bits * Words \in Int
        BY <1>1
    <2>3. WindowSize = Bits * Words - Bits
        BY <1>1 DEF WindowSize
    <2> HIDE DEF u, v
    <2> QED
        BY <1>1, <2>1, <2>2, <2>3 DEF u, v
<1> QED
    BY <1>1, <1>2

\* Two counters of the last words that share a bit are the same.
LEMMA SameBit ==
    ASSUME NEW c \in Nat, NEW d \in Nat, Slot(Word(c)) = Slot(Word(d)), (c % Bits) = (d % Bits),
           Word(c) - Word(d) < Words, Word(d) - Word(c) < Words
    PROVE  c = d
<1>1. Word(c) \in Nat /\ Word(d) \in Nat /\ Words \in Nat \ {0}
    BY WordSound, RingAssumption
<1>2. Word(c) = Word(d)
    BY <1>1, SameRemainder DEF Slot
<1> QED
    BY <1>2, WordSound

-----------------------------------------------------------------------------
(* The inductive invariant of the window.                                    *)

\* recv is one more than the greatest counter accepted.
RecvExact ==
    /\ \A d \in seen : d < recv
    /\ recv = 0 \/ recv - 1 \in seen
WInv == RingTypeOK /\ RingExact /\ RecvExact

LEMMA Sizes ==
    /\ WindowSize \in Nat /\ RejectAfter \in Nat /\ Wrap \in Nat \ {0}
    /\ RejectAfter + WindowSize + 2 = Wrap
    /\ Bits \in Nat \ {0} /\ Words \in Nat \ {0} /\ Counters \subseteq Nat
    /\ \A c \in Nat : c <= RejectAfter => c \in Counters /\ c + WindowSize < Wrap
<1>1. Bits * Words \in Nat /\ Bits * Words - Bits = WindowSize /\ Bits <= Bits * Words
    <2>1. Bits * 1 <= Bits * Words
        BY RingAssumption, TimesMonotone
    <2>2. Bits * 1 = Bits /\ Bits * Words \in Nat /\ Bits * Words - Bits = Bits * (Words - 1)
        BY RingAssumption
    <2> QED
        BY <2>1, <2>2 DEF WindowSize
<1>2. Bits \in Nat \ {0} /\ Words \in Nat \ {0} /\ Wrap \in Nat /\ Wrap > Bits * Words + 1
    BY RingAssumption
<1> QED
    BY <1>1, <1>2 DEF RejectAfter, Counters

\* The answer that the window of WindowSpec would give.
LEMMA RangeSound ==
    ASSUME WInv, NEW n \in Counters
    PROVE  /\ OutOfRange(n) <=> ~(n < RejectAfter)
           /\ n < RejectAfter => /\ (n + 1) % Wrap = n + 1
                                 /\ TooOld(n + 1) <=> n + 1 + WindowSize < recv
                                 /\ n \in Nat /\ n + 1 \in Nat /\ n + 1 <= RejectAfter
<1>1. recv \in Nat /\ recv <= RejectAfter /\ n \in Nat
    BY Sizes DEF WInv, RingTypeOK
<1>2. OutOfRange(n) <=> ~(n < RejectAfter)
    BY <1>1, Sizes DEF OutOfRange
<1>3. ASSUME n < RejectAfter
      PROVE  n + 1 < Wrap /\ n + 1 + WindowSize < Wrap /\ n + 1 \in Nat
             /\ n + 1 + WindowSize \in Nat /\ n + 1 <= RejectAfter
    BY <1>1, <1>3, Sizes
<1>4. ASSUME n < RejectAfter
      PROVE  (n + 1) % Wrap = n + 1 /\ (n + 1 + WindowSize) % Wrap = n + 1 + WindowSize
    BY <1>3, <1>4, Remainder, Sizes
<1> QED
    BY <1>1, <1>2, <1>3, <1>4 DEF TooOld

LEMMA WindowSound ==
    ASSUME WInv, NEW n \in Counters
    PROVE  (\A d \in seen : d <= n + WindowSize) <=> ~(n + 1 + WindowSize < recv)
<1>1. /\ recv \in Nat /\ seen \subseteq Nat /\ n \in Nat /\ WindowSize \in Nat
      /\ \A d \in seen : d < recv
      /\ recv = 0 \/ recv - 1 \in seen
    BY Sizes DEF WInv, RingTypeOK, RecvExact
<1> QED
    BY <1>1

-----------------------------------------------------------------------------
(* The ring.                                                                 *)

\* The counters that the ring holds when its last word is that of r.
Held(r, e) ==
    e \in 1..RejectAfter /\ Word(e) <= Word(r) /\ Word(r) - Words < Word(e)

\* A bit of the ring, and what it stands for.
Bit(b, e) == (e % Bits) \in b[Slot(Word(e))]

LEMMA RingOfHeld ==
    ASSUME RingExact, NEW e, Held(recv, e)
    PROVE  Bit(backtrack, e) <=> e - 1 \in seen
    BY DEF RingExact, Held, Bit

LEMMA HeldRing ==
    ASSUME \A e : Held(recv, e) => (Bit(backtrack, e) <=> e - 1 \in seen)
    PROVE  RingExact
    BY DEF RingExact, Held, Bit

\* The ring after the window has moved to c.
Moved(c) ==
    IF c > recv
    THEN [w \in DOMAIN backtrack |-> IF w \in Cleared(c) THEN {} ELSE backtrack[w]]
    ELSE backtrack

\* The words the window moves over: those between, in the slots of the ring.
LEMMA ClearedSound ==
    ASSUME NEW r \in Nat, r = recv, NEW c \in Nat, r < c, NEW e \in Nat, Word(e) <= Word(c),
           Word(c) - Words < Word(e)
    PROVE  Slot(Word(e)) \in Cleared(c) <=> Word(r) < Word(e)
<1> DEFINE u == Word(r)
           v == Word(c)
           x == Word(e)
           top == IF v - u < Words THEN v - u ELSE Words
<1>1. u \in Nat /\ v \in Nat /\ x \in Nat /\ Words \in Nat \ {0} /\ u <= v
    <2>1. r <= c
        OBVIOUS
    <2>2. u \in Nat /\ v \in Nat /\ x \in Nat
        BY WordSound
    <2>3. u <= v
        BY <2>1, WordMonotone
    <2> QED
        BY <2>2, <2>3, Sizes
<1>2. Cleared(c) = {Slot(w) : w \in (u + 1)..(u + top)}
    BY DEF Cleared
<1>3. x <= v /\ v - Words < x
    OBVIOUS
<1> HIDE DEF u, v, x
<1>4. top \in Nat /\ top <= Words /\ u + top <= v
    BY <1>1
<1>5. ASSUME u < x PROVE Slot(x) \in Cleared(c)
    <2>1. CASE x <= u + top
        BY <1>1, <1>2, <1>4, <1>5, <2>1
    <2>2. CASE u + top < x
        <3>1. top = Words
            BY <1>1, <1>3, <2>2
        <3>2. PICK w \in (u + 1)..(u + Words) : w % Words = x % Words
            BY <1>1, <1>5, EveryRemainder
        <3> QED
            BY <1>2, <3>1, <3>2 DEF Slot
    <2> QED
        BY <1>1, <1>4, <2>1, <2>2
<1>6. ASSUME Slot(x) \in Cleared(c), x <= u PROVE FALSE
    <2>1. PICK w \in (u + 1)..(u + top) : Slot(x) = Slot(w)
        BY <1>2, <1>6
    <2>2. w \in Nat /\ x - w < Words /\ w - x < Words /\ w # x
        BY <1>1, <1>3, <1>4, <1>6, <2>1
    <2> QED
        BY <1>1, <2>1, <2>2, SameRemainder DEF Slot
<1>7. u < x \/ x <= u
    BY <1>1
<1>8. Slot(x) \in Cleared(c) <=> u < x
    BY <1>1, <1>5, <1>6, <1>7
<1> QED
    BY <1>8 DEF u, x

\* The ring that has moved holds what was accepted of its words.
LEMMA MovedSound ==
    ASSUME WInv, NEW c \in 1..RejectAfter, NEW r, r = IF c > recv THEN c ELSE recv,
           NEW e, Held(r, e)
    PROVE  Bit(Moved(c), e) <=> e - 1 \in seen
<1>1. /\ recv \in Nat /\ c \in Nat /\ e \in Nat /\ r \in Nat /\ recv <= RejectAfter
      /\ backtrack \in [0..(Words - 1) -> SUBSET (0..(Bits - 1))]
      /\ seen \subseteq Nat
    BY Sizes DEF WInv, RingTypeOK, Held
<1>2. CASE c <= recv
    <2>1. r = recv /\ Moved(c) = backtrack
        BY <1>1, <1>2 DEF Moved
    <2> QED
        BY <2>1, RingOfHeld DEF WInv
<1>3. CASE recv < c
    <2>1. r = c /\ Word(e) <= Word(c) /\ Word(c) - Words < Word(e)
        BY <1>1, <1>3 DEF Held
    <2>2. Slot(Word(e)) \in Cleared(c) <=> Word(recv) < Word(e)
        BY <1>1, <1>3, <2>1, ClearedSound
    <2>3. Moved(c) = [w \in 0..(Words - 1) |-> IF w \in Cleared(c) THEN {} ELSE backtrack[w]]
        BY <1>1, <1>3 DEF Moved
    <2>4. Slot(Word(e)) \in 0..(Words - 1) /\ Word(e) \in Nat /\ Word(recv) \in Nat /\ Word(c) \in Nat
        BY <1>1, WordSound
    <2>5. CASE Word(recv) < Word(e)
        <3>1. ~Bit(Moved(c), e)
            BY <2>2, <2>3, <2>4, <2>5 DEF Bit
        <3>2. ~(e <= recv)
            BY <1>1, <2>4, <2>5, WordMonotone
        <3>3. e - 1 \notin seen
            BY <1>1, <3>2 DEF WInv, RecvExact
        <3> QED
            BY <3>1, <3>3
    <2>6. CASE Word(e) <= Word(recv)
        <3>1. Bit(Moved(c), e) <=> Bit(backtrack, e)
            BY <2>2, <2>3, <2>4, <2>6 DEF Bit
        <3>2. Word(recv) <= Word(c)
            BY <1>1, <1>3, WordMonotone
        <3>3. Word(recv) - Words < Word(e)
            BY <2>1, <2>4, <3>2, Sizes
        <3>4. Held(recv, e)
            BY <2>6, <3>3 DEF Held
        <3> QED
            BY <3>1, <3>4, RingOfHeld DEF WInv
    <2> QED
        BY <2>4, <2>5, <2>6
<1> QED
    BY <1>1, <1>2, <1>3

-----------------------------------------------------------------------------
(* A check is a step of the specification.                                   *)

LEMMA MovedType ==
    ASSUME WInv, NEW c
    PROVE  Moved(c) \in [0..(Words - 1) -> SUBSET (0..(Bits - 1))]
<1>1. backtrack \in [0..(Words - 1) -> SUBSET (0..(Bits - 1))]
    BY DEF WInv, RingTypeOK
<1> QED
    BY <1>1 DEF Moved

\* Mark, with what it computes named.
LEMMA MarkForm ==
    ASSUME NEW n, Mark(n)
    PROVE  /\ recv' = IF n + 1 > recv THEN n + 1 ELSE recv
           /\ \/ /\ Bit(Moved(n + 1), n + 1)
                 /\ backtrack' = Moved(n + 1) /\ seen' = seen /\ Answer(n, FALSE)
              \/ /\ ~Bit(Moved(n + 1), n + 1)
                 /\ backtrack' = [Moved(n + 1) EXCEPT ![Slot(Word(n + 1))] = @ \cup {(n + 1) % Bits}]
                 /\ seen' = seen \cup {n} /\ Answer(n, TRUE)
    BY Zenon DEF Mark, Moved, Bit

\* What Mark does for a counter within the window.
LEMMA MarkSound ==
    ASSUME WInv, NEW n \in Counters, n < RejectAfter, recv <= n + 1 + WindowSize, Mark(n)
    PROVE  /\ WInv'
           /\ \/ n \notin seen /\ seen' = seen \cup {n} /\ Answer(n, TRUE)
              \/ n \in seen /\ seen' = seen /\ Answer(n, FALSE)
<1> DEFINE c == n + 1
           b == Moved(c)
<1>1. /\ n \in Nat /\ c \in Nat /\ c <= RejectAfter /\ c \in 1..RejectAfter
      /\ recv \in Nat /\ recv <= RejectAfter /\ RejectAfter \in Nat
      /\ seen \subseteq 0..(RejectAfter - 1)
    BY Sizes DEF WInv, RingTypeOK
<1>2. PICK r \in Nat : r = IF c > recv THEN c ELSE recv
    BY <1>1
<1>3. recv' = r /\ r <= RejectAfter /\ c <= r /\ r <= c + WindowSize /\ recv <= r
    <2>1. recv' = r
        BY <1>2, MarkForm
    <2>2. recv <= c + WindowSize /\ WindowSize \in Nat
        BY Sizes
    <2> HIDE DEF c
    <2> QED
        BY <1>1, <1>2, <2>1, <2>2
<1>4. c - 1 = n
    BY <1>1
<1> HIDE DEF c
<1>5. Held(r, c)
    BY <1>1, <1>2, <1>3, WordMonotone, WordInRing DEF Held
<1>6. Bit(b, c) <=> n \in seen
    BY <1>1, <1>2, <1>4, <1>5, MovedSound
<1>7. b \in [0..(Words - 1) -> SUBSET (0..(Bits - 1))]
    BY MovedType
<1>8. Word(c) \in Nat /\ c % Bits \in 0..(Bits - 1) /\ Slot(Word(c)) \in 0..(Words - 1)
    BY <1>1, WordSound
<1>9. \A e : Held(r, e) => (Bit(b, e) <=> e - 1 \in seen)
    BY <1>1, <1>2, MovedSound
<1> HIDE DEF b
<1>10. CASE n \in seen
    <2>1. backtrack' = b /\ seen' = seen /\ Answer(n, FALSE)
        BY <1>6, <1>10, MarkForm DEF b, c
    <2>2. RingTypeOK'
        <3>1. verdict' \in Counters \X BOOLEAN
            BY <2>1 DEF Answer
        <3>2. recv' \in 0..RejectAfter
            BY <1>1, <1>2, <1>3
        <3> QED
            BY <1>1, <1>7, <2>1, <3>1, <3>2 DEF RingTypeOK
    <2>3. RingExact'
        <3>1. \A e : Held(recv', e) => (Bit(backtrack', e) <=> e - 1 \in seen')
            BY <1>3, <1>9, <2>1
        <3> QED
            BY <3>1 DEF RingExact, Held, Bit
    <2>4. RecvExact'
        <3>1. n < recv
            BY <1>10 DEF WInv, RecvExact
        <3>2. r = recv
            BY <1>1, <1>2, <3>1 DEF c
        <3> QED
            BY <1>3, <2>1, <3>2 DEF WInv, RecvExact
    <2> QED
        BY <1>10, <2>1, <2>2, <2>3, <2>4 DEF WInv
<1>11. CASE n \notin seen
    <2> DEFINE s == Slot(Word(c))
               t == c % Bits
               d == [b EXCEPT ![s] = @ \cup {t}]
    <2>1. backtrack' = d /\ seen' = seen \cup {n} /\ Answer(n, TRUE)
        BY <1>6, <1>11, MarkForm DEF b, c
    <2>2. d \in [0..(Words - 1) -> SUBSET (0..(Bits - 1))]
        BY <1>7, <1>8
    <2>3. RingTypeOK'
        <3>1. verdict' \in Counters \X BOOLEAN
            BY <2>1 DEF Answer
        <3>2. recv' \in 0..RejectAfter
            BY <1>1, <1>2, <1>3
        <3>3. seen' \subseteq 0..(RejectAfter - 1)
            <4>1. n \in 0..(RejectAfter - 1)
                BY <1>1
            <4> QED
                BY <1>1, <2>1, <4>1
        <3> QED
            BY <2>1, <2>2, <3>1, <3>2, <3>3 DEF RingTypeOK
    <2>4. ASSUME NEW e, Held(r, e) PROVE Bit(d, e) <=> e - 1 \in seen \cup {n}
        <3>1. e \in Nat /\ e >= 1 /\ Word(e) \in Nat /\ Slot(Word(e)) \in 0..(Words - 1)
            BY <2>4, WordSound DEF Held
        <3>2. CASE e = c
            <4>1. Bit(d, e)
                BY <1>7, <1>8, <3>2 DEF Bit
            <4> QED
                BY <1>4, <3>2, <4>1
        <3>3. CASE e # c
            <4>1. e - 1 # n
                BY <1>1, <3>1, <3>3 DEF c
            <4>2. ~(Slot(Word(e)) = s /\ e % Bits = t)
                <5>1. Word(e) - Word(c) < Words /\ Word(c) - Word(e) < Words
                    <6>1. /\ Word(c) <= Word(r) /\ Word(r) - Words < Word(c)
                          /\ Word(e) <= Word(r) /\ Word(r) - Words < Word(e)
                        BY <1>5, <2>4 DEF Held
                    <6>2. Word(r) \in Nat /\ Words \in Nat
                        BY WordSound, Sizes
                    <6> QED
                        BY <1>8, <3>1, <6>1, <6>2
                <5> QED
                    BY <1>1, <3>1, <3>3, <5>1, SameBit
            <4>3. Bit(d, e) <=> Bit(b, e)
                BY <1>7, <1>8, <3>1, <4>2 DEF Bit
            <4> QED
                BY <1>9, <2>4, <4>1, <4>3
        <3> QED
            BY <3>2, <3>3
    <2> HIDE DEF d
    <2>5. RingExact'
        <3>1. \A e : Held(recv', e) => (Bit(backtrack', e) <=> e - 1 \in seen')
            BY <1>3, <2>1, <2>4
        <3> QED
            BY <3>1 DEF RingExact, Held, Bit
    <2>6. RecvExact'
        <3>1. n < r /\ \A x \in seen : x < recv
            BY <1>1, <1>3 DEF c, WInv, RecvExact
        <3>2. \A x \in seen' : x < r
            BY <1>1, <1>2, <1>3, <2>1, <3>1
        <3>3. r = 0 \/ r - 1 \in seen'
            BY <1>1, <1>2, <1>4, <2>1 DEF WInv, RecvExact
        <3> QED
            BY <1>3, <3>2, <3>3 DEF RecvExact
    <2> QED
        BY <1>11, <2>1, <2>3, <2>5, <2>6 DEF WInv
<1> QED
    BY <1>10, <1>11

LEMMA NonceCheckSound ==
    ASSUME WInv, NEW n \in Counters, NonceCheck(n)
    PROVE  WInv' /\ (Abstract!Accept(n) \/ Abstract!Refuse(n))
<1>1. CASE ~OutOfRange(n) /\ ~TooOld((n + 1) % Wrap) /\ Mark(n)
    <2>1. n < RejectAfter /\ ~(n + 1 + WindowSize < recv)
        BY <1>1, RangeSound
    <2>2. recv <= n + 1 + WindowSize
        BY <2>1, Sizes DEF WInv, RingTypeOK
    <2>3. \A d \in seen : d <= n + WindowSize
        BY <2>1, WindowSound
    <2>4. /\ WInv'
          /\ \/ n \notin seen /\ seen' = seen \cup {n} /\ Answer(n, TRUE)
             \/ n \in seen /\ seen' = seen /\ Answer(n, FALSE)
        BY <1>1, <2>1, <2>2, MarkSound
    <2> QED
        BY <2>1, <2>3, <2>4
           DEF Answer, Abstract!Accept, Abstract!Refuse, Abstract!Acceptable
<1>2. CASE Reject(n) /\ (OutOfRange(n) \/ TooOld((n + 1) % Wrap))
    <2>1. ~Abstract!Acceptable(n)
        <3>1. CASE n < RejectAfter
            <4>1. n + 1 + WindowSize < recv
                BY <1>2, <3>1, RangeSound
            <4> QED
                BY <4>1, WindowSound DEF Abstract!Acceptable
        <3>2. CASE ~(n < RejectAfter)
            BY <3>2 DEF Abstract!Acceptable
        <3> QED
            BY <3>1, <3>2
    <2>2. Abstract!Refuse(n)
        BY <1>2, <2>1 DEF Reject, Answer, Abstract!Refuse
    <2>3. WInv'
        <3>1. RingTypeOK'
            BY <1>2 DEF Reject, Answer, WInv, RingTypeOK
        <3>2. RingExact' /\ RecvExact'
            BY <1>2 DEF Reject, WInv, RingExact, RecvExact
        <3> QED
            BY <3>1, <3>2 DEF WInv
    <2> QED
        BY <2>2, <2>3
<1> QED
    BY <1>1, <1>2 DEF NonceCheck

-----------------------------------------------------------------------------
(* The packets.                                                              *)

\* What has been accepted was sent, this sender's nonces are below the limit,
\* and a receiver with a window has delivered what it accepted, once.
DInv ==
    /\ WInv
    /\ foreign \in BOOLEAN /\ canSend \in BOOLEAN /\ sendNonce \in Nat
    /\ net \subseteq Counters
    /\ delivered \in [Counters -> Nat]
    /\ seen \subseteq net
    /\ ~foreign => \A c \in net : c < RejectAfter
    /\ Checks => \A c \in Counters : delivered[c] = IF c \in seen THEN 1 ELSE 0

LEMMA DataInitially ==
    ASSUME DataInit
    PROVE  DInv
<1>1. recv = 0 /\ backtrack = [w \in 0..(Words - 1) |-> {}] /\ seen = {} /\ verdict = <<>>
    BY DEF DataInit, RingInit
<1>2. RingTypeOK
    BY <1>1, Sizes DEF RingTypeOK
<1>3. RingExact
    <2>1. \A e : Held(recv, e) => (Bit(backtrack, e) <=> e - 1 \in seen)
        <3> SUFFICES ASSUME NEW e, Held(recv, e) PROVE ~Bit(backtrack, e)
            BY <1>1
        <3>1. e \in Nat
            BY Sizes DEF Held
        <3>2. Slot(Word(e)) \in 0..(Words - 1)
            BY <3>1, WordSound
        <3> QED
            BY <1>1, <3>2 DEF Bit
    <2> QED
        BY <2>1, HeldRing
<1>4. RecvExact
    BY <1>1 DEF RecvExact
<1>5. net \subseteq Counters /\ (~foreign => \A c \in net : c < RejectAfter)
    BY DEF DataInit
<1>6. delivered \in [Counters -> Nat] /\ \A c \in Counters : delivered[c] = 0
    BY DEF DataInit
<1> QED
    BY <1>1, <1>2, <1>3, <1>4, <1>5, <1>6 DEF DataInit, DInv, WInv

LEMMA EncapSound ==
    ASSUME DInv, Encap
    PROVE  DInv' /\ UNCHANGED ringVars
<1>1. UNCHANGED <<recv, backtrack, seen, verdict, foreign, delivered>>
    BY DEF Encap, ringVars
<1>2. WInv'
    BY <1>1 DEF DInv, WInv, RingTypeOK, RingExact, RecvExact
<1>3. canSend' \in BOOLEAN
    BY DEF Encap, WithinLimit
<1>4. net' \subseteq Counters /\ net \subseteq net'
      /\ (~foreign => \A c \in net' : c < RejectAfter)
    <2>1. CASE WithinLimit(sendNonce)
        <3>1. sendNonce \in Counters /\ sendNonce < RejectAfter
            BY <2>1, Sizes DEF WithinLimit, DInv
        <3> QED
            BY <2>1, <3>1 DEF Encap, DInv
    <2>2. CASE ~WithinLimit(sendNonce)
        BY <2>2 DEF Encap, DInv
    <2> QED
        BY <2>1, <2>2
<1>5. sendNonce' \in Nat
    BY DEF Encap, DInv
<1> QED
    BY <1>1, <1>2, <1>3, <1>4, <1>5 DEF DInv, ringVars

LEMMA ReceiveSound ==
    ASSUME DInv, NEW n \in Counters, Receive(n)
    PROVE  DInv' /\ (Abstract!Accept(n) \/ Abstract!Refuse(n) \/ UNCHANGED ringVars)
<1>1. UNCHANGED <<sendNonce, canSend, foreign, net>> /\ n \in net
    BY DEF Receive
<1>2. delivered' \in [Counters -> Nat]
    BY DEF Receive, DInv
<1>3. CASE Checks
    <2>1. WInv' /\ (Abstract!Accept(n) \/ Abstract!Refuse(n))
        BY <1>3, NonceCheckSound DEF Receive, DInv
    <2>2. \/ verdict' = <<n, TRUE>> /\ seen' = seen \cup {n} /\ n \notin seen
          \/ verdict' = <<n, FALSE>> /\ seen' = seen
        BY <2>1 DEF Abstract!Accept, Abstract!Refuse, Abstract!Acceptable
    <2>3. seen' \subseteq net'
        BY <1>1, <2>2 DEF DInv
    <2>4. \A c \in Counters : delivered'[c] = IF c \in seen' THEN 1 ELSE 0
        <3>1. CASE verdict' = <<n, TRUE>> /\ seen' = seen \cup {n} /\ n \notin seen
            <4>1. delivered' = [delivered EXCEPT ![n] = @ + 1]
                BY <3>1 DEF Receive, Accepted
            <4> QED
                BY <1>3, <3>1, <4>1 DEF DInv
        <3>2. CASE verdict' = <<n, FALSE>> /\ seen' = seen
            <4>1. delivered' = delivered
                BY <1>3, <3>2 DEF Receive, Accepted
            <4> QED
                BY <1>3, <3>2, <4>1 DEF DInv
        <3> QED
            BY <2>2, <3>1, <3>2
    <2> QED
        BY <1>1, <1>2, <2>1, <2>3, <2>4 DEF DInv
<1>4. CASE ~Checks
    <2>1. UNCHANGED ringVars
        BY <1>4 DEF Receive
    <2>2. UNCHANGED <<recv, backtrack, seen, verdict>>
        BY <2>1 DEF ringVars
    <2>3. WInv'
        BY <2>2 DEF DInv, WInv, RingTypeOK, RingExact, RecvExact
    <2> QED
        BY <1>1, <1>2, <1>4, <2>1, <2>2, <2>3 DEF DInv
<1> QED
    BY <1>3, <1>4

LEMMA DataStep ==
    ASSUME DInv, [DataNext]_<<ringVars, dataVars>>
    PROVE  DInv' /\ [Abstract!Next]_<<seen, verdict>>
<1>1. CASE Encap
    <2>1. DInv' /\ UNCHANGED ringVars
        BY <1>1, EncapSound
    <2> QED
        BY <2>1 DEF ringVars
<1>2. ASSUME NEW n \in Counters, Receive(n) PROVE DInv' /\ [Abstract!Next]_<<seen, verdict>>
    <2>1. DInv' /\ (Abstract!Accept(n) \/ Abstract!Refuse(n) \/ UNCHANGED ringVars)
        BY <1>2, ReceiveSound
    <2> QED
        BY <2>1 DEF ringVars, Abstract!Next
<1>3. CASE UNCHANGED <<ringVars, dataVars>>
    <2>1. UNCHANGED <<recv, backtrack, seen, verdict>>
          /\ UNCHANGED <<sendNonce, canSend, foreign, net, delivered>>
        BY <1>3 DEF ringVars, dataVars
    <2>2. WInv'
        BY <2>1 DEF DInv, WInv, RingTypeOK, RingExact, RecvExact
    <2> QED
        BY <2>1, <2>2 DEF DInv
<1> QED
    BY <1>1, <1>2, <1>3 DEF DataNext

-----------------------------------------------------------------------------
\* The inductive invariant holds in every state of the data path, whatever the
\* sizes of the ring and of the counters, whoever the sender is, and however
\* the network loses, repeats and reorders (noise_keypair_nonce_check).
THEOREM DataInductive == DataSpec => []DInv
<1>1. DataInit => DInv
    BY DataInitially
<1>2. DInv /\ [DataNext]_<<ringVars, dataVars>> => DInv'
    BY DataStep
<1> QED
    BY <1>1, <1>2, PTL DEF DataSpec

\* noise_keypair_nonce_check implements the window of WindowSpec: the ring of
\* words, masked and cleared as the window moves, accepts a counter when and
\* only when the set of all counters accepted before says so.
THEOREM WindowImplemented == DataSpec => ImplementsWindow
<1>1. DataInit => Abstract!Init
    BY DEF DataInit, RingInit, Abstract!Init
<1>2. DInv /\ [DataNext]_<<ringVars, dataVars>> => [Abstract!Next]_<<seen, verdict>>
    BY DataStep
<1> QED
    BY <1>1, <1>2, DataInductive, PTL DEF DataSpec, ImplementsWindow, Abstract!Spec

\* wg_deliver_in, which consults the window, writes a packet to the TUN device at
\* most once, however often its datagram arrives; wgs_handle_data and wg_decap,
\* which do not, are left out by the assumption.
THEOREM AlwaysDeliveredAtMostOnce ==
    ASSUME Checks
    PROVE  DataSpec => []DeliveredAtMostOnce
<1>1. DInv => DeliveredAtMostOnce
    BY DEF DInv, DeliveredAtMostOnce
<1> QED
    BY <1>1, DataInductive, PTL

\* What noise_keypair_nonce_next hands out, in order and without loss, is never
\* refused by noise_keypair_nonce_check: the sender stops before its nonce could
\* leave the receiver's range.
THEOREM NeverRefusedInOrder == DataSpec => InOrderNeverRefused
<1>1. ASSUME DInv, ~foreign, NEW c \in net, Receive(c), \A d \in net : d <= c, delivered[c] = 0
      PROVE  delivered'[c] = 1
    <2>1. c \in Counters /\ c \in Nat /\ c < RejectAfter /\ WindowSize \in Nat
        BY <1>1, Sizes DEF DInv
    <2>2. Checks => Accepted
        <3> SUFFICES ASSUME Checks PROVE Accepted
            OBVIOUS
        <3>1. Abstract!Accept(c) \/ Abstract!Refuse(c)
            BY <1>1, <2>1, NonceCheckSound DEF Receive, DInv
        <3>2. c \notin seen
            BY <1>1, <2>1 DEF DInv
        <3>3. \A d \in seen : d <= c + WindowSize
            <4> SUFFICES ASSUME NEW d \in seen PROVE d <= c + WindowSize
                OBVIOUS
            <4>1. d \in Nat /\ d <= c
                BY <1>1, Sizes DEF DInv
            <4> QED
                BY <2>1, <4>1
        <3>4. Abstract!Acceptable(c)
            BY <2>1, <3>2, <3>3 DEF Abstract!Acceptable
        <3>5. verdict' = <<c, TRUE>>
            BY <3>1, <3>4 DEF Abstract!Accept, Abstract!Refuse
        <3> QED
            BY <3>5 DEF Accepted
    <2>3. delivered' = [delivered EXCEPT ![c] = @ + 1]
        BY <1>1, <2>2 DEF Receive
    <2> QED
        BY <1>1, <2>1, <2>3 DEF DInv
<1> DEFINE A == ~foreign => \A c \in net : Receive(c) /\ (\A d \in net : d <= c) /\ delivered[c] = 0
                  => delivered'[c] = 1
<1>2. DInv /\ [DataNext]_<<ringVars, dataVars>> => [A]_<<ringVars, dataVars>>
    BY <1>1
<1> QED
    BY <1>2, DataInductive, PTL DEF DataSpec, InOrderNeverRefused

-----------------------------------------------------------------------------
(* The connected sockets.                                                    *)

EndpointsOwn == \A p \in Peers : endpoint[p] \in EndpointsOf(p)
IInv == TypeOK /\ EndpointsOwn /\ SocketsExact

-----------------------------------------------------------------------------
(* The descriptor a new socket gets.                                         *)

LEMMA MinOfNat ==
    ASSUME NEW S, S \subseteq Nat, S # {}
    PROVE  Min(S) \in S
<1>1. PICK x \in S : \A y \in S : ~ (<<y, x>> \in OpToRel(<, Nat))
    BY WFMin, NatLessThanWellFounded, Zenon
<1>2. ASSUME NEW y \in S PROVE x =< y
    <2>1. y \in Nat /\ x \in Nat
        OBVIOUS
    <2>2. ~(y < x)
        BY <1>1, <2>1 DEF OpToRel
    <2> QED
        BY <2>1, <2>2
<1> QED
    BY <1>2, Zenon DEF Min

\* There is a descriptor for a peer that has none: the others have one each.
LEMMA FreeFd ==
    ASSUME IInv, NEW p \in Peers, txFd[p] = NULL
    PROVE  Fds \ Open # {}
<1> DEFINE others == Peers \ {p}
           theirs == {txFd[q] : q \in others}
           f == [q \in others |-> txFd[q]]
<1>1. IsFiniteSet(others) /\ Cardinality(others) = Cardinality(Peers) - 1
    BY FdAssumption, FS_RemoveElement
<1>2. f \in Surjection(others, theirs)
    BY DEF Surjection
<1>3. IsFiniteSet(theirs) /\ Cardinality(theirs) <= Cardinality(others)
    BY <1>1, <1>2, FS_Surjection
<1>4. Open \subseteq theirs
    BY DEF IInv, SocketsExact
<1> HIDE DEF others, theirs, f
<1>5. Cardinality(Open) <= Cardinality(theirs)
    BY <1>3, <1>4, FS_Subset
<1>6. /\ Cardinality(Peers) \in Nat /\ Cardinality(others) \in Nat /\ Cardinality(theirs) \in Nat
      /\ Cardinality(Fds) \in Nat
    BY <1>1, <1>3, FdAssumption, FS_CardinalityType
<1>7. IsFiniteSet(Open)
    BY <1>3, <1>4, FS_Subset
<1>8. Cardinality(Open) \in Nat
    BY <1>7, FS_CardinalityType
<1>9. Cardinality(Open) < Cardinality(Fds)
    BY <1>1, <1>3, <1>5, <1>6, <1>8, FdAssumption
<1>10. Open \subseteq Fds
    BY DEF Open
<1>11. Open # Fds
    BY <1>8, <1>9
<1> QED
    BY <1>10, <1>11

\* peer_tx_socket connects the peer's socket anew or a descriptor that is free.
LEMMA SocketForSound ==
    ASSUME IInv, NEW p \in Peers
    PROVE  /\ SocketFor(p) \in Fds
           /\ SocketFor(p) \notin Open \/ SocketFor(p) = txFd[p]
           /\ SocketFor(p) # NULL
<1>1. txFd[p] \in Fds \cup {NULL}
    BY DEF IInv, TypeOK
<1>2. CASE Reused(p)
    BY <1>1, <1>2, NullAssumption DEF SocketFor, Reused
<1>3. CASE ~Reused(p)
    <2> DEFINE free == (Fds \ Open) \cup ({txFd[p]} \ {NULL})
    <2>1. free # {}
        BY FreeFd
    <2>2. free \subseteq Nat
        BY <1>1, FdAssumption
    <2>3. SocketFor(p) = Min(free)
        BY <1>3 DEF SocketFor
    <2>4. SocketFor(p) \in free
        BY <2>1, <2>2, <2>3, MinOfNat
    <2> QED
        BY <1>1, <2>4, NullAssumption
<1> QED
    BY <1>2, <1>3

-----------------------------------------------------------------------------
(* Types.                                                                    *)

LEMMA InitInvariant == Init => IInv
<1> SUFFICES ASSUME Init PROVE IInv
    OBVIOUS
<1>1. EndpointsOwn /\ Open = {}
    BY DEF Init, EndpointsOwn, Open
<1>2. TypeOK
    BY <1>1 DEF Init, TypeOK
<1>3. SocketsExact
    BY <1>1 DEF Init, SocketsExact
<1> QED
    BY <1>1, <1>2, <1>3 DEF IInv

\* What peer_send takes out of the lock is well formed.
LEMMA BegunTypes ==
    ASSUME IInv, NEW t \in Threads, NEW p \in Peers, NEW fd \in Fds \cup {NULL}, Begun(t, p, fd)
    PROVE  /\ thread' \in [Threads -> Sends \cup {Idle}]
           /\ \A u \in Threads : thread'[u] # Idle =>
                 /\ thread'[u].ep \in EndpointsOf(thread'[u].peer)
                 /\ thread'[u].fd = NULL => thread'[u].pc = "fallback"
<1> DEFINE s == [pc |-> IF fd = NULL THEN "fallback" ELSE "send", peer |-> p, fd |-> fd,
                 ep |-> endpoint[p]]
<1>1. endpoint[p] \in Endpoints /\ endpoint[p] \in EndpointsOf(p)
    BY DEF IInv, TypeOK, EndpointsOwn
<1>2. s \in Sends /\ s.ep \in EndpointsOf(s.peer) /\ (s.fd = NULL => s.pc = "fallback")
    BY <1>1 DEF Sends
<1>3. thread' = [thread EXCEPT ![t] = s]
    BY DEF Begun
<1> HIDE DEF s
<1> QED
    BY <1>2, <1>3 DEF IInv, TypeOK

LEMMA ClosedTypes ==
    ASSUME IInv, NEW p \in Peers, Closed(p)
    PROVE  txFd' \in [Peers -> Fds \cup {NULL}] /\ txEp' \in [Peers -> Endpoints \cup {NULL}]
    BY DEF IInv, TypeOK, Closed

-----------------------------------------------------------------------------
(* What closing and connecting do to the tables.                             *)

\* peer_tx_close: only the peer's own descriptor is closed.
LEMMA ClosedExact ==
    ASSUME IInv, NEW p \in Peers, Closed(p),
           fdTo' = [f \in Fds |-> IF f = txFd[p] THEN NULL ELSE fdTo[f]]
    PROVE  /\ SocketsExact' /\ fdTo' \in [Fds -> Endpoints \cup {NULL}]
           /\ \A f \in Open : f \in Open' \/ f = txFd[p]
<1>1. \A q \in Peers : txFd'[q] = (IF q = p THEN NULL ELSE txFd[q])
                        /\ txEp'[q] = (IF q = p THEN NULL ELSE txEp[q])
    BY DEF Closed, IInv, TypeOK
<1>2. fdTo' \in [Fds -> Endpoints \cup {NULL}]
    BY DEF IInv, TypeOK
<1>3. ASSUME NEW q \in Peers, txFd'[q] # NULL
      PROVE  fdTo'[txFd'[q]] = txEp'[q] /\ txEp'[q] # NULL
    <2>1. q # p /\ txFd'[q] = txFd[q] /\ txEp'[q] = txEp[q]
        BY <1>1, <1>3
    <2>2. txFd[q] \in Fds /\ txFd[q] # txFd[p]
        BY <1>3, <2>1 DEF IInv, TypeOK, SocketsExact
    <2> QED
        BY <1>3, <2>1, <2>2 DEF IInv, SocketsExact
<1>4. ASSUME NEW q \in Peers, NEW r \in Peers, txFd'[q] = txFd'[r], txFd'[q] # NULL
      PROVE  q = r
    BY <1>1, <1>4 DEF IInv, SocketsExact
<1>5. Open' = Open \ {txFd[p]}
    BY DEF Open
<1>6. {txFd'[q] : q \in Peers} \ {NULL} = ({txFd[q] : q \in Peers} \ {NULL}) \ {txFd[p]}
    <2>1. ASSUME NEW q \in Peers, txFd[q] # NULL, txFd[q] # txFd[p] PROVE txFd[q] = txFd'[q]
        BY <1>1, <2>1
    <2>2. ASSUME NEW q \in Peers, txFd'[q] # NULL PROVE txFd'[q] = txFd[q] /\ txFd[q] # txFd[p]
        BY <1>1, <2>2 DEF IInv, SocketsExact
    <2> QED
        BY <2>1, <2>2
<1>7. Open' = {txFd'[q] : q \in Peers} \ {NULL}
    BY <1>5, <1>6 DEF IInv, SocketsExact
<1> QED
    BY <1>2, <1>3, <1>4, <1>5, <1>7 DEF SocketsExact

\* A descriptor that was free and could not be used is free again.
LEMMA TableOfNone ==
    ASSUME IInv, NEW p \in Peers, fdTo' = Table(p, SocketFor(p), NULL)
    PROVE  fdTo' = [f \in Fds |-> IF f = txFd[p] THEN NULL ELSE fdTo[f]]
<1>1. ASSUME NEW f \in Fds, f = SocketFor(p), f # txFd[p] PROVE fdTo[f] = NULL
    BY <1>1, SocketForSound DEF Open
<1> QED
    BY <1>1 DEF Table

\* peer_tx_socket: a socket connected to the endpoint of the moment.
LEMMA ConnectExact ==
    ASSUME IInv, NEW p \in Peers, NEW f, f = SocketFor(p),
           txFd' = [txFd EXCEPT ![p] = f], txEp' = [txEp EXCEPT ![p] = endpoint[p]],
           fdTo' = Table(p, f, endpoint[p])
    PROVE  /\ SocketsExact' /\ fdTo' \in [Fds -> Endpoints \cup {NULL}]
           /\ txFd' \in [Peers -> Fds \cup {NULL}] /\ txEp' \in [Peers -> Endpoints \cup {NULL}]
           /\ \A g \in Open : g \in Open' \/ g = txFd[p]
<1>1. f \in Fds /\ f # NULL /\ (f \notin Open \/ f = txFd[p])
    BY SocketForSound
<1>2. endpoint[p] \in Endpoints /\ endpoint[p] # NULL
    BY NullAssumption DEF IInv, TypeOK
<1>3. \A q \in Peers : txFd'[q] = (IF q = p THEN f ELSE txFd[q])
                        /\ txEp'[q] = (IF q = p THEN endpoint[p] ELSE txEp[q])
    BY DEF IInv, TypeOK
<1>4. /\ fdTo' \in [Fds -> Endpoints \cup {NULL}]
      /\ \A g \in Fds : fdTo'[g] = IF g = f THEN endpoint[p] ELSE IF g = txFd[p] THEN NULL ELSE fdTo[g]
    BY <1>2 DEF IInv, TypeOK, Table
<1>5. txFd' \in [Peers -> Fds \cup {NULL}] /\ txEp' \in [Peers -> Endpoints \cup {NULL}]
    BY <1>1, <1>2 DEF IInv, TypeOK
<1>6. ASSUME NEW q \in Peers, q # p, txFd[q] # NULL
      PROVE  txFd[q] \in Open /\ txFd[q] # f /\ txFd[q] # txFd[p]
    <2>1. txFd[q] \in Open /\ txFd[q] # txFd[p]
        BY <1>6 DEF IInv, SocketsExact
    <2> QED
        BY <1>1, <2>1
<1>7. ASSUME NEW q \in Peers, txFd'[q] # NULL
      PROVE  fdTo'[txFd'[q]] = txEp'[q] /\ txEp'[q] # NULL
    <2>1. CASE q = p
        BY <1>1, <1>2, <1>3, <1>4, <2>1
    <2>2. CASE q # p
        <3>1. txFd[q] \in Fds /\ txFd[q] # f /\ txFd[q] # txFd[p] /\ txFd[q] # NULL
            BY <1>3, <1>6, <1>7, <2>2 DEF Open
        <3>2. fdTo[txFd[q]] = txEp[q] /\ txEp[q] # NULL
            BY <3>1 DEF IInv, SocketsExact
        <3> QED
            BY <1>3, <1>4, <2>2, <3>1, <3>2
    <2> QED
        BY <2>1, <2>2
<1>8. ASSUME NEW q \in Peers, NEW r \in Peers, txFd'[q] = txFd'[r], txFd'[q] # NULL
      PROVE  q = r
    <2>1. CASE q # p /\ r # p
        BY <1>3, <1>8, <2>1 DEF IInv, SocketsExact
    <2>2. CASE q = p /\ r # p
        BY <1>3, <1>6, <1>8, <2>2
    <2>3. CASE q # p /\ r = p
        BY <1>3, <1>6, <1>8, <2>3
    <2> QED
        BY <2>1, <2>2, <2>3
<1>9. Open' = (Open \ {txFd[p]}) \cup {f}
    <2>1. Open' = {g \in Fds : fdTo'[g] # NULL}
        BY DEF Open
    <2> QED
        BY <1>1, <1>2, <1>4, <2>1 DEF Open
<1>10. {txFd'[q] : q \in Peers} \ {NULL} = (({txFd[q] : q \in Peers} \ {NULL}) \ {txFd[p]}) \cup {f}
    <2>1. ASSUME NEW q \in Peers, txFd[q] # NULL, txFd[q] # txFd[p] PROVE txFd[q] = txFd'[q]
        BY <1>3, <2>1
    <2>2. ASSUME NEW q \in Peers, txFd'[q] # NULL, txFd'[q] # f
          PROVE  txFd'[q] = txFd[q] /\ txFd[q] # txFd[p]
        BY <1>3, <1>6, <2>2
    <2>3. txFd'[p] = f
        BY <1>3
    <2> QED
        BY <1>1, <2>1, <2>2, <2>3
<1>11. Open' = {txFd'[q] : q \in Peers} \ {NULL}
    BY <1>9, <1>10 DEF IInv, SocketsExact
<1> QED
    BY <1>4, <1>5, <1>7, <1>8, <1>9, <1>11 DEF SocketsExact

-----------------------------------------------------------------------------
(* The steps.                                                                *)

\* What a snapshot of peer_send keeps, apart from the tables of descriptors.
LEMMA SnapshotKeeps ==
    ASSUME IInv, NEW t \in Threads, NEW p \in Peers, NEW fd \in Fds \cup {NULL}, Begun(t, p, fd),
           SocketsExact', fdTo' \in [Fds -> Endpoints \cup {NULL}],
           txFd' \in [Peers -> Fds \cup {NULL}], txEp' \in [Peers -> Endpoints \cup {NULL}],
           backoff' \in [Peers -> BOOLEAN], fast' \in BOOLEAN, UNCHANGED <<endpoint, online>>,
           broken' \subseteq Open'
    PROVE  IInv'
<1>1. /\ thread' \in [Threads -> Sends \cup {Idle}]
      /\ \A u \in Threads : thread'[u] # Idle =>
            /\ thread'[u].ep \in EndpointsOf(thread'[u].peer)
            /\ thread'[u].fd = NULL => thread'[u].pc = "fallback"
    BY BegunTypes
<1>2. TypeOK'
    BY <1>1 DEF IInv, TypeOK
<1>3. EndpointsOwn'
    BY DEF IInv, EndpointsOwn
<1> QED
    BY <1>2, <1>3 DEF IInv

LEMMA SnapshotStep ==
    ASSUME IInv, NEW t \in Threads, NEW p \in Peers, Snapshot(t, p)
    PROVE  IInv'
<1>1. /\ backoff \in [Peers -> BOOLEAN] /\ fast \in BOOLEAN /\ broken \subseteq Open
      /\ txFd \in [Peers -> Fds \cup {NULL}] /\ txEp \in [Peers -> Endpoints \cup {NULL}]
      /\ fdTo \in [Fds -> Endpoints \cup {NULL}]
    BY DEF IInv, TypeOK
<1>2. ASSUME NEW fd \in Fds \cup {NULL}, Begun(t, p, fd), UNCHANGED <<peerVars, netVars>>
      PROVE  IInv'
    <2>1. UNCHANGED <<endpoint, txFd, txEp, backoff, fast, fdTo, broken, online>>
        BY <1>2 DEF peerVars, netVars
    <2>2. SocketsExact' /\ Open' = Open
        BY <2>1 DEF IInv, SocketsExact, Open
    <2> QED
        BY <1>1, <1>2, <2>1, <2>2, SnapshotKeeps
<1>3. CASE SnapshotWithout(t, p)
    BY <1>2, <1>3 DEF SnapshotWithout
<1>4. CASE SnapshotConnected(t, p)
    BY <1>1, <1>2, <1>4 DEF SnapshotConnected
<1>5. CASE SnapshotConnects(t, p)
    <2> DEFINE f == SocketFor(p)
    <2>1. /\ txFd' = [txFd EXCEPT ![p] = f] /\ txEp' = [txEp EXCEPT ![p] = endpoint[p]]
          /\ fdTo' = Table(p, f, endpoint[p]) /\ broken' = broken \ {f, txFd[p]}
          /\ Begun(t, p, f) /\ UNCHANGED <<endpoint, backoff, fast, online>>
        BY <1>5 DEF SnapshotConnects
    <2>2. f \in Fds
        BY SocketForSound
    <2> HIDE DEF f
    <2>3. /\ SocketsExact' /\ fdTo' \in [Fds -> Endpoints \cup {NULL}]
          /\ txFd' \in [Peers -> Fds \cup {NULL}] /\ txEp' \in [Peers -> Endpoints \cup {NULL}]
          /\ \A g \in Open : g \in Open' \/ g = txFd[p]
        BY <2>1, ConnectExact DEF f
    <2>4. broken' \subseteq Open'
        BY <1>1, <2>1, <2>3
    <2> QED
        BY <1>1, <2>1, <2>2, <2>3, <2>4, SnapshotKeeps
\* The socket is closed, and no other takes its place.
<1>6. ASSUME Closed(p), fdTo' = [f \in Fds |-> IF f = txFd[p] THEN NULL ELSE fdTo[f]],
             broken' = broken \ {txFd[p]}, Begun(t, p, NULL), UNCHANGED <<endpoint, online>>,
             backoff' \in [Peers -> BOOLEAN], fast' \in BOOLEAN
      PROVE  IInv'
    <2>1. /\ SocketsExact' /\ fdTo' \in [Fds -> Endpoints \cup {NULL}]
          /\ \A f \in Open : f \in Open' \/ f = txFd[p]
        BY <1>6, ClosedExact
    <2>2. txFd' \in [Peers -> Fds \cup {NULL}] /\ txEp' \in [Peers -> Endpoints \cup {NULL}]
        BY <1>6, ClosedTypes
    <2>3. broken' \subseteq Open'
        BY <1>1, <1>6, <2>1
    <2> QED
        BY <1>6, <2>1, <2>2, <2>3, SnapshotKeeps
<1>7. CASE SnapshotConnectFails(t, p)
    BY <1>1, <1>6, <1>7, TableOfNone DEF SnapshotConnectFails
<1>8. CASE SnapshotBindFails(t, p)
    BY <1>1, <1>6, <1>8, TableOfNone DEF SnapshotBindFails
<1>9. CASE SnapshotNoSocket(t, p)
    BY <1>1, <1>6, <1>9 DEF SnapshotNoSocket
<1> QED
    BY <1>3, <1>4, <1>5, <1>7, <1>8, <1>9 DEF Snapshot

\* The steps that leave every descriptor as it is.
LEMMA QuietStep ==
    ASSUME IInv, UNCHANGED <<txFd, txEp, fdTo>>, broken' \subseteq Open,
           endpoint' \in [Peers -> Endpoints], EndpointsOwn',
           backoff' \in [Peers -> BOOLEAN], fast' \in BOOLEAN, online' \in BOOLEAN,
           thread' \in [Threads -> Sends \cup {Idle}],
           \A u \in Threads : thread'[u] # Idle =>
               /\ thread'[u].ep \in EndpointsOf(thread'[u].peer)
               /\ thread'[u].fd = NULL => thread'[u].pc = "fallback"
    PROVE  IInv'
<1>1. SocketsExact' /\ Open' = Open
    BY DEF IInv, SocketsExact, Open
<1>2. TypeOK'
    BY <1>1 DEF IInv, TypeOK
<1> QED
    BY <1>1, <1>2 DEF IInv

\* A thread is at a step of its send.
LEMMA Sending ==
    ASSUME IInv, NEW t \in Threads, thread[t].pc # "idle"
    PROVE  /\ thread[t] # Idle /\ thread[t] \in Sends
           /\ thread[t].ep \in EndpointsOf(thread[t].peer)
           /\ thread[t].fd = NULL => thread[t].pc = "fallback"
<1>1. thread[t] # Idle
    BY DEF Idle
<1> QED
    BY <1>1 DEF IInv, TypeOK

LEMMA ThreadStep ==
    ASSUME IInv, NEW t \in Threads, SendTo(t) \/ SendFails(t) \/ Drop(t) \/ Fallback(t)
    PROVE  IInv'
<1>1. /\ thread \in [Threads -> Sends \cup {Idle}] /\ thread[t] \in Sends
      /\ thread[t].ep \in EndpointsOf(thread[t].peer)
      /\ thread[t].fd = NULL => thread[t].pc = "fallback"
    BY Sending DEF SendTo, SendFails, Drop, Fallback, IInv, TypeOK
<1>2. ASSUME NEW pc \in {"send", "drop", "fallback"}, thread' = [thread EXCEPT ![t].pc = pc],
             thread[t].fd # NULL
      PROVE  /\ thread' \in [Threads -> Sends \cup {Idle}]
             /\ \A u \in Threads : thread'[u] # Idle =>
                   /\ thread'[u].ep \in EndpointsOf(thread'[u].peer)
                   /\ thread'[u].fd = NULL => thread'[u].pc = "fallback"
    <2> DEFINE s == [thread[t] EXCEPT !.pc = pc]
    <2>1. s \in Sends /\ s.ep = thread[t].ep /\ s.peer = thread[t].peer /\ s.fd = thread[t].fd
        BY <1>1 DEF Sends
    <2>2. thread' = [thread EXCEPT ![t] = s]
        BY <1>2
    <2> HIDE DEF s
    <2> QED
        BY <1>1, <1>2, <2>1, <2>2 DEF IInv, TypeOK
<1>3. CASE (SendTo(t) \/ Fallback(t))
    <2>1. thread' = [thread EXCEPT ![t] = Idle] /\ UNCHANGED <<peerVars, netVars, moves, outages>>
        BY <1>3 DEF SendTo, Fallback
    <2>2. /\ thread' \in [Threads -> Sends \cup {Idle}]
          /\ \A u \in Threads : thread'[u] # Idle => u # t /\ thread'[u] = thread[u]
        BY <1>1, <2>1
    <2> QED
        BY <2>1, <2>2, QuietStep DEF IInv, TypeOK, EndpointsOwn, peerVars, netVars
<1>4. CASE SendFails(t)
    <2>1. thread' = [thread EXCEPT ![t].pc = "drop"] /\ UNCHANGED <<peerVars, netVars, moves, outages>>
          /\ thread[t].pc = "send"
        BY <1>4 DEF SendFails
    <2>2. thread[t].fd # NULL
        BY <1>1, <2>1
    <2> QED
        BY <1>2, <2>1, <2>2, QuietStep DEF IInv, TypeOK, EndpointsOwn, peerVars, netVars
<1>5. CASE Drop(t)
    <2> DEFINE p == thread[t].peer
    <2>1. /\ thread' = [thread EXCEPT ![t].pc = "fallback"] /\ thread[t].fd # NULL
          /\ UNCHANGED <<endpoint, backoff, fast, online, moves, outages>>
        BY <1>1, <1>5 DEF Drop
    <2>2. /\ thread' \in [Threads -> Sends \cup {Idle}]
          /\ \A u \in Threads : thread'[u] # Idle =>
                /\ thread'[u].ep \in EndpointsOf(thread'[u].peer)
                /\ thread'[u].fd = NULL => thread'[u].pc = "fallback"
        BY <1>2, <2>1
    <2>3. CASE ~StillOurs(t)
        <3>1. UNCHANGED <<txFd, txEp, fdTo, broken>>
            BY <1>5, <2>3 DEF Drop
        <3> QED
            BY <2>1, <2>2, <3>1, QuietStep DEF IInv, TypeOK, EndpointsOwn
    <2>4. CASE StillOurs(t)
        <3>1. /\ p \in Peers /\ txFd[p] = thread[t].fd /\ Closed(p)
              /\ fdTo' = [fdTo EXCEPT ![txFd[p]] = NULL] /\ broken' = broken \ {txFd[p]}
            BY <1>1, <1>5, <2>4 DEF Drop, StillOurs, Sends
        <3> HIDE DEF p
        <3>2. fdTo' = [f \in Fds |-> IF f = txFd[p] THEN NULL ELSE fdTo[f]]
            BY <3>1 DEF IInv, TypeOK
        <3>3. /\ SocketsExact' /\ fdTo' \in [Fds -> Endpoints \cup {NULL}]
              /\ \A f \in Open : f \in Open' \/ f = txFd[p]
            BY <3>1, <3>2, ClosedExact
        <3>4. txFd' \in [Peers -> Fds \cup {NULL}] /\ txEp' \in [Peers -> Endpoints \cup {NULL}]
            BY <3>1, ClosedTypes
        <3>5. broken' \subseteq Open'
            BY <3>1, <3>3 DEF IInv, TypeOK
        <3>6. TypeOK'
            BY <2>1, <2>2, <3>3, <3>4, <3>5 DEF IInv, TypeOK
        <3> QED
            BY <2>1, <3>3, <3>6 DEF IInv, EndpointsOwn
    <2> QED
        BY <2>3, <2>4
<1> QED
    BY <1>3, <1>4, <1>5

LEMMA MoveStep ==
    ASSUME IInv, NEW p \in Peers, NEW e \in EndpointsOf(p), Move(p, e)
    PROVE  IInv'
<1>1. e \in Endpoints
    BY DEF Endpoints
<1>2. endpoint' = [endpoint EXCEPT ![p] = e] /\ UNCHANGED <<txFd, txEp, backoff, fast, netVars, thread>>
    BY DEF Move
<1>3. endpoint' \in [Peers -> Endpoints] /\ EndpointsOwn'
    BY <1>1, <1>2 DEF IInv, TypeOK, EndpointsOwn
<1> QED
    BY <1>2, <1>3, QuietStep DEF IInv, TypeOK, netVars

LEMMA InvariantStep == IInv /\ [Next]_vars => IInv'
<1> SUFFICES ASSUME IInv, [Next]_vars PROVE IInv'
    OBVIOUS
<1>1. CASE UNCHANGED vars
    BY <1>1, QuietStep DEF vars, peerVars, netVars, IInv, TypeOK, EndpointsOwn
<1>2. ASSUME NEW p \in Peers, BackoffEnds(p) PROVE IInv'
    BY <1>2, QuietStep DEF BackoffEnds, netVars, IInv, TypeOK, EndpointsOwn
<1>3. CASE GoOffline
    BY <1>3, QuietStep DEF GoOffline, peerVars, IInv, TypeOK, EndpointsOwn
<1>4. CASE GoOnline
    BY <1>4, QuietStep DEF GoOnline, peerVars, IInv, TypeOK, EndpointsOwn
<1> QED
    BY <1>1, <1>2, <1>3, <1>4, SnapshotStep, ThreadStep, MoveStep DEF Next

-----------------------------------------------------------------------------
(* The theorems.                                                             *)

\* The invariant holds in every state the code can be in.
THEOREM Inductive == Spec => []IInv
<1> QED BY InitInvariant, InvariantStep, PTL DEF Spec

\* Whatever the TX thread and the main thread do to the sockets of the peers, in
\* any order, each peer has its own, it leads where tx_ep says, and no
\* descriptor is open that no peer has (peer_tx_socket, peer_tx_close, peer_send).
THEOREM SocketsAlwaysExact == Spec => []SocketsExact
<1>1. IInv => SocketsExact
    BY DEF IInv
<1> QED BY <1>1, Inductive, PTL
==============================================================================
