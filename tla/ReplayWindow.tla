---------------------------- MODULE ReplayWindow ----------------------------
(* noise_keypair_nonce_check (src/src/wg_noise.c): the bitmap kp_backtrack,  *)
(* a ring of words of COUNTER_BITS bits, and kp_nonce_recv, one more than    *)
(* the greatest counter accepted.  A counter is a uint64_t; here a number    *)
(* below 2^w, with the additions of the code taken modulo 2^w.               *)
EXTENDS Integers, FiniteSets

CONSTANTS
    Bits,   \* COUNTER_BITS
    Words,  \* COUNTER_BITS_TOTAL / COUNTER_BITS
    Wrap    \* 2^w, one more than UINT64_MAX

\* Two words hold the window and the redundant word; both sizes are powers of
\* two in the code, which masks where the model takes remainders.
ASSUME RingAssumption ==
    /\ Bits \in Nat \ {0} /\ Words \in Nat /\ Words >= 2
    /\ Wrap \in Nat /\ Wrap > Bits * Words + 1

VARIABLES
    recv,       \* kp_nonce_recv
    backtrack,  \* kp_backtrack: the bits set in each word
    seen,       \* history: the counters accepted
    verdict     \* history: the last counter checked and the result

ringVars == <<recv, backtrack, seen, verdict>>

WindowSize == Bits * (Words - 1)          \* COUNTER_WINDOW_SIZE
RejectAfter == Wrap - 1 - WindowSize - 1  \* REJECT_AFTER_MESSAGES
Counters == 0..(Wrap - 1)

RingTypeOK ==
    /\ recv \in 0..RejectAfter
    /\ backtrack \in [0..(Words - 1) -> SUBSET (0..(Bits - 1))]
    /\ seen \subseteq 0..(RejectAfter - 1)
    /\ verdict = <<>> \/ verdict \in Counters \X BOOLEAN

RingInit ==
    /\ recv = 0
    /\ backtrack = [w \in 0..(Words - 1) |-> {}]
    /\ seen = {}
    /\ verdict = <<>>

Word(c) == c \div Bits
Slot(w) == w % Words

\* Mutant: the word the new counter falls into keeps its old bits.
ClearedButLast(c) ==
    {Slot(w) : w \in (Word(recv) + 1)..(Word(c) - 1)}

\* The words the window moves over are cleared: at most the whole ring.
Cleared(c) ==
    LET top == IF Word(c) - Word(recv) < Words THEN Word(c) - Word(recv) ELSE Words
    IN  {Slot(w) : w \in (Word(recv) + 1)..(Word(recv) + top)}

OutOfRange(c) == recv >= RejectAfter + 1 \/ c >= RejectAfter

\* Mutant: the counter is compared before it is incremented.
TooOldByOne(c) == c - 1 + WindowSize < recv
TooOld(c) == (c + WindowSize) % Wrap < recv

Answer(c, ok) == verdict' = <<c, ok>>

Reject(c) ==
    /\ UNCHANGED <<recv, backtrack, seen>>
    /\ Answer(c, FALSE)

\* The body after the early returns, for c = counter + 1.  A bit that is set
\* already refuses the counter after the window has moved.
Mark(counter) ==
    LET c     == counter + 1
        moved == IF c > recv
                 THEN [w \in DOMAIN backtrack |->
                         IF w \in Cleared(c) THEN {} ELSE backtrack[w]]
                 ELSE backtrack
        word  == Slot(Word(c))
        bit   == c % Bits
    IN  /\ recv' = IF c > recv THEN c ELSE recv
        /\ \/ /\ bit \in moved[word]
              /\ backtrack' = moved
              /\ seen' = seen
              /\ Answer(counter, FALSE)
           \/ /\ bit \notin moved[word]
              /\ backtrack' = [moved EXCEPT ![word] = @ \cup {bit}]
              /\ seen' = seen \cup {counter}
              /\ Answer(counter, TRUE)

\* noise_keypair_nonce_check(kp, counter).
NonceCheck(counter) ==
    \/ OutOfRange(counter) /\ Reject(counter)
    \/ ~OutOfRange(counter) /\ TooOld((counter + 1) % Wrap) /\ Reject(counter)
    \/ ~OutOfRange(counter) /\ ~TooOld((counter + 1) % Wrap) /\ Mark(counter)

RingNext == \E c \in Counters : NonceCheck(c)

RingSpec == RingInit /\ [][RingNext]_ringVars

-----------------------------------------------------------------------------
\* The ring holds exactly the accepted counters of the last words: no bit of
\* an earlier lap of the ring survives, and none of the window is lost.
RingExact ==
    LET held == {c \in 1..RejectAfter :
                    /\ Word(c) <= Word(recv) /\ Word(c) > Word(recv) - Words}
    IN  \A c \in held : (c % Bits \in backtrack[Slot(Word(c))]) <=> (c - 1 \in seen)

\* Every counter is accepted when and only when the specification of the
\* window says so, for ever, and up to the last counters before the limit.
Abstract == INSTANCE WindowSpec WITH Window <- WindowSize, Limit <- RejectAfter
ImplementsWindow == Abstract!Spec
=============================================================================
