----------------------------- MODULE WindowSpec -----------------------------
(* What noise_keypair_nonce_check (src/src/wg_noise.c) promises: of the      *)
(* counters that arrive in any order and any number of times, each one below *)
(* the message limit is accepted the first time it comes, unless it has      *)
(* fallen more than a window behind the greatest one accepted, and never     *)
(* again.                                                                    *)
EXTENDS Integers

CONSTANTS
    Counters,  \* nonces a packet can carry
    Window,    \* COUNTER_WINDOW_SIZE
    Limit      \* REJECT_AFTER_MESSAGES

VARIABLES
    seen,      \* the counters accepted so far
    verdict    \* of the last check: the counter and whether it was accepted

Acceptable(c) ==
    /\ c < Limit
    /\ c \notin seen
    /\ \A d \in seen : d <= c + Window

Init == seen = {} /\ verdict = <<>>

Accept(c) ==
    /\ Acceptable(c)
    /\ seen' = seen \cup {c}
    /\ verdict' = <<c, TRUE>>

Refuse(c) ==
    /\ ~Acceptable(c)
    /\ seen' = seen
    /\ verdict' = <<c, FALSE>>

Next == \E c \in Counters : Accept(c) \/ Refuse(c)

Spec == Init /\ [][Next]_<<seen, verdict>>
=============================================================================
