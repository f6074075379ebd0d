----------------------------- MODULE TokenBucket -----------------------------
(* What the rate limiter of wg_cookie.c promises: every address has a bucket *)
(* of TokenMax units of time that fills with the clock, an allowed initiation *)
(* costs Cost of them, and nobody but an address with a full bucket, one that *)
(* is new to the limiter, is refused for want of room.                        *)
EXTENDS Naturals

CONSTANTS
    Addrs,     \* the addresses told apart (an IPv6 /64 is one of them)
    Cost,      \* INITIATION_COST
    TokenMax,  \* TOKEN_MAX
    NULL

VARIABLES level, answer

vars == <<level, answer>>

Init ==
    /\ level = [a \in Addrs |-> TokenMax]
    /\ answer = NULL

Allow(a) ==
    /\ level[a] >= Cost
    /\ level' = [level EXCEPT ![a] = @ - Cost]
    /\ answer' = <<a, TRUE>>

Refuse(a) ==
    /\ level[a] < Cost \/ level[a] = TokenMax
    /\ level' = level
    /\ answer' = <<a, FALSE>>

Tick ==
    /\ level' = [a \in Addrs |-> IF level[a] < TokenMax THEN level[a] + 1 ELSE TokenMax]
    /\ answer' = answer

Next == Tick \/ \E a \in Addrs : Allow(a) \/ Refuse(a)

Spec == Init /\ [][Next]_vars
=============================================================================
