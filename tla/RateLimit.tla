------------------------------ MODULE RateLimit ------------------------------
(* The initiation rate limiter of wg_cookie.c: a table of entries, one per    *)
(* address seen lately, each with the tokens it had when it last asked, and a *)
(* callout that removes the idle ones.  Time is the ticks since an entry was  *)
(* touched and until the callout fires; both stop counting where the code     *)
(* can no longer tell the difference.                                         *)
EXTENDS Integers, FiniteSets

CONSTANTS
    Addrs,
    Cost,       \* INITIATION_COST, in ticks
    TokenMax,   \* TOKEN_MAX
    Timeout,    \* ELEMENT_TIMEOUT
    SizeMax,    \* RATELIMIT_SIZE_MAX
    NULL

\* An entry of the table: r_tokens, and the time since r_last_time.
Entries == [tokens : 0..TokenMax, idle : 0..Timeout + 1]

\* A bucket fills up in less time than an entry must be idle to be removed.
ASSUME RateAssumption ==
    /\ Cost \in Nat \ {0} /\ TokenMax \in Nat /\ Timeout \in Nat /\ SizeMax \in Nat
    /\ Cost <= TokenMax /\ TokenMax <= Timeout
    /\ NULL \notin Entries /\ NULL \notin 0..Timeout

VARIABLES
    entry,    \* rl_table
    gcIn,     \* rl_gc: the time left of the pending callout, or NULL
    answer    \* history: the last address that asked, and whether it was allowed

rateVars == <<entry, gcIn, answer>>

Present == {a \in Addrs : entry[a] # NULL}

RateTypeOK ==
    /\ entry \in [Addrs -> Entries \cup {NULL}]
    /\ gcIn \in 0..Timeout \cup {NULL}

RateInit ==
    /\ entry = [a \in Addrs |-> NULL]
    /\ gcIn = NULL
    /\ answer = NULL

-----------------------------------------------------------------------------
\* ratelimit_gc_schedule, after rl_table_num became n.  A pending callout
\* stays as it is.
Scheduled(n, pending) == IF n > 0 /\ pending = NULL THEN Timeout ELSE pending

\* The tokens an entry has now.
AtMost(n, m) == IF n < m THEN n ELSE m
Tokens(a) == AtMost(entry[a].tokens + entry[a].idle, TokenMax)

\* ratelimit_allow, with an entry: the clock restarts whatever the answer is.
AllowKnown(a) ==
    /\ entry[a] # NULL /\ Tokens(a) >= Cost
    /\ entry' = [entry EXCEPT ![a] = [tokens |-> Tokens(a) - Cost, idle |-> 0]]
    /\ answer' = <<a, TRUE>>
    /\ UNCHANGED gcIn

RefuseKnown(a) ==
    /\ entry[a] # NULL /\ Tokens(a) < Cost
    /\ entry' = [entry EXCEPT ![a] = [tokens |-> Tokens(a), idle |-> 0]]
    /\ answer' = <<a, FALSE>>
    /\ UNCHANGED gcIn

\* ratelimit_allow, without one.
AllowNew(a) ==
    /\ entry[a] = NULL /\ Cardinality(Present) < SizeMax
    /\ entry' = [entry EXCEPT ![a] = [tokens |-> TokenMax - Cost, idle |-> 0]]
    /\ gcIn' = Scheduled(Cardinality(Present) + 1, gcIn)
    /\ answer' = <<a, TRUE>>

\* The table is full, or memory is short.
RefuseNew(a) ==
    /\ entry[a] = NULL
    /\ answer' = <<a, FALSE>>
    /\ UNCHANGED <<entry, gcIn>>

Allow(a) == AllowKnown(a) \/ AllowNew(a)
Refuse(a) == RefuseKnown(a) \/ RefuseNew(a)

\* Mutant: an entry is removed when the callout meets it.
ExpiredAlways(a) == entry[a] # NULL
Expired(a) == entry[a] # NULL /\ entry[a].idle > Timeout

\* Mutant: the callout does not arm itself again.
RearmedNever(left) == NULL
\* The callout is no longer pending while its handler runs.
Rearmed(left) == Scheduled(Cardinality(left), NULL)

\* ratelimit_gc, by the callout.
Gc ==
    /\ gcIn = 0
    /\ entry' = [a \in Addrs |-> IF Expired(a) THEN NULL ELSE entry[a]]
    /\ gcIn' = Rearmed({a \in Present : ~Expired(a)})
    /\ UNCHANGED answer

RateTick ==
    /\ entry' = [a \in Addrs |->
          IF entry[a] = NULL THEN NULL
          ELSE [tokens |-> entry[a].tokens,
                idle   |-> AtMost(entry[a].idle + 1, Timeout + 1)]]
    /\ gcIn' = IF gcIn \in {NULL, 0} THEN gcIn ELSE gcIn - 1
    /\ UNCHANGED answer

RateNext == RateTick \/ Gc \/ \E a \in Addrs : Allow(a) \/ Refuse(a)

RateSpec == RateInit /\ [][RateNext]_rateVars

-----------------------------------------------------------------------------
(* Correctness.                                                              *)

\* The tokens of an address whether it has an entry or not.
Level == [a \in Addrs |-> IF entry[a] = NULL THEN TokenMax ELSE Tokens(a)]

Bucket == INSTANCE TokenBucket WITH level <- Level

\* ratelimit_allow with ratelimit_gc is a token bucket per address: forgetting
\* an idle address and meeting it again neither gives it a token nor takes one,
\* and only an address with a full bucket is refused for want of room.
ImplementsBucket == Bucket!Spec

\* ratelimit_gc_schedule: an address that stops asking is forgotten, so that
\* the table cannot stay full of idle ones.
ForgetsIdle == \A a \in Addrs :
    []<>(entry[a] = NULL \/ entry[a].idle = 0)
=============================================================================
