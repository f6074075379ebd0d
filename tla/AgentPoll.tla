------------------------------ MODULE AgentPoll ------------------------------
(***************************************************************************)
(* LongPollPlanner (WGAgentCore/LongPoll.swift), and its twin, the loop    *)
(* peer_refresh_loop of wgctl-agent.sh: what one run of the agent asks the *)
(* control plane, and what it makes of the answers, against the servers it *)
(* has to tell apart: without a cursor ("legacy"), deaf to ?wait ("deaf"), *)
(* holding the request ("holds"), holding it or not ("fickle"), and one    *)
(* that reports not_modified without having held it ("hasty").             *)
(***************************************************************************)
EXTENDS Integers, FiniteSetsExt

CONSTANTS
    Budget, Wait, MinReturn, Floor,  \* LongPollPlanner.Config
    Latency,                         \* the longest a request takes beyond its hold
    MaxHasty,                        \* bound on the requests a hasty server answers in no time
    None

\* A server can be told to hold a request only if it is asked to for MinReturn.
ASSUME PollAssumption ==
    /\ {Budget, Wait, MinReturn, Floor} \subseteq Nat \ {0} /\ {Latency, MaxHasty} \subseteq Nat
    /\ MinReturn <= Wait
    /\ None \notin 0 .. Wait

VARIABLES
    server,
    now,       \* seconds since the run began; the deadline is Budget
    mode,      \* "probe", "trial", "longPoll"
    asked,     \* the ?wait of the request under way, or None
    sleeping,  \* pendingSleep
    stopped,
    requests, changes

progress == <<now, mode, asked, sleeping, stopped, requests, changes>>
pollVars == <<server, progress>>

Servers == {"legacy", "deaf", "holds", "fickle", "hasty"}

PollTypeOK ==
    /\ server \in Servers /\ now \in Nat
    /\ mode \in {"probe", "trial", "longPoll"}
    /\ asked \in {None} \cup 0 .. Wait
    /\ sleeping \in BOOLEAN /\ stopped \in BOOLEAN
    /\ requests \in Nat /\ changes \in Nat

PollInit ==
    /\ server \in Servers
    /\ now = 0 /\ mode = "probe" /\ asked = None
    /\ sleeping = FALSE /\ stopped = FALSE
    /\ requests = 0 /\ changes = 0

\* The run of the agent is over; the next one starts from scratch.
Restart ==
    /\ now' = 0 /\ mode' = "probe" /\ asked' = None
    /\ sleeping' = FALSE /\ stopped' = FALSE
    /\ requests' = 0 /\ changes' = 0
    /\ UNCHANGED server

-----------------------------------------------------------------------------
(* next(now:).                                                             *)

\* Mutant: the full wait, whatever is left of the budget.
HoldFull == Wait
\* How long the server is asked to hold a request that is not the probe.
Hold == Min({Wait, Budget - now})

Sleep ==
    /\ asked = None /\ ~stopped /\ sleeping
    /\ sleeping' = FALSE /\ now' = now + Floor
    /\ UNCHANGED <<server, mode, asked, stopped, requests, changes>>

Exhausted ==
    /\ asked = None /\ ~stopped /\ ~sleeping
    /\ Budget - now <= 1
    /\ stopped' = TRUE
    /\ UNCHANGED <<server, now, mode, asked, sleeping, requests, changes>>

Fetch ==
    /\ asked = None /\ ~stopped /\ ~sleeping
    /\ Budget - now > 1
    /\ asked' = IF mode = "probe" THEN 0 ELSE Hold
    /\ requests' = requests + 1
    /\ UNCHANGED <<server, now, mode, sleeping, stopped, changes>>

-----------------------------------------------------------------------------
(* record(outcome:elapsed:rev:now:).                                       *)

\* Mutant: no floor between fast answers.
FlooredNever(elapsed, applied) == FALSE
Floored(elapsed, applied) == elapsed < MinReturn /\ ~applied

Answered(elapsed) ==
    /\ asked # None
    /\ now' = now + elapsed /\ asked' = None
    /\ UNCHANGED <<server, requests>>

Error(elapsed) ==
    /\ Answered(elapsed)
    /\ stopped' = TRUE
    /\ UNCHANGED <<mode, sleeping, changes>>

\* record takes it for the word of a server that held the request until the
\* wait was over, as that of all but the hasty one is: nothing is slept after it.
NotModified(elapsed) ==
    /\ server \in {"holds", "fickle", "hasty"} /\ mode # "probe"
    /\ IF server = "hasty" THEN elapsed > 0 \/ requests < MaxHasty
       ELSE asked # None /\ elapsed >= asked
    /\ Answered(elapsed)
    /\ mode' = "longPoll"
    /\ UNCHANGED <<sleeping, stopped, changes>>

\* The full list: moved on since the cursor, applied if it differs from the conf.
Listed(elapsed, moved, applied) ==
    /\ server \in {"holds", "hasty"} /\ mode # "probe" => moved
    /\ Answered(elapsed)
    /\ changes' = IF applied THEN changes + 1 ELSE changes
    /\ \/ /\ mode = "probe"
          /\ IF server = "legacy" THEN stopped' = TRUE /\ UNCHANGED mode
             ELSE mode' = "trial" /\ UNCHANGED stopped
          /\ UNCHANGED sleeping
       \/ /\ mode = "trial"
          /\ IF elapsed >= MinReturn THEN mode' = "longPoll" /\ UNCHANGED stopped
             ELSE stopped' = TRUE /\ UNCHANGED mode
          /\ UNCHANGED sleeping
       \/ /\ mode = "longPoll"
          /\ stopped' = (Floored(elapsed, applied) /\ Budget - now' <= Floor)
          /\ sleeping' = (Floored(elapsed, applied) /\ Budget - now' > Floor)
          /\ UNCHANGED mode

\* What an answer may have taken: curl gives up Latency after the hold.
Elapsed ==
    {n \in 0 .. Wait + Latency :
        /\ asked # None => n <= asked + Latency
        /\ server \in {"legacy", "deaf"} => n <= Latency}

-----------------------------------------------------------------------------
(* "It discovers which it is talking to and degrades, without ever         *)
(* busy-looping": beyond the probe and the trial every request that does   *)
(* not bring a change costs MinReturn or Floor seconds.                    *)
NeverBusy == requests <= 3 + changes + now \div Min({MinReturn, Floor})

(* "budget must stay below that interval or two agents overlap": no run    *)
(* outlives its budget by more than the latency of a request.              *)
EndsInBudget == now <= Budget + Latency

(* Every run ends in its budget, whichever server it talks to and however  *)
(* that changes its mind; and none is busy unless the server says "not     *)
(* modified" of a request it did not hold, which record does not floor.    *)
PollBounded == EndsInBudget /\ (server # "hasty" => NeverBusy)
=============================================================================
