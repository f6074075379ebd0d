-------------------------------- MODULE Agent --------------------------------
(***************************************************************************)
(* scripts/wgctl-agent.sh on one mesh interface of a device: launchd       *)
(* starts it every minute, it looks after the data plane, reports to the   *)
(* control plane, fetches the peers and exits.  What outlives it is on     *)
(* disk and in launchd, and it may be stopped between any two commands;    *)
(* a reboot also empties /var/run.                                         *)
(***************************************************************************)
EXTENDS AgentPoll, Sequences, SequencesExt

CONSTANTS
    FailMax,      \* DP_FAIL_MAX
    Cooldown,     \* DP_COOLDOWN, in runs of the agent
    MaxRev,       \* bound on the changes of the peer set
    MaxCrashes,   \* bound on stops of the agent and reboots
    MaxRefusals   \* bound on launchctl failing

ASSUME AgentAssumption ==
    /\ FailMax \in Nat \ {0} /\ Cooldown \in Nat
    /\ {MaxRev, MaxCrashes, MaxRefusals} \subseteq Nat

VARIABLES
    rev, revoked,             \* control plane: peer set, device token
    state, conf,              \* $STATE exists; the peer set in CUR_CONF
    fails, cooling,           \* $IFACE.dpfail; runs until $IFACE.dpkick is old
    loaded, enabled, running, \* the launchd job; the peer set wg_core has read
    link,                     \* "silent": no fresh handshake; "wedged": no answers
    pc, resp,                 \* the run of the agent and its rev cursor
    crashes, refusals,
    cut,                      \* history: a new conf was not followed by a restart
    kept                      \* history: commands of an eviction that launchd refused

control == <<rev, revoked>>
disk == <<state, conf>>
watchdog == <<fails, cooling>>
job == <<loaded, enabled, running, link>>
counts == <<crashes, refusals, cut, kept>>
agentVars == <<control, disk, watchdog, job, pc, resp, pollVars, counts>>

Revs == 0 .. MaxRev

\* wgctl-agent's 401 handling: bootout, disable, rm conf, and the state file last.
\* (Mutant: the state file first.)
EvictOrderStateFirst == <<"rm state", "bootout", "disable", "rm conf">>
EvictOrder == <<"bootout", "disable", "rm conf", "rm state">>
After(step) ==
    LET i == CHOOSE n \in 1 .. Len(EvictOrder) : EvictOrder[n] = step
    IN  IF i = Len(EvictOrder) THEN "idle" ELSE EvictOrder[i + 1]

AgentTypeOK ==
    /\ rev \in Revs /\ revoked \in BOOLEAN
    /\ state \in BOOLEAN /\ conf \in Revs \cup {None}
    /\ fails \in 0 .. FailMax + 1 /\ cooling \in 0 .. Cooldown
    /\ loaded \in BOOLEAN /\ enabled \in BOOLEAN
    /\ running \in Revs \cup {None} /\ link \in {"silent", "fine", "wedged"}
    /\ resp \in Revs \cup {None} /\ PollTypeOK
    /\ kept \subseteq {"bootout", "disable"}
    /\ pc \in {"idle", "watch", "stamp", "forget", "revive", "heartbeat", "fetch",
               "install", "kick"} \cup ToSet(EvictOrder)

\* Joined: join.sh wrote conf and state and started the job.
AgentInit ==
    /\ rev = 0 /\ revoked = FALSE
    /\ state = TRUE /\ conf = 0
    /\ fails = 0 /\ cooling = 0
    /\ loaded = TRUE /\ enabled = TRUE /\ running = 0 /\ link = "silent"
    /\ pc = "idle" /\ resp = None /\ PollInit
    /\ crashes = 0 /\ refusals = 0 /\ cut = FALSE /\ kept = {}

-----------------------------------------------------------------------------
(* launchctl kickstart -k: wg_core starts over with the conf on disk.      *)

\* Mutant: without -k a job that runs is left alone.
StartsIdleOnly == running' = (IF running = None THEN conf ELSE running)
Restarts == running' = conf

Kickstart ==
    \/ /\ loaded
       /\ Restarts /\ link' = "silent"
       /\ UNCHANGED <<refusals, cut>>
    \/ /\ ~loaded
       /\ UNCHANGED <<running, link, refusals, cut>>
    \/ /\ refusals < MaxRefusals
       /\ refusals' = refusals + 1
       /\ cut' = (cut \/ pc = "kick")
       /\ UNCHANGED <<running, link>>

-----------------------------------------------------------------------------
(* dataplane_check.                                                        *)

Tick ==
    /\ pc = "idle" /\ state
    /\ pc' = "watch"
    /\ cooling' = IF cooling = 0 THEN 0 ELSE cooling - 1
    /\ UNCHANGED <<control, disk, fails, job, resp, pollVars, counts>>

\* The hub answers, or there is no target: no fresh handshake.
HubFine ==
    /\ pc = "watch" /\ link # "wedged"
    /\ fails' = 0 /\ pc' = "heartbeat"
    /\ UNCHANGED <<control, disk, cooling, job, resp, pollVars, counts>>

\* Mutant: the threshold is tested for equality.
DueOnce(n) == n = FailMax /\ cooling = 0
Due(n) == n >= FailMax /\ cooling = 0

\* The pings are lost although the handshake is fresh.
HubUnpingable ==
    LET n == IF fails > FailMax THEN fails ELSE fails + 1 IN
    /\ pc = "watch" /\ link # "silent"
    /\ fails' = n
    /\ pc' = IF Due(n) THEN "stamp" ELSE "heartbeat"
    /\ UNCHANGED <<control, disk, cooling, job, resp, pollVars, counts>>

Stamp ==
    /\ pc = "stamp"
    /\ cooling' = Cooldown /\ pc' = "forget"
    /\ UNCHANGED <<control, disk, fails, job, resp, pollVars, counts>>

Forget ==
    /\ pc = "forget"
    /\ fails' = 0 /\ pc' = "revive"
    /\ UNCHANGED <<control, disk, cooling, job, resp, pollVars, counts>>

Revive ==
    /\ pc = "revive"
    /\ Kickstart
    /\ pc' = "heartbeat"
    /\ UNCHANGED <<control, disk, watchdog, loaded, enabled, resp, pollVars, crashes, kept>>

-----------------------------------------------------------------------------
(* process_iface: heartbeat and eviction.                                  *)

\* 200, no answer, or a refusal that is not about the token.
Reported ==
    /\ pc = "heartbeat"
    /\ pc' = "fetch" /\ resp' = None
    /\ UNCHANGED <<control, disk, watchdog, job, pollVars, counts>>

Rejected ==
    /\ pc = "heartbeat" /\ revoked
    /\ pc' = EvictOrder[1]
    /\ UNCHANGED <<control, disk, watchdog, job, resp, pollVars, counts>>

\* launchctl ... || true: a command that launchd refuses changes nothing.
Refused(command, effect) ==
    /\ effect /\ refusals < MaxRefusals
    /\ refusals' = refusals + 1
    /\ kept' = kept \cup {command}
    /\ UNCHANGED job

Accepted(command) ==
    /\ kept' = kept \ {command}
    /\ UNCHANGED refusals

Bootout ==
    /\ pc = "bootout"
    /\ \/ /\ loaded' = FALSE /\ running' = None /\ link' = "silent"
          /\ UNCHANGED enabled
          /\ Accepted("bootout")
       \/ Refused("bootout", loaded)
    /\ UNCHANGED disk

Disable ==
    /\ pc = "disable"
    /\ \/ /\ enabled' = FALSE
          /\ UNCHANGED <<loaded, running, link>>
          /\ Accepted("disable")
       \/ Refused("disable", enabled)
    /\ UNCHANGED disk

RemoveConf ==
    /\ pc = "rm conf"
    /\ conf' = None
    /\ UNCHANGED <<state, job, refusals, kept>>

RemoveState ==
    /\ pc = "rm state"
    /\ state' = FALSE
    /\ UNCHANGED <<conf, job, refusals, kept>>

Evict ==
    /\ Bootout \/ Disable \/ RemoveConf \/ RemoveState
    /\ pc' = After(pc)
    /\ UNCHANGED <<control, watchdog, resp, pollVars, crashes, cut>>

-----------------------------------------------------------------------------
(* peer_refresh_loop, in the steps of AgentPoll, and peer_refresh_once.     *)
(* The first request of a run has no cursor.                               *)

LoopStep ==
    /\ pc = "fetch"
    /\ Sleep \/ Exhausted \/ Fetch
    /\ UNCHANGED <<control, disk, watchdog, job, pc, resp, counts>>

LoopEnds ==
    /\ pc = "fetch" /\ stopped
    /\ pc' = "idle" /\ Restart
    /\ UNCHANGED <<control, disk, watchdog, job, resp, counts>>

\* No answer, a refusal, or no private key in the conf.
FetchFails ==
    /\ pc = "fetch"
    /\ \E elapsed \in Elapsed : Error(elapsed)
    /\ UNCHANGED <<control, disk, watchdog, job, pc, resp, counts>>

PeersNotModified ==
    /\ pc = "fetch" /\ ~revoked
    /\ resp = rev
    /\ \E elapsed \in Elapsed : NotModified(elapsed)
    /\ UNCHANGED <<control, disk, watchdog, job, pc, resp, counts>>

\* The planner is told the outcome at once, not after the restart.
PeersListed ==
    /\ pc = "fetch" /\ ~revoked /\ conf # None
    /\ resp' = rev
    /\ \E elapsed \in Elapsed : Listed(elapsed, resp # rev, conf # rev)
    /\ pc' = IF conf = rev THEN "fetch" ELSE "install"
    /\ UNCHANGED <<control, disk, watchdog, job, counts>>

\* install(1) is taken as one step.
Install ==
    /\ pc = "install"
    /\ conf' = resp /\ pc' = "kick"
    /\ UNCHANGED <<control, state, watchdog, job, resp, pollVars, counts>>

Kick ==
    /\ pc = "kick"
    /\ Kickstart
    /\ pc' = "fetch"
    /\ UNCHANGED <<control, disk, watchdog, loaded, enabled, resp, pollVars, crashes, kept>>

-----------------------------------------------------------------------------
(* What happens around the agent.                                          *)

\* launchd stops or reloads it.
Stop ==
    /\ pc # "idle" /\ crashes < MaxCrashes
    /\ pc' = "idle" /\ crashes' = crashes + 1 /\ Restart
    /\ cut' = (cut \/ pc = "kick")
    /\ UNCHANGED <<control, disk, watchdog, job, resp, refusals, kept>>

\* The jobs that are not disabled are loaded again.
Reboot ==
    /\ crashes < MaxCrashes
    /\ pc' = "idle" /\ crashes' = crashes + 1 /\ Restart
    /\ fails' = 0 /\ cooling' = 0
    /\ loaded' = enabled /\ link' = "silent"
    /\ running' = IF enabled THEN conf ELSE None
    /\ kept' = IF enabled THEN kept ELSE kept \ {"bootout"}
    /\ UNCHANGED <<control, disk, enabled, resp, refusals, cut>>

\* wg_core dies and KeepAlive starts it again.
CoreRestarts ==
    /\ running # None
    /\ running' = conf /\ link' = "silent"
    /\ UNCHANGED <<control, disk, watchdog, loaded, enabled, pc, resp, pollVars, counts>>

LinkChanges ==
    /\ running # None
    /\ link' \in CASE link = "silent" -> {"fine", "wedged"}
                   [] link = "fine"   -> {"silent", "wedged"}
                   [] link = "wedged" -> {"silent"}
    /\ UNCHANGED <<control, disk, watchdog, loaded, enabled, running, pc, resp, pollVars, counts>>

PeersChange ==
    /\ rev < MaxRev
    /\ rev' = rev + 1
    /\ UNCHANGED <<revoked, disk, watchdog, job, pc, resp, pollVars, counts>>

Revoke ==
    /\ ~revoked
    /\ revoked' = TRUE
    /\ UNCHANGED <<rev, disk, watchdog, job, pc, resp, pollVars, counts>>

AgentStep ==
    \/ HubFine \/ HubUnpingable \/ Stamp \/ Forget \/ Revive
    \/ Reported \/ Rejected \/ Evict
    \/ LoopStep \/ LoopEnds
    \/ FetchFails \/ PeersNotModified \/ PeersListed \/ Install \/ Kick

AgentNext ==
    \/ Tick \/ AgentStep
    \/ Stop \/ Reboot \/ CoreRestarts
    \/ LinkChanges \/ PeersChange \/ Revoke

\* launchd starts the agent, and its commands return.
AgentSpec == AgentInit /\ [][AgentNext]_agentVars /\ WF_agentVars(Tick) /\ WF_agentVars(AgentStep)

-----------------------------------------------------------------------------
(* The control plane gets through again and again.                         *)
Connected == SF_agentVars(Rejected) /\ SF_agentVars(PeersListed)

(* What an eviction has taken down: the conf, and what launchd did not     *)
(* refuse to take down.                                                    *)
Down ==
    /\ conf = None
    /\ "bootout" \notin kept => running = None
    /\ "disable" \notin kept => ~enabled

(* Once the token is revoked the tunnel ends down for good, over reboots   *)
(* too, wherever the agent and the host were stopped in between: all of it *)
(* unless launchd refused the last bootout or disable of the eviction,     *)
(* which "|| true" passes over and nothing tries again.                    *)
EvictionFinishes == Connected => (revoked ~> [](~state /\ Down))

(* dataplane_check: a tunnel that stays up without answers is restarted,   *)
(* whichever of its runs were cut short.                                   *)
WatchdogRecovers == ~<>[](state /\ loaded /\ link = "wedged")

(* "If conf changed, launchctl kickstart -k to pick up new peers", and     *)
(* "the server is the source of truth": wg_core ends with the peers the    *)
(* control plane last listed.                                              *)
RunsListedPeers == Connected => <>[](revoked \/ running = rev)

(* The same when no run ends between writing the conf and the restart,     *)
(* and launchctl does not refuse it.                                       *)
RunsListedPeersUnlessCut ==
    []~cut => RunsListedPeers

(* "delete state" comes last: an interface without a state file, which no   *)
(* run looks at again, has no conf that a restart or a reboot could bring   *)
(* up, and is down but for what launchd refused, wherever an eviction was   *)
(* stopped before.                                                          *)
EvictedIsDown == ~state => Down /\ (kept = {} => ~loaded)

(* wg_core runs the peers of the conf on disk, or does not run; a restart   *)
(* is due exactly while a run is between writing the conf and kickstart.    *)
(* (A refused bootout leaves it running while the conf is deleted.)         *)
RunsItsConf ==
    ~cut /\ pc # "kick" /\ "bootout" \notin kept => running \in {None, conf}

(* The job of launchd agrees with the files of process_iface wherever a run *)
(* was stopped: it is down for good where the state file is gone, and       *)
(* elsewhere wg_core runs the conf, once no restart is due or was cut; the  *)
(* refusals that the script passes over are the exception.                  *)
JobFollowsDisk == EvictedIsDown /\ RunsItsConf

(* "self-evict THIS iface (bootout + delete conf + delete state)", in the   *)
(* words of wgctl-agent.sh:15-16: nothing is left of an evicted interface.  *)
EvictionComplete == ~state => conf = None /\ running = None /\ ~loaded /\ ~enabled
=============================================================================
