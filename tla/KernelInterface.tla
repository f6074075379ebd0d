--------------------------- MODULE KernelInterface ---------------------------
(* The configuration of an interface of the kernel, src/src/if_wg.c: it goes *)
(* up and down, changes its port, its key and its peers, loses its jail and  *)
(* is destroyed, while threads send through its sockets.  Every command runs *)
(* under sc_lock: todo is what the one that holds it has still to do.  A     *)
(* public key stands for the private one it belongs to.                      *)
EXTENDS Naturals, FiniteSets, Sequences

CONSTANTS
    Keys,       \* public keys
    NoKey,
    Addresses,  \* allowed addresses
    Ports,      \* UDP ports; a request for port 0 leaves the choice to the system
    Options,    \* values of the sockets' options, user cookie and FIB
    Threads,    \* those that send
    MaxPeers,   \* MAX_REMOTE_PER_LOCAL
    MaxItems    \* bound: peers in a request, allowed addresses of a peer in it

ASSUME InterfaceAssumption ==
    /\ Ports \subseteq Nat \ {0}
    /\ MaxPeers \in Nat /\ MaxItems \in Nat
    /\ NoKey \notin Keys

VARIABLES
    running,     \* IFF_DRV_RUNNING
    link,        \* LINK_STATE_UP
    leaving,     \* WGF_DYING and no sc_ucred: "jail" or "destroyed", else "no"
    port,        \* so_port
    option,      \* so_user_cookie and so_fibnum
    socket,      \* so_so4 and so_so6: the set of the sockets that are there
    private,     \* the identity of sc_local
    checker,     \* the key of sc_cookie
    peers,       \* sc_peers
    timers,      \* the peers with p_enabled
    owner,       \* of every address, sc_aip4 and sc_aip6
    todo,        \* of the holder of sc_lock
    using,       \* what has become of the socket a thread has loaded
    awaited,     \* the threads NET_EPOCH_WAIT still waits for
    split,       \* (history) one of the sockets has refused the last option that
                 \* was to be set, and the other has taken it
    configured   \* (history) the peers whose requests have come to their end

ifVars == <<running, link, leaving>>
socketVars == <<port, option, socket, split>>
peerVars == <<private, checker, peers, timers, owner, configured>>
threadVars == <<using, awaited>>
vars == <<ifVars, socketVars, peerVars, todo, threadVars>>

Families == {"v4", "v6"}
Sockets == [family : Families, port : Ports, option : Options]
KeyOrNone == Keys \cup {NoKey}

TypeOK ==
    /\ {running, link} \subseteq BOOLEAN /\ split \in BOOLEAN /\ leaving \in {"no", "jail", "destroyed"}
    /\ port \in Ports \cup {0} /\ option \in Options
    /\ socket \subseteq Sockets
    /\ private \in KeyOrNone /\ checker \in KeyOrNone
    /\ peers \subseteq Keys /\ timers \subseteq Keys /\ configured \subseteq Keys
    /\ owner \in [Addresses -> KeyOrNone]
    /\ using \in [Threads -> {"none", "current", "retired", "closed"}]
    /\ awaited \subseteq Threads

\* wg_clone_create
Init ==
    /\ running = FALSE /\ link = FALSE /\ leaving = "no"
    /\ port = 0 /\ option \in Options /\ socket = {} /\ split = FALSE
    /\ private = NoKey /\ checker = NoKey
    /\ peers = {} /\ timers = {} /\ configured = {}
    /\ owner = [a \in Addresses |-> NoKey]
    /\ todo = <<>>
    /\ using = [t \in Threads |-> "none"] /\ awaited = {}

-----------------------------------------------------------------------------
(* The commands that begin.  A step is a name and its arguments.             *)

Idle == todo = <<>>
At(step) == ~Idle /\ Head(todo)[1] = step
Argument == Head(todo)[2]
Goes(list) == todo' = list \o Tail(todo)
Copies(step, n) == [i \in 1 .. n |-> step]

\* wg_ioctl finds no softc once wg_clone_destroy has begun.
Begins(list) == Idle /\ leaving # "destroyed" /\ todo' = list

Up ==
    /\ leaving = "no" /\ ~running
    /\ running' = TRUE
    /\ Begins(<< <<"open", port>>, <<"enable">> >>)
    /\ UNCHANGED <<link, leaving, socketVars, peerVars, threadVars>>

\* Also wg_reassign.
Down ==
    /\ running
    /\ running' = FALSE
    /\ Begins(<< <<"disable">>, <<"close">> >>)
    /\ UNCHANGED <<link, leaving, socketVars, peerVars, threadVars>>

\* wgc_set: what the request does not have is left out.
Set ==
    /\ \E items \in 0 .. MaxItems :
          Begins(<< <<"replace">>, <<"port">>, <<"key">>, <<"option">> >>
                     \o Copies(<<"peer">>, items))
    /\ UNCHANGED <<ifVars, socketVars, peerVars, threadVars>>

\* SIOCSTUNFIB
SetFib ==
    /\ Begins(<< <<"option">> >>)
    /\ UNCHANGED <<ifVars, socketVars, peerVars, threadVars>>

\* wg_prison_remove
PrisonRemove ==
    /\ leaving = "no"
    /\ leaving' = "jail" /\ link' = FALSE
    /\ Begins(<< <<"close">> >>)
    /\ UNCHANGED <<running, socketVars, peerVars, threadVars>>

\* wg_clone_destroy
CloneDestroy ==
    /\ leaving' = "destroyed" /\ link' = FALSE
    /\ Begins(<< <<"close">>, <<"epochWait">>, <<"destroyAll">> >>)
    /\ UNCHANGED <<running, socketVars, peerVars, threadVars>>

-----------------------------------------------------------------------------
(* The sockets.                                                              *)

\* wg_socket_bind: a family that has no address is done without, if it is not
\* both; with port 0 the second family takes the port that the first was given.
Bound(requested) ==
    {[families |-> f, port |-> p] :
        f \in (SUBSET Families) \ {{}}, p \in IF requested = 0 THEN Ports ELSE {requested}}

\* Mutant: wg_socket_set closes the old sockets at once.
RetiredAtOnce == << <<"soclose">> >>
Retired == << <<"epochWait">>, <<"soclose">> >>

\* wg_socket_set: threads inside the epoch may have loaded the old sockets.
Replace(new) ==
    /\ socket' = new /\ split' = FALSE
    /\ using' = [t \in Threads |-> IF using[t] = "current" THEN "retired" ELSE using[t]]
    /\ awaited' = {t \in Threads : using[t] # "none"}
    /\ Goes(IF socket = {} THEN <<>> ELSE Retired)

\* wg_socket_init.  The credentials are gone when the jail is.
Open ==
    /\ At("open") /\ leaving = "no"
    /\ \E b \in Bound(Argument) :
          /\ port' = b.port
          /\ Replace({[family |-> f, port |-> b.port, option |-> option] : f \in b.families})
    /\ UNCHANGED <<ifVars, option, peerVars>>

\* It fails, with the old sockets in place and the port it was; wg_up and wgc_set
\* then end.
OpenFails ==
    /\ At("open")
    /\ running' = (running /\ ~\E i \in DOMAIN todo : todo[i] = <<"enable">>)
    /\ todo' = <<>>
    /\ UNCHANGED <<link, leaving, socketVars, peerVars, threadVars>>

Close ==
    /\ At("close")
    /\ Replace({})
    /\ UNCHANGED <<ifVars, port, option, peerVars>>

EpochWait ==
    /\ At("epochWait")
    /\ awaited = {}
    /\ Goes(<<>>)
    /\ UNCHANGED <<ifVars, socketVars, peerVars, threadVars>>

Soclose ==
    /\ At("soclose")
    /\ using' = [t \in Threads |-> IF using[t] = "retired" THEN "closed" ELSE using[t]]
    /\ Goes(<<>>)
    /\ UNCHANGED <<ifVars, socketVars, peerVars, awaited>>

\* wg_socket_set_cookie, wg_socket_set_fibnum
Option ==
    /\ At("option")
    /\ \E o \in Options :
          /\ option' = o
          /\ socket' = {[s EXCEPT !.option = o] : s \in socket}
    /\ split' = FALSE
    /\ Goes(<<>>)
    /\ UNCHANGED <<ifVars, port, peerVars, threadVars>>

\* wg_socket_set_sockopt goes on after a socket that refuses: the command fails, and
\* the other socket keeps what it has taken.
OptionSplits ==
    /\ At("option")
    /\ \E o \in Options, taken \in (SUBSET socket) \ {{}, socket} :
          socket' = (socket \ taken) \cup {[s EXCEPT !.option = o] : s \in taken}
    /\ split' = TRUE
    /\ todo' = <<>>
    /\ UNCHANGED <<ifVars, port, option, peerVars, threadVars>>

\* wg_send: the socket is loaded, and used, inside the epoch.
Load(t) ==
    /\ using[t] = "none" /\ socket # {}
    /\ using' = [using EXCEPT ![t] = "current"]
    /\ UNCHANGED <<ifVars, socketVars, peerVars, todo, awaited>>

\* Mutant: the thread returns without NET_EPOCH_EXIT.
Stays(t) == awaited
Exits(t) == awaited \ {t}

Sosend(t) ==
    /\ using[t] # "none"
    /\ using' = [using EXCEPT ![t] = "none"]
    /\ awaited' = Exits(t)
    /\ UNCHANGED <<ifVars, socketVars, peerVars, todo>>

-----------------------------------------------------------------------------
(* The timers, the key and the peers.                                        *)

Enable ==
    /\ At("enable")
    /\ timers' = peers /\ link' = TRUE
    /\ Goes(<<>>)
    /\ UNCHANGED <<running, leaving, socketVars, private, checker, peers, owner, configured, threadVars>>

Disable ==
    /\ At("disable")
    /\ timers' = {} /\ link' = FALSE
    /\ Goes(<<>>)
    /\ UNCHANGED <<running, leaving, socketVars, private, checker, peers, owner, configured, threadVars>>

\* wg_aip_remove_all
Released(gone) == [a \in Addresses |-> IF owner[a] \in gone THEN NoKey ELSE owner[a]]

\* wg_peer_destroy, of every peer in gone.
Destroyed(gone) ==
    /\ peers' = peers \ gone
    /\ timers' = timers \ gone
    /\ configured' = configured \ gone
    /\ owner' = Released(gone)

DestroyAll ==
    /\ At("destroyAll") \/ At("replace")
    /\ Destroyed(peers)
    /\ Goes(<<>>)
    /\ UNCHANGED <<ifVars, socketVars, private, checker, threadVars>>

\* A part of the request that is missing, or a port that is there already,
Skip ==
    /\ \E part \in {"replace", "port", "key", "option"} : At(part)
    /\ Goes(<<>>)
    /\ UNCHANGED <<ifVars, socketVars, peerVars, threadVars>>

\* and one that is not valid, or that the sockets refuse: what has been done stays.
Refuse ==
    /\ \E part \in {"port", "key", "option", "peer"} : At(part)
    /\ todo' = <<>>
    /\ UNCHANGED <<ifVars, socketVars, peerVars, threadVars>>

\* Mutant: the port is set before the sockets are bound to it.
NewPortAnyway(p) == port' = p /\ Goes(IF running THEN << <<"open", p>> >> ELSE <<>>)
NewPort(p) ==
    IF running THEN Goes(<< <<"open", p>> >>) /\ UNCHANGED port
    ELSE port' = p /\ Goes(<<>>)

Port ==
    /\ At("port")
    /\ \E p \in (Ports \cup {0}) \ {port} : NewPort(p)
    /\ UNCHANGED <<ifVars, option, socket, split, peerVars, threadVars>>

\* Mutant: the peer that has the new key stays.
ConflictingNone(key) == {}
Conflicting(key) == {key} \cap peers

Key ==
    /\ At("key")
    /\ \E key \in KeyOrNone \ {private} :
          /\ Destroyed(Conflicting(key))
          /\ private' = key /\ checker' = key
    /\ Goes(<<>>)
    /\ UNCHANGED <<ifVars, socketVars, threadVars>>

\* wg_peer_create: the timers start when the link is up.
\* Mutant: they do not.
CreatedDisabled(key) == {}
CreatedEnabled(key) == IF link THEN {key} ELSE {}

\* The rest of the request about a peer, which is new or not.
Continues(key, new) ==
    \E items \in 0 .. MaxItems :
        Goes(Copies(<<"aip", key, new>>, items) \o << <<"peerEnds", key, new>> >>)

\* wg_peer_add: our own key is ignored, a peer removed, its allowed addresses taken
\* away, or the peer made.
PeerAdd ==
    /\ At("peer")
    /\ \E key \in Keys :
          \/ key = private /\ Goes(<<>>) /\ UNCHANGED peerVars
          \/ /\ key # private
             /\ Destroyed({key} \cap peers)
             /\ Goes(<<>>)
             /\ UNCHANGED <<private, checker>>
          \/ /\ key \in peers
             /\ \E a \in {owner, Released({key})} : owner' = a
             /\ Continues(key, FALSE)
             /\ UNCHANGED <<private, checker, peers, timers, configured>>
          \/ /\ key \notin peers \cup {private} /\ Cardinality(peers) < MaxPeers
             /\ peers' = peers \cup {key}
             /\ timers' = timers \cup CreatedEnabled(key)
             /\ Continues(key, TRUE)
             /\ UNCHANGED <<private, checker, owner, configured>>
    /\ UNCHANGED <<ifVars, socketVars, threadVars>>

AllowedIp ==
    /\ At("aip")
    /\ \E a \in Addresses :
          owner' \in {[owner EXCEPT ![a] = Argument],
                      [owner EXCEPT ![a] = IF @ = Argument THEN NoKey ELSE @]}
    /\ Goes(<<>>)
    /\ UNCHANGED <<ifVars, socketVars, private, checker, peers, timers, configured, threadVars>>

PeerEnds ==
    /\ At("peerEnds")
    /\ configured' = configured \cup {Argument}
    /\ Goes(<<>>)
    /\ UNCHANGED <<ifVars, socketVars, private, checker, peers, timers, owner, threadVars>>

\* Mutant: a peer that was made for the request stays.
CleansNothing(step) == {}
Cleans(step) == IF step[3] THEN {step[2]} ELSE {}

\* An endpoint, a preshared key, an interval or an address is not valid.
PeerFails ==
    /\ At("aip") \/ At("peerEnds")
    /\ Destroyed(Cleans(Head(todo)))
    /\ todo' = <<>>
    /\ UNCHANGED <<ifVars, socketVars, private, checker, threadVars>>

-----------------------------------------------------------------------------
ControlStep ==
    \/ Open \/ OpenFails \/ Close \/ EpochWait \/ Soclose \/ Option \/ OptionSplits
    \/ Enable \/ Disable \/ DestroyAll \/ Skip \/ Refuse \/ Port \/ Key
    \/ PeerAdd \/ AllowedIp \/ PeerEnds \/ PeerFails

Next ==
    \/ Up \/ Down \/ Set \/ SetFib \/ PrisonRemove \/ CloneDestroy
    \/ ControlStep
    \/ \E t \in Threads : Load(t) \/ Sosend(t)

\* Who holds sc_lock goes on, and who is inside the epoch leaves it.
Fairness == WF_vars(ControlStep) /\ \A t \in Threads : WF_vars(Sosend(t))

Spec == Init /\ [][Next]_vars /\ Fairness

-----------------------------------------------------------------------------
(* Correctness.                                                              *)

\* No socket is closed while a thread sends through it; those there are have the
\* configured port, and the configured options unless one of them alone has refused
\* the last change; and there are some exactly while the interface runs, in a jail
\* that stays.
SocketsSound ==
    /\ \A t \in Threads : using[t] # "closed"
    /\ \A s \in socket : s.port = port /\ (split \/ s.option = option)
    /\ Idle => (socket # {}) = (running /\ leaving = "no")

\* The own key is no peer's, the cookies are checked under it, and addresses and
\* timers are those of peers, through every request that changes keys and peers.
TablesAgree ==
    /\ private \notin peers /\ checker = private
    /\ timers \subseteq peers
    /\ \A a \in Addresses : owner[a] \in peers \cup {NoKey}

\* Between the commands a peer is there only if a request for it succeeded, none
\* is half made, and the timers of all peers are on while the interface runs, also
\* of those that came to it later, and of none while it does not.
PeersServed ==
    /\ Idle => peers \subseteq configured
    /\ Idle /\ leaving = "no" => timers = IF running THEN peers ELSE {}

\* Every command comes to its end, whatever is being sent; the last leaves nothing.
CommandsEnd ==
    /\ ~Idle ~> Idle
    /\ leaving = "destroyed" ~> (socket = {} /\ peers = {} /\ timers = {})
=============================================================================
