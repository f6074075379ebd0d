----------------------------- MODULE MCDataPlane -----------------------------
(* Model-checking instance of the two parts of the data plane that share no  *)
(* state: the window (DataPath) and the peers' sockets (PeerSockets).  A     *)
(* behaviour is about one of them, and the other stays as it was.            *)
EXTENDS DataPath, PeerSockets, TLC

CONSTANTS P, Q

VARIABLE part

WindowVars == <<ringVars, dataVars>>

PlaneInit ==
    /\ DataInit /\ Init
    /\ \/ part = "window" /\ \A p \in Peers : Family(endpoint[p]) = 4
       \/ part = "sockets" /\ ~foreign

\* Sends, roaming, an outage: PeerSockets; packets of one keypair: DataPath.
PlaneNext ==
    \/ part = "window" /\ DataNext /\ UNCHANGED <<part, vars>>
    \/ part = "sockets" /\ Next /\ UNCHANGED <<part, WindowVars>>

\* The fairness of PeerSockets; in a behaviour about the window none of these
\* actions is ever possible.
PlaneSpec ==
    /\ PlaneInit /\ [][PlaneNext]_<<part, WindowVars, vars>>
    /\ SocketsFairness
=============================================================================
