------------------------------ MODULE DataPath ------------------------------
(* The data packets of one keypair, from wgs_encap to the receiver's TUN     *)
(* device, over a network that loses, delays, reorders and duplicates.       *)
(* Checks tells the two receivers of the repository apart: wg_deliver_in     *)
(* (src/src/if_wg.c) asks noise_keypair_nonce_check before it delivers;      *)
(* wgs_handle_data and wg_decap (src/src/wg_session.c, src/src/wg_core.c)    *)
(* deliver what noise_keypair_decrypt has authenticated.  The sender is      *)
(* either this code or another implementation, which may use its nonces in   *)
(* any order and up to a limit of its own.                                   *)
EXTENDS ReplayWindow

CONSTANTS
    Checks,  \* whether the receiver consults the window
    Copies   \* bound on the deliveries of one packet

VARIABLES
    sendNonce,  \* kp_nonce_send of the sender
    canSend,    \* kp_can_send of the sender; FALSE for a foreign one
    foreign,    \* the sender is another implementation
    net,        \* nonces of the packets sent
    delivered   \* how often each packet reached the TUN device

dataVars == <<sendNonce, canSend, foreign, net, delivered>>

DataInit ==
    /\ RingInit
    /\ foreign \in BOOLEAN
    /\ sendNonce = 0 /\ canSend = ~foreign
    /\ net = IF foreign THEN Counters ELSE {}
    /\ delivered = [c \in Counters |-> 0]

\* Mutant: the limit is not enforced on the sending side.
WithinLimitNot(nonce) == nonce < Wrap - 1
WithinLimit(nonce) == nonce < RejectAfter

\* wgs_encap: noise_keypair_nonce_next hands out the next nonce, or stops the
\* keypair at the limit.
Encap ==
    /\ canSend
    /\ sendNonce' = sendNonce + 1
    /\ canSend' = WithinLimit(sendNonce)
    /\ net' = IF WithinLimit(sendNonce) THEN net \cup {sendNonce} ELSE net
    /\ UNCHANGED <<ringVars, foreign, delivered>>

Accepted == verdict'[2]

\* noise_keypair_decrypt refuses every packet once kp_nonce_recv is at the
\* limit; one that waits in the queue of wg_deliver_in was decrypted earlier.
\* Then comes the window, where there is one, and the packet is written out.
Receive(c) ==
    /\ c \in net
    /\ Checks \/ recv < RejectAfter
    /\ IF Checks THEN NonceCheck(c) ELSE UNCHANGED ringVars
    /\ IF Checks => Accepted
       THEN /\ delivered[c] < Copies
            /\ delivered' = [delivered EXCEPT ![c] = @ + 1]
       ELSE UNCHANGED delivered
    /\ UNCHANGED <<sendNonce, canSend, foreign, net>>

DataNext == Encap \/ \E c \in Counters : Receive(c)

DataSpec == DataInit /\ [][DataNext]_<<ringVars, dataVars>>

-----------------------------------------------------------------------------
\* "Each data packet has a monotonic nonce and is checked by a sliding window":
\* a packet reaches the TUN device at most once, however often the network
\* delivers its datagram.
DeliveredAtMostOnce == \A c \in Counters : delivered[c] <= 1

\* The sender stops before a nonce could be out of the receiver's range: what
\* it sends in order and without loss is never refused.
InOrderNeverRefused ==
    [][~foreign => \A c \in net : Receive(c) /\ (\A d \in net : d <= c) /\ delivered[c] = 0
          => delivered'[c] = 1]_<<ringVars, dataVars>>
=============================================================================
