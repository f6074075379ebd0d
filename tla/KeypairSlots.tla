---------------------------- MODULE KeypairSlots ----------------------------
(* The three keypair slots of a noise_remote (src/src/wg_noise.c): r_next,   *)
(* r_current and r_previous.  The operators say how noise_add_new_keypair,   *)
(* noise_keypair_received_with and noise_remote_keypairs_clear move keypairs *)
(* between the slots and which ones they hand to noise_keypair_drop.  They   *)
(* do not look inside a keypair, so the object-level model (Noise) and the   *)
(* protocol model (WgTunnel) share them.                                     *)
CONSTANT NULL

SlotNames == {"next", "current", "previous"}

EmptySlots == [n \in SlotNames |-> NULL]

\* The keypairs that some slot points to.
InSlots(s) == {s[n] : n \in SlotNames} \ {NULL}

\* Mutant: the demoted r_next is left in place as well.
AddInitiatorKeepsNext(s, k) ==
    [s EXCEPT !["current"] = k,
              !["previous"] = IF s["next"] # NULL THEN s["next"] ELSE s["current"]]

\* noise_add_new_keypair with kp_is_initiator: the new key is usable at once.
\* An unconfirmed r_next is demoted straight to r_previous.
AddInitiator(s, k) ==
    [n \in SlotNames |->
        CASE n = "next"     -> NULL
          [] n = "current"  -> k
          [] n = "previous" -> IF s["next"] # NULL THEN s["next"] ELSE s["current"]]

DroppedByInitiator(s) ==
    (IF s["next"] # NULL THEN {s["current"], s["previous"]} ELSE {s["previous"]}) \ {NULL}

\* Mutant: the responder's key is put to use at once.
AddResponderUnconfirmed(s, k) ==
    [n \in SlotNames |->
        CASE n = "next"     -> NULL
          [] n = "current"  -> k
          [] n = "previous" -> s["current"]]

\* noise_add_new_keypair on the responder: the new key waits in r_next until
\* the initiator has been heard with it.
AddResponder(s, k) ==
    [n \in SlotNames |->
        CASE n = "next"     -> k
          [] n = "current"  -> s["current"]
          [] n = "previous" -> NULL]

\* Mutant: r_previous is overwritten without noise_keypair_drop.
DroppedByResponderNextOnly(s) == {s["next"]} \ {NULL}

DroppedByResponder(s) == {s["next"], s["previous"]} \ {NULL}

AddKeypair(s, k, initiator) ==
    IF initiator THEN AddInitiator(s, k) ELSE AddResponder(s, k)

DroppedByAdd(s, initiator) ==
    IF initiator THEN DroppedByInitiator(s) ELSE DroppedByResponder(s)

\* Mutant: r_next is not cleared.
PromoteKeepsNext(s) ==
    [n \in SlotNames |-> IF n = "previous" THEN s["current"] ELSE s["next"]]

\* Mutant: the keypairs change places.
PromoteSwapped(s) ==
    [n \in SlotNames |->
        CASE n = "next"     -> NULL
          [] n = "current"  -> s["current"]
          [] n = "previous" -> s["next"]]

\* noise_keypair_received_with: the first packet under r_next confirms it.
Promote(s) ==
    [n \in SlotNames |->
        CASE n = "next"     -> NULL
          [] n = "current"  -> s["next"]
          [] n = "previous" -> s["current"]]

DroppedByPromote(s) == {s["previous"]} \ {NULL}

=============================================================================
