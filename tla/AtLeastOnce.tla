---------------------------- MODULE AtLeastOnce ----------------------------
(***************************************************************************)
(* What a sender of QoS 1 messages promises: a message that is reported as *)
(* delivered has reached the peer, and it is reported once.  A message may *)
(* be given up before that, and it may arrive without ever being reported. *)
(***************************************************************************)
EXTENDS Sequences

CONSTANT Msgs

VARIABLES offered,      \* messages handed to the sender
          held,         \* messages that the sender still has to settle
          atPeer,       \* messages that have reached the peer
          confirmed     \* the messages reported as delivered, in order

aloVars == <<offered, held, atPeer, confirmed>>

AloInit == offered = {} /\ held = {} /\ atPeer = {} /\ confirmed = << >>

Offer(m) ==
    /\ m \notin offered
    /\ offered' = offered \cup {m}
    /\ held' = held \cup {m}
    /\ UNCHANGED <<atPeer, confirmed>>

Arrive(m) ==
    /\ m \in offered
    /\ atPeer' = atPeer \cup {m}
    /\ UNCHANGED <<offered, held, confirmed>>

Confirm(m) ==
    /\ m \in held \cap atPeer
    /\ held' = held \ {m}
    /\ confirmed' = Append(confirmed, m)
    /\ UNCHANGED <<offered, atPeer>>

GiveUp ==
    /\ held' \subseteq held
    /\ UNCHANGED <<offered, atPeer, confirmed>>

AloNext == GiveUp \/ \E m \in Msgs : Offer(m) \/ Arrive(m) \/ Confirm(m)

AloSpec == AloInit /\ [][AloNext]_aloVars
=============================================================================
