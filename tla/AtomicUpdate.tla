---------------------------- MODULE AtomicUpdate ----------------------------
(***************************************************************************)
(* What a firmware update promises: the node always runs one whole image   *)
(* of its own project, and changes it only at a restart, to an image that  *)
(* was asked for.  A staged update may be abandoned before the restart.    *)
(***************************************************************************)
CONSTANTS Good,         \* whole images of this project
          First         \* the image from the factory

VARIABLES version,      \* the image that runs
          next,         \* the image that will run after the next restart
          asked         \* the images that an update was asked for

auVars == <<version, next, asked>>

AuInit == version = First /\ next = First /\ asked = {}

Ask == asked \subseteq asked' /\ UNCHANGED <<version, next>>

Stage(i) ==
    /\ i \in asked \cap Good
    /\ i # version
    /\ next' = i
    /\ UNCHANGED <<version, asked>>

Abandon == next' = version /\ UNCHANGED <<version, asked>>

Restart == version' = next /\ UNCHANGED <<next, asked>>

AuNext == Ask \/ Abandon \/ Restart \/ \E i \in Good : Stage(i)

AuSpec == AuInit /\ [][AuNext]_auVars
=============================================================================
