-------------------------- MODULE ProvisioningSpec --------------------------
(***************************************************************************)
(* What workspace provisioning promises, with neither workers nor          *)
(* messages: the reservations are made one after the other in step order,  *)
(* the operation is either completed with all of them in place or undone   *)
(* in reverse order until none is left, and a terminal outcome is final.   *)
(* Only "compensation_failed" may leave some reservations behind, and then *)
(* they are those of the first steps.                                      *)
(***************************************************************************)
EXTENDS Naturals

CONSTANT NSteps      \* number of participants, in step order

VARIABLES phase,     \* public status of the operation
          held       \* steps whose reservation exists

avars == <<phase, held>>

AStep == 1..NSteps

AInit == phase = "absent" /\ held = {}

\* A request for the operation is accepted.
Accept == phase = "absent" /\ phase' = "running" /\ UNCHANGED held

\* The first participant without a reservation makes one.
Reserve ==
  /\ phase = "running"
  /\ \E i \in AStep \ held :
        /\ \A j \in AStep : j < i => j \in held
        /\ held' = held \cup {i}
  /\ UNCHANGED phase

Complete ==
  /\ phase = "running"
  /\ held = AStep
  /\ phase' = "completed"
  /\ UNCHANGED held

GiveUp == phase = "running" /\ phase' = "compensating" /\ UNCHANGED held

\* The last participant with a reservation drops it.
Release ==
  /\ phase = "compensating"
  /\ \E i \in held :
        /\ \A j \in held : j <= i
        /\ held' = held \ {i}
  /\ UNCHANGED phase

Undone ==
  /\ phase = "compensating"
  /\ held = {}
  /\ phase' = "compensated"
  /\ UNCHANGED held

\* The undo is abandoned to an operator.
Stuck ==
  /\ phase = "compensating"
  /\ phase' = "compensation_failed"
  /\ UNCHANGED held

ANext ==
  \/ Accept \/ Reserve \/ Complete
  \/ GiveUp \/ Release \/ Undone \/ Stuck

ASpec == AInit /\ [][ANext]_avars
=============================================================================
