----------------------------- MODULE MCKeyslots -----------------------------
(* One command, one device, one slot: a deletion whose prompt is cancelled. *)
EXTENDS Keyslots

CONSTANTS c1, d1

MCCommands == {c1}
MCDevices == {d1}

Spec == KeyslotInit /\ [][KeyslotNext(Commands, Devices, {RecipeTPMSalt})]_keyslotVars
=============================================================================
