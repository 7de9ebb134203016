---------------------------- MODULE MCCodeScreen ----------------------------
(* The code screen on small instances.                                     *)
EXTENDS CodeScreen

CONSTANTS q1, plain, typed

MCReleases == {plain, typed}
MCKeyboards == {typed}
MCPlans == {{"phone"}, {"ssh", "vault"}}
PhonePlans == {{"phone"}}
VaultPlans == {{"ssh", "vault"}}
=============================================================================
