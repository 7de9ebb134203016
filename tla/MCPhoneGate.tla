---------------------------- MODULE MCPhoneGate ----------------------------
(* The coordinator on a small instance: room for one quote of two.       *)
EXTENDS PhoneGate, TLC

CONSTANTS q1, q2, old, plain, typed

MCQuotes == {q1, q2}
MCOldQuotes == {old}
MCReleases == {plain, typed}
MCKeyboards == {typed}
MCSymmetry == Permutations(MCQuotes)
=============================================================================
