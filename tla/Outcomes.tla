------------------------------ MODULE Outcomes ------------------------------
(* What an operation answers that has no value to give.                    *)
CONSTANTS
  Refused,   \* an error: what a decoder or a check answers to what it does not take
  Absent     \* nothing there: no attestation, no phone, no vault, no event
=============================================================================
