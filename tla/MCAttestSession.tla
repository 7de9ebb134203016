-------------------------- MODULE MCAttestSession --------------------------
EXTENDS AttestSession, TLC

CONSTANTS good, other

MCValues == {good, other}
=============================================================================
