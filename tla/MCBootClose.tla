---------------------------- MODULE MCBootClose ----------------------------
(* The close of a boot, both boot images.                                   *)
EXTENDS BootClose

BothImages == {"systemd", "debian"}
SilentOrClosed == {"absent", "silent", "pcr15"}
=============================================================================
