\* Every interleaving of the four closers over any number of boots; liveness
\* under the fairness of the boot's processes.
CONSTANTS
  Distros <- BothImages
  Moods <- Chips
SPECIFICATION FairSpec
INVARIANTS
  RealRootGuarded
  OneRebootForSilence
  StateTold
  ResumeAndWaitKept
PROPERTIES
  LateCloses
  SilentTPMStillBoots
