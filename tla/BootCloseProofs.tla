-------------------------- MODULE BootCloseProofs --------------------------
(***************************************************************************)
(* The safety of the close of a boot, for every choice of boot images and  *)
(* of what a TPM may do.                                                   *)
(*                                                                         *)
(* IInv (BootClose) is inductive: one lemma per action, and in each one    *)
(* step for the types, one for what the closers, the count and close-state *)
(* say of the TPM, one for the boots past their close, one for the wait.   *)
(***************************************************************************)
EXTENDS BootClose, TLAPS

\* succeeded keeps the types of what it writes.
LEMMA SucceededType ==
  ASSUME TypeOK, NEW way \in Ways, succeeded(way)
  PROVE  /\ counter' \in 0..1
         /\ pendingFile' \in BOOLEAN
         /\ stateFile' \in States
         /\ silentReboots' \in 0..2
<1>1. counter' \in 0..1
  BY DEF TypeOK, succeeded
<1>4. pendingFile' \in BOOLEAN
  BY DEF succeeded
<1>5. silentReboots' \in 0..2
  BY DEF succeeded
<1>2. stateOf(way) \in States
  BY DEF stateOf, Ways, States
<1>3. stateFile' \in States
  BY <1>2 DEF TypeOK, succeeded, writeState
<1> QED  BY <1>1, <1>3, <1>4, <1>5

\* A boot begins in the invariant.
LEMMA InitInv == Init => IInv
<1> SUFFICES ASSUME Init PROVE IInv
  OBVIOUS
<1>1. TypeOK
  <2>1. /\ distro \in Distros /\ stage \in Stages
        /\ run \in {"hold", "closing", "ready", "gone"}
        /\ chip \in Chips /\ stateFile \in States
        /\ verdict \in {"none", "closed", "noTPM", "pending"}
    BY MoodsAssumption DEF Init, FreshBoot, Stages, States
  <2>2. /\ pc \in [Closers -> {"off", "look", "ladder", "conclude", "done"}]
        /\ met \in [Closers -> Outcomes]
    BY DEF Init, FreshBoot, Outcomes
  <2>3. patient \subseteq Closers /\ tpm \subseteq Ways
    BY DEF Init, FreshBoot
  <2>5. counter \in 0..1
    BY DEF Init
  <2>6. silentReboots \in 0..2
    BY DEF Init
  <2>4. /\ sign \in BOOLEAN /\ runfs \in BOOLEAN
        /\ pendingFile \in BOOLEAN /\ waited \in BOOLEAN
    BY DEF Init, FreshBoot
  <2> QED  BY <2>1, <2>2, <2>3, <2>4, <2>5, <2>6 DEF TypeOK
<1>2. MetTruth /\ StateTruth
  BY DEF Init, FreshBoot, MetTruth, StateTruth, stateOf, Ways
<1>5. CountKept
  <2>1. silentReboots = 0
    BY DEF Init
  <2> QED  BY <2>1 DEF CountKept
<1>3. RealRootGuarded /\ FilesKept /\ ResumeOnlyClosed
  BY DEF Init, FreshBoot, RealRootGuarded, PastTheClose, FilesKept,
         ResumeOnlyClosed
<1>4. WaitKept
  BY DEF Init, FreshBoot, WaitKept, NoTPMOnlyAfterTheWait, Closers
<1> QED  BY <1>1, <1>2, <1>3, <1>4, <1>5 DEF IInv

\* attempt finds the device.
LEMMA FindsDeviceInv ==
  ASSUME IInv, NEW c \in Closers, FindsDevice(c)
  PROVE  IInv'
<1>0. TypeOK
  BY DEF IInv
<1>1. TypeOK'
  BY <1>0
     DEF TypeOK, FindsDevice, Closers
<1>2. MetTruth' /\ CountKept' /\ StateTruth'
  BY DEF IInv, TypeOK, Closers, Ways, Outcomes, FindsDevice, MetTruth,
         CountKept, StateTruth, stateOf
<1>3. RealRootGuarded' /\ FilesKept' /\ ResumeOnlyClosed'
  BY DEF IInv, TypeOK, Closers, Ways, Outcomes, FindsDevice, MetTruth,
         RealRootGuarded, Open, PastTheClose, FilesKept, ResumeOnlyClosed,
         States
<1>4. WaitKept'
  BY DEF IInv, TypeOK, Closers, Ways, Outcomes, FindsDevice, WaitKept,
         NoTPMOnlyAfterTheWait
<1> QED  BY <1>1, <1>2, <1>3, <1>4 DEF IInv

\* attempt goes on without the device.
LEMMA GivesUpDeviceInv ==
  ASSUME IInv, stage # "resumed", NEW c \in Closers, GivesUpDevice(c)
  PROVE  IInv'
<1>0. TypeOK
  BY DEF IInv
<1>1. TypeOK'
  BY <1>0
     DEF TypeOK, GivesUpDevice, withoutDevice, Closers, Outcomes
<1>2. MetTruth' /\ CountKept' /\ StateTruth'
  BY DEF IInv, TypeOK, Closers, Ways, Outcomes, GivesUpDevice, withoutDevice,
         MetTruth, CountKept, StateTruth, stateOf
<1>3. RealRootGuarded' /\ FilesKept' /\ ResumeOnlyClosed'
  BY DEF IInv, TypeOK, Closers, Ways, Outcomes, GivesUpDevice, withoutDevice,
         MetTruth, RealRootGuarded, Open, PastTheClose, FilesKept,
         ResumeOnlyClosed, States
<1>4. WaitKept'
  BY DEF IInv, TypeOK, Closers, Ways, Outcomes, GivesUpDevice, withoutDevice,
         WaitKept, NoTPMOnlyAfterTheWait
<1> QED  BY <1>1, <1>2, <1>3, <1>4 DEF IInv

\* The ladder: a closer believes in the way the TPM has just taken.
LEMMA LadderInv ==
  ASSUME IInv, stage # "resumed", NEW c \in Closers, Ladder(c)
  PROVE  IInv'
<1>0. TypeOK
  BY DEF IInv
<1>1. TypeOK'
  <2>1. met' \in [Closers -> Outcomes]
    BY <1>0 DEF TypeOK, Ladder, Outcomes, Closers
  <2>2. tpm' \subseteq Ways
    BY <1>0 DEF TypeOK, Ladder, Ways
  <2> QED
    BY <1>0, <2>1, <2>2 DEF TypeOK, Ladder, Closers
<1>2. MetTruth' /\ CountKept' /\ StateTruth'
  BY MoodsAssumption
     DEF IInv, TypeOK, Closers, Ways, Outcomes, Ladder, MetTruth, CountKept,
         StateTruth, stateOf, Chips
<1>3. RealRootGuarded' /\ FilesKept' /\ ResumeOnlyClosed'
  BY DEF IInv, TypeOK, Closers, Ways, Outcomes, Ladder, MetTruth,
         RealRootGuarded, Open, PastTheClose, FilesKept, ResumeOnlyClosed,
         States
<1>4. WaitKept'
  BY DEF IInv, TypeOK, Closers, Ways, Outcomes, Ladder, WaitKept,
         NoTPMOnlyAfterTheWait
<1> QED  BY <1>1, <1>2, <1>3, <1>4 DEF IInv

\* run's close begins.
LEMMA RunClosesInv ==
  ASSUME IInv, RunCloses
  PROVE  IInv'
<1>0. TypeOK
  BY DEF IInv
<1>1. TypeOK'
  BY <1>0
     DEF TypeOK, RunCloses, BeginAttempt, closeWait, Closers
<1>2. MetTruth' /\ CountKept' /\ StateTruth'
  BY DEF IInv, TypeOK, Closers, Ways, Outcomes, RunCloses, BeginAttempt,
         closeWait, MetTruth, CountKept, StateTruth, stateOf
<1>3. RealRootGuarded' /\ FilesKept' /\ ResumeOnlyClosed'
  BY DEF IInv, TypeOK, Closers, Ways, Outcomes, RunCloses, BeginAttempt,
         closeWait, MetTruth, RealRootGuarded, Open, PastTheClose, FilesKept,
         ResumeOnlyClosed, States
<1>4. WaitKept'
  BY DEF IInv, TypeOK, Closers, Ways, Outcomes, RunCloses, BeginAttempt,
         closeWait, WaitKept, NoTPMOnlyAfterTheWait
<1> QED  BY <1>1, <1>2, <1>3, <1>4 DEF IInv

\* Now.
LEMMA NowConcludesInv ==
  ASSUME IInv, NowConcludes
  PROVE  IInv'
<1>0. TypeOK
  BY DEF IInv
<1>1. TypeOK'
  <2>1. counter' \in 0..1 /\ pendingFile' \in BOOLEAN /\ stateFile' \in States
          /\ silentReboots' \in 0..2
    BY <1>0, SucceededType DEF NowConcludes, TypeOK
  <2> QED
    BY <1>0, <2>1
       DEF TypeOK, NowConcludes, Closers, States, Ways
<1>2. MetTruth' /\ CountKept' /\ StateTruth'
  BY DEF IInv, TypeOK, Closers, Ways, Outcomes, NowConcludes, succeeded,
         writeState, stateOf, MetTruth, CountKept, StateTruth
<1>3. RealRootGuarded' /\ FilesKept' /\ ResumeOnlyClosed'
  BY DEF IInv, TypeOK, Closers, Ways, Outcomes, NowConcludes, succeeded,
         writeState, stateOf, MetTruth, RealRootGuarded, Open, PastTheClose,
         FilesKept, ResumeOnlyClosed, States
<1>4. WaitKept'
  BY DEF IInv, TypeOK, Closers, Ways, Outcomes, NowConcludes, succeeded,
         writeState, stateOf, WaitKept, NoTPMOnlyAfterTheWait
<1> QED  BY <1>1, <1>2, <1>3, <1>4 DEF IInv

\* The image's close begins.
LEMMA ImageClosesInv ==
  ASSUME IInv, ImageCloses
  PROVE  IInv'
<1>0. TypeOK
  BY DEF IInv
<1>1. TypeOK'
  BY <1>0
     DEF TypeOK, ImageCloses, BeginAttempt, closeWait, Closers, Stages
<1>2. MetTruth' /\ CountKept' /\ StateTruth'
  BY DEF IInv, TypeOK, Closers, Ways, Outcomes, ImageCloses, BeginAttempt,
         closeWait, MetTruth, CountKept, StateTruth, stateOf
<1>3. RealRootGuarded' /\ FilesKept' /\ ResumeOnlyClosed'
  BY DEF IInv, TypeOK, Closers, Ways, Outcomes, ImageCloses, BeginAttempt,
         closeWait, MetTruth, RealRootGuarded, Open, PastTheClose, FilesKept,
         ResumeOnlyClosed, States
<1>4. WaitKept'
  BY DEF IInv, TypeOK, Closers, Ways, Outcomes, ImageCloses, BeginAttempt,
         closeWait, WaitKept, NoTPMOnlyAfterTheWait
<1> QED  BY <1>1, <1>2, <1>3, <1>4 DEF IInv

\* Boot, a close that holds.
LEMMA BootClosedInv ==
  ASSUME IInv, BootClosed
  PROVE  IInv'
<1>0. TypeOK
  BY DEF IInv
<1>1. TypeOK'
  <2>1. counter' \in 0..1 /\ pendingFile' \in BOOLEAN /\ stateFile' \in States
          /\ silentReboots' \in 0..2
    BY <1>0, SucceededType DEF BootClosed, TypeOK
  <2> QED
    BY <1>0, <2>1
       DEF TypeOK, BootClosed, nextStage, Closers, States, Ways, Stages
<1>2. MetTruth' /\ CountKept' /\ StateTruth'
  BY DEF IInv, TypeOK, Closers, Ways, Outcomes, BootClosed, succeeded,
         writeState, stateOf, nextStage, MetTruth, CountKept, StateTruth
<1>3. RealRootGuarded' /\ FilesKept' /\ ResumeOnlyClosed'
  BY DEF IInv, TypeOK, Closers, Ways, Outcomes, BootClosed, succeeded,
         writeState, stateOf, nextStage, MetTruth, RealRootGuarded, Open,
         PastTheClose, FilesKept, ResumeOnlyClosed, States
<1>4. WaitKept'
  BY DEF IInv, TypeOK, Closers, Ways, Outcomes, BootClosed, succeeded,
         writeState, stateOf, nextStage, WaitKept, NoTPMOnlyAfterTheWait
<1> QED  BY <1>1, <1>2, <1>3, <1>4 DEF IInv

\* Boot, no TPM.
LEMMA BootWithoutTPMInv ==
  ASSUME IInv, BootWithoutTPM
  PROVE  IInv'
<1>0. TypeOK
  BY DEF IInv
<1>1. TypeOK'
  BY <1>0
     DEF TypeOK, BootWithoutTPM, writeState, nextStage, Closers, States,
         Stages
<1>2. MetTruth' /\ CountKept' /\ StateTruth'
  BY DEF IInv, TypeOK, Closers, Ways, Outcomes, BootWithoutTPM, writeState,
         nextStage, MetTruth, CountKept, StateTruth, stateOf
<1>3. RealRootGuarded' /\ FilesKept' /\ ResumeOnlyClosed'
  BY DEF IInv, TypeOK, Closers, Ways, Outcomes, BootWithoutTPM, writeState,
         nextStage, MetTruth, RealRootGuarded, Open, PastTheClose, FilesKept,
         ResumeOnlyClosed, States
<1>4. WaitKept'
  BY DEF IInv, TypeOK, Closers, Ways, Outcomes, BootWithoutTPM, writeState,
         nextStage, WaitKept, NoTPMOnlyAfterTheWait
<1> QED  BY <1>1, <1>2, <1>3, <1>4 DEF IInv

\* Boot, every way refused.
LEMMA BootRefusedInv ==
  ASSUME IInv, BootRefused
  PROVE  IInv'
<1>0. TypeOK
  BY DEF IInv
<1>1. TypeOK'
  BY <1>0
     DEF TypeOK, BootRefused, Closers, Stages
<1>2. MetTruth' /\ CountKept' /\ StateTruth'
  BY DEF IInv, TypeOK, Closers, Ways, Outcomes, BootRefused, MetTruth,
         CountKept, StateTruth, stateOf
<1>3. RealRootGuarded' /\ FilesKept' /\ ResumeOnlyClosed'
  BY DEF IInv, TypeOK, Closers, Ways, Outcomes, BootRefused, MetTruth,
         RealRootGuarded, Open, PastTheClose, FilesKept, ResumeOnlyClosed,
         States
<1>4. WaitKept'
  BY DEF IInv, TypeOK, Closers, Ways, Outcomes, BootRefused, WaitKept,
         NoTPMOnlyAfterTheWait
<1> QED  BY <1>1, <1>2, <1>3, <1>4 DEF IInv

\* Boot, the counted reboot: it finds the count at 0, so none was counted since the last close that held.
LEMMA BootCountsRebootInv ==
  ASSUME IInv, BootCountsReboot
  PROVE  IInv'
<1>0. TypeOK
  BY DEF IInv
<1>1. TypeOK'
  BY <1>0
     DEF TypeOK, BootCountsReboot, rebootsCounted, Closers, Stages
<1>2. MetTruth' /\ CountKept' /\ StateTruth'
  BY DEF IInv, TypeOK, Closers, Ways, Outcomes, BootCountsReboot,
         rebootsCounted, MetTruth, CountKept, StateTruth, stateOf
<1>3. RealRootGuarded' /\ FilesKept' /\ ResumeOnlyClosed'
  BY DEF IInv, TypeOK, Closers, Ways, Outcomes, BootCountsReboot,
         rebootsCounted, MetTruth, RealRootGuarded, Open, PastTheClose,
         FilesKept, ResumeOnlyClosed, States
<1>4. WaitKept'
  BY DEF IInv, TypeOK, Closers, Ways, Outcomes, BootCountsReboot,
         rebootsCounted, WaitKept, NoTPMOnlyAfterTheWait
<1> QED  BY <1>1, <1>2, <1>3, <1>4 DEF IInv

\* Boot, on with a silent TPM.
LEMMA BootGoesOnSilentInv ==
  ASSUME IInv, BootGoesOnSilent
  PROVE  IInv'
<1>0. TypeOK
  BY DEF IInv
<1>1. TypeOK'
  BY <1>0
     DEF TypeOK, BootGoesOnSilent, writeState, touchPending, nextStage,
         Closers, States, Stages
<1>2. MetTruth' /\ CountKept' /\ StateTruth'
  BY DEF IInv, TypeOK, Closers, Ways, Outcomes, BootGoesOnSilent, writeState,
         touchPending, nextStage, MetTruth, CountKept, StateTruth, stateOf
<1>3. RealRootGuarded' /\ FilesKept' /\ ResumeOnlyClosed'
  BY DEF IInv, TypeOK, Closers, Ways, Outcomes, BootGoesOnSilent, writeState,
         touchPending, nextStage, MetTruth, RealRootGuarded, Open,
         PastTheClose, FilesKept, ResumeOnlyClosed, States
<1>4. WaitKept'
  BY DEF IInv, TypeOK, Closers, Ways, Outcomes, BootGoesOnSilent, writeState,
         touchPending, nextStage, WaitKept, NoTPMOnlyAfterTheWait
<1> QED  BY <1>1, <1>2, <1>3, <1>4 DEF IInv

\* The resume's close begins.
LEMMA ResumeClosesInv ==
  ASSUME IInv, ResumeCloses
  PROVE  IInv'
<1>0. TypeOK
  BY DEF IInv
<1>1. TypeOK'
  BY <1>0
     DEF TypeOK, ResumeCloses, BeginAttempt, closeWait, Closers
<1>2. MetTruth' /\ CountKept' /\ StateTruth'
  BY DEF IInv, TypeOK, Closers, Ways, Outcomes, ResumeCloses, BeginAttempt,
         closeWait, MetTruth, CountKept, StateTruth, stateOf
<1>3. RealRootGuarded' /\ FilesKept' /\ ResumeOnlyClosed'
  BY DEF IInv, TypeOK, Closers, Ways, Outcomes, ResumeCloses, BeginAttempt,
         closeWait, MetTruth, RealRootGuarded, Open, PastTheClose, FilesKept,
         ResumeOnlyClosed, States
<1>4. WaitKept'
  BY DEF IInv, TypeOK, Closers, Ways, Outcomes, ResumeCloses, BeginAttempt,
         closeWait, WaitKept, NoTPMOnlyAfterTheWait
<1> QED  BY <1>1, <1>2, <1>3, <1>4 DEF IInv

\* Resume.
LEMMA ResumeConcludesInv ==
  ASSUME IInv, ResumeConcludes
  PROVE  IInv'
<1>0. TypeOK
  BY DEF IInv
<1>1. TypeOK'
  <2>1. counter' \in 0..1 /\ pendingFile' \in BOOLEAN /\ stateFile' \in States
          /\ silentReboots' \in 0..2
    BY <1>0, SucceededType DEF ResumeConcludes, TypeOK
  <2> QED
    BY <1>0, <2>1
       DEF TypeOK, ResumeConcludes, resumes, Closers, States, Ways, Stages
<1>2. MetTruth' /\ CountKept' /\ StateTruth'
  BY DEF IInv, TypeOK, Closers, Ways, Outcomes, ResumeConcludes, succeeded,
         writeState, stateOf, resumes, MetTruth, CountKept, StateTruth
<1>3. RealRootGuarded' /\ FilesKept' /\ ResumeOnlyClosed'
  BY DEF IInv, TypeOK, Closers, Ways, Outcomes, ResumeConcludes, succeeded,
         writeState, stateOf, resumes, MetTruth, RealRootGuarded, Open,
         PastTheClose, FilesKept, ResumeOnlyClosed, States
<1>4. WaitKept'
  BY DEF IInv, TypeOK, Closers, Ways, Outcomes, ResumeConcludes, succeeded,
         writeState, stateOf, resumes, WaitKept, NoTPMOnlyAfterTheWait
<1> QED  BY <1>1, <1>2, <1>3, <1>4 DEF IInv

\* The late closer begins.
LEMMA LateStartsInv ==
  ASSUME IInv, LateStarts
  PROVE  IInv'
<1>0. TypeOK
  BY DEF IInv
<1>1. TypeOK'
  BY <1>0
     DEF TypeOK, LateStarts, BeginAttempt, closeWait, Closers
<1>2. MetTruth' /\ CountKept' /\ StateTruth'
  BY DEF IInv, TypeOK, Closers, Ways, Outcomes, LateStarts, BeginAttempt,
         closeWait, MetTruth, CountKept, StateTruth, stateOf
<1>3. RealRootGuarded' /\ FilesKept' /\ ResumeOnlyClosed'
  BY DEF IInv, TypeOK, Closers, Ways, Outcomes, LateStarts, BeginAttempt,
         closeWait, MetTruth, RealRootGuarded, Open, PastTheClose, FilesKept,
         ResumeOnlyClosed, States
<1>4. WaitKept'
  BY DEF IInv, TypeOK, Closers, Ways, Outcomes, LateStarts, BeginAttempt,
         closeWait, WaitKept, NoTPMOnlyAfterTheWait
<1> QED  BY <1>1, <1>2, <1>3, <1>4 DEF IInv

\* Late.
LEMMA LateConcludesInv ==
  ASSUME IInv, LateConcludes
  PROVE  IInv'
<1>0. TypeOK
  BY DEF IInv
<1>1. TypeOK'
  <2>1. counter' \in 0..1 /\ pendingFile' \in BOOLEAN /\ stateFile' \in States
          /\ silentReboots' \in 0..2
    BY <1>0, SucceededType DEF LateConcludes, TypeOK
  <2> QED
    BY <1>0, <2>1
       DEF TypeOK, LateConcludes, lateAgain, Closers, States, Ways
<1>2. MetTruth' /\ CountKept' /\ StateTruth'
  BY DEF IInv, TypeOK, Closers, Ways, Outcomes, LateConcludes, succeeded,
         writeState, stateOf, lateAgain, MetTruth, CountKept, StateTruth
<1>3. RealRootGuarded' /\ FilesKept' /\ ResumeOnlyClosed'
  BY DEF IInv, TypeOK, Closers, Ways, Outcomes, LateConcludes, succeeded,
         writeState, stateOf, lateAgain, MetTruth, RealRootGuarded, Open,
         PastTheClose, FilesKept, ResumeOnlyClosed, States
<1>4. WaitKept'
  BY DEF IInv, TypeOK, Closers, Ways, Outcomes, LateConcludes, succeeded,
         writeState, stateOf, lateAgain, WaitKept, NoTPMOnlyAfterTheWait
<1> QED  BY <1>1, <1>2, <1>3, <1>4 DEF IInv

\* The image is left, or closed once more.
LEMMA LeaveVolumesInv ==
  ASSUME IInv, LeaveVolumes
  PROVE  IInv'
<1>0. TypeOK
  BY DEF IInv
<1>1. TypeOK'
  BY <1>0
     DEF TypeOK, LeaveVolumes, closeWait, Closers, Stages
<1>2. MetTruth' /\ CountKept' /\ StateTruth'
  BY DEF IInv, TypeOK, Closers, Ways, Outcomes, LeaveVolumes, closeWait,
         MetTruth, CountKept, StateTruth, stateOf
<1>3. RealRootGuarded' /\ FilesKept' /\ ResumeOnlyClosed'
  BY DEF IInv, TypeOK, Closers, Ways, Outcomes, LeaveVolumes, closeWait,
         MetTruth, RealRootGuarded, Open, PastTheClose, FilesKept,
         ResumeOnlyClosed, States
<1>4. WaitKept'
  BY DEF IInv, TypeOK, Closers, Ways, Outcomes, LeaveVolumes, closeWait,
         WaitKept, NoTPMOnlyAfterTheWait
<1> QED  BY <1>1, <1>2, <1>3, <1>4 DEF IInv

\* run is gone.
LEMMA RunDiesInv ==
  ASSUME IInv, RunDies
  PROVE  IInv'
<1>0. TypeOK
  BY DEF IInv
<1>1. TypeOK'
  BY <1>0
     DEF TypeOK, RunDies, Closers
<1>2. MetTruth' /\ CountKept' /\ StateTruth'
  BY DEF IInv, TypeOK, Closers, Ways, Outcomes, RunDies, MetTruth, CountKept,
         StateTruth, stateOf
<1>3. RealRootGuarded' /\ FilesKept' /\ ResumeOnlyClosed'
  BY DEF IInv, TypeOK, Closers, Ways, Outcomes, RunDies, MetTruth,
         RealRootGuarded, Open, PastTheClose, FilesKept, ResumeOnlyClosed,
         States
<1>4. WaitKept'
  BY DEF IInv, TypeOK, Closers, Ways, Outcomes, RunDies, WaitKept,
         NoTPMOnlyAfterTheWait
<1> QED  BY <1>1, <1>2, <1>3, <1>4 DEF IInv

\* The device comes, the TPM changes.
LEMMA ChipChangesInv ==
  ASSUME IInv, ChipChanges
  PROVE  IInv'
<1>0. TypeOK
  BY DEF IInv
<1>1. TypeOK'
  BY <1>0, MoodsAssumption
     DEF TypeOK, ChipChanges
<1>2. MetTruth' /\ CountKept' /\ StateTruth'
  BY DEF IInv, TypeOK, Closers, Ways, Outcomes, ChipChanges, MetTruth,
         CountKept, StateTruth, stateOf
<1>3. RealRootGuarded' /\ FilesKept' /\ ResumeOnlyClosed'
  BY DEF IInv, TypeOK, Closers, Ways, Outcomes, ChipChanges, MetTruth,
         RealRootGuarded, Open, PastTheClose, FilesKept, ResumeOnlyClosed,
         States
<1>4. WaitKept'
  BY MoodsAssumption
     DEF IInv, TypeOK, Closers, Ways, Outcomes, ChipChanges, WaitKept,
         NoTPMOnlyAfterTheWait, Chips
<1> QED  BY <1>1, <1>2, <1>3, <1>4 DEF IInv

\* The power goes.
LEMMA PowerCycleInv ==
  ASSUME IInv, PowerCycle
  PROVE  IInv'
<1>0. TypeOK
  BY DEF IInv
<1>1. TypeOK'
  BY <1>0
     DEF TypeOK, PowerCycle, Stages
<1>2. MetTruth' /\ CountKept' /\ StateTruth'
  BY DEF IInv, TypeOK, Closers, Ways, Outcomes, PowerCycle, MetTruth,
         CountKept, StateTruth, stateOf
<1>3. RealRootGuarded' /\ FilesKept' /\ ResumeOnlyClosed'
  BY DEF IInv, TypeOK, Closers, Ways, Outcomes, PowerCycle, MetTruth,
         RealRootGuarded, Open, PastTheClose, FilesKept, ResumeOnlyClosed,
         States
<1>4. WaitKept'
  BY DEF IInv, TypeOK, Closers, Ways, Outcomes, PowerCycle, WaitKept,
         NoTPMOnlyAfterTheWait
<1> QED  BY <1>1, <1>2, <1>3, <1>4 DEF IInv

\* The next boot.
LEMMA RestartInv ==
  ASSUME IInv, Restart
  PROVE  IInv'
<1>0. TypeOK
  BY DEF IInv
<1>1. TypeOK'
  BY <1>0, MoodsAssumption
     DEF TypeOK, Restart, FreshBoot, Closers, Stages, States, Outcomes, Ways
<1>2. MetTruth' /\ CountKept' /\ StateTruth'
  BY DEF IInv, TypeOK, Closers, Ways, Outcomes, Restart, FreshBoot, MetTruth,
         CountKept, StateTruth, stateOf
<1>3. RealRootGuarded' /\ FilesKept' /\ ResumeOnlyClosed'
  BY DEF IInv, TypeOK, Closers, Ways, Outcomes, Restart, FreshBoot, MetTruth,
         RealRootGuarded, Open, PastTheClose, FilesKept, ResumeOnlyClosed,
         States
<1>4. WaitKept'
  BY MoodsAssumption
     DEF IInv, TypeOK, Closers, Ways, Outcomes, Restart, FreshBoot, WaitKept,
         NoTPMOnlyAfterTheWait, Chips
<1> QED  BY <1>1, <1>2, <1>3, <1>4 DEF IInv

\* Every step of every closer, of the environment and of the power keeps the
\* invariant.
LEMMA NextInv == IInv /\ [Next]_vars => IInv'
<1> SUFFICES ASSUME IInv, [Next]_vars PROVE IInv'
  OBVIOUS
<1>1. ASSUME Steps PROVE IInv'
  <2>1. CASE Attempts
    BY <1>1, <2>1, FindsDeviceInv, GivesUpDeviceInv, LadderInv
       DEF Steps, Attempts
  <2>2. CASE BootConcludes
    BY <2>2, BootClosedInv, BootWithoutTPMInv, BootRefusedInv,
       BootCountsRebootInv, BootGoesOnSilentInv DEF BootConcludes
  <2>3. CASE \/ RunCloses \/ NowConcludes \/ ImageCloses
    BY <2>3, RunClosesInv, NowConcludesInv, ImageClosesInv
  <2>4. CASE \/ ResumeCloses \/ ResumeConcludes
    BY <2>4, ResumeClosesInv, ResumeConcludesInv
  <2>5. CASE \/ LateStarts \/ LateConcludes \/ LeaveVolumes
    BY <2>5, LateStartsInv, LateConcludesInv, LeaveVolumesInv
  <2> QED  BY <1>1, <2>1, <2>2, <2>3, <2>4, <2>5 DEF Steps
<1>2. CASE UNCHANGED vars
  <2>1. TypeOK'
    BY <1>2 DEF vars, IInv, TypeOK
  <2>2. MetTruth' /\ CountKept' /\ StateTruth'
    BY <1>2 DEF vars, IInv, MetTruth, CountKept, StateTruth
  <2>3. RealRootGuarded' /\ FilesKept' /\ ResumeOnlyClosed'
    BY <1>2 DEF vars, IInv, RealRootGuarded, Open, FilesKept, ResumeOnlyClosed
  <2>4. WaitKept'
    BY <1>2 DEF vars, IInv, WaitKept, NoTPMOnlyAfterTheWait
  <2> QED  BY <2>1, <2>2, <2>3, <2>4 DEF IInv
<1> QED
  BY <1>1, <1>2, RunDiesInv, ChipChangesInv, PowerCycleInv, RestartInv DEF Next

\* The invariant holds in every reachable state, over any number of boots.
LEMMA Invariance == Spec => []IInv
BY InitInv, NextInv, PTL DEF Spec

\* The state of the close keeps its types.
THEOREM TypeCorrect == Spec => []TypeOK
<1>1. IInv => TypeOK
  BY DEF IInv
<1> QED  BY <1>1, Invariance, PTL

\* Past its close a boot is open only with the late closer's file in place,
\* with no TPM met, or with a /run that takes no file: Boot, Resume, Now and
\* Late in any interleaving, whichever of them dies.
THEOREM RealRootIsGuarded == Spec => []RealRootGuarded
<1>1. IInv => RealRootGuarded
  BY DEF IInv
<1> QED  BY <1>1, Invariance, PTL

\* A silent TPM costs at most one hard reboot between two closes that hold.
THEOREM SilenceRebootsOnce == Spec => []OneRebootForSilence
<1>1. IInv => OneRebootForSilence
  BY DEF IInv, CountKept, OneRebootForSilence
<1> QED  BY <1>1, Invariance, PTL

\* What close-state says of the TPM is true, and control is never silent on
\* a boot in the real root that PCR 15 did not close.
THEOREM StateIsTold == Spec => []StateTold
<1>1. IInv => StateTold
  <2> SUFFICES ASSUME IInv PROVE FindingSpeaks
    BY DEF IInv, StateTold
  <2>1. ASSUME stage = "root", "pcr15" \notin tpm, verdict # "noTPM", runfs
        PROVE  Finding # ""
    <3>1. pendingFile \/ stateFile \in {"closed", "hierarchies", "pcr7", "pending"}
      BY <2>1 DEF IInv, FilesKept, PastTheClose, States
    <3>2. stateFile # "closed"
      BY <2>1 DEF IInv, StateTruth, stateOf, Ways
    <3> QED  BY <3>1, <3>2 DEF Finding
  <2> QED  BY <2>1 DEF FindingSpeaks
<1> QED  BY <1>1, Invariance, PTL

\* A system resumes only behind PCR 15, or where its close met no TPM; and
\* "nothing to close" follows the whole wait for the device.
THEOREM ResumeAndWait == Spec => []ResumeAndWaitKept
<1>1. IInv => ResumeAndWaitKept
  BY DEF IInv, WaitKept, ResumeAndWaitKept
<1> QED  BY <1>1, Invariance, PTL
=============================================================================
