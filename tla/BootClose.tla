----------------------------- MODULE BootClose -----------------------------
(***************************************************************************)
(* The close of a boot (internal/bootclose): the closers of a boot image,  *)
(* what each does with the outcome of its attempt, and the boots that      *)
(* follow a hard reboot.                                                   *)
(*                                                                         *)
(* A boot is open while none of the ladder's three ways has been taken:    *)
(* PCR 15 extended, the owner hierarchy off, PCR 7 extended.  Four kinds   *)
(* of process take them:                                                   *)
(*                                                                         *)
(*   "run"     bootclose.Now, at the end of the code screen                *)
(*   "image"   bootclose.Boot: systemd's tpm2-kira-close.service; Debian's *)
(*             local-top script, and once more its init-bottom script      *)
(*   "resume"  bootclose.Resume, before a resume from hibernation.  Under  *)
(*             systemd it is ordered after the code screen alone, so it    *)
(*             runs beside the image's close; on Debian it follows it      *)
(*   "late"    bootclose.Late, started where the close-pending file is     *)
(*                                                                         *)
(* Every attempt takes three steps, and those of two closers interleave:   *)
(* it looks for the device, goes down the ladder, concludes.  The EFI      *)
(* variable that counts the hard reboots is the one thing that outlives a  *)
(* boot.                                                                   *)
(***************************************************************************)
EXTENDS Naturals

CONSTANTS
  Distros,     \* the boot images in question
  Moods        \* what the TPM behind the device may come to do, see Chips

ASSUME DistrosAssumption == Distros \subseteq {"systemd", "debian"}

VARIABLES
  distro,      \* which image the machine boots; never changes
  stage,       \* how far the boot is
  run,         \* run's code screen
  pc,          \* per closer: where its attempt is
  patient,     \* the closers whose attempt still waits for the device
  met,         \* per closer: the outcome of its attempt
  tpm,         \* the ways of the ladder the TPM has taken in this boot
  chip,        \* what a closer meets at the TPM's device now
  sign,        \* whether the firmware shows that it had a TPM (FirmwareSign)
  counter,     \* the EFI variable KIRAcloseReboot: hard reboots counted
  runfs,       \* whether /run/tpm2-kira takes a write in this boot
  pendingFile, \* whether close-pending is there
  stateFile,   \* what close-state says, "" for no such file
  verdict,     \* what the image's last close of this boot came to
  waited,      \* whether the image's close gave the device its whole wait
  silentReboots \* hard reboots for a silent TPM since a close last held

vars == <<distro, stage, run, pc, patient, met, tpm, chip, sign, counter,
          runfs, pendingFile, stateFile, verdict, waited, silentReboots>>

Closers == {"run", "image", "resume", "late"}

\* The ways a close can hold, hostkey.CloseResult.How.
Ways == {"pcr15", "hierarchies", "pcr7"}

\* What the ladder meets at the device: none yet, no answer, the first way that
\* works, or an answer that refuses all three.
Chips == {"absent", "silent", "refuses"} \union Ways

ASSUME MoodsAssumption == Moods \subseteq Chips

\* bootclose's outcomes, with the way of a close in place of its result.
Outcomes == {"none", "noTPM", "silent", "refused"} \union Ways

Stages == {"screen", "image", "resume", "volumes", "bottom", "root",
           "resumed", "rebooting"}

States == {"", "closed", "hierarchies", "pcr7", "no-tpm", "pending"}

TypeOK ==
  /\ distro \in Distros
  /\ stage \in Stages
  /\ run \in {"hold", "closing", "ready", "gone"}
  /\ pc \in [Closers -> {"off", "look", "ladder", "conclude", "done"}]
  /\ patient \subseteq Closers
  /\ met \in [Closers -> Outcomes]
  /\ tpm \subseteq Ways
  /\ chip \in Chips
  /\ sign \in BOOLEAN
  /\ counter \in 0..1
  /\ runfs \in BOOLEAN
  /\ pendingFile \in BOOLEAN
  /\ stateFile \in States
  /\ verdict \in {"none", "closed", "noTPM", "pending"}
  /\ waited \in BOOLEAN
  /\ silentReboots \in 0..2

----------------------------------------------------------------------------
(* A boot from its beginning: TPM2_Startup(CLEAR) restores the PCRs and the *)
(* hierarchies, /run is empty.  The device may come later, and what it does *)
(* is the environment's choice.                                             *)

FreshBoot(st, r, p, w, m, t, rf, pf, sf, v, wt) ==
  /\ st = "screen"
  /\ r = "hold"
  /\ p = [c \in Closers |-> "off"]
  /\ w = {}
  /\ m = [c \in Closers |-> "none"]
  /\ t = {}
  /\ rf \in BOOLEAN
  /\ pf = FALSE
  /\ sf = ""
  /\ v = "none"
  /\ wt = FALSE

Init ==
  /\ distro \in Distros
  /\ FreshBoot(stage, run, pc, patient, met, tpm, runfs, pendingFile,
               stateFile, verdict, waited)
  /\ chip \in Moods
  /\ sign \in BOOLEAN
  /\ counter = 0
  /\ silentReboots = 0

----------------------------------------------------------------------------
(* One attempt.                                                             *)

\* closeWait: no wait when this boot's close has waited, or when this boot
\* follows the counted reboot and the firmware shows a TPM.
closeWait == ~ (pendingFile \/ (counter > 0 /\ sign))

\* A closer begins its attempt; Now and Late do not wait for the device.
BeginAttempt(c) ==
  /\ pc' = [pc EXCEPT ![c] = "look"]
  /\ patient' = IF c \in {"image", "resume"} /\ closeWait
                THEN patient \union {c} ELSE patient

\* attempt, the device: bootwait.Await finds it, now or within the wait.
FindsDevice(c) ==
  /\ pc[c] = "look"
  /\ chip # "absent"
  /\ pc' = [pc EXCEPT ![c] = "ladder"]
  /\ patient' = patient \ {c}
  /\ UNCHANGED <<distro, stage, run, met, tpm, chip, sign, counter,
                 runfs, pendingFile, stateFile, verdict, waited,
                 silentReboots>>

\* What an attempt comes to without a device: the firmware's sign decides
\* between a silent TPM and none; lateAttempt does not ask for the sign.
withoutDevice(c) == IF sign \/ c = "late" THEN "silent" ELSE "noTPM"

\* attempt, the device: it is not there, at once or when the wait is over.
GivesUpDevice(c) ==
  /\ pc[c] = "look"
  /\ chip = "absent"
  /\ pc' = [pc EXCEPT ![c] = "conclude"]
  /\ met' = [met EXCEPT ![c] = withoutDevice(c)]
  /\ waited' = IF c = "image" THEN c \in patient \/ waited ELSE waited
  /\ patient' = patient \ {c}
  /\ UNCHANGED <<distro, stage, run, tpm, chip, sign, counter, runfs,
                 pendingFile, stateFile, verdict, silentReboots>>

\* openTPM and hostkey.Close, the ladder.  A TPM that falls silent may have
\* extended PCR 15 before it did.
Ladder(c) ==
  /\ pc[c] = "ladder"
  /\ pc' = [pc EXCEPT ![c] = "conclude"]
  /\ \/ /\ chip \in Ways
        /\ met' = [met EXCEPT ![c] = chip]
        /\ tpm' = tpm \union {chip}
     \/ /\ chip = "refuses"
        /\ met' = [met EXCEPT ![c] = "refused"]
        /\ tpm' = tpm
     \/ /\ chip \in {"silent", "absent"}
        /\ met' = [met EXCEPT ![c] = "silent"]
        /\ tpm' \in {tpm, tpm \union {"pcr15"}}
  /\ UNCHANGED <<distro, stage, run, patient, chip, sign, counter, runfs,
                 pendingFile, stateFile, verdict, waited, silentReboots>>

\* writeState: a write that fails is said, and the file stays as it was.
writeState(s) == stateFile' = IF runfs THEN s ELSE stateFile

\* The state a close leaves, by its way.
stateOf(way) == IF way = "pcr15" THEN "closed" ELSE way

\* succeeded: the counter goes, if the EFI variable can be removed; so does
\* close-pending; the state is written.
succeeded(way) ==
  /\ counter' \in {0, counter}
  /\ pendingFile' = FALSE
  /\ writeState(stateOf(way))
  /\ silentReboots' = 0

----------------------------------------------------------------------------
(* The code screen, and run's own close at its end.                         *)

\* The code screen is over: run closes the boot (bootrun's closeBoot).
RunCloses ==
  /\ stage = "screen"
  /\ run = "hold"
  /\ run' = "closing"
  /\ BeginAttempt("run")
  /\ UNCHANGED <<distro, stage, met, tpm, chip, sign, counter, runfs,
                 pendingFile, stateFile, verdict, waited, silentReboots>>

\* Now: what run's close cannot do is left to the image's.
NowConcludes ==
  /\ pc["run"] = "conclude"
  /\ pc' = [pc EXCEPT !["run"] = "done"]
  /\ run' = "ready"
  /\ IF met["run"] \in Ways
     THEN succeeded(met["run"])
     ELSE UNCHANGED <<counter, pendingFile, stateFile, silentReboots>>
  /\ UNCHANGED <<distro, stage, patient, met, tpm, chip, sign, runfs, verdict,
                 waited>>

\* run ends, fails or is killed, wherever it is: its close is not concluded.
RunDies ==
  /\ stage \notin {"resumed", "rebooting"}
  /\ run # "gone"
  /\ run' = "gone"
  /\ pc' = [pc EXCEPT !["run"] = "off"]
  /\ UNCHANGED <<distro, stage, patient, met, tpm, chip, sign, counter, runfs,
                 pendingFile, stateFile, verdict, waited, silentReboots>>

----------------------------------------------------------------------------
(* The image's close.                                                       *)

\* AwaitRun, or After=tpm2-kira.service: the image's close begins once run is
\* ready, past its own close, or gone.
ImageCloses ==
  /\ stage = "screen"
  /\ run \in {"ready", "gone"}
  /\ stage' = "image"
  /\ BeginAttempt("image")
  /\ UNCHANGED <<distro, run, met, tpm, chip, sign, counter, runfs,
                 pendingFile, stateFile, verdict, waited, silentReboots>>

\* Mutated form: the count is not read.
rebootsCounted_Never == 0

\* rebootsCounted: what the EFI variable says, 0 for none.
rebootsCounted == counter

\* Mutated form: the boot goes on and leaves nothing to start the late closer.
touchPending_Forgotten == pendingFile' = pendingFile

\* touchPending: close-pending is made, where /run takes it.
touchPending == pendingFile' = (pendingFile \/ runfs)

\* Where the boot goes after an image's close that let it go on.
nextStage ==
  CASE stage = "image" /\ distro = "debian" -> "resume"
    [] stage = "image" /\ distro # "debian" -> "volumes"
    [] OTHER -> "root"

\* Boot, a close that holds: the boot goes on.
BootClosed ==
  /\ pc["image"] = "conclude"
  /\ met["image"] \in Ways
  /\ succeeded(met["image"])
  /\ verdict' = "closed"
  /\ stage' = nextStage
  /\ pc' = [pc EXCEPT !["image"] = "done"]
  /\ UNCHANGED <<distro, run, patient, met, tpm, chip, sign, runfs, waited>>

\* Boot, no TPM by any sign: nothing to close.
BootWithoutTPM ==
  /\ pc["image"] = "conclude"
  /\ met["image"] = "noTPM"
  /\ writeState("no-tpm")
  /\ verdict' = "noTPM"
  /\ stage' = nextStage
  /\ pc' = [pc EXCEPT !["image"] = "done"]
  /\ UNCHANGED <<distro, run, patient, met, tpm, chip, sign, counter, runfs,
                 pendingFile, waited, silentReboots>>

\* Boot, every way refused: ErrReboot, and nothing is counted.
BootRefused ==
  /\ pc["image"] = "conclude"
  /\ met["image"] = "refused"
  /\ stage' = "rebooting"
  /\ pc' = [pc EXCEPT !["image"] = "done"]
  /\ UNCHANGED <<distro, run, patient, met, tpm, chip, sign, counter, runfs,
                 pendingFile, stateFile, verdict, waited, silentReboots>>

\* Boot, a silent TPM for the first time: ErrReboot, once it is counted.
BootCountsReboot ==
  /\ pc["image"] = "conclude"
  /\ met["image"] = "silent"
  /\ rebootsCounted = 0
  /\ counter' = 1
  /\ silentReboots' = IF silentReboots < 2 THEN silentReboots + 1
                                           ELSE silentReboots
  /\ stage' = "rebooting"
  /\ pc' = [pc EXCEPT !["image"] = "done"]
  /\ UNCHANGED <<distro, run, patient, met, tpm, chip, sign, runfs,
                 pendingFile, stateFile, verdict, waited>>

\* Boot, a silent TPM again, or one whose reboot cannot be counted (the write
\* of the EFI variable failed): the boot goes on and the late closer follows.
BootGoesOnSilent ==
  /\ pc["image"] = "conclude"
  /\ met["image"] = "silent"
  /\ writeState("pending")
  /\ touchPending
  /\ verdict' = "pending"
  /\ stage' = nextStage
  /\ pc' = [pc EXCEPT !["image"] = "done"]
  /\ UNCHANGED <<distro, run, patient, met, tpm, chip, sign, counter, runfs,
                 waited, silentReboots>>

BootConcludes ==
  \/ BootClosed
  \/ BootWithoutTPM
  \/ BootRefused
  \/ BootCountsReboot
  \/ BootGoesOnSilent

----------------------------------------------------------------------------
(* The close before a resume from hibernation.                              *)

\* systemd's drop-in runs before every attempt of a resume, ordered after the
\* code screen; Debian's local-top script after the image's close.
ResumeCloses ==
  /\ pc["resume"] = "off"
  /\ \/ distro = "systemd" /\ stage \in {"image", "volumes"}
     \/ distro = "systemd" /\ stage = "screen" /\ run \in {"ready", "gone"}
     \/ distro = "debian" /\ stage = "resume"
  /\ BeginAttempt("resume")
  /\ UNCHANGED <<distro, stage, run, met, tpm, chip, sign, counter, runfs,
                 pendingFile, stateFile, verdict, waited, silentReboots>>

\* Mutated form: any close that holds lets the resume go on.
resumes_Degraded(outcome) == outcome \in {"noTPM"} \union Ways

\* Which outcomes let a resume go on.
resumes(outcome) == outcome \in {"noTPM", "pcr15"}

\* Resume: a close that holds is kept as one, PCR 15 itself or no TPM lets the
\* resume go on, anything else does not.  Without a hibernated system on the
\* disk the boot goes on as well.
ResumeConcludes ==
  /\ pc["resume"] = "conclude"
  /\ pc' = [pc EXCEPT !["resume"] = "done"]
  /\ IF met["resume"] \in Ways
     THEN succeeded(met["resume"])
     ELSE UNCHANGED <<counter, pendingFile, stateFile, silentReboots>>
  /\ \/ /\ resumes(met["resume"])
        /\ stage' = "resumed"
     \/ stage' = IF stage = "resume" THEN "volumes" ELSE stage
  /\ UNCHANGED <<distro, run, patient, met, tpm, chip, sign, runfs, verdict,
                 waited>>

----------------------------------------------------------------------------
(* The late closer, and the change to the real root.                        *)

\* tpm2-kira-late-close.service: where close-pending is, in a systemd image
\* after its close, and in the real root of both.
LateStarts ==
  /\ pc["late"] = "off"
  /\ pendingFile
  /\ \/ stage = "root"
     \/ distro = "systemd" /\ stage = "volumes"
  /\ BeginAttempt("late")
  /\ UNCHANGED <<distro, stage, run, met, tpm, chip, sign, counter, runfs,
                 pendingFile, stateFile, verdict, waited, silentReboots>>

\* Mutated form: the first attempt that fails is the last.
lateAgain_Never == "done"

\* Late's loop: where it goes after an attempt that did not hold.
lateAgain == "look"

\* Late: it ends when a close holds, and asks again after anything else.
LateConcludes ==
  /\ pc["late"] = "conclude"
  /\ IF met["late"] \in Ways
     THEN /\ succeeded(met["late"])
          /\ pc' = [pc EXCEPT !["late"] = "done"]
     ELSE /\ pc' = [pc EXCEPT !["late"] = lateAgain]
          /\ UNCHANGED <<counter, pendingFile, stateFile, silentReboots>>
  /\ UNCHANGED <<distro, stage, run, patient, met, tpm, chip, sign, runfs,
                 verdict, waited>>

\* The volumes are open.  Under systemd the change of root follows and stops
\* the image's late closer, wherever it is; Debian's init-bottom script stops
\* run and closes once more.  A resume still being tried is over by then.
LeaveVolumes ==
  /\ stage = "volumes"
  /\ pc["resume"] \in {"off", "done"}
  /\ run' = "gone"
  /\ \/ /\ distro = "systemd"
        /\ stage' = "root"
        /\ pc' = [pc EXCEPT !["late"] = "off", !["run"] = "off"]
        /\ patient' = patient
     \/ /\ distro = "debian"
        /\ stage' = "bottom"
        /\ pc' = [pc EXCEPT !["image"] = "look", !["run"] = "off"]
        /\ patient' = IF closeWait THEN patient \union {"image"}
                                     ELSE patient
  /\ UNCHANGED <<distro, met, tpm, chip, sign, counter, runfs, pendingFile,
                 stateFile, verdict, waited, silentReboots>>

----------------------------------------------------------------------------
(* The environment.                                                         *)

\* The device comes, or the TPM behind it changes what it does.  An event log
\* may come with the device, and it is a sign of the firmware's.
ChipChanges ==
  /\ stage # "rebooting"
  /\ chip' \in Moods \ {"absent", chip}
  /\ sign' \in IF chip = "absent" THEN {sign, TRUE} ELSE {sign}
  /\ UNCHANGED <<distro, stage, run, pc, patient, met, tpm, counter, runfs,
                 pendingFile, stateFile, verdict, waited, silentReboots>>

\* Power lost, or a reboot by hand, wherever the boot is.
PowerCycle ==
  /\ stage # "rebooting"
  /\ stage' = "rebooting"
  /\ UNCHANGED <<distro, run, pc, patient, met, tpm, chip, sign, counter,
                 runfs, pendingFile, stateFile, verdict, waited,
                 silentReboots>>

\* The next boot.  A TPM that stays as it was is among the choices.
Restart ==
  /\ stage = "rebooting"
  /\ FreshBoot(stage', run', pc', patient', met', tpm', runfs', pendingFile',
               stateFile', verdict', waited')
  /\ chip' \in Moods \intersect {chip, "absent"}
  /\ sign' \in BOOLEAN
  /\ UNCHANGED <<distro, counter, silentReboots>>

Attempts ==
  \E c \in Closers : FindsDevice(c) \/ GivesUpDevice(c) \/ Ladder(c)

\* No process of a boot that is being restarted, or whose memory a resumed
\* system has taken over, takes another step.
Steps ==
  /\ stage \notin {"rebooting", "resumed"}
  /\ \/ Attempts
     \/ RunCloses \/ NowConcludes
     \/ ImageCloses \/ BootConcludes
     \/ ResumeCloses \/ ResumeConcludes
     \/ LateStarts \/ LateConcludes
     \/ LeaveVolumes

Next ==
  \/ Steps
  \/ RunDies
  \/ ChipChanges
  \/ PowerCycle
  \/ Restart

(***************************************************************************)
(* Fairness.  The processes of a boot run on, each by itself, and so does  *)
(* the machine after a reboot.  The image's close and the late closer are  *)
(* never kept from their turn; that a silent TPM's boot goes on rather     *)
(* than counting again needs no fairness, the counter decides it.  Nothing *)
(* is assumed of the TPM, of run's death or of the power.                  *)
(***************************************************************************)
ClosersTurn(c) == FindsDevice(c) \/ GivesUpDevice(c) \/ Ladder(c)

Alive(A) == stage \notin {"rebooting", "resumed"} /\ A

Fairness ==
  /\ \A c \in Closers : WF_vars(Alive(ClosersTurn(c)))
  /\ WF_vars(Alive(RunCloses)) /\ WF_vars(Alive(NowConcludes))
  /\ WF_vars(Alive(ImageCloses)) /\ WF_vars(Alive(BootConcludes))
  /\ WF_vars(Alive(ResumeCloses)) /\ WF_vars(Alive(ResumeConcludes))
  /\ WF_vars(Alive(LateStarts)) /\ WF_vars(Alive(LateConcludes))
  /\ WF_vars(Alive(LeaveVolumes))
  /\ WF_vars(Restart)

Spec == Init /\ [][Next]_vars

FairSpec == Spec /\ Fairness

----------------------------------------------------------------------------
(* Properties.                                                              *)

\* No way of the ladder has been taken: the slots and the SSH CA answer.
Open == tpm = {}

\* The image's close is behind the boot.
PastTheClose == {"resume", "volumes", "bottom", "root"}

\* Past the image's close a boot is open only with the late closer's file in
\* place, or where no sign of a TPM was there to be met (Boot's noTPM), or
\* where /run takes no file (said on the console): no interleaving of the
\* closers, no death of one between the TPM and its files, loses the file of
\* a boot that is still open.
RealRootGuarded ==
  stage \in PastTheClose /\ Open
    => pendingFile \/ verdict = "noTPM" \/ ~ runfs

\* A silent TPM costs one hard reboot, and none again before a close has
\* held: docs/SSH.md, "one hard reboot ... The next time in a row: no reboot".
OneRebootForSilence == silentReboots <= 1

\* close-state never claims a way of the close that the TPM did not take in
\* this boot.
StateTruth ==
  \A way \in Ways : stateFile = stateOf(way) => way \in tpm

\* Mutated form: PCR 7 in place of PCR 15 is not worth a word.
Finding_NoPCR7 ==
  CASE pendingFile \/ stateFile = "pending" -> "pending"
    [] stateFile = "hierarchies" \/ "hierarchies" \in tpm -> "hierarchies"
    [] counter > 0 -> "counted"
    [] OTHER -> ""

\* Finding: what status and control say in red of this boot's close, read
\* with a TPM that answers.
Finding ==
  CASE pendingFile \/ stateFile = "pending" -> "pending"
    [] stateFile = "pcr7" -> "pcr7"
    [] stateFile = "hierarchies" \/ "hierarchies" \in tpm -> "hierarchies"
    [] counter > 0 -> "counted"
    [] OTHER -> ""

\* In the real root, a boot that PCR 15 did not close is never passed over in
\* silence by control, unless no TPM was met or /run keeps nothing: whatever
\* closers wrote over one another's state.
FindingSpeaks ==
  stage = "root" /\ "pcr15" \notin tpm /\ verdict # "noTPM" /\ runfs
    => Finding # ""

\* A resumed system runs behind PCR 15 itself, or on a machine where its own
\* close met no TPM.
ResumeOnlyClosed ==
  stage = "resumed" => "pcr15" \in tpm \/ met["resume"] = "noTPM"

\* "Nothing to close" is only said of a device that was given the whole wait:
\* the count, which anyone may write, never lets a boot past a TPM that comes
\* late (closeWait's comment).
NoTPMOnlyAfterTheWait == verdict = "noTPM" => waited

\* What the files say and what control says of this boot is true together
\* (writeState, Finding).
StateTold == StateTruth /\ FindingSpeaks

\* A resume goes on behind PCR 15 alone, and a boot says that there is no TPM
\* only after the whole wait (Resume, closeWait).
ResumeAndWaitKept == ResumeOnlyClosed /\ NoTPMOnlyAfterTheWait

\* A TPM that can be closed, from some time on, is closed in the real root of
\* a boot that went on without it, unless the machine reboots first.
LateCloses ==
  <>[](chip \in Ways)
    => [](stage = "root" /\ pendingFile
            => <>(~ Open \/ stage # "root"))

\* A TPM that stays silent does not keep the machine from its disk: without
\* further power cycles the boot gets past its close.
SilentTPMStillBoots ==
  <>[][~ PowerCycle]_vars /\ <>[](chip \in {"silent", "absent"})
    => <>(stage \in PastTheClose \union {"resumed"})

----------------------------------------------------------------------------
(* What makes the safety properties inductive.                              *)

\* A closer never believes in a way of the close the TPM did not take.
MetTruth == \A c \in Closers : met[c] \in Ways => met[c] \in tpm

\* A hard reboot since the last close that held is still counted.
CountKept == silentReboots <= 1 /\ (silentReboots = 1 => counter = 1)

\* What the image's last close left in /run, where /run takes it.
FilesKept ==
  stage \in PastTheClose /\ runfs /\ verdict # "noTPM"
    => pendingFile \/ stateFile \in States \ {"", "no-tpm"}

\* While there is neither a device nor a sign of one, the image's close has
\* left nothing that would spare it the wait.
WaitKept ==
  /\ \A c \in Closers : pc[c] = "ladder" => chip # "absent"
  /\ chip = "absent" /\ ~ sign =>
       /\ ~ pendingFile
       /\ pc["image"] = "look" => "image" \in patient
       /\ pc["image"] = "conclude" => met["image"] = "noTPM"
  /\ pc["image"] = "conclude" /\ met["image"] = "noTPM" => waited
  /\ NoTPMOnlyAfterTheWait

\* The inductive invariant.
IInv ==
  /\ TypeOK
  /\ MetTruth
  /\ CountKept
  /\ StateTruth
  /\ RealRootGuarded
  /\ FilesKept
  /\ ResumeOnlyClosed
  /\ WaitKept
=============================================================================
