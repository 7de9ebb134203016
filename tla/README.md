# tpm2-kira in TLA+

tpm2-kira keeps secrets for a machine's disk in its TPM, opens them only in an
approved boot, and shows the person at the machine, on the console, over SSH
or on a phone, that the boot is the approved one. This directory models the
boot (code screen, phone's gate, radio, close), the session a phone has with
the machine down to the bytes' framing and the controller's buffers, and what
the administrator's commands do to slots, keyslots and the signing card. TLC
checks the modules on small instances; TLAPS proves safety properties for
every value of the constants.

## The system

| component | state | operations | talks to |
|---|---|---|---|
| `internal/bootclose` | PCR 15 and its two replacements in the TPM; the EFI variable `KIRAcloseReboot`; `/run/tpm2-kira/close-pending` and `close-state` | `Now`, `Boot`, `Resume`, `Late`, `Finding` | TPM, EFI variables, `/run`, `bootwait`; units and scripts order the calls |
| `internal/bootwait` | the file with the first wait's begin | `Await` | every closer, `run`, the machine id |
| `internal/bootrun` | the hold's deadline, its copy of the gate's status, the board with its confirmation channel | start, hold, release, stop | every part below |
| `internal/phonegate` coordinator | the issued quotes, `Current`, salt and layout, two mutexes | `Quote`, `ProveBootKey`, `JudgeReceipt`, `TakeRelease`, `Report`, `Status`, `Salt`, `KeyboardSession`, `Forget` | TPM; the worker, over a socket pair; the hold and the key provider |
| `internal/phonegate` radio worker | the session with one phone | advertise, accept, serve, report | the coordinator; the phone, over BLE |
| `core/attest` | attester's and verifier's session, the phone's record, the channel's keys and counters | handshake, evidence, receipt, release, enrolment | worker and phone |
| `core/transport/frame`, `core/transport/ble` | fragments, sequence numbers, budget, queue; links, credits, the attribute database | `Split`, `Feed`, `Send`, `Recv`, `Deliver`; `Accept`, `SendFragment`, `Close` | worker, phone, the controller |
| `internal/vaultkey`, `core/vaultproto` | keys, salts, keyboards by slot | `Start`, `Open`, `FetchRemote`, `ForVolume` | the vault's server, TPM |
| `internal/diskkey` | the gate that holds requests back, the prompt's mutex; the tokens of a LUKS header | `ServeUnlock`, `Release`, `DiskKey`, prompts, tokens, combiner | systemd-cryptsetup, the parts' board |
| `internal/sshscreen` | sessions with their keys, who confirmed, who is asked, the agent's questions | `Show`, `Release`, `Ask`, `Stop` | the SSH child, the hold, the prompt |
| `internal/nvslot` | a slot's NV index, record, generation and counter | seal, unseal, `WriteRecord`, `BumpAttestCounter`, `RemoveSlot` | TPM, EFI variables |
| `internal/admin` | none of its own | control, seal, approve, enrol, luks, route, status | everything above, on the running system |
| `internal/measure`, `internal/totp`, `internal/signing`, `internal/piv`, `internal/pcsc` | a card's session | prediction of PCRs, codes, signatures | files, TPM, a card |
| `internal/machineid`, `tpmdev`, `netstate`, `imageplan`, `efivars`, `sbstate` | none or one file | read, wait | the kernel |
| `internal/prompt`, `tui`, `termguard`, `journal`, ... | the terminal | draw, read, guard | the person |
| `initramfs/` | order of the steps of a boot | units and scripts | everything at boot |

What is hard in it:

- **Concurrency.** `run` is one process with a goroutine for the hold, one for
  each part's confirmations, one for the vault's attempt, one for each call of
  the worker and for each volume's request. The closers are up to four
  processes on one TPM and one set of files. The Bluetooth host has a read
  loop, two senders and `Accept`. Commands of the running system (and a kernel
  update's hook) share slots, headers and a card without a lock of their own.
- **Time.** The hold's deadline, `PhoneGrace`, `releaseWait`, `vaultSettle`,
  the wait for the TPM's device: each may pass between any two steps of
  somebody else.
- **Failure.** A TPM that is late, silent, refusing or degraded; a worker that
  dies in a call; power lost between the TPM and the files; a link that breaks
  between two records; a command cut short at any step; an EFI variable or a
  `/run` that takes no write.
- **Order.** What the parts open must be opened before the close, and what the
  key provider uses must come after it.
- **Two descriptions of one thing.** An encoder and a decoder, a predicted and
  a measured register, a policy computed when sealing and one asserted at
  boot, a keyslot and the token that says how it is made.

The hazards are listed in `PROJECT.json` at the line where each bites, with
the properties that watch it.

## Modules

    BootClose                      the close, and the boots after a reboot
      MCBootClose, BootCloseProofs
    PhoneGate                      the coordinator, against any worker
      MCPhoneGate
    CodeScreen (EXTENDS PhoneGate) the hold, its parts, the release, the keys
      MCCodeScreen, CodeScreenProofs (of both)
    RecordPipe                     what framing promises: records, in order
    FrameLink                      one connection's framing, both directions
      MCFrameLink, FrameLinkProofs
    AttestSession                  machine and phone, session after session
      MCAttestSession, AttestSessionProofs
    SlotStore                      a slot under every command
      MCSlotStore, SlotStoreProofs
    MCParts                        the parts below, one at a time
      SigningCard                  a YubiKey's PIN between processes
      Keyslots, Route              LUKS keyslots; the way a volume's key takes
        MCKeyslots                 one command on one device
      SlotPolicy                   what opens a slot's objects in the TPM
      SSHScreen                    sessions, confirmation, prompts, questions
      BootWait                     one wait for the TPM's device
      Channel, BootCode            Noise and its records; boot key, keyboard
        ChannelProofs              (of both)
      BleHost, Gatt                the Bluetooth host; its attribute server
        BleHostProofs
      Wire, SlotBlob               messages; a slot's record
      Measure, MCMeasure           what a boot measures, foretold and told
      Outcomes                     the two answers without a value
    PartsProofs                    about SigningCard, BootWait, SlotPolicy,
                                   SSHScreen and Keyslots

### BootClose

State: the stage of the boot; per closer where its attempt is and what it met;
the ways of the ladder the TPM has taken; the TPM as a closer meets it
(`chip`); the firmware's sign; the EFI counter; the two files; whether `/run`
takes a write. `silentReboots`, `verdict` and `waited` are history.

Each attempt is three steps, so two closers interleave as they do: the device
(`FindsDevice`, `GivesUpDevice`), the ladder (`Ladder`), what the closer makes
of it (`NowConcludes`, the five `Boot...` actions, `ResumeConcludes`,
`LateConcludes`). `succeeded` removes the counter only if the EFI variable can
be removed. `RunDies`, `PowerCycle` and `Restart` may come anywhere; `Restart`
empties `/run` and reopens the TPM, the counter stays. `ChipChanges` is the
environment's: any TPM may become any other. The order of closers comes from
the units and scripts: on a systemd image the resume's close runs beside the
image's, on Debian after it, and there the image closes once more before the
real root. A TPM that falls silent in the ladder may or may not have extended
PCR 15 before.

Left out: the kernel argument `tpm2-kira.noclose`; a Debian boot whose root is
not local; root killing the late closer; values of the counter other than
those the code writes; what the ladder does inside (`hostkey.Close`, in a
submodule), of which the outcome is kept.

### PhoneGate

`GateService` at boot, against a worker without a protocol: any call, in any
order, with any receipt it can put together. A receipt is the quote it is
about, its verdict, its signature (none, a phone's, something else) and
whether it names device, key, qualifying data and an enrolled verifier as
expected. A phone's signature counts for what that phone has signed
(`signed`), which at the start is every verdict over quotes of earlier boots.
Calls are served one at a time (`LinkGate`); `TakeRelease` is split where it
takes and gives back the TPM's mutex, because the close, `Status` and `Forget`
can be seen in between. `releaseWait` is the flag `overdue`.

Left out: the enrolment's side of the service (`Keep`, `KeepKeyboard`, the
factor given back, which AttestSession has as the phone sees it), and the size
checks of `Quote`; a release that is no phone salt is turned away without a
step.

### CodeScreen

Composes the coordinator with the worker as `RunGateRadio` and
`ServeAttestation` drive it, the hold, the vault's part, the three
confirmers, the release and the key provider. The gate's actions are
PhoneGate's own; the worker's calls go through `req`, read and answered in
two steps, so that a call may be answered after its link was closed or its
worker has died. Time is before the deadline, within the grace, past it; the
clock is read after the look at the gate. `Ends` drops the hold's copy of the
status, which nothing reads afterwards.

`parts.release` is one action per part and per step after them: the vault
(cancelled, then waited for until `vaultSettle`), console, SSH, phone (worker
stopped, then the TPM's mutex), the close, READY and the key provider.

Left out: drawing, hints and the network's part; the TPM salt's part, which
opens what it holds when it starts; the pause `waitPromptTurn`; the parts'
five seconds of goodbye (`RunStops` is at once); a display that goes on
without a close (`planned.TPM` is taken as true); the boot key's challenge,
which PhoneGate and BootCode have; prompts (SSHScreen) and recipes (Keyslots)
of the key provider. A phone sends one receipt and at most one release in a
session, as the verifier does (AttestSession); what else a worker could send
is PhoneGate's matter. The hold is a finite one: with SSH and no hold
configured the code uses a hundred years.

### FrameLink

One connection: the fragmenter and the reassembler of either end (`Split`,
`Feed` and its checks), the phone's use of them (`PhoneSends`,
`PhoneReceives`) and the machine's `Conn`. Three goroutines meet there: the
reader, which delivers fragments and reports the end of the link, the session
with `Recv`, `Send` and last `Close`, and the deadline's timer. Each first
changes queue or error under the mutex (`DeliversRecord`, `fail`) and then, in
a step of its own, fills the channel of one wake-up (`Wakes`), after a failure
also starting the link's `Close`. `Recv` is its look and its wait; `Send`
hands the link a fragment at a time. Of the link there is what `Conn` depends
on: the subscription a `SendFragment` waits for, its errors, `Close` and
`lost`, which first ends the link for those who wait in it (`linkEnds`) and
then tells `Conn` (`LinkLost`).

The bytes of a record are numbered, so a record put together from two is none
that was sent. The link is documented as reliable and ordered; the model lets
it lose, repeat and reorder fragments, since the reassembler is there to
notice. `ArrivesIntact` is the refinement of `RecordPipe`, one instance per
direction.

Left out: the text of errors; a fragment shorter than a header, which is
refused as one without payload; what the link does inside (BleHost) and what
the protocol above makes of a record (Channel, AttestSession).

### AttestSession

`ServeEnrolment` and `ServeAttestation` on the machine, `Verifier` on the
phone, a person on either side, and a link whose two directions are sequences
of records that break off anywhere (`Break`); `Through` ends a session both
sides are done with. A session's number stands for its keys, nonce and
binding; a boot state is one of `Values`, the TPM has a reset count. Kept in
between: what the machine has enrolled, the record the phone keeps of it
(key, salt, known states, reset count, one-use profiles) and the salt the
disk's keyslot was made from. The verdict of a quote is computed as
`Verify` does from the record; that the evidence itself is authentic is taken
from the checks that are not modelled (see below), so a machine here is the
one enrolled. A keyboard to keep that is not under the slot's keys ends the
session (`EvidenceRefused`).

### SlotStore

One slot: the signed record, the generation index, the counter, the sealed
machine id. `Seal` (which takes an enrolment over only in its own bank),
`Reseal` (approve), `Enrol` and the removals build a new record from the one
they read, and then write in the code's order: generation, record, counter,
read-back, machine id; `Delete` removes part by part. `Fail` ends a command at
any step; `PutBack` brings any record back that was ever written; a record
signed with another key, naming `Stranger`, may be there from the start.
`completed`, `latest`, `approvals`, `revoked`, `written` are history.
`approvals` are those written since `slot add` last made the slot, and an
approve revokes them: `slot add` counts the generations from 1 again (see
Observations), so an approval of an earlier slot under a policy reference that
was kept may fit the new slot's count, and is not among what an approve of the
new one speaks of.

### Keyslots and Route

`LuksEnrol`, `LuksMark`, `LuksRemove`, `DeleteSlot` on LUKS headers: a header
is its keys (a passphrase, or made by a recipe with a slot's secret of its
time) and its tokens. cryptsetup's own changes are one step; a command reads,
prompts, adds, tokens, kills in the code's order and may be cancelled or cut
short in between. Passphrases and keyslots are also changed by hand. `DiskKey`
is the boot's choice from the tokens, `RecipeOf` the command's from its flags.
Route has the words of the kernel's command line and the lines of the
crypttab, what is found wrong with them, and the line `control` writes.

### SlotPolicy

A policy is the sequence of its assertions. A use of an object (code, machine
id, boot key, release key, channel) starts a session and asserts step by step
while systemd extends PCR 11, the close extends PCR 15, another process
approves, the slot is made again, or an index goes; three objects fit in the
TPM at once and every load is counted. The quote reads the bank in chunks
until two reads agree. Beside it the settings' index: undefined, defined again
and written in chunks, with a token that may refuse any signature.

### SSHScreen

A session has a bounded buffer of keys and a reader; the first Enter before
the release confirms; the password is asked in the session that confirmed
(`PromptTarget`), else on the console. Two askers, the key provider and the
agent that answers cryptsetup's own questions, read keys from sessions;
questions come, are answered elsewhere and go. A prompt takes a key at a time
(`Took`): Backspace erases, and beyond `MaxPassphrase` a key is dropped. What
the agent answers is sent, and the question is there until systemd takes it
away, or could not be sent, which is only logged (`answers`). `ReleaseServer`,
`StopTakes`, `StopCloses` are the server's end in its own steps.

### BootWait

The file that shares the wait is read, made and written in three steps; its
maker may be killed in between. Each waiter has its own bound.

### Channel and BootCode

Channel has the Noise handshakes XX and IK token by token, symbolically: a
hash is what was hashed, a DH secret the set of its two keys, a key the
secrets mixed. The link hands any end anything any end ever sent, whole or
damaged, in any order and any number of times. After the handshake a record
is sealed with key, direction and counter. An end is a pair, whose it is and
which of its sessions; the phone's begin the handshake. A message that is
refused leaves the end without a handshake (`NoEnd`), as the error ends the
session. BootCode has the boot key's offer, its challenge and proof,
`CheckBootKey`, and the one-time keyboard: the layout from its draws, the keys
for a pepper and the pepper for the keys.

### BleHost and Gatt

BleHost has a step for each stretch of code between two takings of `h.mu`: the
read loop, `Accept` from its clearing of stale links to its end, the
notification's and the answer's sender (subscription, `txMu`, credit, write),
commands with their answers or timeouts; a central subscribes and, on any
connection but the last, no longer does. The controller is external: it has
buffers, completes packets, connects and disconnects. Gatt has the attribute
database, each answer at an MTU, the reassembly of ACL pieces, the
controller's buffer sizes and the advertisement's length; discovery and long
reads are a central's (external).

### Wire, SlotBlob, Measure

Pure operators. Wire: the table of every message with its fields and limits,
the TLV framing, selections, canonical texts, chunks of the event log. The
getters fail as in the code (`GettersFail`), but within a boot context, whose
decoder nobody asks for its error: there the field and those after it are zero
(`Zeroed`). SlotBlob: marshal and unmarshal of a record, cell by cell, with
what is signed; the limits of an attestation and of the record are of its
bytes (`AttestationBytes`, `BaseBytes`). Measure: a register is the sequence
of what was extended into it; prediction (GRUB, PCR 4, unified images; a
version is a whole name, not a part of one), the point of the boot a value is
of, the policy digest, the phone's baseline, and Secure Boot's state as read
from a log.

## Runs

| run | states | question |
|---|---|---|
| `close` | 1,090,928 | is a boot past its close guarded, and told truly, in every interleaving of the closers over any number of boots; is a TPM that comes back closed, and does one that does not let the machine boot? |
| `gate` | 499,536 | what can a worker never bring about? |
| `screen` | 791,159 | is the order of the release kept, does a key get its salt, and is the boot a coordinator's boot? |
| `screen_live` | 354,865 | does the hold end and the volume get its answer, whatever phone, worker and vault do? |
| `frame` | 292,055 | do records arrive whole and in order or not at all, what can a stranger make `Conn` keep, and does every call of the session return? |
| `session` | 1,013,779 | do machine and phone agree wherever the link breaks, is nothing released without a decision, does every session end? |
| `slots` | 174,805 | what is served and opened when commands overlap, are cut short, and older records come back? |
| `parts` | 2,487,584 | each of the other parts by itself, and the algorithms on every small input |
| `slots_count`, `session_rotate`, `pcr_order`, `delete_cancel` | violation | four sentences of the code about itself |

### What the passing runs check

*close.* `RealRootGuarded`: past the image's close an open boot has the late
closer's file. `OneRebootForSilence`: one hard reboot per silence.
`StateTold`: `close-state` claims no close the TPM did not take, and control
is never silent about a boot that PCR 15 did not close. `ResumeAndWaitKept`:
only PCR 15, or no TPM, lets a resume go on, and the count alone never spares
the wait. `LateCloses`, `SilentTPMStillBoots`: liveness.

*gate.* `AttestedIsThePhones`: an attested slot has a trusted verdict signed
over a quote of this boot. `TamperedStaysRefused`: reports take no refusal
back. `SaltAndLayoutOfOneRelease`: the pepper is never typed through another
release's keyboard.

*screen.* `PhoneEndsTheHold`; `KeysAfterTheClose`; `KeyGetsTheSalt`: a volume
goes without a salt that was opened only when `releaseWait` passed or the gate
did not expect one; `ClosesOverNothing`: run closes over no opening it was to
wait for; `ImplementsGate`: the refinement, with PhoneGate's `GateSpec` as the
property and the gate's variables mapped to themselves. *screen_live.*
`HoldEnds`, `KeysAnswered`, `OffersEnd`.

*frame.* `WakeupKept`: a `Recv` that waits while there is a record or an error
has a wake-up in the channel or on its way. `ArrivesIntact`: both directions
refine `RecordPipe`. `WithinBudget` (the queue with what each record costs
beside its bytes, `Cost`), `WithinLimit`: whatever arrives.
`NothingIsStuck`: with a deadline `Recv` and `Send` come back (for `Send`,
which never looks at the error, over `fail`, the link's `Close` and `lost`),
the queue comes before the error, and a connection that failed is dropped.

*session.* `EnrolmentAgreed`: the machine stores a phone only in a session
both people confirmed, and the phone keeps a machine only if that has stored
it. `NoProtocolError`: neither state machine meets a record it takes for a
breach. `ReleaseIsDecided`: salt and seed leave the phone only after a
decision the machine accepted, and the layout shown is the one opened.
`RecordFollows`: a keyslot is made only from a salt the phone keeps, and the
reset count goes back only by an approval. `SessionsEnd`: liveness.

*slots.* `SupersededStaysOut`: an enrolment that another one has replaced is
never served again. `SignsOnlyItsOwn`: no record of another key is taken over,
none has phones and a code. `ApprovalsFollow`: what an approve revokes stays
revoked for as long as the slot that `slot add` made, and the machine id is
bound to the policy there is (both of commands one after the other, cut short
anywhere, with no older record put back).
`EndHoldsWhatItSays`: what a command that ran alone to its end leaves.

*parts.* `AttemptsKept`: signing never blocks the card. `CodecsAgree`: what an
encoder writes is read as it was, or refused, exactly when a field, a boot
context or the message is past its limit or half a seed is missing, with up to
two fields at an edge; a field of a boot context past its limit is lost with
those after it and none before; an event log sent from its start arrives; a
record never says what another one says, a central finds
every attribute at every MTU and joins a PDU's pieces; boot key and code are of
this session and slot, the keys that are shown say the pepper (BootCode).
`ComesAsTold`:
what is predicted is what the next boot measures or is not claimed, the policy
then opens, what a phone is told of a boot holds of it, and the route that is
advised for a volume's key leads the boot to it. `DisksOpen`: no command takes
the last opener of a disk, tokens say how their keyslots are made and the boot
finds one.
`OpensAsApproved`: what opens was approved for the registers at that moment;
what is approved opens; a refusal names its reason; the settings are the old
or the new. `PromptsHold`: what is answered is what was typed in the session
that was asked, as it was erased and up to a passphrase's length, a
confirmation has the prompt, a question whose session left before any answer
was sent is asked again, a stop leaves no session. `WaitShared`: nobody gives up sooner than its wait after
the first began. `TalkIsBetweenTwo`: two ends with one channel binding are one
phone and one machine and open what the other sealed, once and in order.
`RadioServes`: never more pieces
than buffers, a PDU's pieces together, no sender sleeps past its wake-up,
`Accept` gets the link that is there.

### What the violations show

1. `slots_count`. `writeAttestBlob` writes the record with the count it raises
   the counter to afterwards. Cut short in between, the next enrolment gets
   the same count, and the first record, put back, is served beside it;
   attest_blob.go:26 says that cannot be.
2. `session_rotate`. A rotation whose link breaks between `ReceiptAck` and the
   phone's `Release`: the command says that nothing was enrolled, the phone
   has already replaced the salt the disk's keyslot was made with.
3. `pcr_order`. A slot added with `--pcrs "7e,0e"` holds the digest of the
   values in that order; the TPM hashes them ascending, so no boot opens it.
4. `delete_cancel`. A Ctrl-C at the prompt of `slot delete` passes over the
   device and still removes the slot; slot_remove.go:259 says it leaves
   everything in place.

### Bounds

- BootClose: one machine, both images, every TPM; `silentReboots` is capped at
  2, one above what the property allows. The boots are not bounded.
- PhoneGate: two quotes of this boot with room for one (so that one is
  dropped), one quote of an earlier boot, a release with and one without a
  keyboard. Quotes of this boot are symmetric. The code's bound is larger; the
  proof is for any.
- CodeScreen: one quote, so one phone session gets as far as evidence; two
  vault slots; the images {phone} and {SSH, vault}, whose parts meet only in
  the board and the release. `screen_live` has one release without a keyboard
  and no signal, to keep the temporal check small; a signal ends `run` and
  with it every obligation.
- FrameLink: two records, of the phone, of the machine or of both, or two
  foreign fragments (`MaxTraffic`); records of two bytes in one or two
  fragments, numbers modulo 2, so that they wrap within a connection and
  within a record; records of no byte and of one too many for a header; a
  budget and a limit that two records and a stranger's lengths exceed; one
  fault. Faults stay below the modulus (`ModulusAssumption`): a gap of exactly
  65536 fragments would go unnoticed by the numbers, and is for the encryption
  above. A stranger has a connection of its own, and needs no faults: it may
  write anything.
- AttestSession: four sessions (an enrolment, a salt, its rotation, a boot),
  two boot states, one reset, an event log of one chunk beside the quote.
- SlotStore: three commands, two at once, one put-back, one set of values,
  one phone and the stranger: an enrolment cut short, one that follows and a
  removal are three.
- parts. *SigningCard*: two processes, four sessions, three attempts.
  *Keyslots*: one command on two devices, or two on one; keyslots 0..2, three
  secrets, the recipes that differ in what they are bound to. *Route*: up to
  four words that name two volumes, up to two crypttab options.
  *SlotPolicy*: one approval or new seal beside a use, one use of each object;
  three handles, the least a TPM must have. *SSHScreen*: two sessions and one
  asker, or one session and both, with two keys; one session, the provider and
  four keys; `MaxPassphrase` is two, so that the buffer overflows, and the
  four keys reach a passphrase's length and go past it, erase, and answer. *BootWait*: two waiters with different waits, clock up to 4.
  *Channel*: two sessions of a phone and one of a machine, or one of a phone
  and of two machines; two records each way; damage puts junk in one part or
  cuts it.
  *BootCode*: three letters, peppers of two and three. *BleHost*: one buffer,
  two connections with a handle each, the first of which may unsubscribe, one
  PDU of two pieces per sender, three advertising commands of which one may
  fail. *Gatt*: MTUs 0, 23, 40, 247 and
  517 asked for, INFO of 0 to 512 bytes, pieces around the buffer sizes.
  *Measure*: a machine with two kernels and up to two updates at once, with
  and without systemd's phases and separator, two banks. *Wire*: up to two
  fields of a message at an edge (of their own limit, or of the boot context's),
  strings of up to six cells. *SlotBlob*: every part at an edge, so that a
  quarter of the payloads is past the limit of an attestation, or of a record.

### Fairness

BootClose: each process of a boot takes its next step (weak fairness of every
closer's turn, of the stages and of the restart after a reboot): init systems
start what they are told to start. Nothing is assumed of the TPM, of `run`'s
death or of the power. CodeScreen: the hold's loop, the release, the
coordinator's and the provider's goroutines run, timers fire, the TPM answers
a call it was given; the vault's request returns once cancelled (its context).
Nothing is assumed of phone, worker, vault server or person. FrameLink: every
goroutine that can run does, the deadline passes, and the controller confirms
the disconnect it was told (`Link.Close` itself gives up on it after two
seconds). Nothing is assumed of the phone, nor that a fragment is ever taken.
AttestSession: both sides handle what has arrived, a connection ends (its
deadline), the app then ends its session,
and the person at the machine answers the code's question in its time; nothing
is assumed of the person at the phone. MCParts has safety only; that its parts
may stop is their nature (`CHECK_DEADLOCK FALSE`).

## Proofs

| theorem | states |
|---|---|
| `BootCloseProofs!TypeCorrect`, `RealRootIsGuarded`, `SilenceRebootsOnce`, `StateIsTold`, `ResumeAndWait` | the invariants of run `close` |
| `CodeScreenProofs!GateTypeCorrect`, `AttestationIsAuthentic`, `TamperedIsRefused`, `OneReleaseKept` | the invariants of run `gate` |
| `CodeScreenProofs!IssuedIsBounded`, `VerdictIsKept` | map and list of the issued quotes drop the same one; reports leave a verdict in place |
| `CodeScreenProofs!ScreenImplementsGate`, `OnlyThePhoneEndsTheHold`, `KeysComeLast`, `TheKeyGetsTheSalt`, `TheCloseIsOverNothing` (from `ScreenInductive`) | everything run `screen` checks: the refinement, three invariants and an action property |
| `FrameLinkProofs!WakeupIsKept`, `LimitIsKept`, `BudgetIsKept`, `FrameTypeCorrect` | `WakeupKept`, `WithinLimit`, `WithinBudget` and the types, for every modulus, limit, budget, MTU and every set of foreign fragments |
| `FrameLinkProofs!PipesAreIntact` | `ArrivesIntact`: the refinement of `RecordPipe` in both directions, for every modulus, MTU and record length and any number of faults below the modulus |
| `AttestSessionProofs!StateMachinesFit`, `EnrolmentIsOfBoth`, `ReleaseAsDecided`, `TheRecordFollows` (from `SessionInductive`) | the three invariants and the action property of run `session`, for any number of sessions, resets, boot states and chunks |
| `SlotStoreProofs!Superseded`, `SignsItsOwn`, `WhatFollowsAnApprove`, `TheEndHolds` (the last three from `StoreInductive`) | everything run `slots` checks, for any number of commands at once, phones, values and interruptions |
| `PartsProofs!CardKeepsItsAttempts` (from `CardInductive`), `TheWaitIsShared` | `AttemptsKept` for any processes and sessions, `WaitShared` for any steps, waits and clock |
| `PartsProofs!OpensAsItWasApproved` (from `PolicyInductive`) | `OpensAsApproved` for any number of approvals, uses and changes of the registers |
| `PartsProofs!DisksStayOpen` (from `KeyslotInductive`) | `DisksOpen` for any devices, slots, keyslots and commands at once |
| `PartsProofs!ThePromptsHold` (from `SSHInductive`) | `PromptsHold` for any sessions, questions and keys, and every length of a passphrase |
| `BleHostProofs!TheRadioServes` (from `BleInductive`) | `RadioServes` for any number of buffers and links |
| `ChannelProofs!TalkKept` | `TalkIsBetweenTwo` for any machines, any number of sessions and of records |
| `ChannelProofs!TheCodeIsOfTheSession`, `TheOfferIsOfTheSlot`, `TheKeysSayThePepper` | what `CodecsAgree` says of the boot key and of the keyboard, for every session, key, public area, layout and pepper |

*BootClose* (`IInv`). Not inductive by themselves: `StateTruth` needs that no
closer believes in a way the TPM did not take (`MetTruth`), because what a
closer met is written two steps later. `OneRebootForSilence` needs that a
reboot not yet followed by a close is still counted (`CountKept`).
`FindingSpeaks` needs what the last close left in `/run` (`FilesKept`), since
another closer may remove the pending file only by writing a state.
`NoTPMOnlyAfterTheWait` needs `WaitKept`: while there is neither device nor
sign, nothing has been written that would spare the image's close its wait.

*PhoneGate* (`GateIInv`). `AttestedIsThePhones` rests on `issued \subseteq
given`; `TamperedStaysRefused` on `OnlyWhenServing` and `RefusedByRecord`;
`SaltAndLayoutOfOneRelease` on `TakeHasRelease`. `IssuedFollowsOrder` is
inductive with the types, by lemmas about appending to and taking the tail of
a sequence without repetitions. `VerdictIsKept` uses the same invariant for
its steps.

*CodeScreen* (`IInv`, `ScreenIInv`). `IInv` is `GateIInv`, that the call under
way is one a worker can make (`Calls`), and `ReleaseOrder`, which says for each
step of the release what lies behind it. Every action is shown to be a step of
`GateNext` or to leave the gate alone; the gate's invariant comes from
the module's first part. `KeyGetsTheSalt` is about the provider's moment of
taking the salt, long after the phone sent it, so `SaltInv` follows the salt: the worker
has one call at a time and a boot takes one release (`OneCall`, `OneRelease`),
from the accepted receipt on the gate says that it is releasing unless it gave
up, did not expect a release or cannot open one (`ReleaseAwaited`), what a key
takes is of that release (`KeyTakes`), and a key that went without had a
reason that stays (`WentWithout`).
`ClosesOverNothing` needs `VaultWaited` and `SaltWaited`: between the release
of a part and the close, run passes only by what each wait ends with.

*FrameLink.* `WakeupKept` is inductive with the type of `owes`: a goroutine
that has changed queue or error still owes the wake-up, and the session does
not begin to wait while there is something to return (`WakeInv`).
`WithinLimit` is inductive with the types (`FrameInv`), by lemmas on the
operators: `Split` gives at least one fragment and well-formed ones
(`SplitType`), `Feed` keeps a begun buffer shorter than the length declared,
and that within the limit (`FeedBounded`). `WithinBudget` is about a sum over
the queue, computed by a recursive function. What such a function computes
cannot be proved here by induction; instead `BudgetInv` says of every function
that satisfies the recursion's equation for the queue (`Sums`) that it ends
within the budget, and that there is one. Both are kept when a record is
appended or taken, and `Cost` is one of those functions.

`ArrivesIntact` (`IntactInv`) is proved by following every
fragment ever framed for a direction. `Carried` says that there is a list of
them, 1 to N, each with the record and the bytes it is cut from (`Cut`); that
the reassembler has taken the first e and nothing else, into the records out
and its buffer (`Taken`); and that the i-th fragment on its way is one of the
list at most as many places from e + i as there were faults (`Along`). A lost,
a repeated or a swapped fragment moves what follows by one place (`Shifted`);
`TakesTheNext` then says that the only fragment near enough with the number
the reassembler waits for is the next one, because two of the same number are
a whole modulus apart. That is where `MaxFaults < Modulus` is needed, and
without it the property is false: after 65536 lost fragments the numbers fit
again. Put and Get of the pipe are the framing of a record and the Recv (or
the phone's OnNotification) that returns one.

*AttestSession* (`SessionIInv`). `NoProtocolError` needs to know where the two
state machines can be at the same time. `InStep` lists those pairs: in each it
is one side's turn, and nothing is under way to the other; only while the
quote and the log are served are both free to send. `UpFits` and `DownFits`
bound what is under way by what the receiver's state takes, `ErrorsEnd` says
that an error is the last thing its sender says, `Answers` that a receipt and
a release meet their answers one after the other. The records under way are
looked at as a set, and `Once` says which kinds are never under way twice,
which is what taking the first one needs. `EnrolInv`, `VerdictInv` and
`ReleaseInv` carry what has been confirmed, shown and answered from the step
that decides to the one that relies on it. What each step does to both states
is stated once (`MachineSteps`, `PhoneSteps`), so that the conversation is
proved from these tables and not from the actions.

*SlotStore* (`CountInv`, `StoreIInv`). The counter, where it is defined, is the
highest value it has ever had (a TPM's counter restarts there); every enrolment
that went through has a count no higher, and at that value it is the latest's.
`SupersededStaysOut` alone is not inductive: a deletion of the counter would
lose which counts were used. `StoreIInv` has the records and where each command
is (`StoreTypeOK`, `ActiveInv`), that what this key signed has no phones beside
a code (`OwnInv`), that a stranger's phone is only in records of another key
(`StrangerInv`, which needs `StrangerAssumption`), and for behaviours of one
command at a time how far the command has got (`SoleInv`: `Reached`,
`GenerationsInv`, `MachineIdInv`). `EndHoldsWhatItSays` is the last step of
`Reached`.

*SigningCard* (`CardIInv`). The number of attempts alone is not inductive: a
second wrong PIN is never tried because the first makes the session's error
sticky, and a session that holds the card goes on only without one.

*BootWait* (`WaitIInv`). Each step knows where its start came from: its own
clock, or the file, which holds the first one's time once it has been written
(`FileOK`, `StepOK`); so no deadline is before the first one's start and the
step's own wait.

*SlotPolicy* (`PolicyIInv`). A session stands for the state of the registers
only through the update counter it noted, so what it has asserted is stated
for every step as a pair: the digest it has by then, and what holds of the
registers while the counter it noted is still the TPM's (`SessionOK`,
`ChannelOK`; `Current`). `EarlyOK` and `HeldOK` say what a use that has no
session yet has loaded, which is where the handles are counted. What is said
about a refusal rests on `CalmOK`: what a step looked at still holds while
nothing changed since the use began. `QuoteOK` counts: a quote that was not
reproduced cost a change of the registers, which bounds the tries.

*SSHScreen* (`SSHIInv`). `AnswersAsTyped` compares an answer with all the keys
typed since the question, so `TypedOK` splits these: first those the prompt
took, from which its text grew key by key, erased and cut (`Grew`), then what
still waits in the session's buffer, in that order (`AsTyped`, `Waiting`). A
key that is typed is added at both ends, one that is taken moves the border and
adds a text to the history, a full buffer or a second prompt in the session
ends the claim; at an Enter after something the border is the answer's
(`IsAnswer`). `StopLeavesNone` needs that the list
has every session that is in until the stop takes it, and the stop's list
afterwards (`ServerOK`), `ConfirmedHasThePrompt` that the target is the session
that confirmed until that is closed (`TargetOK`), `QuestionsStay` that what is
seen and had no answer yet, sent or not, is what the agent is at (`AgentOK`).

*Keyslots* (`KeyslotIInv`). That a passphrase stays needs more than that none
is killed: `OpenerInv` follows the first one's keyslot, which no token has
(only a keyslot with a token is ever killed by a command), which a command that
adds had in its list of before, and which no command has in its token or its
jobs. It holds for any interleaving of any commands; a passphrase taken out by
hand is the one way out (`byHand`). `TokensTrue` holds between commands, so
`TokensInv` says what is so within one: the device is as it should be
(`DeviceIs`) but for the keyslot that waits for its token and the token whose
keyslot is just gone, the keyslot added is the only one that was not there
before (`AfterOK`, which needs that the highest of a bounded set is in it), and
a job's keyslot has the token the job removes (`JobOK`). A device two commands
were on at once, or one that was cut, is `marred` and claims nothing more than
`OpenerInv`. That the boot's key opens a keyslot follows from the tokens then:
`TokensAreThere`, `MadeAsToken`, `TheKeyOpens`.

*BleHost* (`BleIInv`). The host acts on what the controller told some time
ago, so its link is not always the controller's. `QueueInv` says how far apart
the two can be: the events that wait are in the order of the links, of each
from its connection to its end; nothing is told of a link before the host's,
what is told of one behind it comes with that one's connection, and a link
that is the host's, or will be, and no more the controller's is told to be
over. `Met` is what the host has taken of this, and `LinksInv` says that
senders, `Accept`, the channel of new links and the loss under way only have
links that were met. `WithinBuffers` then is a sum (`CreditsInv`): the
credits left and the link's `inFlight` are within the buffers, and `inFlight`
covers what the controller holds, what it told to be free and what is about to
be written. It is an inequality: the credit that a sender takes between
`disconnComplete` and `lost` (see the observations) is counted nowhere again.
`PiecesTogether` needs the holder of `txMu` and how far it has sent (`TxInv`,
`PieceInv`). `AcceptHasTheLink` needs, while no command has failed, that no
connection is told or can come but from the start of the advertisement to its
stop, and then one (`AcceptInv`), for which no answer may come before its
command (`AnswersInv`). `NobodyOversleeps` is inductive with these.

*Channel* (`TalkInv`). `TalkIsBetweenTwo` speaks of ends that have finished,
and a step keeps it only by what the other ends hold and the link can carry.
`EndsOK` spells out hash and secrets at each of the nine stages of an end, by
lemmas on what the five messages write and read token by token. `AirOK` says
that whatever is sealed and was ever sent was sealed by an end, in its
handshake or after it: anyone can send what is not sealed, and the last message
of a handshake is sealed under all that was hashed before it, so an end that
finishes by one has a peer (`Answered`) with the same hash. A hash names both
static and both ephemeral keys, so the peer is the other kind of end and no
third one has that hash. Session keys seal nothing in a handshake and are shared
with the peer alone; with the counters, what an end opened is the beginning of
what its peer sealed (`InOrder`). Assumed is only that an end is a pair. The
proof showed that the CASE of `pair` had two arms for one token; the arms are
now disjoint, as those of the code's switch.

*BootCode.* A challenge opens under the pinned key and its own session's data
alone because the derived key names both keys and those data. A public area
that passes `CheckBootKey` is the template with the slot's policy. Of the
keyboard: two keys of a layout never show one letter, so the index that is
looked up is the letter's. That the draws make a layout is an induction over
them and stays with TLC; its step is proved (`SwapKeepsLayout`).

Assumptions: `QuotesAssumption` (quotes of this boot are not those of earlier
ones: the qualifying data has a fresh nonce), `StrangerAssumption` (the phone
in a record of another key is none of this slot's), and the ranges of the
constants: `ReleasesAssumption`, `MaxIssuedAssumption`, `DistrosAssumption`,
`MoodsAssumption`, `PlansAssumption`, `VaultSlotsAssumption`,
`SignalsAssumption`, `RecipesAssumption`, FrameLink's `ModulusAssumption`,
`SizesAssumption`, `ForeignAssumption`, `BoundsAssumption`,
`DeadlineAssumption`, SlotStore's `ProcsAssumption`, `ValuesAssumption` and
`BoundsAssumption`, `SessionAssumption`, `CardAssumption`, `WaitAssumption`, `HandlesAssumption`
(a TPM has at least three handles for objects), `KeyslotsAssumption` (a header
has room for two keyslots; LUKS2's has 32), `AbsentAssumption` and
`LoginsAssumption` (the answer without a value is no number and no session),
`BleAssumption`.

Model-checked only: the liveness properties (fairness and ENABLED are beyond
the prover); what compares an algorithm with its reference on every small
input (`CodecsAgree` but for its part of BootCode, `ComesAsTold`), which would
be inductions over data.

## Observations

Met while modelling, without a sentence of the repository that says otherwise
(or without a run that would add to the ones above). In each the boot goes on
or the command can be repeated, unless said.

*The boot.* `Resume` calls `succeeded`, which removes `KIRAcloseReboot`
(bootclose.go:235, 311), where docs/SSH.md:637 says "The count is the boot's,
the resume's close leaves it alone." The grace is given only in the state
`session` (run.go:212): a receipt just before the deadline makes it
`attested`, and the hold ends with the salt still expected. `TakeRelease`
gives the TPM back between its two openings (gate_service.go:394), where the
close may fall. The worker serves before `expectRelease` (parts.go:544): a
phone that is faster is not waited for. A worker that dies leaves the state
`session` (gate_child.go:119), which is granted the grace.

*SSH.* The provider asks under `UnlockServer.mu` ("one answer at a time: the
prompt is one terminal", unlock.go:87), the agent "there, one at a time"
(agent.go:243), but both may ask in one session at once and then share its
keys. Keys typed between the drain and the prompt count. An answer written to
askpass's FIFO may reach the next askpass (agent.go:124). The prompt's target
may be a session that has closed and is not off the list. A paste beyond the
buffer may lose its Enter. An answer to cryptsetup that could not be sent is
only logged (agent.go:314-317): the question still waits, counts as seen and is
asked in no session again; the console has it.

*Radio.* A sender may take a credit between `disconnComplete`, which gives the
link's credits back under `h.mu` (host.go:411), and `lost`: that credit is
never returned, and with one buffer the next link's senders stall. `drop`
calls `Close` from the read loop and holds it up to 3.5 s. A No-Op right after
an answer replaces it in `cmdWait`, and the command times out; a late answer
of the same opcode may be taken for the next one's. A reused handle would let
an old link's piece reach the new one. If stopping the advertisement fails, a
phone may connect to a link nobody serves until `Accept` is over. The MTU is
set before its response is sent, so a longer notification may overtake it.

*Slots.* A close between the assertions of a session is reported as a refusal,
so `ProveBootKey` says refused and not locked. `ReadFromNVRAM` counts in 16
bits and cannot read an index above 64512 bytes, which `WriteToNVRAM` takes. A
generation raised after `PolicyNV` does not end a session. A slot sealed again
restarts its generation at 1. `FactorUnenrol` drops the release key that the
vault's and the TPM salt's factors are wrapped to; `AttestUnenrol` drops a TPM
salt when there is no vault. The marshaller writes a vault URL above 512
bytes, and a pepper check without a pepper, which the unmarshaller refuses.
`VerifyYubiKeyPIN` (yubikey.go:735) reads the retry count outside a
transaction.

*Sessions.* A one-use profile is not counted if the `ReceiptAck` is lost.
`ProvideAnchorKeyAttested` stores the attestation before it looks at the
state; `Verify` sets `Values` though signature or qualifying data failed.
`decodeBootContext` (messages.go:127) never asks the decoder that `Sub` returns
(wire.go:361) for its error, and the message's own decoder does not have it: a
`MeasurePoint`, `PCR7Chain` or `SealPCRSelection` past its limit "records an
error" (wire.go:265) that nobody reads, so the message is not refused but taken,
with that field and every field of the context after it empty. What is lost is informational,
or believed only as far as it replays.
`EnrolOffer`'s limits add up to more than `MaxMessageSize`; the texts of
`ReceiptAck` and `ReleaseAck` are not cut; a re-enrolment with `--name` is not
cut to 64 (attest.go:158).

*Keyslots and route.* `DeleteSlot` also removes the slot when its keyslots are
a device's only ones (slot_remove.go:271). `LuksRemove` looks at the keyslots
of one device before it drops the slot's TPM salt (luks.go:732). Two enrolments
on one device may name each other's keyslot (luks.go:526). `TokenOf` takes any
token of a recipe. A replaced TPM salt hides the recovery recipe at that boot.
`ForVolume` keeps an empty list. `AdviseCmdline` judges by the first
`luks.key` word, systemd by the last; the fix of a volume named by its path
calls it "cryptroot" though another may be; `ScreenRecipe` does not know
volumes routed by a crypttab key file.

*Measurements.* `predictGRUB` hashes files with SHA-256 whatever the bank. A
GRUB device that no unchanged file shows keeps the old digest, and so do the
kernel under `4u` with GRUB, changed options and a default that is not the
newest kernel. `11e` in automatic mode lacks `enter-initrd` where systemd has
phases and no separator; `11u` always assumes it.

## Not modelled

- The bytes of evidence: quotes, certificates and their chains, key
  attestations, the trust store (`verify.go`, `ekcert.go`, `keyattest.go`,
  `truststore.go`), and the vault's verification in `core/vaultproto`. They are
  sequences of checks on parsed structures whose correctness is that of the
  cryptography and the parsers; in AttestSession the outcome is the boot
  state's, in PhoneGate a receipt's flags.
- Parsers of files and logs: the event log's bytes, PE images, LUKS headers,
  PC/SC's wire, key files. The models begin with what they return.
- control's screens, bootplan, the remote configuration, status, help and the
  two `main`s: they read, ask, draw and dispatch; the commands they start are
  in SlotStore and Keyslots.
- Terminal handling (`prompt`, `tui`, `termguard`, `screen`), the journal, and
  helpers without state (`wipe`, `memlock`, `untrusted`, `unixsock`).
- Readers of the kernel's state (`netstate`, `imageplan`, `sbstate`), except
  what others decide by them.
- The SSH protocol and the ladder of `hostkey.Close`: submodules that are not
  in the repository.
- The image's build hooks.

## Plan

1. The checks of evidence as a table of conditions, against what a verdict may
   claim; the vault's side of `core/vaultproto` on top of it.
2. AttestSession over Channel and FrameLink: the session's link as the
   refinement of both.
3. control's model and the boot plan, as far as one command's result is the
   next one's input.
4. Proofs: what the messages of `core/attest` say field by field, as far as
   no induction over their lists is needed.
