----------------------------- MODULE SlotPolicy -----------------------------
(* What opens a slot's objects (internal/nvslot policy.go, channel.go,     *)
(* nvram.go; core/attest slotpolicy.go, releasekey.go; internal/phonegate  *)
(* tpm.go, bootkey.go, factor.go; internal/totp code.go; machineid.go): a  *)
(* policy session put together command by command, while the boot extends  *)
(* its registers, another process approves and somebody removes an index.  *)
(*                                                                         *)
(* A policy is the sequence of what was asserted; PCR 7 and 11 are what a  *)
(* boot measured there and how often the system extended it since.         *)
EXTENDS Integers, Sequences, SequencesExt, FiniteSets, TLC, Outcomes

CONSTANTS
  MaxApprovals,   \* bound: how often the slot is approved, and made again
  Handles         \* the objects a TPM holds at once

\* checkSignedPCRs: a TPM holds three transient objects at once, if not more.
ASSUME HandlesAssumption == MaxApprovals \in Nat /\ Handles \in Nat /\ Handles >= 3
ASSUME AbsentAssumption == Absent \notin Nat

VARIABLES
  reg,      \* the registers of this boot: seven, eleven, fifteen (0 open)
  changes,  \* how often one was extended in this boot
  index,    \* the slot's generation index: its value, or Absent
  rec,      \* the slot's record
  mid,      \* the policy reference the machine-id is sealed under
  admin,    \* how far an approval, or the slot made again, is
  call,     \* the use of an object that is under way
  settings  \* the boot settings' index and the write under way

policyVars == <<reg, changes, index, rec, mid, admin, call, settings>>
----------------------------------------------------------------------------
(* Policies.                                                               *)

Signing == "signing key"
PCRKey == "PCR key"

AssertPCR(p, value) == <<"PCR", p, value>>
PolicyNV(gen) == <<"NV", gen>>
PolicyAuthorize(key, ref) == <<"authorize", key, ref>>
PolicySigned(key, ref) == <<"signed", key, ref>>
PolicyCommandCode(c) == <<"command", c>>
PolicyOr(branches) == <<"or", branches>>

SlotPolicyDigest(ref) == <<PolicyAuthorize(Signing, ref), AssertPCR({15}, <<0>>)>>
ReleaseKeyPolicy(ref) == Append(SlotPolicyDigest(ref), PolicyCommandCode("ActivateCredential"))

ApprovedPolicy(r) ==
  (IF r.signed THEN <<PolicyAuthorize(PCRKey, 0)>> ELSE <<>>) \o <<AssertPCR({7}, <<r.seven>>), PolicyNV(r.gen)>>

\* The phone channel's secrets: before the close in a boot whose PCR 7 is as it
\* was sealed to, or with the signing key.
channelBranches(r) ==
  {<<AssertPCR({7, 15}, <<r.channel, 0>>), PolicyCommandCode("Unseal")>>,
   <<PolicySigned(Signing, r.ref), PolicyCommandCode("Unseal")>>}
channelPolicy(r) == <<PolicyOr(channelBranches(r))>>

\* The objects and the policies they are made with: all with the slot, but the
\* machine-id in its variable.
CreateKey(r) == SlotPolicyDigest(r.ref)
CreateBootKey(r) == SlotPolicyDigest(r.ref)
CreateReleaseKey(r) == ReleaseKeyPolicy(r.ref)
SealMachineID(ref) == SlotPolicyDigest(ref)
Objects == {"quote", "code", "boot challenge", "boot signature", "factor", "machine-id", "channel", "channel signed"}
PolicyOf(o, r, m) ==
  CASE o \in {"channel", "channel signed"} -> channelPolicy(r)
    [] o = "factor" -> CreateReleaseKey(r)
    [] o = "machine-id" -> SealMachineID(m)
    [] o = "code" -> CreateKey(r)
    [] OTHER -> CreateBootKey(r)

\* What a caller holds loaded when it asks for its session, at most.
CallerHolds(o) == IF o \in {"boot challenge", "boot signature", "quote"} THEN 1 ELSE 2
----------------------------------------------------------------------------
Firmwares == {"as sealed", "updated"}
Images == {"signed", "unsigned"}

\* PCR 11 values the PCR key has signed: an image's before the system's phases.
Signatures == {<<"signed", 0>>}

Record(ref, gen, seven, signed, channel) ==
  [ref |-> ref, gen |-> gen, seven |-> seven, signed |-> signed, channel |-> channel]
Fresh(f, i) == [seven |-> <<f, 0>>, eleven |-> <<i, 0>>, fifteen |-> 0]
NoCall == [o |-> "none", at |-> "idle"]

MaxChunks == 2
WholeOf(v) == <<v, MaxChunks>>
SettingsStart == [held |-> WholeOf("old"), before |-> WholeOf("old"), at |-> "idle", told |-> "none"]

PolicyInit ==
  /\ \E f \in Firmwares, i \in Images : reg = Fresh(f, i)
  /\ changes = 0 /\ index = 1
  /\ \E s \in BOOLEAN : rec = Record(1, 1, <<"as sealed", 0>>, s, <<"as sealed", 0>>)
  /\ mid = 1 /\ admin = [at |-> "idle"] /\ call = NoCall
  /\ settings = SettingsStart

----------------------------------------------------------------------------
(* The boot.                                                               *)

\* A use that is under way while something else changed.
Disturbs == call' = IF call.at = "idle" THEN call ELSE [call EXCEPT !.calm = FALSE]

Extends(r) == reg' = r /\ changes' = changes + 1 /\ Disturbs /\ UNCHANGED <<index, rec, mid, admin, settings>>
SystemdExtends ==
  \/ reg.seven[2] = 0 /\ Extends([reg EXCEPT !.seven[2] = 1])
  \/ reg.eleven[2] = 0 /\ Extends([reg EXCEPT !.eleven[2] = 1])
Closes == reg.fifteen = 0 /\ Extends([reg EXCEPT !.fifteen = 1])

Reboots ==
  /\ changes > 0 /\ call.at = "idle"
  /\ \E f \in Firmwares, i \in Images : reg' = Fresh(f, i)
  /\ changes' = 0 /\ call' = call /\ admin' = [at |-> "idle"]
  /\ UNCHANGED <<index, rec, mid, settings>>
----------------------------------------------------------------------------
(* The commands that change what the session meets.                        *)

\* approve: the channel's secrets where PCR 7 moved, the generation, then the
\* record; slot add again: another policy reference, and the machine-id is sealed
\* again last.
SealChannel == <<reg.seven[1], 0>>
ResealChannelIfMoved(r) == IF r.channel = SealChannel THEN r.channel ELSE SealChannel
WriteGeneration(gen) == index' = gen
Approves(seven) ==
  /\ admin.at = "idle" /\ rec.ref + rec.gen < MaxApprovals + 2
  /\ WriteGeneration(rec.gen + 1)
  /\ admin' = [at |-> "record", r |-> Record(rec.ref, rec.gen + 1, seven, rec.signed, ResealChannelIfMoved(rec))]
  /\ Disturbs /\ UNCHANGED <<reg, changes, rec, mid, settings>>
SealsSlot(seven) ==
  /\ admin.at = "idle" /\ rec.ref + rec.gen < MaxApprovals + 2
  /\ WriteGeneration(1)
  /\ admin' = [at |-> "record", r |-> Record(rec.ref + 1, 1, seven, rec.signed, SealChannel)]
  /\ Disturbs /\ UNCHANGED <<reg, changes, rec, mid, settings>>
WritesRecord ==
  /\ admin.at = "record" /\ rec' = admin.r
  /\ admin' = [at |-> "machine-id"]
  /\ UNCHANGED <<reg, changes, index, mid, call, settings>>
KeepsMachineID ==
  /\ admin.at = "machine-id" /\ mid' = rec.ref /\ admin' = [at |-> "idle"]
  /\ UNCHANGED <<reg, changes, index, rec, call, settings>>
IndexRemoved ==
  /\ index # Absent /\ index' = Absent /\ Disturbs
  /\ UNCHANGED <<reg, changes, rec, mid, admin, settings>>
----------------------------------------------------------------------------
(* A use: one in a behaviour, as a session meets no other.                 *)

To(c) == call' = c /\ UNCHANGED <<reg, changes, index, rec, mid, admin, settings>>
Step(at) == To([call EXCEPT !.at = at])
Ends(result) == To([call EXCEPT !.at = "done", !.result = result, !.held = 0])
\* A command that loads an object; a TPM that is full refuses it.
Loads(next) == IF call.held < Handles THEN To([next EXCEPT !.held = call.held + 1]) ELSE Ends("failed")

\* The first step of a use, with the record as it is now.
First(o) == CASE o = "code" -> "explain" [] o \in {"channel", "channel signed"} -> "assert" [] o = "quote" -> "quote" [] OTHER -> "open"
Call(o, r, m) ==
  [o |-> o, at |-> First(o), blob |-> r, policy |-> PolicyOf(o, r, m), held |-> CallerHolds(o), digest |-> <<>>,
   counter |-> Absent, ticket |-> <<>>, result |-> "none", gen |-> Absent, calm |-> TRUE]
Begins(o) == call.at = "idle" /\ To(Call(o, rec, mid))

Code == Begins("code")
OpenBootChallenge == Begins("boot challenge")
UnwrapFactor == Begins("factor")
UnsealMachineID == Begins("machine-id")
UnsealChannel == Begins("channel")
UnsealChannelSigned == Begins("channel signed")
Quote == Begins("quote")

\* The code's own look, to explain a failure.
explain(r, ix, g) ==
  CASE r.fifteen # 0 -> "closed"
    [] r.fifteen = 0 /\ ix = Absent -> "missing"
    [] r.fifteen = 0 /\ ix # Absent /\ ix # g.gen -> "revoked"
    [] r.fifteen = 0 /\ ix = g.gen /\ r.seven # g.seven ->
         IF r.seven = <<g.seven[1], 1>> /\ g.seven[2] = 0 THEN "separator" ELSE "mismatch"
    [] OTHER -> "none"
SlotCode ==
  /\ call.at = "explain"
  /\ LET e == explain(reg, index, call.blob) IN IF e = "none" THEN Step("open") ELSE Ends(e)

CheckOpen == call.at = "open" /\ IF reg.fifteen # 0 THEN Ends("closed") ELSE Step("index")
ReadsIndex ==
  /\ call.at = "index"
  /\ IF index = Absent THEN Ends("missing") ELSE Step(IF call.blob.signed THEN "signature" ELSE "load")

\* The PCR key's signature of PCR 11 as it is: its ticket, the key loaded for it.
checkSignedPCRs ==
  /\ call.at = "signature"
  /\ IF reg.eleven \notin Signatures THEN Ends("unsigned")
     ELSE Loads([call EXCEPT !.at = "load", !.ticket = <<AssertPCR({11}, <<reg.eleven>>)>>])

\* The signing key, after the PCR key is gone again; a session.
\* Mutant: the PCR key stays loaded.
flushed_Never(c) == c
flushed(c) == IF c.ticket = <<>> THEN c ELSE [c EXCEPT !.held = @ - 1]
LoadsSigningKey ==
  /\ call.at = "load"
  /\ LET c == flushed(call) IN
     IF c.held < Handles
     THEN To([c EXCEPT !.at = IF c.ticket = <<>> THEN "plain" ELSE "signed", !.held = @ + 1])
     ELSE Ends("failed")

\* TPM: a session's registers must not have changed since it read any.
Changed == call.counter # Absent /\ call.counter # changes
Asserts(a, at) == To([call EXCEPT !.at = at, !.digest = Append(@, a), !.counter = changes])

PolicyPCRSigned ==
  /\ call.at = "signed"
  /\ LET d == <<AssertPCR({11}, <<reg.eleven>>)>> IN
     IF d # call.ticket THEN Ends("refused")
     ELSE To([call EXCEPT !.at = "plain", !.digest = <<PolicyAuthorize(PCRKey, 0)>>, !.counter = changes])
PolicyPCRPlain ==
  call.at = "plain" /\ IF Changed THEN Ends("refused") ELSE Asserts(AssertPCR({7}, <<reg.seven>>), "nv")
PolicyNVEq ==
  /\ call.at = "nv"
  /\ IF index # call.blob.gen THEN Ends("refused")
     ELSE To([call EXCEPT !.at = "approval", !.digest = Append(@, PolicyNV(call.blob.gen)), !.gen = index])
Authorizes ==
  /\ call.at = "approval"
  /\ IF call.digest # ApprovedPolicy(call.blob) THEN Ends("refused")
     ELSE To([call EXCEPT !.at = "own", !.digest = <<PolicyAuthorize(Signing, call.blob.ref)>>])
\* The slot's own part: PCR 15 is zero; the signing key goes.
PolicyPCROpen ==
  /\ call.at = "own"
  /\ CASE Changed -> Ends("refused")
       [] ~ Changed /\ reg.fifteen # 0 -> Ends("closed")
       [] OTHER -> To([call EXCEPT !.at = IF call.o = "factor" THEN "then" ELSE "use", !.held = @ - 1,
                                   !.digest = Append(@, AssertPCR({15}, <<0>>)), !.counter = changes])
PolicyThen ==
  call.at = "then" /\ To([call EXCEPT !.at = "use", !.digest = Append(@, PolicyCommandCode("ActivateCredential"))])

\* The channel: the registers as sealed, or the signing key's signature.
ChannelAsserts ==
  /\ call.at = "assert" /\ call.o = "channel"
  /\ IF <<reg.seven, reg.fifteen>> = <<call.blob.channel, 0>>
     THEN Asserts(AssertPCR({7, 15}, <<reg.seven, reg.fifteen>>), "or") ELSE Step("why")
ChannelWhy ==
  call.at = "why" /\ Ends(IF reg.fifteen # 0 THEN "closed" ELSE "moved")
ChannelSigns ==
  /\ call.at = "assert" /\ call.o = "channel signed"
  /\ Loads([call EXCEPT !.at = "or", !.digest = <<PolicySigned(Signing, call.blob.ref)>>])
ChannelOr ==
  /\ call.at = "or"
  /\ LET d == Append(call.digest, PolicyCommandCode("Unseal")) IN
     IF d \notin channelBranches(call.blob) THEN Ends("failed")
     ELSE To([call EXCEPT !.at = "use", !.digest = channelPolicy(call.blob)])

\* The one command the session is for.  The phone's challenge is answered with
\* two: the key agreement, then the signature, in a session each.
Uses ==
  /\ call.at = "use"
  /\ IF call.digest = call.policy /\ ~ Changed
     THEN IF call.o = "boot challenge" THEN To([Call("boot signature", call.blob, mid) EXCEPT !.calm = call.calm])
          ELSE To([call EXCEPT !.at = "done", !.result = "opened", !.held = 0, !.digest = <<reg>>])
     ELSE Ends("refused")

\* A quote, and the registers read after it in chunks; again when they do not
\* reproduce it.
reproduces(quoted, read) == quoted = read
MaxQuotes == 3
Quotes == call.at = "quote" /\ To([call EXCEPT !.at = "read", !.ticket = Append(@, reg)])
ReadsChunk == call.at = "read" /\ To([call EXCEPT !.at = "rest", !.digest = <<reg.seven>>])
ReadsRest ==
  /\ call.at = "rest"
  /\ LET read == [reg EXCEPT !.seven = call.digest[1]] IN
     CASE reproduces(Last(call.ticket), read) -> To([call EXCEPT !.at = "done", !.result = "quoted", !.digest = <<read>>])
       [] ~ reproduces(Last(call.ticket), read) /\ Len(call.ticket) < MaxQuotes -> Step("quote")
       [] OTHER -> Ends("changing")

UseStep ==
  \/ Code \/ OpenBootChallenge \/ UnwrapFactor \/ UnsealMachineID \/ UnsealChannel \/ UnsealChannelSigned \/ Quote
  \/ SlotCode \/ CheckOpen \/ ReadsIndex \/ checkSignedPCRs \/ LoadsSigningKey \/ PolicyPCRSigned \/ PolicyPCRPlain
  \/ PolicyNVEq \/ Authorizes \/ PolicyPCROpen \/ PolicyThen \/ ChannelAsserts \/ ChannelWhy \/ ChannelSigns
  \/ ChannelOr \/ Uses \/ Quotes \/ ReadsChunk \/ ReadsRest
----------------------------------------------------------------------------
(* The boot settings' index: written in chunks, after what can fail first; *)
(* a process of its own, that may end anywhere.                            *)

Set(s) == settings' = s /\ UNCHANGED <<reg, changes, index, rec, mid, admin, call>>

\* replaceAt
Replaces(s) == [s EXCEPT !.at = "define", !.held = Absent]

\* The key is loaded and signs, before anything goes.
Preflight(s) == {Replaces(s), [s EXCEPT !.told = "no key"]}
SettingsBegin ==
  /\ settings.at = "idle"
  /\ \E s \in Preflight([settings EXCEPT !.before = settings.held]) : Set(s)
DefinesIndex ==
  /\ settings.at = "define"
  /\ \/ Set([settings EXCEPT !.at = "write", !.held = <<"new", 0>>])
     \/ Set([settings EXCEPT !.at = "idle", !.told = "failed"])
WritesChunk ==
  /\ settings.at = "write" /\ settings.held[2] < MaxChunks
  /\ \/ Set([settings EXCEPT !.held[2] = @ + 1])
     \/ Set([settings EXCEPT !.at = "idle", !.told = "failed"])
ReadsBack ==
  /\ settings.at = "write" /\ settings.held[2] = MaxChunks
  /\ Set([settings EXCEPT !.at = "idle", !.told = "written"])
SettingsCut == settings.at # "idle" /\ Set([settings EXCEPT !.at = "idle", !.told = "none"])

SettingsNext == SettingsBegin \/ DefinesIndex \/ WritesChunk \/ ReadsBack \/ SettingsCut

\* A behaviour ends with its use.
PolicyNext ==
  /\ call.at # "done"
  /\ \/ SystemdExtends \/ Closes \/ Reboots \/ UseStep
     \/ Approves(<<reg.seven[1], 0>>) \/ SealsSlot(<<reg.seven[1], 0>>)
     \/ WritesRecord \/ KeepsMachineID \/ IndexRemoved

PolicySpec == PolicyInit /\ [][PolicyNext \/ SettingsNext]_policyVars
----------------------------------------------------------------------------
(* Properties.                                                             *)

SlotObjects == Objects \ {"channel", "channel signed", "quote"}

\* Nothing bound to the slot opens unless the boot is not closed, its registers
\* are what the signing key approved and the generation was that while the
\* session was made (ApprovedSessionThen, UnsealChannel).
OpensOnlyApproved ==
  call.at = "done" /\ call.result = "opened" =>
    LET at == call.digest[1] IN
    /\ call.o # "channel signed" => at.fifteen = 0
    /\ call.o \in SlotObjects => at.seven = call.blob.seven /\ call.gen = call.blob.gen
    /\ call.o \in SlotObjects /\ call.blob.signed => at.eleven \in Signatures
    /\ call.o = "channel" => at.seven = call.blob.channel

Undisturbed == call.calm

\* What is approved does open, when nothing changes meanwhile: with the objects a
\* TPM holds at once, and the object's policy the session's (SlotPolicyDigest,
\* ReleaseKeyPolicy, channelPolicy).
ApprovedOpens ==
  call.at = "done" /\ Undisturbed =>
    CASE call.o = "channel signed" -> call.result = "opened"
      [] call.o = "quote" -> call.result = "quoted"
      [] call.o = "channel" -> call.result = "opened" <=> reg.fifteen = 0 /\ reg.seven = call.blob.channel
      [] OTHER ->
           call.policy \in {SlotPolicyDigest(call.blob.ref), ReleaseKeyPolicy(call.blob.ref)} =>
             (call.result = "opened" <=>
                /\ reg.fifteen = 0 /\ reg.seven = call.blob.seven /\ index = call.blob.gen
                /\ call.blob.signed => reg.eleven \in Signatures)

\* Why it did not open is told as it is (CheckOpen, SlotCode, UnsealChannel).
BlameRight ==
  call.at = "done" =>
    /\ call.result = "closed" => reg.fifteen # 0
    /\ call.result = "moved" => reg.seven # call.blob.channel
    /\ call.result = "separator" => reg.seven[2] = 1
    /\ call.result = "unsigned" => call.blob.signed /\ reg.eleven \notin Signatures
    /\ call.result # "failed"
    /\ call.result = "quoted" => call.digest[1] = Last(call.ticket)
    /\ call.result = "changing" => changes >= MaxQuotes
    /\ call.result = "refused" /\ Undisturbed =>
         \/ reg.seven # call.blob.seven \/ index # call.blob.gen
         \/ call.policy # PolicyOf(call.o, call.blob, call.blob.ref)

\* A write whose key cannot sign leaves what was there; one that says it wrote
\* has (WriteToNVRAM).
SettingsKept ==
  settings.at = "idle" =>
    /\ settings.told = "no key" => settings.held = settings.before
    /\ settings.told = "written" => settings.held = WholeOf("new")

OpensAsApproved == OpensOnlyApproved /\ ApprovedOpens /\ BlameRight /\ SettingsKept
=============================================================================
