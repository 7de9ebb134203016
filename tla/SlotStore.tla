----------------------------- MODULE SlotStore -----------------------------
(***************************************************************************)
(* One slot of tpm2-kira as the commands of the running system keep it:    *)
(* the signed record (an EFI variable, replaced whole or not at all), the  *)
(* generation index and the record counter (both in the TPM).  slot add,   *)
(* approve, the enrolments and their removal, and slot delete each change  *)
(* several of them, one after the other; there is no lock, so a kernel     *)
(* update's approve may run beside an enrolment, and any of them may end   *)
(* at any step: an error of the TPM, a token taken out, a power failure.   *)
(* An older record may also be put back.  What a boot may do is decided    *)
(* by what is there then: the gate serves a record only while its count is *)
(* the counter's (Accepted), and a sealed key opens only for an approval   *)
(* of the measured values at the index's generation (Opens).               *)
(***************************************************************************)
EXTENDS Naturals, FiniteSets

CONSTANTS
  Procs,       \* the commands that may run at once
  Phones,      \* the phones that may be enrolled
  Values,      \* the PCR values a boot of this machine may have
  Stranger,    \* a phone that only a record of another signing key names
  MaxVerifiers,\* MaxVerifiers
  MaxCommands, \* bound: commands started
  MaxPutBack   \* bound: how often an older record comes back

ASSUME ProcsAssumption == Procs # {} /\ IsFiniteSet(Procs)
ASSUME StrangerAssumption == Stranger \notin Phones
ASSUME ValuesAssumption == Values # {}
ASSUME BoundsAssumption ==
  /\ MaxVerifiers \in Nat \ {0}
  /\ MaxCommands \in Nat
  /\ MaxPutBack \in Nat

VARIABLES
  record,    \* the slot's record, or NoRecord
  gen,       \* the generation index's value, 0 when it is not defined
  counter,   \* the record counter's value, 0 when it is not defined
  top,       \* the highest value any counter of this TPM has had
  machineId, \* the policy reference the sealed machine-id is bound to, 0: none
  refs,      \* policy references made so far
  op,        \* op[p]: what command p is doing
  active,    \* the commands this behaviour runs: one at a time, or several
  cut,       \* a command was cut short, and no approve or delete ran whole since
  commands,  \* commands started so far
  putBack,   \* how often an older record was put back
  written,   \* every record of this signing key that was ever written
  completed, \* the records whose write was followed by the raise to their count
  latest,    \* the last of them
  approvals, \* the approvals written since slot add last made the slot
  revoked    \* those of them that a later approve has revoked

vars == <<record, gen, counter, top, machineId, refs, op, active, cut,
          commands, putBack, written, completed, latest, approvals, revoked>>
tpmVars  == <<gen, counter, top>>
histVars == <<written, completed, latest, approvals, revoked>>
runVars  == <<active, commands, putBack>>

NoRecord == [none |-> TRUE]
NoAtt == [none |-> TRUE]
Idle == [kind |-> "idle"]

\* A record: own is that this machine's key signed it; ref, gen and values
\* are its approval's; att what is enrolled.
Rec(own, ref, g, values, totp, att) ==
  [own |-> own, ref |-> ref, gen |-> g, values |-> values, totp |-> totp,
   att |-> att]

Att(count, phones, vault, salt, key) ==
  [count |-> count, phones |-> phones, vault |-> vault, salt |-> salt,
   key |-> key]

NewAtt == Att(0, {}, FALSE, FALSE, FALSE)

PhonesOf(r) == IF r = NoRecord \/ r.att = NoAtt THEN {} ELSE r.att.phones
PhoneAttested(r) == PhonesOf(r) # {}
Vault(r) == r # NoRecord /\ r.att # NoAtt /\ r.att.vault
TPMSalt(r) == r # NoRecord /\ r.att # NoAtt /\ r.att.salt

AcceptedUpTo(r) ==
  /\ r # NoRecord
  /\ r.own
  /\ PhoneAttested(r)
  /\ counter > 0
  /\ r.att.count <= counter
\* checkAttestRecord: signed by this key, with a phone, and current.
Accepted(r) ==
  /\ r # NoRecord
  /\ r.own
  /\ PhoneAttested(r)
  /\ counter > 0
  /\ r.att.count = counter

\* ApprovedSessionThen on a boot that measured v.
Opens(r, v) ==
  /\ r # NoRecord
  /\ gen > 0
  /\ r.gen = gen
  /\ r.values = v

\* The slot is empty, or holds what another signing key left.
Init ==
  /\ \/ record = NoRecord /\ gen = 0 /\ counter = 0 /\ refs = 0
     \/ /\ \E v \in Values :
             record = Rec(FALSE, 1, 1, v, FALSE, Att(1, {Stranger}, FALSE, FALSE, TRUE))
        /\ gen = 1 /\ counter = 1 /\ refs = 1
  /\ top = counter
  /\ machineId = 0
  /\ op = [p \in Procs |-> Idle]
  /\ active \in {{p} : p \in Procs} \union {Procs}
  /\ cut = FALSE
  /\ commands = 0
  /\ putBack = 0
  /\ written = {}
  /\ completed = {}
  /\ latest = NoRecord
  /\ approvals = {}
  /\ revoked = {}

Start(p, o) ==
  /\ p \in active
  /\ op[p] = Idle
  /\ commands < MaxCommands
  /\ commands' = commands + 1
  /\ op' = [op EXCEPT ![p] = o]
  /\ UNCHANGED <<active, cut, putBack>>

At(p, stage) == op[p] # Idle /\ op[p].at = stage

Continue(p, stage) ==
  /\ op' = [op EXCEPT ![p].at = stage]
  /\ UNCHANGED <<runVars, cut>>

End(p, whole) ==
  /\ op' = [op EXCEPT ![p] = Idle]
  /\ cut' = (cut /\ ~whole)
  /\ UNCHANGED runVars

(***************************************************************************)
(* slot add and approve.                                                   *)
(***************************************************************************)

SealForeign(p, v, withTOTP, sameBank) ==
  LET keeps == record # NoRecord /\ record.att # NoAtt /\ sameBank
      ref   == IF keeps THEN record.ref ELSE refs + 1
      att   == IF keeps THEN record.att ELSE NoAtt
      totp  == withTOTP /\ ~(keeps /\ PhoneAttested(record))
  IN /\ Start(p, [kind |-> "seal", at |-> "raise",
                  rec |-> Rec(TRUE, ref, 1, v, totp, att)])
     /\ refs' = IF keeps THEN refs ELSE refs + 1
     /\ UNCHANGED <<record, tpmVars, machineId, histVars>>
\* Seal up to its call of approveAndWrite: enrolments of this key's record
\* are kept with its policy reference, but not into another PCR bank; a slot with
\* phones gets no TOTP key.
\* A new slot's generation is 0, which approveAndWrite raises to 1.
Seal(p, v, withTOTP, sameBank) ==
  LET keeps == record # NoRecord /\ record.att # NoAtt /\ record.own /\ sameBank
      ref   == IF keeps THEN record.ref ELSE refs + 1
      att   == IF keeps THEN record.att ELSE NoAtt
      totp  == withTOTP /\ ~(keeps /\ PhoneAttested(record))
  IN /\ Start(p, [kind |-> "seal", at |-> "raise",
                  rec |-> Rec(TRUE, ref, 1, v, totp, att)])
     /\ refs' = IF keeps THEN refs ELSE refs + 1
     /\ UNCHANGED <<record, tpmVars, machineId, histVars>>

ResealSameGeneration(p, v) ==
  /\ record # NoRecord /\ record.own
  /\ Start(p, [kind |-> "approve", at |-> "raise", rec |-> [record EXCEPT !.values = v]])
  /\ UNCHANGED <<record, refs, tpmVars, machineId, histVars>>
\* Reseal up to approveAndWrite: only a record this key signed.
Reseal(p, v) ==
  /\ record # NoRecord /\ record.own
  /\ Start(p, [kind |-> "approve", at |-> "raise",
               rec |-> [record EXCEPT !.gen = @ + 1, !.values = v]])
  /\ UNCHANGED <<record, refs, tpmVars, machineId, histVars>>

GenerationKept(p) ==
  /\ At(p, "raise")
  /\ gen' = IF gen = 0 THEN op[p].rec.gen ELSE gen
  /\ Continue(p, "approved")
  /\ UNCHANGED <<record, refs, counter, top, machineId, histVars>>
\* approveAndWrite: WriteGeneration, which makes the index where it is
\* missing.  From here on the approvals written so far are revoked, as far
\* as the slot is the same one: slot add counts from 1 again, and what an
\* earlier slot's approvals were is then forgotten.
WriteGeneration(p) ==
  /\ At(p, "raise")
  /\ gen' = op[p].rec.gen
  /\ \/ op[p].kind = "seal" /\ approvals' = {} /\ revoked' = {}
     \/ op[p].kind # "seal" /\ revoked' = approvals /\ UNCHANGED approvals
  /\ Continue(p, "approved")
  /\ UNCHANGED <<record, refs, counter, top, machineId, written, completed, latest>>

\* The approval a record carries: what SignApproval signed.
Approval(r) == <<r.ref, r.gen, r.values>>

\* A record of this key is written.
Stored(r) ==
  /\ record' = r
  /\ written' = written \union {r}
  /\ approvals' = approvals \union {Approval(r)}

\* approveAndWrite's end: the approval signed, the record written.
WriteApproved(p) ==
  /\ At(p, "approved")
  /\ Stored(op[p].rec)
  /\ Continue(p, "id")
  /\ UNCHANGED <<refs, machineId, tpmVars, completed, latest, revoked>>

\* Mutant: an id that is sealed stays as it is.
MachineIDLeft(p) ==
  /\ At(p, "id")
  /\ machineId' = IF machineId = 0 THEN op[p].rec.ref ELSE machineId
  /\ End(p, TRUE)
  /\ UNCHANGED <<record, refs, tpmVars, histVars>>

\* keepMachineID: sealed again when slot 0 was made again.
KeepMachineID(p) ==
  /\ At(p, "id")
  /\ machineId' = IF record = NoRecord THEN machineId ELSE record.ref
  /\ End(p, TRUE)
  /\ UNCHANGED <<record, refs, tpmVars, histVars>>

(***************************************************************************)
(* The enrolments.  A command reads what is enrolled, talks to a phone, a  *)
(* vault or a person, and hands what it made of it to writeAttestBlob.     *)
(***************************************************************************)

AttOrNew(r) == IF r.att = NoAtt THEN NewAtt ELSE r.att
Unless(empty, att) == IF empty THEN NoAtt ELSE att

\* AttestEnrol and UpsertVerifier: another phone, while there is room.
AddPhone(r, att) ==
  /\ r.own
  /\ \E ph \in Phones :
       /\ att = [AttOrNew(r) EXCEPT !.phones = @ \union {ph}]
       /\ Cardinality(att.phones) <= MaxVerifiers

\* AttestUnenrol: all the slot's phones; the rest stays for a vault alone.
RemovePhones(r, att) ==
  /\ PhoneAttested(r)
  /\ att = Unless(~Vault(r), [r.att EXCEPT !.phones = {}])

\* remoteSaltKey, FactorUnenrol: the release key of the phone's salt.
AddReleaseKey(r, att) ==
  /\ PhoneAttested(r) /\ ~r.att.key
  /\ att = [r.att EXCEPT !.key = TRUE]
RemoveReleaseKey(r, att) ==
  /\ PhoneAttested(r) /\ r.att.key
  /\ att = [r.att EXCEPT !.key = FALSE]

\* vaultEnrolKey, VaultUnenrol.
AddVault(r, att) ==
  /\ r.own /\ ~Vault(r)
  /\ att = [AttOrNew(r) EXCEPT !.vault = TRUE, !.key = TRUE]
RemoveVault(r, att) ==
  /\ Vault(r)
  /\ att = Unless(~PhoneAttested(r) /\ ~TPMSalt(r), [r.att EXCEPT !.vault = FALSE])

\* tpmSaltKey, removeTPMSalt.
AddTPMSalt(r, att) ==
  /\ r.own
  /\ att = [AttOrNew(r) EXCEPT !.salt = TRUE, !.key = TRUE]
RemoveTPMSalt(r, att) ==
  /\ TPMSalt(r)
  /\ att = Unless(~PhoneAttested(r) /\ ~Vault(r), [r.att EXCEPT !.salt = FALSE])

Changes(r) ==
  {att \in {NoAtt} \union
           [count : {0, IF r.att = NoAtt THEN 0 ELSE r.att.count},
            phones : SUBSET (Phones \union {Stranger}), vault : BOOLEAN,
            salt : BOOLEAN, key : BOOLEAN] :
     \/ att # NoAtt /\ AddPhone(r, att)
     \/ RemovePhones(r, att)
     \/ AddReleaseKey(r, att) \/ RemoveReleaseKey(r, att)
     \/ AddVault(r, att) \/ RemoveVault(r, att)
     \/ AddTPMSalt(r, att) \/ RemoveTPMSalt(r, att)}

Enrol(p) ==
  /\ record # NoRecord
  /\ \E att \in Changes(record) :
       Start(p, [kind |-> "enrol", at |-> "load", rec |-> [record EXCEPT !.att = att]])
  /\ UNCHANGED <<record, refs, tpmVars, machineId, histVars>>

\* NVIncrement of the record counter, made anew where it is missing: the
\* TPM starts it above everything a deleted counter had.
Raised == IF counter = 0 THEN top + 1 ELSE counter + 1

\* writeAttestBlob up to its write: the record read again and its signature
\* checked, the count above the counter's, the TOTP key retired by a phone.
writeAttestBlob(p) ==
  LET now == IF counter = 0 THEN top + 1 ELSE counter
      a   == op[p].rec.att
      att == IF a = NoAtt THEN NoAtt ELSE [a EXCEPT !.count = now + 1]
      new == [record EXCEPT !.att = att]
  IN /\ At(p, "load")
     /\ record # NoRecord /\ record.own
     /\ counter' = now
     /\ top' = IF now > top THEN now ELSE top
     /\ op' = [op EXCEPT ![p].at = "store",
                         ![p].rec = [new EXCEPT !.totp = @ /\ ~PhoneAttested(new)]]
     /\ UNCHANGED <<record, refs, gen, machineId, runVars, cut, histVars>>

\* WriteRecord.
WriteRecord(p) ==
  /\ At(p, "store")
  /\ Stored(op[p].rec)
  /\ Continue(p, "bump")
  /\ UNCHANGED <<refs, machineId, tpmVars, completed, latest, revoked>>

\* The count went up to the record's own: the enrolment is current.
Counted(r, got) ==
  IF r.att = NoAtt \/ r.att.count = got
  THEN completed' = completed \union {r} /\ latest' = r
  ELSE UNCHANGED <<completed, latest>>

\* BumpAttestCounter's increment.
BumpAttestCounter(p) ==
  /\ At(p, "bump")
  /\ counter' = Raised
  /\ top' = IF Raised > top THEN Raised ELSE top
  /\ Counted(op[p].rec, Raised)
  /\ Continue(p, "check")
  /\ UNCHANGED <<record, refs, gen, machineId, written, approvals, revoked>>

\* Its read: another value than the record's means that somebody counted
\* too, and is an error ("enrol again") that changes nothing any more.
ReadBack(p) ==
  /\ At(p, "check")
  /\ End(p, FALSE)
  /\ UNCHANGED <<record, refs, machineId, tpmVars, histVars>>

(***************************************************************************)
(* Removal, and what may happen at any time.                               *)
(***************************************************************************)

Delete(p) ==
  /\ Start(p, [kind |-> "delete", at |-> "record", rec |-> NoRecord])
  /\ UNCHANGED <<record, refs, tpmVars, machineId, histVars>>

\* RemoveSlot: the record, the generation index, the counter; every part is
\* tried even when another fails.  The machine-id goes last, if all did.
RemovePart(p) ==
  /\ op[p] # Idle /\ op[p].kind = "delete"
  /\ \/ /\ At(p, "record") /\ record' = NoRecord
        /\ Continue(p, "gen") /\ UNCHANGED <<tpmVars, machineId>>
     \/ /\ At(p, "gen") /\ gen' = 0
        /\ Continue(p, "counter") /\ UNCHANGED <<record, counter, top, machineId>>
     \/ /\ At(p, "counter") /\ counter' = 0
        /\ Continue(p, "machineId") /\ UNCHANGED <<record, gen, top, machineId>>
     \/ /\ At(p, "machineId") /\ machineId' = 0
        /\ End(p, TRUE) /\ UNCHANGED <<record, tpmVars>>
  /\ UNCHANGED <<refs, histVars>>

\* One part is not removed; the next is tried, and the machine-id stays.
PartFails(p) ==
  /\ op[p] # Idle /\ op[p].kind = "delete"
  /\ \/ /\ op[p].at \in {"record", "gen"}
        /\ op' = [op EXCEPT ![p].at = IF @ = "record" THEN "gen" ELSE "counterLast"]
        /\ UNCHANGED <<counter, cut>>
     \/ /\ op[p].at = "counterLast" /\ counter' \in {counter, 0}
        /\ op' = [op EXCEPT ![p] = Idle] /\ cut' = TRUE
  /\ UNCHANGED <<record, gen, top, machineId, refs, runVars, histVars>>

\* NVRAMDelete of a companion index by itself.
NVRAMDelete(p) ==
  /\ Start(p, Idle)
  /\ \/ gen > 0 /\ gen' = 0 /\ counter' = counter
     \/ counter > 0 /\ counter' = 0 /\ gen' = gen
  /\ UNCHANGED <<record, refs, top, machineId, histVars>>

\* The command ends where it is: an error, a kill, a power failure.
Fail(p) ==
  /\ op[p] # Idle
  /\ op' = [op EXCEPT ![p] = Idle]
  /\ cut' = TRUE
  /\ UNCHANGED <<record, refs, tpmVars, machineId, runVars, histVars>>

\* An older record of this slot is put back.
PutBack ==
  /\ putBack < MaxPutBack
  /\ \E r \in written : r # record /\ record' = r
  /\ putBack' = putBack + 1
  /\ UNCHANGED <<refs, tpmVars, machineId, op, active, cut, commands, histVars>>

Next ==
  \/ \E p \in Procs :
       \/ \E v \in Values, withTOTP, sameBank \in BOOLEAN : Seal(p, v, withTOTP, sameBank)
       \/ \E v \in Values : Reseal(p, v)
       \/ WriteGeneration(p) \/ WriteApproved(p) \/ KeepMachineID(p)
       \/ Enrol(p) \/ writeAttestBlob(p) \/ WriteRecord(p)
       \/ BumpAttestCounter(p) \/ ReadBack(p)
       \/ Delete(p) \/ RemovePart(p) \/ PartFails(p) \/ NVRAMDelete(p)
       \/ Fail(p)
  \/ PutBack

Spec == Init /\ [][Next]_vars

(***************************************************************************)
(* Properties.                                                             *)
(***************************************************************************)

Alone == Cardinality(active) = 1

\* A record whose enrolment went through (the counter was raised to its
\* count) is never served again once another one's has, whatever
\* is put back, deleted or interrupted, and however commands overlap: the
\* purpose of the record counter (counter.go).
SupersededStaysOut ==
  \A r \in completed : Accepted(r) => r.att = latest.att

\* What this key signs is its own: no record names a phone that another key's
\* record brought in (but for commands that overlap: what is handed to
\* writeAttestBlob may then come from a record that is no longer there), and
\* none has phones and a code at once, through seals that keep the phones and
\* enrolments that meet a code (Seal, writeAttestBlob).
SignsOnlyItsOwn ==
  \A r \in written :
    /\ Alone => Stranger \notin PhonesOf(r)
    /\ ~(PhoneAttested(r) /\ r.totp)

\* A command that ran alone to its end leaves what it says: after an approve
\* the slot opens for the approved values, after an enrolment with phones
\* the gate serves the record (approveAndWrite, writeAttestBlob).
EndHoldsWhatItSays ==
  [][ \A p \in Procs :
        (Alone /\ putBack = 0 /\ (At(p, "id") \/ At(p, "check")) /\ op'[p] = Idle) =>
          /\ op[p].kind \in {"seal", "approve"} =>
               \A v \in {op[p].rec.values} : Opens(record, v)'
          /\ (op[p].kind = "enrol" /\ PhoneAttested(op[p].rec)) => Accepted(record)'
    ]_vars

\* The sealed machine-id is bound to the policy of the record that is there,
\* whenever the last command ran whole and alone; and no machine-id is left
\* behind by a slot that was deleted whole (keepMachineID, removeMachineID).
MachineIdFollows ==
  (Alone /\ putBack = 0 /\ ~cut /\ machineId # 0 /\ \A p \in Procs : op[p] = Idle)
    => record # NoRecord /\ machineId = record.ref

\* "so an older blob can never pass as the current one" (attest_blob.go:27):
\* once an enrolment went through, no other enrolment is served.
OlderNeverCurrent ==
  \A r \in written :
    (Alone /\ latest # NoRecord /\ latest.att # NoAtt /\ latest.att.count = counter
      /\ Accepted(r)) => r.att = latest.att

\* "It raises the slot's generation, which revokes every earlier approval for
\* the slot" (seal.go:364): after an approve no earlier approval of the slot
\* that slot add made opens anything again, whatever was cut short on the way.
RevokedStaysRevoked ==
  (Alone /\ putBack = 0) =>
    \A r \in written : Approval(r) \in revoked => ~Opens(r, r.values)

\* What an approve revokes stays revoked, and what is bound to the slot's policy
\* is bound to the one that is there (Reseal, keepMachineID).
ApprovalsFollow == RevokedStaysRevoked /\ MachineIdFollows
=============================================================================
