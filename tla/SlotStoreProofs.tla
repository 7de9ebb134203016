-------------------------- MODULE SlotStoreProofs --------------------------
(***************************************************************************)
(* What holds of a slot for any number of commands at once, phones, values *)
(* and interruptions.  First the record counter does what it is for        *)
(* (SupersededStaysOut); then, with an invariant of the records and of     *)
(* where every command is, what this key signs (SignsOnlyItsOwn) and what  *)
(* a command that runs alone leaves behind (ApprovalsFollow,               *)
(* EndHoldsWhatItSays).                                                    *)
(***************************************************************************)
EXTENDS SlotStore, FiniteSetTheorems, TLAPS

\* The counter, where it is defined, is the highest value there has been; an
\* enrolment that went through has a count no higher, and only the latest
\* one's count can be that value.
CountInv ==
  /\ top \in Nat
  /\ counter = 0 \/ counter = top
  /\ \A r \in completed :
       r.att = NoAtt \/ ( /\ r.att.count \in Nat
                          /\ r.att.count <= top
                          /\ r.att.count = top => r.att = latest.att )

countVars == <<counter, top, completed, latest>>

\* A state that leaves the counter and the history alone keeps CountInv.
LEMMA CountKeeps == CountInv /\ UNCHANGED countVars => CountInv'
  BY DEF CountInv, countVars

\* Deleting the counter's index loses nothing: top remembers.
LEMMA CountGone ==
  CountInv /\ counter' = 0 /\ UNCHANGED <<top, completed, latest>> => CountInv'
  BY DEF CountInv

\* writeAttestBlob defines a missing counter above all earlier ones.
LEMMA WriteKeeps ==
  ASSUME NEW p \in Procs, CountInv, writeAttestBlob(p)
  PROVE  CountInv'
<1>1. UNCHANGED <<completed, latest>>
  BY DEF writeAttestBlob, histVars
<1>2. \/ counter' = counter /\ top' = top
      \/ counter' = top + 1 /\ top' = top + 1
  <2>1. CASE counter = 0
    <3>1. counter' = top + 1 /\ top' = IF top + 1 > top THEN top + 1 ELSE top
      BY <2>1 DEF writeAttestBlob
    <3> QED
      BY <3>1 DEF CountInv
  <2>2. CASE counter # 0
    <3>1. counter' = counter /\ top' = IF counter > top THEN counter ELSE top
      BY <2>2 DEF writeAttestBlob
    <3> QED
      BY <3>1, <2>2 DEF CountInv
  <2> QED
    BY <2>1, <2>2
<1>3. CASE counter' = counter /\ top' = top
  BY <1>1, <1>3 DEF CountInv
<1>4. CASE counter' = top + 1 /\ top' = top + 1
  BY <1>1, <1>4 DEF CountInv
<1> QED
  BY <1>2, <1>3, <1>4

\* The increment after the write: only this record can have the new count.
LEMMA BumpKeeps ==
  ASSUME NEW p \in Procs, CountInv, BumpAttestCounter(p)
  PROVE  CountInv'
<1>1. Raised = top + 1
  BY DEF CountInv, Raised
<1>2. counter' = top + 1 /\ top' = top + 1
  <2>1. top' = IF Raised > top THEN Raised ELSE top
    BY DEF BumpAttestCounter
  <2> QED
    BY <1>1, <2>1 DEF CountInv, BumpAttestCounter
<1>3. Counted(op[p].rec, top + 1)
  BY <1>1 DEF BumpAttestCounter
<1> DEFINE r == op[p].rec
<1>4. CASE r.att = NoAtt \/ r.att.count = top + 1
  <2>1. completed' = completed \union {r} /\ latest' = r
    BY <1>3, <1>4 DEF Counted
  <2>2. ASSUME NEW s \in completed'
        PROVE  s.att = NoAtt \/ ( /\ s.att.count \in Nat
                                  /\ s.att.count <= top'
                                  /\ s.att.count = top' => s.att = (latest').att )
    <3>1. CASE s = r
      BY <1>2, <1>4, <2>1, <3>1 DEF CountInv
    <3>2. CASE s \in completed
      BY <1>2, <3>2 DEF CountInv
    <3> QED
      BY <2>1, <2>2, <3>1, <3>2
  <2> QED
    BY <1>2, <2>2 DEF CountInv
<1>5. CASE ~(r.att = NoAtt \/ r.att.count = top + 1)
  <2>1. UNCHANGED <<completed, latest>>
    BY <1>3, <1>5 DEF Counted
  <2> QED
    BY <1>2, <2>1 DEF CountInv
<1> QED
  BY <1>4, <1>5

LEMMA CountNext == CountInv /\ [Next]_vars => CountInv'
<1> SUFFICES ASSUME CountInv, [Next]_vars PROVE CountInv'
  OBVIOUS
<1> USE DEF vars, tpmVars, histVars, runVars, countVars
<1>1. CASE UNCHANGED vars
  BY <1>1, CountKeeps
<1>2. CASE PutBack
  BY <1>2, CountKeeps DEF PutBack
<1>3. ASSUME NEW p \in Procs,
             \/ \E v \in Values, withTOTP, sameBank \in BOOLEAN : Seal(p, v, withTOTP, sameBank)
             \/ \E v \in Values : Reseal(p, v)
             \/ WriteGeneration(p) \/ WriteApproved(p) \/ KeepMachineID(p)
             \/ Enrol(p) \/ WriteRecord(p) \/ ReadBack(p) \/ Delete(p) \/ Fail(p)
      PROVE  CountInv'
  <2>1. UNCHANGED countVars
    BY <1>3 DEF Seal, Reseal, WriteGeneration, WriteApproved, KeepMachineID,
                Enrol, WriteRecord, ReadBack, Delete, Fail
  <2> QED
    BY <2>1, CountKeeps
<1>4. ASSUME NEW p \in Procs, RemovePart(p) \/ PartFails(p) \/ NVRAMDelete(p)
      PROVE  CountInv'
  <2>1. UNCHANGED <<top, completed, latest>> /\ (counter' = 0 \/ counter' = counter)
    BY <1>4 DEF RemovePart, PartFails, NVRAMDelete
  <2> QED
    BY <2>1, CountKeeps, CountGone
<1>5. ASSUME NEW p \in Procs, writeAttestBlob(p)
      PROVE  CountInv'
  BY <1>5, WriteKeeps
<1>6. ASSUME NEW p \in Procs, BumpAttestCounter(p)
      PROVE  CountInv'
  BY <1>6, BumpKeeps
<1> QED
  BY <1>1, <1>2, <1>3, <1>4, <1>5, <1>6 DEF Next

\* An accepted record has a phone enrolled, so something is enrolled.
LEMMA AcceptedCount ==
  ASSUME NEW r, Accepted(r)
  PROVE  r.att # NoAtt /\ r.att.count = counter /\ counter > 0
  BY DEF Accepted, PhoneAttested, PhonesOf

\* Whatever is put back, deleted, interrupted or run side by side, the gate
\* never serves an enrolment again that another one has replaced
\* (checkAttestRecord with writeAttestBlob and BumpAttestCounter).
THEOREM Superseded == Spec => []SupersededStaysOut
<1>1. Init => CountInv
  <2> SUFFICES ASSUME Init PROVE CountInv
    OBVIOUS
  <2>1. (counter = 0 \/ counter = 1) /\ top = counter /\ completed = {}
    BY DEF Init
  <2> QED
    BY <2>1 DEF CountInv
<1>2. CountInv => SupersededStaysOut
  BY AcceptedCount DEF CountInv, SupersededStaysOut
<1> QED
  BY <1>1, <1>2, CountNext, PTL DEF Spec

(***************************************************************************)
(* The records, and where every command is.                                *)
(***************************************************************************)

Atts == [count : Nat, phones : SUBSET (Phones \union {Stranger}),
         vault : BOOLEAN, salt : BOOLEAN, key : BOOLEAN]

Records == [own : BOOLEAN, ref : Nat, gen : Nat \ {0}, values : Values,
            totp : BOOLEAN, att : {NoAtt} \union Atts]

ApproveStages == {"raise", "approved", "id"}
EnrolStages   == {"load", "store", "bump", "check"}
DeleteStages  == {"record", "gen", "counter", "counterLast", "machineId"}

Approving == [kind : {"seal", "approve"}, at : ApproveStages, rec : Records]
Enrolling == [kind : {"enrol"}, at : EnrolStages, rec : Records]
Deleting  == [kind : {"delete"}, at : DeleteStages, rec : {NoRecord}]

Ops == {Idle} \union Approving \union Enrolling \union Deleting

\* A command has made the record it is to write.
Made(o) == o \in Approving \/ (o \in Enrolling /\ o.at # "load")

StoreTypeOK ==
  /\ record \in {NoRecord} \union Records
  /\ gen \in Nat /\ counter \in Nat /\ top \in Nat
  /\ machineId \in Nat /\ refs \in Nat
  /\ op \in [Procs -> Ops]
  /\ active \subseteq Procs
  /\ putBack \in Nat
  /\ written \subseteq Records

\* Only a command of this behaviour is doing anything.
ActiveInv == \A p \in Procs : op[p] # Idle => p \in active

\* No record has phones and a code at once.
Coded(r) == ~(PhoneAttested(r) /\ r.totp)

\* What is written, or is to be, this key signs; and the record that is there
\* is its own from the first write on.
OwnInv ==
  /\ record # NoRecord => Coded(record)
  /\ record # NoRecord /\ ~record.own => written = {}
  /\ \A r \in written : r.own /\ Coded(r)
  /\ \A p \in Procs : Made(op[p]) => op[p].rec.own /\ Coded(op[p].rec)

\* A command that runs alone has from the other key's record at most what it
\* is about to give to writeAttestBlob, which then finds that record.
StrangerInv ==
  Alone =>
    /\ record # NoRecord /\ record.own => Stranger \notin PhonesOf(record)
    /\ \A r \in written : Stranger \notin PhonesOf(r)
    /\ \A p \in Procs :
         /\ Made(op[p]) => Stranger \notin PhonesOf(op[p].rec)
         /\ (At(p, "load") /\ (record = NoRecord \/ record.own)) =>
              Stranger \notin PhonesOf(op[p].rec)

(***************************************************************************)
(* A behaviour of one command at a time, nothing put back.                 *)
(***************************************************************************)

\* How far the command o has come, in what the slot holds.
Reached(o) ==
  CASE o.at = "raise" ->
         IF o.kind = "seal" THEN o.rec.gen = 1
         ELSE record # NoRecord /\ o.rec.gen = record.gen + 1
    [] o.at = "approved" ->
         /\ gen = o.rec.gen
         /\ IF o.kind = "seal" THEN approvals = {} /\ revoked = {}
            ELSE record # NoRecord /\ o.rec.gen = record.gen + 1
    [] o.at = "id" -> record = o.rec /\ gen = o.rec.gen
    [] o.at = "store" ->
         /\ record # NoRecord
         /\ o.rec.ref = record.ref /\ o.rec.gen = record.gen
         /\ counter > 0
         /\ o.rec.att = NoAtt \/ o.rec.att.count = counter + 1
    [] o.at = "bump" ->
         /\ record = o.rec
         /\ counter > 0
         /\ o.rec.att = NoAtt \/ o.rec.att.count = counter + 1
    [] o.at = "check" ->
         /\ record = o.rec
         /\ counter > 0
         /\ o.rec.att = NoAtt \/ o.rec.att.count = counter
    [] OTHER -> TRUE

\* The generations of a slot's approvals only go up to its record's, and the
\* revoked ones are below the index's.
GenerationsInv ==
  /\ revoked \subseteq approvals
  /\ \A a \in approvals : a[2] \in Nat
  /\ record # NoRecord => \A a \in approvals : a[2] <= record.gen
  /\ gen > 0 => \A a \in revoked : a[2] < gen

\* Between the record's replacement and keepMachineID, or in a removal after
\* the record's, the id is not the record's.
BetweenIds(o) == o # Idle /\ o.at \in {"id", "gen", "counter", "counterLast", "machineId"}

MachineIdInv ==
  (~cut /\ machineId # 0 /\ \A p \in Procs : ~BetweenIds(op[p]))
    => record # NoRecord /\ machineId = record.ref

SoleInv ==
  (Alone /\ putBack = 0) =>
    /\ \A p \in Procs : op[p] # Idle => Reached(op[p])
    /\ GenerationsInv
    /\ MachineIdInv

StoreIInv == StoreTypeOK /\ ActiveInv /\ OwnInv /\ StrangerInv /\ SoleInv

(***************************************************************************)
(* The records a command makes.                                            *)
(***************************************************************************)

LEMMA RecordIsNotNone == \A r \in Records : r # NoRecord
  BY DEF Records, NoRecord

LEMMA AttIsNotNone == \A a \in Atts : a # NoAtt
  BY DEF Atts, NoAtt

LEMMA PhonesOfRecord ==
  ASSUME NEW r \in Records
  PROVE  PhonesOf(r) = IF r.att = NoAtt THEN {} ELSE r.att.phones
  BY RecordIsNotNone DEF PhonesOf

\* Another enrolment in a record.
LEMMA WithAtt ==
  ASSUME NEW r \in Records, NEW a \in {NoAtt} \union Atts
  PROVE  LET s == [r EXCEPT !.att = a]
         IN /\ s \in Records /\ s.att = a /\ s.own = r.own /\ s.ref = r.ref
            /\ s.gen = r.gen /\ s.values = r.values /\ s.totp = r.totp
  BY DEF Records

\* The code retired, or not.
LEMMA WithTotp ==
  ASSUME NEW r \in Records, NEW b \in BOOLEAN
  PROVE  LET s == [r EXCEPT !.totp = b]
         IN /\ s \in Records /\ s.totp = b /\ s.own = r.own /\ s.ref = r.ref
            /\ s.gen = r.gen /\ s.values = r.values /\ s.att = r.att
  BY DEF Records

\* The next approval.
LEMMA WithApproval ==
  ASSUME NEW r \in Records, NEW v \in Values
  PROVE  LET s == [r EXCEPT !.gen = @ + 1, !.values = v]
         IN /\ s \in Records /\ s.gen = r.gen + 1 /\ s.own = r.own
            /\ s.ref = r.ref /\ s.totp = r.totp /\ s.att = r.att
<1>1. r.gen \in Nat \ {0}
  BY DEF Records
<1>2. r.gen + 1 \in Nat \ {0}
  BY <1>1
<1>3. \A g \in Nat \ {0} :
        LET s == [r EXCEPT !.gen = g, !.values = v]
        IN /\ s \in Records /\ s.gen = g /\ s.own = r.own
           /\ s.ref = r.ref /\ s.totp = r.totp /\ s.att = r.att
  BY DEF Records
<1> QED
  BY ONLY <1>2, <1>3, Zenon

LEMMA WithCount ==
  ASSUME NEW a \in Atts, NEW n \in Nat
  PROVE  LET s == [a EXCEPT !.count = n]
         IN s \in Atts /\ s.count = n /\ s.phones = a.phones
  BY DEF Atts

\* What makes a new slot's record.
LEMMA NewRecord ==
  ASSUME NEW ref \in Nat, NEW v \in Values, NEW b \in BOOLEAN,
         NEW a \in {NoAtt} \union Atts
  PROVE  LET s == Rec(TRUE, ref, 1, v, b, a)
         IN s \in Records /\ s.own /\ s.gen = 1 /\ s.totp = b /\ s.att = a
  BY DEF Rec, Records

\* Two records with the same enrolment name the same phones.
LEMMA SamePhones ==
  ASSUME NEW r \in Records, NEW s \in Records, r.att = s.att
  PROVE  PhonesOf(r) = PhonesOf(s)
  BY PhonesOfRecord

\* A command is at one of its own stages.
LEMMA OpKinds ==
  ASSUME NEW o \in Ops, o # Idle
  PROVE  /\ o.at \in ApproveStages => o \in Approving
         /\ o.at \in EnrolStages => o \in Enrolling
         /\ o.at \in DeleteStages => o \in Deleting
         /\ o.kind = "delete" => o \in Deleting
  BY DEF Ops, Approving, Enrolling, Deleting, ApproveStages, EnrolStages, DeleteStages

LEMMA IdleIsNone == \A o \in Approving \union Enrolling \union Deleting : o # Idle
  BY DEF Approving, Enrolling, Deleting, Idle

LEMMA ApproveStage ==
  ASSUME NEW o \in Approving, NEW stage \in ApproveStages
  PROVE  LET s == [o EXCEPT !.at = stage]
         IN s \in Approving /\ s.at = stage /\ s.kind = o.kind /\ s.rec = o.rec
  BY DEF Approving

LEMMA EnrolStage ==
  ASSUME NEW o \in Enrolling, NEW stage \in EnrolStages
  PROVE  LET s == [o EXCEPT !.at = stage]
         IN s \in Enrolling /\ s.at = stage /\ s.kind = o.kind /\ s.rec = o.rec
  BY DEF Enrolling

LEMMA DeleteStage ==
  ASSUME NEW o \in Deleting, NEW stage \in DeleteStages
  PROVE  LET s == [o EXCEPT !.at = stage]
         IN s \in Deleting /\ s.at = stage
  BY DEF Deleting

\* Only one command runs where Alone says so.
LEMMA OneActive ==
  ASSUME active \subseteq Procs, Alone, NEW p \in active, NEW q \in active
  PROVE  p = q
<1>1. IsFiniteSet(active)
  BY ProcsAssumption, FS_Subset
<1>2. \E x : active = {x}
  BY <1>1, FS_Singleton DEF Alone
<1> QED
  BY <1>2

(***************************************************************************)
(* What each action does, with the command's new state as one value.       *)
(***************************************************************************)

Becomes(p, o) == op' = [op EXCEPT ![p] = o] /\ active' = active
slotVars == <<record, gen, counter, top, machineId, written, approvals, revoked, putBack>>

LEMMA DoSeal ==
  ASSUME StoreTypeOK, NEW p \in Procs, NEW v \in Values, NEW b \in BOOLEAN, NEW bank \in BOOLEAN, Seal(p, v, b, bank)
  PROVE  /\ p \in active /\ op[p] = Idle /\ cut' = cut /\ refs' \in Nat
         /\ UNCHANGED slotVars
         /\ \E o \in Approving :
              /\ Becomes(p, o)
              /\ o.kind = "seal" /\ o.at = "raise" /\ o.rec.own /\ o.rec.gen = 1
              /\ Coded(o.rec)
              /\ \/ PhonesOf(o.rec) = {}
                 \/ record # NoRecord /\ record.own /\ PhonesOf(o.rec) = PhonesOf(record)
<1> DEFINE keeps == record # NoRecord /\ record.att # NoAtt /\ record.own /\ bank
           ref   == IF keeps THEN record.ref ELSE refs + 1
           att   == IF keeps THEN record.att ELSE NoAtt
           totp  == b /\ ~(keeps /\ PhoneAttested(record))
           r     == Rec(TRUE, ref, 1, v, totp, att)
           o     == [kind |-> "seal", at |-> "raise", rec |-> r]
<1>1. p \in active /\ op[p] = Idle /\ cut' = cut /\ UNCHANGED slotVars /\ Becomes(p, o)
  BY DEF Seal, Start, slotVars, tpmVars, histVars, Becomes
<1>2. keeps \in BOOLEAN /\ totp \in BOOLEAN
  OBVIOUS
<1>3. keeps => record \in Records
  BY DEF StoreTypeOK
<1>4. refs \in Nat /\ refs + 1 \in Nat
  BY DEF StoreTypeOK
<1>5. refs' = IF keeps THEN refs ELSE refs + 1
  BY DEF Seal
<1>6. refs' \in Nat
  BY <1>4, <1>5
<1>7. ref \in Nat
  <2>1. keeps => record.ref \in Nat
    BY <1>3 DEF Records
  <2> HIDE DEF keeps
  <2> QED
    BY <2>1, <1>4
<1>8. att \in {NoAtt} \union Atts
  <2>1. keeps => record.att \in {NoAtt} \union Atts
    BY <1>3 DEF Records
  <2> HIDE DEF keeps
  <2> QED
    BY <2>1
<1>9. r \in Records /\ r.own /\ r.gen = 1 /\ r.totp = totp /\ r.att = att
  <2> HIDE DEF totp, ref, att
  <2> QED
    BY <1>2, <1>7, <1>8, NewRecord
<1>10. PhonesOf(r) = IF keeps THEN PhonesOf(record) ELSE {}
  <2>1. CASE keeps
    <3>1. r.att = record.att
      BY <2>1, <1>9
    <3> QED
      BY <1>3, <1>9, <2>1, <3>1, SamePhones DEF r
  <2>2. CASE ~keeps
    <3>1. r.att = NoAtt
      BY <2>2, <1>9
    <3> HIDE DEF r
    <3> QED
      BY <1>9, <2>2, <3>1, PhonesOfRecord
  <2> QED
    BY <2>1, <2>2
<1>11. Coded(r)
  <2> HIDE DEF r
  <2> QED
    BY <1>9, <1>10 DEF Coded, PhoneAttested
<1>12. o \in Approving /\ o.kind = "seal" /\ o.at = "raise" /\ o.rec = r
  <2> HIDE DEF r
  <2> QED
    BY <1>9 DEF Approving, ApproveStages
<1>13. PhonesOf(r) = {} \/ (record # NoRecord /\ record.own /\ PhonesOf(r) = PhonesOf(record))
  BY <1>10
<1> HIDE DEF r, o
<1> QED
  BY <1>1, <1>6, <1>9, <1>11, <1>12, <1>13

LEMMA DoReseal ==
  ASSUME StoreTypeOK, NEW p \in Procs, NEW v \in Values, Reseal(p, v)
  PROVE  /\ p \in active /\ op[p] = Idle /\ cut' = cut /\ refs' = refs
         /\ record # NoRecord /\ record.own
         /\ UNCHANGED slotVars
         /\ \E o \in Approving :
              /\ Becomes(p, o)
              /\ o.kind = "approve" /\ o.at = "raise"
              /\ o.rec.own = record.own /\ o.rec.gen = record.gen + 1
              /\ o.rec.totp = record.totp
              /\ PhonesOf(o.rec) = PhonesOf(record)
<1> DEFINE r == [record EXCEPT !.gen = @ + 1, !.values = v]
           o == [kind |-> "approve", at |-> "raise", rec |-> r]
<1>1. /\ p \in active /\ op[p] = Idle /\ cut' = cut /\ refs' = refs
      /\ record # NoRecord /\ record.own /\ UNCHANGED slotVars /\ Becomes(p, o)
  BY DEF Reseal, Start, slotVars, tpmVars, histVars, Becomes
<1>2. record \in Records
  BY <1>1 DEF StoreTypeOK
<1>3. r \in Records /\ r.gen = record.gen + 1 /\ r.own = record.own
      /\ r.totp = record.totp /\ r.att = record.att
  BY <1>2, WithApproval
<1> HIDE DEF r
<1>4. PhonesOf(r) = PhonesOf(record)
  BY <1>2, <1>3, SamePhones
<1>5. o \in Approving /\ o.kind = "approve" /\ o.at = "raise" /\ o.rec = r
  BY <1>3 DEF Approving, ApproveStages
<1> HIDE DEF o
<1> QED
  BY <1>1, <1>3, <1>4, <1>5

LEMMA DoWriteGeneration ==
  ASSUME StoreTypeOK, NEW p \in Procs, WriteGeneration(p)
  PROVE  /\ op[p] \in Approving /\ op[p].at = "raise" /\ cut' = cut
         /\ gen' = op[p].rec.gen
         /\ \/ op[p].kind = "seal" /\ approvals' = {} /\ revoked' = {}
            \/ op[p].kind # "seal" /\ revoked' = approvals /\ approvals' = approvals
         /\ UNCHANGED <<record, refs, counter, top, machineId, written, putBack>>
         /\ \E o \in Approving : /\ Becomes(p, o) /\ o.kind = op[p].kind
                                 /\ o.at = "approved" /\ o.rec = op[p].rec
<1> DEFINE o == [op[p] EXCEPT !.at = "approved"]
<1>1. /\ op[p] # Idle /\ op[p].at = "raise" /\ cut' = cut
      /\ gen' = op[p].rec.gen
      /\ UNCHANGED <<record, refs, counter, top, machineId, written, putBack>>
      /\ Becomes(p, o)
  BY DEF WriteGeneration, At, Continue, runVars, Becomes
<1>2. \/ op[p].kind = "seal" /\ approvals' = {} /\ revoked' = {}
      \/ op[p].kind # "seal" /\ revoked' = approvals /\ approvals' = approvals
  BY DEF WriteGeneration
<1>3. op[p] \in Approving
  BY <1>1, OpKinds DEF StoreTypeOK, ApproveStages
<1>4. o \in Approving /\ o.at = "approved" /\ o.kind = op[p].kind /\ o.rec = op[p].rec
  BY <1>3, ApproveStage DEF ApproveStages
<1> HIDE DEF o
<1> QED
  BY <1>1, <1>2, <1>3, <1>4

LEMMA DoWriteApproved ==
  ASSUME StoreTypeOK, NEW p \in Procs, WriteApproved(p)
  PROVE  /\ op[p] \in Approving /\ op[p].at = "approved" /\ cut' = cut
         /\ Stored(op[p].rec)
         /\ UNCHANGED <<refs, machineId, gen, counter, top, revoked, putBack>>
         /\ \E o \in Approving : /\ Becomes(p, o) /\ o.kind = op[p].kind
                                 /\ o.at = "id" /\ o.rec = op[p].rec
<1> DEFINE o == [op[p] EXCEPT !.at = "id"]
<1>1. /\ op[p] # Idle /\ op[p].at = "approved" /\ cut' = cut
      /\ Stored(op[p].rec)
      /\ UNCHANGED <<refs, machineId, gen, counter, top, revoked, putBack>>
      /\ Becomes(p, o)
  BY DEF WriteApproved, At, Continue, runVars, tpmVars, Becomes
<1>2. op[p] \in Approving
  BY <1>1, OpKinds DEF StoreTypeOK, ApproveStages
<1>3. o \in Approving /\ o.at = "id" /\ o.kind = op[p].kind /\ o.rec = op[p].rec
  BY <1>2, ApproveStage DEF ApproveStages
<1> HIDE DEF o
<1> QED
  BY <1>1, <1>2, <1>3

LEMMA DoKeepMachineID ==
  ASSUME StoreTypeOK, NEW p \in Procs, KeepMachineID(p)
  PROVE  /\ op[p] \in Approving /\ op[p].at = "id" /\ cut' = FALSE
         /\ machineId' = IF record = NoRecord THEN machineId ELSE record.ref
         /\ UNCHANGED <<record, refs, gen, counter, top, written, approvals, revoked, putBack>>
         /\ Becomes(p, Idle)
<1>1. /\ op[p] # Idle /\ op[p].at = "id"
      /\ machineId' = IF record = NoRecord THEN machineId ELSE record.ref
      /\ UNCHANGED <<record, refs, gen, counter, top, written, approvals, revoked, putBack>>
      /\ Becomes(p, Idle)
  BY DEF KeepMachineID, At, End, runVars, tpmVars, histVars, Becomes
<1>2. cut' = FALSE
  BY DEF KeepMachineID, End
<1>3. op[p] \in Approving
  BY <1>1, OpKinds DEF StoreTypeOK, ApproveStages
<1> QED
  BY <1>1, <1>2, <1>3

\* What a command may enrol on: nothing, or what there is.
LEMMA AttOrNewIs ==
  ASSUME NEW r \in Records
  PROVE  AttOrNew(r) \in Atts /\ AttOrNew(r).phones = PhonesOf(r)
<1>1. NewAtt \in Atts /\ NewAtt.phones = {}
  BY DEF NewAtt, Att, Atts
<1>2. r.att \in {NoAtt} \union Atts
  BY DEF Records
<1> QED
  BY <1>1, <1>2, PhonesOfRecord DEF AttOrNew

\* Every change of the enrolments keeps, drops, or adds one of Phones.
LEMMA ChangedPhones ==
  ASSUME NEW r \in Records, NEW a \in Changes(r)
  PROVE  /\ a \in {NoAtt} \union Atts
         /\ a = NoAtt \/ a.phones \subseteq PhonesOf(r) \union Phones
<1>1. r.att \in {NoAtt} \union Atts
  BY DEF Records
<1>2. (IF r.att = NoAtt THEN 0 ELSE r.att.count) \in Nat
  <2>1. r.att \in Atts => r.att.count \in Nat
    BY DEF Atts
  <2> QED
    BY <1>1, <2>1
<1>3. a \in {NoAtt} \union Atts
  <2> DEFINE n == IF r.att = NoAtt THEN 0 ELSE r.att.count
  <2>1. a \in {NoAtt} \union
             [count : {0, n}, phones : SUBSET (Phones \union {Stranger}), vault : BOOLEAN,
              salt : BOOLEAN, key : BOOLEAN]
    BY DEF Changes
  <2>2. n \in Nat
    BY <1>2
  <2> HIDE DEF n
  <2> QED
    BY <2>1, <2>2 DEF Atts
<1>4. \/ AddPhone(r, a) \/ RemovePhones(r, a)
      \/ AddReleaseKey(r, a) \/ RemoveReleaseKey(r, a)
      \/ AddVault(r, a) \/ RemoveVault(r, a)
      \/ AddTPMSalt(r, a) \/ RemoveTPMSalt(r, a)
  BY DEF Changes
<1>5. PhonesOf(r) = IF r.att = NoAtt THEN {} ELSE r.att.phones
  BY PhonesOfRecord
<1>6. r # NoRecord
  BY RecordIsNotNone
<1> SUFFICES ASSUME a # NoAtt PROVE a.phones \subseteq PhonesOf(r) \union Phones
  BY <1>3
<1>7. CASE AddPhone(r, a)
  <2>1. PICK ph \in Phones : a = [AttOrNew(r) EXCEPT !.phones = @ \union {ph}]
    BY <1>7 DEF AddPhone
  <2>2. a.phones = PhonesOf(r) \union {ph}
    BY <2>1, AttOrNewIs DEF Atts
  <2> QED
    BY <2>2
<1>8. CASE RemovePhones(r, a)
  <2>1. r.att \in Atts
    BY <1>1, <1>5, <1>8 DEF RemovePhones, PhoneAttested
  <2>2. a = [r.att EXCEPT !.phones = {}]
    BY <1>8 DEF RemovePhones, Unless
  <2>3. a.phones = {}
    BY <2>1, <2>2 DEF Atts
  <2> QED
    BY <2>3
<1>9. CASE AddReleaseKey(r, a) \/ RemoveReleaseKey(r, a)
  <2>1. r.att \in Atts /\ PhonesOf(r) = r.att.phones
    BY <1>1, <1>5, <1>9 DEF AddReleaseKey, RemoveReleaseKey, PhoneAttested
  <2>2. a = [r.att EXCEPT !.key = TRUE] \/ a = [r.att EXCEPT !.key = FALSE]
    BY <1>9 DEF AddReleaseKey, RemoveReleaseKey
  <2>3. a.phones = r.att.phones
    BY <2>1, <2>2 DEF Atts
  <2> QED
    BY <2>1, <2>3
<1>10. CASE AddVault(r, a)
  <2>1. a = [AttOrNew(r) EXCEPT !.vault = TRUE, !.key = TRUE]
    BY <1>10 DEF AddVault
  <2>2. a.phones = PhonesOf(r)
    BY <2>1, AttOrNewIs DEF Atts
  <2> QED
    BY <2>2
<1>11. CASE AddTPMSalt(r, a)
  <2>1. a = [AttOrNew(r) EXCEPT !.salt = TRUE, !.key = TRUE]
    BY <1>11 DEF AddTPMSalt
  <2>2. a.phones = PhonesOf(r)
    BY <2>1, AttOrNewIs DEF Atts
  <2> QED
    BY <2>2
<1>12. CASE RemoveVault(r, a) \/ RemoveTPMSalt(r, a)
  <2>1. r.att \in Atts
    BY <1>1, <1>6, <1>12 DEF RemoveVault, RemoveTPMSalt, Vault, TPMSalt
  <2>2. PhonesOf(r) = r.att.phones
    BY <2>1, <1>5, AttIsNotNone
  <2>3. a = [r.att EXCEPT !.vault = FALSE] \/ a = [r.att EXCEPT !.salt = FALSE]
    BY <1>12 DEF RemoveVault, RemoveTPMSalt, Unless
  <2>4. a.phones = r.att.phones
    BY <2>1, <2>3 DEF Atts
  <2> QED
    BY <2>2, <2>4
<1> QED
  BY <1>4, <1>7, <1>8, <1>9, <1>10, <1>11, <1>12

LEMMA DoEnrol ==
  ASSUME StoreTypeOK, NEW p \in Procs, Enrol(p)
  PROVE  /\ p \in active /\ op[p] = Idle /\ cut' = cut /\ refs' = refs
         /\ record # NoRecord
         /\ UNCHANGED slotVars
         /\ \E o \in Enrolling :
              /\ Becomes(p, o) /\ o.at = "load"
              /\ PhonesOf(o.rec) \subseteq PhonesOf(record) \union Phones
<1>1. PICK a \in Changes(record) :
        Start(p, [kind |-> "enrol", at |-> "load", rec |-> [record EXCEPT !.att = a]])
  BY DEF Enrol
<1> DEFINE r == [record EXCEPT !.att = a]
           o == [kind |-> "enrol", at |-> "load", rec |-> r]
<1>2. /\ p \in active /\ op[p] = Idle /\ cut' = cut /\ refs' = refs
      /\ record # NoRecord /\ UNCHANGED slotVars /\ Becomes(p, o)
  BY <1>1 DEF Enrol, Start, slotVars, tpmVars, histVars, Becomes
<1>3. record \in Records
  BY <1>2 DEF StoreTypeOK
<1>4. a \in {NoAtt} \union Atts /\ (a = NoAtt \/ a.phones \subseteq PhonesOf(record) \union Phones)
  BY <1>3, ChangedPhones
<1>5. r \in Records /\ r.att = a
  BY <1>3, <1>4, WithAtt
<1> HIDE DEF r
<1>6. PhonesOf(r) \subseteq PhonesOf(record) \union Phones
  <2>1. PhonesOf(r) = IF a = NoAtt THEN {} ELSE a.phones
    BY <1>5, PhonesOfRecord
  <2> QED
    BY <1>4, <2>1
<1>7. o \in Enrolling /\ o.at = "load" /\ o.rec = r
  BY <1>5 DEF Enrolling, EnrolStages
<1> HIDE DEF o
<1> QED
  BY <1>2, <1>6, <1>7

LEMMA DoWriteAttestBlob ==
  ASSUME StoreTypeOK, NEW p \in Procs, writeAttestBlob(p)
  PROVE  /\ op[p] \in Enrolling /\ op[p].at = "load" /\ cut' = cut
         /\ record # NoRecord /\ record.own
         /\ counter' \in Nat /\ top' \in Nat /\ counter' > 0
         /\ UNCHANGED <<record, refs, gen, machineId, written, approvals, revoked, putBack>>
         /\ \E o \in Enrolling :
              /\ Becomes(p, o) /\ o.kind = op[p].kind /\ o.at = "store"
              /\ o.rec.own /\ o.rec.ref = record.ref /\ o.rec.gen = record.gen
              /\ Coded(o.rec)
              /\ PhonesOf(o.rec) = PhonesOf(op[p].rec)
              /\ o.rec.att = NoAtt \/ o.rec.att.count = counter' + 1
<1> DEFINE now == IF counter = 0 THEN top + 1 ELSE counter
           a   == op[p].rec.att
           att == IF a = NoAtt THEN NoAtt ELSE [a EXCEPT !.count = now + 1]
           new == [record EXCEPT !.att = att]
           b   == new.totp /\ ~PhoneAttested(new)
           r   == [new EXCEPT !.totp = b]
           o   == [[op[p] EXCEPT !.at = "store"] EXCEPT !.rec = r]
<1>1. /\ op[p] # Idle /\ op[p].at = "load" /\ cut' = cut
      /\ record # NoRecord /\ record.own
      /\ UNCHANGED <<record, refs, gen, machineId, written, approvals, revoked, putBack>>
  BY DEF writeAttestBlob, At, runVars, histVars
<1>2. op[p] \in Enrolling /\ op[p].rec \in Records /\ record \in Records
  <2>1. op[p] \in Enrolling
    BY <1>1, OpKinds DEF StoreTypeOK, EnrolStages
  <2>2. op[p].rec \in Records
    BY <2>1 DEF Enrolling
  <2> QED
    BY <1>1, <2>1, <2>2 DEF StoreTypeOK
<1>3. counter' = now /\ top' = (IF now > top THEN now ELSE top)
  BY DEF writeAttestBlob
<1>4. now \in Nat /\ now > 0 /\ now + 1 \in Nat
  BY DEF StoreTypeOK
<1>5. counter' \in Nat /\ top' \in Nat /\ counter' > 0
  <2> HIDE DEF now
  <2> QED
    BY <1>3, <1>4 DEF StoreTypeOK
<1> HIDE DEF now
<1>6. a \in {NoAtt} \union Atts
  BY <1>2 DEF Records
<1>7. att \in {NoAtt} \union Atts /\ (att = NoAtt \/ att.count = now + 1)
      /\ (IF att = NoAtt THEN {} ELSE att.phones) = (IF a = NoAtt THEN {} ELSE a.phones)
  <2>1. CASE a = NoAtt
    BY <2>1
  <2>2. CASE a # NoAtt
    <3>1. a \in Atts
      BY <2>2, <1>6
    <3> HIDE DEF a
    <3>2. att = [a EXCEPT !.count = now + 1]
      BY <2>2
    <3>3. att \in Atts /\ att.count = now + 1 /\ att.phones = a.phones
      BY <1>4, <3>1, <3>2, WithCount
    <3>4. att # NoAtt
      BY <3>3, AttIsNotNone
    <3> QED
      BY <2>2, <3>3, <3>4
  <2> QED
    BY <2>1, <2>2
<1> HIDE DEF att
<1>8. new \in Records /\ new.att = att /\ new.own = record.own
      /\ new.ref = record.ref /\ new.gen = record.gen
  BY <1>2, <1>7, WithAtt
<1> HIDE DEF new
<1>9. b \in BOOLEAN
  <2>1. new.totp \in BOOLEAN
    BY <1>8 DEF Records
  <2> QED
    BY <2>1
<1>10. b => ~PhoneAttested(new)
  OBVIOUS
<1> HIDE DEF b
<1>11. r \in Records /\ r.totp = b /\ r.own = new.own /\ r.ref = new.ref
       /\ r.gen = new.gen /\ r.att = new.att
  BY <1>8, <1>9, WithTotp
<1>12. Becomes(p, o)
  <2>1. op' = [op EXCEPT ![p].at = "store", ![p].rec = r]
    BY DEF writeAttestBlob, now, a, att, new, b, r
  <2>2. active' = active
    BY DEF writeAttestBlob, runVars
  <2>3. op \in [Procs -> Ops]
    BY DEF StoreTypeOK
  <2> HIDE DEF r
  <2>4. op' = [op EXCEPT ![p] = o]
    BY <2>1, <2>3
  <2> QED
    BY <2>2, <2>4 DEF Becomes
<1> HIDE DEF r
<1>13. o \in Enrolling /\ o.at = "store" /\ o.rec = r /\ o.kind = op[p].kind
  BY <1>2, <1>11 DEF Enrolling, EnrolStages
<1> HIDE DEF o
<1>14. PhonesOf(r) = PhonesOf(op[p].rec) /\ PhonesOf(new) = PhonesOf(r)
  BY <1>2, <1>7, <1>8, <1>11, PhonesOfRecord
<1>15. Coded(r)
  BY <1>10, <1>11, <1>14 DEF Coded, PhoneAttested
<1>16. r.own /\ r.ref = record.ref /\ r.gen = record.gen
  BY <1>1, <1>8, <1>11
<1>17. r.att = NoAtt \/ r.att.count = counter' + 1
  BY <1>3, <1>7, <1>8, <1>11
<1> QED
  BY <1>1, <1>2, <1>5, <1>12, <1>13, <1>14, <1>15, <1>16, <1>17

LEMMA DoWriteRecord ==
  ASSUME StoreTypeOK, NEW p \in Procs, WriteRecord(p)
  PROVE  /\ op[p] \in Enrolling /\ op[p].at = "store" /\ cut' = cut
         /\ Stored(op[p].rec)
         /\ UNCHANGED <<refs, machineId, gen, counter, top, revoked, putBack>>
         /\ \E o \in Enrolling : /\ Becomes(p, o) /\ o.at = "bump" /\ o.rec = op[p].rec
<1> DEFINE o == [op[p] EXCEPT !.at = "bump"]
<1>1. /\ op[p] # Idle /\ op[p].at = "store" /\ cut' = cut
      /\ Stored(op[p].rec)
      /\ UNCHANGED <<refs, machineId, gen, counter, top, revoked, putBack>>
      /\ Becomes(p, o)
  BY DEF WriteRecord, At, Continue, runVars, tpmVars, Becomes
<1>2. op[p] \in Enrolling
  BY <1>1, OpKinds DEF StoreTypeOK, EnrolStages
<1>3. o \in Enrolling /\ o.at = "bump" /\ o.rec = op[p].rec
  BY <1>2, EnrolStage DEF EnrolStages
<1> HIDE DEF o
<1> QED
  BY <1>1, <1>2, <1>3

LEMMA DoBump ==
  ASSUME StoreTypeOK, NEW p \in Procs, BumpAttestCounter(p)
  PROVE  /\ op[p] \in Enrolling /\ op[p].at = "bump" /\ cut' = cut
         /\ counter' = Raised /\ counter' \in Nat /\ top' \in Nat
         /\ UNCHANGED <<record, refs, gen, machineId, written, approvals, revoked, putBack>>
         /\ \E o \in Enrolling : /\ Becomes(p, o) /\ o.at = "check" /\ o.rec = op[p].rec
<1> DEFINE o == [op[p] EXCEPT !.at = "check"]
<1>1. /\ op[p] # Idle /\ op[p].at = "bump" /\ cut' = cut
      /\ counter' = Raised /\ top' = (IF Raised > top THEN Raised ELSE top)
      /\ UNCHANGED <<record, refs, gen, machineId, written, approvals, revoked, putBack>>
      /\ Becomes(p, o)
  BY DEF BumpAttestCounter, At, Continue, runVars, Becomes
<1>2. op[p] \in Enrolling
  BY <1>1, OpKinds DEF StoreTypeOK, EnrolStages
<1>3. o \in Enrolling /\ o.at = "check" /\ o.rec = op[p].rec
  BY <1>2, EnrolStage DEF EnrolStages
<1>4. Raised \in Nat
  BY DEF StoreTypeOK, Raised
<1>5. counter' \in Nat /\ top' \in Nat
  BY <1>1, <1>4 DEF StoreTypeOK
<1> HIDE DEF o
<1> QED
  BY <1>1, <1>2, <1>3, <1>5

LEMMA DoReadBack ==
  ASSUME StoreTypeOK, NEW p \in Procs, ReadBack(p)
  PROVE  /\ op[p] \in Enrolling /\ op[p].at = "check" /\ (~cut' => ~cut)
         /\ refs' = refs /\ UNCHANGED slotVars
         /\ Becomes(p, Idle)
<1>1. /\ op[p] # Idle /\ op[p].at = "check" /\ refs' = refs /\ UNCHANGED slotVars
      /\ Becomes(p, Idle)
  BY DEF ReadBack, At, End, runVars, tpmVars, histVars, slotVars, Becomes
<1>2. ~cut' => ~cut
  BY DEF ReadBack, End
<1>3. op[p] \in Enrolling
  BY <1>1, OpKinds DEF StoreTypeOK, EnrolStages
<1> QED
  BY <1>1, <1>2, <1>3

LEMMA DoDelete ==
  ASSUME StoreTypeOK, NEW p \in Procs, Delete(p)
  PROVE  /\ p \in active /\ op[p] = Idle /\ cut' = cut /\ refs' = refs
         /\ UNCHANGED slotVars
         /\ \E o \in Deleting : Becomes(p, o) /\ o.at = "record"
<1> DEFINE o == [kind |-> "delete", at |-> "record", rec |-> NoRecord]
<1>1. /\ p \in active /\ op[p] = Idle /\ cut' = cut /\ refs' = refs
      /\ UNCHANGED slotVars /\ Becomes(p, o)
  BY DEF Delete, Start, slotVars, tpmVars, histVars, Becomes
<1>2. o \in Deleting /\ o.at = "record"
  BY DEF Deleting, DeleteStages
<1> HIDE DEF o
<1> QED
  BY <1>1, <1>2

\* A removal goes on to a stage after the record's, or ends with no machine-id.
LEMMA DoRemovePart ==
  ASSUME StoreTypeOK, NEW p \in Procs, RemovePart(p)
  PROVE  /\ op[p] \in Deleting
         /\ UNCHANGED <<refs, top, written, approvals, revoked, putBack>>
         /\ record' = record \/ record' = NoRecord
         /\ gen' = gen \/ gen' = 0
         /\ counter' = counter \/ counter' = 0
         /\ \E o \in {Idle} \union Deleting :
              /\ Becomes(p, o)
              /\ \/ o = Idle /\ machineId' = 0
                 \/ /\ o # Idle /\ cut' = cut /\ machineId' = machineId
                    /\ o.at \in {"gen", "counter", "counterLast", "machineId"}
<1>1. op[p] \in Deleting
  BY OpKinds DEF StoreTypeOK, RemovePart
<1>2. UNCHANGED <<refs, top, written, approvals, revoked, putBack>>
  BY DEF RemovePart, tpmVars, histVars, runVars, Continue, End
<1>3. /\ record' = record \/ record' = NoRecord
      /\ gen' = gen \/ gen' = 0
      /\ counter' = counter \/ counter' = 0
  BY DEF RemovePart, tpmVars
<1>4. CASE \E stage \in {"gen", "counter", "machineId"} :
             Continue(p, stage) /\ machineId' = machineId
  <2>1. PICK stage \in {"gen", "counter", "machineId"} :
          Continue(p, stage) /\ machineId' = machineId
    BY <1>4
  <2> DEFINE o == [op[p] EXCEPT !.at = stage]
  <2>2. o \in Deleting /\ o.at = stage
    BY <1>1, DeleteStage DEF DeleteStages
  <2>3. Becomes(p, o) /\ cut' = cut
    BY <2>1 DEF Continue, Becomes, runVars
  <2> HIDE DEF o
  <2>4. o # Idle
    BY <2>2, IdleIsNone
  <2> QED
    BY <1>1, <1>2, <1>3, <2>1, <2>2, <2>3, <2>4
<1>5. CASE End(p, TRUE) /\ machineId' = 0
  <2>1. Becomes(p, Idle)
    BY <1>5 DEF End, Becomes, runVars
  <2> QED
    BY <1>1, <1>2, <1>3, <1>5, <2>1
<1> QED
  BY <1>4, <1>5 DEF RemovePart

LEMMA DoPartFails ==
  ASSUME StoreTypeOK, NEW p \in Procs, PartFails(p)
  PROVE  /\ op[p] \in Deleting
         /\ UNCHANGED <<record, gen, refs, top, machineId, written, approvals, revoked, putBack>>
         /\ counter' = counter \/ counter' = 0
         /\ \E o \in {Idle} \union Deleting :
              /\ Becomes(p, o)
              /\ \/ o = Idle /\ cut'
                 \/ /\ o # Idle /\ cut' = cut
                    /\ o.at \in {"gen", "counter", "counterLast", "machineId"}
<1>1. op[p] \in Deleting
  BY OpKinds DEF StoreTypeOK, PartFails
<1>2. UNCHANGED <<record, gen, refs, top, machineId, written, approvals, revoked, putBack>>
  BY DEF PartFails, histVars, runVars
<1>3. (counter' = counter \/ counter' = 0) /\ active' = active
  BY DEF PartFails, runVars
<1>4. CASE op[p].at \in {"record", "gen"}
           /\ op' = [op EXCEPT ![p].at = IF @ = "record" THEN "gen" ELSE "counterLast"]
           /\ cut' = cut
  <2> DEFINE stage == IF op[p].at = "record" THEN "gen" ELSE "counterLast"
             o == [op[p] EXCEPT !.at = stage]
  <2>1. stage \in DeleteStages /\ stage \in {"gen", "counter", "counterLast", "machineId"}
    BY DEF DeleteStages
  <2>2. op' = [op EXCEPT ![p] = o]
    BY <1>4
  <2> HIDE DEF stage
  <2>3. o \in Deleting /\ o.at = stage
    BY <1>1, <2>1, DeleteStage
  <2> HIDE DEF o
  <2>4. o # Idle
    BY <2>3, IdleIsNone
  <2>5. Becomes(p, o)
    BY <1>3, <2>2 DEF Becomes
  <2> QED
    BY <1>1, <1>2, <1>3, <1>4, <2>1, <2>3, <2>4, <2>5
<1>5. CASE op' = [op EXCEPT ![p] = Idle] /\ cut'
  BY <1>1, <1>2, <1>3, <1>5 DEF Becomes
<1> QED
  BY <1>4, <1>5 DEF PartFails

LEMMA DoNVRAMDelete ==
  ASSUME StoreTypeOK, NEW p \in Procs, NVRAMDelete(p)
  PROVE  /\ p \in active /\ op[p] = Idle /\ cut' = cut
         /\ UNCHANGED <<record, refs, top, machineId, written, approvals, revoked, putBack>>
         /\ gen' = gen \/ gen' = 0
         /\ counter' = counter \/ counter' = 0
         /\ Becomes(p, Idle)
  BY DEF NVRAMDelete, Start, histVars, Becomes

LEMMA DoFail ==
  ASSUME StoreTypeOK, NEW p \in Procs, Fail(p)
  PROVE  /\ cut' /\ refs' = refs /\ UNCHANGED slotVars
         /\ Becomes(p, Idle)
<1>1. cut'
  BY DEF Fail
<1> QED
  BY <1>1 DEF Fail, slotVars, tpmVars, histVars, runVars, Becomes

(***************************************************************************)
(* How a step of one command keeps each part of the invariant.             *)
(***************************************************************************)

LEMMA OpsAfter ==
  ASSUME StoreTypeOK, NEW p \in Procs, NEW o, Becomes(p, o)
  PROVE  op'[p] = o /\ \A q \in Procs : q # p => op'[q] = op[q]
  BY DEF StoreTypeOK, Becomes

LEMMA TypeStep ==
  ASSUME StoreTypeOK, NEW p \in Procs, NEW o \in Ops, Becomes(p, o),
         record' \in {NoRecord} \union Records, written' \subseteq Records,
         gen' \in Nat, counter' \in Nat, top' \in Nat,
         machineId' \in Nat, refs' \in Nat, putBack' = putBack
  PROVE  StoreTypeOK'
  BY DEF StoreTypeOK, Becomes

LEMMA ActiveStep ==
  ASSUME StoreTypeOK, ActiveInv, NEW p \in Procs, NEW o, Becomes(p, o),
         o # Idle => p \in active
  PROVE  ActiveInv'
<1>1. op'[p] = o /\ \A q \in Procs : q # p => op'[q] = op[q]
  BY OpsAfter
<1> QED
  BY <1>1 DEF ActiveInv, Becomes

\* What a step may do to the record and to the written ones.
Kept     == record' = record /\ written' = written
Removed  == record' = NoRecord /\ written' = written
Replaced == record' \in Records /\ written' = written \union {record'}

LEMMA OwnStep ==
  ASSUME StoreTypeOK, OwnInv, NEW p \in Procs, NEW o, Becomes(p, o),
         Made(o) => o.rec.own /\ Coded(o.rec),
         Kept \/ Removed \/ (Replaced /\ record'.own /\ Coded(record'))
  PROVE  OwnInv'
<1>1. op'[p] = o /\ \A q \in Procs : q # p => op'[q] = op[q]
  BY OpsAfter
<1>2. \A q \in Procs : Made(op'[q]) => op'[q].rec.own /\ Coded(op'[q].rec)
  BY <1>1 DEF OwnInv
<1>3. /\ record' # NoRecord => Coded(record')
      /\ record' # NoRecord /\ ~record'.own => written' = {}
      /\ \A r \in written' : r.own /\ Coded(r)
  BY DEF OwnInv, Kept, Removed, Replaced
<1> QED
  BY <1>2, <1>3 DEF OwnInv, Coded, PhoneAttested, PhonesOf, Made

\* The other commands, when only one is active.
LEMMA OthersIdle ==
  ASSUME StoreTypeOK, ActiveInv, Alone, NEW p \in Procs, p \in active,
         NEW q \in Procs, q # p
  PROVE  op[q] = Idle
<1>1. active \subseteq Procs
  BY DEF StoreTypeOK
<1>2. q \in active => q = p
  BY <1>1, OneActive
<1> QED
  BY <1>2 DEF ActiveInv

LEMMA IdleMakesNothing == ~Made(Idle)
  BY IdleIsNone DEF Made

LEMMA StrangerStep ==
  ASSUME StoreTypeOK, ActiveInv, StrangerInv, NEW p \in Procs, p \in active,
         NEW o, Becomes(p, o),
         Alone => /\ Made(o) => Stranger \notin PhonesOf(o.rec)
                  /\ (o # Idle /\ o.at = "load" /\ (record' = NoRecord \/ record'.own))
                       => Stranger \notin PhonesOf(o.rec)
                  /\ Kept \/ Removed \/ (Replaced /\ Stranger \notin PhonesOf(record'))
  PROVE  StrangerInv'
<1> SUFFICES ASSUME Alone
             PROVE  /\ record' # NoRecord /\ record'.own => Stranger \notin PhonesOf(record')
                    /\ \A r \in written' : Stranger \notin PhonesOf(r)
                    /\ \A q \in Procs :
                         /\ Made(op'[q]) => Stranger \notin PhonesOf(op'[q].rec)
                         /\ (op'[q] # Idle /\ op'[q].at = "load"
                              /\ (record' = NoRecord \/ record'.own))
                              => Stranger \notin PhonesOf(op'[q].rec)
  <2>1. Alone' <=> Alone
    BY DEF Alone, Becomes
  <2> QED
    BY <2>1 DEF StrangerInv, At, Made, PhonesOf
<1>1. op'[p] = o /\ \A q \in Procs : q # p => op'[q] = Idle
  BY OpsAfter, OthersIdle
<1>2. \A q \in Procs :
        /\ Made(op'[q]) => Stranger \notin PhonesOf(op'[q].rec)
        /\ (op'[q] # Idle /\ op'[q].at = "load"
             /\ (record' = NoRecord \/ record'.own))
             => Stranger \notin PhonesOf(op'[q].rec)
  BY <1>1, IdleMakesNothing
<1>3. /\ record' # NoRecord /\ record'.own => Stranger \notin PhonesOf(record')
      /\ \A r \in written' : Stranger \notin PhonesOf(r)
  BY DEF StrangerInv, Kept, Removed, Replaced
<1> QED
  BY <1>2, <1>3

\* What the sole command may rely on.
LEMMA SoleHas ==
  ASSUME StoreTypeOK, ActiveInv, SoleInv, Alone, putBack = 0,
         NEW p \in Procs, p \in active
  PROVE  /\ op[p] # Idle => Reached(op[p])
         /\ GenerationsInv
         /\ (~cut /\ machineId # 0 /\ ~BetweenIds(op[p]))
              => record # NoRecord /\ machineId = record.ref
<1>1. \A q \in Procs : q # p => op[q] = Idle
  BY OthersIdle
<1>2. (\A q \in Procs : ~BetweenIds(op[q])) <=> ~BetweenIds(op[p])
  BY <1>1 DEF BetweenIds
<1> QED
  BY <1>2 DEF SoleInv, MachineIdInv

LEMMA SoleStep ==
  ASSUME StoreTypeOK, ActiveInv, NEW p \in Procs, p \in active,
         NEW o, Becomes(p, o), putBack' = putBack,
         (Alone /\ putBack = 0) =>
           /\ o # Idle => Reached(o)'
           /\ GenerationsInv'
           /\ (~cut' /\ machineId' # 0 /\ ~BetweenIds(o))
                => record' # NoRecord /\ machineId' = record'.ref
  PROVE  SoleInv'
<1> SUFFICES ASSUME Alone, putBack = 0
             PROVE  /\ \A q \in Procs : op'[q] # Idle => Reached(op[q])'
                    /\ GenerationsInv' /\ MachineIdInv'
  BY DEF SoleInv, Alone, Becomes
<1>1. op'[p] = o /\ \A q \in Procs : q # p => op'[q] = Idle
  BY OpsAfter, OthersIdle
<1>2. ASSUME NEW q \in Procs, op'[q] # Idle PROVE Reached(op[q])'
  <2>1. q = p /\ op'[q] = o
    BY <1>1, <1>2
  <2>2. Reached(o)'
    BY <1>2, <2>1
  <2> QED
    BY <2>1, <2>2 DEF Reached
<1>3. MachineIdInv'
  <2>1. (\A q \in Procs : ~BetweenIds(op[q])') => ~BetweenIds(o)
    BY <1>1 DEF BetweenIds
  <2> QED
    BY <2>1 DEF MachineIdInv
<1> QED
  BY <1>2, <1>3

LEMMA MadeIs ==
  /\ \A o \in Approving : Made(o) /\ o \in Ops /\ o # Idle
  /\ \A o \in Enrolling : (Made(o) <=> o.at # "load") /\ o \in Ops /\ o # Idle
  /\ \A o \in Deleting : ~Made(o) /\ o \in Ops /\ o # Idle
<1>1. \A o \in Deleting : o \notin Approving /\ o \notin Enrolling
  BY DEF Deleting, Approving, Enrolling
<1>2. \A o \in Enrolling : o \notin Approving
  BY DEF Approving, Enrolling
<1> QED
  BY <1>1, <1>2, IdleIsNone DEF Made, Ops

LEMMA SealKeeps ==
  ASSUME StoreIInv, NEW p \in Procs, NEW v \in Values, NEW b \in BOOLEAN, NEW bank \in BOOLEAN, Seal(p, v, b, bank)
  PROVE  StoreIInv'
<1> USE DEF StoreIInv
<1>1. PICK o \in Approving :
        /\ Becomes(p, o)
        /\ o.kind = "seal" /\ o.at = "raise" /\ o.rec.own /\ o.rec.gen = 1
        /\ Coded(o.rec)
        /\ \/ PhonesOf(o.rec) = {}
           \/ record # NoRecord /\ record.own /\ PhonesOf(o.rec) = PhonesOf(record)
  BY DoSeal
<1>2. p \in active /\ op[p] = Idle /\ cut' = cut /\ refs' \in Nat /\ UNCHANGED slotVars
  BY DoSeal
<1>3. Kept
  BY <1>2 DEF slotVars, Kept
<1>4. StoreTypeOK'
  BY <1>1, <1>2, TypeStep, MadeIs DEF StoreTypeOK, slotVars
<1>5. ActiveInv'
  BY <1>1, <1>2, ActiveStep
<1>6. OwnInv'
  BY <1>1, <1>3, OwnStep
<1>7. StrangerInv'
  <2>1. Alone => Stranger \notin PhonesOf(o.rec)
    BY <1>1 DEF StrangerInv
  <2> QED
    BY <1>1, <1>2, <1>3, <2>1, StrangerStep
<1>8. SoleInv'
  <2>1. Reached(o)'
    BY <1>1 DEF Reached
  <2>2. ~BetweenIds(op[p])
    BY <1>2 DEF BetweenIds
  <2>3. (Alone /\ putBack = 0) =>
          /\ GenerationsInv
          /\ (~cut /\ machineId # 0) => record # NoRecord /\ machineId = record.ref
    BY <1>2, <2>2, SoleHas
  <2>4. GenerationsInv => GenerationsInv'
    BY <1>2 DEF GenerationsInv, slotVars
  <2>5. putBack' = putBack /\ machineId' = machineId /\ record' = record
    BY <1>2 DEF slotVars
  <2> QED
    BY <1>1, <1>2, <2>1, <2>3, <2>4, <2>5, SoleStep
<1> QED
  BY <1>4, <1>5, <1>6, <1>7, <1>8

LEMMA ResealKeeps ==
  ASSUME StoreIInv, NEW p \in Procs, NEW v \in Values, Reseal(p, v)
  PROVE  StoreIInv'
<1> USE DEF StoreIInv
<1>1. PICK o \in Approving :
        /\ Becomes(p, o)
        /\ o.kind = "approve" /\ o.at = "raise"
        /\ o.rec.own = record.own /\ o.rec.gen = record.gen + 1
        /\ o.rec.totp = record.totp
        /\ PhonesOf(o.rec) = PhonesOf(record)
  BY DoReseal
<1>2. /\ p \in active /\ op[p] = Idle /\ cut' = cut /\ refs' = refs
      /\ record # NoRecord /\ record.own /\ UNCHANGED slotVars
  BY DoReseal
<1>3. Kept
  BY <1>2 DEF slotVars, Kept
<1>4. StoreTypeOK'
  BY <1>1, <1>2, TypeStep, MadeIs DEF StoreTypeOK, slotVars
<1>5. ActiveInv'
  BY <1>1, <1>2, ActiveStep
<1>6. OwnInv'
  <2>1. o.rec.own /\ Coded(o.rec)
    BY <1>1, <1>2 DEF OwnInv, Coded, PhoneAttested
  <2> QED
    BY <1>1, <1>3, <2>1, OwnStep
<1>7. StrangerInv'
  <2>1. Alone => Stranger \notin PhonesOf(o.rec)
    BY <1>1, <1>2 DEF StrangerInv
  <2> QED
    BY <1>1, <1>2, <1>3, <2>1, StrangerStep
<1>8. SoleInv'
  <2>1. Reached(o)'
    BY <1>1, <1>2 DEF Reached, slotVars
  <2>2. ~BetweenIds(op[p])
    BY <1>2 DEF BetweenIds
  <2>3. (Alone /\ putBack = 0) =>
          /\ GenerationsInv
          /\ (~cut /\ machineId # 0) => record # NoRecord /\ machineId = record.ref
    BY <1>2, <2>2, SoleHas
  <2>4. GenerationsInv => GenerationsInv'
    BY <1>2 DEF GenerationsInv, slotVars
  <2>5. putBack' = putBack /\ machineId' = machineId /\ record' = record
    BY <1>2 DEF slotVars
  <2> QED
    BY <1>1, <1>2, <2>1, <2>3, <2>4, <2>5, SoleStep
<1> QED
  BY <1>4, <1>5, <1>6, <1>7, <1>8

LEMMA WriteGenerationKeeps ==
  ASSUME StoreIInv, NEW p \in Procs, WriteGeneration(p)
  PROVE  StoreIInv'
<1> USE DEF StoreIInv
<1>1. PICK o \in Approving : /\ Becomes(p, o) /\ o.kind = op[p].kind
                             /\ o.at = "approved" /\ o.rec = op[p].rec
  BY DoWriteGeneration
<1>2. /\ op[p] \in Approving /\ op[p].at = "raise" /\ cut' = cut
      /\ gen' = op[p].rec.gen
      /\ UNCHANGED <<record, refs, counter, top, machineId, written, putBack>>
  BY DoWriteGeneration
<1>3. \/ op[p].kind = "seal" /\ approvals' = {} /\ revoked' = {}
      \/ op[p].kind # "seal" /\ revoked' = approvals /\ approvals' = approvals
  BY DoWriteGeneration
<1>4. Kept
  BY <1>2 DEF Kept
<1>5. p \in active
  BY <1>2, MadeIs DEF ActiveInv
<1>6. op[p].rec \in Records /\ op[p].rec.gen \in Nat \ {0}
  BY <1>2 DEF Approving, Records
<1>7. StoreTypeOK'
  BY <1>1, <1>2, <1>6, TypeStep, MadeIs DEF StoreTypeOK
<1>8. ActiveInv'
  BY <1>1, <1>5, ActiveStep
<1>9. op[p].rec.own /\ Coded(op[p].rec)
  BY <1>2, MadeIs DEF OwnInv
<1>10. OwnInv'
  BY <1>1, <1>4, <1>9, OwnStep
<1>11. StrangerInv'
  <2>1. Alone => Stranger \notin PhonesOf(o.rec)
    BY <1>1, <1>2, MadeIs DEF StrangerInv
  <2> QED
    BY <1>1, <1>4, <1>5, <2>1, StrangerStep
<1>12. SoleInv'
  <2> SUFFICES ASSUME Alone, putBack = 0
               PROVE  /\ Reached(o)'
                      /\ GenerationsInv'
                      /\ (~cut' /\ machineId' # 0 /\ ~BetweenIds(o))
                           => record' # NoRecord /\ machineId' = record'.ref
    BY <1>1, <1>2, <1>5, SoleStep
  <2>1. Reached(op[p]) /\ GenerationsInv
    BY <1>2, <1>5, MadeIs, SoleHas
  <2>2. (~cut /\ machineId # 0) => record # NoRecord /\ machineId = record.ref
    BY <1>2, <1>5, SoleHas DEF BetweenIds
  <2>3. CASE op[p].kind = "seal"
    <3>1. approvals' = {} /\ revoked' = {}
      BY <1>3, <2>3
    <3>2. Reached(o)'
      BY <1>1, <1>2, <2>3, <3>1 DEF Reached
    <3>3. GenerationsInv'
      BY <3>1 DEF GenerationsInv
    <3> QED
      BY <1>2, <2>2, <3>2, <3>3
  <2>4. CASE op[p].kind # "seal"
    <3>1. approvals' = approvals /\ revoked' = approvals
      BY <1>3, <2>4
    <3>2. record # NoRecord /\ op[p].rec.gen = record.gen + 1
      BY <1>2, <2>1, <2>4 DEF Reached
    <3>3. Reached(o)'
      BY <1>1, <1>2, <2>4, <3>2 DEF Reached
    <3>4. record.gen \in Nat
      BY <3>2 DEF StoreTypeOK, Records
    <3>5. GenerationsInv'
      BY <1>2, <2>1, <3>1, <3>2, <3>4 DEF GenerationsInv
    <3> QED
      BY <1>2, <2>2, <3>3, <3>5
  <2> QED
    BY <2>3, <2>4
<1> QED
  BY <1>7, <1>8, <1>10, <1>11, <1>12

\* A write leaves the written record there.
LEMMA StoredReplaces ==
  ASSUME NEW r \in Records, Stored(r)
  PROVE  /\ Replaced /\ record' = r
         /\ approvals' = approvals \union {Approval(r)} /\ Approval(r)[2] = r.gen
         /\ r.gen \in Nat \ {0}
<1>1. r.gen \in Nat \ {0}
  BY DEF Records
<1> QED
  BY <1>1 DEF Stored, Replaced, Approval

LEMMA WriteApprovedKeeps ==
  ASSUME StoreIInv, NEW p \in Procs, WriteApproved(p)
  PROVE  StoreIInv'
<1> USE DEF StoreIInv
<1>1. PICK o \in Approving : /\ Becomes(p, o) /\ o.kind = op[p].kind
                             /\ o.at = "id" /\ o.rec = op[p].rec
  BY DoWriteApproved
<1>2. /\ op[p] \in Approving /\ op[p].at = "approved" /\ cut' = cut
      /\ Stored(op[p].rec)
      /\ UNCHANGED <<refs, machineId, gen, counter, top, revoked, putBack>>
  BY DoWriteApproved
<1>3. op[p].rec \in Records
  BY <1>2 DEF Approving
<1>4. /\ Replaced /\ record' = op[p].rec
      /\ approvals' = approvals \union {Approval(op[p].rec)}
      /\ Approval(op[p].rec)[2] = op[p].rec.gen /\ op[p].rec.gen \in Nat \ {0}
  BY <1>2, <1>3, StoredReplaces
<1>5. p \in active
  BY <1>2, MadeIs DEF ActiveInv
<1>6. StoreTypeOK'
  BY <1>1, <1>2, <1>3, <1>4, TypeStep, MadeIs DEF StoreTypeOK, Replaced
<1>7. ActiveInv'
  BY <1>1, <1>5, ActiveStep
<1>8. OwnInv'
  <2>1. op[p].rec.own /\ Coded(op[p].rec)
    BY <1>2, MadeIs DEF OwnInv
  <2>2. record'.own /\ Coded(record')
    BY <1>4, <2>1 DEF Coded, PhoneAttested, PhonesOf
  <2> QED
    BY <1>1, <1>4, <2>1, <2>2, OwnStep
<1>9. StrangerInv'
  <2>1. Alone => Stranger \notin PhonesOf(op[p].rec)
    BY <1>2, MadeIs DEF StrangerInv
  <2>2. Alone => Stranger \notin PhonesOf(record')
    BY <1>4, <2>1
  <2> QED
    BY <1>1, <1>4, <1>5, <2>1, <2>2, StrangerStep
<1>10. SoleInv'
  <2> SUFFICES ASSUME Alone, putBack = 0
               PROVE  Reached(o)' /\ GenerationsInv'
    BY <1>1, <1>2, <1>5, MadeIs, SoleStep DEF BetweenIds
  <2>1. Reached(op[p]) /\ GenerationsInv
    BY <1>2, <1>5, MadeIs, SoleHas
  <2>2. gen = op[p].rec.gen
    BY <1>2, <2>1 DEF Reached
  <2>3. Reached(o)'
    BY <1>1, <1>2, <1>4, <2>2 DEF Reached
  <2>4. CASE op[p].kind = "seal"
    <3>1. approvals = {} /\ revoked = {}
      BY <1>2, <2>1, <2>4 DEF Reached
    <3> QED
      BY <1>2, <1>4, <2>3, <3>1 DEF GenerationsInv
  <2>5. CASE op[p].kind # "seal"
    <3>1. record # NoRecord /\ op[p].rec.gen = record.gen + 1
      BY <1>2, <2>1, <2>5 DEF Reached
    <3>2. record.gen \in Nat
      BY <3>1 DEF StoreTypeOK, Records
    <3>3. \A a \in approvals' : a[2] \in Nat /\ a[2] <= op[p].rec.gen
      BY <1>4, <2>1, <3>1, <3>2 DEF GenerationsInv
    <3> QED
      BY <1>2, <1>4, <2>1, <2>3, <3>3 DEF GenerationsInv
  <2> QED
    BY <2>4, <2>5
<1> QED
  BY <1>6, <1>7, <1>8, <1>9, <1>10

LEMMA KeepMachineIDKeeps ==
  ASSUME StoreIInv, NEW p \in Procs, KeepMachineID(p)
  PROVE  StoreIInv'
<1> USE DEF StoreIInv
<1>1. /\ op[p] \in Approving /\ op[p].at = "id" /\ cut' = FALSE
      /\ machineId' = IF record = NoRecord THEN machineId ELSE record.ref
      /\ UNCHANGED <<record, refs, gen, counter, top, written, approvals, revoked, putBack>>
      /\ Becomes(p, Idle)
  BY DoKeepMachineID
<1>2. Kept
  BY <1>1 DEF Kept
<1>3. p \in active
  BY <1>1, MadeIs DEF ActiveInv
<1>4. StoreTypeOK'
  <2>1. record # NoRecord => record.ref \in Nat
    BY DEF StoreTypeOK, Records
  <2>2. machineId' \in Nat
    BY <1>1, <2>1 DEF StoreTypeOK
  <2>3. Idle \in Ops
    BY DEF Ops
  <2> QED
    BY <1>1, <2>2, <2>3, TypeStep DEF StoreTypeOK
<1>5. ActiveInv'
  BY <1>1, <1>3, ActiveStep
<1>6. OwnInv'
  BY <1>1, <1>2, IdleMakesNothing, OwnStep
<1>7. StrangerInv'
  BY <1>1, <1>2, <1>3, IdleMakesNothing, StrangerStep
<1>8. SoleInv'
  <2> SUFFICES ASSUME Alone, putBack = 0
               PROVE  /\ GenerationsInv'
                      /\ record' # NoRecord /\ machineId' = record'.ref
    BY <1>1, <1>3, SoleStep
  <2>1. Reached(op[p]) /\ GenerationsInv
    BY <1>1, <1>3, MadeIs, SoleHas
  <2>2. record = op[p].rec
    BY <1>1, <2>1 DEF Reached
  <2>3. record # NoRecord
    BY <1>1, <2>2, RecordIsNotNone DEF Approving
  <2>4. GenerationsInv'
    BY <1>1, <2>1 DEF GenerationsInv
  <2> QED
    BY <1>1, <2>3, <2>4
<1> QED
  BY <1>4, <1>5, <1>6, <1>7, <1>8

LEMMA EnrolKeeps ==
  ASSUME StoreIInv, NEW p \in Procs, Enrol(p)
  PROVE  StoreIInv'
<1> USE DEF StoreIInv
<1>1. PICK o \in Enrolling :
        /\ Becomes(p, o) /\ o.at = "load"
        /\ PhonesOf(o.rec) \subseteq PhonesOf(record) \union Phones
  BY DoEnrol
<1>2. /\ p \in active /\ op[p] = Idle /\ cut' = cut /\ refs' = refs
      /\ record # NoRecord /\ UNCHANGED slotVars
  BY DoEnrol
<1>3. Kept
  BY <1>2 DEF slotVars, Kept
<1>4. StoreTypeOK'
  BY <1>1, <1>2, TypeStep, MadeIs DEF StoreTypeOK, slotVars
<1>5. ActiveInv'
  BY <1>1, <1>2, ActiveStep
<1>6. ~Made(o)
  BY <1>1, MadeIs
<1>7. OwnInv'
  BY <1>1, <1>3, <1>6, OwnStep
<1>8. StrangerInv'
  <2>1. Alone /\ record.own => Stranger \notin PhonesOf(o.rec)
    BY <1>1, <1>2, StrangerAssumption DEF StrangerInv
  <2>2. record' = record
    BY <1>3 DEF Kept
  <2> QED
    BY <1>1, <1>2, <1>3, <1>6, <2>1, <2>2, StrangerStep
<1>9. SoleInv'
  <2>1. Reached(o)'
    BY <1>1 DEF Reached
  <2>2. ~BetweenIds(op[p])
    BY <1>2 DEF BetweenIds
  <2>3. (Alone /\ putBack = 0) =>
          /\ GenerationsInv
          /\ (~cut /\ machineId # 0) => record # NoRecord /\ machineId = record.ref
    BY <1>2, <2>2, SoleHas
  <2>4. GenerationsInv => GenerationsInv'
    BY <1>2 DEF GenerationsInv, slotVars
  <2>5. putBack' = putBack /\ machineId' = machineId /\ record' = record
    BY <1>2 DEF slotVars
  <2> QED
    BY <1>1, <1>2, <2>1, <2>3, <2>4, <2>5, SoleStep
<1> QED
  BY <1>4, <1>5, <1>7, <1>8, <1>9

LEMMA WriteAttestKeeps ==
  ASSUME StoreIInv, NEW p \in Procs, writeAttestBlob(p)
  PROVE  StoreIInv'
<1> USE DEF StoreIInv
<1>1. PICK o \in Enrolling :
        /\ Becomes(p, o) /\ o.kind = op[p].kind /\ o.at = "store"
        /\ o.rec.own /\ o.rec.ref = record.ref /\ o.rec.gen = record.gen
        /\ Coded(o.rec)
        /\ PhonesOf(o.rec) = PhonesOf(op[p].rec)
        /\ o.rec.att = NoAtt \/ o.rec.att.count = counter' + 1
  BY DoWriteAttestBlob
<1>2. /\ op[p] \in Enrolling /\ op[p].at = "load" /\ cut' = cut
      /\ record # NoRecord /\ record.own
      /\ counter' \in Nat /\ top' \in Nat /\ counter' > 0
      /\ UNCHANGED <<record, refs, gen, machineId, written, approvals, revoked, putBack>>
  BY DoWriteAttestBlob
<1>3. Kept
  BY <1>2 DEF Kept
<1>4. p \in active /\ op[p] # Idle
  BY <1>2, MadeIs DEF ActiveInv
<1>5. StoreTypeOK'
  BY <1>1, <1>2, TypeStep, MadeIs DEF StoreTypeOK
<1>6. ActiveInv'
  BY <1>1, <1>4, ActiveStep
<1>7. OwnInv'
  BY <1>1, <1>3, OwnStep
<1>8. StrangerInv'
  <2>1. Alone => Stranger \notin PhonesOf(o.rec)
    BY <1>1, <1>2, <1>4 DEF StrangerInv, At
  <2> QED
    BY <1>1, <1>3, <1>4, <2>1, StrangerStep
<1>9. SoleInv'
  <2>1. Reached(o)'
    BY <1>1, <1>2 DEF Reached
  <2>2. ~BetweenIds(op[p])
    BY <1>2 DEF BetweenIds
  <2>3. (Alone /\ putBack = 0) =>
          /\ GenerationsInv
          /\ (~cut /\ machineId # 0) => record # NoRecord /\ machineId = record.ref
    BY <1>4, <2>2, SoleHas
  <2>4. GenerationsInv => GenerationsInv'
    BY <1>2 DEF GenerationsInv
  <2> QED
    BY <1>1, <1>2, <1>4, <2>1, <2>3, <2>4, SoleStep
<1> QED
  BY <1>5, <1>6, <1>7, <1>8, <1>9

LEMMA WriteRecordKeeps ==
  ASSUME StoreIInv, NEW p \in Procs, WriteRecord(p)
  PROVE  StoreIInv'
<1> USE DEF StoreIInv
<1>1. PICK o \in Enrolling : Becomes(p, o) /\ o.at = "bump" /\ o.rec = op[p].rec
  BY DoWriteRecord
<1>2. /\ op[p] \in Enrolling /\ op[p].at = "store" /\ cut' = cut
      /\ Stored(op[p].rec)
      /\ UNCHANGED <<refs, machineId, gen, counter, top, revoked, putBack>>
  BY DoWriteRecord
<1>3. op[p].rec \in Records
  BY <1>2 DEF Enrolling
<1>4. /\ Replaced /\ record' = op[p].rec
      /\ approvals' = approvals \union {Approval(op[p].rec)}
      /\ Approval(op[p].rec)[2] = op[p].rec.gen /\ op[p].rec.gen \in Nat \ {0}
  BY <1>2, <1>3, StoredReplaces
<1>5. p \in active /\ op[p] # Idle
  BY <1>2, MadeIs DEF ActiveInv
<1>6. StoreTypeOK'
  BY <1>1, <1>2, <1>3, <1>4, TypeStep, MadeIs DEF StoreTypeOK, Replaced
<1>7. ActiveInv'
  BY <1>1, <1>5, ActiveStep
<1>8. OwnInv'
  <2>1. op[p].rec.own /\ Coded(op[p].rec)
    BY <1>2, MadeIs DEF OwnInv
  <2>2. record'.own /\ Coded(record')
    BY <1>4, <2>1 DEF Coded, PhoneAttested, PhonesOf
  <2> QED
    BY <1>1, <1>4, <2>1, <2>2, OwnStep
<1>9. StrangerInv'
  <2>1. Alone => Stranger \notin PhonesOf(op[p].rec)
    BY <1>2, MadeIs DEF StrangerInv
  <2>2. Alone => Stranger \notin PhonesOf(record')
    BY <1>4, <2>1
  <2> QED
    BY <1>1, <1>4, <1>5, <2>1, <2>2, StrangerStep
<1>10. SoleInv'
  <2> SUFFICES ASSUME Alone, putBack = 0
               PROVE  /\ Reached(o)' /\ GenerationsInv'
                      /\ (~cut' /\ machineId' # 0)
                           => record' # NoRecord /\ machineId' = record'.ref
    BY <1>1, <1>2, <1>5, SoleStep
  <2>1. Reached(op[p]) /\ GenerationsInv
    BY <1>5, SoleHas
  <2>2. /\ record # NoRecord
        /\ op[p].rec.ref = record.ref /\ op[p].rec.gen = record.gen
        /\ counter > 0
        /\ op[p].rec.att = NoAtt \/ op[p].rec.att.count = counter + 1
    BY <1>2, <2>1 DEF Reached
  <2>3. Reached(o)'
    BY <1>1, <1>2, <1>4, <2>2 DEF Reached
  <2>4. \A a \in approvals' : a[2] \in Nat /\ a[2] <= op[p].rec.gen
    BY <1>4, <2>1, <2>2 DEF GenerationsInv
  <2>5. GenerationsInv'
    BY <1>2, <1>4, <2>1, <2>4 DEF GenerationsInv
  <2>6. (~cut /\ machineId # 0) => machineId = record.ref
    BY <1>2, <1>5, SoleHas DEF BetweenIds
  <2>7. record' # NoRecord
    BY <1>3, <1>4, RecordIsNotNone
  <2> QED
    BY <1>2, <1>4, <2>2, <2>3, <2>5, <2>6, <2>7
<1> QED
  BY <1>6, <1>7, <1>8, <1>9, <1>10

LEMMA BumpAttestCounterKeeps ==
  ASSUME StoreIInv, NEW p \in Procs, BumpAttestCounter(p)
  PROVE  StoreIInv'
<1> USE DEF StoreIInv
<1>1. PICK o \in Enrolling : Becomes(p, o) /\ o.at = "check" /\ o.rec = op[p].rec
  BY DoBump
<1>2. /\ op[p] \in Enrolling /\ op[p].at = "bump" /\ cut' = cut
      /\ counter' = Raised /\ counter' \in Nat /\ top' \in Nat
      /\ UNCHANGED <<record, refs, gen, machineId, written, approvals, revoked, putBack>>
  BY DoBump
<1>3. Kept
  BY <1>2 DEF Kept
<1>4. p \in active /\ op[p] # Idle
  BY <1>2, MadeIs DEF ActiveInv
<1>5. StoreTypeOK'
  BY <1>1, <1>2, TypeStep, MadeIs DEF StoreTypeOK
<1>6. ActiveInv'
  BY <1>1, <1>4, ActiveStep
<1>7. OwnInv'
  <2>1. op[p].rec.own /\ Coded(op[p].rec)
    BY <1>2, MadeIs DEF OwnInv
  <2> QED
    BY <1>1, <1>3, <2>1, OwnStep
<1>8. StrangerInv'
  <2>1. Alone => Stranger \notin PhonesOf(op[p].rec)
    BY <1>2, MadeIs DEF StrangerInv
  <2> QED
    BY <1>1, <1>3, <1>4, <2>1, StrangerStep
<1>9. SoleInv'
  <2> SUFFICES ASSUME Alone, putBack = 0
               PROVE  /\ Reached(o)' /\ GenerationsInv'
                      /\ (~cut' /\ machineId' # 0)
                           => record' # NoRecord /\ machineId' = record'.ref
    BY <1>1, <1>2, <1>4, SoleStep
  <2>1. Reached(op[p]) /\ GenerationsInv
    BY <1>4, SoleHas
  <2>2. /\ record = op[p].rec /\ counter > 0
        /\ op[p].rec.att = NoAtt \/ op[p].rec.att.count = counter + 1
    BY <1>2, <2>1 DEF Reached
  <2>3. counter \in Nat
    BY DEF StoreTypeOK
  <2>4. counter' = counter + 1 /\ counter' > 0
    BY <1>2, <2>2, <2>3 DEF Raised
  <2>5. Reached(o)'
    BY <1>1, <1>2, <2>2, <2>4 DEF Reached
  <2>6. GenerationsInv'
    BY <1>2, <2>1 DEF GenerationsInv
  <2>7. (~cut /\ machineId # 0) => record # NoRecord /\ machineId = record.ref
    BY <1>2, <1>4, SoleHas DEF BetweenIds
  <2> QED
    BY <1>2, <2>5, <2>6, <2>7
<1> QED
  BY <1>5, <1>6, <1>7, <1>8, <1>9

\* The steps that only end a command, or start one that removes the slot.
LEMMA ReadBackKeeps ==
  ASSUME StoreIInv, NEW p \in Procs, ReadBack(p)
  PROVE  StoreIInv'
<1> USE DEF StoreIInv
<1>1. /\ op[p] \in Enrolling /\ op[p].at = "check" /\ (~cut' => ~cut)
      /\ refs' = refs /\ UNCHANGED slotVars /\ Becomes(p, Idle)
  BY DoReadBack
<1>2. Kept /\ Idle \in Ops
  BY <1>1 DEF slotVars, Kept, Ops
<1>3. p \in active
  BY <1>1, MadeIs DEF ActiveInv
<1>4. StoreTypeOK'
  BY <1>1, <1>2, TypeStep DEF StoreTypeOK, slotVars
<1>5. ActiveInv'
  BY <1>1, ActiveStep
<1>6. OwnInv'
  BY <1>1, <1>2, IdleMakesNothing, OwnStep
<1>7. StrangerInv'
  BY <1>1, <1>2, <1>3, IdleMakesNothing, StrangerStep
<1>8. SoleInv'
  <2>1. ~BetweenIds(op[p])
    BY <1>1 DEF BetweenIds
  <2>2. (Alone /\ putBack = 0) =>
          /\ GenerationsInv
          /\ (~cut /\ machineId # 0) => record # NoRecord /\ machineId = record.ref
    BY <1>3, <2>1, SoleHas
  <2>3. GenerationsInv => GenerationsInv'
    BY <1>1 DEF GenerationsInv, slotVars
  <2>4. putBack' = putBack /\ machineId' = machineId /\ record' = record
    BY <1>1 DEF slotVars
  <2> QED
    BY <1>1, <1>3, <2>2, <2>3, <2>4, SoleStep
<1> QED
  BY <1>4, <1>5, <1>6, <1>7, <1>8

LEMMA FailKeeps ==
  ASSUME StoreIInv, NEW p \in Procs, Fail(p)
  PROVE  StoreIInv'
<1> USE DEF StoreIInv
<1>1. cut' /\ refs' = refs /\ UNCHANGED slotVars /\ Becomes(p, Idle)
  BY DoFail
<1>2. Kept /\ Idle \in Ops
  BY <1>1 DEF slotVars, Kept, Ops
<1>3. p \in active
  BY DEF ActiveInv, Fail
<1>4. StoreTypeOK'
  BY <1>1, <1>2, TypeStep DEF StoreTypeOK, slotVars
<1>5. ActiveInv'
  BY <1>1, ActiveStep
<1>6. OwnInv'
  BY <1>1, <1>2, IdleMakesNothing, OwnStep
<1>7. StrangerInv'
  BY <1>1, <1>2, <1>3, IdleMakesNothing, StrangerStep
<1>8. SoleInv'
  <2>1. (Alone /\ putBack = 0) => GenerationsInv
    BY <1>3, SoleHas
  <2>2. GenerationsInv => GenerationsInv'
    BY <1>1 DEF GenerationsInv, slotVars
  <2>3. putBack' = putBack
    BY <1>1 DEF slotVars
  <2> QED
    BY <1>1, <1>3, <2>1, <2>2, <2>3, SoleStep
<1> QED
  BY <1>4, <1>5, <1>6, <1>7, <1>8

LEMMA DeleteKeeps ==
  ASSUME StoreIInv, NEW p \in Procs, Delete(p)
  PROVE  StoreIInv'
<1> USE DEF StoreIInv
<1>1. PICK o \in Deleting : Becomes(p, o) /\ o.at = "record"
  BY DoDelete
<1>2. p \in active /\ op[p] = Idle /\ cut' = cut /\ refs' = refs /\ UNCHANGED slotVars
  BY DoDelete
<1>3. Kept /\ ~Made(o) /\ o \in Ops
  BY <1>2, MadeIs DEF slotVars, Kept
<1>4. StoreTypeOK'
  BY <1>1, <1>2, <1>3, TypeStep DEF StoreTypeOK, slotVars
<1>5. ActiveInv'
  BY <1>1, <1>2, ActiveStep
<1>6. OwnInv'
  BY <1>1, <1>3, OwnStep
<1>7. StrangerInv'
  BY <1>1, <1>2, <1>3, StrangerStep
<1>8. SoleInv'
  <2>1. Reached(o)'
    BY <1>1 DEF Reached
  <2>2. ~BetweenIds(op[p])
    BY <1>2 DEF BetweenIds
  <2>3. (Alone /\ putBack = 0) =>
          /\ GenerationsInv
          /\ (~cut /\ machineId # 0) => record # NoRecord /\ machineId = record.ref
    BY <1>2, <2>2, SoleHas
  <2>4. GenerationsInv => GenerationsInv'
    BY <1>2 DEF GenerationsInv, slotVars
  <2>5. putBack' = putBack /\ machineId' = machineId /\ record' = record
    BY <1>2 DEF slotVars
  <2> QED
    BY <1>1, <1>2, <2>1, <2>3, <2>4, <2>5, SoleStep
<1> QED
  BY <1>4, <1>5, <1>6, <1>7, <1>8

\* A step that takes parts of the slot away.
LEMMA RemovalKeeps ==
  ASSUME StoreIInv, NEW p \in Procs, p \in active,
         NEW o \in {Idle} \union Deleting, Becomes(p, o),
         UNCHANGED <<refs, top, written, approvals, revoked, putBack>>,
         record' = record \/ record' = NoRecord,
         gen' = gen \/ gen' = 0,
         counter' = counter \/ counter' = 0,
         machineId' = machineId \/ machineId' = 0,
         (Alone /\ putBack = 0 /\ ~cut' /\ machineId' # 0 /\ ~BetweenIds(o))
           => record' # NoRecord /\ machineId' = record'.ref
  PROVE  StoreIInv'
<1> USE DEF StoreIInv
<1>1. (Kept \/ Removed) /\ ~Made(o) /\ o \in Ops
  BY MadeIs, IdleMakesNothing DEF Kept, Removed, Ops
<1>2. StoreTypeOK'
  BY <1>1, TypeStep DEF StoreTypeOK
<1>3. ActiveInv'
  BY ActiveStep
<1>4. OwnInv'
  BY <1>1, OwnStep
<1>5. StrangerInv'
  <2>1. o # Idle => o.at # "load"
    BY DEF Deleting, DeleteStages
  <2> QED
    BY <1>1, <2>1, StrangerStep
<1>6. SoleInv'
  <2>1. o # Idle => Reached(o)'
    BY DEF Reached, Deleting, DeleteStages
  <2>2. (Alone /\ putBack = 0) => GenerationsInv
    BY SoleHas
  <2>3. GenerationsInv => GenerationsInv'
    BY DEF GenerationsInv
  <2> QED
    BY <2>1, <2>2, <2>3, SoleStep
<1> QED
  BY <1>2, <1>3, <1>4, <1>5, <1>6

LEMMA RemovePartKeeps ==
  ASSUME StoreIInv, NEW p \in Procs, RemovePart(p)
  PROVE  StoreIInv'
<1>1. PICK o \in {Idle} \union Deleting :
        /\ Becomes(p, o)
        /\ \/ o = Idle /\ machineId' = 0
           \/ /\ o # Idle /\ cut' = cut /\ machineId' = machineId
              /\ o.at \in {"gen", "counter", "counterLast", "machineId"}
  BY DoRemovePart DEF StoreIInv
<1>2. /\ op[p] \in Deleting
      /\ UNCHANGED <<refs, top, written, approvals, revoked, putBack>>
      /\ record' = record \/ record' = NoRecord
      /\ gen' = gen \/ gen' = 0
      /\ counter' = counter \/ counter' = 0
  BY DoRemovePart DEF StoreIInv
<1>3. p \in active
  BY <1>2, MadeIs DEF StoreIInv, ActiveInv
<1>4. machineId' = 0 \/ (machineId' = machineId /\ BetweenIds(o))
  BY <1>1 DEF BetweenIds
<1> QED
  BY <1>1, <1>2, <1>3, <1>4, RemovalKeeps

LEMMA PartFailsKeeps ==
  ASSUME StoreIInv, NEW p \in Procs, PartFails(p)
  PROVE  StoreIInv'
<1>1. PICK o \in {Idle} \union Deleting :
        /\ Becomes(p, o)
        /\ \/ o = Idle /\ cut'
           \/ /\ o # Idle /\ cut' = cut
              /\ o.at \in {"gen", "counter", "counterLast", "machineId"}
  BY DoPartFails DEF StoreIInv
<1>2. /\ op[p] \in Deleting
      /\ UNCHANGED <<record, gen, refs, top, machineId, written, approvals, revoked, putBack>>
      /\ counter' = counter \/ counter' = 0
  BY DoPartFails DEF StoreIInv
<1>3. p \in active
  BY <1>2, MadeIs DEF StoreIInv, ActiveInv
<1>4. cut' \/ BetweenIds(o)
  BY <1>1 DEF BetweenIds
<1> QED
  BY <1>1, <1>2, <1>3, <1>4, RemovalKeeps

LEMMA NVRAMDeleteKeeps ==
  ASSUME StoreIInv, NEW p \in Procs, NVRAMDelete(p)
  PROVE  StoreIInv'
<1>1. /\ p \in active /\ op[p] = Idle /\ cut' = cut
      /\ UNCHANGED <<record, refs, top, machineId, written, approvals, revoked, putBack>>
      /\ gen' = gen \/ gen' = 0
      /\ counter' = counter \/ counter' = 0
      /\ Becomes(p, Idle)
  BY DoNVRAMDelete DEF StoreIInv
<1>2. (Alone /\ putBack = 0 /\ ~cut /\ machineId # 0)
        => record # NoRecord /\ machineId = record.ref
  BY <1>1, SoleHas DEF StoreIInv, BetweenIds
<1> QED
  BY <1>1, <1>2, RemovalKeeps

LEMMA PutBackKeeps ==
  ASSUME StoreIInv, PutBack
  PROVE  StoreIInv'
<1> USE DEF StoreIInv
<1>1. PICK r \in written : record' = r
  BY DEF PutBack
<1>2. /\ putBack' = putBack + 1
      /\ UNCHANGED <<refs, tpmVars, machineId, op, active, cut, histVars>>
  BY DEF PutBack
<1>3. r \in Records /\ r.own /\ Coded(r)
  BY DEF StoreTypeOK, OwnInv
<1>4. StoreTypeOK'
  BY <1>1, <1>2, <1>3 DEF StoreTypeOK, tpmVars, histVars
<1>5. ActiveInv'
  BY <1>2 DEF ActiveInv
<1>6. OwnInv'
  <2>1. Coded(record')
    BY <1>1, <1>3
  <2> QED
    BY <1>1, <1>2, <1>3, <2>1 DEF OwnInv, histVars, Coded, PhoneAttested, PhonesOf, Made
<1>7. StrangerInv'
  <2>1. CASE Alone
    <3>1. Stranger \notin PhonesOf(record')
      BY <1>1, <2>1 DEF StrangerInv
    <3>2. ASSUME NEW p \in Procs, At(p, "load") PROVE Stranger \notin PhonesOf(op[p].rec)
      <4>1. record = NoRecord \/ record.own
        BY <1>1 DEF OwnInv
      <4> QED
        BY <2>1, <3>2, <4>1 DEF StrangerInv
    <3> QED
      BY <1>2, <2>1, <3>1, <3>2 DEF StrangerInv, At, Made, PhonesOf, histVars
  <2>2. CASE ~Alone
    BY <1>2, <2>2 DEF StrangerInv, Alone
  <2> QED
    BY <2>1, <2>2
<1>8. SoleInv'
  <2>1. putBack' # 0
    BY <1>2 DEF StoreTypeOK
  <2> QED
    BY <2>1 DEF SoleInv
<1> QED
  BY <1>4, <1>5, <1>6, <1>7, <1>8

LEMMA StutterKeeps == StoreIInv /\ UNCHANGED vars => StoreIInv'
<1> SUFFICES ASSUME StoreIInv, UNCHANGED vars PROVE StoreIInv'
  OBVIOUS
<1> USE DEF StoreIInv, vars
<1>1. StoreTypeOK'
  BY DEF StoreTypeOK
<1>2. ActiveInv'
  BY DEF ActiveInv
<1>3. OwnInv'
  BY DEF OwnInv, Coded, PhoneAttested, PhonesOf, Made
<1>4. StrangerInv'
  BY DEF StrangerInv, Alone, At, Made, PhonesOf
<1>5. SoleInv'
  BY DEF SoleInv, Alone, Reached, GenerationsInv, MachineIdInv, BetweenIds
<1> QED
  BY <1>1, <1>2, <1>3, <1>4, <1>5

LEMMA StoreNext == StoreIInv /\ [Next]_vars => StoreIInv'
<1> SUFFICES ASSUME StoreIInv, [Next]_vars PROVE StoreIInv'
  OBVIOUS
<1>1. CASE UNCHANGED vars
  BY <1>1, StutterKeeps
<1>2. CASE PutBack
  BY <1>2, PutBackKeeps
<1>3. ASSUME NEW p \in Procs,
             \/ \E v \in Values, withTOTP, sameBank \in BOOLEAN : Seal(p, v, withTOTP, sameBank)
             \/ \E v \in Values : Reseal(p, v)
             \/ WriteGeneration(p) \/ WriteApproved(p) \/ KeepMachineID(p)
             \/ Enrol(p) \/ writeAttestBlob(p) \/ WriteRecord(p)
             \/ BumpAttestCounter(p) \/ ReadBack(p)
             \/ Delete(p) \/ RemovePart(p) \/ PartFails(p) \/ NVRAMDelete(p)
             \/ Fail(p)
      PROVE  StoreIInv'
  BY <1>3, SealKeeps, ResealKeeps, WriteGenerationKeeps, WriteApprovedKeeps,
     KeepMachineIDKeeps, EnrolKeeps, WriteAttestKeeps, WriteRecordKeeps,
     BumpAttestCounterKeeps, ReadBackKeeps, DeleteKeeps, RemovePartKeeps,
     PartFailsKeeps, NVRAMDeleteKeeps, FailKeeps
<1> QED
  BY <1>1, <1>2, <1>3 DEF Next

LEMMA StoreInit == Init => StoreIInv
<1> SUFFICES ASSUME Init PROVE StoreIInv
  OBVIOUS
<1>1. op = [p \in Procs |-> Idle] /\ active \subseteq Procs /\ putBack = 0
  BY DEF Init
<1>2. /\ written = {} /\ approvals = {} /\ revoked = {} /\ machineId = 0
      /\ gen \in Nat /\ counter \in Nat /\ top \in Nat /\ refs \in Nat
  <2>1. /\ written = {} /\ approvals = {} /\ revoked = {} /\ machineId = 0
        /\ top = counter
        /\ \/ gen = 0 /\ counter = 0 /\ refs = 0
           \/ gen = 1 /\ counter = 1 /\ refs = 1
    BY DEF Init
  <2> QED
    BY <2>1
<1>3. \/ record = NoRecord
      \/ record \in Records /\ ~record.own /\ ~record.totp
  <2> DEFINE a == Att(1, {Stranger}, FALSE, FALSE, TRUE)
  <2>1. a \in {NoAtt} \union Atts
    BY DEF Att, Atts
  <2>2. record = NoRecord \/ \E v \in Values : record = Rec(FALSE, 1, 1, v, FALSE, a)
    BY DEF Init
  <2> HIDE DEF a
  <2>3. \A v \in Values : LET r == Rec(FALSE, 1, 1, v, FALSE, a)
                          IN r \in Records /\ ~r.own /\ ~r.totp
    BY <2>1 DEF Rec, Records
  <2> QED
    BY <2>2, <2>3
<1>4. \A p \in Procs : op[p] = Idle
  BY <1>1
<1>5. StoreTypeOK
  BY <1>1, <1>2, <1>3 DEF StoreTypeOK, Ops
<1>6. ActiveInv
  BY <1>4 DEF ActiveInv
<1>7. OwnInv
  BY <1>2, <1>3, <1>4, IdleMakesNothing DEF OwnInv, Coded
<1>8. StrangerInv
  BY <1>2, <1>3, <1>4, IdleMakesNothing DEF StrangerInv, At
<1>9. SoleInv
  BY <1>2, <1>4 DEF SoleInv, GenerationsInv, MachineIdInv
<1> QED
  BY <1>5, <1>6, <1>7, <1>8, <1>9 DEF StoreIInv

\* The records, the stages and what holds in them are an invariant: with it
\* the theorems below hold for any number of commands, phones and values.
THEOREM StoreInductive == Spec => []StoreIInv
  BY StoreInit, StoreNext, PTL DEF Spec

\* This key signs no record with phones and a code at once, and while commands
\* do not overlap none that names a phone another key's record brought in
\* (Seal, Reseal, writeAttestBlob).
THEOREM SignsItsOwn == Spec => []SignsOnlyItsOwn
<1>1. StoreIInv => SignsOnlyItsOwn
  <2> SUFFICES ASSUME StoreIInv, NEW r \in written
               PROVE  (Alone => Stranger \notin PhonesOf(r)) /\ ~(PhoneAttested(r) /\ r.totp)
    BY DEF SignsOnlyItsOwn
  <2>1. Coded(r)
    BY DEF StoreIInv, OwnInv
  <2>2. Alone => Stranger \notin PhonesOf(r)
    BY DEF StoreIInv, StrangerInv
  <2> QED
    BY <2>1, <2>2 DEF Coded
<1> QED
  BY <1>1, StoreInductive, PTL

\* Where commands run one at a time, what an approve revoked stays revoked for
\* as long as slot add does not make the slot anew, through commands that were
\* cut short anywhere; and the sealed machine-id follows the record's policy
\* (approveAndWrite, keepMachineID, removeMachineID).
THEOREM WhatFollowsAnApprove == Spec => []ApprovalsFollow
<1>1. StoreIInv => RevokedStaysRevoked
  <2> SUFFICES ASSUME StoreIInv, Alone, putBack = 0, NEW r \in written,
                      Approval(r) \in revoked
               PROVE  ~Opens(r, r.values)
    BY DEF RevokedStaysRevoked
  <2>1. GenerationsInv
    BY DEF StoreIInv, SoleInv
  <2>2. gen > 0 => Approval(r)[2] < gen
    BY <2>1 DEF GenerationsInv
  <2>3. Approval(r)[2] = r.gen
    BY DEF Approval
  <2>4. gen \in Nat
    BY DEF StoreIInv, StoreTypeOK
  <2>5. gen > 0 => r.gen # gen
    BY <2>2, <2>3, <2>4
  <2> QED
    BY <2>5 DEF Opens
<1>2. StoreIInv => MachineIdFollows
  BY DEF StoreIInv, SoleInv, MachineIdInv, MachineIdFollows, BetweenIds
<1> QED
  BY <1>1, <1>2, StoreInductive, PTL DEF ApprovalsFollow

\* A command that ran alone to its end leaves what it says: the approved values
\* open the slot, and the gate serves the enrolment (approveAndWrite,
\* writeAttestBlob, BumpAttestCounter).
THEOREM TheEndHolds == Spec => EndHoldsWhatItSays
<1> DEFINE Ends(p) ==
      (Alone /\ putBack = 0 /\ (At(p, "id") \/ At(p, "check")) /\ op'[p] = Idle) =>
        /\ op[p].kind \in {"seal", "approve"} =>
             \A v \in {op[p].rec.values} : Opens(record, v)'
        /\ (op[p].kind = "enrol" /\ PhoneAttested(op[p].rec)) => Accepted(record)'
<1>1. ASSUME StoreIInv, [Next]_vars, NEW p \in Procs PROVE Ends(p)
  <2> SUFFICES ASSUME StoreIInv, [Next]_vars, Alone, putBack = 0,
                      At(p, "id") \/ At(p, "check"), op'[p] = Idle
               PROVE  /\ op[p].kind \in {"seal", "approve"} =>
                           \A v \in {op[p].rec.values} : Opens(record, v)'
                      /\ (op[p].kind = "enrol" /\ PhoneAttested(op[p].rec)) => Accepted(record)'
    BY <1>1
  <2> USE DEF StoreIInv
  <2>1. StoreTypeOK /\ op[p] # Idle /\ op[p] \in Ops /\ p \in active
    BY DEF StoreTypeOK, At, ActiveInv
  <2>2. Reached(op[p])
    BY <2>1, SoleHas
  \* Only the command's own end makes it idle, and that changes neither the
  \* record nor the TPM.
  <2>3. UNCHANGED <<record, gen, counter>>
    <3>1. CASE UNCHANGED vars
      BY <3>1, <2>1 DEF vars
    <3>2. CASE PutBack
      BY <3>2, <2>1 DEF PutBack
    <3>3. ASSUME NEW q \in Procs,
                 \/ \E v \in Values, withTOTP, sameBank \in BOOLEAN : Seal(q, v, withTOTP, sameBank)
                 \/ \E v \in Values : Reseal(q, v)
                 \/ Enrol(q) \/ Delete(q) \/ NVRAMDelete(q)
          PROVE  FALSE
      <4>1. q \in active /\ op[q] = Idle
        BY <3>3 DEF Seal, Reseal, Enrol, Delete, NVRAMDelete, Start
      <4> QED
        BY <2>1, <4>1, OneActive DEF StoreTypeOK
    <3>4. ASSUME NEW q \in Procs,
                 \/ WriteGeneration(q) \/ WriteApproved(q) \/ KeepMachineID(q)
                 \/ writeAttestBlob(q) \/ WriteRecord(q)
                 \/ BumpAttestCounter(q) \/ ReadBack(q)
                 \/ RemovePart(q) \/ PartFails(q) \/ Fail(q)
          PROVE  UNCHANGED <<record, gen, counter>>
      <4>1. op[q] # Idle
        BY <3>4 DEF WriteGeneration, WriteApproved, KeepMachineID, writeAttestBlob,
                    WriteRecord, BumpAttestCounter, ReadBack, RemovePart, PartFails,
                    Fail, At
      <4>2. q = p
        BY <2>1, <4>1, OneActive DEF StoreTypeOK, ActiveInv
      <4>3. op[p].at \in {"id", "check"}
        BY DEF At
      <4>4. ~(RemovePart(p) \/ PartFails(p))
        <5>1. op[p].kind # "delete"
          BY <2>1, <4>3, OpKinds DEF Deleting, DeleteStages
        <5> QED
          BY <5>1 DEF RemovePart, PartFails
      <4> QED
        BY <3>4, <4>2, <4>3, <4>4
        DEF WriteGeneration, WriteApproved, KeepMachineID, writeAttestBlob,
            WriteRecord, BumpAttestCounter, ReadBack, Fail, At, tpmVars
    <3> QED
      BY <3>1, <3>2, <3>3, <3>4 DEF Next
  <2>4. CASE At(p, "id")
    <3>1. record = op[p].rec /\ gen = op[p].rec.gen
      BY <2>2, <2>4 DEF Reached, At
    <3>2. op[p] \in Approving
      BY <2>1, <2>4, OpKinds DEF At, ApproveStages
    <3>3. record # NoRecord /\ record.gen \in Nat \ {0} /\ op[p].kind # "enrol"
      BY <3>1, <3>2, RecordIsNotNone DEF Approving, Records
    <3>4. \A v \in {op[p].rec.values} : Opens(record, v)'
      BY <2>3, <3>1, <3>3 DEF Opens
    <3> QED
      BY <3>3, <3>4
  <2>5. CASE At(p, "check")
    <3>1. /\ record = op[p].rec /\ counter > 0
          /\ op[p].rec.att = NoAtt \/ op[p].rec.att.count = counter
      BY <2>2, <2>5 DEF Reached, At
    <3>2. op[p] \in Enrolling
      BY <2>1, <2>5, OpKinds DEF At, EnrolStages
    <3>3. op[p].rec \in Records /\ op[p].rec.own /\ op[p].kind = "enrol"
      <4>1. Made(op[p])
        BY <2>5, <3>2, MadeIs DEF At
      <4> QED
        BY <3>2, <4>1 DEF Enrolling, OwnInv
    <3>4. record # NoRecord
      BY <3>1, <3>3, RecordIsNotNone
    <3>5. PhoneAttested(op[p].rec) => op[p].rec.att # NoAtt
      BY <3>3, PhonesOfRecord DEF PhoneAttested
    <3>6. PhoneAttested(op[p].rec) => Accepted(record)'
      BY <2>3, <3>1, <3>3, <3>4, <3>5 DEF Accepted, PhoneAttested, PhonesOf
    <3> QED
      BY <3>3, <3>6
  <2> QED
    BY <2>4, <2>5
<1>2. StoreIInv /\ [Next]_vars => [\A p \in Procs : Ends(p)]_vars
  BY <1>1
<1> QED
  BY <1>2, StoreInductive, PTL DEF Spec, EndHoldsWhatItSays
=============================================================================
