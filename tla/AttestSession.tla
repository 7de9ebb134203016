--------------------------- MODULE AttestSession ---------------------------
(***************************************************************************)
(* One machine and one phone, session after session (core/attest): the     *)
(* machine serves an enrolment (ServeEnrolment), a check of the boot, or   *)
(* a check that gives the phone a salt to keep (ServeAttestation, run by   *)
(* 'phone salt enrol|rotate'); the phone is the Verifier with the person   *)
(* before it.  Records are sealed with a counter, so they arrive in order  *)
(* or not at all: the link may break at any moment, and what is in flight  *)
(* then is lost from some record on.  A key, a nonce, a channel binding of *)
(* session n is n; a digest is what it is the digest of.                   *)
(***************************************************************************)
EXTENDS Naturals, Sequences

CONSTANTS
  Values,       \* boot states, as the selected PCRs show them
  Chunks,       \* records an event log takes
  MaxSession,   \* bound: sessions
  MaxResets     \* bound: the TPM's reset count

ASSUME SessionAssumption ==
  Values # {} /\ Chunks \in Nat \ {0} /\ MaxSession \in Nat /\ MaxResets \in Nat

VARIABLES
  session,   \* the session's number
  link,      \* the connection is up
  up, down,  \* records under way to the machine, to the phone
  boot,      \* the running boot: its state and the TPM's reset count
  enrolled,  \* the machine's enrolled verifiers (their session's number)
  keySalt,   \* the salt the disk's keyslot was made from, or 0
  mkind, mst, mach,   \* the machine: what it serves, where it is, what it has
  pkind, vst, phone,  \* the phone: what it runs, vstate, the Verifier's fields
  rec,       \* the phone's MachineRecord, or NoRecord
  agreed     \* history: <<n, who>>: who confirmed session n's code

sessionVars == <<session, link, up, down, boot, enrolled, keySalt, mkind, mst,
                 mach, pkind, vst, phone, rec, agreed>>
machineVars == <<enrolled, keySalt, mkind, mst, mach>>
phoneVars   == <<pkind, vst, phone, rec>>
worldVars   == <<session, boot, agreed>>

NoRecord == [key |-> 0]
Msg(t) == [type |-> t]
NoMach == [answer |-> "none", taken |-> 0, returned |-> FALSE, seed |-> 0]
NoPhone == [verdict |-> [state |-> "none"], receipt |-> "none", remember |-> FALSE,
            keep |-> 0, keyboard |-> FALSE, log |-> FALSE, asked |-> FALSE,
            got |-> 0, layout |-> 0, shown |-> 0, why |-> "none"]
Trusted(verdict) == verdict \in {"ok", "approved"}

----------------------------------------------------------------------------
(* The machine. *)

\* SendMsg: an error when the link is gone, and the session is over.
MSends(msgs, next) ==
  IF link THEN down' = down \o msgs /\ mst' = next
  ELSE mst' = "over" /\ UNCHANGED down

\* SendError, and the error returned.
MFails ==
  /\ mst' = "over"
  /\ down' = IF link THEN Append(down, Msg("error")) ELSE down

\* RecvMsg: the next record; an error of the peer, or of the link, is the end.
MReceives(t) == up # <<>> /\ Head(up).type = t /\ up' = Tail(up)

RecvWaitsOn ==
  /\ mst \notin {"idle", "over", "person"}
  /\ MReceives("error")
  /\ mst' = "over"
  /\ UNCHANGED <<link, down, worldVars, phoneVars, enrolled, keySalt, mkind, mach>>
RecvMsgFails ==
  /\ mst \notin {"idle", "over", "person"}
  /\ \/ up = <<>> /\ ~link /\ UNCHANGED up
     \/ MReceives("error")
  /\ mst' = "over"
  /\ UNCHANGED <<link, down, worldVars, phoneVars, enrolled, keySalt, mkind, mach>>

\* AcceptHandshake: its kind of handshake alone; the other is told so in the
\* clear.  A check is for an enrolled phone alone (allow).
AcceptHandshake ==
  /\ mst = "hs1" /\ up # <<>> /\ Head(up).type \in {"XX", "IK"} /\ up' = Tail(up)
  /\ \/ /\ mkind = "enrol" /\ Head(up).type = "XX"
        /\ MSends(<<Msg("XX")>>, "hs3")
     \/ /\ mkind # "enrol" /\ Head(up).type = "IK" /\ Head(up).key \in enrolled
        /\ MSends(<<Msg("IK"), [type |-> "hello", nonceA |-> session]>>, "request")
     \/ /\ mkind # "enrol" /\ Head(up).type = "IK" /\ Head(up).key \notin enrolled
        /\ mst' = "over" /\ UNCHANGED down
     \/ /\ (mkind = "enrol") # (Head(up).type = "XX")
        /\ mst' = "over"
        /\ down' = IF link THEN Append(down, Msg("plain")) ELSE down
  /\ UNCHANGED <<link, worldVars, phoneVars, enrolled, keySalt, mkind, mach>>

\* ServeEnrolment up to the code on the screen.
ServeSAS ==
  /\ \/ mst = "hs3" /\ MReceives("XX")
        /\ MSends(<<[type |-> "sasCommit", nonceM |-> session]>>, "sasNonce")
     \/ mst = "sasNonce" /\ MReceives("sasNonce")
        /\ MSends(<<[type |-> "sasReveal", nonceM |-> session]>>, "person")
  /\ UNCHANGED <<link, worldVars, phoneVars, enrolled, keySalt, mkind, mach>>

\* be.ConfirmSAS: the person at the machine.
MachineConfirmSAS(yes) ==
  /\ mst = "person"
  /\ IF yes THEN mst' = "sasConfirm" /\ agreed' = agreed \union {<<session, "machine">>}
                 /\ UNCHANGED down
     ELSE MFails /\ UNCHANGED agreed
  /\ UNCHANGED <<link, up, session, boot, phoneVars, enrolled, keySalt, mkind, mach>>

\* The EK, the baseline quote and the boot key; the credential.
ServeOffer(tpm) ==
  /\ \/ mst = "sasConfirm" /\ MReceives("sasConfirm")
        /\ IF tpm THEN MSends(<<[type |-> "offer", val |-> boot.val, resets |-> boot.resets]>>,
                              "challenge")
           ELSE MFails
     \/ mst = "challenge" /\ MReceives("challenge")
        /\ IF tpm THEN MSends(<<[type |-> "response", secret |-> Head(up).secret]>>, "accept")
           ELSE MFails
  /\ UNCHANGED <<link, worldVars, phoneVars, enrolled, keySalt, mkind, mach>>

\* The anchor of the phone is judged and stored; a confirmation that cannot be
\* sent leaves it stored.
ServeCommit(stores) ==
  /\ mst = "accept" /\ MReceives("accept")
  /\ IF stores
     THEN /\ enrolled' = enrolled \union {Head(up).anchor}
          /\ MSends(<<[type |-> "confirm", anchor |-> Head(up).anchor]>>, "last")
     ELSE MFails /\ UNCHANGED enrolled
  /\ UNCHANGED <<link, worldVars, phoneVars, keySalt, mkind, mach>>

\* ServeAttestation: the quote over the request's nonce, the boot key's proof,
\* the salt to keep.  q: what is wrong with quote or proof, if anything is.
Evidence(q, keyboard, log) ==
  [type |-> "evidence", qd |-> session, quote |-> q, val |-> boot.val,
   resets |-> boot.resets, log |-> log,
   keep |-> IF mkind = "keep" THEN session ELSE 0,
   keyboard |-> mkind = "keep" /\ keyboard]

ServeQuote(tpm, q, keyboard, log) ==
  /\ mst = "request" /\ MReceives("request")
  /\ IF tpm THEN MSends(<<Evidence(q, keyboard, log)>>, "serve") ELSE MFails
  /\ UNCHANGED <<link, worldVars, phoneVars, enrolled, keySalt, mkind, mach>>

\* sendEventlog.
ServeEventlog ==
  /\ mst = "serve" /\ MReceives("logRequest")
  /\ MSends([i \in 1..Chunks |-> [type |-> "chunk", offset |-> i - 1]], "serve")
  /\ UNCHANGED <<link, worldVars, phoneVars, enrolled, keySalt, mkind, mach>>

\* CheckReceipt (JudgeReceipt): of this session's quote, signed by the anchor
\* enrolled, a reject unsigned; a trusted verdict alone is accepted.
CheckReceipt(r) ==
  CASE r.qd # session -> "mismatch"
    [] r.qd = session /\ r.verdict = "reject" -> "rejectNoted"
    [] OTHER -> IF r.signed \in enrolled THEN "accepted" ELSE "badSignature"

ServeReceipt ==
  /\ mst = "serve" /\ MReceives("receipt")
  /\ mach' = [mach EXCEPT !.answer = CheckReceipt(Head(up))]
  /\ MSends(<<[type |-> "receiptAck", result |-> CheckReceipt(Head(up))]>>, "serve")
  /\ UNCHANGED <<link, worldVars, phoneVars, enrolled, keySalt, mkind>>

\* GateService.TakeRelease: at enrolment what was to be kept, given back
\* unchanged; at boot what the TPM opens.
TakeRelease(r, tpm) ==
  IF mkind = "keep"
  THEN IF r.salt = session
       THEN [status |-> "ok", mach |-> [mach EXCEPT !.returned = TRUE]]
       ELSE [status |-> "refused", mach |-> mach]
  ELSE IF tpm THEN [status |-> "ok", mach |-> [mach EXCEPT !.taken = r.salt, !.seed = r.seed]]
  ELSE [status |-> "refused", mach |-> mach]

ReleaseTaken(tpm) ==
  LET t == TakeRelease(Head(up), tpm) IN
  /\ mach' = t.mach
  /\ MSends(<<[type |-> "releaseAck", status |-> t.status]>>, "serve")
\* A release before an accepted receipt is not taken.
ServeRelease(tpm) ==
  /\ mst = "serve" /\ MReceives("release")
  /\ IF mach.answer = "accepted" THEN ReleaseTaken(tpm)
     ELSE MSends(<<[type |-> "releaseAck", status |-> "noReceipt"]>>, "serve") /\ UNCHANGED mach
  /\ UNCHANGED <<link, worldVars, phoneVars, enrolled, keySalt, mkind>>

\* The end: a bye, or at an enrolment whatever comes last.
ServeBye ==
  /\ \/ mst = "serve" /\ MReceives("bye")
     \/ mst = "last" /\ up # <<>> /\ up' = Tail(up)
  /\ mst' = "over"
  /\ UNCHANGED <<link, down, worldVars, phoneVars, enrolled, keySalt, mkind, mach>>

\* What the machine expects at each point; anything else is a protocol error
\* (which NoProtocolError shows never to happen between the two).
Expected(s) ==
  CASE s = "hs1" -> {"XX", "IK"} [] s = "hs3" -> {"XX"} [] s = "sasNonce" -> {"sasNonce"}
    [] s = "sasConfirm" -> {"sasConfirm"} [] s = "challenge" -> {"challenge"}
    [] s = "accept" -> {"accept"} [] s = "request" -> {"request"}
    [] s = "serve" -> {"logRequest", "receipt", "release", "bye"} [] OTHER -> {}

----------------------------------------------------------------------------
(* The phone. *)

\* fail: the machine is told, where there is a session.
VFails(why) ==
  /\ vst' = "failed"
  /\ phone' = [phone EXCEPT !.why = why]
  /\ up' = IF link /\ vst # "handshake" THEN Append(up, Msg("error")) ELSE up
  /\ UNCHANGED rec

VSends(msg, next) ==
  /\ up' = IF link THEN Append(up, msg) ELSE up
  /\ vst' = next

VReceives(t) == down # <<>> /\ Head(down).type = t /\ down' = Tail(down)
PhoneOnly == UNCHANGED <<link, session, boot, machineVars, pkind>>

\* HandleRecord in vsHandshake; a plain error there is believed.
HandleHandshake ==
  /\ vst = "handshake" /\ down # <<>> /\ down' = Tail(down)
  /\ CASE Head(down).type = "XX" /\ pkind = "enrol" ->
            VSends(Msg("XX"), "sasCommit") /\ UNCHANGED <<phone, rec>>
       [] Head(down).type = "IK" /\ pkind = "attest" ->
            vst' = "hello" /\ UNCHANGED <<up, phone, rec>>
       [] OTHER -> VFails("machine")
  /\ UNCHANGED agreed /\ PhoneOnly

\* An error of the machine's ends the session.
HandleError ==
  /\ vst \notin {"idle", "done", "failed", "handshake"} /\ VReceives("error")
  /\ vst' = "failed"
  /\ phone' = [phone EXCEPT !.why = "machine"]
  /\ UNCHANGED <<up, rec, agreed>> /\ PhoneOnly

\* handleEnrol: the commitment, its opening, the offer checked, the secret.
HandleEnrol ==
  /\ \/ vst = "sasCommit" /\ VReceives("sasCommit")
        /\ VSends(Msg("sasNonce"), "sasReveal")
        /\ phone' = [phone EXCEPT !.got = Head(down).nonceM]
     \/ vst = "sasReveal" /\ VReceives("sasReveal") /\ Head(down).nonceM = phone.got
        /\ vst' = "sasUser" /\ UNCHANGED <<up, phone>>
     \/ vst = "enrolOffer" /\ VReceives("offer")
        /\ VSends([type |-> "challenge", secret |-> session], "response")
        /\ phone' = [phone EXCEPT !.verdict = [state |-> "match", val |-> Head(down).val,
                                               resets |-> Head(down).resets]]
     \/ vst = "response" /\ VReceives("response") /\ Head(down).secret = session
        /\ vst' = "anchorKey" /\ UNCHANGED <<up, phone>>
  /\ UNCHANGED <<rec, agreed>> /\ PhoneOnly

\* checkOffer refuses: the boot key, the baseline quote, the values.
OfferRefused ==
  /\ vst = "enrolOffer" /\ VReceives("offer")
  /\ VFails("refused")
  /\ UNCHANGED agreed /\ PhoneOnly

RecordAtConfirm(anchor) ==
  [key |-> anchor, profiles |-> {phone.verdict.val}, resets |-> phone.verdict.resets,
   once |-> {}, salt |-> 0, keyboard |-> FALSE]
\* vsWaitEnrolConfirm: the record is there only once the machine has stored
\* this anchor.
HandleConfirm ==
  /\ vst = "enrolConfirm" /\ VReceives("confirm")
  /\ Head(down).anchor = session
  /\ rec' = RecordAtConfirm(session)
  /\ VSends(Msg("bye"), "done")
  /\ UNCHANGED <<phone, agreed>> /\ PhoneOnly

RecordAtSignature(right) ==
  /\ vst = "anchorSig" /\ right
  /\ VSends([type |-> "accept", anchor |-> session], "enrolConfirm")
  /\ rec' = RecordAtConfirm(session)
  /\ UNCHANGED <<down, phone, agreed>> /\ PhoneOnly
\* ProvideSignature over the acceptance; a wrong one is asked for again.
ProvideAcceptSignature(right) ==
  /\ vst = "anchorSig" /\ right
  /\ VSends([type |-> "accept", anchor |-> session], "enrolConfirm")
  /\ UNCHANGED <<down, phone, rec, agreed>> /\ PhoneOnly

\* ConfirmSAS: the person at the phone.
ConfirmSAS(match) ==
  /\ vst = "sasUser"
  /\ IF match THEN /\ VSends(Msg("sasConfirm"), "enrolOffer")
                   /\ agreed' = agreed \union {<<session, "phone">>}
                   /\ UNCHANGED <<phone, rec>>
     ELSE VFails("refused") /\ UNCHANGED agreed
  /\ UNCHANGED down /\ PhoneOnly

\* ProvideAnchorKeyAttested: a key that is none is asked for again.
ProvideAnchorKey(good) ==
  /\ vst = "anchorKey" /\ good
  /\ vst' = "anchorSig"
  /\ UNCHANGED <<up, down, phone, rec, agreed>> /\ PhoneOnly

----------------------------------------------------------------------------
\* MatchProfile: the first usable profile; one with a use left counts it.
ProfileOf(r, v) == IF v \in r.profiles THEN "kept" ELSE IF v \in r.once THEN "once" ELSE "none"

\* judgeBootKey: a proof that does not verify.
BootKeyFails(ev) == ev.quote = "badProof"

\* Verify with judgeBootKey: every hard check that fails makes it failed; the
\* values are kept when they give the quoted digest, whoever signed it.
Verify(ev) ==
  LET hard == \/ ev.quote \in {"badSignature", "garbled"} \/ ev.qd # session
              \/ BootKeyFails(ev)
              \/ ev.resets < rec.resets
      profile == IF ev.quote = "garbled" THEN "none" ELSE ProfileOf(rec, ev.val)
  IN [state |-> IF hard THEN "failed" ELSE IF profile = "none" THEN "changed" ELSE "match",
      val |-> ev.val, values |-> ev.quote # "garbled", resets |-> ev.resets,
      profile |-> profile]

\* handleAttest: the hello is answered with the request; the evidence is
\* judged and waits for the person.
HandleHello ==
  /\ vst = "hello" /\ VReceives("hello")
  /\ VSends([type |-> "request", nonceV |-> session], "evidence")
  /\ UNCHANGED <<phone, rec, agreed>> /\ PhoneOnly

HandleEvidence ==
  /\ vst = "evidence" /\ VReceives("evidence")
  /\ phone' = [phone EXCEPT !.verdict = Verify(Head(down)), !.log = Head(down).log,
                            !.keep = Head(down).keep, !.keyboard = Head(down).keyboard]
  /\ vst' = "decision"
  /\ UNCHANGED <<up, rec, agreed>> /\ PhoneOnly

\* A keyboard to keep without a salt, or with a release key under another signing
\* key than the record's (checkKeyboardKeep), fails the session.
EvidenceRefused ==
  /\ vst = "evidence" /\ VReceives("evidence") /\ Head(down).keyboard
  /\ VFails("refused")
  /\ UNCHANGED agreed /\ PhoneOnly

Deciding == {"decision"}
InTransfer == {"decision", "receiptSig", "receiptAck", "releaseAck"}
\* handleEventlogChunk: what continues the announced log, also after the
\* person has decided.
HandleEventlogChunk ==
  /\ vst \in InTransfer /\ VReceives("chunk")
  /\ phone.log /\ Head(down).offset = phone.got
  /\ phone' = [phone EXCEPT !.got = @ + 1]
  /\ UNCHANGED <<up, vst, rec, agreed>> /\ PhoneOnly

\* RequestEventlog: once, and only while a decision is pending.
RequestEventlog ==
  /\ vst = "decision" /\ phone.log /\ ~phone.asked
  /\ phone' = [phone EXCEPT !.asked = TRUE]
  /\ VSends(Msg("logRequest"), "decision")
  /\ UNCHANGED <<down, rec, agreed>> /\ PhoneOnly

Receipt(v, signed) == [type |-> "receipt", qd |-> session, verdict |-> v, signed |-> signed]

\* Decide with prepareReceipt: a reject goes out unsigned.
Decide(d, named) ==
  /\ vst = "decision"
  /\ \/ /\ d = "reject"
        /\ phone' = [phone EXCEPT !.receipt = "reject"]
        /\ VSends(Receipt("reject", 0), "receiptAck")
     \/ /\ d = "continue" /\ phone.verdict.state = "match"
        /\ phone' = [phone EXCEPT !.receipt = "ok"]
        /\ vst' = "receiptSig" /\ UNCHANGED up
     \/ /\ d \in {"once", "remember"}
        /\ phone.verdict.state = "failed" => named
        /\ phone.verdict.values
        /\ phone' = [phone EXCEPT !.receipt = "approved", !.remember = d = "remember"]
        /\ vst' = "receiptSig" /\ UNCHANGED up
  /\ UNCHANGED <<down, rec, agreed>> /\ PhoneOnly

\* ProvideSignature of the receipt, with sendReceipt.
ProvideReceiptSignature(right) ==
  /\ vst = "receiptSig" /\ right
  /\ VSends(Receipt(phone.receipt, rec.key), "receiptAck")
  /\ UNCHANGED <<down, phone, rec, agreed>> /\ PhoneOnly

\* The reset count to hold the next quote against: lower only on approval.
ResetsAfter(r, v) ==
  IF v.resets > r.resets \/ (phone.receipt = "approved" /\ v.resets < r.resets)
  THEN v.resets ELSE r.resets

\* updateRecord: whatever the machine answered.  A salt to keep replaces the
\* one kept, and the keyboard with it.
UpdateRecord ==
  LET v == phone.verdict IN
  [rec EXCEPT !.resets = ResetsAfter(rec, v),
              !.salt = IF phone.keep # 0 THEN phone.keep ELSE @,
              !.keyboard = IF phone.keep # 0 THEN phone.keyboard ELSE @,
              !.once = IF v.profile = "once" THEN @ \ {v.val} ELSE @,
              !.profiles = IF phone.remember /\ v.values THEN @ \union {v.val} ELSE @]

\* sendRelease: the salt kept, and a fresh seed for the keyboard's layout.
ReleaseMsg(r) ==
  [type |-> "release", salt |-> r.salt, seed |-> IF r.keyboard THEN session ELSE 0]

AnyAck(ack) ==
  /\ rec' = UpdateRecord
  /\ IF UpdateRecord.salt # 0
     THEN /\ VSends(ReleaseMsg(UpdateRecord), "releaseAck")
          /\ phone' = [phone EXCEPT !.layout = ReleaseMsg(UpdateRecord).seed]
     ELSE VSends(Msg("bye"), "done") /\ UNCHANGED phone
\* A trusted receipt updates the record; the release follows only one that
\* the machine accepted.
TrustedAck(ack) ==
  /\ Trusted(phone.receipt)
  /\ rec' = UpdateRecord
  /\ IF ack = "accepted" /\ UpdateRecord.salt # 0
     THEN /\ VSends(ReleaseMsg(UpdateRecord), "releaseAck")
          /\ phone' = [phone EXCEPT !.layout = ReleaseMsg(UpdateRecord).seed]
     ELSE VSends(Msg("bye"), "done") /\ UNCHANGED phone

HandleReceiptAck ==
  /\ vst = "receiptAck" /\ VReceives("receiptAck")
  /\ \/ TrustedAck(Head(down).result)
     \/ ~Trusted(phone.receipt) /\ VSends(Msg("bye"), "done") /\ UNCHANGED <<phone, rec>>
  /\ UNCHANGED agreed /\ PhoneOnly

\* The layout is shown once the machine took its seed, and not where the salt
\* was handed over.
Shown(status) == IF status = "ok" /\ phone.keep = 0 THEN phone.layout ELSE 0

HandleReleaseAck ==
  /\ vst = "releaseAck" /\ VReceives("releaseAck")
  /\ phone' = [phone EXCEPT !.shown = Shown(Head(down).status), !.layout = 0]
  /\ VSends(Msg("bye"), "done")
  /\ UNCHANGED <<rec, agreed>> /\ PhoneOnly

\* What the phone expects; anything else fails the session (NoProtocolError).
Awaited(s) ==
  CASE s = "sasCommit" -> {"sasCommit"} [] s = "sasReveal" -> {"sasReveal"}
    [] s = "enrolOffer" -> {"offer"} [] s = "response" -> {"response"}
    [] s = "enrolConfirm" -> {"confirm"} [] s = "hello" -> {"hello"}
    [] s = "evidence" -> {"evidence"}
    [] s \in InTransfer -> {"chunk"}
         \union (IF s = "receiptAck" THEN {"receiptAck"} ELSE {})
         \union (IF s = "releaseAck" THEN {"releaseAck"} ELSE {})
    [] OTHER -> {}

\* Abort: the person, or the app when the connection is gone.
Abort ==
  /\ vst \notin {"idle", "done", "failed"}
  /\ VFails("aborted")
  /\ UNCHANGED <<down, agreed>> /\ PhoneOnly

----------------------------------------------------------------------------
(* Around the session. *)

\* A phone connects: Start sends the first handshake message.
Connect(mk, pk) ==
  /\ mst = "idle" /\ vst = "idle" /\ session < MaxSession
  /\ pk = "attest" => rec # NoRecord
  /\ session' = session + 1
  /\ link' = TRUE
  /\ mkind' = mk /\ mst' = "hs1" /\ mach' = NoMach
  /\ pkind' = pk /\ vst' = "handshake" /\ phone' = NoPhone
  /\ up' = IF pk = "enrol" THEN <<Msg("XX")>> ELSE <<[type |-> "IK", key |-> rec.key]>>
  /\ down' = <<>>
  /\ UNCHANGED <<boot, enrolled, keySalt, rec, agreed>>

\* The connection breaks (or its deadline passes); a part of what is under
\* way still arrives.
Break ==
  /\ link /\ link' = FALSE
  /\ \E i \in 0..Len(up), j \in 0..Len(down) :
       up' = SubSeq(up, 1, i) /\ down' = SubSeq(down, 1, j)
  /\ UNCHANGED <<worldVars, machineVars, phoneVars>>

ThroughOnReceipt ==
  /\ mst = "over" /\ vst \in {"done", "failed"}
  /\ link' = FALSE /\ up' = <<>> /\ down' = <<>>
  /\ mst' = "idle" /\ vst' = "idle"
  /\ keySalt' = IF mkind = "keep" /\ mach.answer = "accepted" THEN session ELSE keySalt
  /\ mkind' = "none" /\ mach' = NoMach /\ pkind' = "none" /\ phone' = NoPhone
  /\ UNCHANGED <<session, boot, enrolled, rec, agreed>>
\* Both are through.  'phone salt enrol' goes on to the keyslot only if the
\* phone gave the salt back.
Through ==
  /\ mst = "over" /\ vst \in {"done", "failed"}
  /\ link' = FALSE /\ up' = <<>> /\ down' = <<>>
  /\ mst' = "idle" /\ vst' = "idle"
  /\ keySalt' = IF mkind = "keep" /\ mach.returned THEN session ELSE keySalt
  /\ mkind' = "none" /\ mach' = NoMach /\ pkind' = "none" /\ phone' = NoPhone
  /\ UNCHANGED <<session, boot, enrolled, rec, agreed>>

\* The machine boots again, into the same or another state; the count of its
\* TPM goes up, unless the TPM lost it.
Reboot(v) ==
  /\ mst = "idle" /\ session < MaxSession
  /\ boot' = [val |-> v, resets |-> IF boot.resets < MaxResets THEN boot.resets + 1 ELSE 0]
  /\ boot' # boot
  /\ UNCHANGED <<session, link, up, down, machineVars, phoneVars, agreed>>

\* External: the app is given a profile for one boot.
OneUseProfile(v) ==
  /\ vst = "idle" /\ rec # NoRecord /\ rec.once = {} /\ session < MaxSession
  /\ v \notin rec.profiles
  /\ rec' = [rec EXCEPT !.once = {v}]
  /\ UNCHANGED <<session, link, up, down, boot, machineVars, pkind, vst, phone, agreed>>

\* Nothing enrolled yet; or a phone of an earlier session, which keeps the
\* salt of the disk's keyslot.
SessionInit ==
  /\ session = 2 /\ link = FALSE /\ up = <<>> /\ down = <<>>
  /\ boot = [val |-> CHOOSE v \in Values : TRUE, resets |-> 0]
  /\ \/ enrolled = {} /\ keySalt = 0 /\ rec = NoRecord /\ agreed = {}
     \/ /\ enrolled = {1} /\ agreed = {1} \X {"machine", "phone"}
        /\ keySalt = 2
        /\ rec = [key |-> 1, profiles |-> {boot.val}, once |-> {}, resets |-> 0,
                  salt |-> 2, keyboard |-> TRUE]
  /\ mkind = "none" /\ mst = "idle" /\ mach = NoMach
  /\ pkind = "none" /\ vst = "idle" /\ phone = NoPhone

MachineNext ==
  \/ RecvMsgFails \/ AcceptHandshake \/ ServeSAS \/ ServeEventlog
  \/ ServeReceipt \/ ServeBye
  \/ \E b \in BOOLEAN : ServeOffer(b) \/ ServeCommit(b) \/ ServeRelease(b)
  \/ \E tpm, keyboard, log \in BOOLEAN, q \in {"good", "badSignature", "badProof", "garbled"} :
       ServeQuote(tpm, q, keyboard, log)

HandleNext ==
  \/ HandleHandshake \/ HandleError \/ HandleEnrol \/ OfferRefused \/ HandleConfirm
  \/ HandleHello \/ HandleEvidence \/ EvidenceRefused \/ HandleEventlogChunk \/ HandleReceiptAck
  \/ HandleReleaseAck

PersonNext ==
  \/ \E b \in BOOLEAN : MachineConfirmSAS(b) \/ ConfirmSAS(b)
  \/ \E b \in BOOLEAN : ProvideAnchorKey(b) \/ ProvideAcceptSignature(b)
                        \/ ProvideReceiptSignature(b)
  \/ \E d \in {"reject", "continue", "once", "remember"}, named \in BOOLEAN : Decide(d, named)
  \/ RequestEventlog

SessionNext ==
  \/ MachineNext \/ HandleNext \/ PersonNext \/ Abort
  \/ \E mk \in {"enrol", "attest", "keep"}, pk \in {"enrol", "attest"} : Connect(mk, pk)
  \/ Break \/ Through
  \/ \E v \in Values : Reboot(v) \/ OneUseProfile(v)

\* Both sides handle what has arrived; a connection ends (its deadline), and
\* the app then ends its session.  Nobody has to answer a question, but the
\* person's at the machine's own prompt.
SessionFairness ==
  /\ WF_sessionVars(MachineNext) /\ WF_sessionVars(HandleNext)
  /\ WF_sessionVars(Break) /\ WF_sessionVars(~link /\ Abort) /\ WF_sessionVars(Through)
  /\ WF_sessionVars(\E b \in BOOLEAN : MachineConfirmSAS(b))

SessionSpec == SessionInit /\ [][SessionNext]_sessionVars /\ SessionFairness
----------------------------------------------------------------------------
\* An enrolment is one of both: the machine stores a phone only in a session
\* whose code both people confirmed, and the phone keeps a machine only if
\* that machine has stored it, wherever the connection broke (the order of
\* Commit, EnrolConfirm and the record).
EnrolmentAgreed ==
  /\ \A n \in enrolled : {<<n, "machine">>, <<n, "phone">>} \subseteq agreed
  /\ rec.key # 0 => rec.key \in enrolled

\* The two state machines fit: neither ever takes a record of the other's for
\* a breach of the protocol, whatever crosses on the way (a chunk of the event
\* log and the person's decision, an abort and an answer).
NoProtocolError ==
  /\ (mst \notin {"idle", "over", "person", "last"} /\ up # <<>>) =>
       Head(up).type \in Expected(mst) \union {"error"}
  /\ (vst \notin {"idle", "done", "failed", "handshake"} /\ down # <<>>) =>
       Head(down).type \in Awaited(vst) \union {"error"}

\* A salt or a seed leaves the phone, reaches the machine, or passes as given
\* back, only in a session the machine accepted and the person continued or
\* approved, and it is the one the phone keeps; and the layout the phone shows
\* is the one the machine has opened: what is typed by it is read by it.
ReleaseIsDecided ==
  /\ (\E i \in DOMAIN up : up[i].type = "release") =>
       mach.answer = "accepted" /\ Trusted(phone.receipt)
  /\ (mach.taken # 0 \/ mach.returned) =>
       /\ mach.answer = "accepted" /\ Trusted(phone.receipt)
       /\ rec.salt = IF mach.returned THEN session ELSE mach.taken
  /\ phone.shown # 0 => phone.shown = mach.seed

\* A keyslot is made only from a salt that the phone keeps (Returned), and the
\* reset count the phone holds quotes against goes back only when the person
\* approved a boot that showed a lower one (updateRecord).
RecordFollows ==
  [][/\ keySalt' # keySalt => rec.salt = keySalt'
     /\ rec.key # 0 /\ rec'.key = rec.key /\ rec'.resets < rec.resets
          => phone.receipt = "approved" /\ phone.verdict.state = "failed"]_sessionVars

\* Every session ends on both sides, though nobody answers on the phone and
\* the connection breaks anywhere.
SessionsEnd == (mst # "idle" \/ vst # "idle") ~> (mst = "idle" /\ vst = "idle")

\* What 'phone salt rotate' says when it fails: "nothing was enrolled".  Then
\* the phone still keeps the salt the disk's keyslot was made from.
FailedRotateKeepsSalt ==
  mst = "idle" /\ vst = "idle" /\ keySalt # 0 => rec.salt \in {0, keySalt}
=============================================================================
