-------------------------- MODULE CodeScreenProofs --------------------------
(***************************************************************************)
(* Proofs about PhoneGate and about CodeScreen, which composes it with the *)
(* boot, for any set of parts, recipes, slots, quotes and releases.        *)
(*                                                                         *)
(* The coordinator, for any worker and every maxIssuedQuotes: GateIInv is  *)
(* inductive.  AttestedIsThePhones needs issued \subseteq given, because a *)
(* receipt is checked against the map and promised of the quotes given     *)
(* out; TamperedStaysRefused needs to know that only a coordinator that    *)
(* serves gives anything out.                                              *)
(*                                                                         *)
(* The boot implements the coordinator's specification and has its safety  *)
(* properties (PhoneEndsTheHold, KeysAfterTheClose, KeyGetsTheSalt,        *)
(* ClosesOverNothing).  GateIInv is carried over: while a worker's call is *)
(* one the coordinator knows (req \in Calls), every step of the boot is a  *)
(* step of GateNext or leaves the gate alone.                              *)
(***************************************************************************)
EXTENDS CodeScreen, TLAPS

USE DEF quoteVars, statusVars, takeVars, fixedVars, gateVars

LEMMA GateInitInv == GateInit => GateIInv
<1> SUFFICES ASSUME GateInit PROVE GateIInv
  OBVIOUS
<1>1. GateTypeOK
  <2>0. <<>> \in Seq(Quotes)
    OBVIOUS
  <2>1. order \in Seq(Quotes) /\ signed \subseteq (Quotes \union OldQuotes) \X Verdicts
    BY <2>0, Zenon DEF GateInit
  <2>2. state \in GateStates /\ take \in TakeSteps
    BY DEF GateInit, GateStates, TakeSteps
  <2>3. QED
    BY <2>1, <2>2 DEF GateInit, GateTypeOK
<1>2. AttestedIsThePhones /\ OnlyWhenServing /\ RefusedByRecord
  BY DEF GateInit, AttestedIsThePhones, OnlyWhenServing, RefusedByRecord
<1>3. TakeHasRelease /\ issued \subseteq given /\ SaltAndLayoutOfOneRelease
  BY DEF GateInit, TakeHasRelease, SaltAndLayoutOfOneRelease
<1>4. QED
  BY <1>1, <1>2, <1>3 DEF GateIInv

LEMMA StutterInv == GateIInv /\ UNCHANGED gateVars => GateIInv'
<1> SUFFICES ASSUME GateIInv, UNCHANGED gateVars PROVE GateIInv'
  OBVIOUS
<1>1. GateTypeOK'
  <2>1. GateTypeOK
    BY DEF GateIInv
  <2>2. QED
    BY <2>1 DEF GateTypeOK
<1>2. AttestedIsThePhones' /\ OnlyWhenServing' /\ RefusedByRecord'
  BY DEF GateIInv, AttestedIsThePhones, OnlyWhenServing, RefusedByRecord
<1>3. TakeHasRelease' /\ (issued \subseteq given)' /\ SaltAndLayoutOfOneRelease'
  BY DEF GateIInv, TakeHasRelease, SaltAndLayoutOfOneRelease
<1>4. QED
  BY <1>1, <1>2, <1>3 DEF GateIInv

\* A step of a TakeRelease that leaves what is kept as it is.
LEMMA TakeStepInv ==
  ASSUME GateIInv, NEW from \in TakeSteps \ {"idle"}, NEW to \in TakeSteps,
         TakeStep(from, to), Unchanging
  PROVE  GateIInv'
<1>0. GateTypeOK
  BY DEF GateIInv
<1>1. GateTypeOK'
  BY <1>0, ZenonT(60) DEF GateTypeOK, TakeStep, Unchanging
<1>2. AttestedIsThePhones'
  BY DEF GateIInv, AttestedIsThePhones, TakeStep, Unchanging
<1>3. OnlyWhenServing' /\ RefusedByRecord'
  BY DEF GateIInv, OnlyWhenServing, RefusedByRecord, TakeStep, Unchanging
<1>4. TakeHasRelease' /\ (issued \subseteq given)' /\ SaltAndLayoutOfOneRelease'
  BY DEF GateIInv, TakeHasRelease, SaltAndLayoutOfOneRelease, TakeStep, Unchanging
<1>5. QED
  BY <1>1, <1>2, <1>3, <1>4 DEF GateIInv

LEMMA OpeningInv ==
  GateIInv /\ (LockForSalt \/ SaltOpens \/ SaltRefused \/ LockForKeyboard
               \/ KeyboardOpens \/ KeyboardRefused) => GateIInv'
<1>1. ASSUME GateIInv, LockForSalt PROVE GateIInv'
  BY <1>1, TakeStepInv DEF LockForSalt, TakeSteps
<1>2. ASSUME GateIInv, SaltOpens PROVE GateIInv'
  BY <1>2, TakeStepInv DEF SaltOpens, TakeSteps
<1>3. ASSUME GateIInv, SaltRefused PROVE GateIInv'
  BY <1>3, TakeStepInv DEF SaltRefused, TakeSteps
<1>4. ASSUME GateIInv, LockForKeyboard PROVE GateIInv'
  BY <1>4, TakeStepInv DEF LockForKeyboard, TakeSteps
<1>5. ASSUME GateIInv, KeyboardOpens PROVE GateIInv'
  BY <1>5, TakeStepInv DEF KeyboardOpens, TakeSteps
<1>6. ASSUME GateIInv, KeyboardRefused PROVE GateIInv'
  BY <1>6, TakeStepInv DEF KeyboardRefused, TakeSteps
<1>7. QED
  BY <1>1, <1>2, <1>3, <1>4, <1>5, <1>6

LEMMA SetUpInv ==
  ASSUME GateIInv, NEW o \in {"serving", "tampered", "failed"}, SetUp(o)
  PROVE  GateIInv'
<1>0. GateTypeOK
  BY DEF GateIInv
<1>1. GateTypeOK'
  <2>1. setup' \in {"running", "serving", "tampered", "failed"}
    BY DEF SetUp
  <2>2. state' \in GateStates
    BY <1>0 DEF SetUp, GateTypeOK, GateStates
  <2>3. QED
    BY <1>0, <2>1, <2>2, ZenonT(40) DEF GateTypeOK, SetUp
<1>2. AttestedIsThePhones'
  BY DEF GateIInv, AttestedIsThePhones, SetUp
<1>3. OnlyWhenServing' /\ RefusedByRecord'
  BY DEF GateIInv, OnlyWhenServing, RefusedByRecord, SetUp
<1>4. TakeHasRelease' /\ (issued \subseteq given)' /\ SaltAndLayoutOfOneRelease'
  BY DEF GateIInv, TakeHasRelease, SaltAndLayoutOfOneRelease, SetUp
<1>5. QED
  BY <1>1, <1>2, <1>3, <1>4 DEF GateIInv

LEMMA ProveBootKeyInv ==
  ASSUME GateIInv, NEW b \in BOOLEAN, ProveBootKey(b)
  PROVE  GateIInv'
<1>0. GateTypeOK
  BY DEF GateIInv
<1>1. GateTypeOK'
  BY <1>0, ZenonT(40) DEF GateTypeOK, ProveBootKey, Free
<1>2. AttestedIsThePhones'
  BY DEF GateIInv, AttestedIsThePhones, ProveBootKey, Free
<1>3. OnlyWhenServing' /\ RefusedByRecord'
  BY DEF GateIInv, OnlyWhenServing, RefusedByRecord, ProveBootKey, Free
<1>4. TakeHasRelease' /\ (issued \subseteq given)' /\ SaltAndLayoutOfOneRelease'
  BY DEF GateIInv, TakeHasRelease, SaltAndLayoutOfOneRelease, ProveBootKey, Free
<1>5. QED
  BY <1>1, <1>2, <1>3, <1>4 DEF GateIInv

LEMMA ReportInv ==
  ASSUME GateIInv, NEW s \in GateStates, Report(s)
  PROVE  GateIInv'
<1>0. GateTypeOK
  BY DEF GateIInv
<1>1. GateTypeOK'
  <2>1. state' \in GateStates
    BY <1>0 DEF Report, GateTypeOK
  <2>2. code' \in BOOLEAN
    BY <1>0, ZenonT(40) DEF Report, GateTypeOK
  <2>3. QED
    BY <1>0, <2>1, <2>2, ZenonT(40) DEF GateTypeOK, Report
<1>2. AttestedIsThePhones'
  BY DEF GateIInv, AttestedIsThePhones, Report, Free, reportable, IsVerdict
<1>3. OnlyWhenServing' /\ RefusedByRecord'
  BY DEF GateIInv, OnlyWhenServing, RefusedByRecord, Report, Free, reportable, IsVerdict
<1>4. TakeHasRelease' /\ (issued \subseteq given)' /\ SaltAndLayoutOfOneRelease'
  BY DEF GateIInv, TakeHasRelease, SaltAndLayoutOfOneRelease, Report, Free, reportable, IsVerdict
<1>5. QED
  BY <1>1, <1>2, <1>3, <1>4 DEF GateIInv

LEMMA ReportOverInv ==
  ASSUME GateIInv, ReportOver
  PROVE  GateIInv'
<1>0. GateTypeOK
  BY DEF GateIInv
<1>1. GateTypeOK'
  BY <1>0, ZenonT(40) DEF GateTypeOK, ReportOver, Free
<1>2. AttestedIsThePhones'
  BY DEF GateIInv, AttestedIsThePhones, ReportOver, Free
<1>3. OnlyWhenServing' /\ RefusedByRecord'
  BY DEF GateIInv, OnlyWhenServing, RefusedByRecord, ReportOver, Free
<1>4. TakeHasRelease' /\ (issued \subseteq given)' /\ SaltAndLayoutOfOneRelease'
  BY DEF GateIInv, TakeHasRelease, SaltAndLayoutOfOneRelease, ReportOver, Free
<1>5. QED
  BY <1>1, <1>2, <1>3, <1>4 DEF GateIInv

LEMMA TakeReleaseInv ==
  ASSUME GateIInv, NEW r \in Releases, TakeRelease(r)
  PROVE  GateIInv'
<1>0. GateTypeOK
  BY DEF GateIInv
<1>1. GateTypeOK'
  BY <1>0, ZenonT(40) DEF GateTypeOK, TakeRelease, Free, TakeSteps
<1>2. AttestedIsThePhones'
  BY DEF GateIInv, AttestedIsThePhones, TakeRelease, Free
<1>3. OnlyWhenServing' /\ RefusedByRecord'
  BY DEF GateIInv, OnlyWhenServing, RefusedByRecord, TakeRelease, Free
<1>4. TakeHasRelease' /\ (issued \subseteq given)' /\ SaltAndLayoutOfOneRelease'
  BY DEF GateIInv, TakeHasRelease, SaltAndLayoutOfOneRelease, TakeRelease, Free
<1>5. QED
  BY <1>1, <1>2, <1>3, <1>4 DEF GateIInv

LEMMA StoreSaltInv ==
  ASSUME GateIInv, StoreSalt
  PROVE  GateIInv'
<1>0. GateTypeOK
  BY DEF GateIInv
<1>1. GateTypeOK'
  <2>1. salt' \in Releases /\ layout' \in Keyboards \union {NoRelease}
    BY DEF GateIInv, TakeHasRelease, StoreSalt, TakeStep, newLayout
  <2>2. take' \in TakeSteps
    BY DEF StoreSalt, TakeStep, TakeSteps
  <2>3. QED
    BY <1>0, <2>1, <2>2, ZenonT(40) DEF GateTypeOK, StoreSalt, TakeStep
<1>2. AttestedIsThePhones'
  BY DEF GateIInv, AttestedIsThePhones, StoreSalt, TakeStep, newLayout
<1>3. OnlyWhenServing' /\ RefusedByRecord'
  BY DEF GateIInv, OnlyWhenServing, RefusedByRecord, StoreSalt, TakeStep, newLayout
<1>4. TakeHasRelease' /\ (issued \subseteq given)' /\ SaltAndLayoutOfOneRelease'
  <2>1. rel \in Releases /\ rel # NoRelease
    BY ReleasesAssumption DEF GateIInv, TakeHasRelease, StoreSalt, TakeStep
  <2>2. QED
    BY <2>1 DEF GateIInv, TakeHasRelease, SaltAndLayoutOfOneRelease, StoreSalt,
                TakeStep, newLayout
<1>5. QED
  BY <1>1, <1>2, <1>3, <1>4 DEF GateIInv

LEMMA EndReleaseInv ==
  ASSUME GateIInv, EndRelease
  PROVE  GateIInv'
<1>0. GateTypeOK
  BY DEF GateIInv
<1>1. GateTypeOK'
  BY <1>0, ZenonT(40) DEF GateTypeOK, EndRelease, TakeStep, TakeSteps
<1>2. AttestedIsThePhones'
  BY DEF GateIInv, AttestedIsThePhones, EndRelease, TakeStep
<1>3. OnlyWhenServing' /\ RefusedByRecord'
  BY DEF GateIInv, OnlyWhenServing, RefusedByRecord, EndRelease, TakeStep
<1>4. TakeHasRelease' /\ (issued \subseteq given)' /\ SaltAndLayoutOfOneRelease'
  BY DEF GateIInv, TakeHasRelease, SaltAndLayoutOfOneRelease, EndRelease, TakeStep
<1>5. QED
  BY <1>1, <1>2, <1>3, <1>4 DEF GateIInv

LEMMA ExpectReleaseInv ==
  ASSUME GateIInv, ExpectRelease
  PROVE  GateIInv'
<1>0. GateTypeOK
  BY DEF GateIInv
<1>1. GateTypeOK'
  BY <1>0, ZenonT(40) DEF GateTypeOK, ExpectRelease
<1>2. AttestedIsThePhones'
  BY DEF GateIInv, AttestedIsThePhones, ExpectRelease
<1>3. OnlyWhenServing' /\ RefusedByRecord'
  BY DEF GateIInv, OnlyWhenServing, RefusedByRecord, ExpectRelease
<1>4. TakeHasRelease' /\ (issued \subseteq given)' /\ SaltAndLayoutOfOneRelease'
  BY DEF GateIInv, TakeHasRelease, SaltAndLayoutOfOneRelease, ExpectRelease
<1>5. QED
  BY <1>1, <1>2, <1>3, <1>4 DEF GateIInv

LEMMA ReleaseWaitPassesInv ==
  ASSUME GateIInv, ReleaseWaitPasses
  PROVE  GateIInv'
<1>0. GateTypeOK
  BY DEF GateIInv
<1>1. GateTypeOK'
  BY <1>0, ZenonT(40) DEF GateTypeOK, ReleaseWaitPasses
<1>2. AttestedIsThePhones'
  BY DEF GateIInv, AttestedIsThePhones, ReleaseWaitPasses
<1>3. OnlyWhenServing' /\ RefusedByRecord'
  BY DEF GateIInv, OnlyWhenServing, RefusedByRecord, ReleaseWaitPasses
<1>4. TakeHasRelease' /\ (issued \subseteq given)' /\ SaltAndLayoutOfOneRelease'
  BY DEF GateIInv, TakeHasRelease, SaltAndLayoutOfOneRelease, ReleaseWaitPasses
<1>5. QED
  BY <1>1, <1>2, <1>3, <1>4 DEF GateIInv

LEMMA StatusGivesUpInv ==
  ASSUME GateIInv, StatusGivesUp
  PROVE  GateIInv'
<1>0. GateTypeOK
  BY DEF GateIInv
<1>1. GateTypeOK'
  BY <1>0, ZenonT(40) DEF GateTypeOK, StatusGivesUp
<1>2. AttestedIsThePhones'
  BY DEF GateIInv, AttestedIsThePhones, StatusGivesUp
<1>3. OnlyWhenServing' /\ RefusedByRecord'
  BY DEF GateIInv, OnlyWhenServing, RefusedByRecord, StatusGivesUp
<1>4. TakeHasRelease' /\ (issued \subseteq given)' /\ SaltAndLayoutOfOneRelease'
  BY DEF GateIInv, TakeHasRelease, SaltAndLayoutOfOneRelease, StatusGivesUp
<1>5. QED
  BY <1>1, <1>2, <1>3, <1>4 DEF GateIInv

LEMMA ForgetInv ==
  ASSUME GateIInv, Forget
  PROVE  GateIInv'
<1>0. GateTypeOK
  BY DEF GateIInv
<1>1. GateTypeOK'
  BY <1>0, ZenonT(40) DEF GateTypeOK, Forget
<1>2. AttestedIsThePhones'
  BY DEF GateIInv, AttestedIsThePhones, Forget
<1>3. OnlyWhenServing' /\ RefusedByRecord'
  BY DEF GateIInv, OnlyWhenServing, RefusedByRecord, Forget
<1>4. TakeHasRelease' /\ (issued \subseteq given)' /\ SaltAndLayoutOfOneRelease'
  BY DEF GateIInv, TakeHasRelease, SaltAndLayoutOfOneRelease, Forget
<1>5. QED
  BY <1>1, <1>2, <1>3, <1>4 DEF GateIInv

LEMMA PhoneSignsInv ==
  ASSUME GateIInv, NEW q \in Quotes, NEW v \in Verdicts, PhoneSigns(q, v)
  PROVE  GateIInv'
<1>0. GateTypeOK
  BY DEF GateIInv
<1>1. GateTypeOK'
  <2>1. signed' \subseteq (Quotes \union OldQuotes) \X Verdicts
    BY <1>0 DEF GateTypeOK, PhoneSigns
  <2>2. QED
    BY <1>0, <2>1, ZenonT(60) DEF GateTypeOK, PhoneSigns
<1>2. AttestedIsThePhones'
  BY DEF GateIInv, AttestedIsThePhones, PhoneSigns
<1>3. OnlyWhenServing' /\ RefusedByRecord'
  BY DEF GateIInv, OnlyWhenServing, RefusedByRecord, PhoneSigns
<1>4. TakeHasRelease' /\ (issued \subseteq given)' /\ SaltAndLayoutOfOneRelease'
  BY DEF GateIInv, TakeHasRelease, SaltAndLayoutOfOneRelease, PhoneSigns
<1>5. QED
  BY <1>1, <1>2, <1>3, <1>4 DEF GateIInv

LEMMA BootClosesInv ==
  ASSUME GateIInv, BootCloses
  PROVE  GateIInv'
<1>0. GateTypeOK
  BY DEF GateIInv
<1>1. GateTypeOK'
  BY <1>0, ZenonT(40) DEF GateTypeOK, BootCloses
<1>2. AttestedIsThePhones'
  BY DEF GateIInv, AttestedIsThePhones, BootCloses
<1>3. OnlyWhenServing' /\ RefusedByRecord'
  BY DEF GateIInv, OnlyWhenServing, RefusedByRecord, BootCloses
<1>4. TakeHasRelease' /\ (issued \subseteq given)' /\ SaltAndLayoutOfOneRelease'
  BY DEF GateIInv, TakeHasRelease, SaltAndLayoutOfOneRelease, BootCloses
<1>5. QED
  BY <1>1, <1>2, <1>3, <1>4 DEF GateIInv

\* The order's list stays a list of quotes.
LEMMA RememberType ==
  ASSUME NEW q \in Quotes, order \in Seq(Quotes), issued \subseteq Quotes, remember(q)
  PROVE  order' \in Seq(Quotes) /\ issued' \subseteq issued \union {q}
<1> DEFINE longer == Append(order, q)
<1>1. longer \in Seq(Quotes) /\ longer # <<>>
  OBVIOUS
<1>2. Tail(longer) \in Seq(Quotes)
  BY <1>1
<1>3. order' \in {longer, Tail(longer)}
  BY DEF remember
<1>4. QED
  BY <1>1, <1>2, <1>3 DEF remember

LEMMA QuoteInv ==
  ASSUME GateIInv, NEW q \in Quotes, Quote(q)
  PROVE  GateIInv'
<1>0. GateTypeOK
  BY DEF GateIInv
<1>1. order' \in Seq(Quotes) /\ issued' \subseteq issued \union {q}
  BY <1>0, RememberType DEF GateTypeOK, Quote
<1>2. GateTypeOK'
  <2>1. issued' \subseteq Quotes /\ given' \subseteq Quotes
    BY <1>0, <1>1 DEF GateTypeOK, Quote
  <2>2. QED
    BY <1>0, <1>1, <2>1, ZenonT(40) DEF GateTypeOK, Quote
<1>3. AttestedIsThePhones'
  BY DEF GateIInv, AttestedIsThePhones, Quote
<1>4. OnlyWhenServing' /\ RefusedByRecord'
  BY DEF GateIInv, OnlyWhenServing, RefusedByRecord, Quote
<1>5. TakeHasRelease' /\ (issued \subseteq given)' /\ SaltAndLayoutOfOneRelease'
  BY <1>1 DEF GateIInv, TakeHasRelease, SaltAndLayoutOfOneRelease, Quote
<1>6. QED
  BY <1>2, <1>3, <1>4, <1>5 DEF GateIInv

\* What receiptState calls attested: a quote of the map, and the signature of
\* an enrolled phone over a trusted verdict.
LEMMA AttestedReceipt ==
  ASSUME NEW r \in Receipts, receiptState(CheckReceipt(r), r.verdict) = "attested"
  PROVE  r.quote \in issued /\ <<r.quote, "trusted">> \in signed
<1>1. r.verdict = "trusted" /\ CheckReceipt(r).authentic
  BY DEF receiptState
<1>2. r.named /\ r.quote \in issued
  BY <1>1 DEF CheckReceipt
<1>3. r.signature = "phone" /\ <<r.quote, r.verdict>> \in signed
  BY <1>1, <1>2 DEF CheckReceipt, CheckNamed, Receipts
<1>4. QED
  BY <1>1, <1>2, <1>3

LEMMA JudgeReceiptInv ==
  ASSUME GateIInv, NEW r \in Receipts, JudgeReceipt(r)
  PROVE  GateIInv'
<1> DEFINE st == receiptState(CheckReceipt(r), r.verdict)
<1>0. GateTypeOK
  BY DEF GateIInv
<1>1. CASE st = ""
  BY <1>1, StutterInv DEF JudgeReceipt
<1>2. CASE st # ""
  <2>0. state' = st
    BY <1>2 DEF JudgeReceipt
  <2>1. state' \in {"attested", "rejected", "refused"}
    BY <1>2, <2>0 DEF receiptState
  <2>2. GateTypeOK'
    <3>1. state' \in GateStates
      BY <2>1 DEF GateStates
    <3>2. code' \in BOOLEAN /\ releasing' \in BOOLEAN /\ overdue' \in BOOLEAN
      BY <1>2, Zenon DEF JudgeReceipt
    <3>3. QED
      BY <1>0, <3>1, <3>2, ZenonT(40) DEF GateTypeOK, JudgeReceipt
  <2>3. AttestedIsThePhones'
    <3> SUFFICES ASSUME state' = "attested"
                 PROVE  \E q \in given : <<q, "trusted">> \in signed
      BY DEF AttestedIsThePhones, JudgeReceipt
    <3>1. r.quote \in issued /\ <<r.quote, "trusted">> \in signed
      BY <2>0, AttestedReceipt
    <3>2. QED
      BY <3>1 DEF GateIInv
  <2>4. OnlyWhenServing' /\ RefusedByRecord'
    BY DEF GateIInv, OnlyWhenServing, RefusedByRecord, JudgeReceipt
  <2>5. TakeHasRelease' /\ (issued \subseteq given)' /\ SaltAndLayoutOfOneRelease'
    BY DEF GateIInv, TakeHasRelease, SaltAndLayoutOfOneRelease, JudgeReceipt
  <2>6. QED
    BY <2>2, <2>3, <2>4, <2>5 DEF GateIInv
<1>3. QED
  BY <1>1, <1>2

LEMMA GateNextInv == GateIInv /\ [GateNext]_gateVars => GateIInv'
<1> SUFFICES ASSUME GateIInv, [GateNext]_gateVars PROVE GateIInv'
  OBVIOUS
<1>1. CASE WorkerCalls
  BY <1>1, QuoteInv, ProveBootKeyInv, JudgeReceiptInv, ReportInv, ReportOverInv,
     TakeReleaseInv DEF WorkerCalls
<1>2. CASE Taking
  BY <1>2, OpeningInv, StoreSaltInv, EndReleaseInv DEF Taking
<1>3. CASE GateNext /\ ~ WorkerCalls /\ ~ Taking
  BY <1>3, SetUpInv, ExpectReleaseInv, ReleaseWaitPassesInv, StatusGivesUpInv,
     ForgetInv, PhoneSignsInv, BootClosesInv DEF GateNext
<1>4. CASE UNCHANGED gateVars
  BY <1>4, StutterInv
<1>5. QED
  BY <1>1, <1>2, <1>3, <1>4

\* The invariant holds of every behaviour of the coordinator.
THEOREM GateInvariance == GateSpec => []GateIInv
  BY GateInitInv, GateNextInv, PTL DEF GateSpec

\* Every variable keeps its type.
THEOREM GateTypeCorrect == GateSpec => []GateTypeOK
<1>1. GateIInv => GateTypeOK
  BY DEF GateIInv
<1>2. QED
  BY <1>1, GateInvariance, PTL

\* A slot is attested only by a phone's signature over a quote of this boot,
\* whatever the radio worker calls (JudgeReceipt, CheckReceipt, Quote).
THEOREM AttestationIsAuthentic == GateSpec => []AttestedIsThePhones
<1>1. GateIInv => AttestedIsThePhones
  BY DEF GateIInv
<1>2. QED
  BY <1>1, GateInvariance, PTL

\* A tampered record is refused for good (NewGateServiceOpening, Report).
THEOREM TamperedIsRefused == GateSpec => []TamperedStaysRefused
<1>1. GateIInv => TamperedStaysRefused
  BY DEF GateIInv, OnlyWhenServing, RefusedByRecord, TamperedStaysRefused
<1>2. QED
  BY <1>1, GateInvariance, PTL

\* The salt and the keyboard kept are of one release (TakeRelease).
THEOREM OneReleaseKept == GateSpec => []SaltAndLayoutOfOneRelease
<1>1. GateIInv => SaltAndLayoutOfOneRelease
  BY DEF GateIInv
<1>2. QED
  BY <1>1, GateInvariance, PTL

\* Remembering a quote that is new keeps the two records in step.
LEMMA RememberFollows ==
  ASSUME NEW q \in Quotes, order \in Seq(Quotes), IssuedFollowsOrder,
         q \notin issued, remember(q)
  PROVE  IssuedFollowsOrder'
<1> DEFINE longer == Append(order, q)
<1>1. /\ longer \in Seq(Quotes)
      /\ Len(longer) = Len(order) + 1
      /\ \A i \in 1..Len(order) : longer[i] = order[i]
      /\ longer[Len(order) + 1] = q
  OBVIOUS
<1>2. \A i, j \in 1..Len(longer) : longer[i] = longer[j] => i = j
  BY <1>1 DEF IssuedFollowsOrder
<1>3. issued \union {q} = {longer[i] : i \in 1..Len(longer)}
  BY <1>1 DEF IssuedFollowsOrder
<1> HIDE DEF longer
<1>4. CASE Len(longer) > MaxIssued
  <2>1. order' = Tail(longer) /\ issued' = (issued \ {Head(longer)}) \union {q}
    BY <1>4 DEF remember, longer
  <2>2. /\ Len(order') = Len(longer) - 1
        /\ \A i \in 1..Len(order') : order'[i] = longer[i + 1]
    BY <1>1, <2>1
  <2>3. Len(order') <= MaxIssued
    BY <1>1, <2>2, MaxIssuedAssumption DEF IssuedFollowsOrder
  <2>4. \A i, j \in 1..Len(order') : order'[i] = order'[j] => i = j
    BY <1>1, <1>2, <2>2
  <2>5. Head(longer) = longer[1] /\ Len(order) \in Nat /\ Len(order) >= 1
    BY <1>1, <1>4, MaxIssuedAssumption
  <2>6. Head(longer) # q
    BY <1>1, <1>2, <2>5
  <2>7. issued' = {longer[i] : i \in 2..Len(longer)}
    BY <1>1, <1>2, <1>3, <2>1, <2>5, <2>6
  <2>8. issued' = {order'[i] : i \in 1..Len(order')}
    <3>1. ASSUME NEW i \in 2..Len(longer)
          PROVE  i - 1 \in 1..Len(order') /\ order'[i - 1] = longer[i]
      BY <1>1, <2>2
    <3>2. QED
      BY <1>1, <2>2, <2>7, <3>1
  <2>9. QED
    BY <2>3, <2>4, <2>8 DEF IssuedFollowsOrder
<1>5. CASE ~ (Len(longer) > MaxIssued)
  <2>1. order' = longer /\ issued' = issued \union {q}
    BY <1>5 DEF remember, longer
  <2>2. QED
    BY <1>1, <1>2, <1>3, <1>5, <2>1, MaxIssuedAssumption DEF IssuedFollowsOrder
<1>6. QED
  BY <1>4, <1>5

\* Quote's map and list agree and are bounded (Quote).
THEOREM IssuedIsBounded == GateSpec => []IssuedFollowsOrder
<1>1. GateInit => IssuedFollowsOrder
  <2> SUFFICES ASSUME order = <<>>, issued = {} PROVE IssuedFollowsOrder
    BY DEF GateInit
  <2>1. Len(order) = 0 /\ 1..Len(order) = {}
    OBVIOUS
  <2>2. QED
    BY <2>1, MaxIssuedAssumption DEF IssuedFollowsOrder
<1>2. ASSUME GateIInv, IssuedFollowsOrder, [GateNext]_gateVars
      PROVE  IssuedFollowsOrder'
  <2>1. ASSUME UNCHANGED <<order, issued>> PROVE IssuedFollowsOrder'
    BY <1>2, <2>1 DEF IssuedFollowsOrder
  <2>2. ASSUME NEW q \in Quotes, Quote(q) PROVE IssuedFollowsOrder'
    BY <1>2, <2>1, <2>2, RememberFollows DEF Quote, GateIInv, GateTypeOK
  <2>3. CASE WorkerCalls
    BY <2>1, <2>2, <2>3 DEF WorkerCalls, ProveBootKey, JudgeReceipt, Report,
       ReportOver, TakeRelease
  <2>4. CASE Taking
    BY <2>1, <2>4 DEF Taking, LockForSalt, SaltOpens, SaltRefused, LockForKeyboard,
       KeyboardOpens, KeyboardRefused, StoreSalt, EndRelease, TakeStep
  <2>5. QED
    BY <1>2, <2>1, <2>3, <2>4 DEF GateNext, SetUp, ExpectRelease,
       ReleaseWaitPasses, StatusGivesUp, Forget, PhoneSigns, BootCloses
<1>3. QED
  BY <1>1, <1>2, GateInvariance, PTL DEF GateSpec

\* No step takes a slot from a verdict back (Report, JudgeReceipt).  It needs
\* the invariant: setup, which sets the state unasked, is over by then.
THEOREM VerdictIsKept == GateSpec => VerdictStays
<1> DEFINE Keeps == [IsVerdict(state) => IsVerdict(state')]_gateVars
<1>1. GateIInv /\ [GateNext]_gateVars => Keeps
  <2> SUFFICES ASSUME GateIInv, GateNext, IsVerdict(state) PROVE IsVerdict(state')
    OBVIOUS
  <2>1. ASSUME NEW o \in {"serving", "tampered", "failed"}, SetUp(o)
        PROVE  IsVerdict(state')
    BY <2>1 DEF SetUp, GateIInv, OnlyWhenServing, RefusedByRecord, IsVerdict
  <2>2. ASSUME NEW r \in Receipts, JudgeReceipt(r) PROVE IsVerdict(state')
    <3>1. CASE receiptState(CheckReceipt(r), r.verdict) = ""
      BY <2>2, <3>1 DEF JudgeReceipt
    <3>2. CASE receiptState(CheckReceipt(r), r.verdict) # ""
      BY <2>2, <3>2 DEF JudgeReceipt, receiptState, IsVerdict
    <3>3. QED
      BY <3>1, <3>2
  <2>3. ASSUME NEW s \in GateStates, Report(s) PROVE IsVerdict(state')
    BY <2>3 DEF Report, reportable
  <2>4. ASSUME UNCHANGED state PROVE IsVerdict(state')
    BY <2>4
  <2>5. CASE Taking
    BY <2>5, <2>4 DEF Taking, LockForSalt, SaltOpens, SaltRefused, LockForKeyboard,
       KeyboardOpens, KeyboardRefused, StoreSalt, EndRelease, TakeStep
  <2>6. CASE WorkerCalls
    BY <2>6, <2>2, <2>3, <2>4 DEF WorkerCalls, Quote, ProveBootKey, ReportOver,
       TakeRelease
  <2>7. QED
    BY <2>1, <2>4, <2>5, <2>6 DEF GateNext, ExpectRelease, ReleaseWaitPasses,
       StatusGivesUp, Forget, PhoneSigns, BootCloses
<1>2. QED
  BY <1>1, GateInvariance, PTL DEF GateSpec, VerdictStays
-----------------------------------------------------------------------------
(* The boot.                                                              *)

HIDE DEF quoteVars, statusVars, takeVars, fixedVars, gateVars

\* A call of the worker, answered, is one WorkerCalls allows.
LEMMA AnswerIsGateStep ==
  ASSUME req \in Calls, Answer
  PROVE  [GateNext]_gateVars
<1>1. CASE req[1] = "report" /\ Report(req[2])
  <2>1. req[2] \in GateStates
    BY <1>1 DEF Report, GateStates
  <2>2. QED
    BY <1>1, <2>1 DEF GateNext, WorkerCalls
<1>2. CASE req[1] = "over" /\ ReportOver
  BY <1>2 DEF GateNext, WorkerCalls
<1>3. CASE req[1] = "quote" /\ Quote(req[2])
  <2>1. req[2] \in Quotes
    BY <1>3 DEF Calls
  <2>2. QED
    BY <1>3, <2>1 DEF GateNext, WorkerCalls
<1>4. CASE req[1] = "judge" /\ JudgeReceipt(req[2])
  <2>1. req[2] \in Receipts
    BY <1>4 DEF Calls
  <2>2. QED
    BY <1>4, <2>1 DEF GateNext, WorkerCalls
<1>5. CASE req[1] = "release" /\ TakeRelease(req[2])
  <2>1. req[2] \in Releases
    BY <1>5 DEF Calls
  <2>2. QED
    BY <1>5, <2>1 DEF GateNext, WorkerCalls
<1>6. QED
  BY <1>1, <1>2, <1>3, <1>4, <1>5 DEF Answer

\* The worker's own steps leave the gate alone.
LEMMA WorkerLeavesGate ==
  ASSUME Worker \/ WorkerDies
  PROVE  UNCHANGED gateVars
<1>1. ASSUME NEW from, NEW to, WorkerStep(from, to) PROVE UNCHANGED gateVars
  BY <1>1 DEF WorkerStep
<1>2. QED
  BY <1>1 DEF Worker, WorkerDies, WorkerStarts, AdapterReady, RadioFails, PhoneConnects,
     AsksQuote, HandsReceipt, HandsRelease, SessionEnds

LEMMA VaultLeavesGate ==
  ASSUME Vault
  PROVE  UNCHANGED gateVars
<1>1. ASSUME NEW from, NEW to, VaultStep(from, to) PROVE UNCHANGED gateVars
  BY <1>1 DEF VaultStep
<1>2. ASSUME NEW from, NEW m, SlotTried(from, m) PROVE UNCHANGED gateVars
  BY <1>1, <1>2 DEF SlotTried
<1>3. QED
  BY <1>1, <1>2 DEF Vault, VaultLocal, VaultAsks, VaultOpens, VaultOffers

LEMMA HoldIsGateStep ==
  ASSUME Hold
  PROVE  [GateNext]_gateVars
<1>1. CASE StartsParts
  BY <1>1 DEF StartsParts, GateNext
<1>2. CASE LooksAtPhone
  BY <1>2 DEF LooksAtPhone, Status, GateNext
<1>3. CASE TimeIsUp \/ (\E c \in Confirmers : Confirmed(c)) \/ ScanFails \/ PartsDone
  BY <1>3 DEF TimeIsUp, Confirmed, ScanFails, PartsDone
<1>4. QED
  BY <1>1, <1>2, <1>3 DEF Hold

LEMMA ReleaseIsGateStep ==
  ASSUME Release
  PROVE  [GateNext]_gateVars
<1>1. CASE ClosesBoot
  BY <1>1 DEF ClosesBoot, GateNext
<1>2. CASE CancelsVault \/ VaultReleased \/ ConsoleReleased \/ SSHReleased \/ StopsWorker
           \/ LocksTPM \/ SendsReady
  BY <1>2 DEF CancelsVault, VaultReleased, ConsoleReleased, SSHReleased, StopsWorker,
     LocksTPM, SendsReady
<1>3. QED
  BY <1>1, <1>2 DEF Release

LEMMA ProviderIsGateStep ==
  ASSUME Provider \/ VolumeAsks
  PROVE  [GateNext]_gateVars
<1>1. CASE ProviderWaits
  BY <1>1 DEF ProviderWaits, GateNext
<1>2. CASE MakesKey \/ TakesLayout \/ TakesSalt \/ TakesVaultKey \/ VolumeAsks
  BY <1>2 DEF MakesKey, TakesLayout, TakesSalt, TakesVaultKey, VolumeAsks
<1>3. QED
  BY <1>1, <1>2 DEF Provider

\* Every step of the boot is a step of the coordinator, or not one of its.
LEMMA NextIsGateStep ==
  GateTypeOK /\ req \in Calls /\ [Next]_vars => [GateNext]_gateVars
<1> SUFFICES ASSUME GateTypeOK, req \in Calls, [Next]_vars
             PROVE  [GateNext]_gateVars
  OBVIOUS
<1>1. CASE Worker \/ WorkerDies
  BY <1>1, WorkerLeavesGate
<1>2. CASE PhoneDecides
  <2>1. PICK v \in Verdicts : PhoneSigns(quote, v)
    BY <1>2 DEF PhoneDecides
  <2>2. quote \in Quotes
    BY <2>1 DEF PhoneSigns, GateTypeOK
  <2>3. QED
    BY <2>1, <2>2 DEF GateNext
<1>3. CASE Answer
  BY <1>3, AnswerIsGateStep
<1>4. CASE Coordinator
  BY <1>4 DEF Coordinator, GateNext
<1>5. CASE Vault
  BY <1>5, VaultLeavesGate
<1>6. CASE (\E c \in {"console", "ssh"} : Presses(c)) \/ (\E c \in Confirmers : OfferQuits(c))
           \/ Tick \/ VaultSettlePasses
  BY <1>6 DEF Presses, OfferQuits, Tick, VaultSettlePasses
<1>7. CASE Hold
  BY <1>7, HoldIsGateStep
<1>8. CASE Release
  BY <1>8, ReleaseIsGateStep
<1>9. CASE ImageCloses
  BY <1>9 DEF ImageCloses, GateNext
<1>10. CASE RunStops
  BY <1>10 DEF RunStops, GateNext
<1>11. CASE Provider \/ VolumeAsks
  BY <1>11, ProviderIsGateStep
<1>12. CASE Done \/ UNCHANGED vars
  BY <1>12 DEF Done, vars
<1>13. QED
  BY <1>1, <1>2, <1>3, <1>4, <1>5, <1>6, <1>7, <1>8, <1>9, <1>10, <1>11, <1>12 DEF Next

----------------------------------------------------------------------------
\* Initially no call is under way and nothing is released.
LEMMA InitInv == Init => IInv
<1> SUFFICES ASSUME Init PROVE IInv
  OBVIOUS
<1>1. GateIInv
  BY GateInitInv DEF Init
<1>2. req \in Calls
  BY DEF Init, Calls
<1>3. PhoneEndsTheHold /\ ReleaseOrder
  BY DEF Init, PhoneEndsTheHold, ReleaseOrder, KeysAfterTheClose, AfterHold, AfterVault,
     AfterConsole, AfterSSH, AfterStop
<1>4. QED
  BY <1>1, <1>2, <1>3 DEF IInv

\* The calls stay calls: a new one is built of quotes, receipts and releases.
LEMMA CallsInv ==
  ASSUME req \in Calls, [Next]_vars
  PROVE  req' \in Calls
<1>1. CASE Worker
  <2>1. CASE AsksQuote
    BY <2>1 DEF AsksQuote, Ask, Calls
  <2>2. CASE HandsReceipt
    <3>1. PICK r \in Receipts : req' = <<"judge", r>>
      BY <2>2 DEF HandsReceipt, Ask, SessionReceipts
    <3>2. QED
      BY <3>1 DEF Calls
  <2>3. CASE HandsRelease
    BY <2>3 DEF HandsRelease, Ask, Calls
  <2>4. CASE AdapterReady \/ RadioFails \/ PhoneConnects \/ SessionEnds
    BY <2>4 DEF AdapterReady, RadioFails, PhoneConnects, SessionEnds, Ask, Calls
  <2>5. CASE WorkerStarts
    BY <2>5 DEF WorkerStarts
  <2>6. QED
    BY <1>1, <2>1, <2>2, <2>3, <2>4, <2>5 DEF Worker
<1>2. CASE Answer
  BY <1>2 DEF Answer, Calls
<1>3. CASE ~ Worker /\ ~ Answer
  <2>1. CASE Vault
    BY <2>1 DEF Vault, VaultLocal, VaultAsks, VaultOpens, VaultOffers, SlotTried, VaultStep,
       workerVars
  <2>2. CASE Hold
    BY <2>2 DEF Hold, StartsParts, LooksAtPhone, TimeIsUp, Confirmed, ScanFails, PartsDone,
       workerVars
  <2>3. CASE Release
    BY <2>3 DEF Release, CancelsVault, VaultReleased, ConsoleReleased, SSHReleased,
       StopsWorker, LocksTPM, ClosesBoot, SendsReady, workerVars
  <2>4. CASE Provider \/ VolumeAsks
    BY <2>4 DEF Provider, MakesKey, ProviderWaits, TakesLayout, TakesSalt, TakesVaultKey,
       VolumeAsks, KeyStep, workerVars
  <2>5. CASE PhoneDecides \/ WorkerDies \/ Coordinator \/ Tick \/ VaultSettlePasses
             \/ ImageCloses \/ RunStops \/ Done \/ UNCHANGED vars
    BY <2>5 DEF PhoneDecides, WorkerDies, Coordinator, Tick, VaultSettlePasses, ImageCloses,
       RunStops, Done, vars, workerVars
  <2>6. CASE (\E c \in {"console", "ssh"} : Presses(c)) \/ (\E c \in Confirmers : OfferQuits(c))
    BY <2>6 DEF Presses, OfferQuits, workerVars
  <2>7. QED
    BY <1>3, <2>1, <2>2, <2>3, <2>4, <2>5, <2>6 DEF Next
<1>4. QED
  BY <1>1, <1>2, <1>3

\* Nobody takes back a quote given out or a verdict signed.
LEMMA EvidenceStays ==
  ASSUME [GateNext]_gateVars
  PROVE  given \subseteq given' /\ signed \subseteq signed'
<1> USE DEF quoteVars, statusVars, takeVars, fixedVars, gateVars
<1>1. CASE WorkerCalls
  BY <1>1 DEF WorkerCalls, Quote, ProveBootKey, JudgeReceipt, Report, ReportOver, TakeRelease
<1>2. CASE Taking
  BY <1>2 DEF Taking, TakeStep, LockForSalt, SaltOpens, SaltRefused, LockForKeyboard,
     KeyboardOpens, KeyboardRefused, StoreSalt, EndRelease
<1>3. CASE \E q \in Quotes, v \in Verdicts : PhoneSigns(q, v)
  BY <1>3 DEF PhoneSigns
<1>4. CASE (\E o \in {"serving", "tampered", "failed"} : SetUp(o)) \/ ExpectRelease
           \/ ReleaseWaitPasses \/ StatusGivesUp \/ Forget \/ BootCloses \/ UNCHANGED gateVars
  BY <1>4 DEF SetUp, ExpectRelease, ReleaseWaitPasses, StatusGivesUp, Forget, BootCloses
<1>5. QED
  BY <1>1, <1>2, <1>3, <1>4 DEF GateNext

\* Steps that leave the hold and its release, the quit channels, the links and
\* the key where they are.
Aside == UNCHANGED <<screen, why, quits, link, key>>

LEMMA StepsAside ==
  ASSUME \/ Worker \/ PhoneDecides \/ WorkerDies \/ Answer \/ Coordinator
         \/ Vault \/ (\E c \in {"console", "ssh"} : Presses(c))
         \/ (\E c \in Confirmers : OfferQuits(c)) \/ Tick \/ VaultSettlePasses
         \/ ImageCloses \/ ProviderWaits \/ Done \/ UNCHANGED vars
  PROVE  Aside
<1> USE DEF Aside, holdVars, offerVars, vaultVars, workerVars, keyVars
<1>1. CASE Worker \/ WorkerDies
  <2>1. ASSUME NEW from, NEW to, WorkerStep(from, to) PROVE Aside
    BY <2>1 DEF WorkerStep
  <2>2. QED
    BY <1>1, <2>1 DEF Worker, WorkerDies, WorkerStarts, AdapterReady, RadioFails,
       PhoneConnects, AsksQuote, HandsReceipt, HandsRelease, SessionEnds
<1>2. CASE PhoneDecides \/ Answer \/ Coordinator
  BY <1>2 DEF PhoneDecides, Answer, Coordinator
<1>3. CASE Vault
  <2>1. ASSUME NEW from, NEW to, VaultStep(from, to) PROVE Aside
    BY <2>1 DEF VaultStep
  <2>2. QED
    BY <1>3, <2>1 DEF Vault, VaultLocal, VaultAsks, VaultOpens, VaultOffers, SlotTried
<1>4. CASE (\E c \in {"console", "ssh"} : Presses(c)) \/ (\E c \in Confirmers : OfferQuits(c))
           \/ Tick \/ VaultSettlePasses
  BY <1>4 DEF Presses, OfferQuits, Tick, VaultSettlePasses
<1>5. CASE ImageCloses \/ ProviderWaits \/ Done \/ UNCHANGED vars
  BY <1>5 DEF ImageCloses, ProviderWaits, Done, vars
<1>6. QED
  BY <1>1, <1>2, <1>3, <1>4, <1>5

\* The hold ends on the phone's word when the gate says attested, and what the
\* gate says is the phone's (AttestedIsThePhones).
LEMMA PhoneEndsInv ==
  ASSUME IInv, [Next]_vars
  PROVE  PhoneEndsTheHold'
<1>1. given \subseteq given' /\ signed \subseteq signed'
  BY NextIsGateStep, EvidenceStays DEF IInv, GateIInv
<1>2. ASSUME why' = why PROVE PhoneEndsTheHold'
  BY <1>1, <1>2 DEF IInv, PhoneEndsTheHold
<1>3. CASE LooksAtPhone
  <2>1. CASE why' = why
    BY <1>2, <2>1
  <2>2. CASE why' # why
    <3>1. state = "attested"
      BY <1>3, <2>2 DEF LooksAtPhone, StatusNow, IsReleased
    <3>2. AttestedIsThePhones
      BY DEF IInv, GateIInv
    <3>3. QED
      BY <1>1, <3>1, <3>2 DEF AttestedIsThePhones, PhoneEndsTheHold
  <2>3. QED
    BY <2>1, <2>2
<1>4. CASE TimeIsUp \/ (\E c \in Confirmers : Confirmed(c)) \/ PartsDone \/ ScanFails
  <2>1. why' = why \/ why' # "phone"
    BY <1>4 DEF TimeIsUp, Confirmed, PartsDone, ScanFails, Ends
  <2>2. QED
    BY <1>2, <2>1 DEF PhoneEndsTheHold
<1>5. CASE StartsParts \/ Release \/ RunStops \/ VolumeAsks \/ MakesKey \/ TakesLayout
           \/ TakesSalt \/ TakesVaultKey
  <2>1. why' = why
    BY <1>5 DEF StartsParts, Release, CancelsVault, VaultReleased, ConsoleReleased,
       SSHReleased, StopsWorker, LocksTPM, ClosesBoot, SendsReady, ReleaseStep, RunStops,
       VolumeAsks, MakesKey, TakesLayout, TakesSalt, TakesVaultKey, KeyStep, holdVars
  <2>2. QED
    BY <1>2, <2>1
<1>6. CASE ~ Hold /\ ~ Release /\ ~ RunStops /\ ~ VolumeAsks
           /\ ~ (MakesKey \/ TakesLayout \/ TakesSalt \/ TakesVaultKey)
  <2>1. why' = why
    BY <1>6, StepsAside DEF Next, Provider, Aside
  <2>2. QED
    BY <1>2, <2>1
<1>7. QED
  BY <1>3, <1>4, <1>5, <1>6 DEF Hold

\* The release keeps its order: each step finds the ones before it done.
LEMMA ReleaseOrderInv ==
  ASSUME ReleaseOrder, [Next]_vars
  PROVE  ReleaseOrder'
<1> USE DEF AfterHold, AfterVault, AfterConsole, AfterSSH, AfterStop, Confirmers
<1>1. ASSUME Aside PROVE ReleaseOrder'
  BY <1>1 DEF Aside, ReleaseOrder, KeysAfterTheClose
<1>2. CASE Hold
  <2>1. CASE StartsParts
    BY <2>1 DEF StartsParts, ReleaseOrder, KeysAfterTheClose, offerVars, workerVars, keyVars
  <2>2. ASSUME screen \in {"hold", "parts"}, screen' = "vault", why' # "",
               quits' = quits, link' = link, key' = key
        PROVE  ReleaseOrder'
    BY <2>2 DEF ReleaseOrder, KeysAfterTheClose
  <2>3. CASE LooksAtPhone
    <3>1. CASE Ends("phone", "")
      BY <2>2, <2>3, <3>1 DEF LooksAtPhone, Ends, offerVars, workerVars, keyVars
    <3>2. CASE ~ Ends("phone", "")
      BY <1>1, <2>3, <3>2 DEF LooksAtPhone, Aside, offerVars, workerVars, keyVars
    <3>3. QED
      BY <3>1, <3>2
  <2>4. CASE TimeIsUp \/ PartsDone \/ (\E c \in Confirmers : Confirmed(c))
    BY <2>2, <2>4 DEF TimeIsUp, PartsDone, Confirmed, Ends, offerVars, workerVars, keyVars
  <2>5. CASE ScanFails
    <3>1. CASE Ends("parts", "")
      BY <2>2, <2>5, <3>1 DEF ScanFails, Ends, offerVars, workerVars, keyVars
    <3>2. CASE ~ Ends("parts", "")
      BY <2>5, <3>2 DEF ScanFails, ReleaseOrder, KeysAfterTheClose, offerVars, workerVars,
         keyVars
    <3>3. QED
      BY <3>1, <3>2
  <2>6. QED
    BY <1>2, <2>1, <2>3, <2>4, <2>5 DEF Hold
<1>3. CASE Release
  <2>1. CASE CancelsVault
    BY <2>1 DEF CancelsVault, ReleaseOrder, KeysAfterTheClose, holdVars, workerVars, keyVars
  <2>2. CASE VaultReleased
    BY <2>2 DEF VaultReleased, ReleaseStep, ReleaseOrder, KeysAfterTheClose, offerVars,
       workerVars, keyVars
  <2>3. CASE ConsoleReleased \/ SSHReleased
    BY <2>3 DEF ConsoleReleased, SSHReleased, ReleaseStep, ReleaseOrder, KeysAfterTheClose,
       workerVars, keyVars
  <2>4. CASE StopsWorker
    BY <2>4 DEF StopsWorker, ReleaseStep, ReleaseOrder, KeysAfterTheClose, offerVars, keyVars
  <2>5. CASE LocksTPM \/ ClosesBoot \/ SendsReady
    <3>1. /\ <<screen, screen'>> \in {<<"lock", "close">>, <<"close", "ready">>, <<"ready", "over">>}
          /\ UNCHANGED <<why, quits, link, key>>
      BY <2>5 DEF LocksTPM, ClosesBoot, SendsReady, ReleaseStep, offerVars, workerVars, keyVars
    <3>2. QED
      BY <3>1 DEF ReleaseOrder, KeysAfterTheClose
  <2>6. QED
    BY <1>3, <2>1, <2>2, <2>3, <2>4, <2>5 DEF Release
<1>4. CASE RunStops
  BY <1>4 DEF RunStops, ReleaseOrder, KeysAfterTheClose, offerVars, keyVars
<1>5. CASE VolumeAsks
  BY <1>5 DEF VolumeAsks, KeyStep, ReleaseOrder, KeysAfterTheClose, holdVars, offerVars,
     workerVars
<1>6. CASE MakesKey
  BY <1>6 DEF MakesKey, answering, KeyStep, ReleaseOrder, KeysAfterTheClose, holdVars,
     offerVars, workerVars
<1>7. CASE TakesLayout \/ TakesSalt \/ TakesVaultKey
  <2>1. key \in {"keyboard", "salt", "vault"} /\ UNCHANGED <<screen, why, quits, link>>
    BY <1>7 DEF TakesLayout, TakesSalt, TakesVaultKey, KeyStep, holdVars, offerVars, workerVars
  <2>2. QED
    BY <2>1 DEF ReleaseOrder, KeysAfterTheClose
<1>8. CASE ~ Hold /\ ~ Release /\ ~ RunStops /\ ~ VolumeAsks
           /\ ~ (MakesKey \/ TakesLayout \/ TakesSalt \/ TakesVaultKey)
  BY <1>1, <1>8, StepsAside DEF Next, Provider
<1>9. QED
  BY <1>2, <1>3, <1>4, <1>5, <1>6, <1>7, <1>8

LEMMA NextInv == IInv /\ [Next]_vars => IInv'
<1> SUFFICES ASSUME IInv, [Next]_vars PROVE IInv'
  OBVIOUS
<1>1. GateIInv'
  BY NextIsGateStep, GateNextInv DEF IInv, GateIInv
<1>2. req' \in Calls
  BY CallsInv DEF IInv
<1>3. PhoneEndsTheHold'
  BY PhoneEndsInv
<1>4. ReleaseOrder'
  BY ReleaseOrderInv DEF IInv
<1>5. QED
  BY <1>1, <1>2, <1>3, <1>4 DEF IInv

\* The inductive invariant holds in every state of the boot.
THEOREM Invariance == Spec => []IInv
  BY InitInv, NextInv, PTL DEF Spec

\* The boot implements the coordinator's specification: what is
\* proved of it for any worker holds of the worker, the code screen, the vault, the
\* confirmations and the key provider together.
THEOREM ScreenImplementsGate == Spec => ImplementsGate
<1>1. Init => GateInit
  BY DEF Init
<1>2. IInv /\ [Next]_vars => [GateNext]_gateVars
  BY NextIsGateStep DEF IInv, GateIInv
<1>3. QED
  BY <1>1, <1>2, Invariance, PTL DEF Spec, ImplementsGate, GateSpec

\* The hold ends on the phone's word only with a phone's signature over a quote
\* of this boot (holdForConfirmation, GateStatus.Released).
THEOREM OnlyThePhoneEndsTheHold == Spec => []PhoneEndsTheHold
<1>1. IInv => PhoneEndsTheHold
  BY DEF IInv
<1>2. QED
  BY <1>1, Invariance, PTL

\* No volume's key is made before the release is over (parts.release,
\* unlockPart.released).
THEOREM KeysComeLast == Spec => []KeysAfterTheClose
<1>1. IInv => KeysAfterTheClose
  BY DEF IInv, ReleaseOrder
<1>2. QED
  BY <1>1, Invariance, PTL

----------------------------------------------------------------------------
(* The release closes over nothing, and the key gets the phone's salt.     *)

\* A phone's release is on its way to the salt held.
Pending == req[1] = "release" \/ take \notin {"idle", "ending"}

\* The worker has one call at a time, and says that its session is over only
\* when it has none of it left.
OneCall ==
  /\ take # "idle" => req[1] = "none"
  /\ req[1] = "over" => ~ accepted
  /\ worker \notin {"judged", "released", "gone"} => ~ accepted

\* A boot takes one release: the worker hands in one and is then gone, and the
\* salt of another is never there before.
OneRelease ==
  /\ worker \notin {"released", "gone"} => ~ Pending /\ take = "idle" /\ salt = NoRelease
  /\ Pending => salt = NoRelease
  /\ take \in {"opened", "keyboard", "ready"} => releaseKey

\* From the accepted receipt on the gate says that it is releasing, until the
\* release is taken, unless it gave up, did not expect one, or cannot open it.
ReleaseAwaited ==
  (accepted /\ worker = "judged") \/ Pending => releasing \/ overdue \/ early \/ ~ releaseKey

\* What the key provider has taken so far.
KeyTakes ==
  /\ DOMAIN got = {"salt", "layout"}
  /\ key \in {"none", "asked", "keyboard", "vault"} => got.layout = NoRelease
  /\ key # "answered" => got.salt = NoRelease
  /\ key = "keyboard" => recipe = "phoneKeyboard"
  /\ key = "vault" => recipe = "vault"
  /\ got.layout # NoRelease /\ Runs => got.layout = salt
  /\ got.layout # NoRelease /\ got.salt # NoRelease => got.layout = got.salt

\* A volume that went without the salt: none comes any more, or it was known
\* that one may.
WentWithout ==
  key = "answered" /\ recipe = "phoneSalt" /\ got.salt = NoRelease =>
    \/ early
    \/ salt = NoRelease /\ (~ Pending \/ ~ releaseKey)
    \/ overdue /\ req[1] \in {"none", "release"}

SaltInv == OneCall /\ OneRelease /\ ReleaseAwaited /\ KeyTakes /\ WentWithout

\* Steps that leave the calls, the release and the key where they are.
saltVars == <<req, take, accepted, worker, salt, releaseKey, releasing, overdue, early,
              key, recipe, got>>

LEMMA SaltAside ==
  ASSUME SaltInv, UNCHANGED saltVars, Runs' => Runs
  PROVE  SaltInv'
<1> USE DEF saltVars
<1>1. OneCall'
  BY DEF SaltInv, OneCall
<1>2. OneRelease'
  BY DEF SaltInv, OneRelease, Pending
<1>3. ReleaseAwaited'
  BY DEF SaltInv, ReleaseAwaited, Pending
<1>4. KeyTakes'
  BY DEF SaltInv, KeyTakes
<1>5. WentWithout'
  BY DEF SaltInv, WentWithout, Pending
<1> QED
  BY <1>1, <1>2, <1>3, <1>4, <1>5 DEF SaltInv

\* What the key provider has, when neither it nor the salt moves.
LEMMA KeyTakesAside ==
  ASSUME KeyTakes, UNCHANGED <<key, recipe, got, salt>>, Runs' => Runs
  PROVE  KeyTakes'
  BY DEF KeyTakes

\* The worker has a call to make only while its connection is open: no volume
\* has been answered then.
LEMMA AskedBeforeKeys ==
  ASSUME ReleaseOrder, link
  PROVE  key # "answered"
  BY DEF ReleaseOrder, KeysAfterTheClose

\* A call of the worker that hands in no release.
LEMMA AskKeeps ==
  ASSUME SaltInv, ReleaseOrder, MayAsk, req'[1] # "release",
         req'[1] = "over" => ~ accepted',
         worker' \notin {"judged", "released", "gone"} => ~ accepted',
         worker' \notin {"released", "gone"} => worker \notin {"released", "gone"},
         accepted' /\ worker' = "judged" => accepted /\ worker = "judged",
         UNCHANGED <<take, salt, releaseKey, releasing, overdue, early, key, recipe, got, screen>>
  PROVE  SaltInv'
<1>1. take = "idle" /\ req[1] = "none" /\ link
  BY DEF MayAsk, Free
<1>2. ~ Pending /\ ~ Pending'
  BY <1>1 DEF Pending
<1>3. OneCall'
  BY <1>1 DEF OneCall
<1>4. OneRelease'
  BY <1>1, <1>2 DEF SaltInv, OneRelease
<1>5. ReleaseAwaited'
  BY <1>2 DEF SaltInv, ReleaseAwaited
<1>6. KeyTakes'
  BY KeyTakesAside DEF SaltInv, Runs
<1>7. WentWithout'
  BY <1>1, AskedBeforeKeys DEF WentWithout
<1> QED
  BY <1>3, <1>4, <1>5, <1>6, <1>7 DEF SaltInv

\* What a step of the worker leaves alone.
LEMMA WorkerStepLeaves ==
  ASSUME NEW from, NEW to, WorkerStep(from, to)
  PROVE  /\ worker = from /\ worker' = to
         /\ UNCHANGED <<take, salt, releaseKey, releasing, overdue, early, key, recipe, got, screen>>
  BY DEF WorkerStep, gateVars, holdVars, keyVars

LEMMA WorkerKeepsSalt ==
  ASSUME SaltInv, ReleaseOrder, Worker
  PROVE  SaltInv'
<1>1. CASE WorkerStarts
  <2>1. MayAsk /\ UNCHANGED <<accepted, req>>
    BY <1>1 DEF WorkerStarts
  <2>2. req'[1] = "none"
    BY <2>1 DEF MayAsk
  <2>3. PICK to \in {"adapter", "gone"} : WorkerStep("identity", to)
    BY <1>1 DEF WorkerStarts
  <2>4. /\ worker = "identity" /\ worker' = to
        /\ UNCHANGED <<take, salt, releaseKey, releasing, overdue, early, key, recipe, got, screen>>
    BY <2>3, WorkerStepLeaves
  <2> QED
    BY <2>1, <2>2, <2>3, <2>4, AskKeeps DEF SaltInv, OneCall
<1>2. CASE AdapterReady
  <2>1. MayAsk /\ req' = <<"report", "waiting">> /\ WorkerStep("adapter", "waiting")
        /\ accepted' = accepted
    BY <1>2 DEF AdapterReady, Ask
  <2>2. req'[1] = "report"
    BY <2>1
  <2>3. /\ worker = "adapter" /\ worker' = "waiting"
        /\ UNCHANGED <<take, salt, releaseKey, releasing, overdue, early, key, recipe, got, screen>>
    BY <2>1, WorkerStepLeaves
  <2> QED
    BY <2>1, <2>2, <2>3, AskKeeps DEF SaltInv, OneCall
<1>3. CASE RadioFails
  <2>1. MayAsk /\ req' = <<"report", "unavailable">> /\ accepted' = accepted
    BY <1>3 DEF RadioFails, Ask
  <2>2. req'[1] = "report"
    BY <2>1
  <2>3. PICK w \in {"adapter", "waiting"} : WorkerStep(w, "gone")
    BY <1>3 DEF RadioFails
  <2>4. /\ worker = w /\ worker' = "gone"
        /\ UNCHANGED <<take, salt, releaseKey, releasing, overdue, early, key, recipe, got, screen>>
    BY <2>3, WorkerStepLeaves
  <2> QED
    BY <2>1, <2>2, <2>4, AskKeeps DEF SaltInv, OneCall
<1>4. CASE PhoneConnects
  <2>1. MayAsk /\ req' = <<"report", "session">> /\ WorkerStep("waiting", "session")
    BY <1>4 DEF PhoneConnects, Ask
  <2>2. req'[1] = "report" /\ ~ accepted'
    BY <1>4, <2>1 DEF PhoneConnects
  <2>3. /\ worker = "waiting" /\ worker' = "session"
        /\ UNCHANGED <<take, salt, releaseKey, releasing, overdue, early, key, recipe, got, screen>>
    BY <2>1, WorkerStepLeaves
  <2>4. /\ req'[1] # "release"
        /\ req'[1] = "over" => ~ accepted'
        /\ worker' \notin {"judged", "released", "gone"} => ~ accepted'
        /\ worker' \notin {"released", "gone"} => worker \notin {"released", "gone"}
        /\ accepted' /\ worker' = "judged" => accepted /\ worker = "judged"
    BY <2>2, <2>3
  <2> QED
    BY <2>1, <2>3, <2>4, AskKeeps DEF SaltInv, OneCall
<1>5. CASE AsksQuote
  <2>1. PICK q \in Quotes \ given : Ask(<<"quote", q>>) /\ WorkerStep("session", "quoted")
                                    /\ accepted' = accepted
    BY <1>5 DEF AsksQuote
  <2>2. MayAsk /\ req'[1] = "quote"
    BY <2>1 DEF Ask
  <2>3. /\ worker = "session" /\ worker' = "quoted"
        /\ UNCHANGED <<take, salt, releaseKey, releasing, overdue, early, key, recipe, got, screen>>
    BY <2>1, WorkerStepLeaves
  <2> QED
    BY <2>1, <2>2, <2>3, AskKeeps DEF SaltInv, OneCall
<1>6. CASE HandsReceipt
  <2>1. PICK r \in SessionReceipts : Ask(<<"judge", r>>) /\ WorkerStep("quoted", "judged")
                                     /\ accepted' = accepted
    BY <1>6 DEF HandsReceipt
  <2>2. MayAsk /\ req'[1] = "judge"
    BY <2>1 DEF Ask
  <2>3. /\ worker = "quoted" /\ worker' = "judged"
        /\ UNCHANGED <<take, salt, releaseKey, releasing, overdue, early, key, recipe, got, screen>>
    BY <2>1, WorkerStepLeaves
  <2> QED
    BY <2>1, <2>2, <2>3, AskKeeps DEF SaltInv, OneCall
<1>7. CASE HandsRelease
  <2>1. PICK r \in Releases : Ask(<<"release", r>>)
    BY <1>7 DEF HandsRelease
  <2>2. MayAsk /\ req'[1] = "release" /\ req[1] = "none" /\ take = "idle" /\ link
    BY <2>1 DEF Ask, MayAsk, Free
  <2>3. accepted /\ accepted' = accepted /\ WorkerStep("judged", "released")
    BY <1>7 DEF HandsRelease
  <2>4. /\ worker = "judged" /\ worker' = "released"
        /\ UNCHANGED <<take, salt, releaseKey, releasing, overdue, early, key, recipe, got, screen>>
    BY <2>3, WorkerStepLeaves
  <2>5. OneCall'
    BY <2>2, <2>4 DEF OneCall
  <2>6. salt = NoRelease
    BY <2>4 DEF SaltInv, OneRelease
  <2>7. OneRelease'
    BY <2>2, <2>4, <2>6 DEF OneRelease
  <2>8. ReleaseAwaited'
    BY <2>3, <2>4 DEF SaltInv, ReleaseAwaited
  <2>9. KeyTakes'
    BY <2>4, KeyTakesAside DEF SaltInv, Runs
  <2>10. WentWithout'
    BY <2>2, <2>4, AskedBeforeKeys DEF WentWithout
  <2> QED
    BY <2>5, <2>7, <2>8, <2>9, <2>10 DEF SaltInv
<1>8. CASE SessionEnds
  <2>1. CASE Ask(<<"report", "waiting">>) /\ accepted' = accepted
             /\ \E w \in {"session", "quoted"} : WorkerStep(w, "waiting")
    <3>1. MayAsk /\ req'[1] = "report"
      BY <2>1 DEF Ask
    <3>2. PICK w \in {"session", "quoted"} : WorkerStep(w, "waiting")
      BY <2>1
    <3>3. /\ worker = w /\ worker' = "waiting"
          /\ UNCHANGED <<take, salt, releaseKey, releasing, overdue, early, key, recipe, got, screen>>
      BY <3>2, WorkerStepLeaves
    <3> QED
      BY <2>1, <3>1, <3>3, AskKeeps DEF SaltInv, OneCall
  <2>2. CASE Ask(<<"over", "session">>) /\ accepted' = FALSE
             /\ \E w \in {"judged", "released"} : WorkerStep(w, "gone")
    <3>1. MayAsk /\ req'[1] = "over" /\ ~ accepted'
      BY <2>2 DEF Ask
    <3>2. PICK w \in {"judged", "released"} : WorkerStep(w, "gone")
      BY <2>2
    <3>3. /\ worker = w /\ worker' = "gone"
          /\ UNCHANGED <<take, salt, releaseKey, releasing, overdue, early, key, recipe, got, screen>>
      BY <3>2, WorkerStepLeaves
    <3> QED
      BY <3>1, <3>3, AskKeeps DEF SaltInv, OneCall
  <2> QED
    BY <1>8, <2>1, <2>2 DEF SessionEnds
<1> QED
  BY <1>1, <1>2, <1>3, <1>4, <1>5, <1>6, <1>7, <1>8 DEF Worker

\* The worker is gone, whatever ended it.
LEMMA WorkerGoneKeeps ==
  ASSUME SaltInv, worker' \in {worker, "gone"}, ~ accepted' \/ accepted' = accepted,
         UNCHANGED <<req, take, salt, releaseKey, releasing, overdue, early, key, recipe, got>>,
         Runs' => Runs
  PROVE  SaltInv'
<1>1. OneCall'
  BY DEF SaltInv, OneCall
<1>2. OneRelease'
  BY DEF SaltInv, OneRelease, Pending
<1>3. ReleaseAwaited'
  BY DEF SaltInv, ReleaseAwaited, Pending
<1>4. KeyTakes'
  BY KeyTakesAside DEF SaltInv
<1>5. WentWithout'
  BY DEF SaltInv, WentWithout, Pending
<1> QED
  BY <1>1, <1>2, <1>3, <1>4, <1>5 DEF SaltInv

\* A receipt that is accepted makes the slot attested.
LEMMA AcceptedIsAttested ==
  ASSUME NEW r \in Receipts, CheckReceipt(r).ack = "accepted"
  PROVE  receiptState(CheckReceipt(r), r.verdict) = "attested"
<1>1. r.verdict \in Verdicts /\ r.signature \in {"none", "phone", "garbage"}
  BY DEF Receipts
<1>2. CheckReceipt(r) = CheckNamed(r)
  BY DEF CheckReceipt
<1> DEFINE mine == r.signature = "phone" /\ <<r.quote, r.verdict>> \in signed
<1>3. mine \in BOOLEAN /\ (mine => r.signature # "none")
  OBVIOUS
<1>4. CheckNamed(r) =
        CASE r.signature = "none" /\ r.verdict = "reject" ->
               [authentic |-> FALSE, ack |-> "rejectNoted"]
          [] r.signature = "none" /\ r.verdict # "reject" ->
               [authentic |-> FALSE, ack |-> "badSignature"]
          [] r.signature # "none" /\ ~ mine ->
               [authentic |-> FALSE, ack |-> "badSignature"]
          [] mine /\ r.verdict = "reject" ->
               [authentic |-> TRUE, ack |-> "rejectNoted"]
          [] mine /\ r.verdict = "other" ->
               [authentic |-> FALSE, ack |-> "malformed"]
          [] mine /\ r.verdict = "trusted" ->
               [authentic |-> TRUE, ack |-> "accepted"]
  BY DEF CheckNamed
<1> HIDE DEF mine
<1>5. CASE mine /\ r.verdict = "trusted"
  <2>1. CheckNamed(r) = [authentic |-> TRUE, ack |-> "accepted"]
    BY <1>3, <1>4, <1>5
  <2>2. CheckReceipt(r).authentic = TRUE
    BY <1>2, <2>1
  <2> QED
    BY <1>5, <2>2 DEF receiptState
<1>6. CASE ~ (mine /\ r.verdict = "trusted")
  <2>1. CheckNamed(r).ack # "accepted"
    <3>1. CASE r.signature = "none" /\ r.verdict = "reject"
      BY <1>3, <1>4, <3>1
    <3>2. CASE r.signature = "none" /\ r.verdict # "reject"
      BY <1>3, <1>4, <3>2
    <3>3. CASE r.signature # "none" /\ ~ mine
      BY <1>3, <1>4, <3>3
    <3>4. CASE mine /\ r.verdict = "reject"
      BY <1>3, <1>4, <3>4
    <3>5. CASE mine /\ r.verdict = "other"
      BY <1>3, <1>4, <3>5
    <3> QED
      BY <1>1, <1>3, <1>6, <3>1, <3>2, <3>3, <3>4, <3>5 DEF Verdicts
  <2> QED
    BY <1>2, <2>1
<1> QED
  BY <1>5, <1>6

\* An answer that takes no release and judges nothing.
LEMMA AnswerPlain ==
  ASSUME SaltInv, take = "idle", req'[1] = "none", releasing' = releasing \/ ~ accepted,
         early' <=> early,
         UNCHANGED <<take, salt, releaseKey, overdue, worker, accepted,
                     key, recipe, got, screen>>
  PROVE  SaltInv'
<1>1. ~ Pending'
  BY DEF Pending
<1>2. OneCall'
  BY DEF SaltInv, OneCall
<1>3. OneRelease'
  BY <1>1 DEF SaltInv, OneRelease
<1>4. ReleaseAwaited'
  BY <1>1 DEF SaltInv, ReleaseAwaited
<1>5. KeyTakes'
  BY KeyTakesAside DEF SaltInv, Runs
<1>6. WentWithout'
  BY <1>1 DEF SaltInv, WentWithout
<1> QED
  BY <1>2, <1>3, <1>4, <1>5, <1>6 DEF SaltInv

LEMMA JudgeKeepsSalt ==
  ASSUME SaltInv, GateTypeOK, req \in Calls, Answer, req[1] = "judge", JudgeReceipt(req[2])
  PROVE  SaltInv'
<1>1. req[2] \in Receipts
  BY DEF Calls
<1> DEFINE st == receiptState(CheckReceipt(req[2]), req[2].verdict)
<1>2. /\ take = "idle"
      /\ UNCHANGED <<take, salt, releaseKey, expecting>>
  BY DEF JudgeReceipt, Free, takeVars, fixedVars
<1>3. UNCHANGED <<worker, key, recipe, got, screen>> /\ req' = <<"none">>
  BY DEF Answer, keyVars, holdVars
<1>4. req'[1] = "none"
  BY <1>3
<1>5. accepted' => worker = "judged" /\ CheckReceipt(req[2]).ack = "accepted"
  BY DEF Answer
<1>6. (early => early') /\ (~ expecting => early')
  BY DEF Answer
<1>7. CheckReceipt(req[2]).ack = "accepted" => st = "attested"
  BY <1>1, AcceptedIsAttested
<1>8. st = "attested" => (expecting /\ releaseKey => releasing')
  BY DEF JudgeReceipt
<1> HIDE DEF st
<1>9. ~ Pending /\ ~ Pending'
  BY <1>2, <1>4 DEF Pending
<1>10. OneCall'
  BY <1>2, <1>3, <1>4, <1>5 DEF OneCall
<1>11. OneRelease'
  BY <1>2, <1>3, <1>9 DEF SaltInv, OneRelease
<1>12. ReleaseAwaited'
  BY <1>2, <1>5, <1>6, <1>7, <1>8, <1>9 DEF ReleaseAwaited
<1>13. KeyTakes'
  BY <1>2, <1>3, KeyTakesAside DEF SaltInv, Runs
<1>14. WentWithout'
  BY <1>2, <1>3, <1>6, <1>9 DEF SaltInv, WentWithout
<1> QED
  BY <1>10, <1>11, <1>12, <1>13, <1>14 DEF SaltInv

LEMMA AnswerKeepsSalt ==
  ASSUME SaltInv, GateTypeOK, req \in Calls, Answer
  PROVE  SaltInv'
<1>1. UNCHANGED <<worker, key, recipe, got, screen>> /\ req' = <<"none">>
  BY DEF Answer, keyVars, holdVars
<1>2. req'[1] = "none"
  BY <1>1
<1>3. ASSUME req[1] # "judge" PROVE accepted' = accepted /\ (early' <=> early)
  <2>1. accepted' = accepted
    BY <1>3 DEF Answer
  <2>2. early' <=> early
    BY <1>3 DEF Answer
  <2> QED
    BY <2>1, <2>2
<1>4. CASE req[1] = "report" /\ Report(req[2])
  <2>1. take = "idle" /\ UNCHANGED <<take, salt, releaseKey, releasing, overdue>>
    BY <1>4 DEF Report, Free, takeVars, fixedVars
  <2> QED
    BY <1>1, <1>2, <1>3, <1>4, <2>1, AnswerPlain
<1>5. CASE req[1] = "over" /\ ReportOver
  <2>1. take = "idle" /\ UNCHANGED <<take, salt, releaseKey, overdue>>
    BY <1>5 DEF ReportOver, Free, takeVars, fixedVars
  <2>2. ~ accepted
    BY <1>5 DEF SaltInv, OneCall
  <2> QED
    BY <1>1, <1>2, <1>3, <1>5, <2>1, <2>2, AnswerPlain
<1>6. CASE req[1] = "quote" /\ Quote(req[2])
  <2>1. take = "idle" /\ UNCHANGED <<take, salt, releaseKey, releasing, overdue>>
    BY <1>6 DEF Quote, Free, statusVars, takeVars, fixedVars
  <2> QED
    BY <1>1, <1>2, <1>3, <1>6, <2>1, AnswerPlain
<1>7. CASE req[1] = "judge" /\ JudgeReceipt(req[2])
  BY <1>7, JudgeKeepsSalt
<1>8. CASE req[1] = "release" /\ TakeRelease(req[2])
  <2>1. take = "idle" /\ take' = "asked" /\ UNCHANGED <<salt, releaseKey, releasing, overdue>>
    BY <1>8 DEF TakeRelease, Free, statusVars, fixedVars
  <2>2. Pending /\ Pending'
    BY <1>8, <2>1 DEF Pending
  <2>3. accepted' = accepted /\ (early' <=> early)
    BY <1>3, <1>8
  <2>4. OneCall'
    BY <1>1, <1>2, <2>3 DEF SaltInv, OneCall
  <2>5. OneRelease'
    BY <1>1, <2>1, <2>2 DEF SaltInv, OneRelease
  <2>6. ReleaseAwaited'
    BY <2>1, <2>2, <2>3 DEF SaltInv, ReleaseAwaited
  <2>7. KeyTakes'
    BY <1>1, <2>1, KeyTakesAside DEF SaltInv, Runs
  <2>8. WentWithout'
    BY <1>1, <1>2, <2>1, <2>2, <2>3 DEF SaltInv, WentWithout
  <2> QED
    BY <2>4, <2>5, <2>6, <2>7, <2>8 DEF SaltInv
<1> QED
  BY <1>4, <1>5, <1>6, <1>7, <1>8 DEF Answer

\* A step of the release under way, up to its being kept or refused.
LEMMA TakeGoesOn ==
  ASSUME SaltInv, take \notin {"idle", "ending"}, take' # "idle",
         take' \in {"opened", "keyboard", "ready"} => releaseKey,
         UNCHANGED <<req, accepted, worker, salt, releaseKey, releasing, overdue, early,
                     key, recipe, got, screen>>
  PROVE  SaltInv'
<1>1. Pending /\ req[1] = "none"
  BY DEF SaltInv, OneCall, Pending
<1>2. OneCall'
  BY <1>1 DEF SaltInv, OneCall
<1>3. OneRelease'
  BY <1>1 DEF SaltInv, OneRelease, Pending
<1>4. ReleaseAwaited'
  BY <1>1 DEF SaltInv, ReleaseAwaited
<1>5. KeyTakes'
  BY KeyTakesAside DEF SaltInv, Runs
<1>6. WentWithout'
  BY <1>1 DEF SaltInv, WentWithout, Pending
<1> QED
  BY <1>2, <1>3, <1>4, <1>5, <1>6 DEF SaltInv

LEMMA TakingKeepsSalt ==
  ASSUME SaltInv, GateTypeOK, Runs, Taking,
         UNCHANGED <<req, accepted, worker, early, key, recipe, got, screen>>
  PROVE  SaltInv'
<1> USE DEF fixedVars
<1>1. CASE LockForSalt \/ SaltOpens \/ SaltRefused \/ LockForKeyboard \/ KeyboardOpens
           \/ KeyboardRefused
  <2>1. /\ take \notin {"idle", "ending"} /\ take' # "idle"
        /\ UNCHANGED <<salt, releaseKey, releasing, overdue>>
    BY <1>1 DEF LockForSalt, SaltOpens, SaltRefused, LockForKeyboard, KeyboardOpens,
       KeyboardRefused, TakeStep, Unchanging
  <2>2. take' \in {"opened", "keyboard", "ready"} => releaseKey
    BY <1>1 DEF LockForSalt, SaltOpens, SaltRefused, LockForKeyboard, KeyboardOpens,
       KeyboardRefused, TakeStep, SaltInv, OneRelease
  <2> QED
    BY <2>1, <2>2, TakeGoesOn
<1>2. CASE StoreSalt
  <2>1. /\ take = "ready" /\ take' = "ending" /\ salt' = rel
        /\ UNCHANGED <<releaseKey, releasing, overdue>>
    BY <1>2 DEF StoreSalt, TakeStep
  <2>2. Pending /\ releaseKey /\ req[1] = "none" /\ salt = NoRelease
    BY <2>1 DEF SaltInv, OneCall, OneRelease, Pending
  <2>3. ~ Pending'
    BY <2>1, <2>2 DEF Pending
  <2>4. OneCall'
    BY <2>2 DEF SaltInv, OneCall
  <2>5. OneRelease'
    BY <2>1, <2>2, <2>3 DEF SaltInv, OneRelease
  <2>6. ReleaseAwaited'
    BY <2>1, <2>2, <2>3 DEF SaltInv, ReleaseAwaited
  <2>7. KeyTakes'
    BY <2>2 DEF SaltInv, KeyTakes, Runs
  <2>8. WentWithout'
    BY <2>1, <2>2 DEF SaltInv, WentWithout
  <2> QED
    BY <2>4, <2>5, <2>6, <2>7, <2>8 DEF SaltInv
<1>3. CASE EndRelease
  <2>1. /\ take = "ending" /\ take' = "idle" /\ UNCHANGED <<salt, releaseKey, overdue>>
    BY <1>3 DEF EndRelease, TakeStep
  <2>2. req[1] = "none" /\ worker # "judged"
    BY <2>1 DEF SaltInv, OneCall, OneRelease
  <2>3. ~ Pending /\ ~ Pending'
    BY <2>1, <2>2 DEF Pending
  <2>4. OneCall'
    BY <2>2 DEF SaltInv, OneCall
  <2>5. OneRelease'
    BY <2>1, <2>2, <2>3 DEF SaltInv, OneRelease
  <2>6. ReleaseAwaited'
    BY <2>2, <2>3 DEF ReleaseAwaited
  <2>7. KeyTakes'
    BY <2>1, KeyTakesAside DEF SaltInv, Runs
  <2>8. WentWithout'
    BY <2>1, <2>3 DEF SaltInv, WentWithout
  <2> QED
    BY <2>4, <2>5, <2>6, <2>7, <2>8 DEF SaltInv
<1> QED
  BY <1>1, <1>2, <1>3 DEF Taking

\* The wait is over its time, and given up.
LEMMA WaitingKeepsSalt ==
  ASSUME SaltInv, ReleaseWaitPasses \/ StatusGivesUp, Runs' => Runs,
         UNCHANGED <<req, accepted, worker, early, key, recipe, got>>
  PROVE  SaltInv'
<1>1. overdue' /\ UNCHANGED <<take, salt, releaseKey>>
  BY DEF ReleaseWaitPasses, StatusGivesUp, takeVars, fixedVars
<1>2. Pending' <=> Pending
  BY <1>1 DEF Pending
<1>3. OneCall'
  BY <1>1 DEF SaltInv, OneCall
<1>4. OneRelease'
  BY <1>1, <1>2 DEF SaltInv, OneRelease
<1>5. ReleaseAwaited'
  BY <1>1 DEF ReleaseAwaited
<1>6. KeyTakes'
  BY <1>1, KeyTakesAside DEF SaltInv
<1>7. WentWithout'
  BY <1>1, <1>2 DEF SaltInv, WentWithout
<1> QED
  BY <1>3, <1>4, <1>5, <1>6, <1>7 DEF SaltInv

\* What a step of the key provider leaves alone.
LEMMA KeyStepLeaves ==
  ASSUME NEW from, NEW to, KeyStep(from, to), UNCHANGED gateVars
  PROVE  /\ Runs /\ key = from /\ key' = to
         /\ UNCHANGED <<req, take, accepted, worker, salt, layout, releaseKey, releasing,
                        overdue, early, screen>>
  BY DEF KeyStep, holdVars, workerVars, gateVars

\* A step of the key provider leaves the release where it is.
LEMMA KeyStepKeeps ==
  ASSUME SaltInv,
         UNCHANGED <<req, take, accepted, worker, salt, releaseKey, releasing, overdue, early>>,
         KeyTakes', WentWithout'
  PROVE  SaltInv'
<1>1. OneCall'
  BY DEF SaltInv, OneCall
<1>2. OneRelease'
  BY DEF SaltInv, OneRelease, Pending
<1>3. ReleaseAwaited'
  BY DEF SaltInv, ReleaseAwaited, Pending
<1> QED
  BY <1>1, <1>2, <1>3 DEF SaltInv

LEMMA VolumeAsksKeepsSalt ==
  ASSUME SaltInv, VolumeAsks
  PROVE  SaltInv'
<1>1. KeyStep("none", "asked") /\ UNCHANGED <<gateVars, recipe, got>>
  BY DEF VolumeAsks
<1>2. /\ Runs /\ key = "none" /\ key' = "asked"
      /\ UNCHANGED <<req, take, accepted, worker, salt, layout, releaseKey, releasing,
                     overdue, early, screen>>
  BY <1>1, KeyStepLeaves
<1>3. KeyTakes'
  BY <1>1, <1>2 DEF SaltInv, KeyTakes, Runs
<1>4. WentWithout'
  BY <1>2 DEF WentWithout
<1> QED
  BY <1>2, <1>3, <1>4, KeyStepKeeps

LEMMA MakesKeyKeepsSalt ==
  ASSUME SaltInv, MakesKey
  PROVE  SaltInv'
<1> DEFINE to == CASE recipe' = "phoneSalt" -> "salt"
                   [] recipe' = "phoneKeyboard" -> "keyboard"
                   [] recipe' = "vault" -> "vault"
<1>1. KeyStep("asked", to) /\ UNCHANGED <<gateVars, got>>
  BY DEF MakesKey
<1>2. recipe' \in {"phoneSalt", "phoneKeyboard", "vault"}
  BY RecipesAssumption DEF MakesKey, RecipeKinds
<1>3. /\ to \in {"salt", "keyboard", "vault"}
      /\ to = "keyboard" => recipe' = "phoneKeyboard"
      /\ to = "vault" => recipe' = "vault"
  BY <1>2
<1> HIDE DEF to
<1>4. /\ Runs /\ key = "asked" /\ key' = to
      /\ UNCHANGED <<req, take, accepted, worker, salt, layout, releaseKey, releasing,
                     overdue, early, screen>>
  BY <1>1, KeyStepLeaves
<1>5. got' = got /\ got.layout = NoRelease /\ got.salt = NoRelease
  BY <1>1, <1>4 DEF SaltInv, KeyTakes
<1>6. KeyTakes'
  BY <1>3, <1>4, <1>5 DEF SaltInv, KeyTakes
<1>7. WentWithout'
  BY <1>3, <1>4 DEF WentWithout
<1> QED
  BY <1>4, <1>6, <1>7, KeyStepKeeps

\* The layout taken is the one of the release whose salt is held.
LEMMA TakesLayoutKeepsSalt ==
  ASSUME SaltInv, SaltAndLayoutOfOneRelease, TakesLayout
  PROVE  SaltInv'
<1> DEFINE to == IF layout = NoRelease THEN "answered" ELSE "salt"
<1>1. /\ KeyStep("keyboard", to) /\ UNCHANGED <<gateVars, recipe>>
      /\ got' = [got EXCEPT !.layout = layout]
  BY DEF TakesLayout
<1>2. (to = "answered" /\ layout = NoRelease) \/ (to = "salt" /\ layout = salt)
  BY DEF SaltAndLayoutOfOneRelease
<1> HIDE DEF to
<1>3. /\ Runs /\ key = "keyboard" /\ key' = to
      /\ UNCHANGED <<req, take, accepted, worker, salt, layout, releaseKey, releasing,
                     overdue, early, screen>>
  BY <1>1, KeyStepLeaves
<1>4. recipe' = "phoneKeyboard" /\ got.salt = NoRelease
  BY <1>1, <1>3 DEF SaltInv, KeyTakes
<1>5. DOMAIN got' = {"salt", "layout"} /\ got'.layout = layout /\ got'.salt = NoRelease
  BY <1>1, <1>4 DEF SaltInv, KeyTakes
<1>6. KeyTakes'
  BY <1>2, <1>3, <1>4, <1>5 DEF KeyTakes
<1>7. WentWithout'
  BY <1>4 DEF WentWithout
<1> QED
  BY <1>3, <1>6, <1>7, KeyStepKeeps

\* The salt is taken when the gate is not releasing: one on its way then was
\* given up, not expected, or cannot be opened.
LEMMA TakesSaltKeepsSalt ==
  ASSUME SaltInv, TakesSalt
  PROVE  SaltInv'
<1>1. /\ KeyStep("salt", "answered") /\ UNCHANGED <<gateVars, recipe>> /\ ~ releasing
      /\ got' = [got EXCEPT !.salt = salt]
  BY DEF TakesSalt
<1>2. /\ Runs /\ key = "salt" /\ key' = "answered"
      /\ UNCHANGED <<req, take, accepted, worker, salt, layout, releaseKey, releasing,
                     overdue, early, screen>>
  BY <1>1, KeyStepLeaves
<1>3. DOMAIN got' = {"salt", "layout"} /\ got'.layout = got.layout /\ got'.salt = salt
  BY <1>1 DEF SaltInv, KeyTakes
<1>4. KeyTakes'
  BY <1>2, <1>3 DEF SaltInv, KeyTakes
<1>5. Pending => req[1] \in {"none", "release"}
  BY DEF SaltInv, OneCall, Pending
<1>6. Pending => overdue \/ early \/ ~ releaseKey
  BY <1>1 DEF SaltInv, ReleaseAwaited
<1>7. Pending' <=> Pending
  BY <1>2 DEF Pending
<1>8. WentWithout'
  BY <1>2, <1>3, <1>5, <1>6, <1>7 DEF WentWithout
<1> QED
  BY <1>2, <1>4, <1>8, KeyStepKeeps

LEMMA TakesVaultKeyKeepsSalt ==
  ASSUME SaltInv, TakesVaultKey
  PROVE  SaltInv'
<1>1. KeyStep("vault", "answered") /\ UNCHANGED <<gateVars, recipe, got>>
  BY DEF TakesVaultKey
<1>2. /\ Runs /\ key = "vault" /\ key' = "answered"
      /\ UNCHANGED <<req, take, accepted, worker, salt, layout, releaseKey, releasing,
                     overdue, early, screen>>
  BY <1>1, KeyStepLeaves
<1>3. got' = got /\ recipe' = "vault" /\ got.layout = NoRelease /\ got.salt = NoRelease
  BY <1>1, <1>2 DEF SaltInv, KeyTakes
<1>4. KeyTakes'
  BY <1>2, <1>3 DEF SaltInv, KeyTakes
<1>5. WentWithout'
  BY <1>3 DEF WentWithout
<1> QED
  BY <1>2, <1>4, <1>5, KeyStepKeeps

\* Run is stopped: what it held is wiped, and the worker is gone.
LEMMA RunStopsKeepsSalt ==
  ASSUME SaltInv, RunStops
  PROVE  SaltInv'
<1>1. /\ ~ Runs' /\ salt' = NoRelease
      /\ worker' \in {worker, "gone"}
      /\ UNCHANGED <<req, take, accepted, releaseKey, releasing, overdue, early, key, recipe, got>>
  BY DEF RunStops, Forget, Runs, statusVars, keyVars
<1>2. Pending' <=> Pending
  BY <1>1 DEF Pending
<1>3. OneCall'
  BY <1>1 DEF SaltInv, OneCall
<1>4. OneRelease'
  BY <1>1, <1>2 DEF SaltInv, OneRelease
<1>5. ReleaseAwaited'
  BY <1>1, <1>2 DEF SaltInv, ReleaseAwaited
<1>6. KeyTakes'
  BY <1>1 DEF SaltInv, KeyTakes
<1>7. WentWithout'
  BY <1>1, <1>2 DEF SaltInv, WentWithout
<1> QED
  BY <1>3, <1>4, <1>5, <1>6, <1>7 DEF SaltInv

\* Steps that have nothing to do with the release's salt or the key.
LEMMA SaltStepsAside ==
  ASSUME \/ PhoneDecides \/ Vault
         \/ (\E c \in {"console", "ssh"} : Presses(c))
         \/ (\E c \in Confirmers : OfferQuits(c)) \/ Tick \/ VaultSettlePasses
         \/ StartsParts \/ TimeIsUp \/ (\E c \in Confirmers : Confirmed(c)) \/ ScanFails
         \/ PartsDone \/ CancelsVault \/ VaultReleased \/ ConsoleReleased \/ SSHReleased
         \/ LocksTPM \/ ClosesBoot \/ SendsReady \/ ImageCloses \/ Done \/ UNCHANGED vars
  PROVE  UNCHANGED saltVars /\ (Runs' => Runs)
<1> USE DEF saltVars, Runs, gateVars, holdVars, workerVars, keyVars
<1>1. CASE PhoneDecides
  BY <1>1 DEF PhoneDecides, PhoneSigns, statusVars, takeVars, fixedVars
<1>2. CASE Vault
  <2>1. ASSUME NEW from, NEW to, VaultStep(from, to)
        PROVE  UNCHANGED saltVars /\ (Runs' => Runs)
    BY <2>1 DEF VaultStep
  <2>2. CASE VaultOffers
    BY <2>2 DEF VaultOffers
  <2> QED
    BY <1>2, <2>1, <2>2 DEF Vault, VaultLocal, VaultAsks, VaultOpens, SlotTried
<1>3. CASE (\E c \in {"console", "ssh"} : Presses(c)) \/ (\E c \in Confirmers : OfferQuits(c))
  BY <1>3 DEF Presses, OfferQuits
<1>4. CASE Tick \/ VaultSettlePasses
  BY <1>4 DEF Tick, VaultSettlePasses
<1>5. CASE StartsParts
  <2>1. UNCHANGED <<take, salt, releaseKey, releasing, overdue>>
    BY <1>5 DEF StartsParts, ExpectRelease, statusVars, takeVars
  <2> QED
    BY <1>5, <2>1 DEF StartsParts
<1>6. CASE TimeIsUp \/ (\E c \in Confirmers : Confirmed(c)) \/ ScanFails \/ PartsDone
  BY <1>6 DEF TimeIsUp, Confirmed, ScanFails, PartsDone
<1>7. CASE CancelsVault \/ VaultReleased \/ ConsoleReleased \/ SSHReleased \/ LocksTPM
           \/ SendsReady
  BY <1>7 DEF CancelsVault, VaultReleased, ConsoleReleased, SSHReleased, LocksTPM, SendsReady,
     ReleaseStep
<1>8. CASE ClosesBoot
  <2>1. UNCHANGED <<take, salt, releaseKey, releasing, overdue>>
    BY <1>8 DEF ClosesBoot, BootCloses, statusVars, takeVars, fixedVars
  <2> QED
    BY <1>8, <2>1 DEF ClosesBoot, ReleaseStep
<1>9. CASE ImageCloses
  BY <1>9 DEF ImageCloses, BootCloses, statusVars, takeVars, fixedVars
<1>10. CASE Done \/ UNCHANGED vars
  BY <1>10 DEF Done, vars
<1> QED
  BY <1>1, <1>2, <1>3, <1>4, <1>5, <1>6, <1>7, <1>8, <1>9, <1>10

LEMMA SaltNextInv ==
  ASSUME IInv, SaltInv, [Next]_vars
  PROVE  SaltInv'
<1>1. GateTypeOK /\ SaltAndLayoutOfOneRelease /\ req \in Calls /\ ReleaseOrder
  BY DEF IInv, GateIInv
<1>2. CASE Worker
  BY <1>1, <1>2, WorkerKeepsSalt
<1>3. CASE WorkerDies
  <2>1. /\ worker' = "gone" /\ ~ accepted' /\ req' = req
        /\ UNCHANGED <<take, salt, releaseKey, releasing, overdue, early, key, recipe, got, screen>>
    BY <1>3 DEF WorkerDies, WorkerStep, gateVars, holdVars, keyVars
  <2>2. Runs' => Runs
    BY <2>1 DEF Runs
  <2> QED
    BY <2>1, <2>2, WorkerGoneKeeps
<1>4. CASE StopsWorker
  <2>1. /\ worker' \in {worker, "gone"} /\ ~ accepted' /\ Runs
        /\ UNCHANGED <<req, take, salt, releaseKey, releasing, overdue, early, key, recipe, got>>
    BY <1>4 DEF StopsWorker, ReleaseStep, Runs, gateVars, keyVars
  <2> QED
    BY <2>1, WorkerGoneKeeps
<1>5. CASE Answer
  BY <1>1, <1>5, AnswerKeepsSalt
<1>6. CASE Coordinator
  <2>1. Runs /\ UNCHANGED <<req, accepted, worker, early, key, recipe, got, screen>>
    BY <1>6 DEF Coordinator, holdVars, workerVars, keyVars
  <2>2. CASE \E o \in {"serving", "tampered", "failed"} : SetUp(o)
    <3>1. UNCHANGED <<take, salt, releaseKey, releasing, overdue>>
      BY <2>2 DEF SetUp, takeVars
    <3> QED
      BY <2>1, <3>1, SaltAside DEF saltVars
  <2>3. CASE Taking
    BY <1>1, <2>1, <2>3, TakingKeepsSalt
  <2>4. CASE ReleaseWaitPasses
    BY <2>1, <2>4, WaitingKeepsSalt
  <2> QED
    BY <1>6, <2>2, <2>3, <2>4 DEF Coordinator
<1>7. CASE LooksAtPhone
  <2>1. Runs /\ UNCHANGED <<req, accepted, worker, early, key, recipe, got>>
    BY <1>7 DEF LooksAtPhone, Runs, workerVars, keyVars
  <2>2. CASE StatusGivesUp
    BY <2>1, <2>2, WaitingKeepsSalt
  <2>3. CASE UNCHANGED gateVars
    <3>1. UNCHANGED saltVars
      BY <2>1, <2>3 DEF saltVars, gateVars
    <3> QED
      BY <2>1, <3>1, SaltAside
  <2> QED
    BY <1>7, <2>2, <2>3 DEF LooksAtPhone, Status
<1>8. CASE ProviderWaits
  <2>1. Runs /\ StatusGivesUp /\ UNCHANGED <<req, accepted, worker, early, key, recipe, got>>
    BY <1>8 DEF ProviderWaits, workerVars, keyVars
  <2> QED
    BY <2>1, WaitingKeepsSalt
<1>9. CASE RunStops
  BY <1>9, RunStopsKeepsSalt
<1>10. CASE VolumeAsks
  BY <1>10, VolumeAsksKeepsSalt
<1>11. CASE MakesKey
  BY <1>11, MakesKeyKeepsSalt
<1>12. CASE TakesLayout
  BY <1>1, <1>12, TakesLayoutKeepsSalt
<1>13. CASE TakesSalt
  BY <1>13, TakesSaltKeepsSalt
<1>14. CASE TakesVaultKey
  BY <1>14, TakesVaultKeyKeepsSalt
<1>15. CASE ~ (Worker \/ WorkerDies \/ StopsWorker \/ Answer \/ Coordinator \/ LooksAtPhone
               \/ RunStops \/ VolumeAsks \/ Provider)
  <2>1. UNCHANGED saltVars /\ (Runs' => Runs)
    BY <1>15, SaltStepsAside DEF Next, Hold, Release
  <2> QED
    BY <2>1, SaltAside
<1> QED
  BY <1>2, <1>3, <1>4, <1>5, <1>6, <1>7, <1>8, <1>9, <1>10, <1>11, <1>12, <1>13, <1>14, <1>15
     DEF Provider

LEMMA SaltInitInv == Init => SaltInv
<1> SUFFICES ASSUME Init PROVE SaltInv
  OBVIOUS
<1>1. /\ req[1] = "none" /\ take = "idle" /\ ~ accepted /\ salt = NoRelease
      /\ key = "none" /\ worker \in {"identity", "off"}
      /\ got = [salt |-> NoRelease, layout |-> NoRelease]
  BY DEF Init, GateInit
<1>2. DOMAIN got = {"salt", "layout"} /\ got.salt = NoRelease /\ got.layout = NoRelease
  BY <1>1
<1> QED
  BY <1>1, <1>2 DEF SaltInv, OneCall, OneRelease, ReleaseAwaited, KeyTakes, WentWithout, Pending

----------------------------------------------------------------------------
\* The wait for the vault is over once its part was released: an attempt that
\* goes on is one vaultSettle gave up.
VaultWaited == screen \in AfterVault => vault \in {"off", "done"} \/ settled

\* The TPM was taken and given back since the phone's part was released.
SaltWaited ==
  screen \in AfterStop /\ begun => /\ req[1] = "none"
                                   /\ take # "asked"
                                   /\ screen # "lock" => take # "salt"

LEMMA VaultWaitedInv ==
  ASSUME VaultWaited, [Next]_vars
  PROVE  VaultWaited'
<1> USE DEF AfterVault, AfterHold, holdVars, vaultVars
<1>1. ASSUME UNCHANGED <<screen, vault, settled>> PROVE VaultWaited'
  BY <1>1 DEF VaultWaited
<1>2. CASE Worker \/ WorkerDies
  <2>1. ASSUME NEW from, NEW to, WorkerStep(from, to) PROVE UNCHANGED <<screen, vault, settled>>
    BY <2>1 DEF WorkerStep
  <2> QED
    BY <1>1, <1>2, <2>1 DEF Worker, WorkerDies, WorkerStarts, AdapterReady, RadioFails,
       PhoneConnects, AsksQuote, HandsReceipt, HandsRelease, SessionEnds
<1>3. CASE PhoneDecides \/ Answer \/ Coordinator \/ Tick \/ ImageCloses \/ ProviderWaits \/ Done
           \/ UNCHANGED vars
  BY <1>1, <1>3 DEF PhoneDecides, Answer, Coordinator, Tick, ImageCloses, ProviderWaits, Done,
     vars
<1>4. CASE (\E c \in {"console", "ssh"} : Presses(c)) \/ (\E c \in Confirmers : OfferQuits(c))
  BY <1>1, <1>4 DEF Presses, OfferQuits
<1>5. CASE Vault
  <2>1. ASSUME NEW from \in {"local", "asking", "opening"}, NEW to, VaultStep(from, to)
        PROVE  VaultWaited'
    BY <2>1 DEF VaultStep, VaultWaited
  <2>2. CASE VaultOffers
    BY <1>1, <2>2 DEF VaultOffers
  <2> QED
    BY <1>5, <2>1, <2>2 DEF Vault, VaultLocal, VaultAsks, VaultOpens, SlotTried
<1>6. CASE VaultSettlePasses
  BY <1>6 DEF VaultSettlePasses, VaultWaited
<1>7. CASE Hold
  <2>1. (UNCHANGED <<screen, vault, settled>>) \/ screen' \in {"hold", "parts", "vault"}
    BY <1>7 DEF Hold, StartsParts, LooksAtPhone, TimeIsUp, Confirmed, ScanFails, PartsDone, Ends
  <2> QED
    BY <1>1, <2>1 DEF VaultWaited
<1>8. CASE Release
  <2>1. CASE VaultReleased
    BY <2>1 DEF VaultReleased, vaultWaitOver, ReleaseStep, VaultWaited
  <2>2. CASE CancelsVault
    BY <1>1, <2>2 DEF CancelsVault
  <2>3. CASE ConsoleReleased \/ SSHReleased \/ StopsWorker \/ LocksTPM \/ ClosesBoot
             \/ SendsReady
    <3>1. screen \in AfterVault /\ UNCHANGED <<vault, settled>>
      BY <2>3 DEF ConsoleReleased, SSHReleased, StopsWorker, LocksTPM, ClosesBoot, SendsReady,
         ReleaseStep
    <3> QED
      BY <3>1 DEF VaultWaited
  <2> QED
    BY <1>8, <2>1, <2>2, <2>3 DEF Release
<1>9. CASE RunStops
  BY <1>9 DEF RunStops, VaultWaited
<1>10. CASE VolumeAsks \/ MakesKey \/ TakesLayout \/ TakesSalt \/ TakesVaultKey
  <2>1. ASSUME NEW from, NEW to, KeyStep(from, to) PROVE UNCHANGED <<screen, vault, settled>>
    BY <2>1 DEF KeyStep
  <2> QED
    BY <1>1, <1>10, <2>1 DEF VolumeAsks, MakesKey, TakesLayout, TakesSalt, TakesVaultKey
<1> QED
  BY <1>2, <1>3, <1>4, <1>5, <1>6, <1>7, <1>8, <1>9, <1>10 DEF Next, Provider

\* The steps of the coordinator of which the release takes the lock.
LEMMA SaltWaitedInv ==
  ASSUME IInv, SaltInv, SaltWaited, [Next]_vars
  PROVE  SaltWaited'
<1> USE DEF AfterStop, AfterSSH, AfterConsole, AfterVault, AfterHold
<1>1. ASSUME UNCHANGED <<screen, begun, req, take>> PROVE SaltWaited'
  BY <1>1 DEF SaltWaited
<1>2. CASE Worker
  <2>1. link /\ screen' = screen
    <3>1. ASSUME NEW from, NEW to, WorkerStep(from, to) PROVE screen' = screen
      BY <3>1 DEF WorkerStep, holdVars
    <3>2. link
      BY <1>2 DEF Worker, WorkerStarts, AdapterReady, RadioFails, PhoneConnects, AsksQuote,
         HandsReceipt, HandsRelease, SessionEnds, Ask, MayAsk
    <3> QED
      BY <1>2, <3>1, <3>2 DEF Worker, WorkerStarts, AdapterReady, RadioFails, PhoneConnects,
         AsksQuote, HandsReceipt, HandsRelease, SessionEnds
  <2>2. screen' \notin AfterStop
    BY <2>1 DEF IInv, ReleaseOrder
  <2> QED
    BY <2>2 DEF SaltWaited
<1>3. CASE Answer
  <2>1. req[1] # "none" /\ UNCHANGED <<screen, begun>>
    BY <1>3 DEF Answer, holdVars
  <2> QED
    BY <2>1 DEF SaltWaited
<1>4. CASE Coordinator
  <2>1. UNCHANGED <<screen, begun, req>>
    BY <1>4 DEF Coordinator, holdVars, workerVars
  <2>2. take' = take \/ (take' # "asked" /\ (take' = "salt" => take = "asked"))
    BY <1>4 DEF Coordinator, SetUp, ReleaseWaitPasses, Taking, LockForSalt, SaltOpens,
       SaltRefused, LockForKeyboard, KeyboardOpens, KeyboardRefused, StoreSalt, EndRelease,
       TakeStep, takeVars
  <2> QED
    BY <2>1, <2>2 DEF SaltWaited
<1>5. CASE StopsWorker
  <2>1. screen' = "lock" /\ begun' = TPMHeld /\ UNCHANGED <<req, take>>
    BY <1>5 DEF StopsWorker, ReleaseStep, gateVars
  <2>2. TPMHeld => take \notin {"idle", "asked"} /\ req[1] = "none"
    BY DEF TPMHeld, SaltInv, OneCall
  <2> QED
    BY <2>1, <2>2 DEF SaltWaited
<1>6. CASE LocksTPM
  <2>1. screen = "lock" /\ take # "salt" /\ UNCHANGED <<begun, req, take>>
    BY <1>6 DEF LocksTPM, ReleaseStep, TPMHeld, gateVars, workerVars
  <2> QED
    BY <2>1 DEF SaltWaited
<1>7. CASE ClosesBoot \/ SendsReady
  <2>1. screen \in AfterStop \ {"lock"} /\ UNCHANGED <<begun, req, take>>
    BY <1>7 DEF ClosesBoot, SendsReady, ReleaseStep, BootCloses, gateVars, takeVars, workerVars
  <2> QED
    BY <2>1 DEF SaltWaited
<1>8. CASE CancelsVault \/ VaultReleased \/ ConsoleReleased \/ SSHReleased
  <2>1. screen' \notin AfterStop
    BY <1>8 DEF CancelsVault, VaultReleased, ConsoleReleased, SSHReleased, ReleaseStep, holdVars
  <2> QED
    BY <2>1 DEF SaltWaited
<1>9. CASE Hold \/ RunStops
  <2>1. screen' \notin AfterStop
    BY <1>9 DEF Hold, StartsParts, LooksAtPhone, TimeIsUp, Confirmed, ScanFails, PartsDone, Ends,
       RunStops
  <2> QED
    BY <2>1 DEF SaltWaited
<1>10. CASE PhoneDecides \/ WorkerDies \/ Vault \/ Tick \/ VaultSettlePasses \/ ImageCloses
            \/ (\E c \in {"console", "ssh"} : Presses(c)) \/ (\E c \in Confirmers : OfferQuits(c))
            \/ Done \/ UNCHANGED vars
  <2>1. UNCHANGED <<screen, begun>>
    <3>1. ASSUME NEW from, NEW to, WorkerStep(from, to) \/ VaultStep(from, to)
          PROVE  UNCHANGED <<screen, begun>>
      BY <3>1 DEF WorkerStep, VaultStep, holdVars
    <3>2. CASE WorkerDies \/ Vault
      BY <3>1, <3>2 DEF WorkerDies, Vault, VaultLocal, VaultAsks, VaultOpens, VaultOffers,
         SlotTried, holdVars
    <3> QED
      BY <1>10, <3>2 DEF PhoneDecides, Tick, VaultSettlePasses, ImageCloses, Presses, OfferQuits,
         Done, vars, holdVars
  <2>2. UNCHANGED <<req, take>>
    <3>1. CASE WorkerDies
      BY <3>1 DEF WorkerDies, WorkerStep, gateVars
    <3>2. CASE ~ WorkerDies
      BY <1>10, <3>2, SaltStepsAside DEF saltVars
    <3> QED
      BY <3>1, <3>2
  <2> QED
    BY <1>1, <2>1, <2>2
<1>11. CASE VolumeAsks \/ Provider
  <2>1. UNCHANGED <<screen, begun, req>>
    <3>1. ASSUME NEW from, NEW to, KeyStep(from, to) PROVE UNCHANGED <<screen, begun, req>>
      BY <3>1 DEF KeyStep, holdVars, workerVars
    <3>2. CASE ProviderWaits
      BY <3>2 DEF ProviderWaits, holdVars, workerVars
    <3> QED
      BY <1>11, <3>1, <3>2 DEF VolumeAsks, Provider, MakesKey, TakesLayout, TakesSalt,
         TakesVaultKey
  <2>2. take' = take
    BY <1>11 DEF VolumeAsks, Provider, MakesKey, TakesLayout, TakesSalt, TakesVaultKey,
       ProviderWaits, StatusGivesUp, gateVars, takeVars
  <2> QED
    BY <1>1, <2>1, <2>2
<1> QED
  BY <1>2, <1>3, <1>4, <1>5, <1>6, <1>7, <1>8, <1>9, <1>10, <1>11 DEF Next, Release

\* What the properties of the release and of the key rest on: the two waits
\* and SaltInv hold with IInv in every state of the boot.
ScreenIInv == IInv /\ SaltInv /\ VaultWaited /\ SaltWaited

\* They do: each step of the boot keeps them together.
THEOREM ScreenInductive == Spec => []ScreenIInv
<1>1. Init => ScreenIInv
  <2>1. Init => VaultWaited /\ SaltWaited
    BY DEF Init, VaultWaited, SaltWaited, AfterStop, AfterSSH, AfterConsole, AfterVault, AfterHold
  <2> QED
    BY <2>1, InitInv, SaltInitInv DEF ScreenIInv
<1>2. ScreenIInv /\ [Next]_vars => ScreenIInv'
  <2> SUFFICES ASSUME ScreenIInv, [Next]_vars PROVE ScreenIInv'
    OBVIOUS
  <2>1. IInv /\ SaltInv /\ VaultWaited /\ SaltWaited
    BY DEF ScreenIInv
  <2>2. IInv'
    BY <2>1, NextInv
  <2>3. SaltInv'
    BY <2>1, SaltNextInv
  <2>4. VaultWaited'
    BY <2>1, VaultWaitedInv
  <2>5. SaltWaited'
    BY <2>1, SaltWaitedInv
  <2> QED
    BY <2>2, <2>3, <2>4, <2>5 DEF ScreenIInv
<1> QED
  BY <1>1, <1>2, PTL DEF Spec

\* A key made through the phone's keyboard has the salt of the same release,
\* and a volume goes without a salt the TPM opened only after releaseWait, or
\* when the receipt came before one was expected (board.salt, Status).
THEOREM TheKeyGetsTheSalt == Spec => []KeyGetsTheSalt
<1>1. ScreenIInv => KeyGetsTheSalt
  BY DEF ScreenIInv, SaltInv, KeyTakes, WentWithout, KeyGetsTheSalt
<1> QED
  BY <1>1, ScreenInductive, PTL

\* When run closes the boot (parts.release, closeBoot), no opening of the
\* vault's is under way that was not given up, and no call holds the TPM for
\* the phone's salt that held it when the phone's part was released.
THEOREM TheCloseIsOverNothing == Spec => ClosesOverNothing
<1>1. ScreenIInv /\ [Next]_vars =>
        [~ closed /\ closed' /\ screen = "close" =>
           /\ vault \in {"off", "done"} \/ settled
           /\ take = "salt" => ~ begun]_vars
  BY DEF ScreenIInv, VaultWaited, SaltWaited, AfterStop, AfterSSH, AfterConsole, AfterVault,
     AfterHold
<1> QED
  BY <1>1, ScreenInductive, PTL DEF Spec, ClosesOverNothing
=============================================================================
