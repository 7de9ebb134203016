----------------------------- MODULE PhoneGate -----------------------------
(***************************************************************************)
(* The coordinator of the phone's gate (internal/phonegate GateService):   *)
(* the half of phone attestation that holds the TPM.  The radio worker, an *)
(* unprivileged process that parses what the radio delivers, asks it for   *)
(* quotes, hands it receipts and what the phone releases, and reports      *)
(* where its session is.  This module gives the worker no protocol: it may *)
(* make any call in any order, with any receipt it can put together, so    *)
(* what holds here holds whatever becomes of the worker.  One thing it     *)
(* cannot make is the signature of an enrolled phone.                      *)
(*                                                                         *)
(* The worker's calls are served one at a time (LinkGate).  TakeRelease is *)
(* the one call other actors see the middle of: it takes the TPM's mutex   *)
(* once for the salt and once for the keyboard, while the code screen      *)
(* polls the status and the end of the hold closes the boot.               *)
(***************************************************************************)
EXTENDS Naturals, Sequences

CONSTANTS
  Quotes,       \* the digests of the quotes the TPM can give in this boot
  OldQuotes,    \* those of earlier boots, which phones have signed too
  Releases,     \* what phones may release: a wrapped salt, maybe a keyboard
  Keyboards,    \* the releases that carry a keyboard
  NoRelease,    \* no salt, no layout
  MaxIssued     \* maxIssuedQuotes

ASSUME QuotesAssumption == Quotes \intersect OldQuotes = {}
ASSUME ReleasesAssumption == Keyboards \subseteq Releases /\ NoRelease \notin Releases
ASSUME MaxIssuedAssumption == MaxIssued \in Nat \ {0}

VARIABLES
  setup,      \* what came of setup: "running", "serving", "tampered", "failed"
  order,      \* issuedOrder: the quotes remembered, oldest first
  issued,     \* the keys of the Issued map
  given,      \* every quote this coordinator gave out in this boot
  signed,     \* <<quote, verdict>> an enrolled phone has put its name to
  state,      \* Current.State
  code,       \* whether Current.Code shows a code
  expecting,  \* ExpectingRelease
  releaseKey, \* whether the enrolment holds a release key
  releasing,  \* Current.Releasing
  overdue,    \* whether releaseWait has passed since ReleaseSince
  saltTaken,  \* Current.SaltTaken
  take,       \* where the TakeRelease in progress is
  rel,        \* the release it is about
  salt,       \* the release the salt held comes from
  layout,     \* the release the keyboard held comes from
  forgotten,  \* whether Forget has been called
  closed      \* whether the boot is closed: the TPM opens nothing any more

quoteVars  == <<order, issued, given>>
statusVars == <<state, code, releasing, overdue, saltTaken>>
takeVars   == <<take, rel, salt, layout>>
fixedVars  == <<setup, expecting, releaseKey, forgotten>>
gateVars   == <<setup, order, issued, given, signed, state, code, expecting,
                releaseKey, releasing, overdue, saltTaken, take, rel, salt,
                layout, forgotten, closed>>

\* What a phone's receipt says; VerdictOK and VerdictApproved are one here.
Verdicts == {"trusted", "reject", "other"}

\* A receipt as the worker hands it in.  named: it comes from an enrolled
\* phone and names device, key, qualifying data and verifier as expected.
Receipts == [quote : Quotes \union OldQuotes, verdict : Verdicts,
             signature : {"none", "phone", "garbage"}, named : BOOLEAN]

GateStates == {"", "waiting", "session", "attested", "rejected", "refused",
               "unavailable"}

TakeSteps == {"idle", "asked", "salt", "opened", "keyboard", "ready", "ending"}

GateTypeOK ==
  /\ setup \in {"running", "serving", "tampered", "failed"}
  /\ order \in Seq(Quotes)
  /\ issued \subseteq Quotes
  /\ given \subseteq Quotes
  /\ signed \subseteq (Quotes \union OldQuotes) \X Verdicts
  /\ state \in GateStates
  /\ code \in BOOLEAN
  /\ expecting \in BOOLEAN
  /\ releaseKey \in BOOLEAN
  /\ releasing \in BOOLEAN
  /\ overdue \in BOOLEAN
  /\ saltTaken \in BOOLEAN
  /\ take \in TakeSteps
  /\ rel \in Releases \union {NoRelease}
  /\ salt \in Releases \union {NoRelease}
  /\ layout \in Keyboards \union {NoRelease}
  /\ forgotten \in BOOLEAN
  /\ closed \in BOOLEAN

GateInit ==
  /\ setup = "running"
  /\ order = <<>>
  /\ issued = {}
  /\ given = {}
  /\ signed = OldQuotes \X Verdicts
  /\ state = ""
  /\ code = FALSE
  /\ expecting = FALSE
  /\ releaseKey \in BOOLEAN
  /\ releasing = FALSE
  /\ overdue = FALSE
  /\ saltTaken = FALSE
  /\ take = "idle"
  /\ rel = NoRelease
  /\ salt = NoRelease
  /\ layout = NoRelease
  /\ forgotten = FALSE
  /\ closed = FALSE

\* GateStatus.Verdict and GateStatus.Released.
IsVerdict(s) == s \in {"attested", "rejected", "refused"}

\* Mutated form: any verdict lets the boot go on.
IsReleased_AnyVerdict(s, r) == IsVerdict(s) /\ ~ r

IsReleased(s, r) == s = "attested" /\ ~ r

\* A call of the worker is answered while no other is.
Free == take = "idle"

----------------------------------------------------------------------------
(* Setting up, and the calls that take one step.                           *)

\* Mutated form: a tampered record is like one that cannot be read.
SetUp_Unavailable(outcome) ==
  /\ setup = "running"
  /\ setup' = outcome
  /\ state' = IF outcome = "serving" THEN state ELSE "unavailable"
  /\ UNCHANGED <<quoteVars, signed, code, expecting, releaseKey, releasing,
                 overdue, saltTaken, takeVars, forgotten, closed>>

\* NewGateServiceOpening: the outcome of setup, in the background.
SetUp(outcome) ==
  /\ setup = "running"
  /\ setup' = outcome
  /\ state' = CASE outcome = "tampered" -> "refused"
                [] outcome = "failed"   -> "unavailable"
                [] outcome = "serving"  -> state
  /\ UNCHANGED <<quoteVars, signed, code, expecting, releaseKey, releasing,
                 overdue, saltTaken, takeVars, forgotten, closed>>

\* Mutated form: the newest quote is dropped instead of the oldest.
remember_DropsNewest(q) ==
  LET longer == Append(order, q)
  IN  IF Len(longer) > MaxIssued
      THEN /\ order' = Tail(longer)
           /\ issued' = issued \ {q}
      ELSE /\ order' = longer
           /\ issued' = issued \union {q}

\* Quote, remembering: the oldest goes when there are too many.
remember(q) ==
  LET longer == Append(order, q)
  IN  IF Len(longer) > MaxIssued
      THEN /\ order' = Tail(longer)
           /\ issued' = (issued \ {Head(longer)}) \union {q}
      ELSE /\ order' = longer
           /\ issued' = issued \union {q}

\* Quote: the TPM signs the registers, the coordinator remembers the digest.
Quote(q) ==
  /\ Free
  /\ setup = "serving"
  /\ given' = given \union {q}
  /\ IF q \in issued THEN UNCHANGED <<order, issued>> ELSE remember(q)
  /\ UNCHANGED <<signed, statusVars, takeVars, fixedVars, closed>>

\* ProveBootKey: the code goes to the screen when the challenge is proved.
ProveBootKey(proved) ==
  /\ Free
  /\ setup = "serving"
  /\ code' = proved
  /\ UNCHANGED <<quoteVars, signed, state, releasing, overdue, saltTaken,
                 takeVars, fixedVars, closed>>

\* attest.CheckReceipt of a receipt that names what it must; the signature of
\* a phone is worth what that phone has signed.
CheckNamed(r) ==
  LET mine == r.signature = "phone" /\ <<r.quote, r.verdict>> \in signed
  IN  CASE r.signature = "none" /\ r.verdict = "reject" ->
             [authentic |-> FALSE, ack |-> "rejectNoted"]
        [] r.signature = "none" /\ r.verdict # "reject" ->
             [authentic |-> FALSE, ack |-> "badSignature"]
        [] r.signature # "none" /\ ~ mine ->
             [authentic |-> FALSE, ack |-> "badSignature"]
        [] mine /\ r.verdict = "reject" ->
             [authentic |-> TRUE, ack |-> "rejectNoted"]
        [] mine /\ r.verdict = "other" ->
             [authentic |-> FALSE, ack |-> "malformed"]
        [] mine /\ r.verdict = "trusted" ->
             [authentic |-> TRUE, ack |-> "accepted"]

\* Mutated form: the receipt's own binding is enough, for any quote.
CheckReceipt_AnyQuote(r) ==
  IF r.named THEN CheckNamed(r)
             ELSE [authentic |-> FALSE, ack |-> "bindingMismatch"]

\* JudgeReceipt's look at the quote and at what the receipt names.
CheckReceipt(r) ==
  IF r.named /\ r.quote \in issued
  THEN CheckNamed(r)
  ELSE [authentic |-> FALSE, ack |-> "bindingMismatch"]

\* receiptState: what a checked receipt means for the slot.
receiptState(check, verdict) ==
  CASE check.authentic /\ verdict = "trusted" -> "attested"
    [] verdict = "reject" /\ (check.authentic \/ check.ack = "rejectNoted") ->
         "rejected"
    [] check.ack = "badSignature" -> "refused"
    [] OTHER -> ""

\* JudgeReceipt: a receipt that means nothing for the slot changes nothing.
JudgeReceipt(r) ==
  LET st == receiptState(CheckReceipt(r), r.verdict)
      waits == st = "attested" /\ expecting /\ releaseKey
  IN  /\ Free
      /\ setup = "serving"
      /\ IF st = ""
         THEN UNCHANGED <<state, code, releasing, overdue>>
         ELSE /\ state' = st
              /\ code' = FALSE
              /\ releasing' = (releasing \/ waits)
              /\ overdue' = (overdue /\ ~ waits)
      /\ UNCHANGED <<quoteVars, signed, saltTaken, takeVars, fixedVars, closed>>

\* Report, of a session that gave a receipt and has ended.
ReportOver ==
  /\ Free
  /\ releasing' = FALSE
  /\ UNCHANGED <<quoteVars, signed, state, code, overdue, saltTaken, takeVars,
                 fixedVars, closed>>

\* Mutated form: only a verdict keeps its place.
reportable_Verdicts == state \notin {"attested", "rejected"}

\* Report's early return: a verdict stays, and so does a refusal.
reportable == ~ (IsVerdict(state) \/ state = "refused")

\* Report, of where the worker is.  It does not wait for the setup.
Report(s) ==
  /\ Free
  /\ s \in {"waiting", "session", "unavailable"}
  /\ IF reportable
     THEN state' = s /\ code' = (code /\ s = "session")
     ELSE UNCHANGED <<state, code>>
  /\ UNCHANGED <<quoteVars, signed, releasing, overdue, saltTaken, takeVars,
                 fixedVars, closed>>

----------------------------------------------------------------------------
(* TakeRelease, at boot.                                                   *)

\* The call; what is no phone salt is turned away without a step.
TakeRelease(r) ==
  /\ Free
  /\ setup = "serving"
  /\ take' = "asked"
  /\ rel' = r
  /\ UNCHANGED <<quoteVars, signed, statusVars, salt, layout, fixedVars, closed>>

TakeStep(from, to) ==
  /\ take = from
  /\ take' = to
  /\ UNCHANGED <<quoteVars, signed, state, code, overdue, fixedVars, closed>>

Unchanging == UNCHANGED <<releasing, saltTaken, rel, salt, layout>>

\* The TPM's mutex is TakeRelease's.
TPMHeld == take \in {"salt", "keyboard"}

LockForSalt == TakeStep("asked", "salt") /\ Unchanging

\* Mutated form: the wait ends when the salt is opened, before it is kept.
SaltOpens_EndsWait ==
  /\ ~ closed
  /\ releaseKey
  /\ TakeStep("salt", IF rel \in Keyboards THEN "opened" ELSE "ready")
  /\ releasing' = FALSE
  /\ UNCHANGED <<saltTaken, rel, salt, layout>>

\* UnwrapFactor: the slot's policy holds only while the boot is open.
SaltOpens ==
  /\ ~ closed
  /\ releaseKey
  /\ TakeStep("salt", IF rel \in Keyboards THEN "opened" ELSE "ready")
  /\ Unchanging

SaltRefused == TakeStep("salt", "ending") /\ Unchanging

LockForKeyboard == TakeStep("opened", "keyboard") /\ Unchanging

KeyboardOpens == ~ closed /\ TakeStep("keyboard", "ready") /\ Unchanging

\* The salt opened before it is wiped.
KeyboardRefused == TakeStep("keyboard", "ending") /\ Unchanging

\* Mutated form: a release without a keyboard leaves the layout of another.
newLayout_Kept == IF rel \in Keyboards THEN rel ELSE layout

newLayout == IF rel \in Keyboards THEN rel ELSE NoRelease

StoreSalt ==
  /\ TakeStep("ready", "ending")
  /\ salt' = rel
  /\ layout' = newLayout
  /\ saltTaken' = TRUE
  /\ UNCHANGED <<releasing, rel>>

\* The deferred end: taken, one way or the other.
EndRelease ==
  /\ TakeStep("ending", "idle")
  /\ releasing' = FALSE
  /\ rel' = NoRelease
  /\ UNCHANGED <<saltTaken, salt, layout>>

----------------------------------------------------------------------------
(* What the rest of the boot calls, and what happens to it.                *)

\* ExpectRelease, by the disk's key provider.
ExpectRelease ==
  /\ expecting' = TRUE
  /\ UNCHANGED <<quoteVars, signed, statusVars, takeVars, setup, releaseKey,
                 forgotten, closed>>

\* releaseWait passes since the receipt ...
ReleaseWaitPasses ==
  /\ releasing
  /\ ~ overdue
  /\ overdue' = TRUE
  /\ UNCHANGED <<quoteVars, signed, state, code, releasing, saltTaken,
                 takeVars, fixedVars, closed>>

\* Mutated form: nothing bounds the wait.
StatusGivesUp_Never == releasing /\ overdue /\ UNCHANGED gateVars

\* ... and the next Status ends the wait.
StatusGivesUp ==
  /\ releasing
  /\ overdue
  /\ releasing' = FALSE
  /\ UNCHANGED <<quoteVars, signed, state, code, overdue, saltTaken, takeVars,
                 fixedVars, closed>>

\* Forget: run ends.
Forget ==
  /\ salt' = NoRelease
  /\ layout' = NoRelease
  /\ forgotten' = TRUE
  /\ UNCHANGED <<quoteVars, signed, statusVars, take, rel, setup, expecting,
                 releaseKey, closed>>

\* External: an enrolled phone signs a verdict over a quote it was sent.
PhoneSigns(q, v) ==
  /\ q \in given
  /\ signed' = signed \union {<<q, v>>}
  /\ UNCHANGED <<quoteVars, statusVars, takeVars, fixedVars, closed>>

\* External: the boot is closed, and the slot's policy with it.
BootCloses ==
  /\ ~ closed
  /\ closed' = TRUE
  /\ UNCHANGED <<quoteVars, signed, statusVars, takeVars, fixedVars>>

\* The steps of a TakeRelease that is under way.
Taking ==
  \/ LockForSalt
  \/ SaltOpens
  \/ SaltRefused
  \/ LockForKeyboard
  \/ KeyboardOpens
  \/ KeyboardRefused
  \/ StoreSalt
  \/ EndRelease

\* Any call the worker can make.
WorkerCalls ==
  \/ \E q \in Quotes : Quote(q)
  \/ \E b \in BOOLEAN : ProveBootKey(b)
  \/ \E r \in Receipts : JudgeReceipt(r)
  \/ \E s \in GateStates : Report(s)
  \/ ReportOver
  \/ \E r \in Releases : TakeRelease(r)

GateNext ==
  \/ \E o \in {"serving", "tampered", "failed"} : SetUp(o)
  \/ WorkerCalls
  \/ Taking
  \/ ExpectRelease
  \/ ReleaseWaitPasses
  \/ StatusGivesUp
  \/ Forget
  \/ \E q \in Quotes, v \in Verdicts : PhoneSigns(q, v)
  \/ BootCloses

GateSpec == GateInit /\ [][GateNext]_gateVars

----------------------------------------------------------------------------
(* Properties.                                                             *)

\* gate_service.go: "a verdict is a receipt signed by the enrolled phone over
\* a quote this coordinator issued in this boot".  Whatever the worker calls,
\* the slot is attested only when a phone signed a trusted verdict over a
\* quote given out in this boot; a receipt of another boot never does.
AttestedIsThePhones ==
  state = "attested" => \E q \in given : <<q, "trusted">> \in signed

\* A slot whose record was replaced (ExitTampered) stays refused, whatever
\* the worker reports, gives no quote and opens no salt.
TamperedStaysRefused ==
  setup = "tampered" => /\ state = "refused"
                        /\ given = {}
                        /\ salt = NoRelease
                        /\ ~ saltTaken

\* Quote's two records of what it remembers agree: the map's keys are those in
\* the order's list, each once, never more than maxIssuedQuotes.
IssuedFollowsOrder ==
  /\ issued = {order[i] : i \in 1..Len(order)}
  /\ \A i, j \in 1..Len(order) : order[i] = order[j] => i = j
  /\ Len(order) <= MaxIssued

\* The layout the pepper is typed through and the salt it is combined with are
\* of one release, and a salt said to be taken (SaltTaken) is held until
\* Forget, though a later release fails half way.
SaltAndLayoutOfOneRelease ==
  /\ layout # NoRelease => layout = salt
  /\ saltTaken => salt # NoRelease \/ forgotten

\* Report: "A verdict, once given, stays": no step of the coordinator takes a
\* slot from a verdict back to waiting, a session or unavailable.
VerdictStays == [][IsVerdict(state) => IsVerdict(state')]_gateVars

----------------------------------------------------------------------------
(* The inductive invariant.                                                *)

\* Only a coordinator that serves gives quotes, verdicts and salts.
OnlyWhenServing ==
  setup # "serving" => /\ given = {}
                       /\ take = "idle"
                       /\ salt = NoRelease
                       /\ layout = NoRelease
                       /\ ~ saltTaken
                       /\ state \notin {"attested", "rejected"}

\* Nobody but a tampered record refuses before the setup has ended.
RefusedByRecord ==
  /\ setup = "running" => state # "refused"
  /\ setup = "tampered" => state = "refused"

TakeHasRelease == take # "idle" => rel \in Releases

GateIInv ==
  /\ GateTypeOK
  /\ AttestedIsThePhones
  /\ OnlyWhenServing
  /\ RefusedByRecord
  /\ TakeHasRelease
  /\ issued \subseteq given
  /\ SaltAndLayoutOfOneRelease
=============================================================================
