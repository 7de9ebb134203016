----------------------------- MODULE CodeScreen -----------------------------
(***************************************************************************)
(* The code screen at boot (internal/bootrun): the hold, the parts that    *)
(* open secrets while it lasts, its end, and the key requests answered     *)
(* after it.  It composes the coordinator of PhoneGate with                *)
(*                                                                         *)
(*   - the radio worker, which here keeps its protocol (RunGateRadio,      *)
(*     ServeAttestation) and may die at any moment;                        *)
(*   - the hold (bootDisplay) and the release (parts.release);             *)
(*   - the vault's part, which asks a server and opens in the TPM;         *)
(*   - the console's, the SSH server's and the vault's confirmations, each *)
(*     a goroutine that blocks on the board's channel (board.offer);       *)
(*   - the disk's key provider, which waits for the release and then takes *)
(*     what the parts opened.                                              *)
(*                                                                         *)
(* All of them run side by side.  Time is three points of the hold: before *)
(* its deadline, within PhoneGrace of it, after that.                      *)
(***************************************************************************)
EXTENDS PhoneGate

CONSTANTS
  Plans,       \* the parts an image may have: subsets of {"phone","ssh","vault"}
  Recipes,     \* the recipe of the volume asked for, see RecipeKinds
  VaultSlots,  \* the slots enrolled with a vault
  Signals      \* whether run may be sent a signal that stops it

ASSUME PlansAssumption == Plans \subseteq SUBSET {"phone", "ssh", "vault"}
ASSUME VaultSlotsAssumption == VaultSlots \in Nat \ {0}
ASSUME SignalsAssumption == Signals \in BOOLEAN

VARIABLES
  plan,      \* the parts of this image
  clock,     \* where the hold's time is
  screen,    \* where the hold and its release are
  seen,      \* the gate's status as the screen last copied it
  why,       \* why the hold ended
  by,        \* confirmedBy
  offers,    \* the parts blocked in board.offer
  quits,     \* the parts whose quit channel is closed
  vault,     \* where the vault part's attempt is
  slotsLeft, \* the vault's slots not tried yet, the current one included
  made,      \* whether a key was made
  settled,   \* whether vaultSettle has passed
  link,      \* whether the gate's connections are open
  worker,    \* where the radio worker is
  accepted,  \* whether its session has an accepted receipt (res.Check)
  quote,     \* the quote of its session
  req,       \* the call it has under way: <<"none">> or <<op, argument>>
  early,     \* whether a receipt came before the key provider expected a salt
  begun,     \* whether a TakeRelease was under way when phonePart's wait began
  key,       \* where the volume's key request is
  recipe,    \* the recipe read from the volume's header
  got        \* the salt and the layout it was answered with

holdVars   == <<clock, screen, seen, why, by>>
offerVars  == <<offers, quits>>
vaultVars  == <<vault, slotsLeft, made, settled>>
workerVars == <<link, worker, accepted, quote, req>>
keyVars    == <<key, recipe, got>>
vars == <<gateVars, plan, holdVars, offerVars, vaultVars, workerVars, early, begun, keyVars>>

Confirmers == {"console", "ssh", "vault"}

RecipeKinds == {"phoneSalt", "phoneKeyboard", "vault"}

ASSUME RecipesAssumption == Recipes \subseteq RecipeKinds

\* The parts start, the hold, the parts alone (holdForParts), the steps of
\* release, and after it.
Screens == {"starting", "hold", "parts", "vault", "console", "ssh", "stop",
            "lock", "close", "ready", "over", "stopped"}

NoStatus == [state |-> "", releasing |-> FALSE]

\* phonePart.start comes first: the coordinator sets itself up and the worker
\* runs while the other parts still start.
Init ==
  /\ GateInit
  /\ plan \in Plans
  /\ clock = "hold"
  /\ screen = "starting"
  /\ seen = NoStatus
  /\ why = ""
  /\ by = ""
  /\ offers = {}
  /\ quits = {}
  /\ vault = "off"
  /\ slotsLeft = 0
  /\ made = FALSE
  /\ settled = FALSE
  /\ link = ("phone" \in plan)
  /\ worker = IF "phone" \in plan THEN "identity" ELSE "off"
  /\ accepted = FALSE
  /\ quote = NoRelease
  /\ req = <<"none">>
  /\ early = FALSE
  /\ begun = FALSE
  /\ key = "none"
  /\ recipe = ""
  /\ got = [salt |-> NoRelease, layout |-> NoRelease]

\* run is not stopped.
Runs == screen # "stopped"

----------------------------------------------------------------------------
(* The radio worker and its calls.                                         *)

\* GateClient.ask: one call at a time, over a connection that is open.
MayAsk == Runs /\ link /\ req[1] = "none" /\ Free

Ask(r) == MayAsk /\ req' = r

WorkerStep(from, to) ==
  /\ worker = from
  /\ worker' = to
  /\ UNCHANGED <<gateVars, plan, holdVars, offerVars, vaultVars, link, early, begun, keyVars>>

\* RunGateRadio, Identity: it waits for the setup.
WorkerStarts ==
  /\ MayAsk
  /\ setup # "running"
  /\ WorkerStep("identity", IF setup = "serving" THEN "adapter" ELSE "gone")
  /\ UNCHANGED <<accepted, quote, req>>

AdapterReady ==
  /\ Ask(<<"report", "waiting">>)
  /\ WorkerStep("adapter", "waiting")
  /\ UNCHANGED <<accepted, quote>>

\* ble.Open or the wait for a phone fails: the gate gives up.
RadioFails ==
  /\ Ask(<<"report", "unavailable">>)
  /\ \E w \in {"adapter", "waiting"} : WorkerStep(w, "gone")
  /\ UNCHANGED <<accepted, quote>>

PhoneConnects ==
  /\ Ask(<<"report", "session">>)
  /\ WorkerStep("waiting", "session")
  /\ accepted' = FALSE
  /\ UNCHANGED quote

\* ServeAttestation: the evidence.  No two quotes of a TPM are the same.  The
\* boot key's challenge, which only changes the code shown, is left out here.
AsksQuote ==
  \E q \in Quotes \ given :
    /\ Ask(<<"quote", q>>)
    /\ WorkerStep("session", "quoted")
    /\ quote' = q
    /\ UNCHANGED accepted

\* The phone decides; it signs one verdict over a quote.
PhoneDecides ==
  /\ Runs
  /\ worker = "quoted"
  /\ quote \in given
  /\ \A v \in Verdicts : <<quote, v>> \notin signed
  /\ \E v \in Verdicts : PhoneSigns(quote, v)
  /\ UNCHANGED <<plan, holdVars, offerVars, vaultVars, workerVars, early, begun, keyVars>>

\* The receipts of a session that JudgeReceipt tells apart.
SessionReceipts ==
  {r \in Receipts : /\ r.quote = quote
                    /\ r.signature = "phone" => <<r.quote, r.verdict>> \in signed
                    /\ r.signature = "garbage" => r.verdict = "trusted"
                    /\ ~ r.named => r.signature = "phone"}

\* MsgReceipt: a phone sends one in a session (Verifier, vsWaitReceiptAck).
HandsReceipt ==
  \E r \in SessionReceipts :
    /\ Ask(<<"judge", r>>)
    /\ WorkerStep("quoted", "judged")
    /\ UNCHANGED <<accepted, quote>>

\* MsgRelease, once, after an accepted receipt (Verifier.sendRelease).
HandsRelease ==
  /\ accepted
  /\ \E r \in Releases : Ask(<<"release", r>>)
  /\ WorkerStep("judged", "released")
  /\ UNCHANGED <<accepted, quote>>

\* Bye, or the connection is lost.  Without a receipt the gate waits again;
\* with one the worker is done.
SessionEnds ==
  \/ /\ Ask(<<"report", "waiting">>)
     /\ \E w \in {"session", "quoted"} : WorkerStep(w, "waiting")
     /\ UNCHANGED <<accepted, quote>>
  \/ /\ Ask(<<"over", "session">>)
     /\ \E w \in {"judged", "released"} : WorkerStep(w, "gone")
     /\ accepted' = FALSE
     /\ UNCHANGED quote

\* The worker's process ends; nobody tells the coordinator.
WorkerDies ==
  /\ Runs
  /\ \E w \in {"identity", "adapter", "waiting", "session", "quoted", "judged",
            "released"} :
       WorkerStep(w, "gone")
  /\ accepted' = FALSE
  /\ UNCHANGED <<quote, req>>

\* GateServer.serve answers the call it has read, whether or not the
\* connection has been closed meanwhile.
Answer ==
  /\ Runs
  /\ \/ req[1] = "report" /\ Report(req[2])
     \/ req[1] = "over" /\ ReportOver
     \/ req[1] = "quote" /\ Quote(req[2])
     \/ req[1] = "judge" /\ JudgeReceipt(req[2])
     \/ req[1] = "release" /\ TakeRelease(req[2])
  /\ req' = <<"none">>
  /\ accepted' = IF req[1] = "judge"
                 THEN worker = "judged" /\ CheckReceipt(req[2]).ack = "accepted"
                 ELSE accepted
  /\ early' = (early \/ (req[1] = "judge" /\ ~ expecting))
  /\ UNCHANGED <<plan, holdVars, offerVars, vaultVars, link, worker, quote,
                 begun, keyVars>>

\* Steps of the coordinator alone.
Coordinator ==
  /\ Runs
  /\ \/ /\ "phone" \in plan
        /\ \E o \in {"serving", "tampered", "failed"} : SetUp(o)
     \/ Taking
     \/ ReleaseWaitPasses
  /\ UNCHANGED <<plan, holdVars, offerVars, vaultVars, workerVars, early, begun, keyVars>>

----------------------------------------------------------------------------
(* The vault's part.                                                       *)

\* Mutated form: the request on the network is not cancelled.
Cancelled_Never == FALSE

\* The attempt's context is cancelled with the hold.
Cancelled == "vault" \in quits

VaultStep(from, to) ==
  /\ Runs
  /\ vault = from
  /\ vault' = to
  /\ UNCHANGED <<gateVars, plan, holdVars, quits, settled, workerVars, early, begun, keyVars>>

nextSlot == IF slotsLeft > 1 THEN "local" ELSE "done"

\* A slot came to nothing or to a key; the next slot, or done.
SlotTried(from, m) ==
  /\ VaultStep(from, nextSlot)
  /\ slotsLeft' = slotsLeft - 1
  /\ made' = (made \/ m)
  /\ UNCHANGED offers

\* Open: the local part first, in the TPM, where the recipe has one.
VaultLocal ==
  \/ VaultStep("local", "asking") /\ UNCHANGED <<slotsLeft, made, offers>>
  \/ SlotTried("local", FALSE)

\* The server answers, or the attempt is cancelled or refused.
VaultAsks ==
  \/ ~ Cancelled /\ VaultStep("asking", "opening") /\ UNCHANGED <<slotsLeft, made, offers>>
  \/ SlotTried("asking", FALSE)

\* What it released is opened in the TPM; a pepper that does not fit asks again.
VaultOpens ==
  \/ ~ closed /\ SlotTried("opening", TRUE)
  \/ SlotTried("opening", FALSE)
  \/ ~ closed /\ VaultStep("opening", "asking") /\ UNCHANGED <<slotsLeft, made, offers>>

\* vaultPart's goroutine: a key made is offered as a confirmation.
VaultOffers ==
  /\ Runs
  /\ vault = "done"
  /\ made
  /\ by # "vault"
  /\ "vault" \notin offers \union quits
  /\ offers' = offers \union {"vault"}
  /\ UNCHANGED <<gateVars, plan, holdVars, quits, vaultVars, workerVars, early, begun, keyVars>>

----------------------------------------------------------------------------
(* The confirmations.                                                      *)

\* Enter at the console or in an SSH session: the part's goroutine offers it.
Presses(c) ==
  /\ Runs
  /\ c = "console" => screen # "starting"
  /\ c = "ssh" => "ssh" \in plan
  /\ c \notin offers \union quits
  /\ offers' = offers \union {c}
  /\ UNCHANGED <<gateVars, plan, holdVars, quits, vaultVars, workerVars, early, begun, keyVars>>

\* offer, when its part has been told to quit.
OfferQuits(c) ==
  /\ c \in offers \intersect quits
  /\ offers' = offers \ {c}
  /\ UNCHANGED <<gateVars, plan, holdVars, quits, vaultVars, workerVars, early, begun, keyVars>>

----------------------------------------------------------------------------
(* The hold.                                                               *)

\* The parts start in order; the key provider comes after the vault and asks
\* the gate for the salt.
StartsParts ==
  /\ screen = "starting"
  /\ screen' = "hold"
  /\ IF "phone" \in plan THEN ExpectRelease ELSE UNCHANGED gateVars
  /\ IF "vault" \in plan
     THEN vault' = "local" /\ slotsLeft' = VaultSlots
     ELSE UNCHANGED <<vault, slotsLeft>>
  /\ UNCHANGED <<plan, clock, seen, why, by, offerVars, made, settled,
                 workerVars, early, begun, keyVars>>

Tick ==
  /\ screen \in {"hold", "parts"}
  /\ clock' = CASE clock = "hold" -> "grace" [] clock = "grace" -> "past"
                [] clock = "past" -> "past"
  /\ clock' # clock
  /\ UNCHANGED <<gateVars, plan, screen, seen, why, by, offerVars,
                 vaultVars, workerVars, early, begun, keyVars>>

\* The hold is over, for a reason; its copy of the status goes with it.
Ends(reason, who) ==
  /\ screen' = "vault"
  /\ why' = reason
  /\ by' = who
  /\ seen' = NoStatus

\* Status, which also ends a wait that is overdue.
Status == IF releasing /\ overdue THEN StatusGivesUp ELSE UNCHANGED gateVars
StatusNow == [state |-> state, releasing |-> releasing /\ ~ overdue]

\* waitFor looks at the gate; a boot the phone has released goes on at once.
LooksAtPhone ==
  /\ screen = "hold"
  /\ IF "phone" \in plan THEN Status ELSE UNCHANGED gateVars
  /\ IF "phone" \in plan /\ IsReleased(StatusNow.state, StatusNow.releasing)
     THEN Ends("phone", "")
     ELSE /\ seen' = IF "phone" \in plan THEN StatusNow ELSE seen
          /\ UNCHANGED <<screen, why, by>>
  /\ UNCHANGED <<plan, clock, offerVars, vaultVars, workerVars, early, begun, keyVars>>

\* Mutated form: a session in progress holds the boot for as long as it lasts.
limit_NoGrace == IF seen.state = "session" THEN {} ELSE {"grace", "past"}

\* limit: a session in progress has PhoneGrace, anything else the deadline.
limit == IF seen.state = "session" THEN {"past"} ELSE {"grace", "past"}

\* The clock is read after waitFor's look, whose answer it goes by: the gate
\* may have moved on in between.
TimeIsUp ==
  /\ screen = "hold"
  /\ clock \in limit
  /\ Ends("time", "")
  /\ UNCHANGED <<gateVars, plan, clock, offerVars, vaultVars,
                 workerVars, early, begun, keyVars>>

\* Wait: a confirmation is taken from the board.
Confirmed(c) ==
  /\ screen \in {"hold", "parts"}
  /\ c \in offers
  /\ offers' = offers \ {c}
  /\ Ends("confirmed", c)
  /\ UNCHANGED <<gateVars, plan, clock, quits, vaultVars,
                 workerVars, early, begun, keyVars>>

\* Scan fails: nothing to show, the hold lasts while the vault's part works.
ScanFails ==
  /\ screen = "hold"
  /\ IF "vault" \in plan
     THEN screen' = "parts" /\ UNCHANGED <<seen, why, by>>
     ELSE Ends("parts", "")
  /\ UNCHANGED <<gateVars, plan, clock, offerVars, vaultVars,
                 workerVars, early, begun, keyVars>>

\* holdForParts: they are done, or the deadline has passed.
PartsDone ==
  /\ screen = "parts"
  /\ vault = "done" \/ clock # "hold"
  /\ Ends("parts", "")
  /\ UNCHANGED <<gateVars, plan, clock, offerVars, vaultVars,
                 workerVars, early, begun, keyVars>>

----------------------------------------------------------------------------
(* The release: every part is told, then the close, READY, the keys.       *)

ReleaseStep(from, to) ==
  /\ screen = from
  /\ screen' = to
  /\ UNCHANGED <<plan, clock, seen, why, by, made, slotsLeft, keyVars>>

\* Mutated form: the release does not wait for the vault.
vaultWaitOver_Never == TRUE

\* vaultPart.released waits for the attempt, or vaultSettle.
vaultWaitOver == vault \in {"off", "done"} \/ settled

\* vaultPart.released: cancelled, and its goroutine told.
CancelsVault ==
  /\ screen = "vault"
  /\ "vault" \notin quits
  /\ quits' = quits \union {"vault"}
  /\ UNCHANGED <<gateVars, plan, holdVars, offers, vaultVars, workerVars, early, begun, keyVars>>

VaultSettlePasses ==
  /\ screen = "vault"
  /\ "vault" \in quits
  /\ ~ settled
  /\ settled' = TRUE
  /\ UNCHANGED <<gateVars, plan, holdVars, offerVars, vault, slotsLeft, made,
                 workerVars, early, begun, keyVars>>

VaultReleased ==
  /\ "vault" \in quits
  /\ vaultWaitOver
  /\ ReleaseStep("vault", "console")
  /\ UNCHANGED <<gateVars, offerVars, vault, settled, workerVars, early, begun>>

ConsoleReleased ==
  /\ ReleaseStep("console", "ssh")
  /\ quits' = quits \union {"console"}
  /\ UNCHANGED <<gateVars, offers, vault, settled, workerVars, early, begun>>

\* Mutated form: the SSH server's goroutine is not told to quit.
SSHReleased_Untold ==
  /\ ReleaseStep("ssh", "stop")
  /\ UNCHANGED <<gateVars, offerVars, vault, settled, workerVars, early, begun>>

SSHReleased ==
  /\ ReleaseStep("ssh", "stop")
  /\ quits' = quits \union {"ssh"}
  /\ UNCHANGED <<gateVars, offers, vault, settled, workerVars, early, begun>>

\* Mutated form: stopping the worker also takes the verdict back.
StopsWorker_Resets ==
  /\ ReleaseStep("stop", "lock")
  /\ link' = FALSE
  /\ worker' = IF worker = "off" THEN "off" ELSE "gone"
  /\ accepted' = FALSE
  /\ begun' = TPMHeld
  /\ state' = "unavailable"
  /\ UNCHANGED <<quoteVars, signed, code, releasing, overdue, saltTaken, takeVars,
                 fixedVars, closed, offerVars, vault, settled, quote, req, early>>

\* phonePart.released: the connections are closed, the worker goes or is killed.
StopsWorker ==
  /\ ReleaseStep("stop", "lock")
  /\ link' = FALSE
  /\ worker' = IF worker = "off" THEN "off" ELSE "gone"
  /\ accepted' = FALSE
  /\ begun' = TPMHeld
  /\ UNCHANGED <<gateVars, offerVars, vault, settled, quote, req, early>>

\* phonePart.released: TPMMu is taken and given back.
LocksTPM ==
  /\ ~ TPMHeld
  /\ ReleaseStep("lock", "close")
  /\ UNCHANGED <<gateVars, offerVars, vault, settled, workerVars, early, begun>>

\* closeBoot (bootclose.Now); a failure is said and the boot goes on.
ClosesBoot ==
  /\ ReleaseStep("close", "ready")
  /\ BootCloses \/ UNCHANGED gateVars
  /\ UNCHANGED <<offerVars, vault, settled, workerVars, early, begun>>

\* notifyReady, and the key provider is told.
SendsReady ==
  /\ ReleaseStep("ready", "over")
  /\ UNCHANGED <<gateVars, offerVars, vault, settled, workerVars, early, begun>>

\* External: the image's own close, which READY lets run (module BootClose).
ImageCloses ==
  /\ screen = "over"
  /\ BootCloses
  /\ UNCHANGED <<plan, holdVars, offerVars, vaultVars, workerVars, early, begun, keyVars>>

\* SIGTERM: run ends whatever it is doing, and wipes what it holds.
RunStops ==
  /\ Signals
  /\ Runs
  /\ screen' = "stopped"
  /\ Forget
  /\ link' = FALSE
  /\ worker' = IF worker = "off" THEN "off" ELSE "gone"
  /\ UNCHANGED <<plan, clock, seen, why, by, offerVars, vaultVars,
                 accepted, quote, req, early, begun, keyVars>>

----------------------------------------------------------------------------
(* The disk's key provider.                                                *)

KeyStep(from, to) ==
  /\ Runs
  /\ key = from
  /\ key' = to
  /\ UNCHANGED <<plan, holdVars, offerVars, vaultVars, workerVars, early, begun>>

\* systemd-cryptsetup connects, at any time.
VolumeAsks ==
  /\ screen # "starting"
  /\ KeyStep("none", "asked")
  /\ UNCHANGED <<gateVars, recipe, got>>

\* Mutated form: requests are answered as soon as the hold is over.
answering_WithTheHold == screen \notin {"starting", "hold", "parts", "stopped"}

\* unlockPart.released, after waitPromptTurn: the requests are let through.
answering == screen = "over"

\* DiskKey: the volume's recipe, and where it takes the device's part from.
MakesKey ==
  /\ answering
  /\ recipe' \in Recipes
  /\ KeyStep("asked", CASE recipe' = "phoneSalt" -> "salt"
                        [] recipe' = "phoneKeyboard" -> "keyboard"
                        [] recipe' = "vault" -> "vault")
  /\ UNCHANGED <<gateVars, got>>

\* board.phoneKeyboard and board.salt wait while the gate is releasing.
ProviderWaits ==
  /\ Runs
  /\ key \in {"keyboard", "salt"}
  /\ releasing /\ overdue
  /\ StatusGivesUp
  /\ UNCHANGED <<plan, holdVars, offerVars, vaultVars, workerVars, early, begun, keyVars>>

\* The layout; without one the volume falls back to a typed salt.
TakesLayout ==
  /\ ~ releasing
  /\ KeyStep("keyboard", IF layout = NoRelease THEN "answered" ELSE "salt")
  /\ got' = [got EXCEPT !.layout = layout]
  /\ UNCHANGED <<gateVars, recipe>>

TakesSalt ==
  /\ ~ releasing
  /\ KeyStep("salt", "answered")
  /\ got' = [got EXCEPT !.salt = salt]
  /\ UNCHANGED <<gateVars, recipe>>

\* Keys.ForVolume waits for the attempt to end.
TakesVaultKey ==
  /\ vault \in {"off", "done"}
  /\ KeyStep("vault", "answered")
  /\ UNCHANGED <<gateVars, recipe, got>>

----------------------------------------------------------------------------
Worker ==
  \/ WorkerStarts
  \/ AdapterReady
  \/ RadioFails
  \/ PhoneConnects
  \/ AsksQuote
  \/ HandsReceipt
  \/ HandsRelease
  \/ SessionEnds

Vault == VaultLocal \/ VaultAsks \/ VaultOpens \/ VaultOffers

Hold ==
  \/ StartsParts
  \/ LooksAtPhone
  \/ TimeIsUp
  \/ \E c \in Confirmers : Confirmed(c)
  \/ ScanFails
  \/ PartsDone

Release ==
  \/ CancelsVault
  \/ VaultReleased
  \/ ConsoleReleased
  \/ SSHReleased
  \/ StopsWorker
  \/ LocksTPM
  \/ ClosesBoot
  \/ SendsReady

Provider == MakesKey \/ ProviderWaits \/ TakesLayout \/ TakesSalt \/ TakesVaultKey

Done == (screen = "stopped" \/ (screen = "over" /\ key = "answered")) /\ UNCHANGED vars

Next ==
  \/ Worker
  \/ PhoneDecides
  \/ WorkerDies
  \/ Answer
  \/ Coordinator
  \/ Vault
  \/ \E c \in {"console", "ssh"} : Presses(c)
  \/ \E c \in Confirmers : OfferQuits(c)
  \/ Tick
  \/ VaultSettlePasses
  \/ Hold
  \/ Release
  \/ ImageCloses
  \/ RunStops
  \/ VolumeAsks
  \/ Provider
  \/ Done

Spec == Init /\ [][Next]_vars

\* The hold's loop, the release and the provider are goroutines of a live
\* process; time passes; the TPM answers a call it was given.  Nothing is
\* assumed of the phone, the worker, the vault's server or the person.
Fairness ==
  /\ WF_vars(StartsParts \/ TimeIsUp \/ PartsDone)
  /\ WF_vars(LooksAtPhone)
  /\ WF_vars(Tick)
  /\ WF_vars(Release \/ VaultSettlePasses)
  /\ WF_vars(Coordinator)
  /\ WF_vars(Answer)
  /\ WF_vars(VaultLocal \/ (Cancelled /\ VaultAsks) \/ VaultOpens)
  /\ \A c \in Confirmers : WF_vars(OfferQuits(c))
  /\ WF_vars(Provider)

FairSpec == Spec /\ Fairness

----------------------------------------------------------------------------
(* Properties.                                                             *)

\* The worker here is one the coordinator allows for: every step of the boot
\* is a step of PhoneGate or leaves the gate alone, so what PhoneGate promises
\* of any worker holds in the composition.
ImplementsGate == GateSpec

\* The hold ends on the phone's word only when an enrolled phone signed a
\* trusted verdict over a quote of this boot (Released, JudgeReceipt).
PhoneEndsTheHold ==
  why = "phone" => \E q \in given : <<q, "trusted">> \in signed

\* parts.release: "in the order that lets every one finish what it opens in
\* the TPM".  When run closes the boot no opening of the vault's is under way,
\* unless vaultSettle has passed, and no call holds the TPM for the phone's
\* salt that held it when the phone's part was released.
ClosesOverNothing ==
  [][~ closed /\ closed' /\ screen = "close" =>
       /\ vault \in {"off", "done"} \/ settled
       /\ take = "salt" => ~ begun]_vars

\* "then READY, and the key provider answers from what the parts opened
\* before": no volume's key is made while a part may still be told, before
\* run's close was tried, or with a confirmation still to be taken.
KeysAfterTheClose ==
  key \in {"keyboard", "salt", "vault", "answered"} =>
    /\ why # ""
    /\ screen \in {"over", "stopped"}
    /\ ~ link
    /\ Confirmers \subseteq quits

\* A key made through the phone's keyboard is made with the salt of the same
\* release, and a volume goes without the salt its TPM opened only when the
\* provider has waited releaseWait for it, or the gate did not yet expect one
\* when the receipt came (early).
KeyGetsTheSalt ==
  /\ got.layout # NoRelease /\ got.salt # NoRelease => got.layout = got.salt
  /\ key = "answered" /\ recipe = "phoneSalt" /\ got.salt = NoRelease
       => salt = NoRelease \/ overdue \/ early

\* holdForConfirmation and parts.release come to an end, whatever the phone,
\* the vault's server and the person do.
HoldEnds == <>(screen \in {"over", "stopped"})

\* No confirmation blocks its part for as long as run lives (board.offer): it
\* is taken, or its part is told to quit.
OffersEnd ==
  \A c \in Confirmers : c \in offers ~> c \notin offers \/ screen = "stopped"

\* A volume that asks for its key is answered (UnlockServer, board.salt,
\* Keys.ForVolume), or run has been stopped.
KeysAnswered == key = "asked" ~> key = "answered" \/ screen = "stopped"

----------------------------------------------------------------------------
(* What makes the safety properties inductive.                             *)

\* The calls a worker makes: with arguments the coordinator is asked about.
Calls ==
  {<<"none">>, <<"over", "session">>}
    \union {<<"report", s>> : s \in {"waiting", "session", "unavailable"}}
    \union {<<"quote", q>> : q \in Quotes}
    \union {<<"judge", r>> : r \in Receipts}
    \union {<<"release", r>> : r \in Releases}

\* How far the release is when the boot is past one of its steps.
AfterHold    == {"vault", "console", "ssh", "stop", "lock", "close", "ready", "over"}
AfterVault   == AfterHold \ {"vault"}
AfterConsole == AfterVault \ {"console"}
AfterSSH     == AfterConsole \ {"ssh"}
AfterStop    == AfterSSH \ {"stop"}

ReleaseOrder ==
  /\ screen \in AfterHold => why # ""
  /\ screen \in AfterVault => "vault" \in quits
  /\ screen \in AfterConsole => "console" \in quits
  /\ screen \in AfterSSH => "ssh" \in quits
  /\ screen \in AfterStop => ~ link
  /\ KeysAfterTheClose

IInv ==
  /\ GateIInv
  /\ req \in Calls
  /\ PhoneEndsTheHold
  /\ ReleaseOrder
=============================================================================
