---------------------------- MODULE SigningCard ----------------------------
(***************************************************************************)
(* The signing key on a YubiKey (internal/signing yubikey.go, over piv and *)
(* pcsc): several tpm2-kira processes share one card, whose PIN has three  *)
(* attempts.  A process opens a session, and prepares or signs inside a    *)
(* transaction that keeps the others out; the check of a PIN that is to be *)
(* stored (VerifyYubiKeyPIN) runs outside one.  The card itself (attempts, *)
(* the verified flag, the key's PIN policy) is external.                   *)
(***************************************************************************)
EXTENDS Naturals

CONSTANTS
  CardProcs,   \* the processes
  Nobody,      \* no process holds the card
  MaxSessions  \* bound: sessions opened in a behaviour

ASSUME CardAssumption == Nobody \notin CardProcs /\ MaxSessions \in Nat

VARIABLES
  retries,    \* attempts the card's PIN has left
  verified,   \* the card has the PIN
  fresh,      \* it was given right before this signature
  cardPolicy, \* the PIN policy of the key on the card
  stubPolicy, \* the one the key file says
  pinSource,  \* pinSource[p]: what readPIN would give: a PIN, or an error
  sess,       \* sess[p]: p's session
  holder,     \* who has the card's transaction
  stage,      \* where its holder is
  force,      \* force of signLocked
  check,      \* check[p]: VerifyYubiKeyPIN has read the attempts and not yet tried
  opened,     \* sessions opened
  spent,      \* spent[p]: attempts lost in p's present session by signing
  checked     \* VerifyYubiKeyPIN has been called

cardVars == <<retries, verified, fresh, cardPolicy, stubPolicy, pinSource, sess,
              holder, stage, force, check, opened, spent, checked>>
fixedVars == <<cardPolicy, stubPolicy>>

Policies == {"never", "once", "always"}
NoSession == [open |-> FALSE, fatal |-> FALSE, pin |-> "none", unlocked |-> FALSE]

CardInit ==
  /\ retries = 3 /\ verified = FALSE /\ fresh = FALSE
  /\ cardPolicy \in Policies /\ stubPolicy \in Policies
  /\ pinSource \in [CardProcs -> {"right", "wrong", "none"}]
  /\ sess = [p \in CardProcs |-> NoSession]
  /\ holder = Nobody /\ stage = "idle" /\ force = FALSE
  /\ check = [p \in CardProcs |-> FALSE]
  /\ opened = 0
  /\ spent = [p \in CardProcs |-> 0]
  /\ checked = FALSE

\* tokenSessionFor: the card with the key's serial, and the key in its slot.
OpenSession(p) ==
  /\ ~sess[p].open /\ opened < MaxSessions
  /\ sess' = [sess EXCEPT ![p] = [NoSession EXCEPT !.open = TRUE]]
  /\ opened' = opened + 1
  /\ spent' = [spent EXCEPT ![p] = 0]
  /\ UNCHANGED <<retries, verified, fresh, fixedVars, pinSource, holder, stage,
                 force, check, checked>>

\* transaction, for PrepareSigningKey or sign: not after a fatal error.
Transaction(p, what) ==
  /\ sess[p].open /\ ~sess[p].fatal /\ ~check[p]
  /\ holder = Nobody
  /\ holder' = p
  /\ stage' = what
  /\ force' = (what = "sign" /\ stubPolicy = "always")
  /\ UNCHANGED <<retries, verified, fresh, fixedVars, pinSource, sess, check,
                 opened, spent, checked>>

EndTransaction == holder' = Nobody /\ stage' = "idle" /\ force' = FALSE

GoOn(p) ==
  IF stage = "prepare" THEN EndTransaction
  ELSE holder' = p /\ stage' = "card" /\ UNCHANGED force

\* What ends a session for good: no further attempt is made in it.
Fatal(p) ==
  /\ sess' = [sess EXCEPT ![p].fatal = TRUE, ![p].pin = "none"]
  /\ EndTransaction

\* ensurePIN asks nothing of a key without a PIN, or of a card that has it.
NoPINNeeded == ~force /\ (stubPolicy = "never" \/ verified)

RiskTheLast(p) == ~verified /\ retries = 0
\* ensurePIN's refusal of what could be the last attempt.
TooRisky(p) == ~verified /\ (retries = 0 \/ (retries = 1 /\ ~sess[p].unlocked))

\* readPIN: the session's PIN, or the descriptor's, the file's, the terminal's.
PINOf(p) == IF sess[p].pin = "none" THEN pinSource[p] ELSE sess[p].pin

\* VerifyPIN refused: the PIN is wiped and the session over.
WrongPIN(p) ==
  /\ retries' = retries - 1 /\ verified' = FALSE /\ fresh' = FALSE
  /\ Fatal(p)
  /\ spent' = [spent EXCEPT ![p] = @ + 1]

\* VerifyPIN accepted.
RightPIN(p) ==
  /\ retries' = 3 /\ verified' = TRUE /\ fresh' = TRUE
  /\ sess' = [sess EXCEPT ![p].pin = "right", ![p].unlocked = TRUE]
  /\ GoOn(p)
  /\ UNCHANGED spent

EnsurePIN(p) ==
  /\ holder = p /\ stage \in {"prepare", "sign"}
  /\ \/ /\ NoPINNeeded
        /\ GoOn(p)
        /\ UNCHANGED <<retries, verified, fresh, sess, spent>>
     \/ /\ ~NoPINNeeded /\ (TooRisky(p) \/ PINOf(p) = "none")
        /\ Fatal(p)
        /\ UNCHANGED <<retries, verified, fresh, spent>>
     \/ ~NoPINNeeded /\ ~TooRisky(p) /\ PINOf(p) = "right" /\ RightPIN(p)
     \/ ~NoPINNeeded /\ ~TooRisky(p) /\ PINOf(p) = "wrong" /\ WrongPIN(p)
  /\ UNCHANGED <<fixedVars, pinSource, check, opened, checked>>

\* External: whether the card signs without being given the PIN (again).
CardSigns == \/ cardPolicy = "never"
             \/ cardPolicy = "once" /\ verified
             \/ cardPolicy = "always" /\ fresh

\* signLocked: the signature; a card that wants the PIN is given it once
\* more by force; a signature of another key ends the session.
SignLocked(p) ==
  /\ holder = p /\ stage = "card"
  /\ fresh' = FALSE
  /\ \/ CardSigns /\ EndTransaction /\ UNCHANGED sess
     \/ CardSigns /\ Fatal(p)
     \/ ~CardSigns /\ ~force /\ stage' = "sign" /\ force' = TRUE /\ UNCHANGED <<holder, sess>>
     \/ ~CardSigns /\ force /\ EndTransaction /\ UNCHANGED sess
  /\ UNCHANGED <<retries, verified, fixedVars, pinSource, check, opened, spent, checked>>

\* VerifyYubiKeyPIN: the attempts are read, outside any transaction ...
VerifyReads(p) ==
  /\ sess[p].open /\ ~sess[p].fatal /\ holder # p /\ ~check[p]
  /\ verified \/ retries >= 2
  /\ check' = [check EXCEPT ![p] = TRUE]
  /\ checked' = TRUE
  /\ UNCHANGED <<retries, verified, fresh, fixedVars, pinSource, sess, holder,
                 stage, force, opened, spent>>

\* ... and the PIN is tried.
VerifyTries(p, right) ==
  /\ check[p] /\ holder = Nobody
  /\ IF retries = 0 THEN UNCHANGED <<retries, verified>>
     ELSE /\ retries' = IF right THEN 3 ELSE retries - 1
          /\ verified' = right
  /\ fresh' = FALSE
  /\ sess' = [sess EXCEPT ![p].unlocked = @ \/ (right /\ retries > 0)]
  /\ check' = [check EXCEPT ![p] = FALSE]
  /\ UNCHANGED <<fixedVars, pinSource, holder, stage, force, opened, spent, checked>>

\* CloseTokenSessions: an unlocked card is reset.
CloseTokenSessions(p) ==
  /\ sess[p].open /\ holder # p /\ ~check[p]
  /\ sess[p].unlocked => holder = Nobody
  /\ verified' = (verified /\ ~sess[p].unlocked)
  /\ fresh' = (fresh /\ ~sess[p].unlocked)
  /\ sess' = [sess EXCEPT ![p] = NoSession]
  /\ spent' = [spent EXCEPT ![p] = 0]
  /\ UNCHANGED <<retries, fixedVars, pinSource, holder, stage, force, check,
                 opened, checked>>

\* The person: another PIN in the file or at the terminal, the PUK.
PersonActs ==
  /\ holder = Nobody
  /\ \/ \E p \in CardProcs, s \in {"right", "wrong", "none"} :
          /\ ~sess[p].open
          /\ pinSource' = [pinSource EXCEPT ![p] = s] /\ UNCHANGED <<retries, verified>>
     \/ /\ retries < 2 /\ retries' = 3 /\ verified' = FALSE
        /\ UNCHANGED pinSource
  /\ UNCHANGED <<fresh, fixedVars, sess, holder, stage, force, check, opened,
                 spent, checked>>

CardNext ==
  \/ \E p \in CardProcs :
       \/ OpenSession(p) \/ EnsurePIN(p) \/ SignLocked(p)
       \/ \E what \in {"prepare", "sign"} : Transaction(p, what)
       \/ VerifyReads(p) \/ \E right \in BOOLEAN : VerifyTries(p, right)
       \/ CloseTokenSessions(p)
  \/ PersonActs

CardSpec == CardInit /\ [][CardNext]_cardVars

\* Commands that sign never block the card's PIN, however many of them run
\* at once and whatever PINs they are given (ensurePIN), and a session loses
\* at most one attempt, however often it prepares and signs (the sticky fatal
\* error).  Only a process that has also checked a PIN to be stored may block
\* it: its session counts as unlocked without having that PIN, and its own
\* count is read outside a transaction (VerifyYubiKeyPIN).
AttemptsKept ==
  /\ retries = 0 => checked
  /\ \A p \in CardProcs : spent[p] <= 1
=============================================================================
