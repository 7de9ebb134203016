---------------------------- MODULE PartsProofs ----------------------------
(***************************************************************************)
(* The parts that stand for themselves, for any number of processes and    *)
(* any length of wait: the signing card keeps its attempts (AttemptsKept), *)
(* the steps of a boot share one wait for the TPM (WaitShared), a slot     *)
(* opens where it was approved (OpensAsApproved), over SSH nothing is      *)
(* confirmed, asked or left open beside what the code says (PromptsHold),  *)
(* and a LUKS device can still be opened (DisksOpen).                      *)
(***************************************************************************)
EXTENDS SigningCard, BootWait, SlotPolicy, SSHScreen, Keyslots, SequenceTheorems, WellFoundedInduction, TLAPS

----------------------------------------------------------------------------
(* The signing card. *)

Sessions == [open : BOOLEAN, fatal : BOOLEAN, pin : {"none", "right"}, unlocked : BOOLEAN]

CardTypeOK ==
  /\ retries \in 0..3
  /\ sess \in [CardProcs -> Sessions]
  /\ spent \in [CardProcs -> {0, 1}]

\* A card that has the PIN has all attempts.  Who holds the card has a session
\* that goes on, and a session that lost an attempt does not.  While nobody has
\* called VerifyYubiKeyPIN, an unlocked session has the right PIN, and one
\* attempt is left.
CardIInv ==
  /\ CardTypeOK
  /\ verified => retries = 3
  /\ \A p \in CardProcs :
       /\ holder = p => sess[p].open /\ ~sess[p].fatal
       /\ spent[p] = 1 => sess[p].fatal
  /\ ~checked => retries # 0
  /\ \A p \in CardProcs :
       ~checked => ~check[p] /\ (sess[p].unlocked => sess[p].fatal \/ sess[p].pin = "right")

\* What the steps do to a session.
LEMMA SessionSet ==
  ASSUME NEW p \in CardProcs, sess \in [CardProcs -> Sessions], NEW s \in Sessions,
         sess' = [sess EXCEPT ![p] = s]
  PROVE  /\ sess' \in [CardProcs -> Sessions] /\ sess'[p] = s
         /\ \A q \in CardProcs \ {p} : sess'[q] = sess[q]
  OBVIOUS

LEMMA SessionFields ==
  ASSUME NEW s \in Sessions
  PROVE  /\ [s EXCEPT !.fatal = TRUE, !.pin = "none"] \in Sessions
         /\ [s EXCEPT !.fatal = TRUE, !.pin = "none"].fatal
         /\ [s EXCEPT !.fatal = TRUE, !.pin = "none"].open = s.open
         /\ [s EXCEPT !.pin = "right", !.unlocked = TRUE] \in Sessions
         /\ [s EXCEPT !.pin = "right", !.unlocked = TRUE].pin = "right"
         /\ [s EXCEPT !.pin = "right", !.unlocked = TRUE].fatal = s.fatal
         /\ [s EXCEPT !.pin = "right", !.unlocked = TRUE].open = s.open
  BY DEF Sessions

LEMMA SessionUnlockable ==
  ASSUME NEW s \in Sessions, NEW b
  PROVE  /\ [s EXCEPT !.unlocked = @ \/ b] \in Sessions
         /\ [s EXCEPT !.unlocked = @ \/ b].fatal = s.fatal
         /\ [s EXCEPT !.unlocked = @ \/ b].open = s.open
<1>1. (s.unlocked \/ b) \in BOOLEAN
  OBVIOUS
<1> QED
  BY <1>1 DEF Sessions

LEMMA SessionFatal ==
  ASSUME NEW p \in CardProcs, sess \in [CardProcs -> Sessions], Fatal(p)
  PROVE  /\ sess' \in [CardProcs -> Sessions]
         /\ sess'[p].fatal /\ sess'[p].open = sess[p].open
         /\ \A q \in CardProcs \ {p} : sess'[q] = sess[q]
         /\ holder' = Nobody
<1> DEFINE s == [sess[p] EXCEPT !.fatal = TRUE, !.pin = "none"]
<1>1. sess' = [sess EXCEPT ![p] = s]
  BY DEF Fatal
<1>2. s \in Sessions /\ s.fatal /\ s.open = sess[p].open
  BY SessionFields
<1>3. holder' = Nobody
  BY DEF Fatal, EndTransaction
<1> HIDE DEF s
<1> QED
  BY <1>1, <1>2, <1>3, SessionSet

LEMMA SessionUnlocked ==
  ASSUME NEW p \in CardProcs, sess \in [CardProcs -> Sessions],
         sess' = [sess EXCEPT ![p].pin = "right", ![p].unlocked = TRUE]
  PROVE  /\ sess' \in [CardProcs -> Sessions]
         /\ sess'[p].pin = "right"
         /\ sess'[p].fatal = sess[p].fatal /\ sess'[p].open = sess[p].open
         /\ \A q \in CardProcs \ {p} : sess'[q] = sess[q]
<1> DEFINE s == [sess[p] EXCEPT !.pin = "right", !.unlocked = TRUE]
<1>1. sess' = [sess EXCEPT ![p] = s]
  OBVIOUS
<1>2. s \in Sessions /\ s.fatal = sess[p].fatal /\ s.open = sess[p].open /\ s.pin = "right"
  BY SessionFields
<1> HIDE DEF s
<1> QED
  BY <1>1, <1>2, SessionSet

LEMMA CardStarts == CardInit => CardIInv
<1> SUFFICES ASSUME CardInit PROVE CardIInv
  OBVIOUS
<1>1. NoSession \in Sessions /\ ~NoSession.fatal /\ ~NoSession.open /\ ~NoSession.unlocked
  BY DEF NoSession, Sessions
<1>2. \A p \in CardProcs : sess[p] = NoSession /\ spent[p] = 0 /\ ~check[p]
  BY DEF CardInit
<1>3. CardTypeOK
  <2>1. sess \in [CardProcs -> Sessions]
    BY <1>1 DEF CardInit
  <2>2. retries \in 0..3 /\ spent \in [CardProcs -> {0, 1}]
    BY DEF CardInit
  <2> QED
    BY <2>1, <2>2 DEF CardTypeOK
<1>4. ~verified /\ retries # 0 /\ holder \notin CardProcs
  BY CardAssumption DEF CardInit
<1> QED
  BY <1>1, <1>2, <1>3, <1>4 DEF CardIInv

LEMMA OpenSessionKeeps ==
  ASSUME NEW p \in CardProcs, CardIInv, OpenSession(p)
  PROVE  CardIInv'
<1> DEFINE s == [NoSession EXCEPT !.open = TRUE]
<1>1. s \in Sessions /\ ~s.unlocked /\ s.open /\ ~s.fatal
  BY DEF NoSession, Sessions
<1>2. ~sess[p].open /\ sess' = [sess EXCEPT ![p] = s] /\ spent' = [spent EXCEPT ![p] = 0]
      /\ UNCHANGED <<retries, verified, holder, check, checked>>
  BY DEF OpenSession
<1>3. /\ sess' \in [CardProcs -> Sessions] /\ sess'[p] = s
      /\ \A q \in CardProcs \ {p} : sess'[q] = sess[q]
  <2> HIDE DEF s
  <2> QED
    BY <1>1, <1>2, SessionSet DEF CardIInv, CardTypeOK
<1>4. spent' \in [CardProcs -> {0, 1}] /\ spent'[p] = 0
      /\ \A q \in CardProcs \ {p} : spent'[q] = spent[q]
  BY <1>2 DEF CardIInv, CardTypeOK
<1> HIDE DEF s
<1>5. CardTypeOK'
  BY <1>2, <1>3, <1>4 DEF CardIInv, CardTypeOK
<1> QED
  BY <1>1, <1>2, <1>3, <1>4, <1>5 DEF CardIInv

LEMMA TransactionKeeps ==
  ASSUME NEW p \in CardProcs, NEW what \in {"prepare", "sign"}, CardIInv, Transaction(p, what)
  PROVE  CardIInv'
  BY CardAssumption DEF CardIInv, CardTypeOK, Sessions, Transaction

\* GoOn leaves the card to p or to nobody.
LEMMA GoOnHolder ==
  ASSUME NEW p \in CardProcs, GoOn(p)
  PROVE  holder' \in {p, Nobody}
  BY DEF GoOn, EndTransaction

LEMMA EnsurePINKeeps ==
  ASSUME NEW p \in CardProcs, CardIInv, EnsurePIN(p)
  PROVE  CardIInv'
<1> USE CardAssumption
<1>1. UNCHANGED <<check, checked>> /\ holder = p /\ ~sess[p].fatal /\ spent[p] = 0
  BY DEF EnsurePIN, CardIInv, CardTypeOK
<1>2. CASE GoOn(p) /\ UNCHANGED <<retries, verified, sess, spent>>
  BY <1>1, <1>2, GoOnHolder DEF CardIInv, CardTypeOK
<1>3. CASE Fatal(p) /\ UNCHANGED <<retries, verified, spent>>
  <2>1. CardTypeOK'
    BY <1>1, <1>3, SessionFatal DEF CardIInv, CardTypeOK
  <2> QED
    BY <1>1, <1>3, <2>1, SessionFatal DEF CardIInv, CardTypeOK
<1>4. CASE RightPIN(p)
  <2>1. retries' = 3 /\ GoOn(p) /\ UNCHANGED spent
    BY <1>4 DEF RightPIN
  <2>2. /\ sess' \in [CardProcs -> Sessions]
        /\ sess'[p].pin = "right"
        /\ sess'[p].fatal = sess[p].fatal /\ sess'[p].open = sess[p].open
        /\ \A q \in CardProcs \ {p} : sess'[q] = sess[q]
    BY <1>4, SessionUnlocked DEF RightPIN, CardIInv, CardTypeOK
  <2>3. holder' \in {p, Nobody}
    BY <2>1, GoOnHolder
  <2>4. CardTypeOK'
    BY <2>1, <2>2 DEF CardIInv, CardTypeOK
  <2> QED
    BY <1>1, <2>1, <2>2, <2>3, <2>4 DEF CardIInv
<1>5. CASE ~TooRisky(p) /\ PINOf(p) = "wrong" /\ WrongPIN(p)
  <2>1. retries \in 1..3 /\ (~checked => retries \in 2..3)
    BY <1>1, <1>5 DEF TooRisky, PINOf, CardIInv, CardTypeOK, Sessions
  <2>2. retries' = retries - 1 /\ verified' = FALSE /\ Fatal(p)
        /\ spent' = [spent EXCEPT ![p] = @ + 1]
    BY <1>5 DEF WrongPIN
  <2>3. retries' \in 0..3 /\ (~checked => retries' # 0)
    BY <2>1, <2>2
  <2>4. spent' \in [CardProcs -> {0, 1}]
        /\ \A q \in CardProcs \ {p} : spent'[q] = spent[q]
    BY <1>1, <2>2 DEF CardIInv, CardTypeOK
  <2>5. sess[p].open
    BY <1>1 DEF CardIInv
  <2>6. CardTypeOK'
    BY <1>1, <2>2, <2>3, <2>4, SessionFatal DEF CardIInv, CardTypeOK
  <2> QED
    BY <1>1, <2>2, <2>3, <2>4, <2>5, <2>6, SessionFatal DEF CardIInv, CardTypeOK
<1> QED
  BY <1>1, <1>2, <1>3, <1>4, <1>5 DEF EnsurePIN

LEMMA SignLockedKeeps ==
  ASSUME NEW p \in CardProcs, CardIInv, SignLocked(p)
  PROVE  CardIInv'
<1> USE CardAssumption
<1>1. UNCHANGED <<retries, verified, check, spent, checked>> /\ holder = p
  BY DEF SignLocked
<1>2. CASE Fatal(p)
  BY <1>1, <1>2, SessionFatal DEF CardIInv, CardTypeOK
<1>3. CASE UNCHANGED sess /\ (EndTransaction \/ UNCHANGED holder)
  BY <1>1, <1>3 DEF EndTransaction, CardIInv, CardTypeOK
<1> QED
  BY <1>2, <1>3 DEF SignLocked

LEMMA VerifyReadsKeeps ==
  ASSUME NEW p \in CardProcs, CardIInv, VerifyReads(p)
  PROVE  CardIInv'
  BY DEF VerifyReads, CardIInv, CardTypeOK

LEMMA VerifyTriesKeeps ==
  ASSUME NEW p \in CardProcs, NEW right \in BOOLEAN, CardIInv, VerifyTries(p, right)
  PROVE  CardIInv'
<1>1. checked /\ UNCHANGED <<holder, spent, checked>>
  BY DEF VerifyTries, CardIInv
<1>2. retries' \in 0..3 /\ (verified' => retries' = 3)
  <2>1. CASE retries = 0
    BY <2>1 DEF VerifyTries, CardIInv, CardTypeOK
  <2>2. CASE retries # 0 /\ right
    BY <2>2 DEF VerifyTries
  <2>3. CASE retries # 0 /\ ~right
    BY <2>3 DEF VerifyTries, CardIInv, CardTypeOK
  <2> QED
    BY <2>1, <2>2, <2>3
<1>3. sess' \in [CardProcs -> Sessions]
      /\ \A q \in CardProcs : sess'[q].fatal = sess[q].fatal /\ sess'[q].open = sess[q].open
  <2> DEFINE s == [sess[p] EXCEPT !.unlocked = @ \/ (right /\ retries > 0)]
  <2>1. sess \in [CardProcs -> Sessions] /\ sess' = [sess EXCEPT ![p] = s]
    BY DEF VerifyTries, CardIInv, CardTypeOK
  <2>2. (sess[p].unlocked \/ (right /\ retries > 0)) \in BOOLEAN
    OBVIOUS
  <2>3. s \in Sessions /\ s.fatal = sess[p].fatal /\ s.open = sess[p].open
    BY <2>1, SessionUnlockable
  <2> HIDE DEF s
  <2> QED
    BY <2>1, <2>3, SessionSet
<1> QED
  BY <1>1, <1>2, <1>3 DEF CardIInv, CardTypeOK

LEMMA CloseKeeps ==
  ASSUME NEW p \in CardProcs, CardIInv, CloseTokenSessions(p)
  PROVE  CardIInv'
<1>1. NoSession \in Sessions /\ ~NoSession.fatal /\ ~NoSession.open /\ ~NoSession.unlocked
  BY DEF NoSession, Sessions
<1>2. holder # p /\ sess' = [sess EXCEPT ![p] = NoSession] /\ spent' = [spent EXCEPT ![p] = 0]
      /\ (verified' => verified) /\ UNCHANGED <<retries, holder, check, checked>>
  BY DEF CloseTokenSessions
<1>3. /\ sess' \in [CardProcs -> Sessions] /\ sess'[p] = NoSession
      /\ \A q \in CardProcs \ {p} : sess'[q] = sess[q]
  BY <1>1, <1>2, SessionSet DEF CardIInv, CardTypeOK
<1>4. spent' \in [CardProcs -> {0, 1}] /\ spent'[p] = 0
      /\ \A q \in CardProcs \ {p} : spent'[q] = spent[q]
  BY <1>2 DEF CardIInv, CardTypeOK
<1>5. CardTypeOK'
  BY <1>2, <1>3, <1>4 DEF CardIInv, CardTypeOK
<1> QED
  BY <1>1, <1>2, <1>3, <1>4, <1>5 DEF CardIInv

LEMMA PersonKeeps == CardIInv /\ PersonActs => CardIInv'
<1> SUFFICES ASSUME CardIInv, PersonActs PROVE CardIInv'
  OBVIOUS
<1>1. UNCHANGED <<sess, holder, check, spent, checked>>
  BY DEF PersonActs
<1>2. \/ retries' = 3 /\ verified' = FALSE
      \/ UNCHANGED <<retries, verified>>
  BY DEF PersonActs
<1>3. CardTypeOK'
  BY <1>1, <1>2 DEF CardIInv, CardTypeOK
<1> QED
  BY <1>1, <1>2, <1>3 DEF CardIInv

\* What CardIInv says is kept by every step of every process, and of the person.
THEOREM CardInductive == CardSpec => []CardIInv
<1>1. CardIInv /\ [CardNext]_cardVars => CardIInv'
  <2> SUFFICES ASSUME CardIInv, [CardNext]_cardVars PROVE CardIInv'
    OBVIOUS
  <2>1. CASE UNCHANGED cardVars
    BY <2>1 DEF cardVars, CardIInv, CardTypeOK
  <2>2. CASE CardNext
    BY <2>2, OpenSessionKeeps, EnsurePINKeeps, SignLockedKeeps, TransactionKeeps,
       VerifyReadsKeeps, VerifyTriesKeeps, CloseKeeps, PersonKeeps DEF CardNext
  <2> QED
    BY <2>1, <2>2
<1> QED
  BY CardStarts, <1>1, PTL DEF CardSpec

\* Commands that sign never block the card's PIN, however many run at once and
\* whatever PINs they are given, and none loses two attempts in a session
\* (ensurePIN and the sticky fatal error of yubikey.go).
THEOREM CardKeepsItsAttempts == CardSpec => []AttemptsKept
<1>1. CardIInv => AttemptsKept
  <2> SUFFICES ASSUME CardIInv PROVE AttemptsKept
    OBVIOUS
  <2>1. retries = 0 => checked
    BY DEF CardIInv
  <2>2. spent \in [CardProcs -> {0, 1}]
    BY DEF CardIInv, CardTypeOK
  <2>3. \A p \in CardProcs : spent[p] <= 1
    BY <2>2
  <2> QED
    BY <2>1, <2>3 DEF AttemptsKept
<1> QED
  BY <1>1, CardInductive, PTL

----------------------------------------------------------------------------
(* The wait for the TPM's device. *)

\* The steps that have read the clock and not yet the wait that is left.
Reading == {"read", "create", "write"}

\* What a step that reads, one that waits and one that gave up know of the
\* first wait: a step that waits does so until its wait is over, counted from
\* the first's beginning or later, and the clock does not pass it by.
StepOK(c, w, first, now) ==
  /\ c.at \in Reading =>
       /\ c \in [at : Reading, now : Nat]
       /\ first \in Nat /\ first <= c.now /\ c.now <= now
  /\ c.at = "wait" =>
       /\ c.deadline \in Nat /\ c.from \in Nat /\ c.late \in Nat
       /\ first \in Nat /\ first + WaitOf[w] <= c.deadline
       /\ now <= c.deadline
       /\ c.by \in Int => c.deadline <= c.by + WaitOf[w] + c.late \/ c.deadline = c.late + c.from
  /\ (c.at = "done" /\ ~c.found /\ WaitOf[w] > 0) =>
       /\ first \in Nat
       /\ c.last >= first + WaitOf[w]
       /\ c.by \in Int => c.last <= c.by + WaitOf[w] + c.late \/ c.last = c.late + c.from

\* The clock and what was written of it: the file has no time before the first
\* wait began.
FileOK ==
  /\ clock \in Nat
  /\ began = Absent \/ (began \in Nat /\ began <= clock)
  /\ since \in {Absent, Refused} \/ (since \in Nat /\ began \in Nat /\ began <= since)

WaitIInv ==
  /\ FileOK
  /\ DOMAIN waiter = Waiters
  /\ \A w \in Waiters : StepOK(waiter[w], w, began, clock)

\* left counts from the first wait: what is left of a step's wait, whatever the
\* file holds, ends no sooner than it would have for the first.
LEMMA DeadlineOK ==
  ASSUME NEW w \in Waiters, NEW file, clock \in Nat, began \in Nat,
         waiter[w].now \in Nat, began <= waiter[w].now, waiter[w].now <= clock,
         file \notin Int \/ (file \in Nat /\ began <= file)
  PROVE  StepOK(Deadline(w, file), w, began, clock)
<1> DEFINE n == waiter[w].now
           l == left(file, WaitOf[w], n)
           c == Deadline(w, file)
<1>1. WaitOf[w] \in Nat
  BY WaitAssumption
<1>2. /\ c.at = "wait" /\ c.from = n /\ c.by = file /\ c.late = clock - n
      /\ c.deadline = clock + l
  BY DEF Deadline
<1>3. l \in Nat /\ (file \in 0..n => l = IF file + WaitOf[w] > n THEN file + WaitOf[w] - n ELSE 0)
      /\ (file \notin 0..n => l = WaitOf[w])
  BY <1>1 DEF left
<1> HIDE DEF l, c
<1>4. c.deadline \in Nat /\ c.from \in Nat /\ c.late \in Nat /\ clock <= c.deadline
  BY <1>2, <1>3
<1>5. began + WaitOf[w] <= c.deadline
  <2>1. CASE file \in 0..n
    BY <1>1, <1>2, <1>3, <2>1
  <2>2. CASE file \notin 0..n
    BY <1>1, <1>2, <1>3, <2>2
  <2> QED
    BY <2>1, <2>2
<1>6. ASSUME file \in Int
      PROVE  c.deadline <= file + WaitOf[w] + c.late \/ c.deadline = c.late + c.from
  <2>1. CASE file \in 0..n
    BY <1>1, <1>2, <1>3, <1>6, <2>1
  <2>2. CASE file \notin 0..n
    BY <1>1, <1>2, <1>3, <1>6, <2>2
  <2> QED
    BY <2>1, <2>2
<1> QED
  BY <1>2, <1>4, <1>5, <1>6 DEF StepOK, Reading, c

\* A step of one of them is no matter of the others.
LEMMA OthersStay ==
  ASSUME NEW w \in Waiters, NEW c, WaitIInv, To2(w, c), clock' = clock,
         began' = began \/ (began = Absent /\ began' = clock),
         FileOK', StepOK(c, w, began', clock)
  PROVE  WaitIInv'
<1>1. /\ DOMAIN waiter' = Waiters /\ waiter'[w] = c
      /\ \A v \in Waiters \ {w} : waiter'[v] = waiter[v]
  BY DEF To2, WaitIInv
<1>2. ASSUME NEW v \in Waiters \ {w} PROVE StepOK(waiter[v], v, began', clock)
  <2>1. StepOK(waiter[v], v, began, clock)
    BY DEF WaitIInv
  <2>2. CASE began' = began
    BY <2>1, <2>2
  <2>3. CASE began = Absent
    BY <2>1, <2>3, WaitAssumption DEF StepOK
  <2> QED
    BY <2>2, <2>3
<1>3. \A v \in Waiters : StepOK(waiter'[v], v, began', clock')
  BY <1>1, <1>2
<1> QED
  BY <1>1, <1>3 DEF WaitIInv

LEMMA WaitStarts == WaitInit => WaitIInv
  BY WaitAssumption DEF WaitInit, WaitIInv, FileOK, StepOK, Reading, Asleep

LEMMA AwaitBeginsKeeps ==
  ASSUME NEW w \in Waiters, WaitIInv, AwaitBegins(w)
  PROVE  WaitIInv'
<1>1. WaitOf[w] \in Nat
  BY WaitAssumption
<1>2. FileOK' /\ clock' = clock /\ (began' = began \/ (began = Absent /\ began' = clock))
  BY WaitAssumption DEF AwaitBegins, WaitIInv, FileOK
<1>3. CASE node \/ WaitOf[w] = 0
  <2> DEFINE c == [at |-> "done", found |-> node, last |-> clock]
  <2>1. To2(w, c)
    BY <1>3 DEF AwaitBegins
  <2>2. c.at = "done" /\ (c.found \/ WaitOf[w] = 0)
    BY <1>3
  <2>3. StepOK(c, w, began', clock)
    <3> HIDE DEF c
    <3> QED
      BY <1>1, <2>2 DEF StepOK, Reading
  <2> HIDE DEF c
  <2> QED
    BY <1>2, <2>1, <2>3, OthersStay
<1>4. CASE ~(node \/ WaitOf[w] = 0)
  <2> DEFINE c == [at |-> "read", now |-> clock]
  <2>1. To2(w, c)
    BY <1>4 DEF AwaitBegins
  <2>2. began' \in Nat /\ began' <= clock
    BY <1>1, <1>2, <1>4 DEF AwaitBegins, WaitIInv, FileOK
  <2>3. StepOK(c, w, began', clock)
    BY <2>2 DEF StepOK, Reading, WaitIInv, FileOK
  <2> HIDE DEF c
  <2> QED
    BY <1>2, <2>1, <2>3, OthersStay
<1> QED
  BY <1>3, <1>4

\* What a step knows that has read the clock.
LEMMA ReadingKnows ==
  ASSUME NEW w \in Waiters, WaitIInv, waiter[w].at \in Reading
  PROVE  /\ waiter[w] \in [at : Reading, now : Nat]
         /\ clock \in Nat /\ began \in Nat
         /\ waiter[w].now \in Nat /\ began <= waiter[w].now /\ waiter[w].now <= clock
  BY DEF WaitIInv, StepOK, FileOK

\* It goes on to the next look at the file, with the same clock.
LEMMA ReadsOn ==
  ASSUME NEW w \in Waiters, WaitIInv, waiter[w].at \in Reading, NEW at \in Reading
  PROVE  StepOK([waiter[w] EXCEPT !.at = at], w, began, clock)
<1> DEFINE c == [waiter[w] EXCEPT !.at = at]
<1>1. c \in [at : Reading, now : Nat] /\ c.now = waiter[w].now /\ c.at = at
  BY ReadingKnows
<1> HIDE DEF c
<1>2. c.at # "wait" /\ c.at # "done"
  BY <1>1 DEF Reading
<1>3. StepOK(c, w, began, clock)
  BY <1>1, <1>2, ReadingKnows DEF StepOK
<1> QED
  BY <1>3 DEF c

LEMMA readSinceKeeps ==
  ASSUME NEW w \in Waiters, WaitIInv, readSince(w)
  PROVE  WaitIInv'
<1>1. waiter[w].at \in Reading /\ UNCHANGED <<clock, since, began>> /\ FileOK'
  BY DEF readSince, Reading, WaitIInv, FileOK
<1>2. CASE since = Absent
  BY <1>1, <1>2, ReadsOn, OthersStay DEF readSince, Reading
<1>3. CASE since # Absent
  <2>1. since \notin Int \/ (since \in Nat /\ began <= since)
    BY WaitAssumption DEF WaitIInv, FileOK
  <2>2. StepOK(Deadline(w, since), w, began, clock)
    BY <1>1, <2>1, ReadingKnows, DeadlineOK
  <2> QED
    BY <1>1, <1>3, <2>2, OthersStay DEF readSince
<1> QED
  BY <1>2, <1>3

LEMMA writeSinceKeeps ==
  ASSUME NEW w \in Waiters, WaitIInv, writeSince(w) \/ WritesTime(w)
  PROVE  WaitIInv'
<1>1. waiter[w].at \in Reading /\ UNCHANGED <<clock, began>>
  BY DEF writeSince, WritesTime, Reading
<1>2. since' \in {since, Refused, waiter[w].now}
  BY DEF writeSince, WritesTime
<1>3. FileOK'
  BY <1>1, <1>2, ReadingKnows DEF WaitIInv, FileOK
<1>4. StepOK(Deadline(w, Absent), w, began, clock)
  BY <1>1, ReadingKnows, DeadlineOK, WaitAssumption
<1>5. StepOK([waiter[w] EXCEPT !.at = "write"], w, began, clock)
  BY <1>1, ReadsOn DEF Reading
<1>6. To2(w, Deadline(w, Absent)) \/ To2(w, [waiter[w] EXCEPT !.at = "write"])
  BY DEF writeSince, WritesTime
<1> QED
  BY <1>1, <1>3, <1>4, <1>5, <1>6, OthersStay

LEMMA KilledKeeps ==
  ASSUME NEW w \in Waiters, WaitIInv, Killed(w)
  PROVE  WaitIInv'
<1> DEFINE c == [at |-> "killed"]
<1>1. To2(w, c) /\ UNCHANGED <<clock, since, began>> /\ FileOK'
  BY DEF Killed, WaitIInv, FileOK
<1>2. StepOK(c, w, began', clock)
  BY DEF StepOK, Reading
<1> HIDE DEF c
<1> QED
  BY <1>1, <1>2, OthersStay

\* It gives up at its deadline, not after it: the clock stood at it.
LEMMA AwaitNodeKeeps ==
  ASSUME NEW w \in Waiters, WaitIInv, AwaitNode(w)
  PROVE  WaitIInv'
<1> DEFINE c == [at |-> "done", found |-> node, last |-> clock, from |-> waiter[w].from,
                 by |-> waiter[w].by, late |-> waiter[w].late]
<1>1. To2(w, c) /\ UNCHANGED <<clock, since, began>> /\ FileOK'
  BY DEF AwaitNode, WaitIInv, FileOK
<1>2. /\ c.at = "done" /\ c.last = clock /\ c.from = waiter[w].from
      /\ c.by = waiter[w].by /\ c.late = waiter[w].late /\ (c.found <=> node)
  OBVIOUS
<1> HIDE DEF c
<1>3. waiter[w].at = "wait" /\ (~node => clock >= waiter[w].deadline) /\ WaitOf[w] \in Nat
  BY WaitAssumption DEF AwaitNode
<1>4. StepOK(waiter[w], w, began, clock) /\ clock \in Nat
  BY DEF WaitIInv, FileOK
<1>5. ~node => clock = waiter[w].deadline
  BY <1>3, <1>4 DEF StepOK
<1>6. StepOK(c, w, began, clock)
  <2>1. CASE node
    BY <1>2, <2>1 DEF StepOK, Reading
  <2>2. CASE ~node
    BY <1>2, <1>3, <1>4, <1>5, <2>2 DEF StepOK, Reading
  <2> QED
    BY <2>1, <2>2
<1> QED
  BY <1>1, <1>6, OthersStay

LEMMA TicksKeeps == WaitIInv /\ (Ticks \/ NodeAppears) => WaitIInv'
<1> SUFFICES ASSUME WaitIInv, Ticks \/ NodeAppears PROVE WaitIInv'
  OBVIOUS
<1>1. /\ UNCHANGED <<since, waiter, began>>
      /\ \/ clock' = clock
         \/ clock' = clock + 1 /\ \A w \in Waiters : waiter[w].at = "wait" => clock < waiter[w].deadline
  BY DEF Ticks, NodeAppears
<1>2. FileOK'
  BY <1>1 DEF WaitIInv, FileOK
<1>3. ASSUME NEW w \in Waiters PROVE StepOK(waiter[w], w, began, clock')
  BY <1>1 DEF WaitIInv, FileOK, StepOK
<1> QED
  BY <1>1, <1>2, <1>3 DEF WaitIInv

\* However many steps of a boot wait for the TPM's device, and wherever one of
\* them ends: each waits its wait from the first's beginning, no less, and one
\* that could read when that was, no more (left and Await of bootwait.go).
THEOREM TheWaitIsShared == WaitSpec => []WaitShared
<1>1. WaitIInv /\ [WaitNext]_waitVars => WaitIInv'
  <2> SUFFICES ASSUME WaitIInv, [WaitNext]_waitVars PROVE WaitIInv'
    OBVIOUS
  <2>1. CASE UNCHANGED waitVars
    BY <2>1 DEF waitVars, WaitIInv, FileOK
  <2>2. CASE WaitNext
    BY <2>2, AwaitBeginsKeeps, readSinceKeeps, writeSinceKeeps, KilledKeeps,
       AwaitNodeKeeps, TicksKeeps DEF WaitNext
  <2> QED
    BY <2>1, <2>2
<1>2. WaitIInv => WaitShared
  <2> SUFFICES ASSUME WaitIInv PROVE WaitShared
    OBVIOUS
  <2>1. \A w \in Waiters : StepOK(waiter[w], w, began, clock)
    BY DEF WaitIInv
  <2> QED
    BY <2>1 DEF WaitShared, StepOK
<1> QED
  BY WaitStarts, <1>1, <1>2, PTL DEF WaitSpec
----------------------------------------------------------------------------
(* The policies of the slots. *)

Registers == [seven : Firmwares \X {0, 1}, eleven : Images \X {0, 1}, fifteen : {0, 1}]
Records ==
  [ref : Nat, gen : Nat, seven : Firmwares \X {0}, signed : BOOLEAN, channel : Firmwares \X {0}]

PolicyTypeOK ==
  /\ reg \in Registers /\ changes \in Nat
  /\ index = Absent \/ index \in Nat
  /\ rec \in Records /\ mid \in Nat
  /\ admin.at = "record" => admin.r \in Records

CallFields == {"o", "at", "blob", "policy", "held", "digest", "counter", "ticket", "result", "gen", "calm"}
EarlyStages == {"explain", "open", "index", "signature"}
LateStages == {"approval", "own", "then"}
SlotStages == EarlyStages \union LateStages \union {"load", "signed", "plain", "nv"}
ChannelStages == {"assert", "why", "or"}
QuoteStages == {"quote", "read", "rest"}
Stages == SlotStages \union ChannelStages \union QuoteStages \union {"use", "done"}
Channels == {"channel", "channel signed"}

CallTypeOK ==
  /\ DOMAIN call = CallFields
  /\ call.o \in Objects /\ call.at \in Stages /\ call.blob \in Records
  /\ call.at \in SlotStages => call.o \in SlotObjects
  /\ call.at \in ChannelStages => call.o \in Channels
  /\ call.at \in QuoteStages => call.o = "quote"
  /\ call.at = "use" => call.o # "quote"

\* The policy the object has: its own, but the machine-id's may be an earlier slot's.
ObjectPolicy ==
  IF call.o = "machine-id" THEN \E m \in Nat : call.policy = SlotPolicyDigest(m)
  ELSE call.policy = PolicyOf(call.o, call.blob, call.blob.ref)

\* The registers were read, and none changed since.
Current == call.counter = changes
Approved == reg.seven = call.blob.seven /\ (call.blob.signed => reg.eleven \in Signatures)

Counter ==
  /\ call.counter = Absent \/ (call.counter \in Nat /\ call.counter <= changes)
  /\ call.at \notin {"done"} => (call.calm => call.counter = Absent \/ Current)

Ticket == <<AssertPCR({11}, <<<<"signed", 0>>>>)>>
Prefix(r) == IF r.signed THEN <<PolicyAuthorize(PCRKey, 0)>> ELSE <<>>
Told(v) == Append(Prefix(call.blob), AssertPCR({7}, <<v>>))

\* The objects that are loaded.
HeldOK ==
  /\ call.at \in EarlyStages \union {"assert"} => call.held = CallerHolds(call.o)
  /\ call.at = "load" => call.held = IF call.blob.signed THEN CallerHolds(call.o) + 1 ELSE CallerHolds(call.o)

EarlyOK ==
  /\ call.at \in EarlyStages \union {"assert"} => call.ticket = <<>> /\ call.digest = <<>> /\ call.counter = Absent
  /\ call.at = "signature" => call.blob.signed
  /\ call.at = "load" =>
       call.digest = <<>> /\ call.counter = Absent /\ call.ticket = IF call.blob.signed THEN Ticket ELSE <<>>
  /\ call.at = "signed" =>
       call.blob.signed /\ call.ticket = Ticket /\ call.digest = <<>> /\ call.counter = Absent

\* What the session has asserted.
SessionOK ==
  /\ call.at = "plain" =>
       /\ call.digest = Prefix(call.blob)
       /\ ~ call.blob.signed => call.counter = Absent
       /\ call.blob.signed => call.counter # Absent /\ (Current => reg.eleven \in Signatures)
  /\ call.at = "nv" =>
       \E v \in Firmwares \X {0, 1} :
         /\ call.digest = Told(v) /\ call.counter # Absent
         /\ Current => reg.seven = v /\ (call.blob.signed => reg.eleven \in Signatures)
  /\ call.at = "approval" =>
       \E v \in Firmwares \X {0, 1} :
         /\ call.digest = Append(Told(v), PolicyNV(call.blob.gen)) /\ call.counter # Absent
         /\ Current => reg.seven = v /\ (call.blob.signed => reg.eleven \in Signatures)
  /\ call.at = "own" =>
       call.digest = <<PolicyAuthorize(Signing, call.blob.ref)>> /\ call.counter # Absent /\ (Current => Approved)
  /\ call.at = "then" => call.o = "factor" /\ call.digest = SlotPolicyDigest(call.blob.ref)
  /\ call.at = "use" => call.digest = PolicyOf(call.o, call.blob, call.blob.ref)
  /\ call.at = "then" \/ (call.at = "use" /\ call.o \in SlotObjects) =>
       call.counter # Absent /\ (Current => Approved /\ reg.fifteen = 0)
  /\ call.at \in LateStages \/ (call.at = "use" /\ call.o \in SlotObjects) => call.gen = call.blob.gen

ChannelOK ==
  /\ call.at = "why" => call.o = "channel" /\ (reg.fifteen # 0 \/ reg.seven # call.blob.channel)
  /\ call.at \in {"or", "use"} /\ call.o = "channel" =>
       call.counter # Absent /\ (Current => reg.seven = call.blob.channel /\ reg.fifteen = 0)
  /\ call.at = "or" /\ call.o = "channel" => call.digest = <<AssertPCR({7, 15}, <<call.blob.channel, 0>>)>>
  /\ call.at \in {"or", "use"} /\ call.o = "channel signed" => call.counter = Absent
  /\ call.at = "or" /\ call.o = "channel signed" => call.digest = <<PolicySigned(Signing, call.blob.ref)>>

\* A quote that was not reproduced cost a change.
QuoteOK ==
  call.at \in QuoteStages =>
    /\ call.ticket \in Seq(Registers)
    /\ call.at = "quote" => Len(call.ticket) <= changes
    /\ call.at \in {"read", "rest"} =>
         /\ Len(call.ticket) > 0 /\ Len(call.ticket) <= changes + 1
         /\ \/ Len(call.ticket) <= changes /\ ~call.calm
            \/ reg = Last(call.ticket) /\ (call.at = "rest" => call.digest[1] = reg.seven)
    /\ call.at = "rest" => call.digest[1] \in Firmwares \X {0, 1}

\* What holds while nothing changed since the use began.
CalmOK ==
  call.calm =>
    /\ call.at \in SlotStages \ {"explain", "open"} => reg.fifteen = 0
    /\ call.at \in {"load", "signed", "plain", "nv"} \union LateStages /\ call.blob.signed => reg.eleven \in Signatures
    /\ call.at \in LateStages \/ (call.at = "use" /\ call.o \in SlotObjects) => index = call.blob.gen

CallInv ==
  call.at # "idle" =>
    /\ CallTypeOK /\ ObjectPolicy /\ Counter /\ HeldOK /\ EarlyOK /\ SessionOK /\ ChannelOK /\ QuoteOK /\ CalmOK

SettingsFields == {"held", "before", "at", "told"}
SettingsInv ==
  /\ DOMAIN settings = SettingsFields
  /\ settings.at \in {"idle", "define", "write"}
  /\ settings.at = "write" => settings.held \in {<<"new", n>> : n \in 0 .. MaxChunks}
  
PolicyIInv == PolicyTypeOK /\ CallInv /\ SettingsInv /\ OpensAsApproved

----------------------------------------------------------------------------
LEMMA AppendPair ==
  ASSUME NEW a, NEW b
  PROVE  Append(<<a>>, b) = <<a, b>>
<1> DEFINE S == {a, b}
           s == Append(<<a>>, b)
           t == <<a, b>>
<1>1. <<a>> \in Seq(S) /\ b \in S /\ t \in Seq(S)
  OBVIOUS
<1>2. Len(s) = 2 /\ s[1] = a /\ s[2] = b /\ s \in Seq(S)
  BY <1>1
<1>3. Len(t) = 2 /\ t[1] = a /\ t[2] = b
  OBVIOUS
<1>4. \A i \in 1 .. Len(s) : s[i] = t[i]
  BY <1>2, <1>3
<1> HIDE DEF s, t, S
<1>5. s = t
  BY <1>1, <1>2, <1>3, <1>4, SeqEqual
<1> QED BY <1>5 DEF s, t

\* Values that differ are asserted differently.
LEMMA AssertionsDiffer == \A p, v, w : AssertPCR(p, <<v>>) = AssertPCR(p, <<w>>) => v = w
<1> SUFFICES ASSUME NEW p, NEW v, NEW w, <<"PCR", p, <<v>>>> = <<"PCR", p, <<w>>>>
             PROVE  v = w
  BY DEF AssertPCR
<1>1. <<v>> = <<w>>
  <2>1. <<"PCR", p, <<v>>>>[3] = <<"PCR", p, <<w>>>>[3]
    OBVIOUS
  <2> QED BY <2>1
<1>2. <<v>>[1] = <<w>>[1]
  BY <1>1
<1> QED BY <1>2

\* What the approval is compared with tells the value of PCR 7.
LEMMA TheApprovedValue ==
  ASSUME NEW r \in Records, NEW v,
         Append(Append(Prefix(r), AssertPCR({7}, <<v>>)), PolicyNV(r.gen)) = ApprovedPolicy(r)
  PROVE  v = r.seven
<1>1. CASE r.signed
  <2>1. <<PolicyAuthorize(PCRKey, 0), AssertPCR({7}, <<v>>), PolicyNV(r.gen)>>
          = <<PolicyAuthorize(PCRKey, 0), AssertPCR({7}, <<r.seven>>), PolicyNV(r.gen)>>
    BY <1>1 DEF Prefix, ApprovedPolicy
  <2>2. AssertPCR({7}, <<v>>) = AssertPCR({7}, <<r.seven>>)
    BY <2>1
  <2> QED BY <2>2, AssertionsDiffer
<1>2. CASE ~ r.signed
  <2>1. <<AssertPCR({7}, <<v>>), PolicyNV(r.gen)>> = <<AssertPCR({7}, <<r.seven>>), PolicyNV(r.gen)>>
    BY <1>2 DEF Prefix, ApprovedPolicy
  <2>2. AssertPCR({7}, <<v>>) = AssertPCR({7}, <<r.seven>>)
    BY <2>1
  <2> QED BY <2>2, AssertionsDiffer
<1> QED BY <1>1, <1>2

LEMMA TheApprovedPolicy ==
  ASSUME NEW r \in Records
  PROVE  Append(Append(Prefix(r), AssertPCR({7}, <<r.seven>>)), PolicyNV(r.gen)) = ApprovedPolicy(r)
<1>1. CASE r.signed
  BY <1>1 DEF Prefix, ApprovedPolicy
<1>2. CASE ~ r.signed
  BY <1>2 DEF Prefix, ApprovedPolicy
<1> QED BY <1>1, <1>2

\* The policies of the objects.
LEMMA ThePolicies ==
  /\ \A o, r, m, k : o # "machine-id" => PolicyOf(o, r, m) = PolicyOf(o, r, k)
  /\ \A r, m : PolicyOf("machine-id", r, m) = SlotPolicyDigest(m)
  /\ \A r, m : PolicyOf("factor", r, m) = ReleaseKeyPolicy(r.ref)
  /\ \A o \in SlotObjects \ {"machine-id", "factor"} : \A r, m : PolicyOf(o, r, m) = SlotPolicyDigest(r.ref)
  /\ \A o \in Channels : \A r, m : PolicyOf(o, r, m) = channelPolicy(r)
  BY DEF PolicyOf, Channels, SlotObjects, Objects, CreateKey, CreateBootKey, CreateReleaseKey, SealMachineID

LEMMA ReleaseIsNoSlot == \A k, m : SlotPolicyDigest(k) # ReleaseKeyPolicy(m)
<1> SUFFICES ASSUME NEW k, NEW m, SlotPolicyDigest(k) = ReleaseKeyPolicy(m) PROVE FALSE
  OBVIOUS
<1>1. Len(SlotPolicyDigest(k)) = 2
  BY DEF SlotPolicyDigest
<1>2. Len(ReleaseKeyPolicy(m)) = 3
  BY DEF SlotPolicyDigest, ReleaseKeyPolicy
<1> QED BY <1>1, <1>2

----------------------------------------------------------------------------
(* The steps of a use. *)

\* What a use's parts read beside its own fields.
Around == <<reg, changes, index, rec, mid, admin, settings>>

\* A use begins with nothing asserted and its caller's objects loaded.
LEMMA BeginKeeps ==
  ASSUME PolicyTypeOK, UNCHANGED Around, NEW o \in Objects, NEW r \in Records,
         DOMAIN call' = CallFields, call'.o = o, call'.at = First(o), call'.blob = r,
         call'.policy = PolicyOf(o, r, mid), call'.held = CallerHolds(o), call'.digest = <<>>,
         call'.counter = Absent, call'.ticket = <<>>
  PROVE  CallInv'
<1> USE DEF Around
<1>1. /\ DOMAIN call' = CallFields /\ call'.o = o /\ call'.at = First(o) /\ call'.blob = r
      /\ call'.policy = PolicyOf(o, r, mid) /\ call'.held = CallerHolds(o) /\ call'.digest = <<>>
      /\ call'.counter = Absent /\ call'.ticket = <<>>
  OBVIOUS
<1>2. /\ First(o) \in {"explain", "open", "assert", "quote"}
      /\ o \in SlotObjects => First(o) \in {"explain", "open"}
      /\ o \in Channels => First(o) = "assert"
      /\ o = "quote" => First(o) = "quote"
      /\ o \in SlotObjects \union Channels \union {"quote"}
  BY DEF First, Objects, SlotObjects, Channels
<1>3. CallTypeOK'
  BY <1>1, <1>2 DEF CallTypeOK, Stages, SlotStages, EarlyStages, LateStages, ChannelStages, QuoteStages, SlotObjects, Channels
<1>4. ObjectPolicy'
  BY <1>1, ThePolicies DEF ObjectPolicy, PolicyTypeOK
<1>5. Counter' /\ HeldOK' /\ EarlyOK'
  BY <1>1, <1>2 DEF Counter, HeldOK, EarlyOK, EarlyStages
<1>6. SessionOK' /\ ChannelOK' /\ CalmOK'
  BY <1>1, <1>2 DEF SessionOK, ChannelOK, CalmOK, SlotStages, LateStages, EarlyStages
<1>7. QuoteOK'
  <2>1. Len(call'.ticket) <= changes' /\ call'.ticket \in Seq(Registers)
    BY <1>1 DEF PolicyTypeOK
  <2> QED BY <1>1, <1>2, <2>1 DEF QuoteOK, QuoteStages
<1> QED BY <1>3, <1>4, <1>5, <1>6, <1>7 DEF CallInv

\* What disturbs a use leaves it not calm.  The registers only move on: a
\* change is counted, and PCR 7 does not come back to what it was sealed to.
Moved ==
  \/ reg' = reg /\ changes' = changes
  \/ /\ changes' = changes + 1
     /\ reg.fifteen # 0 => reg'.fifteen # 0
     /\ reg'.seven = reg.seven \/ reg'.seven[2] = 1

LEMMA DisturbKeeps ==
  ASSUME PolicyTypeOK, PolicyTypeOK', CallInv, Disturbs, call.at # "done", Moved
  PROVE  CallInv' /\ call'.at = call.at
<1>1. CASE call.at = "idle"
  BY <1>1 DEF Disturbs, CallInv
<1>2. CASE call.at # "idle"
  <2>0. CallTypeOK /\ ObjectPolicy /\ Counter /\ HeldOK /\ EarlyOK /\ SessionOK /\ ChannelOK /\ QuoteOK
    BY <1>2 DEF CallInv
  <2>1. /\ DOMAIN call' = CallFields /\ call'.o = call.o /\ call'.at = call.at /\ call'.blob = call.blob
        /\ call'.policy = call.policy /\ call'.held = call.held /\ call'.digest = call.digest
        /\ call'.counter = call.counter /\ call'.ticket = call.ticket /\ call'.gen = call.gen /\ call'.calm = FALSE
    BY <1>2, <2>0 DEF Disturbs, CallTypeOK, CallFields
  <2>2. CallTypeOK' /\ ObjectPolicy' /\ HeldOK' /\ EarlyOK' /\ CalmOK'
    BY <2>0, <2>1 DEF CallTypeOK, ObjectPolicy, HeldOK, EarlyOK, CalmOK
  <2>3. changes \in Nat /\ changes' \in Nat /\ changes <= changes'
    BY DEF PolicyTypeOK, Moved
  <2>4. Counter'
    <3>1. call.counter = Absent \/ (call.counter \in Nat /\ call.counter <= changes')
      BY <2>0, <2>3 DEF Counter
    <3> QED BY <2>1, <3>1 DEF Counter
  <2>5. (Current' => Current /\ reg' = reg) \/ call.counter = Absent
    <3>1. CASE reg' = reg /\ changes' = changes
      BY <2>1, <3>1 DEF Current
    <3>2. CASE changes' = changes + 1 /\ call.counter \in Nat /\ call.counter <= changes
      <4>1. call.counter # changes'
        BY <2>3, <3>2
      <4> QED BY <2>1, <4>1 DEF Current
    <3> QED BY <2>0, <3>1, <3>2 DEF Moved, Counter
  <2>6. SessionOK'
    <3>1. CASE call.counter = Absent
      BY <2>0, <2>1, <3>1 DEF SessionOK, Told
    <3>2. CASE Current' => Current /\ reg' = reg
      <4>1. CASE call.at = "nv"
        <5>1. PICK v \in Firmwares \X {0, 1} :
                /\ call.digest = Told(v) /\ call.counter # Absent
                /\ Current => reg.seven = v /\ (call.blob.signed => reg.eleven \in Signatures)
          BY <2>0, <4>1 DEF SessionOK
        <5>2. /\ call'.digest = Told(v)' /\ call'.counter # Absent
              /\ Current' => reg'.seven = v /\ (call'.blob.signed => reg'.eleven \in Signatures)
          BY <2>1, <3>2, <5>1 DEF Told
        <5> QED BY <2>1, <4>1, <5>2 DEF SessionOK, LateStages
      <4>2. CASE call.at = "approval"
        <5>1. PICK v \in Firmwares \X {0, 1} :
                /\ call.digest = Append(Told(v), PolicyNV(call.blob.gen)) /\ call.counter # Absent
                /\ Current => reg.seven = v /\ (call.blob.signed => reg.eleven \in Signatures)
          BY <2>0, <4>2 DEF SessionOK
        <5>2. /\ call'.digest = Append(Told(v)', PolicyNV(call'.blob.gen)) /\ call'.counter # Absent
              /\ Current' => reg'.seven = v /\ (call'.blob.signed => reg'.eleven \in Signatures)
          BY <2>1, <3>2, <5>1 DEF Told
        <5>3. call'.gen = call'.blob.gen
          BY <2>0, <2>1, <4>2 DEF SessionOK, LateStages
        <5> QED BY <2>1, <4>2, <5>2, <5>3 DEF SessionOK
      <4>3. CASE call.at \notin {"nv", "approval"}
        BY <2>0, <2>1, <3>2, <4>3 DEF SessionOK, Approved
      <4> QED BY <4>1, <4>2, <4>3
    <3> QED BY <2>5, <3>1, <3>2
  <2>7. ChannelOK'
    <3>1. call.at = "why" => reg'.fifteen # 0 \/ reg'.seven # call.blob.channel
      <4>1. call.blob.channel[2] = 0
        BY <2>0 DEF CallTypeOK, Records
      <4> QED BY <2>0, <4>1 DEF ChannelOK, Moved
    <3>2. CASE call.counter = Absent
      BY <2>0, <2>1, <3>1, <3>2 DEF ChannelOK
    <3>3. CASE Current' => Current /\ reg' = reg
      BY <2>0, <2>1, <3>1, <3>3 DEF ChannelOK
    <3> QED BY <2>5, <3>2, <3>3
  <2>8. QuoteOK'
    <3> SUFFICES ASSUME call.at \in QuoteStages
                 PROVE  QuoteOK'
      BY <2>1 DEF QuoteOK
    <3> DEFINE n == Len(call.ticket)
    <3>1. n \in Nat
      BY <2>0 DEF QuoteOK
    <3>2. n <= changes => n <= changes'
      BY <2>3, <3>1
    <3>3. n <= changes + 1 => n <= changes' + 1
      BY <2>3, <3>1
    <3>4. CASE reg' = reg /\ changes' = changes
      <4>1. call.at \in {"read", "rest"} => n <= changes' \/ (reg' = Last(call.ticket) /\ (call.at = "rest" => call.digest[1] = reg'.seven))
        BY <2>0, <3>4 DEF QuoteOK
      <4> QED BY <2>0, <2>1, <3>2, <3>3, <4>1 DEF QuoteOK
    <3>5. CASE changes' = changes + 1
      <4>1. n <= changes + 1 => n <= changes'
        BY <3>5
      <4> QED BY <2>0, <2>1, <3>2, <3>3, <4>1 DEF QuoteOK
    <3> QED BY <3>4, <3>5 DEF Moved
  <2> QED BY <2>1, <2>2, <2>4, <2>6, <2>7, <2>8 DEF CallInv
<1> QED BY <1>1, <1>2

\* A use that ends keeps what it was about.
LEMMA EndKeeps ==
  ASSUME CallInv, call.at # "idle", NEW res, Ends(res)
  PROVE  /\ CallInv'
         /\ call'.at = "done" /\ call'.result = res /\ call'.o = call.o /\ call'.blob = call.blob
         /\ call'.policy = call.policy /\ call'.digest = call.digest /\ call'.ticket = call.ticket
         /\ call'.gen = call.gen /\ call'.calm = call.calm
         /\ UNCHANGED Around
<1>1. UNCHANGED Around
  BY DEF Ends, To, Around
<1>2. CallTypeOK /\ ObjectPolicy /\ Counter
  BY DEF CallInv
<1>3. /\ DOMAIN call' = CallFields
      /\ call'.at = "done" /\ call'.result = res /\ call'.o = call.o /\ call'.blob = call.blob
      /\ call'.policy = call.policy /\ call'.digest = call.digest /\ call'.ticket = call.ticket
      /\ call'.counter = call.counter /\ call'.gen = call.gen /\ call'.calm = call.calm
  BY <1>2 DEF Ends, To, CallTypeOK, CallFields
<1>4. CallTypeOK' /\ ObjectPolicy' /\ Counter'
  BY <1>1, <1>2, <1>3 DEF CallTypeOK, ObjectPolicy, Counter, Around, Stages, SlotStages, EarlyStages, LateStages, ChannelStages, QuoteStages
<1>5. HeldOK' /\ EarlyOK' /\ SessionOK' /\ ChannelOK' /\ QuoteOK' /\ CalmOK'
  BY <1>3 DEF HeldOK, EarlyOK, SessionOK, ChannelOK, QuoteOK, CalmOK, SlotStages, EarlyStages, LateStages, QuoteStages
<1> QED BY <1>1, <1>3, <1>4, <1>5 DEF CallInv

\* What a session of the slot says when it does not open.
SlotBlames == {"closed", "missing", "revoked", "separator", "mismatch", "unsigned", "refused"}
Blamed(res) ==
  /\ res = "closed" => reg.fifteen # 0
  /\ res = "separator" => reg.seven[2] = 1
  /\ res = "unsigned" => call.blob.signed /\ reg.eleven \notin Signatures
  /\ res = "refused" /\ call.calm =>
       \/ reg.seven # call.blob.seven \/ index # call.blob.gen
       \/ call.policy # PolicyOf(call.o, call.blob, call.blob.ref)
  /\ call.calm /\ call.policy \in {SlotPolicyDigest(call.blob.ref), ReleaseKeyPolicy(call.blob.ref)} =>
       ~ (reg.fifteen = 0 /\ Approved /\ index = call.blob.gen)

LEMMA SlotEnds ==
  ASSUME CallInv, call.at # "idle", call.o \in SlotObjects, NEW res \in SlotBlames, Blamed(res), Ends(res)
  PROVE  CallInv' /\ OpensOnlyApproved' /\ ApprovedOpens' /\ BlameRight'
<1>1. /\ CallInv'
      /\ call'.at = "done" /\ call'.result = res /\ call'.o = call.o /\ call'.blob = call.blob
      /\ call'.policy = call.policy /\ call'.digest = call.digest /\ call'.ticket = call.ticket
      /\ call'.gen = call.gen /\ call'.calm = call.calm
      /\ reg' = reg /\ changes' = changes /\ index' = index
  BY EndKeeps DEF Around
<1>2. OpensOnlyApproved'
  BY <1>1 DEF OpensOnlyApproved, SlotBlames
<1>3. call.o \notin {"channel", "channel signed", "quote"}
  BY DEF SlotObjects
<1>4. ApprovedOpens'
  BY <1>1, <1>3 DEF ApprovedOpens, Undisturbed, Blamed, Approved, SlotBlames
<1>5. BlameRight'
  BY <1>1 DEF BlameRight, Undisturbed, Blamed, SlotBlames
<1> QED BY <1>1, <1>2, <1>4, <1>5

UseOK == CallInv /\ OpensOnlyApproved /\ ApprovedOpens /\ BlameRight

\* The parts of the invariant, for a use under way.
LEMMA Parts ==
  ASSUME CallInv, call.at # "idle"
  PROVE  CallTypeOK /\ ObjectPolicy /\ Counter /\ HeldOK /\ EarlyOK /\ SessionOK /\ ChannelOK /\ QuoteOK /\ CalmOK
  BY DEF CallInv

LEMMA Ongoing ==
  ASSUME CallTypeOK', ObjectPolicy', Counter', HeldOK', EarlyOK', SessionOK', ChannelOK', QuoteOK', CalmOK',
         call'.at # "done"
  PROVE  UseOK'
  BY DEF UseOK, CallInv, OpensOnlyApproved, ApprovedOpens, BlameRight

\* A step to another stage, with nothing else changed.
LEMMA StageTo ==
  ASSUME CallTypeOK, NEW s, Step(s)
  PROVE  /\ DOMAIN call' = CallFields /\ call'.at = s /\ call'.o = call.o /\ call'.blob = call.blob
         /\ call'.policy = call.policy /\ call'.digest = call.digest /\ call'.ticket = call.ticket
         /\ call'.counter = call.counter /\ call'.gen = call.gen /\ call'.calm = call.calm /\ call'.held = call.held
         /\ reg' = reg /\ changes' = changes /\ index' = index
  BY DEF Step, To, CallTypeOK, CallFields

LEMMA SlotCodeKeeps ==
  ASSUME PolicyTypeOK, CallInv, SlotCode
  PROVE  UseOK'
<1> DEFINE e == explain(reg, index, call.blob)
<1>1. call.at = "explain" /\ (IF e = "none" THEN Step("open") ELSE Ends(e))
  BY DEF SlotCode
<1>2. CallTypeOK /\ ObjectPolicy /\ Counter /\ HeldOK /\ EarlyOK /\ call.o \in SlotObjects
  BY <1>1, Parts DEF CallTypeOK, SlotStages, EarlyStages
<1>3. call.blob.gen \in Nat /\ call.blob.gen # Absent
  BY <1>2, AbsentAssumption DEF CallTypeOK, Records
<1>4. CASE e # "none"
  <2>1. e \in SlotBlames /\ Blamed(e)
    BY <1>3, <1>4 DEF explain, SlotBlames, Blamed, Approved
  <2> QED BY <1>1, <1>2, <1>4, <2>1, SlotEnds DEF UseOK
<1>5. CASE e = "none"
  <2>1. Step("open")
    BY <1>1, <1>5
  <2>2. /\ DOMAIN call' = CallFields /\ call'.at = "open" /\ call'.o = call.o /\ call'.blob = call.blob
        /\ call'.policy = call.policy /\ call'.digest = call.digest /\ call'.ticket = call.ticket
        /\ call'.counter = call.counter /\ call'.gen = call.gen /\ call'.calm = call.calm /\ call'.held = call.held
        /\ reg' = reg /\ changes' = changes /\ index' = index
    BY <1>2, <2>1, StageTo
  <2>3. CallTypeOK' /\ ObjectPolicy' /\ Counter' /\ HeldOK' /\ EarlyOK'
    BY <1>1, <1>2, <2>2 DEF CallTypeOK, ObjectPolicy, Counter, Current, HeldOK, EarlyOK, Stages, SlotStages, EarlyStages, ChannelStages, QuoteStages
  <2>4. SessionOK' /\ ChannelOK' /\ QuoteOK' /\ CalmOK'
    BY <2>2 DEF SessionOK, ChannelOK, QuoteOK, CalmOK, LateStages, SlotStages, QuoteStages, EarlyStages
  <2> QED BY <2>2, <2>3, <2>4, Ongoing
<1> QED BY <1>4, <1>5

LEMMA CheckOpenKeeps ==
  ASSUME PolicyTypeOK, CallInv, CheckOpen
  PROVE  UseOK'
<1>1. call.at = "open" /\ (IF reg.fifteen # 0 THEN Ends("closed") ELSE Step("index"))
  BY DEF CheckOpen
<1>2. CallTypeOK /\ ObjectPolicy /\ Counter /\ HeldOK /\ EarlyOK /\ call.o \in SlotObjects
  BY <1>1, Parts DEF CallTypeOK, SlotStages, EarlyStages
<1>3. CASE reg.fifteen # 0
  <2>1. "closed" \in SlotBlames /\ Blamed("closed")
    BY <1>3 DEF SlotBlames, Blamed
  <2> QED BY <1>1, <1>2, <1>3, <2>1, SlotEnds DEF UseOK
<1>4. CASE reg.fifteen = 0
  <2>1. Step("index")
    BY <1>1, <1>4
  <2>2. /\ DOMAIN call' = CallFields /\ call'.at = "index" /\ call'.o = call.o /\ call'.blob = call.blob
        /\ call'.policy = call.policy /\ call'.digest = call.digest /\ call'.ticket = call.ticket
        /\ call'.counter = call.counter /\ call'.gen = call.gen /\ call'.calm = call.calm /\ call'.held = call.held
        /\ reg' = reg /\ changes' = changes /\ index' = index
    BY <1>2, <2>1, StageTo
  <2>3. CallTypeOK' /\ ObjectPolicy' /\ Counter' /\ HeldOK' /\ EarlyOK'
    BY <1>1, <1>2, <2>2 DEF CallTypeOK, ObjectPolicy, Counter, Current, HeldOK, EarlyOK, Stages, SlotStages, EarlyStages, ChannelStages, QuoteStages
  <2>4. SessionOK' /\ ChannelOK' /\ QuoteOK' /\ CalmOK'
    BY <1>4, <2>2 DEF SessionOK, ChannelOK, QuoteOK, CalmOK, LateStages, SlotStages, QuoteStages, EarlyStages
  <2> QED BY <2>2, <2>3, <2>4, Ongoing
<1> QED BY <1>3, <1>4

LEMMA ReadsIndexKeeps ==
  ASSUME PolicyTypeOK, CallInv, ReadsIndex
  PROVE  UseOK'
<1> DEFINE s == IF call.blob.signed THEN "signature" ELSE "load"
<1>1. call.at = "index" /\ (IF index = Absent THEN Ends("missing") ELSE Step(s))
  BY DEF ReadsIndex
<1>2. CallTypeOK /\ ObjectPolicy /\ Counter /\ HeldOK /\ EarlyOK /\ CalmOK /\ call.o \in SlotObjects
  BY <1>1, Parts DEF CallTypeOK, SlotStages, EarlyStages
<1>3. call.blob.gen # Absent
  BY <1>2, AbsentAssumption DEF CallTypeOK, Records
<1>4. CASE index = Absent
  <2>1. "missing" \in SlotBlames /\ Blamed("missing")
    BY <1>3, <1>4 DEF SlotBlames, Blamed
  <2> QED BY <1>1, <1>2, <1>4, <2>1, SlotEnds DEF UseOK
<1>5. CASE index # Absent
  <2>1. Step(s) /\ s \in {"signature", "load"} /\ (s = "signature" <=> call.blob.signed)
    BY <1>1, <1>5
  <2> HIDE DEF s
  <2>2. /\ DOMAIN call' = CallFields /\ call'.at = s /\ call'.o = call.o /\ call'.blob = call.blob
        /\ call'.policy = call.policy /\ call'.digest = call.digest /\ call'.ticket = call.ticket
        /\ call'.counter = call.counter /\ call'.gen = call.gen /\ call'.calm = call.calm /\ call'.held = call.held
        /\ reg' = reg /\ changes' = changes /\ index' = index
    BY <1>2, <2>1, StageTo
  <2>3. CallTypeOK' /\ ObjectPolicy' /\ Counter' /\ HeldOK' /\ EarlyOK'
    BY <1>1, <1>2, <2>1, <2>2 DEF CallTypeOK, ObjectPolicy, Counter, Current, HeldOK, EarlyOK, Stages, SlotStages, EarlyStages, ChannelStages, QuoteStages
  <2>4. SessionOK' /\ ChannelOK' /\ QuoteOK' /\ CalmOK'
    BY <1>1, <1>2, <2>1, <2>2 DEF SessionOK, ChannelOK, QuoteOK, CalmOK, LateStages, SlotStages, QuoteStages, EarlyStages
  <2> QED BY <2>1, <2>2, <2>3, <2>4, Ongoing
<1> QED BY <1>4, <1>5

\* A caller holds two objects at most: the TPM has room for one more.
LEMMA HasRoom ==
  ASSUME NEW o
  PROVE  CallerHolds(o) \in Nat /\ CallerHolds(o) < Handles /\ (CallerHolds(o) + 1) - 1 = CallerHolds(o)
<1>1. CallerHolds(o) = 1 \/ CallerHolds(o) = 2
  BY DEF CallerHolds
<1> QED BY <1>1, HandlesAssumption

\* The signature of PCR 11 gives the ticket.
LEMMA checkSignedPCRsKeeps ==
  ASSUME PolicyTypeOK, CallInv, checkSignedPCRs
  PROVE  UseOK'
<1> DEFINE next == [call EXCEPT !.at = "load", !.ticket = <<AssertPCR({11}, <<reg.eleven>>)>>]
<1>1. call.at = "signature" /\ (IF reg.eleven \notin Signatures THEN Ends("unsigned") ELSE Loads(next))
  BY DEF checkSignedPCRs
<1>2. CallTypeOK /\ ObjectPolicy /\ Counter /\ HeldOK /\ EarlyOK /\ CalmOK /\ call.o \in SlotObjects
  BY <1>1, Parts DEF CallTypeOK, SlotStages, EarlyStages
<1>3. call.blob.signed
  BY <1>1, <1>2 DEF EarlyOK
<1>4. CASE reg.eleven \notin Signatures
  <2>1. "unsigned" \in SlotBlames /\ Blamed("unsigned")
    BY <1>3, <1>4 DEF SlotBlames, Blamed, Approved
  <2> QED BY <1>1, <1>2, <1>4, <2>1, SlotEnds DEF UseOK
<1>5. CASE reg.eleven \in Signatures
  <2>1. call.held = CallerHolds(call.o) /\ call.held < Handles
    BY <1>1, <1>2, HasRoom DEF HeldOK, EarlyStages
  <2>2. To([next EXCEPT !.held = call.held + 1])
    BY <1>1, <1>5, <2>1 DEF Loads
  <2>3. /\ DOMAIN call' = CallFields /\ call'.at = "load" /\ call'.o = call.o /\ call'.blob = call.blob
        /\ call'.policy = call.policy /\ call'.digest = call.digest /\ call'.ticket = <<AssertPCR({11}, <<reg.eleven>>)>>
        /\ call'.counter = call.counter /\ call'.gen = call.gen /\ call'.calm = call.calm
        /\ call'.held = CallerHolds(call.o) + 1
        /\ reg' = reg /\ changes' = changes /\ index' = index
    BY <1>2, <2>1, <2>2 DEF To, CallTypeOK, CallFields
  <2>4. call'.ticket = Ticket
    BY <1>5, <2>3 DEF Ticket, Signatures
  <2>5. CallTypeOK' /\ ObjectPolicy' /\ Counter' /\ EarlyOK'
    BY <1>1, <1>2, <1>3, <2>3, <2>4 DEF CallTypeOK, ObjectPolicy, Counter, Current, EarlyOK, Stages, SlotStages, EarlyStages, ChannelStages, QuoteStages
  <2>6. HeldOK'
    BY <1>3, <2>3 DEF HeldOK, EarlyStages
  <2>7. SessionOK' /\ ChannelOK' /\ QuoteOK' /\ CalmOK'
    BY <1>1, <1>2, <1>5, <2>3 DEF SessionOK, ChannelOK, QuoteOK, CalmOK, LateStages, SlotStages, QuoteStages, EarlyStages
  <2> QED BY <2>3, <2>5, <2>6, <2>7, Ongoing
<1> QED BY <1>4, <1>5

\* The PCR key is gone again: there is room for the signing key.
LEMMA LoadsSigningKeyKeeps ==
  ASSUME PolicyTypeOK, CallInv, LoadsSigningKey
  PROVE  UseOK'
<1> DEFINE c == flushed(call)
           s == IF c.ticket = <<>> THEN "plain" ELSE "signed"
<1>1. call.at = "load" /\ (IF c.held < Handles THEN To([c EXCEPT !.at = s, !.held = @ + 1]) ELSE Ends("failed"))
  BY DEF LoadsSigningKey
<1>2. CallTypeOK /\ ObjectPolicy /\ Counter /\ HeldOK /\ EarlyOK /\ CalmOK /\ call.o \in SlotObjects
  BY <1>1, Parts DEF CallTypeOK, SlotStages, EarlyStages
<1>3. Ticket # <<>>
  BY DEF Ticket
<1>4. /\ DOMAIN c = CallFields /\ c.held = CallerHolds(call.o)
      /\ c.ticket = call.ticket /\ c.o = call.o /\ c.blob = call.blob /\ c.policy = call.policy
      /\ c.digest = call.digest /\ c.counter = call.counter /\ c.gen = call.gen /\ c.calm = call.calm
  <2>1. CASE call.blob.signed
    <3>1. c = [call EXCEPT !.held = @ - 1] /\ call.held = CallerHolds(call.o) + 1
      BY <1>1, <1>2, <1>3, <2>1 DEF flushed, EarlyOK, HeldOK
    <3>2. (CallerHolds(call.o) + 1) - 1 = CallerHolds(call.o)
      BY HasRoom
    <3> HIDE DEF c
    <3> QED BY <1>2, <3>1, <3>2 DEF CallTypeOK, CallFields
  <2>2. CASE ~ call.blob.signed
    BY <1>1, <1>2, <2>2 DEF flushed, EarlyOK, HeldOK, CallTypeOK
  <2> QED BY <2>1, <2>2
<1>5. /\ s \in {"plain", "signed"} /\ (s = "signed" <=> call.blob.signed)
      /\ c.held < Handles
  BY <1>1, <1>2, <1>3, <1>4, HasRoom DEF EarlyOK
<1> HIDE DEF c, s
<1>6. /\ DOMAIN call' = CallFields /\ call'.at = s /\ call'.o = call.o /\ call'.blob = call.blob
      /\ call'.policy = call.policy /\ call'.digest = call.digest /\ call'.ticket = call.ticket
      /\ call'.counter = call.counter /\ call'.gen = call.gen /\ call'.calm = call.calm
      /\ reg' = reg /\ changes' = changes /\ index' = index
  BY <1>1, <1>4, <1>5 DEF To, CallFields
<1>7. CallTypeOK' /\ ObjectPolicy' /\ Counter' /\ HeldOK' /\ EarlyOK'
  BY <1>1, <1>2, <1>5, <1>6 DEF CallTypeOK, ObjectPolicy, Counter, Current, HeldOK, EarlyOK, Stages, SlotStages, EarlyStages, ChannelStages, QuoteStages
<1>8. SessionOK'
  BY <1>1, <1>2, <1>5, <1>6 DEF SessionOK, EarlyOK, LateStages, Prefix
<1>9. ChannelOK' /\ QuoteOK' /\ CalmOK'
  BY <1>1, <1>2, <1>5, <1>6 DEF ChannelOK, QuoteOK, CalmOK, LateStages, SlotStages, QuoteStages, EarlyStages
<1> QED BY <1>5, <1>6, <1>7, <1>8, <1>9, Ongoing

\* The registers as the PCR key signed them.
LEMMA PolicyPCRSignedKeeps ==
  ASSUME PolicyTypeOK, CallInv, PolicyPCRSigned
  PROVE  UseOK'
<1> DEFINE d == <<AssertPCR({11}, <<reg.eleven>>)>>
<1>1. call.at = "signed" /\ (IF d # call.ticket THEN Ends("refused")
        ELSE To([call EXCEPT !.at = "plain", !.digest = <<PolicyAuthorize(PCRKey, 0)>>, !.counter = changes]))
  BY DEF PolicyPCRSigned
<1>2. CallTypeOK /\ ObjectPolicy /\ Counter /\ EarlyOK /\ SessionOK /\ CalmOK /\ call.o \in SlotObjects
  BY <1>1, Parts DEF CallTypeOK, SlotStages, LateStages
<1>3. call.blob.signed /\ call.ticket = Ticket
  BY <1>1, <1>2 DEF EarlyOK
<1>4. d = Ticket <=> reg.eleven \in Signatures
  <2>1. d = Ticket => AssertPCR({11}, <<reg.eleven>>) = AssertPCR({11}, <<<<"signed", 0>>>>)
    BY DEF Ticket
  <2> QED BY <2>1, AssertionsDiffer DEF Ticket, Signatures
<1> HIDE DEF d
<1>5. CASE d # call.ticket
  <2>1. ~ call.calm
    BY <1>1, <1>2, <1>3, <1>4, <1>5 DEF CalmOK
  <2>2. "refused" \in SlotBlames /\ Blamed("refused")
    BY <2>1 DEF SlotBlames, Blamed
  <2> QED BY <1>1, <1>2, <1>5, <2>2, SlotEnds DEF UseOK
<1>6. CASE d = call.ticket
  <2>1. /\ DOMAIN call' = CallFields /\ call'.at = "plain" /\ call'.o = call.o /\ call'.blob = call.blob
        /\ call'.policy = call.policy /\ call'.digest = <<PolicyAuthorize(PCRKey, 0)>> /\ call'.counter = changes
        /\ call'.gen = call.gen /\ call'.calm = call.calm
        /\ reg' = reg /\ changes' = changes /\ index' = index
    BY <1>1, <1>2, <1>6 DEF To, CallTypeOK, CallFields
  <2>2. changes \in Nat /\ changes <= changes /\ changes # Absent
    BY AbsentAssumption DEF PolicyTypeOK
  <2>3. CallTypeOK' /\ ObjectPolicy' /\ Counter' /\ HeldOK' /\ EarlyOK'
    BY <1>1, <1>2, <2>1, <2>2 DEF CallTypeOK, ObjectPolicy, Counter, Current, HeldOK, EarlyOK, Stages, SlotStages, EarlyStages, LateStages, ChannelStages, QuoteStages
  <2>4. SessionOK'
    BY <1>3, <1>4, <1>6, <2>1, <2>2 DEF SessionOK, Prefix, LateStages
  <2>5. ChannelOK' /\ QuoteOK' /\ CalmOK'
    BY <1>1, <1>2, <2>1 DEF ChannelOK, QuoteOK, CalmOK, LateStages, SlotStages, QuoteStages, EarlyStages
  <2> QED BY <2>1, <2>3, <2>4, <2>5, Ongoing
<1> QED BY <1>5, <1>6

\* A session that read registers before reads them again only while none changed.
LEMMA PolicyPCRPlainKeeps ==
  ASSUME PolicyTypeOK, CallInv, PolicyPCRPlain
  PROVE  UseOK'
<1>1. call.at = "plain" /\ (IF Changed THEN Ends("refused") ELSE Asserts(AssertPCR({7}, <<reg.seven>>), "nv"))
  BY DEF PolicyPCRPlain
<1>2. CallTypeOK /\ ObjectPolicy /\ Counter /\ EarlyOK /\ SessionOK /\ CalmOK /\ call.o \in SlotObjects
  BY <1>1, Parts DEF CallTypeOK, SlotStages, LateStages
<1>3. CASE Changed
  <2>1. ~ call.calm
    BY <1>1, <1>2, <1>3 DEF Changed, Counter, Current
  <2>2. "refused" \in SlotBlames /\ Blamed("refused")
    BY <2>1 DEF SlotBlames, Blamed
  <2> QED BY <1>1, <1>2, <1>3, <2>2, SlotEnds DEF UseOK
<1>4. CASE ~ Changed
  <2>1. /\ DOMAIN call' = CallFields /\ call'.at = "nv" /\ call'.o = call.o /\ call'.blob = call.blob
        /\ call'.policy = call.policy /\ call'.digest = Append(call.digest, AssertPCR({7}, <<reg.seven>>)) /\ call'.counter = changes
        /\ call'.gen = call.gen /\ call'.calm = call.calm
        /\ reg' = reg /\ changes' = changes /\ index' = index
    BY <1>1, <1>2, <1>4 DEF Asserts, To, CallTypeOK, CallFields
  <2>2. changes \in Nat /\ changes <= changes /\ changes # Absent
    BY AbsentAssumption DEF PolicyTypeOK
  <2>3. CallTypeOK' /\ ObjectPolicy' /\ Counter' /\ HeldOK' /\ EarlyOK'
    BY <1>1, <1>2, <2>1, <2>2 DEF CallTypeOK, ObjectPolicy, Counter, Current, HeldOK, EarlyOK, Stages, SlotStages, EarlyStages, LateStages, ChannelStages, QuoteStages
  <2>4. SessionOK'
    <3>1. call.blob.signed => reg.eleven \in Signatures
      BY <1>1, <1>2, <1>4 DEF SessionOK, Changed, Current
    <3>2. call'.digest = Told(reg.seven)'
      BY <1>1, <1>2, <2>1 DEF SessionOK, Told
    <3>3. reg.seven \in Firmwares \X {0, 1} /\ reg'.seven = reg.seven
      BY <2>1 DEF PolicyTypeOK, Registers
    <3> QED BY <2>1, <2>2, <3>1, <3>2, <3>3 DEF SessionOK, LateStages
  <2>5. ChannelOK' /\ QuoteOK' /\ CalmOK'
    BY <1>1, <1>2, <2>1 DEF ChannelOK, QuoteOK, CalmOK, LateStages, SlotStages, QuoteStages, EarlyStages
  <2> QED BY <2>1, <2>3, <2>4, <2>5, Ongoing
<1> QED BY <1>3, <1>4

\* The generation is the record's.
LEMMA PolicyNVEqKeeps ==
  ASSUME PolicyTypeOK, CallInv, PolicyNVEq
  PROVE  UseOK'
<1>1. call.at = "nv" /\ (IF index # call.blob.gen THEN Ends("refused")
        ELSE To([call EXCEPT !.at = "approval", !.digest = Append(@, PolicyNV(call.blob.gen)), !.gen = index]))
  BY DEF PolicyNVEq
<1>2. CallTypeOK /\ ObjectPolicy /\ Counter /\ EarlyOK /\ SessionOK /\ CalmOK /\ call.o \in SlotObjects
  BY <1>1, Parts DEF CallTypeOK, SlotStages, LateStages
<1>3. CASE index # call.blob.gen
  <2>1. "refused" \in SlotBlames /\ Blamed("refused")
    BY <1>3 DEF SlotBlames, Blamed
  <2> QED BY <1>1, <1>2, <1>3, <2>1, SlotEnds DEF UseOK
<1>4. CASE index = call.blob.gen
  <2>1. /\ DOMAIN call' = CallFields /\ call'.at = "approval" /\ call'.o = call.o /\ call'.blob = call.blob
        /\ call'.policy = call.policy /\ call'.digest = Append(call.digest, PolicyNV(call.blob.gen)) /\ call'.counter = call.counter
        /\ call'.gen = index /\ call'.calm = call.calm
        /\ reg' = reg /\ changes' = changes /\ index' = index
    BY <1>1, <1>2, <1>4 DEF To, CallTypeOK, CallFields
  <2>2. CallTypeOK' /\ ObjectPolicy' /\ Counter' /\ HeldOK' /\ EarlyOK'
    BY <1>1, <1>2, <2>1 DEF CallTypeOK, ObjectPolicy, Counter, Current, HeldOK, EarlyOK, Stages, SlotStages, EarlyStages, LateStages, ChannelStages, QuoteStages
  <2>3. SessionOK'
    <3>1. PICK v \in Firmwares \X {0, 1} :
            /\ call.digest = Told(v) /\ call.counter # Absent
            /\ Current => reg.seven = v /\ (call.blob.signed => reg.eleven \in Signatures)
      BY <1>1, <1>2 DEF SessionOK
    <3>2. /\ call'.digest = Append(Told(v)', PolicyNV(call'.blob.gen)) /\ call'.counter # Absent
          /\ Current' => reg'.seven = v /\ (call'.blob.signed => reg'.eleven \in Signatures)
      BY <2>1, <3>1 DEF Told, Current
    <3> QED BY <1>4, <2>1, <3>2 DEF SessionOK
  <2>4. ChannelOK' /\ QuoteOK' /\ CalmOK'
    BY <1>1, <1>2, <1>4, <2>1 DEF ChannelOK, QuoteOK, CalmOK, LateStages, SlotStages, QuoteStages, EarlyStages
  <2> QED BY <2>1, <2>2, <2>3, <2>4, Ongoing
<1> QED BY <1>3, <1>4

\* What was asserted is what the signing key approved.
LEMMA AuthorizesKeeps ==
  ASSUME PolicyTypeOK, CallInv, Authorizes
  PROVE  UseOK'
<1>1. call.at = "approval" /\ (IF call.digest # ApprovedPolicy(call.blob) THEN Ends("refused")
        ELSE To([call EXCEPT !.at = "own", !.digest = <<PolicyAuthorize(Signing, call.blob.ref)>>]))
  BY DEF Authorizes
<1>2. CallTypeOK /\ ObjectPolicy /\ Counter /\ EarlyOK /\ SessionOK /\ CalmOK /\ call.o \in SlotObjects
  BY <1>1, Parts DEF CallTypeOK, SlotStages, LateStages
<1>3. PICK v \in Firmwares \X {0, 1} :
        /\ call.digest = Append(Told(v), PolicyNV(call.blob.gen)) /\ call.counter # Absent
        /\ Current => reg.seven = v /\ (call.blob.signed => reg.eleven \in Signatures)
  BY <1>1, <1>2 DEF SessionOK
<1>4. call.blob \in Records
  BY <1>2 DEF CallTypeOK
<1>5. CASE call.digest # ApprovedPolicy(call.blob)
  <2>1. v # call.blob.seven
    BY <1>3, <1>4, <1>5, TheApprovedPolicy DEF Told
  <2>2. call.calm => reg.seven # call.blob.seven
    BY <1>1, <1>2, <1>3, <2>1 DEF Counter
  <2>3. "refused" \in SlotBlames /\ Blamed("refused")
    BY <2>2 DEF SlotBlames, Blamed, Approved
  <2> QED BY <1>1, <1>2, <1>5, <2>3, SlotEnds DEF UseOK
<1>6. CASE call.digest = ApprovedPolicy(call.blob)
  <2>1. /\ DOMAIN call' = CallFields /\ call'.at = "own" /\ call'.o = call.o /\ call'.blob = call.blob
        /\ call'.policy = call.policy /\ call'.digest = <<PolicyAuthorize(Signing, call.blob.ref)>> /\ call'.counter = call.counter
        /\ call'.gen = call.gen /\ call'.calm = call.calm
        /\ reg' = reg /\ changes' = changes /\ index' = index
    BY <1>1, <1>2, <1>6 DEF To, CallTypeOK, CallFields
  <2>2. CallTypeOK' /\ ObjectPolicy' /\ Counter' /\ HeldOK' /\ EarlyOK'
    BY <1>1, <1>2, <2>1 DEF CallTypeOK, ObjectPolicy, Counter, Current, HeldOK, EarlyOK, Stages, SlotStages, EarlyStages, LateStages, ChannelStages, QuoteStages
  <2>3. v = call.blob.seven
    BY <1>3, <1>4, <1>6, TheApprovedValue DEF Told
  <2>4. SessionOK'
    <3>1. call.gen = call.blob.gen
      BY <1>1, <1>2 DEF SessionOK, LateStages
    <3>2. Current' => Approved'
      BY <1>3, <2>1, <2>3 DEF Current, Approved
    <3> QED BY <1>3, <2>1, <3>1, <3>2 DEF SessionOK
  <2>5. ChannelOK' /\ QuoteOK' /\ CalmOK'
    BY <1>1, <1>2, <2>1 DEF ChannelOK, QuoteOK, CalmOK, LateStages, SlotStages, QuoteStages, EarlyStages
  <2> QED BY <2>1, <2>2, <2>4, <2>5, Ongoing
<1> QED BY <1>5, <1>6

\* PCR 15 is zero, in the boot the session read.
LEMMA PolicyPCROpenKeeps ==
  ASSUME PolicyTypeOK, CallInv, PolicyPCROpen
  PROVE  UseOK'
<1> DEFINE s == IF call.o = "factor" THEN "then" ELSE "use"
           next == [call EXCEPT !.at = s, !.held = @ - 1,
                                !.digest = Append(@, AssertPCR({15}, <<0>>)), !.counter = changes]
<1>1. /\ call.at = "own"
      /\ \/ Changed /\ Ends("refused")
         \/ ~ Changed /\ reg.fifteen # 0 /\ Ends("closed")
         \/ ~ Changed /\ reg.fifteen = 0 /\ To(next)
  BY DEF PolicyPCROpen
<1>2. CallTypeOK /\ ObjectPolicy /\ Counter /\ EarlyOK /\ SessionOK /\ CalmOK /\ call.o \in SlotObjects
  BY <1>1, Parts DEF CallTypeOK, SlotStages, LateStages
<1>3. CASE Changed /\ Ends("refused")
  <2>1. ~ call.calm
    BY <1>1, <1>2, <1>3 DEF Changed, Counter, Current
  <2>2. "refused" \in SlotBlames /\ Blamed("refused")
    BY <2>1 DEF SlotBlames, Blamed
  <2> QED BY <1>1, <1>2, <1>3, <2>2, SlotEnds DEF UseOK
<1>4. CASE reg.fifteen # 0 /\ Ends("closed")
  <2>1. "closed" \in SlotBlames /\ Blamed("closed")
    BY <1>4 DEF SlotBlames, Blamed
  <2> QED BY <1>1, <1>2, <1>4, <2>1, SlotEnds DEF UseOK
<1>5. CASE ~ Changed /\ reg.fifteen = 0 /\ To(next)
  <2>1. /\ DOMAIN call' = CallFields /\ call'.at = s /\ call'.o = call.o /\ call'.blob = call.blob
        /\ call'.policy = call.policy /\ call'.digest = Append(call.digest, AssertPCR({15}, <<0>>)) /\ call'.counter = changes
        /\ call'.gen = call.gen /\ call'.calm = call.calm
        /\ reg' = reg /\ changes' = changes /\ index' = index
    BY <1>1, <1>2, <1>5 DEF To, CallTypeOK, CallFields
  <2>2. s \in {"then", "use"} /\ (s = "then" <=> call.o = "factor")
    OBVIOUS
  <2> HIDE DEF s, next
  <2>3. changes \in Nat /\ changes <= changes /\ changes # Absent
    BY AbsentAssumption DEF PolicyTypeOK
  <2>4. CallTypeOK' /\ ObjectPolicy' /\ Counter' /\ HeldOK' /\ EarlyOK'
    <3>1. CallTypeOK'
      BY <1>2, <2>1, <2>2 DEF CallTypeOK, Stages, SlotStages, EarlyStages, LateStages, ChannelStages, QuoteStages, SlotObjects
    <3>2. ObjectPolicy'
      BY <1>2, <2>1 DEF ObjectPolicy
    <3>3. Counter' /\ HeldOK' /\ EarlyOK'
      BY <2>1, <2>2, <2>3 DEF Counter, Current, HeldOK, EarlyOK, EarlyStages
    <3> QED BY <3>1, <3>2, <3>3
  <2>5. Approved' /\ reg'.fifteen = 0 /\ call'.gen = call'.blob.gen
    BY <1>1, <1>2, <1>5, <2>1 DEF SessionOK, LateStages, Changed, Current, Approved
  <2>6. call'.digest = SlotPolicyDigest(call.blob.ref)
    <3>1. call.digest = <<PolicyAuthorize(Signing, call.blob.ref)>>
      BY <1>1, <1>2 DEF SessionOK
    <3>2. call'.digest = Append(call.digest, AssertPCR({15}, <<0>>))
      BY <2>1
    <3> QED BY <3>1, <3>2, AppendPair DEF SlotPolicyDigest
  <2>7. s = "use" => SlotPolicyDigest(call.blob.ref) = PolicyOf(call.o, call.blob, call.blob.ref)
    BY <1>2, <2>2, ThePolicies
  <2>8. SessionOK'
    BY <2>1, <2>2, <2>3, <2>5, <2>6, <2>7 DEF SessionOK
  <2>9. ChannelOK' /\ QuoteOK' /\ CalmOK'
    BY <1>1, <1>2, <2>1, <2>2 DEF ChannelOK, QuoteOK, CalmOK, LateStages, SlotStages, QuoteStages, EarlyStages, SlotObjects
  <2> QED BY <2>1, <2>2, <2>4, <2>8, <2>9, Ongoing
<1> QED BY <1>1, <1>3, <1>4, <1>5

\* The release key is for one command.
LEMMA PolicyThenKeeps ==
  ASSUME PolicyTypeOK, CallInv, PolicyThen
  PROVE  UseOK'
<1>1. /\ call.at = "then"
      /\ To([call EXCEPT !.at = "use", !.digest = Append(@, PolicyCommandCode("ActivateCredential"))])
  BY DEF PolicyThen
<1>2. CallTypeOK /\ ObjectPolicy /\ Counter /\ EarlyOK /\ SessionOK /\ CalmOK /\ call.o \in SlotObjects
  BY <1>1, Parts DEF CallTypeOK, SlotStages, LateStages
<1>3. /\ DOMAIN call' = CallFields /\ call'.at = "use" /\ call'.o = call.o /\ call'.blob = call.blob
      /\ call'.policy = call.policy /\ call'.digest = Append(call.digest, PolicyCommandCode("ActivateCredential")) /\ call'.counter = call.counter
      /\ call'.gen = call.gen /\ call'.calm = call.calm
      /\ reg' = reg /\ changes' = changes /\ index' = index
  BY <1>1, <1>2 DEF To, CallTypeOK, CallFields
<1>4. CallTypeOK' /\ ObjectPolicy' /\ Counter' /\ HeldOK' /\ EarlyOK'
  BY <1>1, <1>2, <1>3 DEF CallTypeOK, ObjectPolicy, Counter, Current, HeldOK, EarlyOK, Stages, SlotStages, EarlyStages, LateStages, ChannelStages, QuoteStages, SlotObjects
<1>5. SessionOK'
  <2>1. call'.digest = PolicyOf(call'.o, call'.blob, call'.blob.ref)
    BY <1>1, <1>2, <1>3, ThePolicies DEF SessionOK, ReleaseKeyPolicy
  <2> QED BY <1>1, <1>2, <1>3, <2>1 DEF SessionOK, Current, Approved, LateStages
<1>6. ChannelOK' /\ QuoteOK' /\ CalmOK'
  BY <1>1, <1>2, <1>3 DEF ChannelOK, QuoteOK, CalmOK, LateStages, SlotStages, QuoteStages, EarlyStages, SlotObjects
<1> QED BY <1>3, <1>4, <1>5, <1>6, Ongoing

----------------------------------------------------------------------------
(* The channel's secrets. *)

\* The branches the session may have taken.
LEMMA TheBranches ==
  ASSUME NEW r
  PROVE  /\ Append(<<AssertPCR({7, 15}, <<r.channel, 0>>)>>, PolicyCommandCode("Unseal")) \in channelBranches(r)
         /\ Append(<<PolicySigned(Signing, r.ref)>>, PolicyCommandCode("Unseal")) \in channelBranches(r)
  BY AppendPair DEF channelBranches

\* Registers as sealed, or the reason is looked for.
LEMMA ChannelAssertsKeeps ==
  ASSUME PolicyTypeOK, CallInv, ChannelAsserts
  PROVE  UseOK'
<1> DEFINE sealed == <<reg.seven, reg.fifteen>> = <<call.blob.channel, 0>>
<1>1. /\ call.at = "assert" /\ call.o = "channel"
      /\ IF sealed THEN Asserts(AssertPCR({7, 15}, <<reg.seven, reg.fifteen>>), "or") ELSE Step("why")
  BY DEF ChannelAsserts
<1>2. CallTypeOK /\ ObjectPolicy /\ Counter /\ EarlyOK /\ ChannelOK /\ HeldOK
  BY <1>1, Parts
<1>3. sealed <=> reg.seven = call.blob.channel /\ reg.fifteen = 0
  <2>1. sealed => <<reg.seven, reg.fifteen>>[1] = <<call.blob.channel, 0>>[1] /\ <<reg.seven, reg.fifteen>>[2] = <<call.blob.channel, 0>>[2]
    OBVIOUS
  <2> QED BY <2>1
<1> HIDE DEF sealed
<1>4. CASE ~ sealed
  <2>1. /\ DOMAIN call' = CallFields /\ call'.at = "why" /\ call'.o = call.o /\ call'.blob = call.blob
        /\ call'.policy = call.policy /\ call'.digest = call.digest /\ call'.counter = call.counter
        /\ call'.gen = call.gen /\ call'.calm = call.calm
        /\ reg' = reg /\ changes' = changes /\ index' = index
    BY <1>1, <1>2, <1>4, StageTo
  <2>2. CallTypeOK' /\ ObjectPolicy' /\ Counter' /\ HeldOK' /\ EarlyOK'
    BY <1>1, <1>2, <2>1 DEF CallTypeOK, ObjectPolicy, Counter, Current, HeldOK, EarlyOK, Stages, SlotStages, EarlyStages, LateStages, ChannelStages, QuoteStages
  <2>3. SessionOK' /\ QuoteOK' /\ CalmOK' /\ ChannelOK'
    BY <1>1, <1>3, <1>4, <2>1 DEF ChannelOK, SessionOK, QuoteOK, CalmOK, LateStages, SlotStages, QuoteStages, EarlyStages
  <2> QED BY <2>1, <2>2, <2>3, Ongoing
<1>5. CASE sealed
  <2>1. /\ DOMAIN call' = CallFields /\ call'.at = "or" /\ call'.o = call.o /\ call'.blob = call.blob
        /\ call'.policy = call.policy /\ call'.digest = Append(call.digest, AssertPCR({7, 15}, <<reg.seven, reg.fifteen>>)) /\ call'.counter = changes
        /\ call'.gen = call.gen /\ call'.calm = call.calm
        /\ reg' = reg /\ changes' = changes /\ index' = index
    BY <1>1, <1>2, <1>5 DEF Asserts, To, CallTypeOK, CallFields
  <2>2. changes \in Nat /\ changes <= changes /\ changes # Absent
    BY AbsentAssumption DEF PolicyTypeOK
  <2>3. CallTypeOK' /\ ObjectPolicy' /\ Counter' /\ HeldOK' /\ EarlyOK'
    BY <1>1, <1>2, <2>1, <2>2 DEF CallTypeOK, ObjectPolicy, Counter, Current, HeldOK, EarlyOK, Stages, SlotStages, EarlyStages, LateStages, ChannelStages, QuoteStages
  <2>4. call'.digest = <<AssertPCR({7, 15}, <<call.blob.channel, 0>>)>>
    <3>1. call.digest = <<>> /\ <<reg.seven, reg.fifteen>> = <<call.blob.channel, 0>>
      BY <1>1, <1>2, <1>5 DEF EarlyOK, sealed
    <3>2. \A a : Append(<<>>, a) = <<a>>
      OBVIOUS
    <3> QED BY <2>1, <3>1, <3>2
  <2>5. SessionOK' /\ QuoteOK' /\ CalmOK'
    BY <1>1, <2>1 DEF SessionOK, QuoteOK, CalmOK, LateStages, SlotStages, QuoteStages, EarlyStages
  <2>6. ChannelOK'
    BY <1>1, <1>3, <1>5, <2>1, <2>2, <2>4 DEF ChannelOK
  <2> QED BY <2>1, <2>3, <2>5, <2>6, Ongoing
<1> QED BY <1>4, <1>5

\* The signing key signs for it: there is room for the key.
LEMMA ChannelSignsKeeps ==
  ASSUME PolicyTypeOK, CallInv, ChannelSigns
  PROVE  UseOK'
<1> DEFINE next == [call EXCEPT !.at = "or", !.digest = <<PolicySigned(Signing, call.blob.ref)>>]
<1>1. call.at = "assert" /\ call.o = "channel signed" /\ Loads(next)
  BY DEF ChannelSigns
<1>2. CallTypeOK /\ ObjectPolicy /\ Counter /\ EarlyOK /\ ChannelOK /\ HeldOK
  BY <1>1, Parts
<1>3. call.held = CallerHolds(call.o) /\ call.held < Handles
  BY <1>1, <1>2, HasRoom DEF HeldOK
<1>4. To([next EXCEPT !.held = call.held + 1])
  BY <1>1, <1>3 DEF Loads
<1>5. /\ DOMAIN call' = CallFields /\ call'.at = "or" /\ call'.o = call.o /\ call'.blob = call.blob
      /\ call'.policy = call.policy /\ call'.digest = <<PolicySigned(Signing, call.blob.ref)>> /\ call'.counter = call.counter
      /\ call'.gen = call.gen /\ call'.calm = call.calm
      /\ reg' = reg /\ changes' = changes /\ index' = index
  BY <1>2, <1>4 DEF To, CallTypeOK, CallFields
<1> HIDE DEF next
<1>6. CallTypeOK' /\ ObjectPolicy' /\ Counter' /\ HeldOK' /\ EarlyOK'
  BY <1>1, <1>2, <1>5 DEF CallTypeOK, ObjectPolicy, Counter, Current, HeldOK, EarlyOK, Stages, SlotStages, EarlyStages, LateStages, ChannelStages, QuoteStages
<1>7. SessionOK' /\ QuoteOK' /\ CalmOK'
  BY <1>1, <1>5 DEF SessionOK, QuoteOK, CalmOK, LateStages, SlotStages, QuoteStages, EarlyStages
<1>8. ChannelOK'
  BY <1>1, <1>2, <1>5 DEF ChannelOK, EarlyOK
<1> QED BY <1>5, <1>6, <1>7, <1>8, Ongoing

\* What was asserted is one of the policy's branches.
LEMMA ChannelOrKeeps ==
  ASSUME PolicyTypeOK, CallInv, ChannelOr
  PROVE  UseOK'
<1> DEFINE d == Append(call.digest, PolicyCommandCode("Unseal"))
<1>1. call.at = "or" /\ (IF d \notin channelBranches(call.blob) THEN Ends("failed")
        ELSE To([call EXCEPT !.at = "use", !.digest = channelPolicy(call.blob)]))
  BY DEF ChannelOr
<1>2. CallTypeOK /\ ObjectPolicy /\ Counter /\ EarlyOK /\ ChannelOK /\ HeldOK
  BY <1>1, Parts
<1>3. call.o \in Channels
  BY <1>1, <1>2 DEF CallTypeOK, ChannelStages
<1>4. d \in channelBranches(call.blob)
  BY <1>1, <1>2, <1>3, TheBranches DEF ChannelOK, Channels
<1> HIDE DEF d
<1>5. /\ DOMAIN call' = CallFields /\ call'.at = "use" /\ call'.o = call.o /\ call'.blob = call.blob
      /\ call'.policy = call.policy /\ call'.digest = channelPolicy(call.blob) /\ call'.counter = call.counter
      /\ call'.gen = call.gen /\ call'.calm = call.calm
      /\ reg' = reg /\ changes' = changes /\ index' = index
  BY <1>1, <1>2, <1>4 DEF To, CallTypeOK, CallFields
<1>6. CallTypeOK' /\ ObjectPolicy' /\ Counter' /\ HeldOK' /\ EarlyOK'
  BY <1>1, <1>2, <1>3, <1>5 DEF CallTypeOK, ObjectPolicy, Counter, Current, HeldOK, EarlyOK, Stages, SlotStages, EarlyStages, LateStages, ChannelStages, QuoteStages, Channels
<1>7. SessionOK' /\ QuoteOK' /\ CalmOK'
  <2>1. call.o \notin SlotObjects
    BY <1>3 DEF SlotObjects, Channels
  <2> QED BY <1>3, <1>5, <2>1, ThePolicies DEF SessionOK, QuoteOK, CalmOK, LateStages, SlotStages, QuoteStages, EarlyStages
<1>8. ChannelOK'
  BY <1>1, <1>2, <1>5 DEF ChannelOK, Current
<1> QED BY <1>5, <1>6, <1>7, <1>8, Ongoing

\* Closed, or the registers are not what it was sealed to.
LEMMA ChannelWhyKeeps ==
  ASSUME PolicyTypeOK, CallInv, ChannelWhy
  PROVE  UseOK'
<1> DEFINE res == IF reg.fifteen # 0 THEN "closed" ELSE "moved"
<1>1. call.at = "why" /\ Ends(res)
  BY DEF ChannelWhy
<1>2. CallTypeOK /\ ObjectPolicy /\ Counter /\ EarlyOK /\ ChannelOK /\ HeldOK
  BY <1>1, Parts
<1>3. call.o = "channel" /\ (reg.fifteen # 0 \/ reg.seven # call.blob.channel)
  BY <1>1, <1>2 DEF ChannelOK
<1>4. res \in {"closed", "moved"} /\ (res = "closed" <=> reg.fifteen # 0)
  OBVIOUS
<1> HIDE DEF res
<1>5. /\ CallInv' /\ call'.at = "done" /\ call'.result = res /\ call'.o = "channel" /\ call'.blob = call.blob
      /\ call'.calm = call.calm /\ reg' = reg
  BY <1>1, <1>3, EndKeeps DEF Around
<1>6. OpensOnlyApproved' /\ ApprovedOpens'
  BY <1>3, <1>4, <1>5 DEF OpensOnlyApproved, ApprovedOpens
<1>7. BlameRight'
  BY <1>3, <1>4, <1>5 DEF BlameRight
<1> QED BY <1>5, <1>6, <1>7 DEF UseOK

----------------------------------------------------------------------------
(* The command a session is for, and quotes. *)

LEMMA BeginsKeeps ==
  ASSUME PolicyTypeOK, NEW o \in Objects, Begins(o)
  PROVE  UseOK'
<1>1. UNCHANGED Around /\ call' = Call(o, rec, mid)
  BY DEF Begins, To, Around
<1>2. rec \in Records
  BY DEF PolicyTypeOK
<1>3. CallInv'
  BY <1>1, <1>2, BeginKeeps DEF Call, CallFields
<1>4. call'.at # "done"
  BY <1>1 DEF Call, First
<1> QED BY <1>3, <1>4 DEF UseOK, OpensOnlyApproved, ApprovedOpens, BlameRight

\* A session whose policy is the object's opens it, in the boot it read.
LEMMA UsesKeeps ==
  ASSUME PolicyTypeOK, CallInv, Uses
  PROVE  UseOK'
<1>1. /\ call.at = "use"
      /\ \/ call.digest = call.policy /\ ~ Changed /\ call.o = "boot challenge"
              /\ To([Call("boot signature", call.blob, mid) EXCEPT !.calm = call.calm])
         \/ call.digest = call.policy /\ ~ Changed /\ call.o # "boot challenge"
              /\ To([call EXCEPT !.at = "done", !.result = "opened", !.held = 0, !.digest = <<reg>>])
         \/ ~ (call.digest = call.policy /\ ~ Changed) /\ Ends("refused")
  BY DEF Uses
<1>2. CallTypeOK /\ ObjectPolicy /\ Counter /\ SessionOK /\ ChannelOK /\ CalmOK
  BY <1>1, Parts
<1>3. call.o \in SlotObjects \union Channels
  BY <1>1, <1>2 DEF CallTypeOK, SlotObjects, Channels
<1>4. call.digest = PolicyOf(call.o, call.blob, call.blob.ref)
  BY <1>1, <1>2 DEF SessionOK
<1>5. call.o = "machine-id" => \E m \in Nat : call.policy = SlotPolicyDigest(m)
  BY <1>2 DEF ObjectPolicy
<1>6. call.o # "machine-id" => call.policy = call.digest
  BY <1>2, <1>4 DEF ObjectPolicy
<1>7. CASE call.o = "boot challenge" /\ To([Call("boot signature", call.blob, mid) EXCEPT !.calm = call.calm])
  <2> DEFINE o == "boot signature"
  <2>1. UNCHANGED Around
    BY <1>7 DEF To, Around
  <2>2. /\ DOMAIN call' = CallFields /\ call'.o = o /\ call'.at = First(o) /\ call'.blob = call.blob
        /\ call'.policy = PolicyOf(o, call.blob, mid) /\ call'.held = CallerHolds(o) /\ call'.digest = <<>>
        /\ call'.counter = Absent /\ call'.ticket = <<>>
    BY <1>7 DEF To, Call, CallFields
  <2>3. o \in Objects /\ call.blob \in Records
    BY <1>2 DEF Objects, CallTypeOK
  <2>4. CallInv'
    BY <2>1, <2>2, <2>3, BeginKeeps
  <2>5. call'.at # "done"
    BY <2>2 DEF First
  <2> QED BY <2>4, <2>5 DEF UseOK, OpensOnlyApproved, ApprovedOpens, BlameRight
<1>8. CASE /\ call.digest = call.policy /\ ~ Changed
           /\ To([call EXCEPT !.at = "done", !.result = "opened", !.held = 0, !.digest = <<reg>>])
  <2>1. /\ DOMAIN call' = CallFields /\ call'.at = "done" /\ call'.result = "opened" /\ call'.o = call.o
        /\ call'.blob = call.blob /\ call'.policy = call.policy /\ call'.digest = <<reg>>
        /\ call'.counter = call.counter /\ call'.gen = call.gen /\ call'.calm = call.calm
        /\ reg' = reg /\ changes' = changes /\ index' = index
    BY <1>2, <1>8 DEF To, CallTypeOK, CallFields
  <2>2. CallInv'
    <3>1. CallTypeOK'
      BY <1>2, <2>1 DEF CallTypeOK, Stages, SlotStages, EarlyStages, LateStages, ChannelStages, QuoteStages
    <3>2. ObjectPolicy' /\ Counter' /\ HeldOK' /\ EarlyOK'
      BY <1>2, <2>1 DEF ObjectPolicy, Counter, HeldOK, EarlyOK, EarlyStages
    <3>3. SessionOK' /\ ChannelOK' /\ CalmOK' /\ QuoteOK'
      BY <2>1 DEF SessionOK, ChannelOK, CalmOK, QuoteOK, LateStages, SlotStages, QuoteStages, EarlyStages
    <3> QED BY <3>1, <3>2, <3>3 DEF CallInv
  <2>3. call'.digest[1] = reg
    BY <2>1
  <2>4. call.o \in SlotObjects =>
          Approved /\ reg.fifteen = 0 /\ call.gen = call.blob.gen /\ (call.calm => index = call.blob.gen)
    BY <1>1, <1>2, <1>8 DEF SessionOK, CalmOK, Changed, Current
  <2>5. call.o = "channel" => reg.seven = call.blob.channel /\ reg.fifteen = 0
    BY <1>1, <1>2, <1>8 DEF ChannelOK, Changed, Current
  <2>6. OpensOnlyApproved'
    BY <1>3, <2>1, <2>3, <2>4, <2>5 DEF OpensOnlyApproved, Approved, Channels
  <2>7. ApprovedOpens'
    <3>1. CASE call.o \in SlotObjects
      BY <2>1, <2>4, <3>1 DEF ApprovedOpens, Undisturbed, Approved, SlotObjects
    <3>2. CASE call.o \in Channels
      BY <2>1, <2>5, <3>2 DEF ApprovedOpens, Undisturbed, Channels
    <3> QED BY <1>3, <3>1, <3>2
  <2>8. BlameRight'
    BY <2>1 DEF BlameRight
  <2> QED BY <2>2, <2>6, <2>7, <2>8 DEF UseOK
<1>9. CASE ~ (call.digest = call.policy /\ ~ Changed) /\ Ends("refused")
  <2>1. CASE call.o \in SlotObjects
    <3>1. call.calm => ~ Changed
      BY <1>1, <1>2 DEF Counter, Current, Changed
    <3>2. call.calm => call.policy # call.digest
      BY <1>9, <3>1
    <3>3. call.calm => call.policy \notin {SlotPolicyDigest(call.blob.ref), ReleaseKeyPolicy(call.blob.ref)}
      <4>1. call.calm => call.o = "machine-id"
        BY <1>6, <3>2
      <4>2. call.o = "machine-id" => call.digest = SlotPolicyDigest(call.blob.ref)
        BY <1>4, ThePolicies
      <4> QED BY <1>5, <3>2, <4>1, <4>2, ReleaseIsNoSlot
    <3>4. "refused" \in SlotBlames /\ Blamed("refused")
      BY <1>4, <3>2, <3>3 DEF SlotBlames, Blamed
    <3> QED BY <1>1, <1>9, <2>1, <3>4, SlotEnds DEF UseOK
  <2>2. CASE call.o \in Channels
    <3>1. call.policy = call.digest
      BY <1>6, <2>2 DEF Channels
    <3>2. call.o = "channel" /\ ~ call.calm
      BY <1>1, <1>2, <1>9, <2>2, <3>1 DEF Channels, ChannelOK, Changed, Counter, Current
    <3>3. /\ CallInv' /\ call'.at = "done" /\ call'.result = "refused" /\ call'.o = "channel" /\ ~ call'.calm
      BY <1>1, <1>9, <3>2, EndKeeps
    <3> QED BY <3>3 DEF UseOK, OpensOnlyApproved, ApprovedOpens, BlameRight, Undisturbed
  <2> QED BY <1>3, <2>1, <2>2
<1> QED BY <1>1, <1>7, <1>8, <1>9

\* A quote is of the registers as they are.
LEMMA QuotesKeeps ==
  ASSUME PolicyTypeOK, CallInv, Quotes
  PROVE  UseOK'
<1>1. call.at = "quote" /\ To([call EXCEPT !.at = "read", !.ticket = Append(@, reg)])
  BY DEF Quotes
<1>2. CallTypeOK /\ ObjectPolicy /\ Counter /\ QuoteOK
  BY <1>1, Parts
<1>3. /\ DOMAIN call' = CallFields /\ call'.at = "read" /\ call'.o = call.o /\ call'.blob = call.blob
      /\ call'.policy = call.policy /\ call'.ticket = Append(call.ticket, reg) /\ call'.counter = call.counter
      /\ call'.gen = call.gen /\ call'.calm = call.calm
      /\ reg' = reg /\ changes' = changes /\ index' = index
  BY <1>1, <1>2 DEF To, CallTypeOK, CallFields
<1>4. CallTypeOK' /\ ObjectPolicy' /\ Counter' /\ HeldOK' /\ EarlyOK'
  BY <1>1, <1>2, <1>3 DEF CallTypeOK, ObjectPolicy, Counter, Current, HeldOK, EarlyOK, Stages, SlotStages, EarlyStages, LateStages, ChannelStages, QuoteStages
<1>5. SessionOK' /\ ChannelOK' /\ CalmOK'
  BY <1>3 DEF SessionOK, ChannelOK, CalmOK, LateStages, SlotStages, QuoteStages, EarlyStages
<1>6. QuoteOK'
  <2>1. call.ticket \in Seq(Registers) /\ Len(call.ticket) <= changes /\ reg \in Registers
    BY <1>1, <1>2 DEF QuoteOK, QuoteStages, PolicyTypeOK
  <2>2. call'.ticket \in Seq(Registers) /\ Len(call'.ticket) = Len(call.ticket) + 1 /\ Last(call'.ticket) = reg
    BY <1>3, <2>1 DEF Last
  <2>3. Len(call'.ticket) > 0 /\ Len(call'.ticket) <= changes + 1
    BY <2>1, <2>2 DEF PolicyTypeOK
  <2> QED BY <1>3, <2>2, <2>3 DEF QuoteOK
<1> QED BY <1>3, <1>4, <1>5, <1>6, Ongoing

\* PCR 7 is read first.
LEMMA ReadsChunkKeeps ==
  ASSUME PolicyTypeOK, CallInv, ReadsChunk
  PROVE  UseOK'
<1>1. call.at = "read" /\ To([call EXCEPT !.at = "rest", !.digest = <<reg.seven>>])
  BY DEF ReadsChunk
<1>2. CallTypeOK /\ ObjectPolicy /\ Counter /\ QuoteOK
  BY <1>1, Parts
<1>3. /\ DOMAIN call' = CallFields /\ call'.at = "rest" /\ call'.o = call.o /\ call'.blob = call.blob
      /\ call'.policy = call.policy /\ call'.ticket = call.ticket /\ call'.counter = call.counter
      /\ call'.digest = <<reg.seven>> /\ call'.gen = call.gen /\ call'.calm = call.calm
      /\ reg' = reg /\ changes' = changes /\ index' = index
  BY <1>1, <1>2 DEF To, CallTypeOK, CallFields
<1>4. CallTypeOK' /\ ObjectPolicy' /\ Counter' /\ HeldOK' /\ EarlyOK'
  BY <1>1, <1>2, <1>3 DEF CallTypeOK, ObjectPolicy, Counter, Current, HeldOK, EarlyOK, Stages, SlotStages, EarlyStages, LateStages, ChannelStages, QuoteStages
<1>5. SessionOK' /\ ChannelOK' /\ CalmOK'
  BY <1>3 DEF SessionOK, ChannelOK, CalmOK, LateStages, SlotStages, QuoteStages, EarlyStages
<1>6. QuoteOK'
  <2>1. call'.digest[1] = reg.seven /\ reg.seven \in Firmwares \X {0, 1}
    BY <1>3 DEF PolicyTypeOK, Registers
  <2> QED BY <1>1, <1>2, <1>3, <2>1 DEF QuoteOK, QuoteStages
<1> QED BY <1>3, <1>4, <1>5, <1>6, Ongoing

LEMMA SameSeven ==
  ASSUME NEW r \in Registers, NEW x, x = r.seven
  PROVE  [r EXCEPT !.seven = x] = r
  BY DEF Registers

\* Registers that do not reproduce the quote were changed meanwhile.
LEMMA ReadsRestKeeps ==
  ASSUME PolicyTypeOK, CallInv, ReadsRest
  PROVE  UseOK'
<1> DEFINE values == [reg EXCEPT !.seven = call.digest[1]]
           same == reproduces(Last(call.ticket), values)
           n == Len(call.ticket)
<1>1. /\ call.at = "rest"
      /\ \/ same /\ To([call EXCEPT !.at = "done", !.result = "quoted", !.digest = <<values>>])
         \/ ~ same /\ n < MaxQuotes /\ Step("quote")
         \/ ~ same /\ ~ (n < MaxQuotes) /\ Ends("changing")
  BY DEF ReadsRest
<1>2. CallTypeOK /\ ObjectPolicy /\ Counter /\ QuoteOK /\ call.o = "quote"
  BY <1>1, Parts DEF CallTypeOK, QuoteStages
<1>3. ~ same => n <= changes /\ ~ call.calm
  <2>1. CASE reg = Last(call.ticket) /\ call.digest[1] = reg.seven
    BY <2>1, SameSeven DEF reproduces, PolicyTypeOK
  <2> QED BY <1>1, <1>2, <2>1 DEF QuoteOK, QuoteStages
<1>4. call.ticket \in Seq(Registers) /\ n \in Nat /\ changes \in Nat
  BY <1>1, <1>2 DEF QuoteOK, QuoteStages, PolicyTypeOK
<1>5. same => values = Last(call.ticket)
  BY DEF reproduces
<1> HIDE DEF values, same
<1>6. CASE same /\ To([call EXCEPT !.at = "done", !.result = "quoted", !.digest = <<values>>])
  <2>1. /\ DOMAIN call' = CallFields /\ call'.at = "done" /\ call'.result = "quoted" /\ call'.o = call.o
        /\ call'.blob = call.blob /\ call'.policy = call.policy /\ call'.digest = <<values>>
        /\ call'.counter = call.counter /\ call'.ticket = call.ticket
        /\ reg' = reg /\ changes' = changes /\ index' = index
    BY <1>2, <1>6 DEF To, CallTypeOK, CallFields
  <2>2. CallInv'
    <3>1. CallTypeOK'
      BY <1>2, <2>1 DEF CallTypeOK, Stages, SlotStages, EarlyStages, LateStages, ChannelStages, QuoteStages
    <3>2. ObjectPolicy' /\ Counter' /\ HeldOK' /\ EarlyOK'
      BY <1>2, <2>1 DEF ObjectPolicy, Counter, HeldOK, EarlyOK, EarlyStages
    <3>3. SessionOK' /\ ChannelOK' /\ CalmOK' /\ QuoteOK'
      BY <2>1 DEF SessionOK, ChannelOK, CalmOK, QuoteOK, LateStages, SlotStages, QuoteStages, EarlyStages
    <3> QED BY <3>1, <3>2, <3>3 DEF CallInv
  <2>3. call'.digest[1] = Last(call'.ticket)
    BY <1>5, <1>6, <2>1
  <2> QED BY <1>2, <2>1, <2>2, <2>3 DEF UseOK, OpensOnlyApproved, ApprovedOpens, BlameRight
<1>7. CASE ~ same /\ Step("quote")
  <2>1. /\ DOMAIN call' = CallFields /\ call'.at = "quote" /\ call'.o = call.o /\ call'.blob = call.blob
        /\ call'.policy = call.policy /\ call'.ticket = call.ticket
        /\ call'.counter = call.counter /\ call'.gen = call.gen /\ call'.calm = call.calm
        /\ reg' = reg /\ changes' = changes /\ index' = index
    BY <1>2, <1>7, StageTo
  <2>2. CallTypeOK' /\ ObjectPolicy' /\ Counter' /\ HeldOK' /\ EarlyOK'
    BY <1>1, <1>2, <2>1 DEF CallTypeOK, ObjectPolicy, Counter, Current, HeldOK, EarlyOK, Stages, SlotStages, EarlyStages, LateStages, ChannelStages, QuoteStages
  <2>3. SessionOK' /\ ChannelOK' /\ CalmOK'
    BY <2>1 DEF SessionOK, ChannelOK, CalmOK, LateStages, SlotStages, QuoteStages, EarlyStages
  <2>4. QuoteOK'
    BY <1>3, <1>4, <1>7, <2>1 DEF QuoteOK
  <2> QED BY <2>1, <2>2, <2>3, <2>4, Ongoing
<1>8. CASE ~ same /\ ~ (n < MaxQuotes) /\ Ends("changing")
  <2>1. changes >= MaxQuotes
    BY <1>3, <1>4, <1>8 DEF MaxQuotes
  <2>2. /\ CallInv' /\ call'.at = "done" /\ call'.result = "changing" /\ call'.o = "quote" /\ ~ call'.calm
        /\ changes' = changes
    BY <1>1, <1>2, <1>3, <1>8, EndKeeps DEF Around
  <2> QED BY <2>1, <2>2 DEF UseOK, OpensOnlyApproved, ApprovedOpens, BlameRight, Undisturbed, MaxQuotes
<1> QED BY <1>1, <1>6, <1>7, <1>8

----------------------------------------------------------------------------
(* The boot, the commands and the settings. *)

\* A register that is extended moves on.
LEMMA ExtendMoves ==
  ASSUME PolicyTypeOK,
         \/ reg.seven[2] = 0 /\ reg' = [reg EXCEPT !.seven[2] = 1]
         \/ reg.eleven[2] = 0 /\ reg' = [reg EXCEPT !.eleven[2] = 1]
         \/ reg.fifteen = 0 /\ reg' = [reg EXCEPT !.fifteen = 1]
  PROVE  /\ reg' \in Registers
         /\ reg.fifteen # 0 => reg'.fifteen # 0
         /\ reg'.seven = reg.seven \/ reg'.seven[2] = 1
<1>1. reg \in Registers
  BY DEF PolicyTypeOK
<1>2. CASE reg' = [reg EXCEPT !.seven[2] = 1]
  <2>1. [reg.seven EXCEPT ![2] = 1] \in Firmwares \X {0, 1} /\ [reg.seven EXCEPT ![2] = 1][2] = 1
    BY <1>1 DEF Registers
  <2> QED BY <1>1, <1>2, <2>1 DEF Registers
<1>3. CASE reg' = [reg EXCEPT !.eleven[2] = 1]
  <2>1. [reg.eleven EXCEPT ![2] = 1] \in Images \X {0, 1}
    BY <1>1 DEF Registers
  <2> QED BY <1>1, <1>3, <2>1 DEF Registers
<1>4. CASE reg' = [reg EXCEPT !.fifteen = 1]
  BY <1>1, <1>4 DEF Registers
<1> QED BY <1>2, <1>3, <1>4

LEMMA BootKeeps ==
  ASSUME PolicyTypeOK, CallInv, call.at # "done", SystemdExtends \/ Closes
  PROVE  PolicyTypeOK' /\ UseOK' /\ UNCHANGED settings
<1>1. /\ changes' = changes + 1 /\ Disturbs /\ UNCHANGED <<index, rec, mid, admin, settings>>
      /\ \/ reg.seven[2] = 0 /\ reg' = [reg EXCEPT !.seven[2] = 1]
         \/ reg.eleven[2] = 0 /\ reg' = [reg EXCEPT !.eleven[2] = 1]
         \/ reg.fifteen = 0 /\ reg' = [reg EXCEPT !.fifteen = 1]
  BY DEF SystemdExtends, Closes, Extends
<1>2. /\ reg' \in Registers
      /\ reg.fifteen # 0 => reg'.fifteen # 0
      /\ reg'.seven = reg.seven \/ reg'.seven[2] = 1
  BY <1>1, ExtendMoves
<1>3. changes' \in Nat
  BY <1>1 DEF PolicyTypeOK
<1>4. PolicyTypeOK'
  BY <1>1, <1>2, <1>3 DEF PolicyTypeOK
<1>5. Moved
  BY <1>1, <1>2 DEF Moved
<1>6. CallInv' /\ call'.at = call.at
  BY <1>1, <1>4, <1>5, DisturbKeeps
<1> QED BY <1>1, <1>4, <1>6 DEF UseOK, OpensOnlyApproved, ApprovedOpens, BlameRight

\* A boot begins anew between uses.
LEMMA RebootKeeps ==
  ASSUME PolicyTypeOK, CallInv, Reboots
  PROVE  PolicyTypeOK' /\ UseOK' /\ UNCHANGED settings
<1>1. PICK f \in Firmwares, i \in Images : reg' = Fresh(f, i)
  BY DEF Reboots
<1>2. reg' \in Registers
  BY <1>1 DEF Fresh, Registers
<1>3. /\ changes' = 0 /\ call.at = "idle" /\ call' = call /\ admin' = [at |-> "idle"]
      /\ UNCHANGED <<index, rec, mid, settings>>
  BY DEF Reboots
<1>4. PolicyTypeOK'
  BY <1>2, <1>3 DEF PolicyTypeOK
<1> QED BY <1>3, <1>4 DEF UseOK, CallInv, OpensOnlyApproved, ApprovedOpens, BlameRight

\* The record that is to be written.
LEMMA RecordIs ==
  ASSUME NEW ref \in Nat, NEW gen \in Nat, NEW seven \in Firmwares \X {0}, NEW signed \in BOOLEAN,
         NEW channel \in Firmwares \X {0}
  PROVE  Record(ref, gen, seven, signed, channel) \in Records
  BY DEF Record, Records

\* The commands change the index and the record, never the use that is under way.
LEMMA CommandKeeps ==
  ASSUME PolicyTypeOK, CallInv, call.at # "done",
         Approves(<<reg.seven[1], 0>>) \/ SealsSlot(<<reg.seven[1], 0>>) \/ IndexRemoved
  PROVE  PolicyTypeOK' /\ UseOK' /\ UNCHANGED settings
<1> DEFINE now == <<reg.seven[1], 0>>
<1>1. now \in Firmwares \X {0}
  BY DEF PolicyTypeOK, Registers
<1>2. /\ rec.ref \in Nat /\ rec.gen \in Nat /\ rec.gen + 1 \in Nat /\ rec.ref + 1 \in Nat
      /\ rec.signed \in BOOLEAN /\ rec.channel \in Firmwares \X {0}
  BY DEF PolicyTypeOK, Records
<1>3. reg' = reg /\ changes' = changes /\ rec' = rec /\ mid' = mid /\ settings' = settings /\ Disturbs
  BY DEF Approves, SealsSlot, IndexRemoved
<1>4. index' = Absent \/ index' \in Nat
  BY <1>2 DEF Approves, SealsSlot, WriteGeneration, IndexRemoved
<1>5. admin' = admin \/ (admin' = [at |-> "record", r |-> admin'.r] /\ admin'.r \in Records)
  <2>1. CASE Approves(now)
    <3> DEFINE ch == IF rec.channel = now THEN rec.channel ELSE now
    <3>1. ch \in Firmwares \X {0}
      BY <1>1, <1>2
    <3>2. admin' = [at |-> "record", r |-> Record(rec.ref, rec.gen + 1, now, rec.signed, ch)]
      BY <2>1 DEF Approves, ResealChannelIfMoved, SealChannel
    <3> HIDE DEF now, ch
    <3>3. Record(rec.ref, rec.gen + 1, now, rec.signed, ch) \in Records
      BY <1>1, <1>2, <3>1, RecordIs
    <3> QED BY <3>2, <3>3
  <2>2. CASE SealsSlot(now)
    <3>1. admin' = [at |-> "record", r |-> Record(rec.ref + 1, 1, now, rec.signed, now)]
      BY <2>2 DEF SealsSlot, SealChannel
    <3> HIDE DEF now
    <3>2. Record(rec.ref + 1, 1, now, rec.signed, now) \in Records
      BY <1>1, <1>2, RecordIs
    <3> QED BY <3>1, <3>2
  <2>3. CASE IndexRemoved
    BY <2>3 DEF IndexRemoved
  <2> QED BY <2>1, <2>2, <2>3
<1>6. PolicyTypeOK'
  BY <1>3, <1>4, <1>5 DEF PolicyTypeOK
<1>7. CallInv' /\ call'.at = call.at
  BY <1>3, <1>6, DisturbKeeps DEF Moved
<1> QED BY <1>3, <1>6, <1>7 DEF UseOK, OpensOnlyApproved, ApprovedOpens, BlameRight

LEMMA UseStays ==
  ASSUME UseOK, UNCHANGED <<reg, changes, index, call>>
  PROVE  UseOK'
<1>1. CallTypeOK => CallTypeOK'
  BY DEF CallTypeOK
<1>2. ObjectPolicy => ObjectPolicy'
  BY DEF ObjectPolicy
<1>3. Counter => Counter'
  BY DEF Counter, Current
<1>4. (HeldOK => HeldOK') /\ (EarlyOK => EarlyOK')
  BY DEF HeldOK, EarlyOK
<1>5. SessionOK => SessionOK'
  BY DEF SessionOK, Current, Told, Approved
<1>6. ChannelOK => ChannelOK'
  BY DEF ChannelOK, Current
<1>7. QuoteOK => QuoteOK'
  BY DEF QuoteOK
<1>8. CalmOK => CalmOK'
  BY DEF CalmOK
<1>9. CallInv'
  BY <1>1, <1>2, <1>3, <1>4, <1>5, <1>6, <1>7, <1>8 DEF UseOK, CallInv
<1>10. OpensOnlyApproved'
  BY DEF UseOK, OpensOnlyApproved
<1>11. ApprovedOpens'
  BY DEF UseOK, ApprovedOpens, Undisturbed
<1>12. BlameRight'
  BY DEF UseOK, BlameRight, Undisturbed
<1> QED BY <1>9, <1>10, <1>11, <1>12 DEF UseOK

\* The record and the machine-id's object are written while a use goes on with
\* what it read.
LEMMA WriteKeeps ==
  ASSUME PolicyTypeOK, UseOK, WritesRecord \/ KeepsMachineID
  PROVE  PolicyTypeOK' /\ UseOK' /\ UNCHANGED settings
<1>1. UNCHANGED <<reg, changes, index, call, settings>>
  BY DEF WritesRecord, KeepsMachineID
<1>2. PolicyTypeOK'
  <2>1. CASE WritesRecord
    BY <2>1 DEF PolicyTypeOK, WritesRecord
  <2>2. CASE KeepsMachineID
    <3>1. rec.ref \in Nat
      BY DEF PolicyTypeOK, Records
    <3> QED BY <2>2, <3>1 DEF PolicyTypeOK, KeepsMachineID
  <2> QED BY <2>1, <2>2
<1>3. UseOK'
  BY <1>1, UseStays
<1> QED BY <1>1, <1>2, <1>3

LEMMA UseStepKeeps ==
  ASSUME PolicyTypeOK, CallInv, call.at # "done", UseStep
  PROVE  PolicyTypeOK' /\ UseOK' /\ UNCHANGED settings
<1>1. UseOK'
  <2>1. CASE \E o \in Objects : Begins(o)
    BY <2>1, BeginsKeeps
  <2>2. Code \/ OpenBootChallenge \/ UnwrapFactor \/ UnsealMachineID \/ UnsealChannel \/ UnsealChannelSigned \/ Quote
          => \E o \in Objects : Begins(o)
    BY DEF Code, OpenBootChallenge, UnwrapFactor, UnsealMachineID, UnsealChannel, UnsealChannelSigned, Quote, Objects
  <2> QED
    BY <2>1, <2>2, SlotCodeKeeps, CheckOpenKeeps, ReadsIndexKeeps, checkSignedPCRsKeeps, LoadsSigningKeyKeeps,
       PolicyPCRSignedKeeps, PolicyPCRPlainKeeps, PolicyNVEqKeeps, AuthorizesKeeps, PolicyPCROpenKeeps, PolicyThenKeeps,
       ChannelAssertsKeeps, ChannelWhyKeeps, ChannelSignsKeeps, ChannelOrKeeps, UsesKeeps, QuotesKeeps, ReadsChunkKeeps,
       ReadsRestKeeps DEF UseStep
<1>2. UNCHANGED Around
  BY DEF UseStep, Code, OpenBootChallenge, UnwrapFactor, UnsealMachineID, UnsealChannel, UnsealChannelSigned, Quote,
     Begins, SlotCode, CheckOpen, ReadsIndex, checkSignedPCRs, Loads, LoadsSigningKey, PolicyPCRSigned, PolicyPCRPlain,
     Asserts, PolicyNVEq, Authorizes, PolicyPCROpen, PolicyThen, ChannelAsserts, ChannelWhy, ChannelSigns, ChannelOr, Uses,
     Quotes, ReadsChunk, ReadsRest, Step, Ends, To, Around
<1>3. PolicyTypeOK' /\ UNCHANGED settings
  BY <1>2 DEF Around, PolicyTypeOK
<1> QED BY <1>1, <1>3

\* The settings: what is written is new, whole when it says so.
LEMMA SettingsStep ==
  ASSUME SettingsInv, SettingsKept, SettingsNext
  PROVE  SettingsInv' /\ SettingsKept' /\ UNCHANGED <<reg, changes, index, rec, mid, admin, call>>
<1>1. UNCHANGED <<reg, changes, index, rec, mid, admin, call>>
  BY DEF SettingsNext, SettingsBegin, DefinesIndex, WritesChunk, ReadsBack, SettingsCut, Set
<1>2. DOMAIN settings = SettingsFields
  BY DEF SettingsInv
<1>3. CASE SettingsBegin
  <2> DEFINE from == [settings EXCEPT !.before = settings.held]
  <2>1. /\ DOMAIN from = SettingsFields /\ from.before = settings.held /\ from.held = settings.held
        /\ from.at = settings.at /\ settings.at = "idle"
    BY <1>2, <1>3 DEF SettingsBegin, SettingsFields
  <2>2. settings' = [from EXCEPT !.at = "define", !.held = Absent] \/ settings' = [from EXCEPT !.told = "no key"]
    BY <1>3 DEF SettingsBegin, Preflight, Replaces, Set
  <2> HIDE DEF from
  <2>3. /\ DOMAIN settings' = SettingsFields
        /\ \/ settings'.at = "define"
           \/ settings'.at = "idle" /\ settings'.told = "no key" /\ settings'.held = settings'.before
    BY <2>1, <2>2 DEF SettingsFields
  <2> QED BY <1>1, <2>3 DEF SettingsInv, SettingsKept
<1>4. CASE DefinesIndex
  <2>1. /\ DOMAIN settings' = SettingsFields
        /\ \/ settings'.at = "write" /\ settings'.held = <<"new", 0>>
           \/ settings'.at = "idle" /\ settings'.told = "failed"
    BY <1>2, <1>4 DEF DefinesIndex, Set, SettingsFields
  <2>2. <<"new", 0>> \in {<<"new", n>> : n \in 0 .. MaxChunks}
    BY DEF MaxChunks
  <2> QED BY <1>1, <2>1, <2>2 DEF SettingsInv, SettingsKept
<1>5. CASE WritesChunk
  <2>1. PICK n \in 0 .. MaxChunks : settings.held = <<"new", n>>
    BY <1>5 DEF WritesChunk, SettingsInv
  <2>2. n + 1 \in 0 .. MaxChunks /\ [<<"new", n>> EXCEPT ![2] = @ + 1] = <<"new", n + 1>>
    BY <1>5, <2>1 DEF WritesChunk, MaxChunks
  <2>3. /\ DOMAIN settings' = SettingsFields
        /\ \/ settings'.at = "write" /\ settings'.held = [settings.held EXCEPT ![2] = @ + 1]
           \/ settings'.at = "idle" /\ settings'.told = "failed"
    BY <1>2, <1>5 DEF WritesChunk, Set, SettingsFields
  <2>4. <<"new", n + 1>> \in {<<"new", k>> : k \in 0 .. MaxChunks}
    BY <2>2
  <2>5. settings'.at = "write" => settings'.held \in {<<"new", k>> : k \in 0 .. MaxChunks}
    BY <2>1, <2>2, <2>3, <2>4
  <2> QED BY <1>1, <2>3, <2>5 DEF SettingsInv, SettingsKept
<1>6. CASE ReadsBack
  <2>1. settings.held = WholeOf("new")
    <3>1. PICK n \in 0 .. MaxChunks : settings.held = <<"new", n>>
      BY <1>6 DEF ReadsBack, SettingsInv
    <3> QED BY <1>6, <3>1 DEF ReadsBack, WholeOf
  <2>2. /\ DOMAIN settings' = SettingsFields
        /\ settings'.at = "idle" /\ settings'.told = "written" /\ settings'.held = settings.held
    BY <1>2, <1>6 DEF ReadsBack, Set, SettingsFields
  <2> QED BY <1>1, <2>1, <2>2 DEF SettingsInv, SettingsKept
<1>7. CASE SettingsCut
  <2>1. DOMAIN settings' = SettingsFields /\ settings'.at = "idle" /\ settings'.told = "none"
    BY <1>2, <1>7 DEF SettingsCut, Set, SettingsFields
  <2> QED BY <1>1, <2>1 DEF SettingsInv, SettingsKept
<1> QED BY <1>1, <1>3, <1>4, <1>5, <1>6, <1>7 DEF SettingsNext

\* The invariant that carries the policies, of every step of a use and of what
\* goes on around it (ApprovedSessionThen, UnsealChannel, WriteToNVRAM).
THEOREM PolicyInductive == PolicySpec => []PolicyIInv
<1>1. PolicyInit => PolicyIInv
  <2> SUFFICES ASSUME PolicyInit PROVE PolicyIInv
    OBVIOUS
  <2>1. PICK f \in Firmwares, i \in Images : reg = Fresh(f, i)
    BY DEF PolicyInit
  <2>2. reg \in Registers
    BY <2>1 DEF Fresh, Registers
  <2>3. PICK s \in BOOLEAN : rec = Record(1, 1, <<"as sealed", 0>>, s, <<"as sealed", 0>>)
    BY DEF PolicyInit
  <2>4. <<"as sealed", 0>> \in Firmwares \X {0}
    BY DEF Firmwares
  <2>5. rec \in Records
    BY <2>3, <2>4, RecordIs
  <2>6. PolicyTypeOK
    BY <2>2, <2>5 DEF PolicyInit, PolicyTypeOK
  <2>7. call.at = "idle" /\ settings.at = "idle" /\ settings.told = "none" /\ DOMAIN settings = SettingsFields
    BY DEF PolicyInit, NoCall, SettingsStart, SettingsFields
  <2> QED BY <2>6, <2>7 DEF PolicyIInv, CallInv, SettingsInv, OpensAsApproved, OpensOnlyApproved, ApprovedOpens, BlameRight, SettingsKept
<1>2. PolicyIInv /\ [PolicyNext \/ SettingsNext]_policyVars => PolicyIInv'
  <2> SUFFICES ASSUME PolicyIInv, [PolicyNext \/ SettingsNext]_policyVars PROVE PolicyIInv'
    OBVIOUS
  <2>0. PolicyTypeOK /\ CallInv /\ UseOK /\ SettingsInv /\ SettingsKept
    BY DEF PolicyIInv, OpensAsApproved, UseOK
  <2>1. ASSUME PolicyTypeOK' /\ UseOK' /\ UNCHANGED settings
        PROVE  PolicyIInv'
    <3>1. SettingsInv' /\ SettingsKept'
      BY <2>0, <2>1 DEF SettingsInv, SettingsKept
    <3> QED BY <2>1, <3>1 DEF PolicyIInv, OpensAsApproved, UseOK
  <2>2. CASE PolicyNext
    <3>1. call.at # "done"
      BY <2>2 DEF PolicyNext
    <3>2. CASE SystemdExtends \/ Closes
      BY <2>0, <2>1, <3>1, <3>2, BootKeeps
    <3>3. CASE Reboots
      BY <2>0, <2>1, <3>3, RebootKeeps
    <3>4. CASE UseStep
      BY <2>0, <2>1, <3>1, <3>4, UseStepKeeps
    <3>5. CASE Approves(<<reg.seven[1], 0>>) \/ SealsSlot(<<reg.seven[1], 0>>) \/ IndexRemoved
      BY <2>0, <2>1, <3>1, <3>5, CommandKeeps
    <3>6. CASE WritesRecord \/ KeepsMachineID
      BY <2>0, <2>1, <3>6, WriteKeeps
    <3> QED BY <2>2, <3>2, <3>3, <3>4, <3>5, <3>6 DEF PolicyNext
  <2>3. CASE SettingsNext \/ UNCHANGED policyVars
    <3>1. SettingsInv' /\ SettingsKept' /\ UNCHANGED <<reg, changes, index, rec, mid, admin, call>>
      BY <2>0, <2>3, SettingsStep DEF policyVars, SettingsInv, SettingsKept
    <3>2. PolicyTypeOK'
      BY <2>0, <3>1 DEF PolicyTypeOK
    <3>3. UseOK'
      BY <2>0, <3>1, UseStays
    <3> QED BY <3>1, <3>2, <3>3 DEF PolicyIInv, OpensAsApproved, UseOK
  <2> QED BY <2>2, <2>3
<1> QED BY <1>1, <1>2, PTL DEF PolicySpec

\* Whatever is extended, approved, sealed again or removed while a session is put
\* together, for any number of approvals and any TPM that holds three objects:
\* what is bound to the slot opens in an approved boot that is not closed and in
\* no other, what is approved does open, and the reason told is the true one.
THEOREM OpensAsItWasApproved == PolicySpec => []OpensAsApproved
<1>1. PolicyIInv => OpensAsApproved
  BY DEF PolicyIInv
<1> QED BY <1>1, PolicyInductive, PTL

----------------------------------------------------------------------------
(* The sessions over SSH. *)

Keys == {"x", Enter, Leave, Backspace}
Lines == {"out", "in", "closed"}
SrvFields == {"released", "stopped", "target", "signal"}
RunFields == {"at", "confirmed", "console", "list"}
AskFields == {"at", "s", "q", "got", "typed", "clear"}
RunStages == {"off", "hold", "served", "stop", "closing", "done"}
AskStages == {"idle", "drain", "asking", "answered", "cancelled", "withdrawn", "over"}
QuestionStages == {"none", "pending", "sent", "unsent", "gone"}

SSHTypeOK ==
  /\ line \in [Logins -> Lines] /\ sessions \in Seq(Logins) /\ keys \in [Logins -> Seq(Keys)]
  /\ DOMAIN srv = SrvFields /\ srv.target \in Logins \union {Nowhere}
  /\ DOMAIN run = RunFields /\ run.at \in RunStages /\ run.confirmed \in Logins \union {Nowhere}
  /\ run.list \subseteq Logins
  /\ questions \in [Questions -> QuestionStages] /\ seen \subseteq Questions
  /\ typed \in Nat

\* The server: its list has every session that is in, until the stop takes it.
ServerOK ==
  /\ run.at \in {"served", "stop", "closing", "done"} => srv.released
  /\ srv.stopped <=> run.at \in {"closing", "done"}
  /\ srv.stopped => sessions = <<>>
  /\ run.at \in {"off", "hold"} => ~ run.console
  /\ run.at \notin {"closing", "done"} => \A s \in Logins : Open(s) => Contains(sessions, s)
  /\ run.at = "closing" => \A s \in Logins : Open(s) => s \in run.list
  /\ run.at = "done" => \A s \in Logins : ~ Open(s)

\* Where the prompt goes, when a session confirmed.
TargetOK ==
  run.confirmed # Nowhere /\ ~ run.console => srv.target = run.confirmed \/ line[run.confirmed] = "closed"

\* What is asked.
PromptOK(c) ==
  /\ c.at \in AskStages
  /\ c.at \in {"drain", "asking", "answered"} =>
       DOMAIN c = AskFields /\ c.s \in Logins /\ c.got \in Texts /\ c.typed \in Seq(Keys)
  /\ c.at = "drain" => c.got = <<>> /\ c.typed = <<>>
AsksTypeOK ==
  /\ DOMAIN ask = Askers
  /\ \A a \in Askers : PromptOK(ask[a]) /\ (ask[a].at # "idle" => srv.released)

\* The keys typed to a question: first m from which the text grew, then those that
\* are still to be taken.
Waiting(ty, ks, m) == m + Len(ks) = Len(ty) /\ \A i \in 1 .. Len(ks) : ty[m + i] = ks[i]
AsTyped(got, ty, ks) ==
  \E m \in Nat : Waiting(ty, ks, m) /\ \E h \in [0 .. m -> Texts] : Grew(h, ty, m, got)

TypedOK ==
  /\ \A a \in Askers : ask[a].at = "asking" /\ ask[a].clear => AsTyped(ask[a].got, ask[a].typed, keys[ask[a].s])
  /\ \A a \in Askers : ask[a].at = "answered" /\ ask[a].clear => IsAnswer(ask[a].got, ask[a].typed)
  /\ \A a, b \in Askers : a # b /\ ask[a].at = "asking" /\ ask[b].at = "asking" /\ ask[a].s = ask[b].s => ~ ask[a].clear

\* The agent's questions.
AgentOK ==
  /\ ask["agent"].at # "over"
  /\ ask["agent"].at # "idle" => ask["agent"].q \in Questions
  /\ ask["agent"].at = "withdrawn" => questions[ask["agent"].q] = "gone" \/ run.at = "done"
  /\ \A q \in seen :
       /\ questions[q] # "none"
       /\ questions[q] # "pending" \/ run.at = "done" \/ (ask["agent"].at # "idle" /\ ask["agent"].q = q)

SSHIInv == SSHTypeOK /\ ServerOK /\ TargetOK /\ AsksTypeOK /\ TypedOK /\ AgentOK /\ ConfirmedHasThePrompt

----------------------------------------------------------------------------
(* What is typed to a question, and what is taken of it. *)

\* The texts: those that fit a passphrase.
LEMMA TextsAre == ASSUME NEW t PROVE t \in Texts <=> t \in Seq({"x"}) /\ Len(t) <= MaxPassphrase
<1>1. Texts = UNION {[1 .. m -> {"x"}] : m \in 0 .. MaxPassphrase}
  BY DEF Texts, BoundedSeq, SeqOf
<1>2. MaxPassphrase \in Nat
  BY LoginsAssumption
<1>3. ASSUME t \in Texts
      PROVE  t \in Seq({"x"}) /\ Len(t) <= MaxPassphrase
  <2>1. PICK m \in 0 .. MaxPassphrase : t \in [1 .. m -> {"x"}]
    BY <1>1, <1>3
  <2> QED BY <1>2, <2>1
<1>4. ASSUME t \in Seq({"x"}), Len(t) <= MaxPassphrase
      PROVE  t \in Texts
  <2>1. Len(t) \in 0 .. MaxPassphrase /\ t \in [1 .. Len(t) -> {"x"}]
    BY <1>2, <1>4
  <2> QED BY <1>1, <2>1
<1> QED BY <1>3, <1>4

LEMMA NoText == <<>> \in Texts
<1>1. <<>> \in Seq({"x"}) /\ Len(<<>>) = 0 /\ MaxPassphrase \in Nat
  BY LoginsAssumption
<1>2. Len(<<>>) <= MaxPassphrase
  BY <1>1
<1> QED BY <1>1, <1>2, TextsAre

\* A key that does not end the prompt leaves a text.
LEMMA EditedIs ==
  ASSUME NEW t \in Texts, NEW k \in Keys, k # Leave
  PROVE  Edited(t, k) \in Texts
<1>1. t \in Seq({"x"}) /\ Len(t) <= MaxPassphrase /\ MaxPassphrase \in Nat
  BY TextsAre, LoginsAssumption
<1>2. CASE k = Enter
  BY <1>2 DEF Edited, Enter, Backspace
<1>3. CASE k = Backspace
  <2>1. Edited(t, k) = SubSeq(t, 1, Len(t) - 1)
    BY <1>3 DEF Edited, Enter, Backspace, Front
  <2>2. CASE t = <<>>
    <3>1. SubSeq(t, 1, Len(t) - 1) = <<>>
      BY <2>2
    <3> QED BY <2>1, <3>1, NoText
  <2>3. CASE t # <<>>
    <3>1. Len(t) \in Nat /\ Len(t) >= 1
      BY <1>1, <2>3
    <3> DEFINE n == Len(t) - 1
    <3>2. SubSeq(t, 1, n) \in Seq({"x"}) /\ Len(SubSeq(t, 1, n)) = n
      <4>1. n \in Nat /\ n <= Len(t)
        BY <3>1
      <4>2. \A i \in 1 .. n : i \in 1 .. Len(t)
        BY <4>1, <3>1
      <4> HIDE DEF n
      <4> QED BY <1>1, <4>1, <4>2, SubSeqProperties
    <3>3. Len(t) - 1 <= MaxPassphrase
      BY <1>1, <3>1
    <3> QED BY <2>1, <3>2, <3>3, TextsAre
  <2> QED BY <2>2, <2>3
<1>4. CASE k = "x"
  <2>1. Edited(t, k) = IF Len(t) < MaxPassphrase THEN Append(t, k) ELSE t
    BY <1>4 DEF Edited, Enter, Backspace
  <2>2. Append(t, k) \in Seq({"x"}) /\ Len(Append(t, k)) = Len(t) + 1 /\ Len(t) \in Nat
    BY <1>1, <1>4
  <2>3. Len(t) < MaxPassphrase => Append(t, k) \in Texts
    <3>1. Len(t) < MaxPassphrase => Len(t) + 1 <= MaxPassphrase
      BY <1>1, <2>2
    <3> QED BY <2>2, <3>1, TextsAre
  <2> QED BY <2>1, <2>3
<1> QED BY <1>2, <1>3, <1>4 DEF Keys

LEMMA NothingTyped == AsTyped(<<>>, <<>>, <<>>)
<1> DEFINE h == [i \in 0 .. 0 |-> <<>>]
<1>1. h \in [0 .. 0 -> Texts] /\ h[0] = <<>>
  BY NoText
<1> HIDE DEF h
<1>2. Grew(h, <<>>, 0, <<>>) /\ Waiting(<<>>, <<>>, 0)
  BY <1>1 DEF Grew, Waiting
<1> QED BY <1>1, <1>2 DEF AsTyped

LEMMA AppendIs ==
  ASSUME NEW S, NEW t \in Seq(S), NEW k \in S
  PROVE  /\ Append(t, k) \in Seq(S) /\ Len(Append(t, k)) = Len(t) + 1
         /\ \A i \in 1 .. Len(t) : Append(t, k)[i] = t[i]
         /\ Append(t, k)[Len(t) + 1] = k
  OBVIOUS

LEMMA TailIs ==
  ASSUME NEW S, NEW t \in Seq(S), t # <<>>
  PROVE  /\ Tail(t) \in Seq(S) /\ Len(t) \in Nat /\ Len(t) = Len(Tail(t)) + 1 /\ Len(Tail(t)) \in Nat
         /\ Head(t) = t[1] /\ Head(t) \in S
         /\ \A i \in 1 .. Len(Tail(t)) : Tail(t)[i] = t[i + 1]
  OBVIOUS

\* A key that is kept is typed, and still to be taken.
LEMMA KeyTyped ==
  ASSUME NEW got, NEW ty \in Seq(Keys), NEW ks \in Seq(Keys), NEW k \in Keys, AsTyped(got, ty, ks)
  PROVE  AsTyped(got, Append(ty, k), Append(ks, k))
<1>1. PICK m \in Nat : Waiting(ty, ks, m) /\ \E h \in [0 .. m -> Texts] : Grew(h, ty, m, got)
  BY DEF AsTyped
<1>2. PICK h \in [0 .. m -> Texts] : Grew(h, ty, m, got)
  BY <1>1
<1> DEFINE ty2 == Append(ty, k)
           ks2 == Append(ks, k)
<1>3. /\ Len(ty) \in Nat /\ Len(ks) \in Nat
      /\ Len(ty2) = Len(ty) + 1 /\ Len(ks2) = Len(ks) + 1
      /\ \A i \in 1 .. Len(ty) : ty2[i] = ty[i]
      /\ \A i \in 1 .. Len(ks) : ks2[i] = ks[i]
      /\ ty2[Len(ty) + 1] = k /\ ks2[Len(ks) + 1] = k
  BY AppendIs
<1> HIDE DEF ty2, ks2
<1>4. m + Len(ks) = Len(ty)
  BY <1>1 DEF Waiting
<1>5. Grew(h, ty2, m, got)
  <2>1. \A i \in 1 .. m : ty2[i] = ty[i]
    BY <1>3, <1>4
  <2> QED BY <1>2, <2>1 DEF Grew
<1>6. Waiting(ty2, ks2, m)
  <2>1. m + Len(ks2) = Len(ty2)
    BY <1>1, <1>3, <1>4
  <2>2. ASSUME NEW i \in 1 .. Len(ks2)
        PROVE  ty2[m + i] = ks2[i]
    <3>1. CASE i \in 1 .. Len(ks)
      <4>1. m + i \in 1 .. Len(ty)
        BY <1>3, <1>4, <3>1
      <4> QED BY <1>1, <1>3, <3>1, <4>1 DEF Waiting
    <3>2. CASE i = Len(ks) + 1
      <4>1. m + i = Len(ty) + 1
        <5>1. m \in Nat /\ Len(ks) \in Nat /\ Len(ty) \in Nat
          BY <1>1, <1>3
        <5> QED BY ONLY <1>4, <3>2, <5>1
      <4> QED BY <1>3, <3>2, <4>1
    <3> QED BY <1>3, <3>1, <3>2
  <2> QED BY <2>1, <2>2 DEF Waiting
<1> QED BY <1>5, <1>6 DEF AsTyped, ty2, ks2

\* Enter after something is the end of the answer.
LEMMA EnterAfter ==
  ASSUME NEW got, NEW ty \in Seq(Keys), NEW ks \in Seq(Keys), ks # <<>>, Head(ks) = Enter, got # <<>>,
         AsTyped(got, ty, ks)
  PROVE  IsAnswer(got, ty)
<1>1. PICK m \in Nat : Waiting(ty, ks, m) /\ \E h \in [0 .. m -> Texts] : Grew(h, ty, m, got)
  BY DEF AsTyped
<1>2. Len(ks) \in Nat /\ Len(ks) >= 1 /\ ks[1] = Enter /\ Len(ty) \in Nat
  BY TailIs
<1>3. m \in 0 .. Len(ty) - 1 /\ ty[m + 1] = Enter
  BY <1>1, <1>2 DEF Waiting
<1> QED BY <1>1, <1>3 DEF IsAnswer

\* Any other key changes the text, and is taken.
LEMMA KeyTaken ==
  ASSUME NEW got \in Texts, NEW ty \in Seq(Keys), NEW ks \in Seq(Keys), ks # <<>>, Head(ks) # Leave,
         Head(ks) = Enter => got = <<>>, AsTyped(got, ty, ks)
  PROVE  AsTyped(Edited(got, Head(ks)), ty, Tail(ks))
<1>1. PICK m \in Nat : Waiting(ty, ks, m) /\ \E h \in [0 .. m -> Texts] : Grew(h, ty, m, got)
  BY DEF AsTyped
<1>2. PICK h \in [0 .. m -> Texts] : Grew(h, ty, m, got)
  BY <1>1
<1> DEFINE tl == Tail(ks)
           k == Head(ks)
           g == Edited(got, k)
           h2 == [i \in 0 .. m + 1 |-> IF i \in 0 .. m THEN h[i] ELSE g]
<1>3. /\ Len(tl) \in Nat /\ Len(ks) = Len(tl) + 1 /\ ks[1] = k /\ k \in Keys /\ Len(ty) \in Nat
      /\ \A i \in 1 .. Len(tl) : tl[i] = ks[i + 1]
  BY TailIs
<1>4. k # Leave /\ (k = Enter => got = <<>>) /\ g \in Texts
  BY <1>3, EditedIs
<1>5. m + Len(ks) = Len(ty) /\ ty[m + 1] = k
  <2>1. m + Len(ks) = Len(ty) /\ \A i \in 1 .. Len(ks) : ty[m + i] = ks[i]
    BY <1>1 DEF Waiting
  <2>2. 1 \in 1 .. Len(ks)
    BY <1>3
  <2> QED BY <1>3, <2>1, <2>2
<1>6. g = Edited(got, k)
  OBVIOUS
<1> HIDE DEF tl, k, g
<1>7. h2 \in [0 .. m + 1 -> Texts] /\ h2[m + 1] = g /\ \A i \in 0 .. m : h2[i] = h[i]
  <2>1. m + 1 \notin 0 .. m /\ m + 1 \in 0 .. m + 1 /\ \A i \in 0 .. m : i \in 0 .. m + 1
    OBVIOUS
  <2> QED BY <1>4, <2>1
<1> HIDE DEF h2
<1>8. Grew(h2, ty, m + 1, g)
  <2>1. h[0] = <<>> /\ h[m] = got
    BY <1>2 DEF Grew
  <2>2. 0 \in 0 .. m /\ m \in 0 .. m
    OBVIOUS
  <2>3. ASSUME NEW i \in 1 .. m + 1
        PROVE  h2[i] = Edited(h2[i - 1], ty[i]) /\ ty[i] # Leave /\ (ty[i] = Enter => h2[i - 1] = <<>>)
    <3>1. CASE i \in 1 .. m
      <4>1. i \in 0 .. m /\ i - 1 \in 0 .. m
        BY <3>1
      <4>2. h[i] = Edited(h[i - 1], ty[i]) /\ ty[i] # Leave /\ (ty[i] = Enter => h[i - 1] = <<>>)
        BY <1>2, <3>1 DEF Grew
      <4> QED BY <1>7, <4>1, <4>2
    <3>2. CASE i = m + 1
      <4>1. i - 1 = m
        BY <3>2
      <4>2. h2[i - 1] = got /\ ty[i] = k /\ h2[i] = g
        BY <1>5, <1>7, <2>1, <2>2, <3>2, <4>1
      <4> QED BY <1>4, <1>6, <4>2
    <3> QED BY <3>1, <3>2
  <2> QED BY <1>7, <2>1, <2>2, <2>3 DEF Grew
<1>9. Waiting(ty, tl, m + 1)
  <2>1. (m + 1) + Len(tl) = Len(ty)
    BY <1>3, <1>5
  <2>2. \A i \in 1 .. Len(tl) : i + 1 \in 1 .. Len(ks) /\ (m + 1) + i = m + (i + 1)
    BY <1>3
  <2> QED BY <1>1, <1>3, <2>1, <2>2 DEF Waiting
<1>10. m + 1 \in Nat
  OBVIOUS
<1> QED BY <1>7, <1>8, <1>9, <1>10 DEF AsTyped, tl, g, k

\* A session that left is taken off the list; the others stay on it.
LEMMA RemovedIs ==
  ASSUME NEW S, NEW t \in Seq(S), NEW i \in 1 .. Len(t)
  PROVE  /\ RemoveAt(t, i) \in Seq(S)
         /\ \A x : Contains(t, x) /\ x # t[i] => Contains(RemoveAt(t, i), x)
<1> DEFINE p == SubSeq(t, 1, i - 1)
           r == SubSeq(t, i + 1, Len(t))
           q == RemoveAt(t, i)
           n == Len(t)
<1>1. n \in Nat /\ i \in Nat /\ 1 <= i /\ i <= n
  OBVIOUS
<1>2. p \in Seq(S) /\ Len(p) = i - 1 /\ \A j \in 1 .. i - 1 : p[j] = t[j]
  BY <1>1
<1>3. r \in Seq(S) /\ Len(r) = n - i /\ \A j \in 1 .. n - i : r[j] = t[i + j]
  BY <1>1
<1>4. q = p \o r
  BY DEF RemoveAt
<1> HIDE DEF p, r, q
<1>5. /\ q \in Seq(S) /\ Len(q) = (i - 1) + (n - i)
      /\ \A j \in 1 .. i - 1 : q[j] = p[j]
      /\ \A j \in 1 .. n - i : q[(i - 1) + j] = r[j]
  <2>1. \A j \in 1 .. Len(p) + Len(r) : q[j] = IF j <= Len(p) THEN p[j] ELSE r[j - Len(p)]
    BY <1>2, <1>3, <1>4, ConcatProperties
  <2>2. q \in Seq(S) /\ Len(q) = Len(p) + Len(r)
    BY <1>2, <1>3, <1>4, ConcatProperties
  <2>3. \A j \in 1 .. i - 1 : j \in 1 .. (i - 1) + (n - i) /\ j <= i - 1
    BY <1>1
  <2>4. \A j \in 1 .. n - i : (i - 1) + j \in 1 .. (i - 1) + (n - i) /\ ~ ((i - 1) + j <= i - 1) /\ ((i - 1) + j) - (i - 1) = j
    BY <1>1
  <2>5. Len(p) + Len(r) = (i - 1) + (n - i)
    BY <1>2, <1>3
  <2>6. \A j \in 1 .. (i - 1) + (n - i) : q[j] = IF j <= i - 1 THEN p[j] ELSE r[j - (i - 1)]
    BY <1>2, <2>1, <2>5
  <2>7. \A j \in 1 .. i - 1 : q[j] = p[j]
    BY <2>3, <2>6
  <2>8. ASSUME NEW j \in 1 .. n - i
        PROVE  q[(i - 1) + j] = r[j]
    <3>1. /\ (i - 1) + j \in 1 .. (i - 1) + (n - i) /\ ~ ((i - 1) + j <= i - 1)
          /\ ((i - 1) + j) - (i - 1) = j
      BY <2>4
    <3> QED BY <2>6, <3>1
  <2> QED BY <2>2, <2>5, <2>7, <2>8
<1>6. ASSUME NEW x, Contains(t, x), x # t[i]
      PROVE  Contains(q, x)
  <2>1. PICK j \in 1 .. n : t[j] = x
    BY <1>6 DEF Contains
  <2>2. j # i
    BY <1>6, <2>1
  <2>3. CASE j < i
    <3>1. j \in 1 .. i - 1 /\ j \in 1 .. (i - 1) + (n - i)
      BY <1>1, <2>3
    <3>2. q[j] = x /\ j \in 1 .. Len(q)
      BY <1>2, <1>5, <2>1, <3>1
    <3> QED BY <3>2 DEF Contains
  <2>4. CASE j > i
    <3>1. j - i \in 1 .. n - i /\ (i - 1) + (j - i) \in 1 .. (i - 1) + (n - i) /\ i + (j - i) = j
      BY <1>1, <2>4
    <3>2. q[(i - 1) + (j - i)] = t[i + (j - i)]
      BY <1>3, <1>5, <3>1
    <3>3. q[(i - 1) + (j - i)] = x /\ (i - 1) + (j - i) \in 1 .. Len(q)
      BY <1>5, <2>1, <3>1, <3>2
    <3> QED BY <3>3 DEF Contains
  <2> QED BY <1>1, <2>2, <2>3, <2>4
<1> QED BY <1>5, <1>6 DEF q

----------------------------------------------------------------------------
(* What a step leaves alone. *)

LEMMA AsksStay ==
  ASSUME AsksTypeOK, UNCHANGED ask, srv.released => srv'.released
  PROVE  AsksTypeOK'
  BY DEF AsksTypeOK

LEMMA TypedStays ==
  ASSUME TypedOK, UNCHANGED <<ask, keys>>
  PROVE  TypedOK'
  BY DEF TypedOK

LEMMA AgentStays ==
  ASSUME AgentOK, UNCHANGED <<ask, questions, seen>>, run.at = "done" => run'.at = "done"
  PROVE  AgentOK'
  BY DEF AgentOK

LEMMA ServerStays ==
  ASSUME ServerOK, TargetOK, UNCHANGED <<line, sessions, srv, run>>
  PROVE  ServerOK' /\ TargetOK'
  BY DEF ServerOK, TargetOK, Open

\* A line that is set.
LEMMA LineSet ==
  ASSUME line \in [Logins -> Lines], NEW s \in Logins, NEW v \in Lines, line' = [line EXCEPT ![s] = v]
  PROVE  line' \in [Logins -> Lines] /\ line'[s] = v /\ \A x \in Logins : x # s => line'[x] = line[x]
  OBVIOUS

----------------------------------------------------------------------------
(* The sessions and the server. *)

LEMMA addSessionKeeps ==
  ASSUME SSHIInv, NEW s \in Logins, addSession(s)
  PROVE  SSHIInv'
<1>0. SSHTypeOK /\ ServerOK /\ TargetOK /\ AsksTypeOK /\ TypedOK /\ AgentOK /\ ConfirmedHasThePrompt
  BY DEF SSHIInv
<1>1. line[s] = "out" /\ UNCHANGED <<keys, srv, run, ask, questions, seen, typed>>
  BY DEF addSession
<1>2. PICK v \in {"in", "closed"} :
        /\ line' = [line EXCEPT ![s] = v]
        /\ v = "closed" => srv.stopped /\ sessions' = sessions
        /\ v = "in" => ~ srv.stopped /\ sessions' = Append(sessions, s)
  BY DEF addSession
<1>3. line \in [Logins -> Lines] /\ v \in Lines
  BY <1>0 DEF SSHTypeOK, Lines
<1>4. line' \in [Logins -> Lines] /\ line'[s] = v /\ \A x \in Logins : x # s => line'[x] = line[x]
  BY <1>2, <1>3, LineSet
<1>5. \A x \in Logins : line[x] = "closed" => line'[x] = "closed"
  BY <1>1, <1>4
<1>6. SSHTypeOK'
  <2>1. sessions' \in Seq(Logins)
    <3>1. sessions \in Seq(Logins)
      BY <1>0 DEF SSHTypeOK
    <3>2. Append(sessions, s) \in Seq(Logins)
      BY <3>1
    <3> QED BY <1>2, <3>1, <3>2
  <2> QED BY <1>0, <1>1, <1>4, <2>1 DEF SSHTypeOK
<1>7. ServerOK'
  <2>1. CASE v = "closed"
    <3>1. \A x \in Logins : Open(x)' => Open(x)
      BY <1>4, <2>1 DEF Open
    <3> QED BY <1>0, <1>1, <1>2, <2>1, <3>1 DEF ServerOK
  <2>2. CASE v = "in"
    <3>1. sessions \in Seq(Logins) /\ Len(sessions) \in Nat
      BY <1>0 DEF SSHTypeOK
    <3>2. Contains(sessions', s) /\ \A x : Contains(sessions, x) => Contains(sessions', x)
      <4>1. /\ Len(sessions') = Len(sessions) + 1 /\ sessions'[Len(sessions) + 1] = s
            /\ \A i \in 1 .. Len(sessions) : sessions'[i] = sessions[i]
        BY <1>2, <2>2, <3>1, AppendIs
      <4>2. \A i \in 1 .. Len(sessions) : i \in 1 .. Len(sessions) + 1
        BY <3>1
      <4>3. Len(sessions) + 1 \in 1 .. Len(sessions) + 1
        BY <3>1
      <4> QED BY <4>1, <4>2, <4>3 DEF Contains
    <3>3. \A x \in Logins : Open(x)' => x = s \/ Open(x)
      BY <1>4 DEF Open
    <3>4. ~ srv.stopped /\ run.at \notin {"closing", "done"}
      BY <1>0, <1>2, <2>2 DEF ServerOK
    <3> QED BY <1>0, <1>1, <3>2, <3>3, <3>4 DEF ServerOK
  <2> QED BY <1>2, <2>1, <2>2
<1>8. TargetOK' /\ ConfirmedHasThePrompt'
  <2>1. run.confirmed # Nowhere => run.confirmed \in Logins
    BY <1>0 DEF SSHTypeOK
  <2> QED BY <1>0, <1>1, <1>5, <2>1 DEF TargetOK, ConfirmedHasThePrompt
<1>9. AsksTypeOK' /\ TypedOK' /\ AgentOK'
  BY <1>0, <1>1, AsksStay, TypedStays, AgentStays
<1> QED BY <1>6, <1>7, <1>8, <1>9 DEF SSHIInv

\* A line that closes, at its client's wish or by Ctrl-C.
LEMMA SessionCloses ==
  ASSUME SSHIInv, NEW s \in Logins, line' = [line EXCEPT ![s] = "closed"], typed' \in Nat,
         UNCHANGED <<sessions, keys, srv, run, ask, questions, seen>>
  PROVE  SSHIInv'
<1>0. SSHTypeOK /\ ServerOK /\ TargetOK /\ AsksTypeOK /\ TypedOK /\ AgentOK /\ ConfirmedHasThePrompt
  BY DEF SSHIInv
<1>1. line \in [Logins -> Lines] /\ "closed" \in Lines
  BY <1>0 DEF SSHTypeOK, Lines
<1>2. line' \in [Logins -> Lines] /\ line'[s] = "closed" /\ \A x \in Logins : x # s => line'[x] = line[x]
  BY <1>1, LineSet
<1>3. \A x \in Logins : line[x] = "closed" => line'[x] = "closed"
  BY <1>2
<1>4. SSHTypeOK'
  BY <1>0, <1>2 DEF SSHTypeOK
<1>5. ServerOK'
  <2>1. \A x \in Logins : Open(x)' => Open(x)
    BY <1>2 DEF Open
  <2> QED BY <1>0, <2>1 DEF ServerOK
<1>6. TargetOK' /\ ConfirmedHasThePrompt'
  <2>1. run.confirmed # Nowhere => run.confirmed \in Logins
    BY <1>0 DEF SSHTypeOK
  <2> QED BY <1>0, <1>3, <2>1 DEF TargetOK, ConfirmedHasThePrompt
<1>7. AsksTypeOK' /\ TypedOK' /\ AgentOK'
  BY <1>0, AsksStay, TypedStays, AgentStays
<1> QED BY <1>4, <1>5, <1>6, <1>7 DEF SSHIInv

\* The first that confirms has the prompt: nothing was asked before.
LEMMA ConfirmsKeeps ==
  ASSUME SSHIInv, NEW s \in Logins, Open(s), Confirms(s), typed' \in Nat
  PROVE  SSHIInv'
<1>0. SSHTypeOK /\ ServerOK /\ TargetOK /\ AsksTypeOK /\ TypedOK /\ AgentOK /\ ConfirmedHasThePrompt
  BY DEF SSHIInv
<1>1. ~ srv.released /\ UNCHANGED <<line, sessions, keys, ask, questions, seen>>
  BY DEF Confirms
<1>2. /\ DOMAIN srv' = SrvFields /\ srv'.released /\ srv'.target = s /\ srv'.stopped = srv.stopped
      /\ DOMAIN run' = RunFields /\ run'.confirmed = s /\ run'.at = run.at /\ run'.console = run.console
      /\ run'.list = run.list
  BY <1>0 DEF Confirms, SSHTypeOK, SrvFields, RunFields
<1>3. SSHTypeOK'
  BY <1>0, <1>1, <1>2 DEF SSHTypeOK
<1>4. ServerOK' /\ TargetOK'
  BY <1>0, <1>1, <1>2 DEF ServerOK, TargetOK, Open
<1>5. AsksTypeOK' /\ TypedOK' /\ AgentOK'
  BY <1>0, <1>1, <1>2, AsksStay, TypedStays, AgentStays
<1>6. ConfirmedHasThePrompt'
  BY <1>0, <1>1 DEF AsksTypeOK, ConfirmedHasThePrompt
<1> QED BY <1>3, <1>4, <1>5, <1>6 DEF SSHIInv

LEMMA ReaderEndsKeeps ==
  ASSUME SSHIInv, NEW s \in Logins, ReaderEnds(s)
  PROVE  SSHIInv'
<1>0. SSHTypeOK /\ ServerOK /\ TargetOK /\ AsksTypeOK /\ TypedOK /\ AgentOK /\ ConfirmedHasThePrompt
  BY DEF SSHIInv
<1>1. line[s] = "closed" /\ UNCHANGED <<line, keys, srv, run, ask, questions, seen, typed>>
  BY DEF ReaderEnds
<1>2. PICK i \in 1 .. Len(sessions) : sessions[i] = s /\ sessions' = RemoveAt(sessions, i)
  BY DEF ReaderEnds
<1>3. sessions \in Seq(Logins)
  BY <1>0 DEF SSHTypeOK
<1>4. sessions' \in Seq(Logins) /\ \A x : Contains(sessions, x) /\ x # s => Contains(sessions', x)
  BY <1>2, <1>3, RemovedIs
<1>5. ~ srv.stopped
  BY <1>0, <1>2 DEF ServerOK
<1>6. SSHTypeOK'
  BY <1>0, <1>1, <1>4 DEF SSHTypeOK
<1>7. ServerOK'
  <2>1. \A x \in Logins : Open(x)' => Open(x) /\ x # s
    BY <1>1 DEF Open
  <2> QED BY <1>0, <1>1, <1>4, <1>5, <2>1 DEF ServerOK
<1>8. TargetOK' /\ ConfirmedHasThePrompt'
  BY <1>0, <1>1 DEF TargetOK, ConfirmedHasThePrompt
<1>9. AsksTypeOK' /\ TypedOK' /\ AgentOK'
  BY <1>0, <1>1, AsksStay, TypedStays, AgentStays
<1> QED BY <1>6, <1>7, <1>8, <1>9 DEF SSHIInv

LEMMA LastIs ==
  ASSUME sessions \in Seq(Logins), sessions # <<>>
  PROVE  Last(sessions) \in Logins
  BY DEF Last

\* The hold ends: the session that confirmed keeps the prompt, unless the console
\* took the boot.
LEMMA ReleaseKeeps ==
  ASSUME SSHIInv, NEW c \in BOOLEAN, ReleaseServer(c)
  PROVE  SSHIInv'
<1> DEFINE t == releaseTarget(srv, c, sessions)
           st == IF t = Nowhere THEN "stop" ELSE "served"
<1>0. SSHTypeOK /\ ServerOK /\ TargetOK /\ AsksTypeOK /\ TypedOK /\ AgentOK /\ ConfirmedHasThePrompt
  BY DEF SSHIInv
<1>1. run.at = "hold" /\ UNCHANGED <<line, sessions, keys, ask, questions, seen, typed>>
  BY DEF ReleaseServer
<1>2. /\ DOMAIN srv' = SrvFields /\ srv'.released /\ srv'.target = t /\ srv'.stopped = srv.stopped
      /\ DOMAIN run' = RunFields /\ run'.confirmed = run.confirmed /\ run'.at = st /\ run'.console = c
      /\ run'.list = run.list
  BY <1>0 DEF ReleaseServer, SSHTypeOK, SrvFields, RunFields
<1>3. st \in {"stop", "served"}
  OBVIOUS
<1>4. /\ t \in Logins \union {Nowhere}
      /\ ~ c /\ srv.target # Nowhere => t = srv.target
  BY <1>0, LastIs DEF releaseTarget, SSHTypeOK
<1> HIDE DEF t, st
<1>5. SSHTypeOK'
  BY <1>0, <1>1, <1>2, <1>3, <1>4 DEF SSHTypeOK, RunStages
<1>6. ServerOK'
  BY <1>0, <1>1, <1>2, <1>3 DEF ServerOK, Open
<1>7. TargetOK'
  BY <1>0, <1>1, <1>2, <1>4 DEF TargetOK, ServerOK
<1>8. ConfirmedHasThePrompt'
  BY <1>0, <1>1, <1>2 DEF ConfirmedHasThePrompt, ServerOK
<1>9. AsksTypeOK' /\ TypedOK' /\ AgentOK'
  BY <1>0, <1>1, <1>2, AsksStay, TypedStays, AgentStays
<1> QED BY <1>5, <1>6, <1>7, <1>8, <1>9 DEF SSHIInv

\* The stop takes the list: who is in is on it.
LEMMA StopKeeps ==
  ASSUME SSHIInv, StopTakes \/ EndServer
  PROVE  SSHIInv'
<1>0. SSHTypeOK /\ ServerOK /\ TargetOK /\ AsksTypeOK /\ TypedOK /\ AgentOK /\ ConfirmedHasThePrompt
  BY DEF SSHIInv
<1>1. UNCHANGED <<line, keys, ask, questions, seen, typed>>
  BY DEF StopTakes, EndServer
<1>2. CASE StopTakes
  <2>1. run.at = "stop" /\ sessions' = <<>>
    BY <1>2 DEF StopTakes
  <2>2. /\ DOMAIN srv' = SrvFields /\ srv'.released = srv.released /\ srv'.target = srv.target /\ srv'.stopped
        /\ DOMAIN run' = RunFields /\ run'.confirmed = run.confirmed /\ run'.at = "closing" /\ run'.console = run.console
        /\ run'.list = ToSet(sessions)
    BY <1>0, <1>2 DEF StopTakes, SSHTypeOK, SrvFields, RunFields
  <2>3. ToSet(sessions) \subseteq Logins /\ \A x : Contains(sessions, x) => x \in ToSet(sessions)
    BY <1>0 DEF SSHTypeOK, ToSet, Contains
  <2>4. sessions' \in Seq(Logins)
    BY <2>1
  <2>5. SSHTypeOK'
    BY <1>0, <1>1, <2>2, <2>3, <2>4 DEF SSHTypeOK, RunStages
  <2>6. ServerOK'
    <3>1. \A x \in Logins : Open(x)' => x \in ToSet(sessions)
      BY <1>0, <1>1, <2>1, <2>3 DEF ServerOK, Open
    <3> QED BY <1>0, <2>1, <2>2, <3>1 DEF ServerOK
  <2>7. TargetOK' /\ ConfirmedHasThePrompt'
    BY <1>0, <1>1, <2>2 DEF TargetOK, ConfirmedHasThePrompt
  <2>8. AsksTypeOK' /\ TypedOK' /\ AgentOK'
    BY <1>0, <1>1, <2>1, <2>2, AsksStay, TypedStays, AgentStays
  <2> QED BY <2>5, <2>6, <2>7, <2>8 DEF SSHIInv
<1>3. CASE EndServer
  <2>1. run.at = "served" /\ UNCHANGED <<sessions, srv>>
    BY <1>3 DEF EndServer
  <2>2. /\ DOMAIN run' = RunFields /\ run'.confirmed = run.confirmed /\ run'.at = "stop" /\ run'.console = run.console
        /\ run'.list = run.list
    BY <1>0, <1>3 DEF EndServer, SSHTypeOK, RunFields
  <2>3. SSHTypeOK'
    BY <1>0, <1>1, <2>1, <2>2 DEF SSHTypeOK, RunStages
  <2>4. ServerOK'
    BY <1>0, <1>1, <2>1, <2>2 DEF ServerOK, Open
  <2>5. TargetOK' /\ ConfirmedHasThePrompt'
    BY <1>0, <1>1, <2>1, <2>2 DEF TargetOK, ConfirmedHasThePrompt
  <2>6. AsksTypeOK' /\ TypedOK' /\ AgentOK'
    BY <1>0, <1>1, <2>1, <2>2, AsksStay, TypedStays, AgentStays
  <2> QED BY <2>3, <2>4, <2>5, <2>6 DEF SSHIInv
<1> QED BY <1>2, <1>3

LEMMA StopClosesKeeps ==
  ASSUME SSHIInv, StopCloses
  PROVE  SSHIInv'
<1>0. SSHTypeOK /\ ServerOK /\ TargetOK /\ AsksTypeOK /\ TypedOK /\ AgentOK /\ ConfirmedHasThePrompt
  BY DEF SSHIInv
<1>1. /\ run.at = "closing" /\ UNCHANGED <<sessions, keys, srv, ask, questions, seen, typed>>
      /\ line' = [s \in Logins |-> IF s \in run.list THEN "closed" ELSE line[s]]
  BY DEF StopCloses
<1>2. /\ DOMAIN run' = RunFields /\ run'.confirmed = run.confirmed /\ run'.at = "done" /\ run'.console = run.console
      /\ run'.list = {}
  BY <1>0 DEF StopCloses, SSHTypeOK, RunFields
<1>3. line' \in [Logins -> Lines] /\ \A x \in Logins : line[x] = "closed" => line'[x] = "closed"
  BY <1>0, <1>1 DEF SSHTypeOK, Lines
<1>4. SSHTypeOK'
  BY <1>0, <1>1, <1>2, <1>3 DEF SSHTypeOK, RunStages
<1>5. ServerOK'
  <2>1. \A x \in Logins : ~ Open(x)'
    BY <1>0, <1>1 DEF ServerOK, Open
  <2> QED BY <1>0, <1>1, <1>2, <2>1 DEF ServerOK
<1>6. TargetOK' /\ ConfirmedHasThePrompt'
  <2>1. run.confirmed # Nowhere => run.confirmed \in Logins
    BY <1>0 DEF SSHTypeOK
  <2> QED BY <1>0, <1>1, <1>2, <1>3, <2>1 DEF TargetOK, ConfirmedHasThePrompt
<1>7. AsksTypeOK' /\ TypedOK' /\ AgentOK'
  BY <1>0, <1>1, <1>2, AsksStay, TypedStays, AgentStays
<1> QED BY <1>4, <1>5, <1>6, <1>7 DEF SSHIInv

----------------------------------------------------------------------------
(* The prompts. *)

LEMMA AskSet ==
  ASSUME DOMAIN ask = Askers, NEW a \in Askers, NEW c, ask' = [ask EXCEPT ![a] = c]
  PROVE  DOMAIN ask' = Askers /\ ask'[a] = c /\ \A b \in Askers : b # a => ask'[b] = ask[b]
  OBVIOUS

LEMMA TheAskers == "provider" \in Askers /\ "agent" \in Askers /\ "provider" # "agent"
  BY DEF Askers

\* A prompt that is over, or not yet drained, has no claim on the keys.
LEMMA QuietTyped ==
  ASSUME TypedOK, NEW a \in Askers, UNCHANGED keys, \A b \in Askers : b # a => ask'[b] = ask[b],
         ask'[a].at \notin {"asking", "answered"}
  PROVE  TypedOK'
<1>1. ASSUME NEW b \in Askers, ask'[b].at = "asking", ask'[b].clear
      PROVE  AsTyped(ask'[b].got, ask'[b].typed, keys'[ask'[b].s])
  <2>1. b # a /\ ask'[b] = ask[b]
    BY <1>1
  <2> QED BY <1>1, <2>1 DEF TypedOK
<1>2. ASSUME NEW b \in Askers, ask'[b].at = "answered", ask'[b].clear
      PROVE  IsAnswer(ask'[b].got, ask'[b].typed)
  <2>1. b # a /\ ask'[b] = ask[b]
    BY <1>2
  <2> QED BY <1>2, <2>1 DEF TypedOK
<1>3. ASSUME NEW b \in Askers, NEW d \in Askers, b # d, ask'[b].at = "asking", ask'[d].at = "asking", ask'[b].s = ask'[d].s
      PROVE  ~ ask'[b].clear
  <2>1. ask'[b] = ask[b] /\ ask'[d] = ask[d]
    BY <1>3
  <2> QED BY <1>3, <2>1 DEF TypedOK
<1> QED BY <1>1, <1>2, <1>3 DEF TypedOK

\* The other asker's part of the types.
LEMMA OthersTyped ==
  ASSUME AsksTypeOK, NEW a \in Askers, DOMAIN ask' = Askers, \A b \in Askers : b # a => ask'[b] = ask[b],
         srv.released => srv'.released, PromptOK(ask'[a]), ask'[a].at # "idle" => srv'.released
  PROVE  AsksTypeOK'
  BY DEF AsksTypeOK

\* The agent's part, when the provider's prompt changes.
LEMMA ProviderOnly ==
  ASSUME AgentOK, ask'["agent"] = ask["agent"], UNCHANGED <<questions, seen, run>>
  PROVE  AgentOK'
  BY DEF AgentOK

\* The agent's part, when its prompt goes on with the same question.
LEMMA SameQuestion ==
  ASSUME AgentOK, UNCHANGED <<questions, seen, run>>, ask["agent"].at # "idle",
         ask'["agent"].at \notin {"idle", "over"}, ask'["agent"].q = ask["agent"].q,
         ask'["agent"].at = "withdrawn" => questions[ask["agent"].q] = "gone" \/ run.at = "done"
  PROVE  AgentOK'
  BY DEF AgentOK

\* No prompt is begun.
LEMMA NoNewPrompt ==
  ASSUME ConfirmedHasThePrompt, UNCHANGED <<line, run>>,
         \A a \in Askers : ask'[a].at = "drain" => ask'[a] = ask[a]
  PROVE  ConfirmedHasThePrompt'
  BY DEF ConfirmedHasThePrompt

\* Where a prompt is begun.
LEMMA TargetIs ==
  ASSUME SSHTypeOK, PromptTarget # Nowhere
  PROVE  /\ ~ srv.stopped /\ PromptTarget \in Logins
         /\ srv.target # Nowhere /\ line[srv.target] # "closed" => PromptTarget = srv.target
<1>1. ~ srv.stopped
  BY DEF PromptTarget
<1>2. CASE srv.target # Nowhere /\ line[srv.target] # "closed"
  BY <1>1, <1>2 DEF PromptTarget, SSHTypeOK
<1>3. CASE srv.target = Nowhere \/ line[srv.target] = "closed"
  <2>1. PromptTarget = IF sessions = <<>> THEN Nowhere ELSE Last(sessions)
    BY <1>1, <1>3 DEF PromptTarget
  <2> QED BY <1>1, <1>3, <2>1, LastIs DEF SSHTypeOK
<1> QED BY <1>1, <1>2, <1>3

\* A prompt is begun in the session that confirmed, or it is closed.
LEMMA BeginsPrompt ==
  ASSUME SSHIInv, NEW a \in Askers, NEW q, ask[a].at = "idle", PromptTarget # Nowhere, srv.released,
         AskIn(a, q), TargetSet, UNCHANGED <<line, sessions, keys, run, typed>>
  PROVE  /\ ServerOK' /\ TargetOK' /\ AsksTypeOK' /\ TypedOK' /\ ConfirmedHasThePrompt'
         /\ ask'[a].at = "drain" /\ ask'[a].q = q /\ \A b \in Askers : b # a => ask'[b] = ask[b]
         /\ DOMAIN srv' = SrvFields /\ srv'.target \in Logins \union {Nowhere}
<1>0. SSHTypeOK /\ ServerOK /\ TargetOK /\ AsksTypeOK /\ TypedOK /\ AgentOK /\ ConfirmedHasThePrompt
  BY DEF SSHIInv
<1> DEFINE t == PromptTarget
<1>1. /\ ~ srv.stopped /\ t \in Logins
      /\ srv.target # Nowhere /\ line[srv.target] # "closed" => t = srv.target
  BY <1>0, TargetIs
<1>2. t # Nowhere
  OBVIOUS
<1>3. ask' = [ask EXCEPT ![a] = Asking(t, q)] /\ srv' = [srv EXCEPT !.target = t]
  BY <1>1 DEF AskIn, TargetSet
<1> HIDE DEF t
<1>4. DOMAIN ask' = Askers /\ ask'[a] = Asking(t, q) /\ \A b \in Askers : b # a => ask'[b] = ask[b]
  BY <1>0, <1>3, AskSet DEF AsksTypeOK
<1>5. /\ DOMAIN srv' = SrvFields /\ srv'.target = t /\ srv'.released = srv.released /\ srv'.stopped = srv.stopped
  BY <1>0, <1>3 DEF SSHTypeOK, SrvFields
<1>6. /\ ask'[a].at = "drain" /\ ask'[a].q = q /\ ask'[a].s = t /\ ask'[a].got = <<>> /\ ask'[a].typed = <<>>
      /\ DOMAIN ask'[a] = AskFields
  BY <1>4 DEF Asking, AskFields
<1>7. run.confirmed # Nowhere /\ ~ run.console => t = run.confirmed \/ line[run.confirmed] = "closed"
  BY <1>0, <1>1 DEF TargetOK
<1>8. ServerOK' /\ TargetOK'
  BY <1>0, <1>5, <1>7 DEF ServerOK, TargetOK, Open
<1>9. AsksTypeOK'
  <2>1. PromptOK(ask'[a])
    BY <1>1, <1>6, NoText DEF PromptOK, AskStages
  <2> QED BY <1>0, <1>4, <1>5, <2>1, OthersTyped
<1>10. TypedOK'
  BY <1>0, <1>4, <1>6, QuietTyped
<1>11. ConfirmedHasThePrompt'
  BY <1>0, <1>4, <1>6, <1>7 DEF ConfirmedHasThePrompt
<1> QED BY <1>1, <1>4, <1>5, <1>6, <1>8, <1>9, <1>10, <1>11

LEMMA AskKeeps ==
  ASSUME SSHIInv, Ask
  PROVE  SSHIInv'
<1>0. SSHTypeOK /\ ServerOK /\ AgentOK
  BY DEF SSHIInv
<1>1. /\ run.at \in {"served", "stop", "closing", "done"} /\ ask["provider"].at = "idle" /\ PromptTarget # Nowhere
      /\ AskIn("provider", Nowhere) /\ TargetSet /\ UNCHANGED <<line, sessions, keys, run, questions, seen, typed>>
  BY DEF Ask
<1>2. srv.released
  BY <1>0, <1>1 DEF ServerOK
<1>3. /\ ServerOK' /\ TargetOK' /\ AsksTypeOK' /\ TypedOK' /\ ConfirmedHasThePrompt'
      /\ ask'["agent"] = ask["agent"]
      /\ DOMAIN srv' = SrvFields /\ srv'.target \in Logins \union {Nowhere}
  BY <1>1, <1>2, TheAskers, BeginsPrompt
<1>4. SSHTypeOK'
  BY <1>0, <1>1, <1>3 DEF SSHTypeOK
<1>5. AgentOK'
  BY <1>0, <1>1, <1>3, ProviderOnly
<1> QED BY <1>3, <1>4, <1>5 DEF SSHIInv

LEMMA TickKeeps ==
  ASSUME SSHIInv, NEW q \in Questions, Tick(q)
  PROVE  SSHIInv'
<1>0. SSHTypeOK /\ AgentOK
  BY DEF SSHIInv
<1>1. /\ srv.released /\ ask["agent"].at = "idle" /\ PromptTarget # Nowhere /\ seen' = seen \union {q} /\ questions[q] # "none"
      /\ AskIn("agent", q) /\ TargetSet /\ UNCHANGED <<line, sessions, keys, run, questions, typed>>
  BY DEF Tick
<1>2. /\ ServerOK' /\ TargetOK' /\ AsksTypeOK' /\ TypedOK' /\ ConfirmedHasThePrompt'
      /\ ask'["agent"].at = "drain" /\ ask'["agent"].q = q
      /\ DOMAIN srv' = SrvFields /\ srv'.target \in Logins \union {Nowhere}
  BY <1>1, TheAskers, BeginsPrompt
<1>3. SSHTypeOK'
  BY <1>0, <1>1, <1>2 DEF SSHTypeOK
<1>4. AgentOK'
  BY <1>0, <1>1, <1>2 DEF AgentOK
<1> QED BY <1>2, <1>3, <1>4 DEF SSHIInv

\* A prompt ends without an answer, or its answer is taken.
Closing == {"idle", "cancelled", "withdrawn", "over"}
LEMMA EndsPrompt ==
  ASSUME SSHIInv, NEW a \in Askers, ask[a].at # "idle", ask'[a].at \in Closing,
         DOMAIN ask' = Askers, \A b \in Askers : b # a => ask'[b] = ask[b],
         UNCHANGED <<line, sessions, srv, run, typed, keys>>
  PROVE  ServerOK' /\ TargetOK' /\ AsksTypeOK' /\ TypedOK' /\ ConfirmedHasThePrompt'
<1>0. SSHTypeOK /\ ServerOK /\ TargetOK /\ AsksTypeOK /\ TypedOK /\ AgentOK /\ ConfirmedHasThePrompt
  BY DEF SSHIInv
<1>1. DOMAIN ask' = Askers /\ \A b \in Askers : b # a => ask'[b] = ask[b]
  OBVIOUS
<1>2. ServerOK' /\ TargetOK'
  BY <1>0, ServerStays
<1>3. AsksTypeOK'
  <2>1. PromptOK(ask'[a])
    BY DEF PromptOK, Closing, AskStages
  <2>2. srv'.released
    BY <1>0 DEF AsksTypeOK
  <2> QED BY <1>0, <1>1, <2>1, <2>2, OthersTyped
<1>4. TypedOK'
  <2>1. ask'[a].at \notin {"asking", "answered"}
    BY DEF Closing
  <2> QED BY <1>0, <1>1, <2>1, QuietTyped
<1>5. ConfirmedHasThePrompt'
  <2>1. \A b \in Askers : ask'[b].at = "drain" => ask'[b] = ask[b]
    BY <1>1 DEF Closing
  <2> QED BY <1>0, <2>1, NoNewPrompt
<1> QED BY <1>1, <1>2, <1>3, <1>4, <1>5

LEMMA SessionGoneKeeps ==
  ASSUME SSHIInv, NEW a \in Askers, SessionGone(a)
  PROVE  SSHIInv'
<1>0. SSHTypeOK /\ AgentOK /\ AsksTypeOK
  BY DEF SSHIInv
<1> DEFINE c == Ended(ask[a], "cancelled")
<1>1. /\ ask[a].at = "asking" /\ ask' = [ask EXCEPT ![a] = c]
      /\ UNCHANGED <<line, sessions, keys, srv, run, questions, seen, typed>>
  BY DEF SessionGone
<1>2. c.at = "cancelled" /\ c.q = ask[a].q
  BY DEF Ended
<1> HIDE DEF c
<1>3. /\ ServerOK' /\ TargetOK' /\ AsksTypeOK' /\ TypedOK' /\ ConfirmedHasThePrompt'
      /\ ask'[a] = c /\ \A b \in Askers : b # a => ask'[b] = ask[b]
  <2>1. DOMAIN ask' = Askers /\ ask'[a] = c /\ \A b \in Askers : b # a => ask'[b] = ask[b]
    BY <1>0, <1>1 DEF AsksTypeOK
  <2>2. ask'[a].at \in Closing
    BY <1>2, <2>1 DEF Closing
  <2> QED BY <1>1, <2>1, <2>2, EndsPrompt
<1>4. SSHTypeOK'
  BY <1>0, <1>1 DEF SSHTypeOK
<1>5. AgentOK'
  <2>1. CASE a = "agent"
    BY <1>0, <1>1, <1>2, <1>3, <2>1, SameQuestion
  <2>2. CASE a # "agent"
    BY <1>0, <1>1, <1>3, <2>2, TheAskers, ProviderOnly
  <2> QED BY <2>1, <2>2
<1> QED BY <1>3, <1>4, <1>5 DEF SSHIInv

LEMMA AskedKeeps ==
  ASSUME SSHIInv, Asked
  PROVE  SSHIInv'
<1>0. SSHTypeOK /\ AgentOK /\ AsksTypeOK
  BY DEF SSHIInv
<1> DEFINE c == [at |-> "over"]
<1>1. /\ ask["provider"].at \in {"answered", "cancelled"} /\ ask' = [ask EXCEPT !["provider"] = c]
      /\ UNCHANGED <<line, sessions, keys, srv, run, questions, seen, typed>>
  BY DEF Asked
<1>2. c.at = "over"
  OBVIOUS
<1> HIDE DEF c
<1>3. /\ ServerOK' /\ TargetOK' /\ AsksTypeOK' /\ TypedOK' /\ ConfirmedHasThePrompt'
      /\ ask'["agent"] = ask["agent"]
  <2>1. DOMAIN ask' = Askers /\ ask'["provider"] = c /\ \A b \in Askers : b # "provider" => ask'[b] = ask[b]
    BY <1>0, <1>1, TheAskers DEF AsksTypeOK
  <2>2. ask'["provider"].at \in Closing /\ ask["provider"].at # "idle"
    BY <1>1, <1>2, <2>1 DEF Closing
  <2> QED BY <1>1, <2>1, <2>2, TheAskers, EndsPrompt
<1>4. SSHTypeOK' /\ AgentOK'
  BY <1>0, <1>1, <1>3, ProviderOnly DEF SSHTypeOK
<1> QED BY <1>3, <1>4 DEF SSHIInv

LEMMA WithdrawnKeeps ==
  ASSUME SSHIInv, Withdrawn
  PROVE  SSHIInv'
<1>0. SSHTypeOK /\ AgentOK /\ AsksTypeOK
  BY DEF SSHIInv
<1> DEFINE c == Ended(ask["agent"], "withdrawn")
<1>1. /\ ask["agent"].at = "asking" /\ (questions[ask["agent"].q] = "gone" \/ run.at = "done")
      /\ ask' = [ask EXCEPT !["agent"] = c]
      /\ UNCHANGED <<line, sessions, keys, srv, run, questions, seen, typed>>
  BY DEF Withdrawn
<1>2. c.at = "withdrawn" /\ c.q = ask["agent"].q
  BY DEF Ended
<1> HIDE DEF c
<1>3. /\ ServerOK' /\ TargetOK' /\ AsksTypeOK' /\ TypedOK' /\ ConfirmedHasThePrompt'
      /\ ask'["agent"] = c
  <2>1. DOMAIN ask' = Askers /\ ask'["agent"] = c /\ \A b \in Askers : b # "agent" => ask'[b] = ask[b]
    BY <1>0, <1>1, TheAskers DEF AsksTypeOK
  <2>2. ask'["agent"].at \in Closing /\ ask["agent"].at # "idle"
    BY <1>1, <1>2, <2>1 DEF Closing
  <2> QED BY <1>1, <2>1, <2>2, TheAskers, EndsPrompt
<1>4. SSHTypeOK'
  BY <1>0, <1>1 DEF SSHTypeOK
<1>5. AgentOK'
  BY <1>0, <1>1, <1>2, <1>3, SameQuestion
<1> QED BY <1>3, <1>4, <1>5 DEF SSHIInv

\* The agent is done with a question: its answer was sent or was not, and one whose
\* session left is not seen any more.
LEMMA askQuestionKeeps ==
  ASSUME SSHIInv, askQuestion
  PROVE  SSHIInv'
<1>0. SSHTypeOK /\ AgentOK /\ AsksTypeOK
  BY DEF SSHIInv
<1> DEFINE q == ask["agent"].q
           at == ask["agent"].at
<1>1. /\ at \in {"answered", "cancelled", "withdrawn"}
      /\ IF at = "answered" THEN answers(q) ELSE UNCHANGED questions
      /\ seen' = IF at = "cancelled" THEN seen \ {q} ELSE seen
      /\ ask' = [ask EXCEPT !["agent"] = NoPrompt]
      /\ UNCHANGED <<line, sessions, keys, srv, run, typed>>
  BY DEF askQuestion, seenAfter
<1>2. NoPrompt.at = "idle"
  BY DEF NoPrompt
<1>3. /\ ServerOK' /\ TargetOK' /\ AsksTypeOK' /\ TypedOK' /\ ConfirmedHasThePrompt'
      /\ ask'["agent"] = NoPrompt
  <2>1. DOMAIN ask' = Askers /\ ask'["agent"] = NoPrompt /\ \A b \in Askers : b # "agent" => ask'[b] = ask[b]
    BY <1>0, <1>1, TheAskers DEF AsksTypeOK
  <2>2. ask'["agent"].at \in Closing /\ ask["agent"].at # "idle"
    BY <1>1, <1>2, <2>1 DEF Closing
  <2> QED BY <1>1, <2>1, <2>2, TheAskers, EndsPrompt
<1>4. q \in Questions /\ (at = "withdrawn" => questions[q] = "gone" \/ run.at = "done")
      /\ \A x \in seen : questions[x] # "none" /\ (questions[x] # "pending" \/ run.at = "done" \/ q = x)
  BY <1>0, <1>1 DEF AgentOK
<1>5. questions \in [Questions -> QuestionStages] /\ seen \subseteq Questions
  BY <1>0 DEF SSHTypeOK
<1> HIDE DEF q, at
<1>6. /\ questions' \in [Questions -> QuestionStages]
      /\ \A x \in Questions : /\ questions[x] # "none" => questions'[x] # "none"
                              /\ questions[x] # "pending" => questions'[x] # "pending"
      /\ at = "answered" => questions'[q] # "pending"
      /\ at # "answered" => questions' = questions
  <2>1. CASE at = "answered" /\ questions[q] = "pending"
    <3>1. PICK o \in {"sent", "unsent"} : questions' = [questions EXCEPT ![q] = o]
      BY <1>1, <2>1 DEF answers
    <3> QED BY <1>4, <1>5, <2>1, <3>1 DEF QuestionStages
  <2>2. CASE at = "answered" /\ questions[q] # "pending"
    BY <1>1, <1>5, <2>2 DEF answers
  <2>3. CASE at # "answered"
    BY <1>1, <1>5, <2>3
  <2> QED BY <2>1, <2>2, <2>3
<1>7. SSHTypeOK'
  <2>1. seen' \subseteq Questions
    BY <1>1, <1>5
  <2> QED BY <1>0, <1>1, <1>6, <2>1 DEF SSHTypeOK
<1>8. AgentOK'
  <2>1. ASSUME NEW x \in seen'
        PROVE  questions'[x] # "none" /\ (questions'[x] # "pending" \/ run'.at = "done")
    <3>1. x \in seen /\ x \in Questions /\ (at = "cancelled" => x # q)
      BY <1>1, <1>5, <2>1
    <3>2. CASE questions[x] # "pending" \/ run.at = "done"
      BY <1>1, <1>4, <1>6, <3>1, <3>2
    <3>3. CASE x = q
      BY <1>1, <1>4, <1>6, <3>1, <3>3
    <3> QED BY <1>4, <3>1, <3>2, <3>3
  <2> QED BY <1>2, <1>3, <2>1 DEF AgentOK
<1> QED BY <1>3, <1>7, <1>8 DEF SSHIInv

LEMMA QuestionKeeps ==
  ASSUME SSHIInv, NEW q \in Questions, QuestionComes(q) \/ QuestionGoes(q)
  PROVE  SSHIInv'
<1>0. SSHTypeOK /\ ServerOK /\ TargetOK /\ AsksTypeOK /\ TypedOK /\ AgentOK /\ ConfirmedHasThePrompt
  BY DEF SSHIInv
<1>1. UNCHANGED <<line, sessions, keys, srv, run, ask, seen, typed>>
  BY DEF QuestionComes, QuestionGoes
<1>2. /\ questions' \in [Questions -> QuestionStages]
      /\ \A x \in Questions : questions[x] = "gone" => questions'[x] = "gone"
      /\ \A x \in seen : /\ questions'[x] # "none"
                         /\ questions[x] # "pending" => questions'[x] # "pending"
  <2>1. /\ questions \in [Questions -> QuestionStages] /\ seen \subseteq Questions
        /\ \A x \in seen : questions[x] # "none"
    BY <1>0 DEF SSHTypeOK, AgentOK
  <2>2. CASE QuestionComes(q)
    BY <2>1, <2>2 DEF QuestionComes, QuestionStages
  <2>3. CASE QuestionGoes(q)
    BY <2>1, <2>3 DEF QuestionGoes, QuestionStages
  <2> QED BY <2>2, <2>3
<1>3. SSHTypeOK'
  BY <1>0, <1>1, <1>2 DEF SSHTypeOK
<1>4. ServerOK' /\ TargetOK' /\ AsksTypeOK' /\ TypedOK'
  BY <1>0, <1>1, ServerStays, AsksStay, TypedStays
<1>5. ConfirmedHasThePrompt'
  BY <1>0, <1>1, NoNewPrompt
<1>6. AgentOK'
  <2>1. seen \subseteq Questions
    BY <1>0 DEF SSHTypeOK
  <2> QED BY <1>0, <1>1, <1>2, <2>1 DEF AgentOK
<1> QED BY <1>3, <1>4, <1>5, <1>6 DEF SSHIInv

LEMMA SameAgent ==
  ASSUME AgentOK, UNCHANGED <<questions, seen, run>>, ask'["agent"].at = ask["agent"].at, 
         ask["agent"].at # "idle" => ask'["agent"].q = ask["agent"].q
  PROVE  AgentOK'
  BY DEF AgentOK

\* A key that is typed is for the prompts in its session: kept, or they are told
\* that it was lost.
LEMMA BuffersKeeps ==
  ASSUME SSHIInv, NEW s \in Logins, NEW k \in Keys, Buffers(s, k), typed' \in Nat
  PROVE  SSHIInv'
<1>0. SSHTypeOK /\ ServerOK /\ TargetOK /\ AsksTypeOK /\ TypedOK /\ AgentOK /\ ConfirmedHasThePrompt
  BY DEF SSHIInv
<1> DEFINE kept == Len(keys[s]) < MaxPassphrase
           For(a) == ask[a].at = "asking" /\ ask[a].s = s
<1>1. /\ keys' = IF kept THEN [keys EXCEPT ![s] = Append(@, k)] ELSE keys
      /\ ask' = [a \in Askers |-> IF For(a) THEN [ask[a] EXCEPT !.typed = Append(@, k), !.clear = @ /\ kept] ELSE ask[a]]
      /\ UNCHANGED <<line, sessions, srv, run, questions, seen>>
  BY DEF Buffers, Accounts
<1>2. keys \in [Logins -> Seq(Keys)]
  BY <1>0 DEF SSHTypeOK
<1>3. /\ keys' \in [Logins -> Seq(Keys)] /\ (kept => keys'[s] = Append(keys[s], k))
      /\ \A x \in Logins : x # s => keys'[x] = keys[x]
  <2>1. Append(keys[s], k) \in Seq(Keys)
    BY <1>2
  <2> HIDE DEF kept
  <2> QED BY <1>1, <1>2, <2>1
<1>4. ASSUME NEW a \in Askers, For(a)
      PROVE  /\ DOMAIN ask'[a] = AskFields /\ ask'[a].at = "asking" /\ ask'[a].s = s /\ ask'[a].q = ask[a].q
             /\ ask'[a].got = ask[a].got /\ ask'[a].typed = Append(ask[a].typed, k)
             /\ ask'[a].clear => ask[a].clear /\ kept
             /\ ask[a].got \in Texts /\ ask[a].typed \in Seq(Keys)
  <2>1. DOMAIN ask[a] = AskFields /\ ask[a].got \in Texts /\ ask[a].typed \in Seq(Keys)
    BY <1>0, <1>4 DEF AsksTypeOK, PromptOK
  <2>2. ask'[a] = [ask[a] EXCEPT !.typed = Append(@, k), !.clear = @ /\ kept]
    BY <1>1, <1>4
  <2> HIDE DEF kept
  <2> QED BY <1>4, <2>1, <2>2 DEF AskFields
<1>5. \A a \in Askers : ~ For(a) => ask'[a] = ask[a]
  BY <1>1
<1>6. DOMAIN ask' = Askers
  BY <1>1
<1> HIDE DEF kept
<1>7. SSHTypeOK'
  BY <1>0, <1>1, <1>3 DEF SSHTypeOK
<1>8. ServerOK' /\ TargetOK'
  BY <1>0, <1>1, ServerStays
<1>9. AsksTypeOK'
  <2>1. ASSUME NEW a \in Askers, For(a)
        PROVE  PromptOK(ask'[a]) /\ srv.released
    <3>1. Append(ask[a].typed, k) \in Seq(Keys)
      BY <1>4, <2>1
    <3>2. PromptOK(ask'[a])
      BY <1>4, <2>1, <3>1 DEF PromptOK, AskStages
    <3> QED BY <1>0, <2>1, <3>2 DEF AsksTypeOK
  <2> QED BY <1>0, <1>1, <1>5, <1>6, <2>1 DEF AsksTypeOK
<1>10. TypedOK'
  <2>1. ASSUME NEW a \in Askers, ask'[a].at = "asking", ask'[a].clear
        PROVE  AsTyped(ask'[a].got, ask'[a].typed, keys'[ask'[a].s])
    <3>1. CASE For(a)
      <4>1. kept /\ ask[a].clear
        BY <1>4, <2>1, <3>1
      <4>2. AsTyped(ask[a].got, ask[a].typed, keys[s])
        BY <1>0, <3>1, <4>1 DEF TypedOK
      <4>3. AsTyped(ask[a].got, Append(ask[a].typed, k), Append(keys[s], k))
        BY <1>2, <1>4, <3>1, <4>2, KeyTyped
      <4> QED BY <1>3, <1>4, <3>1, <4>1, <4>3
    <3>2. CASE ~ For(a)
      <4>1. ask'[a] = ask[a] /\ ask[a].s # s
        BY <1>5, <2>1, <3>2
      <4>2. ask[a].s \in Logins
        BY <1>0, <2>1, <4>1 DEF AsksTypeOK, PromptOK
      <4> QED BY <1>0, <1>3, <2>1, <4>1, <4>2 DEF TypedOK
    <3> QED BY <3>1, <3>2
  <2>2. ASSUME NEW a \in Askers, ask'[a].at = "answered", ask'[a].clear
        PROVE  IsAnswer(ask'[a].got, ask'[a].typed)
    <3>1. ask'[a] = ask[a]
      BY <1>4, <1>5, <2>2
    <3> QED BY <1>0, <2>2, <3>1 DEF TypedOK
  <2>3. ASSUME NEW a \in Askers, NEW b \in Askers, a # b, ask'[a].at = "asking", ask'[b].at = "asking", ask'[a].s = ask'[b].s
        PROVE  ~ ask'[a].clear
    <3>1. ask[a].at = "asking" /\ ask[b].at = "asking" /\ ask[a].s = ask[b].s
      BY <1>4, <1>5, <2>3
    <3>2. ~ ask[a].clear
      BY <1>0, <2>3, <3>1 DEF TypedOK
    <3> QED BY <1>4, <1>5, <3>2
  <2> QED BY <2>1, <2>2, <2>3 DEF TypedOK
<1>11. AgentOK'
  BY <1>0, <1>1, <1>4, <1>5, TheAskers, SameAgent
<1>12. ConfirmedHasThePrompt'
  <2>1. \A a \in Askers : ask'[a].at = "drain" => ask'[a] = ask[a]
    BY <1>4, <1>5
  <2> QED BY <1>0, <1>1, <2>1, NoNewPrompt
<1> QED BY <1>7, <1>8, <1>9, <1>10, <1>11, <1>12 DEF SSHIInv

\* A prompt begins with no key typed before; two in one session are told that
\* their keys are mixed.
LEMMA DrainKeeps ==
  ASSUME SSHIInv, NEW a \in Askers, Drain(a)
  PROVE  SSHIInv'
<1>0. SSHTypeOK /\ ServerOK /\ TargetOK /\ AsksTypeOK /\ TypedOK /\ AgentOK /\ ConfirmedHasThePrompt
  BY DEF SSHIInv
<1> DEFINE s == ask[a].s
           In(b) == ask[b].at \in {"drain", "asking"} /\ ask[b].s = s
           marked == IF Shared(s, a) THEN Marks(s) ELSE ask
<1>1. /\ ask[a].at = "drain" /\ keys' = [keys EXCEPT ![s] = <<>>]
      /\ ask' = [marked EXCEPT ![a].at = "asking"]
      /\ UNCHANGED <<line, sessions, srv, run, questions, seen, typed>>
  BY DEF Drain, drained
<1>2. /\ DOMAIN ask[a] = AskFields /\ s \in Logins /\ ask[a].got = <<>> /\ ask[a].typed = <<>>
      /\ keys \in [Logins -> Seq(Keys)] /\ DOMAIN ask = Askers
  BY <1>0, <1>1 DEF AsksTypeOK, PromptOK, SSHTypeOK
<1>3. /\ keys' \in [Logins -> Seq(Keys)] /\ keys'[s] = <<>>
      /\ \A x \in Logins : x # s => keys'[x] = keys[x]
  BY <1>1, <1>2
<1>4. Shared(s, a) <=> \E b \in Askers : b # a /\ In(b)
  BY DEF Shared
<1>5. \A b \in Askers : In(b) => DOMAIN ask[b] = AskFields
  BY <1>0 DEF AsksTypeOK, PromptOK
<1>6. /\ DOMAIN marked = Askers
      /\ \A b \in Askers : ~ (Shared(s, a) /\ In(b)) => marked[b] = ask[b]
      /\ \A b \in Askers : Shared(s, a) /\ In(b) => marked[b] = [ask[b] EXCEPT !.clear = FALSE]
  BY <1>2 DEF Marks
<1> HIDE DEF marked
<1>7. /\ DOMAIN ask' = Askers /\ ask'[a] = [marked[a] EXCEPT !.at = "asking"]
      /\ \A b \in Askers : b # a => ask'[b] = marked[b]
  BY <1>1, <1>6
<1>8. In(a)
  BY <1>1
<1>9. /\ DOMAIN ask'[a] = AskFields /\ ask'[a].at = "asking" /\ ask'[a].s = s /\ ask'[a].q = ask[a].q
      /\ ask'[a].got = <<>> /\ ask'[a].typed = <<>>
      /\ Shared(s, a) => ~ ask'[a].clear
  <2>1. CASE Shared(s, a)
    <3>1. marked[a] = [ask[a] EXCEPT !.clear = FALSE]
      BY <1>6, <1>8, <2>1
    <3>2. /\ DOMAIN marked[a] = AskFields /\ marked[a].s = s /\ marked[a].q = ask[a].q /\ marked[a].got = <<>>
          /\ marked[a].typed = <<>> /\ marked[a].clear = FALSE
      BY <1>2, <3>1 DEF AskFields
    <3> QED BY <1>7, <3>2 DEF AskFields
  <2>2. CASE ~ Shared(s, a)
    <3>1. marked[a] = ask[a]
      BY <1>6, <2>2
    <3> QED BY <1>2, <1>7, <2>2, <3>1 DEF AskFields
  <2> QED BY <2>1, <2>2
<1>10. ASSUME NEW b \in Askers, b # a
       PROVE  \/ ask'[b] = ask[b] /\ ~ (Shared(s, a) /\ In(b))
              \/ /\ In(b) /\ Shared(s, a) /\ DOMAIN ask'[b] = AskFields /\ ask'[b].at = ask[b].at /\ ask'[b].s = ask[b].s
                 /\ ask'[b].q = ask[b].q /\ ask'[b].got = ask[b].got /\ ask'[b].typed = ask[b].typed /\ ~ ask'[b].clear
  <2>1. CASE Shared(s, a) /\ In(b)
    <3>1. ask'[b] = [ask[b] EXCEPT !.clear = FALSE] /\ DOMAIN ask[b] = AskFields
      BY <1>5, <1>6, <1>7, <1>10, <2>1
    <3> QED BY <2>1, <3>1 DEF AskFields
  <2>2. CASE ~ (Shared(s, a) /\ In(b))
    BY <1>6, <1>7, <1>10, <2>2
  <2> QED BY <2>1, <2>2
<1>11. SSHTypeOK'
  BY <1>0, <1>1, <1>3 DEF SSHTypeOK
<1>12. ServerOK' /\ TargetOK'
  BY <1>0, <1>1, ServerStays
<1>13. AsksTypeOK'
  <2>1. PromptOK(ask'[a]) /\ srv'.released
    <3>1. srv.released
      BY <1>0, <1>1 DEF AsksTypeOK
    <3>2. <<>> \in Seq(Keys) /\ <<>> \in Texts /\ srv'.released
      BY <1>1, <3>1, NoText
    <3> HIDE DEF s, In
    <3>3. PromptOK(ask'[a])
      BY <1>2, <1>9, <3>2 DEF PromptOK, AskStages
    <3> QED BY <3>2, <3>3
  <2>2. ASSUME NEW b \in Askers, b # a
        PROVE  PromptOK(ask'[b]) /\ (ask'[b].at # "idle" => srv'.released)
    <3>1. PromptOK(ask[b]) /\ (ask[b].at # "idle" => srv.released)
      BY <1>0 DEF AsksTypeOK
    <3>2. CASE ask'[b] = ask[b]
      BY <1>1, <3>1, <3>2
    <3>3. CASE ask'[b] # ask[b]
      BY <1>1, <1>10, <2>2, <3>1, <3>3 DEF PromptOK
    <3> QED BY <3>2, <3>3
  <2> QED BY <1>7, <2>1, <2>2 DEF AsksTypeOK
<1>14. TypedOK'
  <2>1. ASSUME NEW b \in Askers, ask'[b].at = "asking", ask'[b].clear
        PROVE  AsTyped(ask'[b].got, ask'[b].typed, keys'[ask'[b].s])
    <3>1. CASE b = a
      BY <1>3, <1>9, <3>1, NothingTyped
    <3>2. CASE b # a
      <4>1. ask'[b] = ask[b] /\ ~ In(b)
        BY <1>4, <1>10, <2>1, <3>2
      <4>2. ask[b].s \in Logins /\ ask[b].s # s
        BY <1>0, <2>1, <4>1 DEF AsksTypeOK, PromptOK
      <4> QED BY <1>0, <1>3, <2>1, <4>1, <4>2 DEF TypedOK
    <3> QED BY <3>1, <3>2
  <2>2. ASSUME NEW b \in Askers, ask'[b].at = "answered", ask'[b].clear
        PROVE  IsAnswer(ask'[b].got, ask'[b].typed)
    <3>1. ask'[b] = ask[b]
      BY <1>9, <1>10, <2>2
    <3> QED BY <1>0, <2>2, <3>1 DEF TypedOK
  <2>3. ASSUME NEW b \in Askers, NEW c \in Askers, b # c, ask'[b].at = "asking", ask'[c].at = "asking", ask'[b].s = ask'[c].s
        PROVE  ~ ask'[b].clear
    <3>1. CASE b = a
      <4>1. In(c)
        BY <1>9, <1>10, <2>3, <3>1
      <4> QED BY <1>4, <1>9, <2>3, <3>1, <4>1
    <3>2. CASE c = a
      <4>1. In(b)
        BY <1>9, <1>10, <2>3, <3>2
      <4> QED BY <1>4, <1>10, <2>3, <3>2, <4>1
    <3>3. CASE b # a /\ c # a
      <4>1. ask[b].at = "asking" /\ ask[c].at = "asking" /\ ask[b].s = ask[c].s
        BY <1>10, <2>3, <3>3
      <4>2. ~ ask[b].clear
        BY <1>0, <2>3, <4>1 DEF TypedOK
      <4> QED BY <1>10, <3>3, <4>2
    <3> QED BY <3>1, <3>2, <3>3
  <2> QED BY <2>1, <2>2, <2>3 DEF TypedOK
<1>15. AgentOK'
  <2>1. CASE a = "agent"
    BY <1>0, <1>1, <1>9, <2>1, SameQuestion
  <2>2. CASE a # "agent"
    BY <1>0, <1>1, <1>10, <2>2, TheAskers, SameAgent
  <2> QED BY <2>1, <2>2
<1>16. ConfirmedHasThePrompt'
  <2>1. ASSUME NEW b \in Askers, ask'[b].at = "drain"
        PROVE  ask[b].at = "drain" /\ ask[b].s = ask'[b].s
    BY <1>9, <1>10, <2>1
  <2> QED BY <1>0, <1>1, <2>1 DEF ConfirmedHasThePrompt
<1> QED BY <1>11, <1>12, <1>13, <1>14, <1>15, <1>16 DEF SSHIInv

\* A prompt takes the next key of its session.
LEMMA TakesKeyKeeps ==
  ASSUME SSHIInv, NEW a \in Askers, TakesKey(a)
  PROVE  SSHIInv'
<1>0. SSHTypeOK /\ ServerOK /\ TargetOK /\ AsksTypeOK /\ TypedOK /\ AgentOK /\ ConfirmedHasThePrompt
  BY DEF SSHIInv
<1> DEFINE s == ask[a].s
           k == Head(keys[s])
           c == ask[a]
<1>1. /\ c.at = "asking" /\ keys[s] # <<>> /\ keys' = [keys EXCEPT ![s] = Tail(@)]
      /\ UNCHANGED <<line, sessions, srv, run, questions, seen, typed>>
  BY DEF TakesKey
<1>2. /\ DOMAIN c = AskFields /\ s \in Logins /\ c.got \in Texts /\ c.typed \in Seq(Keys)
      /\ keys \in [Logins -> Seq(Keys)] /\ DOMAIN ask = Askers
  BY <1>0, <1>1 DEF AsksTypeOK, PromptOK, SSHTypeOK
<1>3. Tail(keys[s]) \in Seq(Keys) /\ k \in Keys /\ keys[s] \in Seq(Keys)
  BY <1>1, <1>2, TailIs
<1>4. /\ keys' \in [Logins -> Seq(Keys)] /\ keys'[s] = Tail(keys[s])
      /\ \A x \in Logins : x # s => keys'[x] = keys[x]
  BY <1>1, <1>2, <1>3
<1>5. DOMAIN ask' = Askers /\ \A b \in Askers : b # a => ask'[b] = ask[b]
  BY <1>2 DEF TakesKey
<1>6. \/ k = Enter /\ c.got # <<>> /\ ask'[a] = [c EXCEPT !.at = "answered"]
      \/ k = Leave /\ ask'[a] = Ended(c, "cancelled")
      \/ k # Leave /\ (k = Enter => c.got = <<>>) /\ Edited(c.got, k) = c.got /\ ask'[a] = c
      \/ k # Leave /\ k # Enter /\ ask'[a] = [c EXCEPT !.got = Edited(c.got, k)]
  <2> DEFINE new == Took(c, k)
  <2>1. ask' = [ask EXCEPT ![a] = new]
    BY DEF TakesKey
  <2>2. \/ k = Enter /\ c.got # <<>> /\ new = [c EXCEPT !.at = "answered"]
        \/ k = Leave /\ new = Ended(c, "cancelled")
        \/ k # Leave /\ (k = Enter => c.got = <<>>) /\ Edited(c.got, k) = c.got /\ new = c
        \/ k # Leave /\ k # Enter /\ new = [c EXCEPT !.got = Edited(c.got, k)]
    <3> HIDE DEF k, c
    <3>1. CASE k = Enter
      <4>1. new = (IF c.got = <<>> THEN c ELSE [c EXCEPT !.at = "answered"]) /\ Edited(c.got, k) = c.got /\ k # Leave
        BY <3>1 DEF Took, Edited, Enter, Leave, Backspace
      <4> HIDE DEF new
      <4> QED BY <3>1, <4>1
    <3>2. CASE k = Leave
      BY <3>2 DEF Took, Enter, Leave, Backspace
    <3>3. CASE k = Backspace
      <4>1. /\ new = [c EXCEPT !.got = Front(c.got)] /\ Edited(c.got, k) = Front(c.got) /\ k # Leave /\ k # Enter
        BY <3>3 DEF Took, Edited, Enter, Leave, Backspace
      <4> HIDE DEF new
      <4> QED BY <4>1
    <3>4. CASE k \notin {Enter, Leave, Backspace}
      <4>1. /\ new = IF Len(c.got) < MaxPassphrase THEN [c EXCEPT !.got = Append(c.got, k)] ELSE c
            /\ Edited(c.got, k) = IF Len(c.got) < MaxPassphrase THEN Append(c.got, k) ELSE c.got
        BY <3>4 DEF Took, Edited
      <4> HIDE DEF new
      <4> QED BY <3>4, <4>1
    <3> QED BY <3>1, <3>2, <3>3, <3>4
  <2>3. ask'[a] = new
    <3> HIDE DEF new
    <3> QED BY <1>2, <2>1
  <2> HIDE DEF new, k, c
  <2> QED BY <2>2, <2>3
<1> DEFINE n == ask'[a]
<1> HIDE DEF s, k, c, n
<1>7. \/ /\ k = Enter /\ c.got # <<>> /\ DOMAIN n = AskFields /\ n.at = "answered" /\ n.s = c.s /\ n.q = c.q
         /\ n.got = c.got /\ n.typed = c.typed /\ n.clear = c.clear
      \/ n.at = "cancelled" /\ n.q = c.q
      \/ /\ k # Leave /\ (k = Enter => c.got = <<>>) /\ DOMAIN n = AskFields /\ n.at = "asking" /\ n.s = c.s /\ n.q = c.q
         /\ n.got = Edited(c.got, k) /\ n.typed = c.typed /\ n.clear = c.clear
  <2>1. CASE k = Enter /\ c.got # <<>> /\ n = [c EXCEPT !.at = "answered"]
    BY <1>2, <2>1 DEF AskFields
  <2>2. CASE n = Ended(c, "cancelled")
    BY <2>2 DEF Ended
  <2>3. CASE k # Leave /\ (k = Enter => c.got = <<>>) /\ Edited(c.got, k) = c.got /\ n = c
    BY <1>1, <1>2, <2>3
  <2>4. CASE k # Leave /\ k # Enter /\ n = [c EXCEPT !.got = Edited(c.got, k)]
    BY <1>1, <1>2, <2>4 DEF AskFields
  <2> QED BY <1>6, <2>1, <2>2, <2>3, <2>4 DEF n
<1>8. SSHTypeOK'
  BY <1>0, <1>1, <1>4 DEF SSHTypeOK
<1>9. ServerOK' /\ TargetOK'
  BY <1>0, <1>1, ServerStays
<1>10. AsksTypeOK'
  <2>1. PromptOK(n)
    <3>1. k # Leave => Edited(c.got, k) \in Texts
      BY <1>2, <1>3, EditedIs
    <3>2. PromptOK(c)
      BY <1>0 DEF AsksTypeOK, c
    <3>3. c.s \in Logins
      BY <1>2 DEF s, c
    <3> QED BY <1>1, <1>2, <1>7, <3>1, <3>2, <3>3 DEF PromptOK, AskStages
  <2>2. srv.released /\ srv'.released
    BY <1>0, <1>1 DEF AsksTypeOK, c
  <2> QED BY <1>0, <1>5, <2>1, <2>2, OthersTyped DEF n
<1>11. TypedOK'
  <2>1. c.clear => AsTyped(c.got, c.typed, keys[s])
    BY <1>0, <1>1 DEF TypedOK, c, s
  <2>2. n.at = "asking" /\ n.clear => AsTyped(n.got, n.typed, Tail(keys[s])) /\ n.s = s
    <3>1. CASE /\ k # Leave /\ (k = Enter => c.got = <<>>) /\ n.got = Edited(c.got, k) /\ n.typed = c.typed
               /\ n.clear = c.clear /\ n.s = c.s
      BY <1>1, <1>2, <1>3, <2>1, <3>1, KeyTaken DEF k, c, s
    <3> QED BY <1>7, <3>1
  <2>3. n.at = "answered" /\ n.clear => IsAnswer(n.got, n.typed)
    BY <1>1, <1>2, <1>3, <1>7, <2>1, EnterAfter DEF k
  <2>4. ASSUME NEW b \in Askers, ask'[b].at = "asking", ask'[b].clear
        PROVE  AsTyped(ask'[b].got, ask'[b].typed, keys'[ask'[b].s])
    <3>1. CASE b = a
      BY <1>4, <2>2, <2>4, <3>1 DEF n
    <3>2. CASE b # a
      <4>1. ask'[b] = ask[b]
        BY <1>5, <3>2
      <4>2. ask[b].s # s
        BY <1>0, <1>1, <2>4, <3>2, <4>1 DEF TypedOK, c, s
      <4>3. ask[b].s \in Logins
        BY <1>0, <2>4, <4>1 DEF AsksTypeOK, PromptOK
      <4> QED BY <1>0, <1>4, <2>4, <4>1, <4>2, <4>3 DEF TypedOK
    <3> QED BY <3>1, <3>2
  <2>5. ASSUME NEW b \in Askers, ask'[b].at = "answered", ask'[b].clear
        PROVE  IsAnswer(ask'[b].got, ask'[b].typed)
    <3>1. CASE b = a
      BY <2>3, <2>5, <3>1 DEF n
    <3>2. CASE b # a
      BY <1>0, <1>5, <2>5, <3>2 DEF TypedOK
    <3> QED BY <3>1, <3>2
  <2>6. ASSUME NEW b \in Askers, NEW d \in Askers, b # d, ask'[b].at = "asking", ask'[d].at = "asking", ask'[b].s = ask'[d].s
        PROVE  ~ ask'[b].clear
    <3>1. \A x \in Askers : ask'[x].at = "asking" =>
            ask[x].at = "asking" /\ ask'[x].s = ask[x].s /\ ask'[x].clear = ask[x].clear
      BY <1>1, <1>5, <1>7 DEF n, c
    <3> QED BY <1>0, <2>6, <3>1 DEF TypedOK
  <2> QED BY <2>4, <2>5, <2>6 DEF TypedOK
<1>12. AgentOK'
  <2>1. CASE a = "agent"
    BY <1>0, <1>1, <1>7, <2>1, SameQuestion DEF n, c
  <2>2. CASE a # "agent"
    BY <1>0, <1>1, <1>5, <2>2, TheAskers, ProviderOnly
  <2> QED BY <2>1, <2>2
<1>13. ConfirmedHasThePrompt'
  <2>1. \A b \in Askers : ask'[b].at = "drain" => ask'[b] = ask[b]
    BY <1>1, <1>5, <1>7 DEF n, c
  <2> QED BY <1>0, <1>1, <2>1, NoNewPrompt
<1> QED BY <1>8, <1>9, <1>10, <1>11, <1>12, <1>13 DEF SSHIInv

----------------------------------------------------------------------------
(* Every step. *)

LEMMA readKeeps ==
  ASSUME SSHIInv, NEW s \in Logins, NEW max \in Nat, read(s, max)
  PROVE  SSHIInv'
<1>1. typed' \in Nat
  BY DEF read, SSHIInv, SSHTypeOK
<1>2. CASE Confirms(s)
  BY <1>1, <1>2, ConfirmsKeeps DEF read
<1>3. CASE Leaves(s)
  <2>1. line' = [line EXCEPT ![s] = "closed"] /\ UNCHANGED <<sessions, keys, srv, run, ask, questions, seen>>
    BY <1>3 DEF Leaves
  <2> QED BY <1>1, <2>1, SessionCloses
<1>4. CASE \E k \in Keys : Buffers(s, k)
  BY <1>1, <1>4, BuffersKeeps
<1> QED BY <1>2, <1>3, <1>4 DEF read, Keys

LEMMA DropsKeeps ==
  ASSUME SSHIInv, NEW s \in Logins, Drops(s)
  PROVE  SSHIInv'
<1>1. /\ line' = [line EXCEPT ![s] = "closed"] /\ UNCHANGED <<sessions, keys, srv, run, ask, questions, seen>>
      /\ UNCHANGED typed
  BY DEF Drops
<1>2. typed' \in Nat
  BY <1>1 DEF SSHIInv, SSHTypeOK
<1> QED BY <1>1, <1>2, SessionCloses

LEMMA SSHInitially == SSHInit => SSHIInv
<1> SUFFICES ASSUME SSHInit PROVE SSHIInv
  OBVIOUS
<1>1. /\ line = [s \in Logins |-> "out"] /\ sessions = <<>> /\ keys = [s \in Logins |-> <<>>]
      /\ srv = [released |-> FALSE, stopped |-> FALSE, target |-> Nowhere, signal |-> FALSE]
      /\ ask = [a \in Askers |-> NoPrompt]
      /\ questions = [q \in Questions |-> "none"] /\ seen = {} /\ typed = 0
  BY DEF SSHInit
<1>2. PICK at \in {"hold", "off"} : run = [at |-> at, confirmed |-> Nowhere, console |-> FALSE, list |-> {}]
  <2>1. PICK a, t, l \in BOOLEAN, c \in {"certifies", "refuses", "missing"} :
          run = [at |-> IF Starts(a, PrepareHostKey(t, c), l) THEN "hold" ELSE "off",
                 confirmed |-> Nowhere, console |-> FALSE, list |-> {}]
    BY DEF SSHInit
  <2> DEFINE at == IF Starts(a, PrepareHostKey(t, c), l) THEN "hold" ELSE "off"
  <2>2. at \in {"hold", "off"}
    OBVIOUS
  <2> QED BY <2>1, <2>2
<1>3. /\ DOMAIN run = RunFields /\ run.at = at /\ run.confirmed = Nowhere /\ run.console = FALSE /\ run.list = {}
      /\ DOMAIN srv = SrvFields /\ srv.released = FALSE /\ srv.stopped = FALSE /\ srv.target = Nowhere
  BY <1>1, <1>2 DEF RunFields, SrvFields
<1>4. DOMAIN ask = Askers /\ \A a \in Askers : ask[a].at = "idle"
  BY <1>1 DEF NoPrompt
<1>5. <<>> \in Seq(Keys) /\ <<>> \in Seq(Logins)
  OBVIOUS
<1>6. SSHTypeOK
  BY <1>1, <1>3, <1>5 DEF SSHTypeOK, Lines, RunStages, QuestionStages
<1>7. ServerOK
  BY <1>1, <1>3 DEF ServerOK, Open
<1>8. TargetOK /\ ConfirmedHasThePrompt
  BY <1>3, <1>4 DEF TargetOK, ConfirmedHasThePrompt
<1>9. AsksTypeOK
  BY <1>4 DEF AsksTypeOK, PromptOK, AskStages
<1>10. TypedOK
  BY <1>4 DEF TypedOK
<1>11. AgentOK
  BY <1>1, <1>4, TheAskers DEF AgentOK
<1> QED BY <1>6, <1>7, <1>8, <1>9, <1>10, <1>11 DEF SSHIInv

LEMMA SSHStays ==
  ASSUME SSHIInv, UNCHANGED sshVars
  PROVE  SSHIInv'
<1>0. SSHTypeOK /\ ServerOK /\ TargetOK /\ AsksTypeOK /\ TypedOK /\ AgentOK /\ ConfirmedHasThePrompt
  BY DEF SSHIInv
<1>1. UNCHANGED <<line, sessions, keys, srv, run, ask, questions, seen, typed>>
  BY DEF sshVars
<1>2. SSHTypeOK'
  BY <1>0, <1>1 DEF SSHTypeOK
<1>3. ServerOK' /\ TargetOK'
  BY <1>0, <1>1, ServerStays
<1>4. AsksTypeOK' /\ TypedOK' /\ AgentOK'
  BY <1>0, <1>1, AsksStay, TypedStays, AgentStays
<1>5. ConfirmedHasThePrompt'
  BY <1>0, <1>1, NoNewPrompt
<1> QED BY <1>2, <1>3, <1>4, <1>5 DEF SSHIInv

\* What holds of the sessions, the prompts and the keys, whoever logs in and
\* whatever is typed (server.go, agent.go): the server's list has every session
\* that is in until the stop takes it, the session that confirmed is the target
\* until it leaves, what a prompt has is what the keys it took make, erased and cut
\* at a passphrase's length, and those with the keys that still wait for it are,
\* in order, what was typed to it; and a question that is seen and waits for its
\* first answer is being asked.
THEOREM SSHInductive == SSHSpec => []SSHIInv
<1>1. ASSUME SSHIInv, NEW max \in Nat, SSHNext(Askers, Logins, max)
      PROVE  SSHIInv'
  <2>1. CASE \E s \in Logins : addSession(s) \/ read(s, max) \/ Drops(s) \/ ReaderEnds(s)
    BY <1>1, <2>1, addSessionKeeps, readKeeps, DropsKeeps, ReaderEndsKeeps
  <2>2. CASE ReleaseServer(TRUE) \/ ReleaseServer(FALSE) \/ StopTakes \/ StopCloses \/ EndServer
    BY <1>1, <2>2, ReleaseKeeps, StopKeeps, StopClosesKeeps
  <2>3. CASE \E a \in Askers : Drain(a) \/ TakesKey(a) \/ SessionGone(a)
    BY <1>1, <2>3, DrainKeeps, TakesKeyKeeps, SessionGoneKeeps
  <2>4. CASE Ask \/ Asked \/ Withdrawn \/ askQuestion
    BY <1>1, <2>4, AskKeeps, AskedKeeps, WithdrawnKeeps, askQuestionKeeps
  <2>5. CASE \E q \in Questions : QuestionComes(q) \/ QuestionGoes(q) \/ Tick(q)
    BY <1>1, <2>5, QuestionKeeps, TickKeeps
  <2> QED BY <1>1, <2>1, <2>2, <2>3, <2>4, <2>5 DEF SSHNext
<1>2. SSHIInv /\ [\E max \in Nat : SSHNext(Askers, Logins, max)]_sshVars => SSHIInv'
  BY <1>1, SSHStays
<1> QED BY <1>2, SSHInitially, PTL DEF SSHSpec

\* Over SSH (server.go, agent.go, ReadRawPassphrase): an answer is what was typed to
\* its question, as it was erased and cut at a passphrase's length, the session
\* that confirmed has the prompt while it is in, a question whose session left
\* before any answer was sent is asked again, and the stop leaves no session open;
\* for every number of sessions, questions and keys, and every length.
THEOREM ThePromptsHold == SSHSpec => []PromptsHold
<1>1. ASSUME SSHIInv
      PROVE  PromptsHold
  <2>0. SSHTypeOK /\ ServerOK /\ AsksTypeOK /\ TypedOK /\ AgentOK /\ ConfirmedHasThePrompt
    BY <1>1 DEF SSHIInv
  <2>2. AnswersAsTyped
    BY <2>0 DEF TypedOK, AnswersAsTyped
  <2>3. QuestionsStay
    BY <2>0 DEF AgentOK, QuestionsStay
  <2>4. StopLeavesNone
    BY <2>0 DEF ServerOK, StopLeavesNone
  <2> QED BY <2>0, <2>2, <2>3, <2>4 DEF PromptsHold
<1> QED BY <1>1, SSHInductive, PTL

----------------------------------------------------------------------------
(* The keyslots. *)

HeaderFields == {"keys", "tokens"}
TokenFields == {"keyslots", "recipe", "slot", "obsolete"}
AddFields == {"at", "d", "r", "s", "before", "key"}
ImportFields == {"at", "d", "token"}
RemoveFields == {"at", "jobs", "what", "s"}
KillStages == {"kill", "token", "salt"}

\* A key is a passphrase, or made with a secret there was.
KeyOK(key) == key[1] = "passphrase" \/ (key[1] = "recipe" /\ key[4] \in Nat \ {0})

HeaderTypeOK(h) ==
  /\ DOMAIN h = HeaderFields
  /\ DOMAIN h.keys \subseteq Numbers /\ DOMAIN h.keys # {}
  /\ \A k \in DOMAIN h.keys : KeyOK(h.keys[k])
  /\ \A i \in DOMAIN h.tokens : DOMAIN h.tokens[i] = TokenFields

JobTypeOK(j) == DOMAIN j = {"d", "k", "id"} /\ j.d \in Devices
JobsTypeOK(c) ==
  /\ c.what \in {"remove", "delete"}
  /\ DOMAIN c = RemoveFields \union (IF c.what = "delete" THEN {"cancelled"} ELSE {})
                             \union (IF c.at = "token" THEN {"job"} ELSE {})
  /\ \A j \in c.jobs : JobTypeOK(j)
  /\ c.at = "token" => JobTypeOK(c.job)

CommandTypeOK(c) ==
  \/ c = Idle
  \/ /\ c.at \in {"add", "after"} /\ DOMAIN c = AddFields /\ c.d \in Devices
     /\ c.key[1] = "recipe" /\ c.key[2] = c.r /\ c.key[3] = c.s /\ c.key[4] \in Nat \ {0} /\ c.key[5] = "enrolled"
  \/ /\ c.at = "import" /\ DOMAIN c = ImportFields /\ c.d \in Devices
     /\ DOMAIN c.token = TokenFields /\ ~ c.token.obsolete
  \/ c.at \in KillStages /\ JobsTypeOK(c)

KeyslotTypeOK ==
  /\ DOMAIN header = Devices /\ \A d \in Devices : HeaderTypeOK(header[d])
  /\ DOMAIN command = Commands /\ \A p \in Commands : CommandTypeOK(command[p])
  /\ secrets \in Nat /\ marred \subseteq Devices

\* The passphrase there was first: no token has its keyslot, and no command is
\* about to give it one, or to kill it.
FirstKept(h) ==
  /\ 0 \in DOMAIN h.keys /\ h.keys[0][1] = "passphrase"
  /\ \A i \in DOMAIN h.tokens : 0 \notin h.tokens[i].keyslots
SparesFirst(c, d) ==
  /\ c.at \in {"add", "after"} /\ c.d = d => 0 \in c.before
  /\ c.at = "import" /\ c.d = d => 0 \notin c.token.keyslots
  /\ c.at \in KillStages => \A j \in c.jobs : j.d = d => j.k # 0
OpenerInv ==
  \A d \in Devices : d \in byHand \/ (FirstKept(header[d]) /\ \A p \in Commands : SparesFirst(command[p], d))

\* What a token says of its keyslot.
Fits(key, t) ==
  IF t.obsolete THEN key[1] = "passphrase"
  ELSE key[1] = "recipe" /\ key[2] = t.recipe /\ (Bound(t.recipe) => key[3] = t.slot)

\* A device that is not marred: every token but the one that is left has one
\* keyslot, which it fits, and no two have the same; every keyslot that was
\* enrolled has one, but for the ones that wait for theirs.
HasItsKeyslot(h, i) == \E k \in DOMAIN h.keys : h.tokens[i].keyslots = {k} /\ Fits(h.keys[k], h.tokens[i])
TokensApart(h) ==
  \A i, j \in DOMAIN h.tokens : i # j => h.tokens[i].keyslots \intersect h.tokens[j].keyslots = {}
DeviceIs(h, pending, dropped) ==
  /\ \A k \in DOMAIN h.keys : h.keys[k][1] = "recipe" /\ h.keys[k][5] = "enrolled" => k \in Kiras(h) \/ k \in pending
  /\ \A i \in DOMAIN h.tokens : IF i \in dropped THEN h.tokens[i].keyslots = {} ELSE HasItsKeyslot(h, i)
  /\ TokensApart(h)

\* The keyslots that wait for the command's token, and the token it left.
PendingOf(c, d, h) ==
  CASE c.at = "after" /\ c.d = d -> DOMAIN h.keys \ c.before
    [] c.at = "import" /\ c.d = d -> c.token.keyslots
    [] OTHER -> {}
LeftOf(c, d) == IF c.at = "token" /\ c.job.d = d THEN {c.job.id} ELSE {}

\* What a command knows of a device that is not marred.
AfterOK(c, h) ==
  \E n \in DOMAIN h.keys :
    n \notin c.before /\ DOMAIN h.keys = c.before \union {n} /\ h.keys[n] = c.key /\ n \notin Kiras(h)
ImportOK(c, h) ==
  \E k \in DOMAIN h.keys : c.token.keyslots = {k} /\ k \notin Kiras(h) /\ Fits(h.keys[k], c.token)
JobOK(j, h) == j.k \in Kiras(h) /\ j.id \in TokensOf(h, j.k)
CommandOK(c, hd, m) ==
  /\ c.at = "add" /\ c.d \notin m => c.before = DOMAIN hd[c.d].keys
  /\ c.at = "after" /\ c.d \notin m => AfterOK(c, hd[c.d])
  /\ c.at = "import" /\ c.d \notin m => ImportOK(c, hd[c.d])
  /\ c.at \in KillStages =>
       /\ \A j \in c.jobs : j.d \notin m => JobOK(j, hd[j.d])
       /\ \A i, j \in c.jobs : i.d = j.d /\ i.k = j.k => i = j
CommandFits(c, hd, m) ==
  CommandOK(c, hd, m) /\ \A d \in Devices \ m : DeviceIs(hd[d], PendingOf(c, d, hd[d]), LeftOf(c, d))

\* While a device is not marred, commands run one at a time.
OthersIdle(p) == \A q \in Commands : q # p => command[q] = Idle
TokensInv ==
  marred # Devices =>
    /\ \A p \in Commands : command[p] # Idle => OthersIdle(p)
    /\ \A p \in Commands : OthersIdle(p) => CommandFits(command[p], header, marred)
    /\ Quiet => CommandFits(Idle, header, marred)

KeyslotIInv == KeyslotTypeOK /\ OpenerInv /\ TokensInv

----------------------------------------------------------------------------
(* What cryptsetup does to a header. *)

LEMMA AddedIs ==
  ASSUME NEW h, DOMAIN h = HeaderFields, NEW key, NEW h2 \in AddKey(h, key)
  PROVE  \E n \in Numbers \ DOMAIN h.keys :
           /\ DOMAIN h2 = HeaderFields /\ h2.tokens = h.tokens /\ DOMAIN h2.keys = DOMAIN h.keys \union {n}
           /\ h2.keys[n] = key /\ \A k \in DOMAIN h.keys : h2.keys[k] = h.keys[k]
<1>1. PICK n \in Lowest(DOMAIN h.keys) : h2 = [h EXCEPT !.keys = With(@, n, key)]
  BY DEF AddKey
<1>2. n \in Numbers \ DOMAIN h.keys
  BY DEF Lowest
<1>3. DOMAIN h2 = HeaderFields /\ h2.tokens = h.tokens /\ h2.keys = With(h.keys, n, key)
  BY <1>1 DEF HeaderFields
<1> QED BY <1>2, <1>3 DEF With

LEMMA KilledIs ==
  ASSUME NEW h, NEW k, NEW h2, h2 = KillSlot(h, k), \A i \in DOMAIN h.tokens : DOMAIN h.tokens[i] = TokenFields
  PROVE  /\ DOMAIN h2 = HeaderFields /\ DOMAIN h2.keys = DOMAIN h.keys \ {k} /\ DOMAIN h2.tokens = DOMAIN h.tokens
         /\ \A j \in DOMAIN h.keys : j # k => h2.keys[j] = h.keys[j]
         /\ \A i \in DOMAIN h.tokens :
              /\ DOMAIN h2.tokens[i] = TokenFields /\ h2.tokens[i].keyslots = h.tokens[i].keyslots \ {k}
              /\ h2.tokens[i].recipe = h.tokens[i].recipe /\ h2.tokens[i].slot = h.tokens[i].slot
              /\ h2.tokens[i].obsolete = h.tokens[i].obsolete
<1>1. /\ DOMAIN h2 = HeaderFields /\ h2.keys = WithoutKey(h.keys, k)
      /\ h2.tokens = [i \in DOMAIN h.tokens |-> [h.tokens[i] EXCEPT !.keyslots = @ \ {k}]]
  BY DEF KillSlot, HeaderFields
<1>2. ASSUME NEW i \in DOMAIN h.tokens
      PROVE  /\ DOMAIN h2.tokens[i] = TokenFields /\ h2.tokens[i].keyslots = h.tokens[i].keyslots \ {k}
             /\ h2.tokens[i].recipe = h.tokens[i].recipe /\ h2.tokens[i].slot = h.tokens[i].slot
             /\ h2.tokens[i].obsolete = h.tokens[i].obsolete
  <2>1. h2.tokens[i] = [h.tokens[i] EXCEPT !.keyslots = @ \ {k}] /\ DOMAIN h.tokens[i] = TokenFields
    BY <1>1
  <2> QED BY <2>1 DEF TokenFields
<1> QED BY <1>1, <1>2 DEF WithoutKey

LEMMA ImportedIs ==
  ASSUME NEW h, DOMAIN h = HeaderFields, NEW t, NEW h2 \in ImportToken(h, t)
  PROVE  /\ t.keyslots \subseteq DOMAIN h.keys
         /\ \E n \in Numbers \ DOMAIN h.tokens :
              /\ DOMAIN h2 = HeaderFields /\ h2.keys = h.keys /\ DOMAIN h2.tokens = DOMAIN h.tokens \union {n}
              /\ h2.tokens[n] = t /\ \A i \in DOMAIN h.tokens : h2.tokens[i] = h.tokens[i]
<1>1. /\ t.keyslots \subseteq DOMAIN h.keys
      /\ \E n \in Lowest(DOMAIN h.tokens) : h2 = [h EXCEPT !.tokens = With(@, n, t)]
  BY DEF ImportToken
<1>2. PICK n \in Lowest(DOMAIN h.tokens) : h2 = [h EXCEPT !.tokens = With(@, n, t)]
  BY <1>1
<1>3. n \in Numbers \ DOMAIN h.tokens
  BY DEF Lowest
<1>4. DOMAIN h2 = HeaderFields /\ h2.keys = h.keys /\ h2.tokens = With(h.tokens, n, t)
  BY <1>2 DEF HeaderFields
<1> QED BY <1>1, <1>3, <1>4 DEF With

\* The highest of some keyslots is one of them.
LEMMA HighestIs ==
  ASSUME NEW S \in SUBSET Numbers, S # {}
  PROVE  Max(S) \in S
<1> DEFINE T == {m \in Nat : MaxNumber - m \in S}
<1>1. MaxNumber \in Nat /\ S \subseteq Nat /\ \A x \in S : x <= MaxNumber
  BY KeyslotsAssumption DEF Numbers
<1>2. T \subseteq Nat
  OBVIOUS
<1>3. T # {}
  <2>1. PICK x \in S : TRUE
    OBVIOUS
  <2>2. MaxNumber - x \in Nat /\ MaxNumber - (MaxNumber - x) = x
    BY <1>1
  <2>3. MaxNumber - x \in T
    BY <2>1, <2>2
  <2> QED BY <2>3
<1> HIDE DEF T
<1>4. PICK m \in T : \A y \in T : ~ (<<y, m>> \in OpToRel(<, Nat))
  BY <1>2, <1>3, NatLessThanWellFounded, WFMin
<1>5. m \in Nat /\ MaxNumber - m \in S /\ \A y \in T : ~ (y < m)
  <2>1. m \in Nat /\ MaxNumber - m \in S
    BY DEF T
  <2>2. ASSUME NEW y \in T, y < m
        PROVE  FALSE
    <3>1. y \in Nat
      BY <1>2
    <3>2. <<y, m>> \in OpToRel(<, Nat)
      BY <2>1, <2>2, <3>1 DEF OpToRel
    <3> QED BY <1>4, <3>2
  <2> QED BY <2>1, <2>2
<1>6. \A x \in S : MaxNumber - m >= x
  <2>1. SUFFICES ASSUME NEW x \in S, ~ (MaxNumber - m >= x)
                 PROVE  FALSE
    OBVIOUS
  <2>2. MaxNumber - x \in Nat /\ MaxNumber - (MaxNumber - x) = x /\ MaxNumber - x < m
    BY <1>1, <1>5, <2>1
  <2>3. MaxNumber - x \in T
    BY <2>1, <2>2 DEF T
  <2> QED BY <1>5, <2>2, <2>3
<1> QED BY <1>5, <1>6 DEF Max

----------------------------------------------------------------------------
(* A device whose tokens say what its keyslots are. *)

\* The keyslots of the tokens are there.
LEMMA TokensAreThere ==
  ASSUME NEW h, NEW pending, DeviceIs(h, pending, {}), NEW i \in DOMAIN h.tokens
  PROVE  \E k \in DOMAIN h.keys : h.tokens[i].keyslots = {k} /\ Fits(h.keys[k], h.tokens[i]) /\ k \in Kiras(h)
<1>1. HasItsKeyslot(h, i)
  BY DEF DeviceIs
<1>2. PICK k \in DOMAIN h.keys : h.tokens[i].keyslots = {k} /\ Fits(h.keys[k], h.tokens[i])
  BY <1>1 DEF HasItsKeyslot
<1>3. i \in TokensOf(h, k)
  BY <1>2 DEF TokensOf
<1> QED BY <1>2, <1>3 DEF Kiras

Grown(h, h2, n, key) ==
  /\ n \notin DOMAIN h.keys /\ h2.tokens = h.tokens /\ DOMAIN h2.keys = DOMAIN h.keys \union {n}
  /\ h2.keys[n] = key /\ \A k \in DOMAIN h.keys : h2.keys[k] = h.keys[k]

LEMMA GrownDevice ==
  ASSUME NEW h, NEW h2, NEW n, NEW key, Grown(h, h2, n, key), DeviceIs(h, {}, {})
  PROVE  DeviceIs(h2, {n}, {}) /\ n \notin Kiras(h2) /\ (key[1] = "passphrase" \/ key[5] # "enrolled" => DeviceIs(h2, {}, {}))
<1>1. \A i \in DOMAIN h.tokens : \E k \in DOMAIN h.keys : h.tokens[i].keyslots = {k} /\ Fits(h.keys[k], h.tokens[i])
  BY TokensAreThere
<1>2. \A i \in DOMAIN h2.tokens : HasItsKeyslot(h2, i)
  BY <1>1 DEF HasItsKeyslot, Grown
<1>3. TokensOf(h2, n) = {}
  BY <1>1 DEF TokensOf, Grown
<1>4. \A k \in DOMAIN h.keys : TokensOf(h2, k) = TokensOf(h, k)
  BY DEF TokensOf, Grown
<1>5. TokensApart(h2)
  BY DEF DeviceIs, TokensApart, Grown
<1>6. n \notin Kiras(h2)
  BY <1>3 DEF Kiras
<1>7. ASSUME NEW k \in DOMAIN h2.keys, k # n, h2.keys[k][1] = "recipe", h2.keys[k][5] = "enrolled"
      PROVE  k \in Kiras(h2)
  <2>1. k \in DOMAIN h.keys /\ h2.keys[k] = h.keys[k]
    BY <1>7 DEF Grown
  <2>2. k \in Kiras(h)
    BY <1>7, <2>1 DEF DeviceIs
  <2> QED BY <1>4, <1>7, <2>1, <2>2 DEF Kiras
<1>8. DeviceIs(h2, {n}, {})
  BY <1>2, <1>5, <1>7 DEF DeviceIs
<1>9. ASSUME key[1] = "passphrase" \/ key[5] # "enrolled"
      PROVE  DeviceIs(h2, {}, {})
  <2>1. ~ (h2.keys[n][1] = "recipe" /\ h2.keys[n][5] = "enrolled")
    BY <1>9 DEF Grown
  <2> QED BY <1>2, <1>5, <1>7, <2>1 DEF DeviceIs
<1> QED BY <1>6, <1>8, <1>9

Tokened(h, h2, n, t) ==
  /\ n \notin DOMAIN h.tokens /\ h2.keys = h.keys /\ DOMAIN h2.tokens = DOMAIN h.tokens \union {n}
  /\ h2.tokens[n] = t /\ \A i \in DOMAIN h.tokens : h2.tokens[i] = h.tokens[i]

LEMMA TokenedDevice ==
  ASSUME NEW h, NEW h2, NEW n, NEW t, NEW k \in DOMAIN h.keys, Tokened(h, h2, n, t), DeviceIs(h, {k}, {}),
         t.keyslots = {k}, k \notin Kiras(h), Fits(h.keys[k], t)
  PROVE  DeviceIs(h2, {}, {})
<1>1. \A i \in DOMAIN h.tokens : \E j \in DOMAIN h.keys :
        h.tokens[i].keyslots = {j} /\ Fits(h.keys[j], h.tokens[i]) /\ j \in Kiras(h)
  BY TokensAreThere
<1>2. \A i \in DOMAIN h2.tokens : HasItsKeyslot(h2, i)
  BY <1>1 DEF HasItsKeyslot, Tokened
<1>3. \A i \in DOMAIN h.tokens : k \notin h.tokens[i].keyslots
  BY <1>1
<1>4. TokensApart(h2)
  <2>1. TokensApart(h)
    BY DEF DeviceIs
  <2> QED BY <1>3, <2>1 DEF TokensApart, Tokened
<1>5. \A j \in DOMAIN h.keys : TokensOf(h, j) \subseteq TokensOf(h2, j)
  BY DEF TokensOf, Tokened
<1>6. n \in TokensOf(h2, k)
  BY DEF TokensOf, Tokened
<1>7. ASSUME NEW j \in DOMAIN h2.keys, h2.keys[j][1] = "recipe", h2.keys[j][5] = "enrolled"
      PROVE  j \in Kiras(h2)
  <2>1. j \in DOMAIN h.keys /\ (j \in Kiras(h) \/ j = k)
    BY <1>7 DEF DeviceIs, Tokened
  <2> QED BY <1>5, <1>6, <1>7, <2>1 DEF Kiras
<1> QED BY <1>2, <1>4, <1>7 DEF DeviceIs

WithoutSlot(h, h2, k) ==
  /\ DOMAIN h2.keys = DOMAIN h.keys \ {k} /\ DOMAIN h2.tokens = DOMAIN h.tokens
  /\ \A j \in DOMAIN h.keys : j # k => h2.keys[j] = h.keys[j]
  /\ \A i \in DOMAIN h.tokens :
       /\ h2.tokens[i].keyslots = h.tokens[i].keyslots \ {k}
       /\ h2.tokens[i].recipe = h.tokens[i].recipe /\ h2.tokens[i].slot = h.tokens[i].slot
       /\ h2.tokens[i].obsolete = h.tokens[i].obsolete

LEMMA KilledTokens ==
  ASSUME NEW h, NEW h2, NEW k, WithoutSlot(h, h2, k), NEW j, j # k
  PROVE  TokensOf(h2, j) = TokensOf(h, j)
  BY DEF WithoutSlot, TokensOf

LEMMA KilledDevice ==
  ASSUME NEW h, NEW h2, NEW k, WithoutSlot(h, h2, k), DeviceIs(h, {}, {}), NEW dropped, dropped = TokensOf(h, k), k \in DOMAIN h.keys
  PROVE  DeviceIs(h2, {}, dropped)
<1>1. \A i \in DOMAIN h.tokens : \E j \in DOMAIN h.keys : h.tokens[i].keyslots = {j} /\ Fits(h.keys[j], h.tokens[i])
  BY TokensAreThere
<1>2. ASSUME NEW i \in DOMAIN h2.tokens, i \in dropped
      PROVE  h2.tokens[i].keyslots = {}
  <2>1. i \in DOMAIN h.tokens /\ k \in h.tokens[i].keyslots
    BY <1>2 DEF TokensOf
  <2> QED BY <1>1, <2>1 DEF WithoutSlot
<1>3. ASSUME NEW i \in DOMAIN h2.tokens, i \notin dropped
      PROVE  HasItsKeyslot(h2, i)
  <2>1. i \in DOMAIN h.tokens
    BY DEF WithoutSlot
  <2>2. PICK j \in DOMAIN h.keys : h.tokens[i].keyslots = {j} /\ Fits(h.keys[j], h.tokens[i])
    BY <1>1, <2>1
  <2>3. j # k
    BY <1>3, <2>1, <2>2 DEF TokensOf
  <2>4. j \in DOMAIN h2.keys /\ h2.tokens[i].keyslots = {j} /\ h2.keys[j] = h.keys[j]
    BY <2>1, <2>2, <2>3 DEF WithoutSlot
  <2>5. Fits(h2.keys[j], h2.tokens[i])
    BY <2>1, <2>2, <2>4 DEF Fits, WithoutSlot
  <2> QED BY <2>4, <2>5 DEF HasItsKeyslot
<1>4. TokensApart(h2)
  <2>1. TokensApart(h)
    BY DEF DeviceIs
  <2> QED BY <2>1 DEF TokensApart, WithoutSlot
<1>5. ASSUME NEW j \in DOMAIN h2.keys, h2.keys[j][1] = "recipe", h2.keys[j][5] = "enrolled"
      PROVE  j \in Kiras(h2)
  <2>1. j \in DOMAIN h.keys /\ j # k /\ h2.keys[j] = h.keys[j]
    BY DEF WithoutSlot
  <2>2. j \in Kiras(h)
    BY <1>5, <2>1 DEF DeviceIs
  <2>3. TokensOf(h2, j) = TokensOf(h, j)
    BY <2>1, KilledTokens
  <2> QED BY <1>5, <2>2, <2>3 DEF Kiras
<1> QED BY <1>2, <1>3, <1>4, <1>5 DEF DeviceIs

\* A keyslot has one token.
LEMMA OneToken ==
  ASSUME NEW h, DeviceIs(h, {}, {}), NEW k, NEW i \in TokensOf(h, k)
  PROVE  TokensOf(h, k) = {i}
<1>1. TokensApart(h)
  BY DEF DeviceIs
<1> QED BY <1>1 DEF TokensApart, TokensOf

Untokened(h, h2, n) ==
  /\ h2.keys = h.keys /\ DOMAIN h2.tokens = DOMAIN h.tokens \ {n}
  /\ \A i \in DOMAIN h2.tokens : h2.tokens[i] = h.tokens[i]

LEMMA DroppedDevice ==
  ASSUME NEW h, NEW h2, NEW n, Untokened(h, h2, n), DeviceIs(h, {}, {n})
  PROVE  DeviceIs(h2, {}, {}) /\ \A k : n \notin TokensOf(h, k) /\ TokensOf(h2, k) = TokensOf(h, k)
<1>1. n \in DOMAIN h.tokens => h.tokens[n].keyslots = {}
  BY DEF DeviceIs
<1>2. \A k : n \notin TokensOf(h, k)
  BY <1>1 DEF TokensOf
<1>3. \A k : TokensOf(h2, k) = TokensOf(h, k)
  BY <1>2 DEF TokensOf, Untokened
<1>4. \A i \in DOMAIN h2.tokens : HasItsKeyslot(h2, i)
  BY DEF DeviceIs, Untokened, HasItsKeyslot
<1>5. TokensApart(h2)
  BY DEF DeviceIs, TokensApart, Untokened
<1>6. \A k \in DOMAIN h2.keys : h2.keys[k][1] = "recipe" /\ h2.keys[k][5] = "enrolled" => k \in Kiras(h2)
  BY <1>3 DEF DeviceIs, Kiras, Untokened
<1> QED BY <1>2, <1>3, <1>4, <1>5, <1>6 DEF DeviceIs

----------------------------------------------------------------------------
(* What a step of a command has to show. *)

LEMMA PendingIs ==
  ASSUME NEW c, NEW d, NEW h
  PROVE  /\ c.at = "after" /\ c.d = d => PendingOf(c, d, h) = DOMAIN h.keys \ c.before
         /\ c.at = "import" /\ c.d = d => PendingOf(c, d, h) = c.token.keyslots
         /\ c.at \notin {"after", "import"} \/ c.d # d => PendingOf(c, d, h) = {}
  BY DEF PendingOf

LEMMA PlainFits ==
  ASSUME NEW c, NEW hd, NEW m, c.at \notin {"after", "import", "token"}
  PROVE  CommandFits(c, hd, m) <=> CommandOK(c, hd, m) /\ \A d \in Devices \ m : DeviceIs(hd[d], {}, {})
<1>1. \A d \in Devices : PendingOf(c, d, hd[d]) = {} /\ LeftOf(c, d) = {}
  BY PendingIs DEF LeftOf
<1> QED BY <1>1 DEF CommandFits

LEMMA IdleFits ==
  ASSUME NEW hd, NEW m
  PROVE  CommandFits(Idle, hd, m) <=> \A d \in Devices \ m : DeviceIs(hd[d], {}, {})
<1>1. Idle.at = "idle"
  BY DEF Idle
<1>2. CommandOK(Idle, hd, m)
  BY <1>1 DEF CommandOK, KillStages
<1> QED BY <1>1, <1>2, PlainFits

LEMMA Running ==
  ASSUME TokensInv, marred # Devices, NEW p \in Commands, command[p] # Idle
  PROVE  OthersIdle(p) /\ CommandFits(command[p], header, marred)
  BY DEF TokensInv

LEMMA NotIdle ==
  ASSUME NEW c, c.at # "idle"
  PROVE  c # Idle
  BY DEF Idle

LEMMA CommandSet ==
  ASSUME DOMAIN command = Commands, NEW p \in Commands, NEW c, command' = [command EXCEPT ![p] = c]
  PROVE  DOMAIN command' = Commands /\ command'[p] = c /\ \A q \in Commands : q # p => command'[q] = command[q]
  OBVIOUS

LEMMA OneTypes ==
  ASSUME KeyslotTypeOK, NEW p \in Commands, NEW c, command' = [command EXCEPT ![p] = c], CommandTypeOK(c),
         DOMAIN header' = Devices, \A d \in Devices : HeaderTypeOK(header'[d]), secrets' \in Nat, marred' \subseteq Devices
  PROVE  KeyslotTypeOK'
<1>1. DOMAIN command' = Commands /\ command'[p] = c /\ \A q \in Commands : q # p => command'[q] = command[q]
  BY CommandSet DEF KeyslotTypeOK
<1>2. \A q \in Commands : CommandTypeOK(command'[q])
  BY <1>1 DEF KeyslotTypeOK
<1> QED BY <1>1, <1>2 DEF KeyslotTypeOK

LEMMA OneOpens ==
  ASSUME KeyslotTypeOK, OpenerInv, NEW p \in Commands, NEW c, command' = [command EXCEPT ![p] = c], UNCHANGED byHand,
         \A d \in Devices \ byHand : FirstKept(header'[d]) /\ SparesFirst(c, d)
  PROVE  OpenerInv'
<1>1. DOMAIN command' = Commands /\ command'[p] = c /\ \A q \in Commands : q # p => command'[q] = command[q]
  BY CommandSet DEF KeyslotTypeOK
<1>2. ASSUME NEW d \in Devices \ byHand
      PROVE  FirstKept(header'[d]) /\ \A q \in Commands : SparesFirst(command'[q], d)
  <2>1. \A q \in Commands : SparesFirst(command[q], d)
    BY DEF OpenerInv
  <2> QED BY <1>1, <2>1
<1> QED BY <1>2 DEF OpenerInv

LEMMA OneFits ==
  ASSUME KeyslotTypeOK, NEW p \in Commands, NEW c, command' = [command EXCEPT ![p] = c],
         marred' # Devices => OthersIdle(p) /\ CommandFits(c, header', marred')
  PROVE  TokensInv'
<1>1. DOMAIN command' = Commands /\ command'[p] = c /\ \A q \in Commands : q # p => command'[q] = command[q]
  BY CommandSet DEF KeyslotTypeOK
<1> SUFFICES ASSUME marred' # Devices
             PROVE  /\ \A q \in Commands : command'[q] # Idle => OthersIdle(q)'
                    /\ \A q \in Commands : OthersIdle(q)' => CommandFits(command'[q], header', marred')
                    /\ Quiet' => CommandFits(Idle, header', marred')
  BY DEF TokensInv
<1>2. \A q \in Commands : q # p => command'[q] = Idle
  BY <1>1 DEF OthersIdle
<1>3. \A q \in Commands : command'[q] # Idle => OthersIdle(q)'
  BY <1>2 DEF OthersIdle
<1>4. ASSUME NEW q \in Commands, OthersIdle(q)'
      PROVE  CommandFits(command'[q], header', marred')
  <2>1. q # p => command'[q] = c
    BY <1>1, <1>2, <1>4 DEF OthersIdle
  <2> QED BY <1>1, <2>1
<1>5. Quiet' => CommandFits(Idle, header', marred')
  BY <1>1 DEF Quiet
<1> QED BY <1>3, <1>4, <1>5

\* A command begins.
LEMMA CommandBegins ==
  ASSUME KeyslotIInv, NEW p \in Commands, NEW c, Begin(p, c), UNCHANGED <<header, byHand>>, secrets' \in Nat,
         CommandTypeOK(c), \A d \in Devices \ byHand : SparesFirst(c, d),
         (\A d \in Devices \ marred : DeviceIs(header[d], {}, {})) => CommandFits(c, header, marred)
  PROVE  KeyslotIInv'
<1>0. KeyslotTypeOK /\ OpenerInv /\ TokensInv
  BY DEF KeyslotIInv
<1>1. /\ command[p] = Idle /\ command' = [command EXCEPT ![p] = c]
      /\ marred' = IF OtherCommands(p) = {} THEN marred ELSE Devices
  BY DEF Begin
<1>2. KeyslotTypeOK'
  <2>1. DOMAIN header' = Devices /\ (\A d \in Devices : HeaderTypeOK(header'[d])) /\ marred' \subseteq Devices
    BY <1>0, <1>1 DEF KeyslotTypeOK
  <2> QED BY <1>0, <1>1, <2>1, OneTypes
<1>3. OpenerInv'
  <2>1. \A d \in Devices \ byHand : FirstKept(header'[d])
    BY <1>0 DEF OpenerInv
  <2> QED BY <1>0, <1>1, <2>1, OneOpens
<1>4. ASSUME marred' # Devices
      PROVE  OthersIdle(p) /\ CommandFits(c, header', marred')
  <2>1. marred' = marred /\ OtherCommands(p) = {}
    BY <1>1, <1>4
  <2>2. OthersIdle(p)
    BY <2>1 DEF OtherCommands, OthersIdle
  <2>3. Quiet
    BY <1>1, <2>2 DEF OthersIdle, Quiet
  <2>4. \A d \in Devices \ marred : DeviceIs(header[d], {}, {})
    BY <1>0, <1>4, <2>1, <2>3, IdleFits DEF TokensInv
  <2> QED BY <2>1, <2>2, <2>4
<1>5. TokensInv'
  BY <1>0, <1>1, <1>4, OneFits
<1> QED BY <1>2, <1>3, <1>5 DEF KeyslotIInv

----------------------------------------------------------------------------
(* The commands begin. *)

LEMMA LuksEnrolKeeps ==
  ASSUME KeyslotIInv, NEW p \in Commands, NEW d \in Devices, NEW r, NEW s, LuksEnrol(p, d, r, s)
  PROVE  KeyslotIInv'
<1>0. KeyslotTypeOK /\ OpenerInv /\ TokensInv
  BY DEF KeyslotIInv
<1> DEFINE key == MadeWith(r, s, secrets + 1, "enrolled")
           c == [at |-> "add", d |-> d, r |-> r, s |-> s, before |-> DOMAIN header[d].keys, key |-> key]
<1>1. Begin(p, c) /\ UNCHANGED <<header, byHand>> /\ secrets' = secrets + 1
  BY DEF LuksEnrol
<1>2. /\ DOMAIN c = AddFields /\ c.at = "add" /\ c.d = d /\ c.r = r /\ c.s = s /\ c.before = DOMAIN header[d].keys
      /\ c.key = key
  BY DEF AddFields
<1>3. key[1] = "recipe" /\ key[2] = r /\ key[3] = s /\ key[4] = secrets + 1 /\ key[5] = "enrolled"
  BY DEF MadeWith
<1>4. secrets + 1 \in Nat \ {0}
  BY <1>0 DEF KeyslotTypeOK
<1> HIDE DEF c, key
<1>5. CommandTypeOK(c)
  BY <1>2, <1>3, <1>4 DEF CommandTypeOK
<1>6. \A x \in Devices \ byHand : SparesFirst(c, x)
  <2>1. \A x \in Devices \ byHand : 0 \in DOMAIN header[x].keys
    BY <1>0 DEF OpenerInv, FirstKept
  <2> QED BY <1>2, <2>1 DEF SparesFirst, KillStages
<1>7. CommandOK(c, header, marred)
  BY <1>2 DEF CommandOK, KillStages
<1>8. (\A x \in Devices \ marred : DeviceIs(header[x], {}, {})) => CommandFits(c, header, marred)
  BY <1>2, <1>7, PlainFits
<1> QED BY <1>1, <1>4, <1>5, <1>6, <1>8, CommandBegins

LEMMA LuksMarkKeeps ==
  ASSUME KeyslotIInv, NEW p \in Commands, NEW d \in Devices, NEW k, NEW r, NEW s, LuksMark(p, d, k, r, s)
  PROVE  KeyslotIInv'
<1>0. KeyslotTypeOK /\ OpenerInv /\ TokensInv
  BY DEF KeyslotIInv
<1> DEFINE t == Token(r, k, s)
           c == [at |-> "import", d |-> d, token |-> t]
           h == header[d]
<1>1. /\ Begin(p, c) /\ UNCHANGED <<header, byHand, secrets>> /\ k \in DOMAIN h.keys /\ k \notin Kiras(h)
      /\ \E n \in 1 .. MaxSecrets : h.keys[k] = MadeWith(r, s, n, "by hand")
  BY DEF LuksMark
<1>2. h.keys[k][1] = "recipe" /\ h.keys[k][2] = r /\ h.keys[k][3] = s
  <2>1. PICK n \in 1 .. MaxSecrets : h.keys[k] = MadeWith(r, s, n, "by hand")
    BY <1>1
  <2> DEFINE key == h.keys[k]
  <2>2. key = <<"recipe", r, s, n, "by hand">>
    BY <2>1 DEF MadeWith
  <2> HIDE DEF key
  <2>3. key[1] = "recipe" /\ key[2] = r /\ key[3] = s
    BY <2>2
  <2> QED BY <2>3 DEF key
<1>3. /\ DOMAIN t = TokenFields /\ t.keyslots = {k} /\ t.recipe = r /\ t.obsolete = FALSE /\ (Bound(r) => t.slot = s)
  BY DEF Token, TokenFields
<1>4. Fits(h.keys[k], t)
  BY <1>2, <1>3 DEF Fits
<1>5. DOMAIN c = ImportFields /\ c.at = "import" /\ c.d = d /\ c.token = t
  BY DEF ImportFields
<1> HIDE DEF c, t
<1>6. CommandTypeOK(c)
  BY <1>3, <1>5 DEF CommandTypeOK
<1>7. \A x \in Devices \ byHand : SparesFirst(c, x)
  <2>1. d \notin byHand => h.keys[0][1] = "passphrase"
    BY <1>0 DEF OpenerInv, FirstKept
  <2>2. d \notin byHand => k # 0
    BY <1>2, <2>1
  <2> QED BY <1>3, <1>5, <2>2 DEF SparesFirst, KillStages
<1>8. CommandOK(c, header, marred)
  <2>1. ImportOK(c, h)
    BY <1>1, <1>3, <1>4, <1>5 DEF ImportOK
  <2> QED BY <1>5, <2>1 DEF CommandOK, KillStages
<1>9. ASSUME \A x \in Devices \ marred : DeviceIs(header[x], {}, {})
      PROVE  CommandFits(c, header, marred)
  <2>1. ASSUME NEW x \in Devices \ marred
        PROVE  DeviceIs(header[x], PendingOf(c, x, header[x]), LeftOf(c, x))
    <3>1. LeftOf(c, x) = {}
      BY <1>5 DEF LeftOf
    <3>2. DeviceIs(header[x], {}, {})
      BY <1>9, <2>1
    <3> QED BY <3>1, <3>2 DEF DeviceIs
  <2> QED BY <1>8, <2>1 DEF CommandFits
<1>10. secrets' \in Nat
  BY <1>0, <1>1 DEF KeyslotTypeOK
<1> QED BY <1>1, <1>6, <1>7, <1>9, <1>10, CommandBegins

\* What is to be killed, as the header is.
LEMMA JobIs ==
  ASSUME NEW d, NEW k \in Kiras(header[d])
  PROVE  /\ DOMAIN Job(d, k) = {"d", "k", "id"} /\ Job(d, k).d = d /\ Job(d, k).k = k
         /\ JobOK(Job(d, k), header[d])
<1>1. k \in DOMAIN header[d].keys /\ TokensOf(header[d], k) # {}
  BY DEF Kiras
<1>2. KeyslotsOf(header[d])[k] \in TokensOf(header[d], k)
  BY <1>1 DEF KeyslotsOf
<1>3. DOMAIN Job(d, k) = {"d", "k", "id"} /\ Job(d, k).d = d /\ Job(d, k).k = k /\ Job(d, k).id = KeyslotsOf(header[d])[k]
  BY DEF Job
<1> QED BY <1>2, <1>3 DEF JobOK

LEMMA KiraIsNotFirst ==
  ASSUME NEW h, FirstKept(h), NEW k \in Kiras(h)
  PROVE  k # 0
  BY DEF FirstKept, Kiras, TokensOf

LEMMA KillsBegin ==
  ASSUME KeyslotIInv, NEW p \in Commands, NEW c, Begin(p, c), UNCHANGED <<header, secrets, byHand>>,
         c.at = "kill", JobsTypeOK(c),
         \A j \in c.jobs : j.k \in Kiras(header[j.d]) /\ j = Job(j.d, j.k)
  PROVE  KeyslotIInv'
<1>0. KeyslotTypeOK /\ OpenerInv /\ TokensInv
  BY DEF KeyslotIInv
<1>1. CommandTypeOK(c)
  BY DEF CommandTypeOK, KillStages
<1>2. \A d \in Devices \ byHand : SparesFirst(c, d)
  <2>1. SUFFICES ASSUME NEW d \in Devices \ byHand, NEW j \in c.jobs, j.d = d
                 PROVE  j.k # 0
    BY DEF SparesFirst
  <2>2. FirstKept(header[d])
    BY <1>0 DEF OpenerInv
  <2> QED BY <2>1, <2>2, KiraIsNotFirst
<1>3. CommandOK(c, header, marred)
  <2>1. \A j \in c.jobs : JobOK(j, header[j.d])
    BY JobIs
  <2>2. \A i, j \in c.jobs : i.d = j.d /\ i.k = j.k => i = j
    OBVIOUS
  <2> QED BY <2>1, <2>2 DEF CommandOK
<1>4. (\A x \in Devices \ marred : DeviceIs(header[x], {}, {})) => CommandFits(c, header, marred)
  BY <1>3, PlainFits
<1>5. secrets' \in Nat
  BY <1>0 DEF KeyslotTypeOK
<1> QED BY <1>1, <1>2, <1>4, <1>5, CommandBegins

LEMMA LuksRemoveKeeps ==
  ASSUME KeyslotIInv, NEW p \in Commands, NEW d \in Devices, NEW k, LuksRemove(p, d, k)
  PROVE  KeyslotIInv'
<1>1. PICK s : Begin(p, [at |-> "kill", jobs |-> {Job(d, k)}, what |-> "remove", s |-> s])
  BY DEF LuksRemove
<1> DEFINE c == [at |-> "kill", jobs |-> {Job(d, k)}, what |-> "remove", s |-> s]
<1>2. UNCHANGED <<header, secrets, byHand>> /\ k \in Kiras(header[d])
  BY DEF LuksRemove
<1>3. DOMAIN c = RemoveFields /\ c.at = "kill" /\ c.jobs = {Job(d, k)} /\ c.what = "remove"
  BY DEF RemoveFields
<1>4. DOMAIN Job(d, k) = {"d", "k", "id"} /\ Job(d, k).d = d /\ Job(d, k).k = k
  BY <1>2, JobIs
<1>5. Begin(p, c)
  BY <1>1
<1> HIDE DEF c
<1>6. JobsTypeOK(c)
  BY <1>3, <1>4 DEF JobsTypeOK, JobTypeOK
<1>7. \A j \in c.jobs : j.k \in Kiras(header[j.d]) /\ j = Job(j.d, j.k)
  BY <1>2, <1>3, <1>4
<1> QED BY <1>2, <1>3, <1>5, <1>6, <1>7, KillsBegin

LEMMA DeleteSlotKeeps ==
  ASSUME KeyslotIInv, NEW p \in Commands, NEW s, DeleteSlot(p, s)
  PROVE  KeyslotIInv'
<1> DEFINE jobs == UNION {{Job(d, k) : k \in BoundKeyslots(d, s)} :
                            d \in {e \in Devices : BoundKeyslots(e, s) # DOMAIN header[e].keys}}
           c == [at |-> "kill", what |-> "delete", s |-> s, cancelled |-> FALSE, jobs |-> jobs]
<1>1. Begin(p, c) /\ UNCHANGED <<header, secrets, byHand>>
  BY DEF DeleteSlot
<1>2. DOMAIN c = RemoveFields \union {"cancelled"} /\ c.at = "kill" /\ c.jobs = jobs /\ c.what = "delete"
  BY DEF RemoveFields
<1>3. \A j \in jobs : \E d \in Devices : \E k \in Kiras(header[d]) : j = Job(d, k)
  BY DEF BoundKeyslots
<1> HIDE DEF c, jobs
<1>4. ASSUME NEW j \in jobs
      PROVE  JobTypeOK(j) /\ j.k \in Kiras(header[j.d]) /\ j = Job(j.d, j.k)
  <2>0. PICK d \in Devices : \E k \in Kiras(header[d]) : j = Job(d, k)
    BY <1>3
  <2>1. PICK k \in Kiras(header[d]) : j = Job(d, k)
    BY <2>0
  <2>2. DOMAIN j = {"d", "k", "id"} /\ j.d = d /\ j.k = k
    BY <2>1, JobIs
  <2> QED BY <2>1, <2>2 DEF JobTypeOK
<1>5. JobsTypeOK(c)
  BY <1>2, <1>4 DEF JobsTypeOK
<1> QED BY <1>1, <1>2, <1>4, <1>5, KillsBegin

----------------------------------------------------------------------------
(* The commands go on. *)

LEMMA HeaderSet ==
  ASSUME KeyslotTypeOK, NEW d \in Devices, NEW h, header' = [header EXCEPT ![d] = h]
  PROVE  DOMAIN header' = Devices /\ header'[d] = h /\ \A x \in Devices : x # d => header'[x] = header[x]
  BY DEF KeyslotTypeOK

\* The header is as it was.
LEMMA HeaderStays ==
  ASSUME KeyslotTypeOK, OpenerInv, UNCHANGED header
  PROVE  /\ DOMAIN header' = Devices /\ \A d \in Devices : HeaderTypeOK(header'[d])
         /\ \A d \in Devices \ byHand : FirstKept(header'[d])
  BY DEF KeyslotTypeOK, OpenerInv

LEMMA IdleIs == CommandTypeOK(Idle) /\ \A d : SparesFirst(Idle, d)
<1>1. Idle.at = "idle"
  BY DEF Idle
<1> QED BY <1>1 DEF CommandTypeOK, SparesFirst, KillStages

\* A command is over, and left nothing behind.
LEMMA EndsKeep ==
  ASSUME KeyslotIInv, NEW p \in Commands, command[p].at \notin {"idle", "after", "import", "token"}, End(p),
         UNCHANGED <<header, secrets>>
  PROVE  KeyslotIInv'
<1>0. KeyslotTypeOK /\ OpenerInv /\ TokensInv
  BY DEF KeyslotIInv
<1>1. command' = [command EXCEPT ![p] = Idle] /\ UNCHANGED <<marred, byHand>> /\ secrets' \in Nat /\ marred' \subseteq Devices
  BY <1>0 DEF End, Go, KeyslotTypeOK
<1>2. KeyslotTypeOK' /\ OpenerInv'
  BY <1>0, <1>1, HeaderStays, IdleIs, OneTypes, OneOpens
<1>3. ASSUME marred' # Devices
      PROVE  OthersIdle(p) /\ CommandFits(Idle, header', marred')
  <2>1. command[p] # Idle
    BY NotIdle
  <2>2. OthersIdle(p) /\ CommandFits(command[p], header, marred)
    BY <1>0, <1>1, <1>3, <2>1, Running
  <2> QED BY <1>1, <2>2, PlainFits, IdleFits
<1>4. TokensInv'
  BY <1>0, <1>1, <1>3, OneFits
<1> QED BY <1>2, <1>4 DEF KeyslotIInv

LEMMA GrownTypes ==
  ASSUME NEW h, HeaderTypeOK(h), NEW h2, NEW key, KeyOK(key), h2 \in AddKey(h, key)
  PROVE  /\ HeaderTypeOK(h2) /\ (FirstKept(h) => FirstKept(h2))
         /\ \E n \in Numbers : Grown(h, h2, n, key)
<1>1. PICK n \in Numbers \ DOMAIN h.keys :
        /\ DOMAIN h2 = HeaderFields /\ h2.tokens = h.tokens /\ DOMAIN h2.keys = DOMAIN h.keys \union {n}
        /\ h2.keys[n] = key /\ \A k \in DOMAIN h.keys : h2.keys[k] = h.keys[k]
  BY AddedIs DEF HeaderTypeOK
<1>2. HeaderTypeOK(h2)
  BY <1>1 DEF HeaderTypeOK
<1>3. FirstKept(h) => FirstKept(h2)
  BY <1>1 DEF FirstKept
<1>4. Grown(h, h2, n, key)
  BY <1>1 DEF Grown
<1> QED BY <1>2, <1>3, <1>4

LEMMA AddsKeyslotKeeps ==
  ASSUME KeyslotIInv, NEW p \in Commands, AddsKeyslot(p)
  PROVE  KeyslotIInv'
<1>0. KeyslotTypeOK /\ OpenerInv /\ TokensInv
  BY DEF KeyslotIInv
<1> DEFINE c == command[p]
           h == header[c.d]
<1>1. c.at = "add" /\ UNCHANGED secrets
  BY DEF AddsKeyslot
<1>2. /\ DOMAIN c = AddFields /\ c.d \in Devices /\ c.key[1] = "recipe" /\ c.key[2] = c.r /\ c.key[3] = c.s
      /\ c.key[4] \in Nat \ {0} /\ c.key[5] = "enrolled"
  <2>1. CommandTypeOK(c) /\ c # Idle
    BY <1>0, <1>1, NotIdle DEF KeyslotTypeOK
  <2> QED BY <1>1, <2>1 DEF CommandTypeOK, KillStages
<1>3. CASE End(p) /\ UNCHANGED header
  BY <1>1, <1>3, EndsKeep
<1>4. ASSUME NEW h2 \in AddKey(h, c.key), Change(c.d, h2), Go(p, [c EXCEPT !.at = "after"])
      PROVE  KeyslotIInv'
  <2> DEFINE c2 == [c EXCEPT !.at = "after"]
  <2>1. /\ DOMAIN c2 = AddFields /\ c2.at = "after" /\ c2.d = c.d /\ c2.r = c.r /\ c2.s = c.s /\ c2.before = c.before
        /\ c2.key = c.key
    BY <1>2 DEF AddFields
  <2>2. command' = [command EXCEPT ![p] = c2] /\ UNCHANGED <<marred, byHand>> /\ header' = [header EXCEPT ![c.d] = h2]
    BY <1>4 DEF Go, Change
  <2>3. DOMAIN header' = Devices /\ header'[c.d] = h2 /\ \A x \in Devices : x # c.d => header'[x] = header[x]
    BY <1>0, <1>2, <2>2, HeaderSet
  <2>4. KeyOK(c.key) /\ HeaderTypeOK(h)
    BY <1>0, <1>2 DEF KeyOK, KeyslotTypeOK
  <2>5. HeaderTypeOK(h2) /\ (FirstKept(h) => FirstKept(h2)) /\ \E n \in Numbers : Grown(h, h2, n, c.key)
    BY <1>4, <2>4, GrownTypes
  <2> HIDE DEF c2
  <2>6. KeyslotTypeOK'
    <3>1. CommandTypeOK(c2)
      BY <1>2, <2>1 DEF CommandTypeOK
    <3>2. \A d \in Devices : HeaderTypeOK(header'[d])
      BY <1>0, <2>3, <2>5 DEF KeyslotTypeOK
    <3>3. secrets' \in Nat /\ marred' \subseteq Devices
      BY <1>0, <1>1, <2>2 DEF KeyslotTypeOK
    <3> QED BY <1>0, <2>2, <2>3, <3>1, <3>2, <3>3, OneTypes
  <2>7. OpenerInv'
    <3>1. ASSUME NEW d \in Devices \ byHand
          PROVE  FirstKept(header'[d]) /\ SparesFirst(c2, d)
      <4>1. FirstKept(header[d]) /\ SparesFirst(c, d)
        BY <1>0 DEF OpenerInv
      <4>2. FirstKept(header'[d])
        BY <2>3, <2>5, <4>1
      <4>3. SparesFirst(c2, d)
        BY <1>1, <2>1, <4>1 DEF SparesFirst, KillStages
      <4> QED BY <4>2, <4>3
    <3> QED BY <1>0, <2>2, <3>1, OneOpens
  <2>8. ASSUME marred' # Devices
        PROVE  OthersIdle(p) /\ CommandFits(c2, header', marred')
    <3>1. OthersIdle(p) /\ CommandFits(c, header, marred)
      BY <1>0, <1>1, <2>2, <2>8, NotIdle, Running
    <3>2. CommandOK(c, header, marred) /\ \A d \in Devices \ marred : DeviceIs(header[d], {}, {})
      BY <1>1, <3>1, PlainFits
    <3>3. PICK n \in Numbers : Grown(h, h2, n, c.key)
      BY <2>5
    <3>4. ASSUME c.d \notin marred
          PROVE  /\ DeviceIs(h2, {n}, {}) /\ n \notin Kiras(h2) /\ n \notin c.before
                 /\ DOMAIN h2.keys = c.before \union {n} /\ h2.keys[n] = c.key
      <4>1. c.before = DOMAIN h.keys
        BY <1>1, <3>2, <3>4 DEF CommandOK
      <4>2. DeviceIs(h, {}, {})
        BY <1>2, <3>2, <3>4
      <4>3. DeviceIs(h2, {n}, {}) /\ n \notin Kiras(h2)
        BY <3>3, <4>2, GrownDevice
      <4> QED BY <3>3, <4>1, <4>3 DEF Grown
    <3>5. CommandOK(c2, header', marred')
      <4>1. c.d \notin marred => AfterOK(c2, h2)
        BY <2>1, <3>4 DEF AfterOK
      <4> QED BY <2>1, <2>2, <2>3, <4>1 DEF CommandOK, KillStages
    <3>6. ASSUME NEW d \in Devices \ marred'
          PROVE  DeviceIs(header'[d], PendingOf(c2, d, header'[d]), LeftOf(c2, d))
      <4>1. LeftOf(c2, d) = {}
        BY <2>1 DEF LeftOf
      <4>2. CASE d = c.d
        <5>1. PendingOf(c2, d, h2) = {n}
          BY <2>1, <2>2, <3>4, <3>6, <4>2, PendingIs
        <5> QED BY <2>2, <2>3, <3>4, <3>6, <4>1, <4>2, <5>1
      <4>3. CASE d # c.d
        <5>1. PendingOf(c2, d, header'[d]) = {}
          BY <2>1, <4>3, PendingIs
        <5> QED BY <2>2, <2>3, <3>2, <3>6, <4>1, <4>3, <5>1
      <4> QED BY <4>2, <4>3
    <3> QED BY <3>1, <3>5, <3>6 DEF CommandFits
  <2>9. TokensInv'
    BY <1>0, <2>2, <2>8, OneFits
  <2> QED BY <2>6, <2>7, <2>9 DEF KeyslotIInv
<1> QED BY <1>3, <1>4 DEF AddsKeyslot

LEMMA ReadsAfterKeeps ==
  ASSUME KeyslotIInv, NEW p \in Commands, ReadsAfter(p)
  PROVE  KeyslotIInv'
<1>0. KeyslotTypeOK /\ OpenerInv /\ TokensInv
  BY DEF KeyslotIInv
<1> DEFINE c == command[p]
           h == header[c.d]
           added == DOMAIN h.keys \ c.before
           t == Token(c.r, newSlot(p), c.s)
           c2 == IF added = {} THEN Idle ELSE [at |-> "import", d |-> c.d, token |-> t]
<1>1. c.at = "after" /\ UNCHANGED <<secrets, header>>
  BY DEF ReadsAfter
<1>2. command' = [command EXCEPT ![p] = c2] /\ UNCHANGED <<marred, byHand>>
  BY DEF ReadsAfter, End, Go
<1>3. /\ c.d \in Devices /\ c.key[1] = "recipe" /\ c.key[2] = c.r /\ c.key[3] = c.s
  <2>1. CommandTypeOK(c) /\ c # Idle
    BY <1>0, <1>1, NotIdle DEF KeyslotTypeOK
  <2> QED BY <1>1, <2>1 DEF CommandTypeOK, KillStages
<1>4. added # {} => newSlot(p) \in added
  <2>1. added \subseteq Numbers
    BY <1>0, <1>3 DEF KeyslotTypeOK, HeaderTypeOK
  <2> QED BY <2>1, HighestIs DEF newSlot
<1>5. \/ added = {} /\ c2 = Idle
      \/ /\ added # {} /\ DOMAIN c2 = ImportFields /\ c2.at = "import" /\ c2.d = c.d /\ c2.token = t
  BY DEF ImportFields
<1>6. /\ DOMAIN t = TokenFields /\ t.keyslots = {newSlot(p)} /\ t.recipe = c.r /\ t.obsolete = FALSE
      /\ Bound(c.r) => t.slot = c.s
  BY DEF Token, TokenFields
<1> HIDE DEF c2, t
<1>7. KeyslotTypeOK'
  <2>1. CommandTypeOK(c2)
    <3>1. CASE c2 = Idle
      BY <3>1, IdleIs
    <3>2. CASE c2 # Idle
      BY <1>3, <1>5, <1>6, <3>2 DEF CommandTypeOK
    <3> QED BY <3>1, <3>2
  <2>2. secrets' \in Nat /\ marred' \subseteq Devices
    BY <1>0, <1>1, <1>2 DEF KeyslotTypeOK
  <2> QED BY <1>0, <1>1, <1>2, <2>1, <2>2, HeaderStays, OneTypes
<1>8. OpenerInv'
  <2>1. ASSUME NEW d \in Devices \ byHand
        PROVE  SparesFirst(c2, d)
    <3>1. SparesFirst(c, d)
      BY <1>0 DEF OpenerInv
    <3>2. CASE c2 = Idle
      BY <3>2, IdleIs
    <3>3. CASE c2 # Idle
      <4>1. c.d = d => 0 \notin added
        BY <1>1, <3>1 DEF SparesFirst
      <4> QED BY <1>4, <1>5, <1>6, <3>3, <4>1 DEF SparesFirst, KillStages
    <3> QED BY <3>2, <3>3
  <2> QED BY <1>0, <1>1, <1>2, <2>1, HeaderStays, OneOpens
<1>9. ASSUME marred' # Devices
      PROVE  OthersIdle(p) /\ CommandFits(c2, header', marred')
  <2>1. OthersIdle(p) /\ CommandFits(c, header, marred)
    BY <1>0, <1>1, <1>2, <1>9, NotIdle, Running
  <2>2. /\ CommandOK(c, header, marred)
        /\ \A d \in Devices \ marred : DeviceIs(header[d], PendingOf(c, d, header[d]), LeftOf(c, d))
    BY <2>1 DEF CommandFits
  <2>3. \A d \in Devices : LeftOf(c, d) = {} /\ LeftOf(c2, d) = {}
    BY <1>1, <1>5, IdleIs DEF LeftOf, Idle
  <2>4. ASSUME c.d \notin marred
        PROVE  \E n \in DOMAIN h.keys : added = {n} /\ newSlot(p) = n /\ h.keys[n] = c.key /\ n \notin Kiras(h)
    <3>1. AfterOK(c, h)
      BY <1>1, <2>2, <2>4 DEF CommandOK
    <3>2. PICK n \in DOMAIN h.keys :
            n \notin c.before /\ DOMAIN h.keys = c.before \union {n} /\ h.keys[n] = c.key /\ n \notin Kiras(h)
      BY <3>1 DEF AfterOK
    <3>3. added = {n}
      BY <3>2
    <3> QED BY <1>4, <3>2, <3>3
  <2>5. CommandOK(c2, header', marred')
    <3>1. CASE c2 = Idle
      BY <3>1 DEF CommandOK, Idle, KillStages
    <3>2. CASE c2 # Idle
      <4>1. ASSUME c.d \notin marred
            PROVE  ImportOK(c2, h)
        <5>1. PICK n \in DOMAIN h.keys : added = {n} /\ newSlot(p) = n /\ h.keys[n] = c.key /\ n \notin Kiras(h)
          BY <2>4, <4>1
        <5>2. Fits(h.keys[n], t)
          BY <1>3, <1>6, <5>1 DEF Fits
        <5>3. c2.token.keyslots = {n}
          BY <1>5, <1>6, <3>2, <5>1
        <5>4. c2.token = t
          BY <1>5, <3>2
        <5> QED BY <5>1, <5>2, <5>3, <5>4 DEF ImportOK
      <4> QED BY <1>1, <1>2, <1>5, <3>2, <4>1 DEF CommandOK, KillStages
    <3> QED BY <3>1, <3>2
  <2>6. ASSUME NEW d \in Devices \ marred
        PROVE  PendingOf(c2, d, header[d]) = PendingOf(c, d, header[d])
    <3>1. CASE d # c.d
      <4>1. c2.at \notin {"after", "import"} \/ c2.d # d
        BY <1>5, <3>1 DEF Idle
      <4> QED BY <3>1, <4>1, PendingIs
    <3>2. CASE d = c.d
      <4>1. PICK n \in DOMAIN h.keys : added = {n} /\ newSlot(p) = n
        BY <2>4, <2>6, <3>2
      <4>2. c2.at = "import" /\ c2.d = d /\ c2.token.keyslots = {n}
        BY <1>5, <1>6, <3>2, <4>1
      <4>3. PendingOf(c2, d, h) = {n}
        BY <4>2, PendingIs
      <4>4. PendingOf(c, d, h) = {n}
        BY <1>1, <3>2, <4>1, PendingIs
      <4> QED BY <3>2, <4>3, <4>4
    <3> QED BY <3>1, <3>2
  <2> QED BY <1>1, <1>2, <2>1, <2>2, <2>3, <2>5, <2>6 DEF CommandFits
<1>10. TokensInv'
  BY <1>0, <1>2, <1>9, OneFits
<1> QED BY <1>7, <1>8, <1>10 DEF KeyslotIInv

LEMMA ImportsTokenKeeps ==
  ASSUME KeyslotIInv, NEW p \in Commands, ImportsToken(p)
  PROVE  KeyslotIInv'
<1>0. KeyslotTypeOK /\ OpenerInv /\ TokensInv
  BY DEF KeyslotIInv
<1> DEFINE c == command[p]
           h == header[c.d]
<1>1. /\ c.at = "import" /\ UNCHANGED <<secrets, byHand>> /\ command' = [command EXCEPT ![p] = Idle]
      /\ \/ UNCHANGED header /\ marred' = marred \union {c.d}
         \/ (\E h2 \in ImportToken(h, c.token) : Change(c.d, h2)) /\ UNCHANGED marred
  BY DEF ImportsToken
<1>2. c.d \in Devices /\ DOMAIN c.token = TokenFields
  <2>1. CommandTypeOK(c) /\ c # Idle
    BY <1>0, <1>1, NotIdle DEF KeyslotTypeOK
  <2> QED BY <1>1, <2>1 DEF CommandTypeOK, KillStages
<1>3. secrets' \in Nat /\ marred' \subseteq Devices /\ marred \subseteq marred'
  BY <1>0, <1>1, <1>2 DEF KeyslotTypeOK
<1>4. ASSUME marred # Devices
      PROVE  /\ OthersIdle(p) /\ (c.d \notin marred => ImportOK(c, h))
             /\ \A d \in Devices \ marred : DeviceIs(header[d], IF d = c.d THEN c.token.keyslots ELSE {}, {})
  <2>1. OthersIdle(p) /\ CommandFits(c, header, marred)
    BY <1>0, <1>1, <1>4, NotIdle, Running
  <2>2. \A d \in Devices : LeftOf(c, d) = {}
    BY <1>1 DEF LeftOf
  <2>3. \A d \in Devices : PendingOf(c, d, header[d]) = IF d = c.d THEN c.token.keyslots ELSE {}
    BY <1>1, PendingIs
  <2> QED BY <1>1, <2>1, <2>2, <2>3 DEF CommandFits, CommandOK
<1>5. CASE UNCHANGED header /\ marred' = marred \union {c.d}
  <2>1. KeyslotTypeOK' /\ OpenerInv'
    BY <1>0, <1>1, <1>3, <1>5, HeaderStays, IdleIs, OneTypes, OneOpens
  <2>2. ASSUME marred' # Devices
        PROVE  OthersIdle(p) /\ CommandFits(Idle, header', marred')
    <3>1. marred # Devices
      BY <1>3, <2>2
    <3> QED BY <1>4, <1>5, <3>1, IdleFits
  <2>3. TokensInv'
    BY <1>0, <1>1, <2>2, OneFits
  <2> QED BY <2>1, <2>3 DEF KeyslotIInv
<1>6. ASSUME NEW h2 \in ImportToken(h, c.token), Change(c.d, h2), UNCHANGED marred
      PROVE  KeyslotIInv'
  <2>1. DOMAIN header' = Devices /\ header'[c.d] = h2 /\ \A x \in Devices : x # c.d => header'[x] = header[x]
    BY <1>0, <1>2, <1>6, HeaderSet DEF Change
  <2>2. HeaderTypeOK(h)
    BY <1>0, <1>2 DEF KeyslotTypeOK
  <2>3. PICK n \in Numbers \ DOMAIN h.tokens :
          /\ DOMAIN h2 = HeaderFields /\ h2.keys = h.keys /\ DOMAIN h2.tokens = DOMAIN h.tokens \union {n}
          /\ h2.tokens[n] = c.token /\ \A i \in DOMAIN h.tokens : h2.tokens[i] = h.tokens[i]
    BY <1>6, <2>2, ImportedIs DEF HeaderTypeOK
  <2>4. HeaderTypeOK(h2)
    BY <1>2, <2>2, <2>3 DEF HeaderTypeOK
  <2>5. KeyslotTypeOK'
    <3>1. \A d \in Devices : HeaderTypeOK(header'[d])
      BY <1>0, <2>1, <2>4 DEF KeyslotTypeOK
    <3> QED BY <1>0, <1>1, <1>3, <2>1, <3>1, IdleIs, OneTypes
  <2>6. OpenerInv'
    <3>1. ASSUME NEW d \in Devices \ byHand
          PROVE  FirstKept(header'[d])
      <4>1. FirstKept(header[d]) /\ SparesFirst(c, d)
        BY <1>0 DEF OpenerInv
      <4>2. CASE d = c.d
        <5>1. 0 \notin c.token.keyslots
          BY <1>1, <4>1, <4>2 DEF SparesFirst
        <5> QED BY <2>1, <2>3, <4>1, <4>2, <5>1 DEF FirstKept
      <4>3. CASE d # c.d
        BY <2>1, <4>1, <4>3
      <4> QED BY <4>2, <4>3
    <3> QED BY <1>0, <1>1, <3>1, IdleIs, OneOpens
  <2>7. ASSUME marred' # Devices
        PROVE  OthersIdle(p) /\ CommandFits(Idle, header', marred')
    <3>1. ASSUME NEW d \in Devices \ marred
          PROVE  DeviceIs(header'[d], {}, {})
      <4>1. CASE d # c.d
        BY <1>4, <1>6, <2>1, <2>7, <3>1, <4>1
      <4>2. CASE d = c.d
        <5>1. ImportOK(c, h) /\ DeviceIs(h, c.token.keyslots, {})
          BY <1>4, <1>6, <2>7, <3>1, <4>2
        <5>2. PICK k \in DOMAIN h.keys : c.token.keyslots = {k} /\ k \notin Kiras(h) /\ Fits(h.keys[k], c.token)
          BY <5>1 DEF ImportOK
        <5>3. Tokened(h, h2, n, c.token)
          BY <2>3 DEF Tokened
        <5>4. DeviceIs(h2, {}, {})
          BY <5>1, <5>2, <5>3, TokenedDevice
        <5> QED BY <2>1, <4>2, <5>4
      <4> QED BY <4>1, <4>2
    <3> QED BY <1>4, <1>6, <2>7, <3>1, IdleFits
  <2>8. TokensInv'
    BY <1>0, <1>1, <2>7, OneFits
  <2> QED BY <2>5, <2>6, <2>8 DEF KeyslotIInv
<1> QED BY <1>1, <1>5, <1>6

\* What is left to be killed.
LEMMA KillIs ==
  ASSUME KeyslotTypeOK, NEW p \in Commands, command[p].at \in KillStages
  PROVE  JobsTypeOK(command[p]) /\ command[p] # Idle
<1>1. CommandTypeOK(command[p]) /\ command[p] # Idle
  BY NotIdle DEF KeyslotTypeOK, KillStages
<1> QED BY <1>1 DEF CommandTypeOK, KillStages

LEMMA KilledTypes ==
  ASSUME NEW h, HeaderTypeOK(h), NEW k, killKeyslot(h, k), NEW h2, h2 = KillSlot(h, k)
  PROVE  HeaderTypeOK(h2) /\ (FirstKept(h) /\ k # 0 => FirstKept(h2)) /\ WithoutSlot(h, h2, k) /\ k \in DOMAIN h.keys
<1>1. /\ DOMAIN h2 = HeaderFields /\ DOMAIN h2.keys = DOMAIN h.keys \ {k} /\ DOMAIN h2.tokens = DOMAIN h.tokens
      /\ \A j \in DOMAIN h.keys : j # k => h2.keys[j] = h.keys[j]
      /\ \A i \in DOMAIN h.tokens :
           /\ DOMAIN h2.tokens[i] = TokenFields /\ h2.tokens[i].keyslots = h.tokens[i].keyslots \ {k}
           /\ h2.tokens[i].recipe = h.tokens[i].recipe /\ h2.tokens[i].slot = h.tokens[i].slot
           /\ h2.tokens[i].obsolete = h.tokens[i].obsolete
  BY KilledIs DEF HeaderTypeOK
<1>2. k \in DOMAIN h.keys /\ \E j \in DOMAIN h.keys : j # k
  BY DEF killKeyslot, Authorises
<1>3. HeaderTypeOK(h2)
  BY <1>1, <1>2 DEF HeaderTypeOK
<1>4. FirstKept(h) /\ k # 0 => FirstKept(h2)
  BY <1>1 DEF FirstKept
<1>5. WithoutSlot(h, h2, k)
  BY <1>1 DEF WithoutSlot
<1> QED BY <1>2, <1>3, <1>4, <1>5

LEMMA KillsKeyslotKeeps ==
  ASSUME KeyslotIInv, NEW p \in Commands, KillsKeyslot(p)
  PROVE  KeyslotIInv'
<1>0. KeyslotTypeOK /\ OpenerInv /\ TokensInv
  BY DEF KeyslotIInv
<1> DEFINE c == command[p]
<1>1. c.at = "kill" /\ UNCHANGED secrets
  BY DEF KillsKeyslot
<1>2. PICK j \in c.jobs :
        /\ killKeyslot(header[j.d], j.k) /\ Change(j.d, KillSlot(header[j.d], j.k))
        /\ Go(p, With([c EXCEPT !.at = "token", !.jobs = @ \ {j}], "job", j))
  BY DEF KillsKeyslot, NextJobs
<1> DEFINE h == header[j.d]
           h2 == KillSlot(h, j.k)
           c2 == With([c EXCEPT !.at = "token", !.jobs = @ \ {j}], "job", j)
<1>3. JobsTypeOK(c) /\ c # Idle
  BY <1>0, <1>1, KillIs DEF KillStages
<1>4. JobTypeOK(j) /\ j.d \in Devices
  BY <1>2, <1>3 DEF JobsTypeOK, JobTypeOK
<1>5. DOMAIN c2 = DOMAIN c \union {"job"} /\ c2.at = "token" /\ c2.jobs = c.jobs \ {j} /\ c2.what = c.what /\ c2.job = j
  <2>1. DOMAIN c = RemoveFields \union (IF c.what = "delete" THEN {"cancelled"} ELSE {})
    BY <1>1, <1>3 DEF JobsTypeOK
  <2> DEFINE e == [c EXCEPT !.at = "token", !.jobs = @ \ {j}]
  <2>2. "at" \in DOMAIN c /\ "jobs" \in DOMAIN c /\ "what" \in DOMAIN c /\ "job" \notin DOMAIN c
    BY <2>1 DEF RemoveFields
  <2>3. DOMAIN e = DOMAIN c /\ e.at = "token" /\ e.jobs = c.jobs \ {j} /\ e.what = c.what
    BY <2>2
  <2>4. c2 = With(e, "job", j)
    OBVIOUS
  <2> HIDE DEF e, c2
  <2>5. DOMAIN c2 = DOMAIN e \union {"job"} /\ \A x \in DOMAIN c2 : c2[x] = IF x = "job" THEN j ELSE e[x]
    BY <2>4 DEF With
  <2> QED BY <2>2, <2>3, <2>5
<1>6. command' = [command EXCEPT ![p] = c2] /\ UNCHANGED <<marred, byHand>> /\ header' = [header EXCEPT ![j.d] = h2]
  BY <1>2 DEF Go, Change
<1>7. DOMAIN header' = Devices /\ header'[j.d] = h2 /\ \A x \in Devices : x # j.d => header'[x] = header[x]
  BY <1>0, <1>4, <1>6, HeaderSet
<1>8. HeaderTypeOK(h2) /\ (FirstKept(h) /\ j.k # 0 => FirstKept(h2)) /\ WithoutSlot(h, h2, j.k) /\ j.k \in DOMAIN h.keys
  <2>1. HeaderTypeOK(h)
    BY <1>0, <1>4 DEF KeyslotTypeOK
  <2> QED BY <1>2, <2>1, KilledTypes
<1> HIDE DEF h2, c2
<1>9. KeyslotTypeOK'
  <2>1. CommandTypeOK(c2)
    <3>1. JobsTypeOK(c2)
      BY <1>1, <1>3, <1>4, <1>5 DEF JobsTypeOK
    <3> QED BY <1>5, <3>1 DEF CommandTypeOK, KillStages
  <2>2. \A d \in Devices : HeaderTypeOK(header'[d])
    BY <1>0, <1>7, <1>8 DEF KeyslotTypeOK
  <2>3. secrets' \in Nat /\ marred' \subseteq Devices
    BY <1>0, <1>1, <1>6 DEF KeyslotTypeOK
  <2> QED BY <1>0, <1>6, <1>7, <2>1, <2>2, <2>3, OneTypes
<1>10. OpenerInv'
  <2>1. ASSUME NEW d \in Devices \ byHand
        PROVE  FirstKept(header'[d]) /\ SparesFirst(c2, d)
    <3>1. FirstKept(header[d]) /\ SparesFirst(c, d)
      BY <1>0 DEF OpenerInv
    <3>2. \A i \in c.jobs : i.d = d => i.k # 0
      BY <1>1, <3>1 DEF SparesFirst, KillStages
    <3>3. FirstKept(header'[d])
      BY <1>7, <1>8, <3>1, <3>2
    <3>4. SparesFirst(c2, d)
      BY <1>5, <3>2 DEF SparesFirst
    <3> QED BY <3>3, <3>4
  <2> QED BY <1>0, <1>6, <2>1, OneOpens
<1>11. ASSUME marred' # Devices
       PROVE  OthersIdle(p) /\ CommandFits(c2, header', marred')
  <2>1. OthersIdle(p) /\ CommandFits(c, header, marred)
    BY <1>0, <1>3, <1>6, <1>11, Running
  <2>2. CommandOK(c, header, marred) /\ \A d \in Devices \ marred : DeviceIs(header[d], {}, {})
    BY <1>1, <2>1, PlainFits
  <2>3. /\ \A i \in c.jobs : i.d \notin marred => JobOK(i, header[i.d])
        /\ \A i, k \in c.jobs : i.d = k.d /\ i.k = k.k => i = k
    BY <1>1, <2>2 DEF CommandOK, KillStages
  <2>4. ASSUME NEW i \in c.jobs, i # j, i.d \notin marred
        PROVE  JobOK(i, header'[i.d])
    <3>1. JobOK(i, header[i.d]) /\ i.d \in Devices
      BY <1>3, <2>3, <2>4 DEF JobsTypeOK, JobTypeOK
    <3>2. CASE i.d # j.d
      BY <1>7, <3>1, <3>2
    <3>3. CASE i.d = j.d
      <4>1. i.k # j.k
        BY <2>3, <2>4, <3>3
      <4>2. TokensOf(h2, i.k) = TokensOf(h, i.k)
        BY <1>8, <4>1, KilledTokens
      <4>3. i.k \in Kiras(h) /\ i.id \in TokensOf(h, i.k)
        BY <3>1, <3>3 DEF JobOK
      <4>4. i.k \in Kiras(h2)
        BY <1>8, <4>1, <4>2, <4>3 DEF Kiras, WithoutSlot
      <4> QED BY <1>7, <3>3, <4>2, <4>3, <4>4 DEF JobOK
    <3> QED BY <3>2, <3>3
  <2>5. CommandOK(c2, header', marred')
    BY <1>5, <1>6, <2>3, <2>4 DEF CommandOK
  <2>6. ASSUME NEW d \in Devices \ marred'
        PROVE  DeviceIs(header'[d], PendingOf(c2, d, header'[d]), LeftOf(c2, d))
    <3>1. PendingOf(c2, d, header'[d]) = {}
      BY <1>5, PendingIs
    <3>2. CASE d # j.d
      <4>1. LeftOf(c2, d) = {}
        BY <1>5, <3>2 DEF LeftOf
      <4> QED BY <1>6, <1>7, <2>2, <2>6, <3>1, <3>2, <4>1
    <3>3. CASE d = j.d
      <4>1. LeftOf(c2, d) = {j.id}
        BY <1>5, <3>3 DEF LeftOf
      <4>2. DeviceIs(h, {}, {}) /\ j.id \in TokensOf(h, j.k)
        BY <1>6, <2>2, <2>3, <2>6, <3>3 DEF JobOK
      <4>3. TokensOf(h, j.k) = {j.id}
        BY <4>2, OneToken
      <4>4. DeviceIs(h2, {}, {j.id})
        BY <1>8, <4>2, <4>3, KilledDevice
      <4> QED BY <1>7, <3>1, <3>3, <4>1, <4>4
    <3> QED BY <3>2, <3>3
  <2> QED BY <2>1, <2>5, <2>6 DEF CommandFits
<1>12. TokensInv'
  BY <1>0, <1>6, <1>11, OneFits
<1> QED BY <1>9, <1>10, <1>12 DEF KeyslotIInv

\* A deletion goes on with fewer to kill.
LEMMA FewerJobs ==
  ASSUME KeyslotIInv, NEW p \in Commands, command[p].at = "kill", NEW c, Go(p, c), UNCHANGED <<header, secrets>>,
         DOMAIN c = DOMAIN command[p], c.at = "kill", c.what = command[p].what, c.jobs \subseteq command[p].jobs
  PROVE  KeyslotIInv'
<1>0. KeyslotTypeOK /\ OpenerInv /\ TokensInv
  BY DEF KeyslotIInv
<1>1. command' = [command EXCEPT ![p] = c] /\ UNCHANGED <<marred, byHand>> /\ secrets' \in Nat /\ marred' \subseteq Devices
  BY <1>0 DEF Go, KeyslotTypeOK
<1>2. JobsTypeOK(command[p]) /\ command[p] # Idle
  BY <1>0, KillIs DEF KillStages
<1>3. CommandTypeOK(c)
  <2>1. JobsTypeOK(c)
    BY <1>2 DEF JobsTypeOK
  <2> QED BY <2>1 DEF CommandTypeOK, KillStages
<1>4. \A d \in Devices \ byHand : SparesFirst(c, d)
  <2>1. \A d \in Devices \ byHand : SparesFirst(command[p], d)
    BY <1>0 DEF OpenerInv
  <2> QED BY <2>1 DEF SparesFirst, KillStages
<1>5. KeyslotTypeOK' /\ OpenerInv'
  BY <1>0, <1>1, <1>3, <1>4, HeaderStays, OneTypes, OneOpens
<1>6. ASSUME marred' # Devices
      PROVE  OthersIdle(p) /\ CommandFits(c, header', marred')
  <2>1. OthersIdle(p) /\ CommandFits(command[p], header, marred)
    BY <1>0, <1>1, <1>2, <1>6, Running
  <2>2. CommandOK(command[p], header, marred) /\ \A d \in Devices \ marred : DeviceIs(header[d], {}, {})
    BY <2>1, PlainFits
  <2>3. CommandOK(c, header, marred)
    BY <2>2 DEF CommandOK, KillStages
  <2> QED BY <1>1, <2>1, <2>2, <2>3, PlainFits
<1>7. TokensInv'
  BY <1>0, <1>1, <1>6, OneFits
<1> QED BY <1>5, <1>7 DEF KeyslotIInv

LEMMA KillRefusedKeeps ==
  ASSUME KeyslotIInv, NEW p \in Commands, KillRefused(p)
  PROVE  KeyslotIInv'
<1>0. KeyslotTypeOK
  BY DEF KeyslotIInv
<1> DEFINE c == command[p]
<1>1. c.at = "kill" /\ UNCHANGED <<header, secrets>>
  BY DEF KillRefused
<1>2. PICK j \in NextJobs(c.jobs) :
        \/ c.what = "remove" /\ End(p)
        \/ c.what = "delete" /\ Go(p, [c EXCEPT !.jobs = {i \in @ : i.d # j.d}, !.cancelled = TRUE])
        \/ c.what = "delete" /\ Go(p, [c EXCEPT !.jobs = @ \ {j}])
  BY DEF KillRefused
<1>3. JobsTypeOK(c)
  BY <1>0, <1>1, KillIs DEF KillStages
<1>4. CASE End(p)
  BY <1>1, <1>4, EndsKeep
<1>5. "at" \in DOMAIN c /\ "jobs" \in DOMAIN c /\ "what" \in DOMAIN c
  BY <1>3 DEF JobsTypeOK, RemoveFields
<1>6. CASE Go(p, [c EXCEPT !.jobs = {i \in @ : i.d # j.d}, !.cancelled = TRUE])
  <2> DEFINE c2 == [c EXCEPT !.jobs = {i \in @ : i.d # j.d}, !.cancelled = TRUE]
  <2>1. DOMAIN c2 = DOMAIN c /\ c2.at = c.at /\ c2.what = c.what /\ c2.jobs = {i \in c.jobs : i.d # j.d}
    BY <1>5
  <2>2. Go(p, c2)
    BY <1>6
  <2> HIDE DEF c2
  <2>3. c2.jobs \subseteq c.jobs
    BY <2>1
  <2> QED BY <1>1, <2>1, <2>2, <2>3, FewerJobs
<1>7. CASE Go(p, [c EXCEPT !.jobs = @ \ {j}])
  <2> DEFINE c2 == [c EXCEPT !.jobs = @ \ {j}]
  <2>1. DOMAIN c2 = DOMAIN c /\ c2.at = c.at /\ c2.what = c.what /\ c2.jobs = c.jobs \ {j}
    BY <1>5
  <2>2. Go(p, c2)
    BY <1>7
  <2> HIDE DEF c2
  <2>3. c2.jobs \subseteq c.jobs
    BY <2>1
  <2> QED BY <1>1, <2>1, <2>2, <2>3, FewerJobs
<1> QED BY <1>2, <1>4, <1>6, <1>7

LEMMA RemovesTokenKeeps ==
  ASSUME KeyslotIInv, NEW p \in Commands, RemovesToken(p)
  PROVE  KeyslotIInv'
<1>0. KeyslotTypeOK /\ OpenerInv /\ TokensInv
  BY DEF KeyslotIInv
<1> DEFINE c == command[p]
           j == c.job
           h == header[j.d]
           h2 == header'[j.d]
           c2 == IF c.what = "remove" /\ c.s = Absent THEN Idle
                 ELSE [x \in DOMAIN c \ {"job"} |-> IF x = "at" THEN IF c.what = "remove" THEN "salt" ELSE "kill" ELSE c[x]]
<1>1. /\ c.at = "token" /\ UNCHANGED <<secrets, marred, byHand>> /\ command' = [command EXCEPT ![p] = c2]
      /\ header' = [header EXCEPT ![j.d].tokens = WithoutKey(@, j.id)]
  BY DEF RemovesToken, Go
<1>2. JobsTypeOK(c) /\ c # Idle
  BY <1>0, <1>1, KillIs DEF KillStages
<1>3. j.d \in Devices
  BY <1>1, <1>2 DEF JobsTypeOK, JobTypeOK
<1>4. HeaderTypeOK(h)
  BY <1>0, <1>3 DEF KeyslotTypeOK
<1>5. /\ DOMAIN header' = Devices /\ \A x \in Devices : x # j.d => header'[x] = header[x]
      /\ DOMAIN h2 = HeaderFields /\ h2.keys = h.keys /\ h2.tokens = WithoutKey(h.tokens, j.id)
  <2>1. DOMAIN header = Devices /\ DOMAIN h = HeaderFields
    BY <1>0, <1>4 DEF KeyslotTypeOK, HeaderTypeOK
  <2> QED BY <1>1, <1>3, <2>1 DEF HeaderFields
<1>6. Untokened(h, h2, j.id)
  BY <1>5 DEF Untokened, WithoutKey
<1>7. HeaderTypeOK(h2) /\ (FirstKept(h) => FirstKept(h2))
  BY <1>4, <1>5, <1>6 DEF HeaderTypeOK, FirstKept, Untokened
<1> HIDE DEF h2
<1>8. \/ c2 = Idle
      \/ /\ c2.at = (IF c.what = "remove" THEN "salt" ELSE "kill") /\ c2.what = c.what /\ c2.jobs = c.jobs
         /\ DOMAIN c2 = DOMAIN c \ {"job"}
  <2>1. "at" \in DOMAIN c \ {"job"} /\ "what" \in DOMAIN c \ {"job"} /\ "jobs" \in DOMAIN c \ {"job"}
    BY <1>2 DEF JobsTypeOK, RemoveFields
  <2> QED BY <2>1
<1> HIDE DEF c2
<1>9. CommandTypeOK(c2) /\ c2.at \notin {"after", "import", "token"}
  <2>1. CASE c2 = Idle
    BY <2>1, IdleIs DEF Idle
  <2>2. CASE c2 # Idle
    <3>1. c2.at \in {"salt", "kill"} /\ c2.what = c.what /\ c2.jobs = c.jobs /\ DOMAIN c2 = DOMAIN c \ {"job"}
      BY <1>8, <2>2
    <3>2. DOMAIN c2 = RemoveFields \union (IF c.what = "delete" THEN {"cancelled"} ELSE {})
      BY <1>1, <1>2, <3>1 DEF JobsTypeOK, RemoveFields
    <3>3. JobsTypeOK(c2)
      BY <1>2, <3>1, <3>2 DEF JobsTypeOK
    <3> QED BY <3>1, <3>3 DEF CommandTypeOK, KillStages
  <2> QED BY <2>1, <2>2
<1>10. KeyslotTypeOK'
  <2>1. \A d \in Devices : HeaderTypeOK(header'[d])
    BY <1>0, <1>5, <1>7 DEF KeyslotTypeOK, h2
  <2>2. secrets' \in Nat /\ marred' \subseteq Devices
    BY <1>0, <1>1 DEF KeyslotTypeOK
  <2> QED BY <1>0, <1>1, <1>5, <1>9, <2>1, <2>2, OneTypes
<1>11. OpenerInv'
  <2>1. ASSUME NEW d \in Devices \ byHand
        PROVE  FirstKept(header'[d]) /\ SparesFirst(c2, d)
    <3>1. FirstKept(header[d]) /\ SparesFirst(c, d)
      BY <1>0 DEF OpenerInv
    <3>2. \A i \in c.jobs : i.d = d => i.k # 0
      BY <1>1, <3>1 DEF SparesFirst, KillStages
    <3>3. FirstKept(header'[d])
      BY <1>5, <1>7, <3>1 DEF h2
    <3>4. SparesFirst(c2, d)
      BY <1>8, <3>2, IdleIs DEF SparesFirst
    <3> QED BY <3>3, <3>4
  <2> QED BY <1>0, <1>1, <2>1, OneOpens
<1>12. ASSUME marred' # Devices
       PROVE  OthersIdle(p) /\ CommandFits(c2, header', marred')
  <2>1. OthersIdle(p) /\ CommandFits(c, header, marred)
    BY <1>0, <1>1, <1>2, <1>12, Running
  <2>2. CommandOK(c, header, marred) /\ \A d \in Devices \ marred : DeviceIs(header[d], {}, LeftOf(c, d))
    BY <1>1, <2>1, PendingIs DEF CommandFits
  <2>3. /\ \A i \in c.jobs : i.d \notin marred => JobOK(i, header[i.d])
        /\ \A i, k \in c.jobs : i.d = k.d /\ i.k = k.k => i = k
    BY <1>1, <2>2 DEF CommandOK, KillStages
  <2>4. j.d \notin marred => DeviceIs(h2, {}, {}) /\ \A k : TokensOf(h2, k) = TokensOf(h, k)
    <3>1. LeftOf(c, j.d) = {j.id}
      BY <1>1 DEF LeftOf
    <3>2. j.d \notin marred => DeviceIs(h, {}, {j.id})
      BY <1>3, <2>2, <3>1
    <3> QED BY <1>6, <3>2, DroppedDevice
  <2>5. ASSUME NEW i \in c.jobs, i.d \notin marred
        PROVE  JobOK(i, header'[i.d])
    <3>1. JobOK(i, header[i.d]) /\ i.d \in Devices
      BY <1>2, <2>3, <2>5 DEF JobsTypeOK, JobTypeOK
    <3>2. CASE i.d # j.d
      BY <1>5, <3>1, <3>2
    <3>3. CASE i.d = j.d
      <4>1. TokensOf(h2, i.k) = TokensOf(h, i.k) /\ h2.keys = h.keys
        BY <1>5, <2>4, <2>5, <3>3 DEF h2
      <4>2. i.k \in Kiras(h) /\ i.id \in TokensOf(h, i.k)
        BY <3>1, <3>3 DEF JobOK
      <4>3. JobOK(i, h2)
        BY <4>1, <4>2 DEF JobOK, Kiras
      <4> QED BY <3>3, <4>3 DEF h2
    <3> QED BY <3>2, <3>3
  <2>6. CommandOK(c2, header', marred')
    <3>1. CASE c2 = Idle
      BY <3>1 DEF CommandOK, KillStages, Idle
    <3>2. CASE c2 # Idle
      <4>1. c2.at \in {"salt", "kill"} /\ c2.jobs = c.jobs
        BY <1>8, <3>2
      <4> QED BY <1>1, <2>3, <2>5, <4>1 DEF CommandOK
    <3> QED BY <3>1, <3>2
  <2>7. ASSUME NEW d \in Devices \ marred'
        PROVE  DeviceIs(header'[d], {}, {})
    <3>1. CASE d # j.d
      <4>1. LeftOf(c, d) = {}
        BY <3>1 DEF LeftOf
      <4> QED BY <1>1, <1>5, <2>2, <2>7, <3>1, <4>1
    <3>2. CASE d = j.d
      BY <1>1, <2>4, <2>7, <3>2 DEF h2
    <3> QED BY <3>1, <3>2
  <2> QED BY <1>9, <2>1, <2>6, <2>7, PlainFits
<1>13. TokensInv'
  BY <1>0, <1>1, <1>12, OneFits
<1> QED BY <1>10, <1>11, <1>13 DEF KeyslotIInv

LEMMA RemovesSaltOrSlotKeeps ==
  ASSUME KeyslotIInv, NEW p \in Commands, RemovesSalt(p) \/ RemovesSlot(p)
  PROVE  KeyslotIInv'
<1>1. command[p].at \in {"salt", "kill"} /\ End(p) /\ UNCHANGED <<header, secrets>>
  BY DEF RemovesSalt, RemovesSlot
<1> QED BY <1>1, EndsKeep

LEMMA CutKeeps ==
  ASSUME KeyslotIInv, NEW p \in Commands, Cut(p)
  PROVE  KeyslotIInv'
<1>0. KeyslotTypeOK /\ OpenerInv /\ TokensInv
  BY DEF KeyslotIInv
<1>1. command' = [command EXCEPT ![p] = Idle] /\ marred' = Devices /\ UNCHANGED <<header, byHand>> /\ secrets' \in Nat
  BY <1>0 DEF Cut, KeyslotTypeOK
<1>2. KeyslotTypeOK' /\ OpenerInv'
  BY <1>0, <1>1, HeaderStays, IdleIs, OneTypes, OneOpens
<1>3. TokensInv'
  BY <1>0, <1>1, OneFits
<1> QED BY <1>2, <1>3 DEF KeyslotIInv

----------------------------------------------------------------------------
(* By hand, with cryptsetup. *)

\* A header is changed by hand: with no command about, or the device is marred.
LEMMA ByHandKeeps ==
  ASSUME KeyslotIInv, NEW d \in Devices, NEW h2, Change(d, h2), UNCHANGED command, HeaderTypeOK(h2), secrets' \in Nat,
         (Quiet /\ UNCHANGED marred) \/ marred' = Devices,
         byHand \subseteq byHand', d \notin byHand' => (FirstKept(header[d]) => FirstKept(h2)),
         DeviceIs(header[d], {}, {}) => DeviceIs(h2, {}, {})
  PROVE  KeyslotIInv'
<1>0. KeyslotTypeOK /\ OpenerInv /\ TokensInv
  BY DEF KeyslotIInv
<1>1. DOMAIN header' = Devices /\ header'[d] = h2 /\ \A x \in Devices : x # d => header'[x] = header[x]
  BY <1>0, HeaderSet DEF Change
<1>2. KeyslotTypeOK'
  BY <1>0, <1>1 DEF KeyslotTypeOK
<1>3. OpenerInv'
  <2>1. ASSUME NEW x \in Devices, x \notin byHand'
        PROVE  FirstKept(header'[x]) /\ \A p \in Commands : SparesFirst(command[p], x)
    <3>1. FirstKept(header[x]) /\ \A p \in Commands : SparesFirst(command[p], x)
      BY <1>0, <2>1 DEF OpenerInv
    <3> QED BY <1>1, <2>1, <3>1
  <2> QED BY <2>1 DEF OpenerInv
<1>4. TokensInv'
  <2> SUFFICES ASSUME marred' # Devices
               PROVE  TokensInv'
    BY DEF TokensInv
  <2>1. Quiet /\ UNCHANGED marred
    OBVIOUS
  <2>2. CommandFits(Idle, header, marred)
    BY <1>0, <2>1 DEF TokensInv
  <2>3. \A x \in Devices \ marred : DeviceIs(header[x], {}, {})
    BY <2>2, IdleFits
  <2>4. \A x \in Devices \ marred' : DeviceIs(header'[x], {}, {})
    BY <1>1, <2>1, <2>3
  <2>5. CommandFits(Idle, header', marred')
    BY <2>4, IdleFits
  <2>6. \A p \in Commands : command'[p] = Idle
    BY <2>1 DEF Quiet
  <2>7. \A p \in Commands : OthersIdle(p)'
    BY <2>6 DEF OthersIdle
  <2> QED BY <2>5, <2>6, <2>7 DEF TokensInv
<1> QED BY <1>2, <1>3, <1>4 DEF KeyslotIInv

LEMMA MarkIs ==
  ASSUME MarkIfBusy
  PROVE  (Quiet /\ UNCHANGED marred) \/ marred' = Devices
  BY DEF MarkIfBusy

LEMMA AddsPassphraseKeeps ==
  ASSUME KeyslotIInv, NEW d \in Devices, AddsPassphrase(d)
  PROVE  KeyslotIInv'
<1> DEFINE key == Passphrase(secrets + 1)
<1>1. PICK h2 \in AddKey(header[d], key) : Change(d, h2)
  BY DEF AddsPassphrase
<1>2. secrets' \in Nat /\ UNCHANGED <<command, byHand>> /\ MarkIfBusy
  BY DEF AddsPassphrase, KeyslotIInv, KeyslotTypeOK
<1>3. key[1] = "passphrase" /\ KeyOK(key)
  BY DEF Passphrase, KeyOK
<1> HIDE DEF key
<1>4. HeaderTypeOK(header[d])
  BY DEF KeyslotIInv, KeyslotTypeOK
<1>5. HeaderTypeOK(h2) /\ (FirstKept(header[d]) => FirstKept(h2)) /\ \E n \in Numbers : Grown(header[d], h2, n, key)
  BY <1>3, <1>4, GrownTypes
<1>6. DeviceIs(header[d], {}, {}) => DeviceIs(h2, {}, {})
  BY <1>3, <1>5, GrownDevice
<1> QED BY <1>1, <1>2, <1>5, <1>6, MarkIs, ByHandKeeps

LEMMA AddsKeyByHandKeeps ==
  ASSUME KeyslotIInv, NEW d \in Devices, NEW r, NEW s, AddsKeyByHand(d, r, s)
  PROVE  KeyslotIInv'
<1>2. secrets' \in Nat /\ secrets + 1 \in Nat \ {0} /\ UNCHANGED <<command, byHand>> /\ Quiet /\ UNCHANGED marred
  <2>1. secrets \in Nat
    BY DEF KeyslotIInv, KeyslotTypeOK
  <2>2. secrets' = secrets + 1 /\ UNCHANGED <<command, byHand>> /\ Quiet /\ UNCHANGED marred
    BY DEF AddsKeyByHand
  <2>3. secrets + 1 \in Nat \ {0}
    BY <2>1
  <2> QED BY <2>2, <2>3
<1> DEFINE key == MadeWith(r, s, secrets + 1, "by hand")
<1>1. PICK h2 \in AddKey(header[d], key) : Change(d, h2)
  BY DEF AddsKeyByHand
<1>3. key[1] = "recipe" /\ key[5] = "by hand" /\ KeyOK(key)
  BY <1>2 DEF MadeWith, KeyOK
<1> HIDE DEF key
<1>4. HeaderTypeOK(header[d])
  BY DEF KeyslotIInv, KeyslotTypeOK
<1>5. HeaderTypeOK(h2) /\ (FirstKept(header[d]) => FirstKept(h2)) /\ \E n \in Numbers : Grown(header[d], h2, n, key)
  BY <1>3, <1>4, GrownTypes
<1>6. DeviceIs(header[d], {}, {}) => DeviceIs(h2, {}, {})
  BY <1>3, <1>5, GrownDevice
<1> QED BY <1>1, <1>2, <1>5, <1>6, ByHandKeeps

LEMMA KillsByHandKeeps ==
  ASSUME KeyslotIInv, NEW d \in Devices, NEW k, KillsByHand(d, k)
  PROVE  KeyslotIInv'
<1> DEFINE h == header[d]
           h2 == KillSlot(header[d], k)
<1>1. /\ k \in DOMAIN h.keys \ Kiras(h) /\ killKeyslot(h, k) /\ Change(d, h2) /\ byHand' = byHand \union {d}
      /\ MarkIfBusy /\ UNCHANGED <<secrets, command>>
  BY DEF KillsByHand, killKeyslot
<1>2. HeaderTypeOK(h) /\ secrets' \in Nat
  BY <1>1 DEF KeyslotIInv, KeyslotTypeOK
<1>3. HeaderTypeOK(h2) /\ WithoutSlot(h, h2, k)
  BY <1>1, <1>2, KilledTypes
<1>4. TokensOf(h, k) = {}
  BY <1>1 DEF Kiras
<1> HIDE DEF h2
<1>5. DeviceIs(h, {}, {}) => DeviceIs(h2, {}, {})
  BY <1>1, <1>3, <1>4, KilledDevice
<1>6. byHand \subseteq byHand' /\ d \in byHand'
  BY <1>1
<1> QED BY <1>1, <1>2, <1>3, <1>5, <1>6, MarkIs, ByHandKeeps

LEMMA KeyslotIInvStarts ==
  ASSUME KeyslotInit
  PROVE  KeyslotIInv
<1>1. /\ DOMAIN header = Devices /\ secrets = 1 /\ marred = {} /\ command = [p \in Commands |-> Idle]
  BY DEF KeyslotInit
<1>2. ASSUME NEW d \in Devices
      PROVE  HeaderTypeOK(header[d]) /\ FirstKept(header[d]) /\ DeviceIs(header[d], {}, {})
  <2> DEFINE h == header[d]
  <2>1. \/ h = [keys |-> [k \in {0} |-> Passphrase(k)], tokens |-> <<>>]
        \/ h = [keys |-> [k \in {0, 1} |-> Passphrase(k)], tokens |-> [i \in {0} |-> ObsoleteToken(1)]]
    BY DEF KeyslotInit
  <2>2. DOMAIN h = HeaderFields
    BY <2>1 DEF HeaderFields
  <2>3. DOMAIN h.keys = {0} \/ DOMAIN h.keys = {0, 1}
    BY <2>1
  <2>4. \A k \in DOMAIN h.keys : h.keys[k] = Passphrase(k)
    BY <2>1
  <2>5. \A k \in DOMAIN h.keys : h.keys[k][1] = "passphrase"
    BY <2>4 DEF Passphrase
  <2>6. \/ DOMAIN h.tokens = {}
        \/ DOMAIN h.keys = {0, 1} /\ DOMAIN h.tokens = {0} /\ h.tokens[0] = ObsoleteToken(1)
    <3>1. DOMAIN <<>> = {}
      OBVIOUS
    <3> QED BY <2>1, <3>1
  <2>7. \A i \in DOMAIN h.tokens : DOMAIN h.tokens[i] = TokenFields /\ h.tokens[i].keyslots = {1} /\ h.tokens[i].obsolete
    BY <2>6 DEF ObsoleteToken, TokenFields
  <2> HIDE DEF h
  <2>8. DeviceIs(h, {}, {})
    <3>1. \A i \in DOMAIN h.tokens : HasItsKeyslot(h, i)
      BY <2>5, <2>6, <2>7 DEF HasItsKeyslot, Fits
    <3>2. TokensApart(h)
      BY <2>6 DEF TokensApart
    <3> QED BY <2>5, <3>1, <3>2 DEF DeviceIs
  <2>9. FirstKept(h)
    BY <2>3, <2>5, <2>7 DEF FirstKept
  <2>10. HeaderTypeOK(h)
    <3>1. DOMAIN h.keys \subseteq Numbers /\ DOMAIN h.keys # {}
      BY <2>3, KeyslotsAssumption DEF Numbers
    <3> QED BY <2>2, <2>5, <2>7, <3>1 DEF HeaderTypeOK, KeyOK
  <2> QED BY <2>8, <2>9, <2>10 DEF h
<1>3. DOMAIN command = Commands /\ \A p \in Commands : command[p] = Idle
  BY <1>1
<1>4. KeyslotTypeOK
  BY <1>1, <1>2, <1>3, IdleIs DEF KeyslotTypeOK
<1>5. OpenerInv
  BY <1>2, <1>3, IdleIs DEF OpenerInv
<1>6. CommandFits(Idle, header, marred)
  BY <1>2, IdleFits
<1>7. TokensInv
  BY <1>3, <1>6 DEF TokensInv, OthersIdle
<1> QED BY <1>4, <1>5, <1>7 DEF KeyslotIInv

LEMMA KeyslotIInvIsKept ==
  ASSUME KeyslotIInv, [KeyslotNext(Commands, Devices, Range(Recipes))]_keyslotVars
  PROVE  KeyslotIInv'
<1>1. CASE UNCHANGED <<header, secrets, command, marred, byHand>>
  <2>1. KeyslotTypeOK /\ OpenerInv /\ TokensInv
    BY DEF KeyslotIInv
  <2>2. KeyslotTypeOK' /\ OpenerInv'
    BY <1>1, <2>1 DEF KeyslotTypeOK, OpenerInv
  <2>3. TokensInv'
    BY <1>1, <2>1 DEF TokensInv, OthersIdle, Quiet
  <2> QED BY <2>2, <2>3 DEF KeyslotIInv
<1>2. CASE UNCHANGED keyslotVars
  BY <1>1, <1>2 DEF keyslotVars
<1>3. ASSUME NEW p \in Commands, CommandStep(p, Devices, Range(Recipes))
      PROVE  KeyslotIInv'
  <2>1. CASE AddsKeyslot(p) \/ ReadsAfter(p) \/ ImportsToken(p)
    BY <2>1, AddsKeyslotKeeps, ReadsAfterKeeps, ImportsTokenKeeps
  <2>2. CASE KillsKeyslot(p) \/ KillRefused(p) \/ RemovesToken(p)
    BY <2>2, KillsKeyslotKeeps, KillRefusedKeeps, RemovesTokenKeeps
  <2>3. CASE RemovesSalt(p) \/ RemovesSlot(p) \/ Cut(p)
    BY <2>3, RemovesSaltOrSlotKeeps, CutKeeps
  <2>4. CASE \E s \in KeySlots : DeleteSlot(p, s)
    BY <2>4, DeleteSlotKeeps
  <2>5. CASE \E d \in Devices : \E k \in Numbers : LuksRemove(p, d, k)
    BY <2>5, LuksRemoveKeeps
  <2>6. CASE \E d \in Devices, r \in Range(Recipes), s \in KeySlots : LuksEnrol(p, d, r, s)
    BY <2>6, LuksEnrolKeeps
  <2>7. CASE \E d \in Devices, r \in Range(Recipes), s \in KeySlots : \E k \in Numbers : LuksMark(p, d, k, r, s)
    BY <2>7, LuksMarkKeeps
  <2> QED BY <1>3, <2>1, <2>2, <2>3, <2>4, <2>5, <2>6, <2>7 DEF CommandStep
<1>4. CASE \E s \in KeySlots : SealsAgain(s) \/ VaultUnenrolled(s)
  BY <1>1, <1>4 DEF SealsAgain, VaultUnenrolled
<1>5. ASSUME NEW d \in Devices,
             \/ AddsPassphrase(d)
             \/ \E k \in Numbers : KillsByHand(d, k)
             \/ \E r \in Range(Recipes), s \in KeySlots : AddsKeyByHand(d, r, s)
      PROVE  KeyslotIInv'
  BY <1>5, AddsPassphraseKeeps, KillsByHandKeeps, AddsKeyByHandKeeps
<1> QED BY <1>2, <1>3, <1>4, <1>5 DEF KeyslotNext

\* The inductive invariant of the keyslots (LuksEnrol, LuksMark, LuksRemove,
\* DeleteSlot): KeyslotIInv holds in every reachable state, for every number of
\* devices, slots and processes that run commands.
THEOREM KeyslotInductive == KeyslotSpec => []KeyslotIInv
<1>1. KeyslotInit => KeyslotIInv
  BY KeyslotIInvStarts
<1>2. KeyslotIInv /\ [KeyslotNext(Commands, Devices, Range(Recipes))]_keyslotVars => KeyslotIInv'
  BY KeyslotIInvIsKept
<1> QED BY <1>1, <1>2, PTL DEF KeyslotSpec

\* However commands interleave, are cancelled or cut short, a device keeps a
\* keyslot, and a passphrase of the person's unless it was taken out by hand.
LEMMA AnOpenerIsLeft == KeyslotIInv => OpenerLeft
<1> SUFFICES ASSUME KeyslotIInv, NEW d \in Devices
             PROVE  /\ header[d].keys # <<>>
                    /\ d \in byHand \/ \E k \in DOMAIN header[d].keys : header[d].keys[k][1] = "passphrase"
  BY DEF OpenerLeft
<1>1. DOMAIN header[d].keys # {}
  BY DEF KeyslotIInv, KeyslotTypeOK, HeaderTypeOK
<1>2. DOMAIN <<>> = {}
  OBVIOUS
<1>3. d \in byHand \/ FirstKept(header[d])
  BY DEF KeyslotIInv, OpenerInv
<1> QED BY <1>1, <1>2, <1>3 DEF FirstKept

\* A token that is not obsolete has a keyslot, and says what that is.
LEMMA TokensSayTrue ==
  ASSUME NEW h, DeviceIs(h, {}, {}), NEW i \in DOMAIN h.tokens, ~ h.tokens[i].obsolete
  PROVE  /\ i \notin Orphans(h)
         /\ \A k \in h.tokens[i].keyslots :
              /\ h.keys[k][1] = "recipe" /\ h.keys[k][2] = h.tokens[i].recipe
              /\ Bound(h.tokens[i].recipe) => h.keys[k][3] = h.tokens[i].slot
<1>1. PICK k \in DOMAIN h.keys : h.tokens[i].keyslots = {k} /\ Fits(h.keys[k], h.tokens[i])
  BY TokensAreThere
<1>2. i \notin Orphans(h)
  BY <1>1 DEF Orphans
<1> QED BY <1>1, <1>2 DEF Fits

\* A keyslot made with a recipe has a token of that recipe and its slot.
LEMMA MadeAsToken ==
  ASSUME NEW h, DeviceIs(h, {}, {}), NEW k \in Kiras(h), h.keys[k][1] = "recipe"
  PROVE  \E t \in TokenOf(h, h.keys[k][2]) : Bound(h.keys[k][2]) => t.slot = h.keys[k][3]
<1>1. PICK i \in TokensOf(h, k) : TRUE
  BY DEF Kiras
<1>2. i \in DOMAIN h.tokens /\ k \in h.tokens[i].keyslots
  BY <1>1 DEF TokensOf
<1>3. Fits(h.keys[k], h.tokens[i])
  BY <1>2, TokensAreThere
<1>4. ~ h.tokens[i].obsolete /\ h.tokens[i].recipe = h.keys[k][2] /\ (Bound(h.keys[k][2]) => h.keys[k][3] = h.tokens[i].slot)
  BY <1>3 DEF Fits
<1>5. h.tokens[i] \in TokenOf(h, h.keys[k][2])
  BY <1>2, <1>4 DEF TokenOf
<1> QED BY <1>4, <1>5

\* The keys of the boot are all of one recipe's tokens.
LEMMA DiskKeyIs ==
  ASSUME NEW h, NEW key \in DiskKey(h)
  PROVE  \E r : DiskKey(h) = typedKey(h, r)
<1> DEFINE able == SelectSeq(RecipesOfTokens(h), LAMBDA x : Answers(h, x))
<1>1. DiskKey(h) = IF able = <<>> THEN {} ELSE typedKey(h, Head(able))
  BY DEF DiskKey
<1> HIDE DEF able
<1>2. DiskKey(h) = typedKey(h, Head(able))
  BY <1>1
<1> QED BY <1>2

\* The boot's key opens a keyslot, when the secret of one of its recipe is held.
LEMMA TheKeyOpens ==
  ASSUME NEW h, HeaderTypeOK(h), DeviceIs(h, {}, {}), NEW k \in Kiras(h), NEW key \in DiskKey(h),
         h.keys[k][1] = "recipe", h.keys[k][2] = key[1], Bound(key[1]) => h.keys[k][4] = Held(key[1], h.keys[k][3])
  PROVE  \E x \in DiskKey(h), j \in DOMAIN h.keys : OpensKeyslot(h.keys[j], x)
<1>1. PICK r : DiskKey(h) = typedKey(h, r)
  BY DiskKeyIs
<1> DEFINE Of(t) == IF r = RecipeRecovery \/ Held(r, t.slot) = 0 THEN <<RecipeRecovery>> ELSE <<r, t.slot, Held(r, t.slot)>>
<1>2. DiskKey(h) = {Of(t) : t \in TokenOf(h, r)}
  BY <1>1 DEF typedKey
<1>3. k \in DOMAIN h.keys /\ h.keys[k][4] \in Nat \ {0}
  <2>1. k \in DOMAIN h.keys
    BY DEF Kiras
  <2> QED BY <2>1 DEF HeaderTypeOK, KeyOK
<1>4. PICK t0 \in TokenOf(h, r) : key = Of(t0)
  BY <1>2
<1>5. CASE key = <<RecipeRecovery>>
  <2>1. Len(key) = 1
    BY <1>5
  <2>2. OpensKeyslot(h.keys[k], key)
    BY <2>1 DEF OpensKeyslot
  <2> QED BY <1>3, <2>2
<1>6. CASE key # <<RecipeRecovery>>
  <2>1. key = <<r, t0.slot, Held(r, t0.slot)>> /\ r # RecipeRecovery /\ Held(r, t0.slot) # 0
    BY <1>4, <1>6
  <2>2. key[1] = r
    BY <2>1
  <2>3. Bound(r)
    BY <2>1 DEF Held, Bound
  <2>4. PICK t \in TokenOf(h, r) : t.slot = h.keys[k][3]
    BY <2>2, <2>3, MadeAsToken
  <2>5. h.keys[k][4] = Held(r, t.slot) /\ Held(r, t.slot) # 0
    BY <1>3, <2>2, <2>3, <2>4
  <2>6. Of(t) = <<r, t.slot, Held(r, t.slot)>> /\ Of(t) \in DiskKey(h)
    BY <1>2, <2>1, <2>4, <2>5
  <2> DEFINE x == <<r, t.slot, Held(r, t.slot)>>
  <2>7. Len(x) = 3 /\ <<h.keys[k][2], h.keys[k][3], h.keys[k][4]>> = x
    BY <2>2, <2>4, <2>5
  <2> HIDE DEF x
  <2>8. OpensKeyslot(h.keys[k], x)
    BY <2>7 DEF OpensKeyslot
  <2> QED BY <1>3, <2>6, <2>8 DEF x
<1> QED BY <1>5, <1>6

\* On a device whose commands came to their end one at a time the tokens say what
\* the keyslots are, and the boot makes of them a key whose secret is held.
LEMMA TheTokensAreTrue == KeyslotIInv => TokensTrue
<1> SUFFICES ASSUME KeyslotIInv, Quiet, NEW d \in Devices \ marred
             PROVE  LET h == header[d] IN
                    /\ \A k \in DOMAIN h.keys : h.keys[k][1] = "recipe" /\ h.keys[k][5] = "enrolled" => k \in Kiras(h)
                    /\ \A i \in DOMAIN h.tokens : ~ h.tokens[i].obsolete =>
                         /\ i \notin Orphans(h)
                         /\ \A k \in h.tokens[i].keyslots :
                              /\ h.keys[k][1] = "recipe" /\ h.keys[k][2] = h.tokens[i].recipe
                              /\ Bound(h.tokens[i].recipe) => h.keys[k][3] = h.tokens[i].slot
                    /\ (\E k \in Kiras(h) : \E key \in DiskKey(h) : h.keys[k][1] = "recipe" /\ h.keys[k][2] = key[1]
                          /\ (Bound(key[1]) => h.keys[k][4] = Held(key[1], h.keys[k][3])))
                       => \E key \in DiskKey(h), k \in DOMAIN h.keys : OpensKeyslot(h.keys[k], key)
  BY DEF TokensTrue
<1> DEFINE h == header[d]
<1>1. HeaderTypeOK(h) /\ marred # Devices
  BY DEF KeyslotIInv, KeyslotTypeOK
<1>2. CommandFits(Idle, header, marred)
  BY <1>1 DEF KeyslotIInv, TokensInv
<1>3. DeviceIs(h, {}, {})
  BY <1>2, IdleFits
<1>4. \A k \in DOMAIN h.keys : h.keys[k][1] = "recipe" /\ h.keys[k][5] = "enrolled" => k \in Kiras(h)
  BY <1>3 DEF DeviceIs
<1>5. \A i \in DOMAIN h.tokens : ~ h.tokens[i].obsolete =>
        /\ i \notin Orphans(h)
        /\ \A k \in h.tokens[i].keyslots :
             /\ h.keys[k][1] = "recipe" /\ h.keys[k][2] = h.tokens[i].recipe
             /\ Bound(h.tokens[i].recipe) => h.keys[k][3] = h.tokens[i].slot
  BY <1>3, TokensSayTrue
<1>6. ASSUME NEW k \in Kiras(h), NEW key \in DiskKey(h), h.keys[k][1] = "recipe", h.keys[k][2] = key[1],
             Bound(key[1]) => h.keys[k][4] = Held(key[1], h.keys[k][3])
      PROVE  \E x \in DiskKey(h), j \in DOMAIN h.keys : OpensKeyslot(h.keys[j], x)
  BY <1>1, <1>3, <1>6, TheKeyOpens
<1> QED BY <1>4, <1>5, <1>6

\* No command leaves a device without a key that opens it, nor a token that names
\* a recipe its keyslot is not made with (LuksEnrol, LuksRemove, DeleteSlot,
\* DiskKey), for every number of devices, slots and processes that run commands.
THEOREM DisksStayOpen == KeyslotSpec => []DisksOpen
<1>1. KeyslotIInv => DisksOpen
  BY AnOpenerIsLeft, TheTokensAreTrue DEF DisksOpen
<1> QED BY <1>1, KeyslotInductive, PTL
=============================================================================
