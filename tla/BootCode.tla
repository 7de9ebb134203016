------------------------------ MODULE BootCode ------------------------------
(* What ties a session to the screen before the person: the boot key's     *)
(* offer and its challenge (core/attest bootkey.go), and the one-time      *)
(* keyboard a pepper is typed through (keyboard.go).                       *)
(*                                                                         *)
(* A shared secret is the set of its two keys, a derived key what it is    *)
(* derived from, and what is sealed opens under the same key and context.  *)
EXTENDS Integers, Sequences, SequencesExt, FiniteSets, Functions, Outcomes

CONSTANTS
  KeyboardPepperMin, KeyboardPepperMax,
  Letters   \* bound: the keys of the keyboard, 0..Letters-1

BootKeys == {<<"boot key", 1>>, <<"boot key", 2>>}
Contexts == {<<"session", 1>>, <<"session", 2>>}
SigningKeys == {"own", "other"}
----------------------------------------------------------------------------
(* The challenge.                                                          *)

bootKeys(z, eph, key, qd) == <<z, qd, eph, key>>
bootProof(kMac, qd) == <<"proof", kMac, qd>>

\* The phone's challenge to the key it pinned, and what it keeps.
NewBootChallenge(pinned, qd) ==
  LET eph == <<"ephemeral", qd>>
      k == bootKeys({eph, pinned}, eph, pinned, qd)
  IN [eph |-> eph, sealed |-> [k |-> k, ad |-> qd, code |-> <<"code", qd>>],
      secret |-> [code |-> <<"code", qd>>, kMac |-> k, qd |-> qd]]

\* The machine's side, with what its TPM makes of its own key and the phone's.
Derived(c, key, qd) == bootKeys({c.eph, key}, c.eph, key, qd)
ChallengeOpens(c, key, qd) == c.sealed.k = Derived(c, key, qd) /\ c.sealed.ad = qd
BootChallengeOpened(c, key, qd) == [code |-> c.sealed.code, proof |-> bootProof(Derived(c, key, qd), qd)]
ProofChecks(secret, proof) == proof = bootProof(secret.kMac, secret.qd)

BootSignatureMessage(qd, quote) == <<"boot signature", qd, quote>>
VerifyBootSignature(point, qd, quote, sig) == sig = [by |-> point, over |-> BootSignatureMessage(qd, quote)]

\* The phone and the machine show one code, and the proof and the signature are
\* taken, in the session they were made for and with the key pinned, and in no
\* other: one kept from an earlier boot, or another machine's, is worth nothing.
CodeIsOf(pinned, key, qd, mine) ==
  LET c == NewBootChallenge(pinned, qd)
      a == BootChallengeOpened(c, key, mine)
      before == NewBootChallenge(pinned, mine)
      sig == [by |-> key, over |-> BootSignatureMessage(mine, <<"quote", mine>>)]
      same == pinned = key /\ qd = mine
  IN /\ ChallengeOpens(c, key, mine) <=> same
     /\ same => a.code = c.secret.code /\ ProofChecks(c.secret, a.proof)
     /\ ChallengeOpens(before, key, mine) =>
          (ProofChecks(c.secret, BootChallengeOpened(before, key, mine).proof) <=> qd = mine)
     /\ VerifyBootSignature(pinned, qd, <<"quote", qd>>, sig) <=> same
CodeIsOfTheSession ==
  \A pinned, key \in BootKeys, qd, mine \in Contexts : CodeIsOf(pinned, key, qd, mine)
----------------------------------------------------------------------------
(* The offer.                                                              *)

Attributes == [fixedTPM : BOOLEAN, origin : BOOLEAN, decrypt : BOOLEAN, sign : BOOLEAN,
               restricted : BOOLEAN, userWithAuth : BOOLEAN]
\* BootKeyTemplate: the key CreateBootKey makes.
BootKeyTemplate(policy) ==
  [attributes |-> [fixedTPM |-> TRUE, origin |-> TRUE, decrypt |-> TRUE, sign |-> TRUE,
                   restricted |-> FALSE, userWithAuth |-> FALSE],
   curve |-> "P-256", policy |-> policy]
\* SlotPolicyDigest, of a signing key, a slot's reference and a bank for PCR 15.
SlotPolicyOf(signing, ref, bank) == <<"approved", signing, ref, "open", bank>>
IsSlotPolicy(policy, signing, ref) == \E b \in {"sha256", "sha1"} : policy = SlotPolicyOf(signing, ref, b)

\* The Name of the key certified, the session it was certified for, and by whom.
Certified(by, pub, qd) == [by |-> by, name |-> pub, qd |-> qd, type |-> "certify"]
Offer(pub, certificate, signing, ref) ==
  [pub |-> pub, certificate |-> certificate, signing |-> signing, ref |-> ref]

CheckBootKey(ak, o, qd) ==
  LET a == o.pub.attributes IN
  /\ a.fixedTPM /\ a.origin /\ a.decrypt /\ a.sign /\ ~ a.restricted /\ ~ a.userWithAuth
  /\ o.pub.curve = "P-256"
  /\ o.ref # Absent /\ IsSlotPolicy(o.pub.policy, o.signing, o.ref)
  /\ o.certificate.by = ak /\ o.certificate.type = "certify"
  /\ o.certificate.qd = qd /\ o.certificate.name = o.pub

OfferedPolicies == {SlotPolicyOf(s, r, b) : s \in SigningKeys, r \in {"slot", "old slot"}, b \in {"sha256", "sha1"}}
              \union {<<"none">>}
Publics == [attributes : Attributes, curve : {"P-256", "P-384"}, policy : OfferedPolicies]
Statements(pub) ==
  {Certified(by, p, q) : by \in {"ak", "other ak"}, q \in Contexts,
     p \in {pub, [pub EXCEPT !.attributes.userWithAuth = ~ @]}}
    \union {[Certified("ak", pub, q) EXCEPT !.type = "quote"] : q \in Contexts}

\* A boot key the phone takes is the machine's own, of this session, and one the
\* TPM uses under the slot's approvals alone; the machine's own offer is taken,
\* whichever bank its PCR 15 is in.
OfferIsOf(ak, pub, c, s, r, qd) ==
  LET own == \E b \in {"sha256", "sha1"} : pub = BootKeyTemplate(SlotPolicyOf(s, r, b))
      taken == CheckBootKey(ak, Offer(pub, c, s, r), qd)
  IN /\ taken => own /\ c.by = ak /\ c.name = pub /\ c.qd = qd
     /\ own /\ r # Absent /\ c = Certified(ak, pub, qd) => taken
OfferIsOfTheSlot(pub) ==
  \A c \in Statements(pub), s \in SigningKeys, r \in {"slot", "old slot", Absent} :
    OfferIsOf("ak", pub, c, s, r, <<"session", 1>>)
----------------------------------------------------------------------------
(* The keyboard.  A key is <<index, capital>>; the layout is [key -> what   *)
(* it shows].                                                              *)

\* below, one byte of the stream: what it is worth below n, or another is read.
limit(n) == 256 - (256 % n)
Below(n, b) == IF b < limit(n) THEN b % n ELSE Absent

\* KeyboardLayoutOf: Fisher-Yates, with what the stream gave for each place.
Swapped(f, i, j) == [f EXCEPT ![i] = f[j], ![j] = f[i]]
Swaps == [i \in 1..Letters-1 |-> Letters - i]
KeyboardLayoutOf(draws) ==
  FoldLeft(LAMBDA f, i : Swapped(f, i, draws[i]), [i \in 0..Letters-1 |-> i], Swaps)
Draws == {d \in [1..Letters-1 -> 0..Letters-1] : \A i \in DOMAIN d : d[i] <= i}

keyIndex(k) == k[1]
IsKey(k) == k[1] \in 0..Letters-1
Fits(s) == Len(s) \in KeyboardPepperMin..KeyboardPepperMax
CheckKeyboardPepper(p) == Fits(p) /\ \A i \in DOMAIN p : IsKey(p[i]) /\ ~ p[i][2]
\* Pepper, of what is no ErrKeyboardPepper.
PepperTaken(keys) == Fits(keys) /\ \A i \in DOMAIN keys : IsKey(keys[i])
PepperOf(layout, keys) == [i \in DOMAIN keys |-> <<layout[keyIndex(keys[i])], FALSE>>]
Keys(layout, pepper) ==
  [i \in DOMAIN pepper |-> <<CHOOSE k \in DOMAIN layout : layout[k] = pepper[i][1], FALSE>>]

\* Every draw is as likely as any other, and every layout comes of one draw.
LayoutsEven ==
  /\ \A n \in 2..36 : \A v \in 0..n-1 :
       Cardinality({b \in 0..255 : Below(n, b) = v}) = limit(n) \div n
  /\ \A f \in Bijection(0..Letters-1, 0..Letters-1) : Cardinality({d \in Draws : KeyboardLayoutOf(d) = f}) = 1

\* The keys shown for a pepper, typed with or without Shift, are that pepper, and
\* what is taken for a pepper is one that could have been set.
Shifted(s, caps) == [i \in DOMAIN s |-> <<s[i][1], caps>>]
KeysSay(layout, p, caps) ==
  CheckKeyboardPepper(p) =>
    LET typed == Shifted(Keys(layout, p), caps) IN PepperTaken(typed) /\ PepperOf(layout, typed) = p
TypedIsThePepper(draws) ==
  LET layout == KeyboardLayoutOf(draws)
      Typed == UNION {[1..n -> (0..Letters) \X BOOLEAN] : n \in 0..KeyboardPepperMax + 1}
  IN \A p \in Typed : /\ \A caps \in BOOLEAN : KeysSay(layout, p, caps)
                      /\ PepperTaken(p) => CheckKeyboardPepper(PepperOf(layout, p))

CodeHolds(c) ==
  CASE c[1] = "challenge" -> CodeIsOfTheSession /\ LayoutsEven
    [] c[1] = "offer" -> OfferIsOfTheSlot(c[2])
    [] c[1] = "keyboard" -> TypedIsThePepper(c[2])
    [] OTHER -> TRUE
=============================================================================
