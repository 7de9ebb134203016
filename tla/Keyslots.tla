------------------------------ MODULE Keyslots ------------------------------
(* The LUKS keyslots of tpm2-kira (internal/admin/luks.go, slot_remove.go, *)
(* internal/diskkey): their recipes, the tokens that say which keyslot is  *)
(* made how, the commands that enrol, mark and remove them, and the key    *)
(* the boot makes as the header says.                                      *)
(*                                                                         *)
(* cryptsetup changes a header in one step; a command is several of them,  *)
(* with a prompt in between, and nothing locks one command out of another. *)
EXTENDS Integers, Sequences, FiniteSets, FiniteSetsExt, Functions, Outcomes

CONSTANTS
  Devices,      \* the LUKS2 devices
  KeySlots,     \* the numbers of the slots keyslots are bound to
  Commands,     \* the processes that run tpm2-kira's commands
  MaxNumber,    \* bound: the keyslot numbers of a header are 0..MaxNumber
  MaxSecrets    \* bound: how many keys are ever made

ASSUME KeyslotsAssumption == MaxNumber \in Nat \ {0} /\ MaxSecrets \in Nat   \* LUKS2 has keyslots 0 to 31

VARIABLES
  header,   \* device -> its keyslots (number -> key) and tokens (id -> token)
  slot,     \* slot -> what it and its devices hold: the salts' secrets, 0 none; Absent: no slot
  secrets,  \* how many keys have been made
  command,  \* process -> how far its command is
  marred,   \* the devices a command was cut short on, or two at once
  byHand    \* the devices whose passphrase the person took out by hand

keyslotVars == <<header, slot, secrets, command, marred, byHand>>
----------------------------------------------------------------------------
(* Recipes.                                                                *)

Recipe(password, salt, pepper, keyboard) ==
  [password |-> password, salt |-> salt, pepper |-> pepper, keyboard |-> keyboard]

RecipeRecovery == Recipe("typed", "typed", FALSE, FALSE)
RecipeTPMSalt == Recipe("typed", "tpm", FALSE, FALSE)
RecipePhoneSalt == Recipe("typed", "phone", FALSE, FALSE)
RecipeVaultSalt == Recipe("typed", "vault", FALSE, FALSE)
RecipeUnattendedVault == Recipe("tpm", "vault", FALSE, FALSE)

Recipes ==
  <<RecipeUnattendedVault, Recipe("tpm", "vault", TRUE, FALSE),
    RecipeVaultSalt, Recipe("typed", "vault", TRUE, FALSE), Recipe("typed", "vault", FALSE, TRUE),
    RecipePhoneSalt, Recipe("typed", "phone", FALSE, TRUE), RecipeTPMSalt, RecipeRecovery>>

Unattended(r) == r.password = "tpm"
Bound(r) == Unattended(r) \/ r.salt # "typed"

Check(r) ==
  /\ Unattended(r) => r.salt = "vault"
  /\ r.keyboard => r.password = "typed" /\ r.salt \in {"phone", "vault"} /\ ~ r.pepper
  /\ r.pepper => r.salt = "vault"

RecipeOf(password, salt, pepper, keyboard) ==
  LET r == Recipe(password, salt, pepper, keyboard) IN IF Check(r) THEN r ELSE Refused
----------------------------------------------------------------------------
(* Headers.  A key is a passphrase of the person's, or made with a recipe: *)
(* of which slot, and of which secret there.                               *)

Passphrase(n) == <<"passphrase", n>>
MadeWith(r, s, n, how) == <<"recipe", r, s, n, how>>

Numbers == 0..MaxNumber
Lowest(taken) == {n \in Numbers : n \notin taken /\ \A m \in 0..n - 1 : m \in taken}

Token(r, k, s) == [keyslots |-> {k}, recipe |-> r, slot |-> IF Bound(r) THEN s ELSE Absent, obsolete |-> FALSE]
ObsoleteToken(k) == [keyslots |-> {k}, recipe |-> Absent, slot |-> Absent, obsolete |-> TRUE]
BoundTo(t, s) == ~ t.obsolete /\ t.slot = s

\* The token of a keyslot, and the keyslots of a header (parseLuksMetadata).
TokensOf(h, k) == {i \in DOMAIN h.tokens : k \in h.tokens[i].keyslots \intersect DOMAIN h.keys}
Kiras(h) == {k \in DOMAIN h.keys : TokensOf(h, k) # {}}
KeyslotsOf(h) == [k \in DOMAIN h.keys |-> IF TokensOf(h, k) = {} THEN Absent ELSE CHOOSE i \in TokensOf(h, k) : TRUE]
Orphans(h) == {i \in DOMAIN h.tokens : h.tokens[i].keyslots \intersect DOMAIN h.keys = {}}

WithoutKey(f, x) == [y \in DOMAIN f \ {x} |-> f[y]]
With(f, x, v) == [y \in DOMAIN f \union {x} |-> IF y = x THEN v ELSE f[y]]

\* cryptsetup: luksAddKey takes the first free keyslot, luksKillSlot lets the
\* tokens of the keyslot go, "token import" takes only keyslots there are.
AddKey(h, key) == {[h EXCEPT !.keys = With(@, n, key)] : n \in Lowest(DOMAIN h.keys)}
KillSlot(h, k) ==
  [keys |-> WithoutKey(h.keys, k), tokens |-> [i \in DOMAIN h.tokens |-> [h.tokens[i] EXCEPT !.keyslots = @ \ {k}]]]
ImportToken(h, t) ==
  IF t.keyslots \subseteq DOMAIN h.keys THEN {[h EXCEPT !.tokens = With(@, i, t)] : i \in Lowest(DOMAIN h.tokens)} ELSE {}

\* A passphrase or a key file that luksKillSlot or luksAddKey accepts: one of a
\* keyslot other than the one that is to go.
Authorises(h, existing, k) == \E j \in DOMAIN h.keys \ {k} : h.keys[j] = existing
----------------------------------------------------------------------------
(* What the slots hold.                                                    *)

NewSlot == [phone |-> TRUE, key |-> FALSE, tpm |-> 0, salt |-> 0, vault |-> 0, as |-> Absent]

\* The secret the slot and its phone or vault give for a recipe.
Held(r, s) ==
  IF slot[s] = Absent THEN 0
  ELSE CASE r.salt = "tpm" -> slot[s].tpm [] r.salt = "phone" -> slot[s].salt
         [] r.salt = "vault" -> IF slot[s].as = r THEN slot[s].vault ELSE 0
         [] OTHER -> 0

checkRemoteSaltReady(s) == slot[s] # Absent /\ slot[s].phone /\ slot[s].key
checkRemoteSaltReadyOrEnrolable(s) == slot[s] # Absent /\ slot[s].phone
checkVaultReady(s, r) == slot[s] # Absent /\ slot[s].vault # 0 /\ slot[s].as = r

\* The slot with a new secret for a recipe; a salt of the TPM or the phone
\* replaces the one before, a vault is taken out first.
Enrolled(r, s, n) ==
  CASE r.salt = "typed" -> {slot[s]}
    [] slot[s] = Absent -> {}
    [] r.salt = "tpm" -> {[slot[s] EXCEPT !.tpm = n, !.key = TRUE]}
    [] r.salt = "phone" -> IF checkRemoteSaltReadyOrEnrolable(s) THEN {[slot[s] EXCEPT !.salt = n, !.key = TRUE]} ELSE {}
    [] r.salt = "vault" -> IF slot[s].vault = 0 THEN {[slot[s] EXCEPT !.vault = n, !.as = r]} ELSE {}
----------------------------------------------------------------------------
Idle == [at |-> "idle"]

KeyslotInit ==
  /\ header \in [Devices ->
       {[keys |-> [k \in {0} |-> Passphrase(k)], tokens |-> <<>>],
        [keys |-> [k \in {0, 1} |-> Passphrase(k)], tokens |-> [i \in {0} |-> ObsoleteToken(1)]]}]
  /\ slot = [s \in KeySlots |-> NewSlot]
  /\ secrets = 1 /\ command = [p \in Commands |-> Idle]
  /\ marred = {} /\ byHand = {}

OtherCommands(p) == {q \in Commands \ {p} : command[q] # Idle}

\* A command begins: a second one at a time mars whatever they touch.
Begin(p, c) ==
  /\ command[p] = Idle
  /\ command' = [command EXCEPT ![p] = c]
  /\ marred' = IF OtherCommands(p) = {} THEN marred ELSE Devices

Go(p, c) == command' = [command EXCEPT ![p] = c] /\ UNCHANGED <<marred, byHand>>
End(p) == Go(p, Idle)
Change(d, h) == header' = [header EXCEPT ![d] = h]

\* luks enrol: the header as it is before, the key and what holds its salt.
LuksEnrol(p, d, r, s) ==
  /\ Check(r) /\ secrets < MaxSecrets
  /\ Kiras(header[d]) # DOMAIN header[d].keys        \* a recovery passphrase
  /\ \E after \in Enrolled(r, s, secrets + 1) : slot' = [slot EXCEPT ![s] = after]
  /\ secrets' = secrets + 1
  /\ Begin(p, [at |-> "add", d |-> d, r |-> r, s |-> s, before |-> DOMAIN header[d].keys,
               key |-> MadeWith(r, s, secrets + 1, "enrolled")])
  /\ UNCHANGED <<header, byHand>>

\* luksAddKey, authorised by an existing passphrase; what it refuses ends the
\* command, and the slot keeps the new salt.
AddsKeyslot(p) ==
  LET c == command[p] IN
  /\ c.at = "add"
  /\ \/ \E h \in AddKey(header[c.d], c.key) : Change(c.d, h) /\ Go(p, [c EXCEPT !.at = "after"])
     \/ End(p) /\ UNCHANGED header
  /\ UNCHANGED <<slot, secrets>>

\* The new keyslot: the last one that was not there before.
\* Mutant: the first of the header.
newSlot_First(p) == Min(DOMAIN header[command[p].d].keys)
newSlot(p) == Max(DOMAIN header[command[p].d].keys \ command[p].before)

ReadsAfter(p) ==
  LET c == command[p] IN
  /\ c.at = "after"
  /\ IF DOMAIN header[c.d].keys \ c.before = {} THEN End(p)
     ELSE Go(p, [at |-> "import", d |-> c.d, token |-> Token(c.r, newSlot(p), c.s)])
  /\ UNCHANGED <<header, slot, secrets>>

ImportsToken(p) ==
  LET c == command[p] IN
  /\ c.at = "import"
  /\ LET after == ImportToken(header[c.d], c.token) IN
     IF after = {} THEN UNCHANGED header /\ marred' = marred \union {c.d}
     ELSE (\E h \in after : Change(c.d, h)) /\ UNCHANGED marred
  /\ command' = [command EXCEPT ![p] = Idle]
  /\ UNCHANGED <<slot, secrets, byHand>>

\* luks mark: the token for a keyslot whose key was made by hand.
LuksMark(p, d, k, r, s) ==
  /\ Check(r) /\ r # RecipeTPMSalt
  /\ Bound(r) => IF r.salt = "vault" THEN checkVaultReady(s, r) ELSE checkRemoteSaltReady(s)
  /\ k \in DOMAIN header[d].keys \ Kiras(header[d])
  /\ \E n \in 1..MaxSecrets : header[d].keys[k] = MadeWith(r, s, n, "by hand")   \* the person says what is so
  /\ Begin(p, [at |-> "import", d |-> d, token |-> Token(r, k, s)])
  /\ UNCHANGED <<header, slot, secrets, byHand>>

\* What is to be killed, in the order of the devices and their keyslots.
Job(d, k) == [d |-> d, k |-> k, id |-> KeyslotsOf(header[d])[k]]

\* luks remove: never a keyslot that is not tpm2-kira's, never the last one.
\* The salt of this TPM goes with it when no other keyslot of the device has it.
LuksRemove(p, d, k) ==
  LET h == header[d]  t == h.tokens[KeyslotsOf(h)[k]] IN
  /\ k \in Kiras(h) /\ Cardinality(DOMAIN h.keys) > 1
  /\ Begin(p, [at |-> "kill", jobs |-> {Job(d, k)}, what |-> "remove",
       s |-> IF t.obsolete \/ t.recipe # RecipeTPMSalt THEN Absent
             ELSE IF \E j \in Kiras(h) \ {k} : LET u == h.tokens[KeyslotsOf(h)[j]] IN
                       BoundTo(u, t.slot) /\ u.recipe = RecipeTPMSalt THEN Absent ELSE t.slot])
  /\ UNCHANGED <<header, slot, secrets, byHand>>

\* control's deletion of a slot: its keyslots on every device but one they are
\* all the keyslots of; what is there of the slot goes whatever became of them.
BoundKeyslots(d, s) == {k \in Kiras(header[d]) : BoundTo(header[d].tokens[KeyslotsOf(header[d])[k]], s)}

DeleteSlot(p, s) ==
  /\ slot[s] # Absent \/ \E d \in Devices : BoundKeyslots(d, s) # {}
  /\ Begin(p, [at |-> "kill", what |-> "delete", s |-> s, cancelled |-> FALSE,
       jobs |-> UNION {{Job(d, k) : k \in BoundKeyslots(d, s)} :
                         d \in {e \in Devices : BoundKeyslots(e, s) # DOMAIN header[e].keys}}])
  /\ UNCHANGED <<header, slot, secrets, byHand>>

NextJobs(jobs) == {j \in jobs : \A i \in jobs : i.d = j.d => j.k <= i.k}

\* luksKillSlot: authorised by a passphrase or key that stays.
killKeyslot(h, k) == k \in DOMAIN h.keys /\ \E key \in Range(h.keys) : Authorises(h, key, k)

KillsKeyslot(p) ==
  LET c == command[p] IN
  /\ c.at = "kill"
  /\ \E j \in NextJobs(c.jobs) :
       /\ killKeyslot(header[j.d], j.k)
       /\ Change(j.d, KillSlot(header[j.d], j.k))
       /\ Go(p, With([c EXCEPT !.at = "token", !.jobs = @ \ {j}], "job", j))
  /\ UNCHANGED <<slot, secrets>>

\* The prompt is cancelled, or what was typed authorises nothing: luks remove
\* ends; the deletion goes on, after a cancelled prompt without the device.
KillRefused(p) ==
  LET c == command[p] IN
  /\ c.at = "kill"
  /\ \E j \in NextJobs(c.jobs) :
       \/ c.what = "remove" /\ End(p)
       \/ c.what = "delete" /\ Go(p, [c EXCEPT !.jobs = {i \in @ : i.d # j.d}, !.cancelled = TRUE])
       \/ c.what = "delete" /\ Go(p, [c EXCEPT !.jobs = @ \ {j}])
  /\ UNCHANGED <<header, slot, secrets>>

RemovesToken(p) ==
  LET c == command[p] IN
  /\ c.at = "token"
  /\ header' = [header EXCEPT ![c.job.d].tokens = WithoutKey(@, c.job.id)]
  /\ Go(p, IF c.what = "remove" /\ c.s = Absent THEN Idle
           ELSE [x \in DOMAIN c \ {"job"} |-> IF x = "at" THEN IF c.what = "remove" THEN "salt" ELSE "kill" ELSE c[x]])
  /\ UNCHANGED <<slot, secrets>>

\* removeTPMSalt; without the signing key it stays, with a note.
RemovesSalt(p) ==
  LET c == command[p] IN
  /\ c.at = "salt"
  /\ \/ slot' = [slot EXCEPT ![c.s] = IF @ = Absent THEN Absent ELSE [@ EXCEPT !.tpm = 0]]
     \/ UNCHANGED slot
  /\ End(p) /\ UNCHANGED <<header, secrets>>

RemovesSlot(p) ==
  LET c == command[p] IN
  /\ c.at = "kill" /\ c.jobs = {} /\ c.what = "delete"
  /\ slot' = [slot EXCEPT ![c.s] = Absent]
  /\ End(p) /\ UNCHANGED <<header, secrets>>

\* A command ends in the middle: power, a signal, cryptsetup failing.
Cut(p) ==
  /\ command[p] # Idle
  /\ command' = [command EXCEPT ![p] = Idle] /\ marred' = Devices
  /\ UNCHANGED <<header, slot, secrets, byHand>>

Quiet == \A p \in Commands : command[p] = Idle

MarkIfBusy == marred' = IF Quiet THEN marred ELSE Devices

\* By hand, with cryptsetup: another passphrase, a key made with "derive" or
\* "phone salt enrol --out", a passphrase taken out.
AddsPassphrase(d) ==
  /\ secrets < MaxSecrets /\ secrets' = secrets + 1
  /\ \E h \in AddKey(header[d], Passphrase(secrets + 1)) : Change(d, h)
  /\ MarkIfBusy /\ UNCHANGED <<slot, command, byHand>>

AddsKeyByHand(d, r, s) ==
  /\ secrets < MaxSecrets /\ secrets' = secrets + 1
  /\ r.salt \in {"typed", "phone"} /\ Quiet
  /\ \E after \in Enrolled(r, s, secrets + 1) : slot' = [slot EXCEPT ![s] = after]
  /\ \E h \in AddKey(header[d], MadeWith(r, s, secrets + 1, "by hand")) : Change(d, h)
  /\ UNCHANGED <<command, marred, byHand>>

KillsByHand(d, k) ==
  /\ k \in DOMAIN header[d].keys \ Kiras(header[d])
  /\ \E key \in Range(header[d].keys) : Authorises(header[d], key, k)
  /\ Change(d, KillSlot(header[d], k)) /\ byHand' = byHand \union {d}
  /\ MarkIfBusy /\ UNCHANGED <<slot, secrets, command>>

\* slot add, and vault unenrol (SlotStore has them in full).
SealsAgain(s) ==
  /\ slot[s] = Absent /\ slot' = [slot EXCEPT ![s] = NewSlot]
  /\ UNCHANGED <<header, secrets, command, marred, byHand>>
VaultUnenrolled(s) ==
  /\ slot[s] # Absent /\ slot[s].vault # 0
  /\ slot' = [slot EXCEPT ![s].vault = 0, ![s].as = Absent]
  /\ UNCHANGED <<header, secrets, command, marred, byHand>>

CommandStep(p, D, R) ==
  \/ AddsKeyslot(p) \/ ReadsAfter(p) \/ ImportsToken(p) \/ KillsKeyslot(p) \/ KillRefused(p)
  \/ RemovesToken(p) \/ RemovesSalt(p) \/ RemovesSlot(p) \/ Cut(p)
  \/ \E s \in KeySlots : DeleteSlot(p, s)
  \/ \E d \in D : \E k \in Numbers : LuksRemove(p, d, k)
  \/ \E d \in D, r \in R, s \in KeySlots :
       LuksEnrol(p, d, r, s) \/ \E k \in Numbers : LuksMark(p, d, k, r, s)

\* The processes P work on the devices D, with the recipes R.
KeyslotNext(P, D, R) ==
  \/ \E p \in P : CommandStep(p, D, R)
  \/ \E s \in KeySlots : SealsAgain(s) \/ VaultUnenrolled(s)
  \/ \E d \in D :
       \/ AddsPassphrase(d)
       \/ \E k \in Numbers : KillsByHand(d, k)
       \/ \E r \in R, s \in KeySlots : AddsKeyByHand(d, r, s)
\* All of them, with every recipe.
KeyslotSpec == KeyslotInit /\ [][KeyslotNext(Commands, Devices, Range(Recipes))]_keyslotVars
----------------------------------------------------------------------------
(* The boot, when a volume asks for its key.                               *)

\* The recipes of a header in the order they are tried.
RecipesOfTokens(h) ==
  SelectSeq(Recipes, LAMBDA r : \E i \in DOMAIN h.tokens : ~ h.tokens[i].obsolete /\ h.tokens[i].recipe = r)
TokenOf(h, r) == {h.tokens[i] : i \in {j \in DOMAIN h.tokens : ~ h.tokens[j].obsolete /\ h.tokens[j].recipe = r}}

\* The secret of a typed key: the salt the phone, the vault or this TPM gave,
\* or without one the salt the person types, as for the recovery recipe.
\* A keyboard's pepper is only for a salt and a layout that came.
typedKey(h, r) ==
  {LET n == Held(r, t.slot) IN
     IF r = RecipeRecovery \/ n = 0 THEN <<RecipeRecovery>> ELSE <<r, t.slot, n>> : t \in TokenOf(h, r)}

\* The recipe whose key is made: the first that needs somebody, or that needs
\* nobody and has its key from the vault; Absent leaves it to cryptsetup.
Answers(h, r) == ~ Unattended(r) \/ \E t \in TokenOf(h, r) : Held(r, t.slot) # 0
DiskKey(h) ==
  LET able == SelectSeq(RecipesOfTokens(h), LAMBDA r : Answers(h, r)) IN
  IF able = <<>> THEN {} ELSE typedKey(h, Head(able))

\* A key of the boot opens a keyslot made with it.
OpensKeyslot(k, key) ==
  k[1] = "recipe" /\ IF Len(key) = 1 THEN k[2] = key[1] ELSE <<k[2], k[3], k[4]>> = key
----------------------------------------------------------------------------
(* Properties.                                                             *)

\* However the commands interleave, are cancelled or cut short (LuksRemove,
\* DeleteSlot, killKeyslot), a device keeps a keyslot, and a passphrase of the
\* person's unless that was taken out by hand.
OpenerLeft ==
  \A d \in Devices :
    /\ header[d].keys # <<>>
    /\ d \in byHand \/ \E k \in DOMAIN header[d].keys : header[d].keys[k][1] = "passphrase"

\* On a device whose commands came to their end one at a time (LuksEnrol, LuksMark,
\* LuksRemove, killKeyslot), the tokens say what the keyslots are, none is left
\* over, and from them the boot can make the key of a keyslot of the first recipe,
\* when the secret of one is still held (RecipesOfTokens, DiskKey, TokenOf).
TokensTrue ==
  Quiet => \A d \in Devices \ marred :
    LET h == header[d] IN
    /\ \A k \in DOMAIN h.keys : h.keys[k][1] = "recipe" /\ h.keys[k][5] = "enrolled" => k \in Kiras(h)
    /\ \A i \in DOMAIN h.tokens : ~ h.tokens[i].obsolete =>
         /\ i \notin Orphans(h)
         /\ \A k \in h.tokens[i].keyslots :
              /\ h.keys[k][1] = "recipe" /\ h.keys[k][2] = h.tokens[i].recipe
              /\ Bound(h.tokens[i].recipe) => h.keys[k][3] = h.tokens[i].slot
    /\ (\E k \in Kiras(h) : \E key \in DiskKey(h) : h.keys[k][1] = "recipe" /\ h.keys[k][2] = key[1]
          /\ (Bound(key[1]) => h.keys[k][4] = Held(key[1], h.keys[k][3])))
       => \E key \in DiskKey(h), k \in DOMAIN h.keys : OpensKeyslot(h.keys[k], key)

\* No command leaves a device without a key that opens it, nor a token that names
\* a recipe its keyslot is not made with (LuksEnrol, LuksRemove, DeleteSlot, DiskKey).
DisksOpen == OpenerLeft /\ TokensTrue

\* What "luks enrol" takes, the boot tries (RecipeOf, Check, Recipes).
RecipeTried(p, s, b, k) == RecipeOf(p, s, b, k) # Refused => RecipeOf(p, s, b, k) \in Range(Recipes)

\* slot_remove.go: "The LUKS keyslots first: they need a remaining passphrase,
\* so a Ctrl-C at the prompt leaves everything in place."
CancelLeavesAll ==
  [][\A p \in Commands : command[p].at = "kill" /\ command[p].what = "delete" /\ command[p].cancelled
       => \A s \in KeySlots : s = command[p].s => ~ (slot[s] # Absent /\ slot'[s] = Absent)]_keyslotVars
=============================================================================
