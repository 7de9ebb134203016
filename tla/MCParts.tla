------------------------------ MODULE MCParts ------------------------------
(* The parts that share no state with a boot: the signing card between its *)
(* processes, and the pure algorithms (wire, record, measurements) on every*)
(* small input.  "in" is the case of an algorithm, or whose turn it is.    *)
EXTENDS SigningCard, Wire, SlotBlob, MCMeasure, Keyslots, Route, SlotPolicy,
        SSHScreen, BootWait, Channel, BootCode, BleHost, Gatt

CONSTANTS p1, p2, d1, d2, s1, s2

VARIABLE in

MCProcs == {p1, p2}
MCDevices == {d1, d2}
MCLogins == {s1, s2}
MCWaiters == {p1, p2}
MCWaitOf == p1 :> 2 @@ p2 :> 1
vars == <<in, cardVars, keyslotVars, policyVars, sshVars, waitVars, channelVars, bleVars>>

Cells == 0..2
Strings(n) == UNION {[1..k -> Cells] : k \in 0..n}
Sizes == UNION {{k * MaxEventlogChunk - 1, k * MaxEventlogChunk, k * MaxEventlogChunk + 1} : k \in 1..3}
           \union {1, MaxEventlogSize - 1, MaxEventlogSize}
Chain(n) == UNION {[1..k -> {<<"SecureBoot", 1>>, <<"SecureBoot", 0>>, <<"PK", 0>>, <<"debug">>, <<"separator">>, <<"error separator">>}] : k \in 0..n}

\* The words of a command line and the lines of a crypttab that name volumes.
Words == {Word3("name", "u", x) : x \in {"cryptroot", Socket, "/file"}}
           \union {Word3("key", "u", x) : x \in {Socket, "/file"}}
           \union {Word3("name", "v", "home"), Word3("key", "v", "/file"), Word3("key", "", Socket), Word3("root", "", "")}
Line(key, options) == [name |-> "cryptroot", u |-> "u", key |-> key, options |-> options]
Boots ==
  {[debian |-> FALSE, words |-> w, lines |-> l] :
     w \in UNION {[1..n -> Words] : n \in 0..4}, l \in {<<>>, <<Line("none", <<"none">>)>>}}
    \union {[debian |-> d, words |-> <<>>, lines |-> <<Line(k, o)>>] : d \in BOOLEAN, k \in {"none", Socket, "/file"},
             o \in UNION {[1..n -> {"none", Attach, Keyscript, "keyscript=other"}] : n \in 0..2}}

\* What works on the keyslots: one command at a time on two devices, or two on one.
Turns == {<<"keyslots", {p1}, MCDevices, {RecipeTPMSalt, RecipeUnattendedVault}>>,
          <<"keyslots", {p1}, {d1}, {RecipeRecovery, RecipeTPMSalt, RecipeUnattendedVault, RecipePhoneSalt}>>,
          <<"keyslots", MCProcs, {d1}, {RecipeTPMSalt}>>}

\* Who asks over SSH, who logs in, and the keys typed then.
Prompts == {<<"ssh", {"provider"}, MCLogins, 2>>, <<"ssh", {"agent"}, MCLogins, 2>>, <<"ssh", Askers, {s1}, 2>>,
            <<"ssh", {"provider"}, {s1}, 4>>}

\* The sessions that go on at once.
Talks == {<<"talk", {<<"phone", 1>>, <<"phone", 2>>, <<"machine", 1>>}>>,
          <<"talk", {<<"phone", 1>>, <<"machine", 1>>, <<"other", 1>>}>>}

CardStart == CardInit /\ cardPolicy = "once" /\ stubPolicy = "once" /\ pinSource = [p \in CardProcs |-> "none"]
KeyslotStart == KeyslotInit /\ header = [d \in Devices |-> [keys |-> (0 :> Passphrase(0)), tokens |-> <<>>]]
SSHStart == SSHInit /\ run.at = "off"
PolicyStart == PolicyInit /\ reg = Fresh("as sealed", "signed") /\ rec.signed

\* One part moves in a behaviour, and the others are as they start.
Init ==
  /\ in \in {<<"card">>, <<"policy">>, <<"settings">>, <<"wait">>, <<"ble">>, <<"start">>} \union Turns \union Prompts \union Talks
            \union {<<"booted", p, s>> : p \in Cases, s \in Sane}
  /\ IF in = <<"card">> THEN CardInit ELSE CardStart
  /\ IF in \in Turns THEN KeyslotInit /\ \A d \in Devices \ {d1} : DOMAIN header[d].tokens = {} ELSE KeyslotStart
  /\ IF in = <<"policy">> THEN PolicyInit ELSE PolicyStart
  /\ IF in \in Prompts THEN SSHInit ELSE SSHStart
  /\ WaitInit /\ BleInit
  /\ ChannelInit(IF in \in Talks THEN in[2] ELSE {})

GiveMessage == \E m \in DOMAIN Messages : \E t \in Tags(m), base \in {"least", "most"} :
                 in' = <<"message", m, t, base>>
GiveCells == \E v \in {0, 1}, s \in Strings(6) : in' = <<"cells", <<1, v>> \o s>>
GiveSelection == \E a, b \in UNION {[1..k -> {0, 7, 23, 24}] : k \in 1..3} : in' = <<"selection", a, b>>
GiveText == \E x, y \in [1..2 -> Strings(2)] : in' = <<"text", x, y>>
GiveRecord == \E p \in Payloads : in' = <<"record", p>>
GiveLog == \E n \in Sizes : in' = <<"log", n>>
GiveChain == \E c \in Chain(4), l \in Chain(1), b \in BOOLEAN : in' = <<"chain", c, l, b>>
GiveRoute == \E b \in Boots, v \in {<<"u">>, <<"u", "v">>} : in' = <<"route", b, v>>
GiveRecipe == \E p \in {"typed", "tpm"}, s \in {"typed", "tpm", "phone", "vault"}, b, k \in BOOLEAN :
                in' = <<"recipe", p, s, b, k>>
GiveCode == \/ in' = <<"challenge">>
            \/ \E p \in Publics : in' = <<"offer", p>>
            \/ \E d \in Draws : in' = <<"keyboard", d>>
GiveRadio == \/ \E n \in InfoLengths, c \in Clients : in' = <<"gatt", n, c>>
             \/ \E a, b \in {4, 27, 28, 54, 55, 251, 252}, le \in {<<0, 0>>, <<26, 1>>, <<27, 1>>, <<28, 2>>, <<251, 3>>},
                    br \in {<<0, 0>>, <<27, 0>>, <<1021, 8>>} : in' = <<"pieces", a, b, le, br>>
GiveSpecs == \E l \in SpecLists, b \in {"sha1", SHA256}, m \in {"auto", "on", "off"} :
               in' = <<"specs", [before |-> in[2][1], now |-> in[2][2], sys |-> in[3], specs |-> l, bank |-> b, mode |-> m]>>
Next ==
  \/ in = <<"card">> /\ CardNext /\ UNCHANGED <<in, keyslotVars, policyVars, sshVars, waitVars, channelVars, bleVars>>
  \/ in[1] = "keyslots" /\ KeyslotNext(in[2], in[3], in[4]) /\ UNCHANGED <<in, cardVars, policyVars, sshVars, waitVars, channelVars, bleVars>>
  \/ in = <<"policy">> /\ PolicyNext /\ UNCHANGED <<in, cardVars, keyslotVars, sshVars, waitVars, channelVars, bleVars>>
  \/ in = <<"settings">> /\ SettingsNext /\ UNCHANGED <<in, cardVars, keyslotVars, sshVars, waitVars, channelVars, bleVars>>
  \/ in[1] = "ssh" /\ SSHNext(in[2], in[3], in[4]) /\ UNCHANGED <<in, cardVars, keyslotVars, policyVars, waitVars, channelVars, bleVars>>
  \/ in = <<"wait">> /\ WaitNext /\ UNCHANGED <<in, cardVars, keyslotVars, policyVars, sshVars, channelVars, bleVars>>
  \/ /\ in[1] = "start" /\ UNCHANGED <<cardVars, keyslotVars, policyVars, sshVars, waitVars, channelVars, bleVars>>
     /\ GiveMessage \/ GiveCells \/ GiveSelection \/ GiveText \/ GiveLog \/ GiveRecord \/ GiveChain \/ GiveRoute \/ GiveRecipe
        \/ GiveCode \/ GiveRadio
  \/ in[1] = "booted" /\ GiveSpecs /\ UNCHANGED <<cardVars, keyslotVars, policyVars, sshVars, waitVars, channelVars, bleVars>>
  \/ in[1] = "talk" /\ ChannelNext /\ UNCHANGED <<in, cardVars, keyslotVars, policyVars, sshVars, waitVars, bleVars>>
  \/ in = <<"ble">> /\ BleNext /\ UNCHANGED <<in, cardVars, keyslotVars, policyVars, sshVars, waitVars, channelVars>>
Spec == Init /\ [][Next]_vars

\* What a payload is compared with: itself with one part from another.
Others(p) ==
  {[p EXCEPT !.generation = 3 - @], [p EXCEPT !.measurePoint = 1 - @], [p EXCEPT !.att = NoAttestation]}
    \union {[p EXCEPT !.digests = d] : d \in Digests}
    \union {[p EXCEPT !.att = a] : a \in {b \in Attestations : b.bootKey = 0}}

Base(m, b) == IF b = "least" THEN Least(m) ELSE Most(m)

\* The two ends of the wire agree (see Wire): messages and their limits with up
\* to two fields at an edge, framing, selections, signed texts, the event log.
WireAgrees ==
  CASE in[1] = "message" ->
         LET m == in[2] t == in[3] IN
         \A u \in {x \in Tags(m) : x >= t}, i \in Edges(FieldOf(m, t)) : \A j \in Edges(FieldOf(m, u)) :
           \A v \in {[Base(m, in[4]) EXCEPT ![t] = i, ![u] = j]} : Whole(m, v) => MessageAgrees(m, v)
    [] in[1] = "cells" -> CellsAgree(in[2])
    [] in[1] = "selection" -> SelectionsAgree(in[2], in[3])
    [] in[1] = "text" -> TextsAgree(in[2], in[3])
    [] in[1] = "log" -> LogArrives(in[2])
    [] OTHER -> TRUE

\* A slot's record is read as it was written, or not at all (see SlotBlob).
RecordKept == in[1] = "record" => RecordReads(in[2]) /\ RecordSays(in[2], Others(in[2]))

\* A phone finds what the radio's attributes offer, and the pieces of a PDU are
\* joined to it again (see Gatt).
RadioReads ==
  CASE in[1] = "gatt" -> DiscoveryFindsAll(in[2], in[3])
    [] in[1] = "pieces" -> PiecesJoin(in[2], in[3], in[4], in[5])
    [] OTHER -> TRUE

\* What one end writes is what the other reads, or it is refused; and the code, the
\* boot key and the keyboard that both ends of a session work out are of it alone
\* (see BootCode).
CodecsAgree == WireAgrees /\ RecordKept /\ RadioReads /\ CodeHolds(in)

\* What a slot is sealed to is what the next boot measures (see Measure:
\* SealHolds, SealOpens with ascending specs, ImageChecked, LockedSays).
PredictionHolds ==
  in[1] = "specs" => SealHolds(in[2]) /\ SealOpens(in[2]) /\ ImageChecked(in[2]) /\ LockedSays(in[2])

\* eventlog.go, BuildPCRDigest: "The digest is the hash of the concatenated PCR
\* values in the order specified", and ParsePCRSpecs takes them in any order.
AnyOrderOpens == in[1] = "specs" => SealOpens([in[2] EXCEPT !.specs = Unordered])

\* What is advised for the route of the disk's key comes right, and every recipe
\* taken is one the boot tries (see Route, Keyslots).
RouteHolds ==
  CASE in[1] = "route" -> RouteComesRight(in[2], in[3])
    [] in[1] = "recipe" -> RecipeTried(in[2], in[3], in[4], in[5])
    [] OTHER -> TRUE

\* What a phone is told of a boot, and reads from a quote, holds of it (see
\* Measure: BaselineHolds, CoverageMeans, SecureBootHolds).
FindingsHold ==
  CASE in[1] = "specs" ->
         Len(in[2].specs) = 1 => \A sel \in Selections : BaselineHolds(in[2], sel) /\ CoverageMeans(in[2], sel)
    [] in[1] = "chain" -> SecureBootHolds(in[2], in[3], in[4])
    [] OTHER -> TRUE

\* What is foretold of the next boot, told of this one and advised for the way of
\* the disk's key is what comes (see Measure, Route).
ComesAsTold == PredictionHolds /\ FindingsHold /\ RouteHolds
=============================================================================
