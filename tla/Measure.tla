------------------------------ MODULE Measure ------------------------------
(***************************************************************************)
(* What a boot measures and what is computed of it in advance: the values  *)
(* a slot is sealed to (internal/measure), the baseline a phone is given   *)
(* (phonegate/measurepoint.go), what a phone reads from a quote            *)
(* (core/attest measurepoint.go, secureboot.go, initrd.go).  A register is *)
(* the sequence of digests extended into it and a digest is <<bank,        *)
(* content>>: two are equal only when everything hashed is.                *)
(***************************************************************************)
EXTENDS Outcomes, Integers, Sequences, SequencesExt, FiniteSets, FiniteSetsExt

Word(bank, w) == <<bank, <<"word", w>>>>
osSeparatorPCRs == {0, 1, 2, 3, 4, 5, 6, 7, 9, 12, 13, 14}
volatileAfterMeasurePoint == {9, 11, 15}
PCR11Phases == <<"enter-initrd", "nvpcr-separator", "leave-initrd", "sysinit", "ready">>
SHA256 == "sha256"
----------------------------------------------------------------------------
(* A boot, as firmware, loader and systemd measure it.  A disk: its files  *)
(* (name -> content), GRUB's menu as its grub.cfg has it.  A name is       *)
(* <<base, kernel version>>; versions are sequences of numbers.            *)

Plain(base) == <<base, <<>>>>
Kernel(v) == <<"vmlinuz", v>>
Initrd(v) == <<"initrd.img", v>>
\* What a file holds; 0 when it is not there.
Content(d, n) == IF n \in DOMAIN d.files THEN d.files[n] ELSE 0
File(d, n) == <<"file", n, Content(d, n)>>
menuCommand(menu) == <<"menuentry", menu.kernel, menu.opts>>
cmdline(v, opts) == <<"cmdline", v, opts>>
LoadOptions(c) == <<"BOOT_IMAGE", c>>

\* uki.Measurements: a section's name, then its content.
Sections(d) == << <<"name", ".linux", 0>>, <<"section", ".linux", Content(d, Plain("uki"))>>,
                  <<"name", ".initrd", 0>>, <<"section", ".initrd", Content(d, Plain("uki"))>> >>

Event(pcr, type, text, content) == [pcr |-> pcr, type |-> type, text |-> text, content |-> content]
Firmware(sys) ==
  <<Event(0, "noaction", <<"StartupLocality">>, <<"none">>), Event(0, "other", <<"version">>, <<"firmware", sys.firmware>>),
    Event(7, "other", <<"SecureBoot">>, <<"SecureBoot", 1>>), Event(7, "other", <<"separator">>, <<"separator">>),
    Event(4, "other", <<"separator">>, <<"separator">>)>>
Loaded(dir, d, n) == Event(4, "app", <<dir, n>>, File(d, n))
Booted(d, sys) ==
  Firmware(sys) \o
  (CASE sys.chain = "uki" ->
          <<Loaded("esp", d, Plain("loader")), Loaded("linux", d, Plain("uki"))>>
            \o [i \in DOMAIN Sections(d) |-> Event(11, "ipl", Sections(d)[i], Sections(d)[i])]
     [] sys.chain = "grub" ->
          LET v == d.menu.kernel IN
          <<Loaded("esp", d, Plain("loader")),
            Event(9, "ipl", <<"(hd0)", Plain("fs.lst")>>, File(d, Plain("fs.lst"))),
            Event(9, "ipl", <<"(hd0)", Plain("grub.cfg")>>, File(d, Plain("grub.cfg"))),
            Event(8, "ipl", <<"menuentry">>, menuCommand(d.menu)),
            Event(8, "ipl", <<"initrd">>, <<"initrd", v>>),
            Event(8, "ipl", <<"kernel_cmdline">>, cmdline(v, d.menu.opts)),
            Event(9, "ipl", <<"", Kernel(v)>>, File(d, Kernel(v))),
            Event(9, "ipl", <<"", Initrd(v)>>, File(d, Initrd(v))),
            Loaded("", d, Kernel(v)),
            Event(9, "tag", <<"LoadOptions">>, LoadOptions(cmdline(v, d.menu.opts))),
            Event(9, "tag", <<"Linux initrd">>, File(d, Initrd(v)))>>)

\* The firmware's log in a bank (Events); sys.log: the banks it has.
Events(d, sys, bank) ==
  IF bank \notin sys.log THEN <<>>
  ELSE [i \in DOMAIN Booted(d, sys) |->
          LET e == Booted(d, sys)[i] IN
          [pcr |-> e.pcr, type |-> e.type, text |-> e.text, digest |-> <<bank, e.content>>]]

\* A register at a moment: what the log has for it, then systemd's words; the
\* running system is past the separator and past what comes later.
Extended(d, sys, bank, pcr) ==
  LET all == Booted(d, sys)
      own == SelectSeq(all, LAMBDA e : e.pcr = pcr /\ e.type # "noaction")
  IN  (IF pcr = 0 THEN << <<bank, <<"locality", 3>>>> >> ELSE <<>>)
        \o [i \in DOMAIN own |-> <<bank, own[i].content>>]
Register(d, sys, bank, pcr, moment) ==
  Extended(d, sys, bank, pcr)
    \o (IF pcr = 11 /\ sys.phases THEN <<Word(bank, "enter-initrd")>> ELSE <<>>)
    \o (IF pcr \in osSeparatorPCRs /\ sys.separator /\ moment # "before"
        THEN <<Word(bank, "os-separator")>> ELSE <<>>)
    \o (IF moment # "running" THEN <<>>
        ELSE IF pcr = 11 /\ sys.phases THEN <<Word(bank, "leave-initrd"), Word(bank, "sysinit"), Word(bank, "ready")>>
        ELSE IF pcr = 9 /\ sys.separator THEN <<Word(bank, "nvpcr")>> ELSE <<>>)
----------------------------------------------------------------------------
(* Replay and prediction.                                                  *)

\* ExtendDigest over a sequence of digests.
Extend(value, digests) == value \o digests

\* ReplayEventLog for one register; findStartupLocality for the first.
Replay(events, bank, pcr) ==
  LET own == SelectSeq(events, LAMBDA e : e.pcr = pcr /\ e.type # "noaction")
      locality == pcr = 0 /\ \E i \in DOMAIN events :
                    events[i].pcr = 0 /\ events[i].type = "noaction" /\ events[i].text[1] = "StartupLocality"
  IN  [value |-> Extend(IF locality THEN << <<bank, <<"locality", 3>>>> >> ELSE <<>>,
                        [i \in DOMAIN own |-> own[i].digest]),
       extends |-> Len(own)]

\* versionLess: field by field as numbers, then the shorter.
versionLess(a, b) ==
  LET differ == {i \in DOMAIN a \cap DOMAIN b : a[i] # b[i]}
  IN  IF differ = {} THEN Len(a) < Len(b) ELSE a[Min(differ)] < b[Min(differ)]

\* The kernels in /boot that have an initrd, and the newest of them.
installedKernels(d) == {n[2] : n \in {k \in DOMAIN d.files : k[1] = "vmlinuz" /\ Initrd(k[2]) \in DOMAIN d.files}}
newest(vs) == CHOOSE v \in vs : \A w \in vs : ~ versionLess(v, w)

\* fileDigest: SHA-256, whatever the bank.
digestOf(d, n) == <<SHA256, File(d, n)>>
IsFile(e) == e.pcr = 9 /\ e.type = "ipl"

\* Mutant of swapVersion: the log's names are kept.
swapVersion_Never(n, booted, next) == n

\* A name has a kind and a version; the version that booted is no part of another,
\* so that replacing its text is replacing it.
swapVersion(n, booted, next) == IF n[2] = booted THEN <<n[1], next>> ELSE n

\* predictGRUB: this boot's events with what is on the disk now.
predictGRUB(events, d) ==
  LET named == SelectSeq(events, LAMBDA e : IsFile(e) /\ e.text[2][1] = "vmlinuz")
      booted == IF named = <<>> THEN <<>> ELSE Last(named).text[2][2]
      next == IF booted # <<>> /\ installedKernels(d) # {} THEN newest(installedKernels(d)) ELSE booted
      devices == {events[i].text[1] : i \in {j \in DOMAIN events :
                    /\ IsFile(events[j]) /\ events[j].text[1] # ""
                    /\ events[j].text[2] \in DOMAIN d.files
                    /\ digestOf(d, events[j].text[2]) = events[j].digest}}
      cfgRead == "(hd0)" \in devices /\ \E i \in DOMAIN events : IsFile(events[i]) /\ events[i].text[2] = Plain("grub.cfg")
      command(e) == LET c == e.digest[2] IN
        CASE e.text[1] = "menuentry" -> IF cfgRead THEN menuCommand(d.menu) ELSE c
          [] e.text[1] = "initrd" -> IF c[2] = booted THEN <<"initrd", next>> ELSE c
          [] e.text[1] = "kernel_cmdline" -> IF c[2] = booted THEN cmdline(next, c[3]) ELSE c
      step(s, e) ==
        LET is(pcr, type, text) == e.pcr = pcr /\ e.type = type /\ e.text[1] = text
            path == swapVersion(e.text[2], booted, next)
            put(digest) == Append(s.out, [e EXCEPT !.digest = digest])
        IN  CASE IsFile(e) /\ (e.text[1] = "" \/ e.text[1] \in devices) /\ path \in DOMAIN d.files ->
                   [s EXCEPT !.out = put(digestOf(d, path)),
                             !.initrd = IF path[1] = "initrd.img" THEN <<path>> ELSE @]
              [] e.pcr = 8 /\ e.type = "ipl" ->
                   [s EXCEPT !.out = put(IF command(e) # e.digest[2] THEN <<SHA256, command(e)>> ELSE e.digest),
                             !.cmdline = IF e.text[1] = "kernel_cmdline" THEN <<command(e)>> ELSE @]
              [] is(9, "tag", "LoadOptions") /\ s.cmdline # <<>> ->
                   [s EXCEPT !.out = put(<<SHA256, LoadOptions(s.cmdline[1])>>)]
              [] is(9, "tag", "Linux initrd") /\ s.initrd # <<>> ->
                   [s EXCEPT !.out = put(digestOf(d, s.initrd[1]))]
              [] OTHER -> [s EXCEPT !.out = Append(@, e)]
  IN  FoldLeft(step, [out |-> <<>>, cmdline |-> <<>>, initrd |-> <<>>], events).out

\* CalculatePCRsFromEventlogPath: refused without the bank, or without an event
\* of a register that is asked for (bankError).
ReplayEventLog(events, bank, indices) ==
  IF events = <<>> \/ \E i \in indices : Replay(events, bank, i).extends = 0 THEN Refused
  ELSE [i \in indices |-> Replay(events, bank, i).value]
CalculatePCRs(events, d, bank, indices) ==
  ReplayEventLog(IF indices \cap {8, 9} # {} THEN predictGRUB(events, d) ELSE events, bank, indices)

\* MeasurePointWords and MeasurePointWordsAt.
MeasurePointWords(pcr) ==
  (IF pcr \in osSeparatorPCRs THEN <<"os-separator">> ELSE <<>>) \o (IF pcr = 11 THEN <<"enter-initrd">> ELSE <<>>)
WordsAt(point, pcr) ==
  IF point = "after" THEN MeasurePointWords(pcr) ELSE IF pcr = 11 THEN <<"enter-initrd">> ELSE <<>>
WordDigests(bank, words) == [i \in DOMAIN words |-> Word(bank, words[i])]

\* DetectMeasurePointExtends: each stable register shows the words or does not,
\* and all of them alike.
DetectMeasurePointExtends(replay, registers, bank) ==
  LET probed == {i \in DOMAIN replay : i \notin volatileAfterMeasurePoint /\ MeasurePointWords(i) # <<>>}
      applied == {i \in probed : registers[i] = Extend(replay[i], WordDigests(bank, MeasurePointWords(i)))}
      skipped == {i \in probed : registers[i] = replay[i]}
  IN  IF probed = {} \/ probed # applied \union skipped \/ (applied # {} /\ skipped # {}) THEN Refused
      ELSE IF applied # {} THEN <<TRUE>> ELSE <<FALSE>>

\* A machine as a command finds it: the log of its boot, its registers, its disk.
\* readEventlogValues.
ApplyMeasurePointExtends(replay, applied, bank, point) ==
  IF applied = Refused THEN Refused
  ELSE [i \in DOMAIN replay |-> IF applied[1] THEN Extend(replay[i], WordDigests(bank, WordsAt(point, i))) ELSE replay[i]]
extendedAt(replay, registers, bank, mode, point) ==
  IF replay = Refused THEN Refused
  ELSE ApplyMeasurePointExtends(replay,
         IF mode = "auto" THEN DetectMeasurePointExtends(replay, registers, bank) ELSE <<mode = "on">>, bank, point)
readEventlogValues(m, indices, bank, mode, point) ==
  extendedAt(CalculatePCRs(m.events[bank], m.disk, bank, indices), m.registers[bank], bank, mode, point)

\* espFile and predictPCR4: what the firmware loads, as it is on the ESP now.
PredictPCR4(m, bank, ukiPath) ==
  LET of(e) == IF e.text[1] = "linux" THEN ukiPath ELSE IF e.text[1] = "esp" THEN e.text[2] ELSE Plain("")
      next(e) == IF e.type = "app" /\ of(e) \in DOMAIN m.disk.files THEN <<bank, File(m.disk, of(e))>> ELSE e.digest
      own == SelectSeq(m.events[bank], LAMBDA e : e.pcr = 4 /\ e.type # "noaction")
  IN  IF ~ \E i \in DOMAIN own : own[i].type = "app" THEN Refused
      ELSE [i \in DOMAIN own |-> next(own[i])]

\* PredictPCR11FromUKI with the phases of the measure point.
PredictPCR11(m, bank, ukiPath) ==
  IF ukiPath \notin DOMAIN m.disk.files THEN Refused
  ELSE Extend([i \in DOMAIN Sections(m.disk) |-> <<bank, Sections(m.disk)[i]>>], <<Word(bank, "enter-initrd")>>)

PCRSpec(index, source) == [index |-> index, source |-> source]
\* ParsePCRSpecs' rules.
ValidSpecs(specs) ==
  /\ specs # <<>>
  /\ \A i, j \in DOMAIN specs : specs[i].index = specs[j].index => i = j
  /\ \A i \in DOMAIN specs : LET s == specs[i] IN
       /\ s.index \in 0..23
       /\ s.source = "e" => s.index <= 12 /\ s.index # 4
       /\ s.source = "u" => s.index \in {4, 11}
       /\ s.source = "s" => s.index = 11

\* ReadPCRValues: a register the separator goes into is read from the log where
\* the value before it is wanted; when that fails, from the register after all,
\* and the command says so (after).
IndicesOf(specs, sources) == {s.index : s \in {t \in ToSet(specs) : t.source \in sources}}
readValues(m, specs, bank, logged) ==
  LET images == [i \in IndicesOf(specs, {"u", "s"}) |->
                   IF i = 4 THEN PredictPCR4(m, bank, Plain("uki")) ELSE PredictPCR11(m, bank, Plain("uki"))]
  IN  IF logged = Refused \/ \E i \in DOMAIN images : images[i] = Refused THEN Refused
      ELSE [i \in {s.index : s \in ToSet(specs)} |->
              CASE i \in DOMAIN images -> images[i]
                [] i \in DOMAIN logged -> logged[i]
                [] OTHER -> m.registers[bank][i]]
readFrom(m, specs, bank, mode, point, log) ==
  readValues(m, specs, bank, IF log = {} THEN <<>> ELSE readEventlogValues(m, log, bank, mode, point))
orRegisters(first, m, specs, bank, mode, point, converted) ==
  CASE first # Refused -> [values |-> first, after |-> FALSE]
    [] first = Refused /\ converted = {} -> Refused
    [] OTHER -> LET second == readFrom(m, specs, bank, mode, point, IndicesOf(specs, {"e"})) IN
                IF second = Refused THEN Refused ELSE [values |-> second, after |-> TRUE]
ReadPCRValues(m, specs, bank, mode, point) ==
  LET converted == IF point = "before" /\ mode # "off" THEN IndicesOf(specs, {"r"}) \cap osSeparatorPCRs ELSE {}
  IN  orRegisters(readFrom(m, specs, bank, mode, point, IndicesOf(specs, {"e"}) \union converted),
                  m, specs, bank, mode, point, converted)

\* approvedPCRPolicy's PolicyPCR of given values (BuildPCRDigest), in the order
\* of the specs; the signed one is left to the PCR key.
BuildPCRDigest(specs, values) ==
  LET plain == SelectSeq(specs, LAMBDA s : s.source # "s")
      signed == Len(plain) < Len(specs)
      order == IF signed THEN SortSeq(plain, LAMBDA a, b : a.index < b.index) ELSE plain
  IN  [i \in DOMAIN order |-> values[order[i].index]]

\* What TPM2_PolicyPCR has of a session: the selected registers, ascending.
PolicyPCR(specs, registers) ==
  LET plain == {specs[i].index : i \in {j \in DOMAIN specs : specs[j].source # "s"}}
      order == SetToSortSeq(plain, LAMBDA a, b : a < b)
  IN  [i \in DOMAIN order |-> registers[order[i]]]

\* VerifyUKIPredictionAgainstEventlog: the image against this boot's log.
VerifyUKI(m, bank, rebuilt) ==
  LET mine == [i \in DOMAIN Sections(m.disk) |-> <<bank, Sections(m.disk)[i]>>]
      own == SelectSeq(m.events[bank], LAMBDA e : e.pcr = 11 /\ e.type # "noaction")
      log == [i \in DOMAIN own |-> own[i].digest]
      differ == {i \in DOMAIN mine : i > Len(log) \/ mine[i] # log[i]}
  IN  CASE log = <<>> -> TRUE
        [] differ = {} -> Len(log) = Len(mine)
        [] OTHER -> Min(differ) <= Len(log) /\ mine[Min(differ)][2][1] = "section" /\ rebuilt
----------------------------------------------------------------------------
(* What a phone makes of values.                                           *)

\* Mutant of reachableByPhases: one phase only.
reachableByOne(from, to) ==
  \E i \in DOMAIN PCR11Phases : to = Append(from, Word(SHA256, PCR11Phases[i]))

\* reachableByPhases: some of the phases in their order lead from one to the other.
reachableByPhases(from, to) ==
  LET more == SubSeq(to, Len(from) + 1, Len(to))
      index(w) == {i \in DOMAIN PCR11Phases : w[2] = <<"word", PCR11Phases[i]>>}
  IN  /\ Len(from) < Len(to) /\ SubSeq(to, 1, Len(from)) = from
      /\ \A i \in DOMAIN more : index(more[i]) # {}
      /\ \A i, j \in DOMAIN more : i < j => Min(index(more[i])) < Min(index(more[j]))

\* SameBootState and SamePCR11Boot.
SameBootState(bank, pcr, a, b) ==
  \/ a = b /\ a # <<>>
  \/ pcr = 11 /\ (reachableByPhases(a, b) \/ reachableByPhases(b, a))
  \/ pcr \in osSeparatorPCRs /\ (b = Append(a, Word(bank, "os-separator")) \/ a = Append(b, Word(bank, "os-separator")))

\* SeparatorLocked: the separator, and nothing but it, is what differs.
SeparatorLocked(bank, expected, current) == current = Append(expected, Word(bank, "os-separator"))

\* CheckMeasurePointValues.
CheckMeasurePointValues(live, predicted) ==
  \A i \in DOMAIN live : live[i] = predicted[i] \/ (i = 11 /\ reachableByPhases(predicted[i], live[i]))

\* measurePointSpecs and PredictMeasurePoint: the baseline offered at enrolment.
checkedValues(got, live) ==
  IF got = Refused THEN Refused ELSE IF ~ CheckMeasurePointValues(live, got.values) THEN Refused ELSE got.values
PredictMeasurePoint(m, sel, bank, mode) ==
  LET specs == SetToSeq({PCRSpec(i, IF i <= 12 THEN "e" ELSE "r") : i \in sel}) IN
  checkedValues(ReadPCRValues(m, specs, bank, mode, "after"), [i \in sel |-> m.registers[bank][i]])

\* EstablishSecureBoot: a chain of PCR 7's digests that replays to the quoted
\* register (or to it before the OS separator), read up to the separator.
EstablishSecureBoot(pcr7, chain) ==
  LET ends == {i \in DOMAIN chain : chain[i][2][1] \in {"separator", "error separator"}}
      part == IF ends = {} THEN <<>> ELSE SubSeq(chain, 1, Min(ends))
      has(c) == \E i \in DOMAIN part : part[i][2] = c
      states == SelectSeq(part, LAMBDA e : e[2][1] = "SecureBoot")
  IN  CASE chain = <<>> -> "not_established"
        [] chain # pcr7 /\ Append(chain, Word(SHA256, "os-separator")) # pcr7 -> "not_established"
        [] ends = {} \/ Len(states) # 1 -> "not_established"
        [] has(<<"PK", 0>>) -> "setup_mode"
        [] states[1][2][2] = 1 /\ (has(<<"debug">>) \/ has(<<"error separator">>)) -> "not_established"
        [] OTHER -> IF states[1][2][2] = 1 THEN "on" ELSE "off"

\* chainOf and InitrdEventsOf: what the machine sends of its log.
chainOf(events, pcr) ==
  LET own == SelectSeq(events, LAMBDA e : e.pcr = pcr /\ e.type # "noaction")
  IN  [i \in DOMAIN own |-> own[i].digest]
initrdCommand(events) ==
  LET own == SelectSeq(events, LAMBDA e : e.pcr = 8 /\ e.text[1] = "initrd")
  IN  IF own = <<>> THEN <<>> ELSE <<Last(own).digest>>

\* EstablishInitrd.
EstablishInitrd(sel, quoted, events) ==
  LET c11 == chainOf(events, 11)
      c8 == chainOf(events, 8)
      shows(chain, pcr) == chain # <<>> /\ (chain = quoted[pcr] \/ (pcr = 11 /\ reachableByPhases(chain, quoted[11])))
  IN  CASE /\ 11 \in sel /\ shows(c11, 11)
           /\ \E i \in 1..(Len(c11) - 1) : c11[i][2] = <<"name", ".initrd", 0>> -> {11} \union (sel \cap {4})
        [] /\ {8, 9} \subseteq sel /\ initrdCommand(events) # <<>> /\ shows(c8, 8)
           /\ \E i \in DOMAIN c8 : c8[i] = initrdCommand(events)[1] -> {9}
        [] OTHER -> {}

\* initrdCoverageFromEvents: the registers the initrd went into, by the machine's log.
initrdCoverage(events) ==
  LET some(P(_)) == \E i \in DOMAIN events : P(events[i])
      uki == some(LAMBDA e : e.pcr = 11 /\ e.type = "ipl" /\ e.text[2] = ".initrd")
  IN  (IF some(LAMBDA e : e.pcr = 9 /\ e.type = "tag" /\ e.text[1] = "Linux initrd") THEN {9} ELSE {})
        \union (IF some(LAMBDA e : IsFile(e) /\ e.text[2][1] = "initrd.img") THEN {9} ELSE {})
        \union (IF uki THEN {11} ELSE {})
        \union (IF uki /\ some(LAMBDA e : e.pcr = 4 /\ e.type = "app") THEN {4} ELSE {})
----------------------------------------------------------------------------
(* What is compared.  A case: the disk this boot came from, the disk now,  *)
(* what firmware and systemd do, and the arguments of a command.           *)

Machine(c) ==
  [disk |-> c.now,
   events |-> [b \in {"sha1", SHA256} |-> Events(c.before, c.sys, b)],
   registers |-> [b \in {"sha1", SHA256} |-> [i \in 0..15 |-> Register(c.before, c.sys, b, i, "running")]]]
NextBoot(c, pcr) == Register(c.now, c.sys, c.bank, pcr, "before")
Same(c, pcr) == Extended(c.before, c.sys, c.bank, pcr) = Extended(c.now, c.sys, c.bank, pcr)

\* GRUB's registers are foreseen in the SHA-256 bank, when the menu boots the
\* newest kernel with the options of this boot, and a file is left to tell
\* which device is which.
GRUBForeseen(c) ==
  LET kept(n) == c.before.files[n] = c.now.files[n] IN
  /\ c.bank = SHA256 /\ c.before.menu.opts = c.now.menu.opts
  /\ c.now.menu.kernel = newest(installedKernels(c.now))
  /\ kept(Plain("fs.lst")) \/ kept(Plain("grub.cfg"))

\* What the sources promise: a prediction, or a value that holds while nothing
\* measured there changes.
Promised(c, s) ==
  LET log == s.source = "e" \/ (s.source = "r" /\ c.mode # "off" /\ s.index \in osSeparatorPCRs) IN
  /\ c.mode = "auto" \/ (c.mode = "on") = c.sys.separator
  /\ CASE log /\ s.index \in {8, 9} -> GRUBForeseen(c)
       [] log /\ s.index = 11 -> Same(c, 11) /\ c.sys.phases = c.sys.separator
       [] log -> Same(c, s.index)
       [] s.source = "r" -> Same(c, s.index) /\ (s.index = 11 => ~ c.sys.phases)
       [] s.index = 4 -> /\ c.sys.chain = "grub" => File(c.before, Kernel(c.before.menu.kernel)) = File(c.now, Kernel(c.now.menu.kernel))
                         /\ Plain("uki") \in DOMAIN c.now.files
       [] OTHER -> c.sys.chain = "uki" /\ c.sys.phases

\* Nothing stands in a prediction's way.
Foreseeable(c) ==
  LET log == {s.index : s \in {t \in ToSet(c.specs) : t.source = "e"}} IN
  /\ c.bank \in c.sys.log
  /\ \A i \in log : Extended(c.before, c.sys, c.bank, i) # <<>>
  /\ log = {} \/ c.mode # "auto" \/ (log \cap osSeparatorPCRs) \ volatileAfterMeasurePoint # {}
  /\ Plain("uki") \in DOMAIN c.now.files

\* A slot is sealed to what the next boot measures, or the command says that it
\* is not; its policy, in the order the specs were given, is then the TPM's.
SealHolds(c) ==
  \A got \in {ReadPCRValues(Machine(c), c.specs, c.bank, c.mode, "before")} :
  /\ Foreseeable(c) => got # Refused
  /\ got # Refused => \/ got.after
                      \/ \A i \in DOMAIN c.specs : Promised(c, c.specs[i]) =>
                           got.values[c.specs[i].index] = NextBoot(c, c.specs[i].index)
SealOpens(c) ==
  LET registers == [i \in 0..15 |-> NextBoot(c, i)] IN
  \A got \in {ReadPCRValues(Machine(c), c.specs, c.bank, c.mode, "before")} :
      ValidSpecs(c.specs) /\ got # Refused =>
        (got.after \/ ((\A i \in DOMAIN c.specs : Promised(c, c.specs[i])) =>
                        BuildPCRDigest(c.specs, got.values) = PolicyPCR(c.specs, registers)))

\* What a slot that does not open says: "locked" exactly when the same boot is
\* past its separator.
LockedSays(c) ==
  \A i \in osSeparatorPCRs \ {9} : c.sys.separator =>
    SeparatorLocked(c.bank, Register(c.now, c.sys, c.bank, i, "before"), Register(c.before, c.sys, c.bank, i, "running"))
      = Same(c, i)

\* An image that booted passes the check against the log, and one whose sections
\* differ passes only when it was built after the boot.
ImageChecked(c) ==
  LET m == Machine(c) IN
  c.sys.chain = "uki" /\ Plain("uki") \in DOMAIN c.now.files =>
    \A rebuilt \in BOOLEAN : VerifyUKI(m, c.bank, rebuilt) = (c.bank \notin c.sys.log \/ Same(c, 11) \/ rebuilt)

\* A baseline a phone was given matches the next boot exactly when that boot
\* measures what this one did, in every register the phone checks.
BaselineHolds(c, sel) ==
  \A p \in {PredictMeasurePoint(Machine(c), sel, c.bank, c.mode)} :
  /\ p # Refused => (\A i \in sel : SameBootState(c.bank, i, p[i], NextBoot(c, i))) = (\A i \in sel : Same(c, i))
  /\ (/\ c.bank \in c.sys.log /\ c.mode = "auto" /\ 0 \in sel /\ sel \cap {8, 9} = {}
      /\ \A i \in sel : Extended(c.before, c.sys, c.bank, i) # <<>>) => p # Refused

\* An initrd the phone finds covered is in a register of the selection that
\* changes with it, and the machine's own reading agrees.
CoverageMeans(c, sel) ==
  LET events == Events(c.before, c.sys, c.bank)
      found == EstablishInitrd(sel, [i \in 0..15 |-> Register(c.before, c.sys, c.bank, i, "running")], events)
      initrd(d) == IF c.sys.chain = "uki" THEN Content(d, Plain("uki")) ELSE Content(d, Initrd(d.menu.kernel))
  IN  /\ found \subseteq initrdCoverage(events) \cap sel
      /\ found # {} /\ Plain("uki") \in DOMAIN c.now.files /\ initrd(c.before) # initrd(c.now) => \E i \in found : ~ Same(c, i)

\* The state of Secure Boot: what is extended after the firmware's separator,
\* logged or not, never makes it another one than not established.
SecureBootHolds(chain, later, logged) ==
  LET all == [i \in DOMAIN chain |-> <<SHA256, chain[i]>>]
      more == [i \in DOMAIN later |-> <<SHA256, later[i]>>]
      state == EstablishSecureBoot(all, all)
      after == EstablishSecureBoot(all \o more, IF logged THEN all \o more ELSE all)
      ended == \E i \in DOMAIN chain : chain[i][1] \in {"separator", "error separator"}
  IN  /\ ended => after \in {state, "not_established"} /\ (logged => after = state)
      /\ state = "on" => \E n \in DOMAIN chain : /\ chain[n] = <<"separator">>
                                               /\ \A k \in 1..(n - 1) : chain[k] \notin
                                                    {<<"debug">>, <<"PK", 0>>, <<"SecureBoot", 0>>, <<"error separator">>}
=============================================================================
