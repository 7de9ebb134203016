-------------------------------- MODULE Route --------------------------------
(* The route of the disk's key (internal/admin/route.go and its step of    *)
(* control; internal/diskkey/header.go at boot): the words of the kernel   *)
(* command line and the lines of the crypttab that take a volume's key     *)
(* from tpm2-kira, what is found wrong with them, and the line as it       *)
(* should read.                                                            *)
EXTENDS Integers, Sequences, SequencesExt, Outcomes

Socket == "/run/tpm2-kira/unlock.sock"
Keyscript == "keyscript=tpm2-kira"
Attach == "x-initrd.attach"
IsPath(x) == x \in {Socket, "/file"}

\* A word: luks.name= or luks.key= of a volume ("" for every volume), or
\* another.  A line: a volume's name, its device, key file and options.
Word3(k, u, x) == [k |-> k, u |-> u, x |-> x]
KeyWord(u) == Word3("key", u, Socket)

Finding(kind, u, routed, should) == [kind |-> kind, u |-> u, routed |-> routed, should |-> should]

After(words, i, w) == SubSeq(words, 1, i) \o <<w>> \o SubSeq(words, i + 1, Len(words))
Places(words, k, u) == SelectSeq([i \in 1..Len(words) |-> i], LAMBDA i : words[i].k = k /\ words[i].u = u)

\* Mutant: a volume named twice keeps its second name.
fixedNames_Kept(words, u, names) == words
fixedNames(words, u, names) ==
  [i \in 1..Len(words) |-> IF \E n \in 2..Len(names) : names[n] = i THEN Word3("key", u, words[i].x) ELSE words[i]]

AdviseCmdline(words, u) ==
  LET names == Places(words, "name", u)  keys == Places(words, "key", u)  every == Places(words, "key", "")
      Should(w) == Finding("cmdline", u, FALSE, w)
      Routed == Finding("cmdline", u, TRUE, words) IN
  IF names = <<>> THEN Absent
  ELSE CASE Len(names) > 1 -> Should(fixedNames(words, u, names))
         [] Len(names) = 1 /\ IsPath(words[names[1]].x) ->
              Should(After([words EXCEPT ![names[1]] = Word3("name", u, "cryptroot")], names[1], KeyWord(u)))
         [] Len(names) = 1 /\ ~ IsPath(words[names[1]].x) /\ keys = <<>> ->
              IF every # <<>> /\ words[Last(every)].x = Socket THEN Routed
              ELSE Should(After(words, names[1], KeyWord(u)))
         [] OTHER -> IF words[keys[1]].x = Socket THEN Routed
                     ELSE Should([words EXCEPT ![keys[1]] = KeyWord(u)])

\* A crypttab's line for a volume: by its UUID, its device or its link.
LineOf(lines, u) == SelectSeq([i \in 1..Len(lines) |-> i], LAMBDA i : lines[i].u = u)

AdviseCrypttab(lines, u, debian) ==
  LET at == LineOf(lines, u) IN
  IF at = <<>> THEN Absent
  ELSE LET l == lines[at[1]]
           options == IF debian THEN SelectSeq(l.options, LAMBDA o : o \notin {Keyscript, "keyscript=other"}) \o <<Keyscript>>
                      ELSE SelectSeq(l.options, LAMBDA o : o # "none")
                             \o (IF Contains(l.options, Attach) THEN <<>> ELSE <<Attach>>)
           routed == IF debian THEN Contains(l.options, Keyscript) ELSE l.key = Socket /\ Contains(l.options, Attach) IN
       Finding("crypttab", u, routed,
         IF routed THEN l ELSE [l EXCEPT !.options = options, !.key = IF debian THEN @ ELSE Socket])

\* The findings of the volumes, in their order; a volume named nowhere is advice.
RouteFindings(boot, volumes) ==
  FlattenSeq([n \in 1..Len(volumes) |->
    LET u == volumes[n]
        all == <<IF boot.debian THEN Absent ELSE AdviseCmdline(boot.words, u), AdviseCrypttab(boot.lines, u, boot.debian)>>
        found == SelectSeq(all, LAMBDA f : f # Absent) IN
    IF found = <<>> THEN <<Finding("", u, FALSE, <<>>)>> ELSE found])

LuksRoute(boot, volumes) == \A f \in Range(RouteFindings(boot, volumes)) : f.routed

WriteRouteFix(boot, f) ==
  CASE f.kind = "cmdline" -> [boot EXCEPT !.words = f.should]
    [] f.kind = "crypttab" -> [boot EXCEPT !.lines[LineOf(boot.lines, f.u)[1]] = f.should]

\* control's step: the findings it has, one after the other, each written when
\* the person says yes - a volume that is routed somewhere is passed over.
ToWrite(boot, volumes) ==
  LET fs == RouteFindings(boot, volumes) IN
  SelectSeq(fs, LAMBDA f : ~ f.routed /\ f.kind # "" /\ ~ \E g \in Range(fs) : g.u = f.u /\ g.routed)
runRoute(boot, volumes) == FoldLeft(WriteRouteFix, boot, ToWrite(boot, volumes))
----------------------------------------------------------------------------
(* The boot.                                                               *)

\* The device of a volume that asks for its key, by name.
VolumeDevice(boot, name) ==
  LET named == SelectSeq(boot.words, LAMBDA w : w.k = "name" /\ w.x = name)
      lines == SelectSeq(boot.lines, LAMBDA l : l.name = name) IN
  IF named # <<>> THEN named[1].u ELSE IF lines # <<>> THEN lines[1].u ELSE Absent

\* The volumes whose header the code screen reads before one has asked.
routedUUIDs(words) == {w.u : w \in {x \in Range(words) : x.k = "key" /\ x.u # "" /\ x.x = Socket}}
routedDevices(boot) ==
  routedUUIDs(boot.words) \union {l.u : l \in {x \in Range(boot.lines) : Contains(x.options, Keyscript)}}
----------------------------------------------------------------------------
\* How often control's step is run in a row, at most.
MaxPasses == 6
Passes(boot, volumes) ==
  LET pass[n \in 0..MaxPasses] == IF n = 0 THEN boot ELSE runRoute(pass[n - 1], volumes) IN pass

Named(boot, u) == Places(boot.words, "name", u) # <<>> \/ LineOf(boot.lines, u) # <<>>
Foreign(words, volumes) == SelectSeq(words, LAMBDA w : w.u \notin Range(volumes))

\* Writing what is advised (runRoute, WriteRouteFix, AdviseCmdline, AdviseCrypttab)
\* comes to an end with every volume that is named anywhere routed; it leaves the
\* words of other volumes alone, and a volume that asks by a name it is given
\* there is the one the boot takes the header of (VolumeDevice).
RouteComesRight(boot, volumes) ==
  LET end == Passes(boot, volumes)[MaxPasses]
      fs == Range(RouteFindings(end, volumes)) IN
  /\ \A u \in Range(volumes) : Named(boot, u) => \E f \in fs : f.u = u /\ f.routed
  /\ ToWrite(end, volumes) = <<>>
  /\ Foreign(end.words, volumes) = Foreign(boot.words, volumes)
  /\ \A f \in fs : f.routed /\ f.kind = "cmdline" =>
       /\ Cardinality({i \in 1..Len(end.words) : end.words[i].k = "name" /\ end.words[i].u = f.u}) = 1
       /\ \A w \in Range(end.words) : w.k = "name" /\ w.u = f.u => VolumeDevice(end, w.x) = f.u
=============================================================================
