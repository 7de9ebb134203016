------------------------------ MODULE SlotBlob ------------------------------
(***************************************************************************)
(* The bytes of a slot's record (internal/nvslot blob.go, attestation.go): *)
(* version, payload and signature; in the payload the TOTP key, the sealed *)
(* PCRs, the policy, and the attestation with its phone and its vault.     *)
(* The format is positional: a length, then as many bytes.  A length, an   *)
(* integer and a run of bytes are one cell each, the run's cell being its  *)
(* length; what is read where something else stands is then a wrong        *)
(* length, as in the code.                                                 *)
(***************************************************************************)
EXTENDS Outcomes, Integers, Sequences, SequencesExt, FiniteSetsExt

CurrentBlobVersion == 20
MaxVerifiers == 8
maxChannelPCRs == 24
PepperCheckSize == 16
MaxAttestationLen == 16 * 1024
MaxBlobSize == 10 * 1024 * 1024
NoAttestation == Absent
NoMethod == Absent

\* PCRSource: the register, the event log, an image's prediction, a signature.
FromImage(source) == source \in {3, 4}
Eventlog == 1
HasEventlogPCRs(p) == \E i \in DOMAIN p.digests : p.digests[i].source = Eventlog

\* A TOTP key is whole or absent.
checkTOTP(p) ==
  LET hasKey == p.public > 0 \/ p.private > 0
  IN  IF hasKey THEN p.public > 0 /\ p.private > 0 /\ p.alg # 0 ELSE p.alg = 0
----------------------------------------------------------------------------
(* Writing.                                                                *)

put(n) == <<n, n>>
puts(ns) == FlattenSeq([i \in DOMAIN ns |-> put(ns[i])])

MarshalPhone(p) ==
  IF \/ p.public = 0 \/ p.private = 0 \/ p.pcrs = <<>> \/ Len(p.pcrs) > maxChannelPCRs
     \/ Len(p.verifiers) > MaxVerifiers THEN Refused
  ELSE puts(<<p.public, p.private>>)
         \o <<Len(p.pcrs)>> \o FlattenSeq([i \in DOMAIN p.pcrs |-> <<p.pcrs[i]>> \o put(32)])
         \o <<Len(p.verifiers)>>
         \o FlattenSeq([i \in DOMAIN p.verifiers |->
              put(p.verifiers[i].id) \o put(p.verifiers[i].anchor) \o <<32>> \o put(p.verifiers[i].policy)])

marshalVault(v) ==
  IF v.check \notin {0, PepperCheckSize} THEN Refused
  ELSE put(v.url) \o <<32>> \o puts(<<v.label, v.credential, v.secret>>) \o <<v.pepper>>
         \o put(v.check) \o <<v.keyboard>>

\* Attestation.Marshal: the machine's part and the methods it has.
MarshalAttestation(a) ==
  LET phone == IF a.phone = NoMethod THEN NoMethod ELSE MarshalPhone(a.phone)
      vault == IF a.vault = NoMethod THEN NoMethod ELSE marshalVault(a.vault)
      method(kind, m) == IF m = NoMethod THEN <<>> ELSE <<kind, Len(m)>> \o m
      count == (IF phone = NoMethod THEN 0 ELSE 1) + (IF vault = NoMethod THEN 0 ELSE 1)
  IN  IF phone = Refused \/ vault = Refused THEN Refused
      ELSE <<16>> \o put(a.name) \o puts(<<a.ak, a.ak>>) \o <<1>>
             \o puts(<<a.bootKey, a.bootKey, a.releaseKey, a.releaseKey, a.salt, a.salt>>)
             \o <<11>> \o put(a.selection) \o <<a.count>> \o <<count>>
             \o method(1, phone) \o method(2, vault)

\* The bytes of it: lp16 and lp32 put two and four before the field.
SumOver(seq, bytes(_)) == MapThenSumSet(LAMBDA i : bytes(seq[i]), DOMAIN seq)
lp16s(ns) == SumOver(ns, LAMBDA n : 2 + n)
lp32s(ns) == SumOver(ns, LAMBDA n : 4 + n)
PhoneBytes(p) ==
  lp16s(<<p.public, p.private>>) + 1 + Len(p.pcrs) * (1 + 2 + 32)
    + 1 + SumOver(p.verifiers, LAMBDA v : lp16s(<<v.id, v.anchor, v.policy>>) + 32)
VaultBytes(v) == lp16s(<<v.url, v.label, v.check>>) + 32 + lp32s(<<v.credential, v.secret>>) + 1 + 1
AttestationBytes(a) ==
  16 + lp16s(<<a.name, a.selection>>) + lp32s(<<a.ak, a.ak, a.bootKey, a.bootKey, a.releaseKey, a.releaseKey, a.salt, a.salt>>)
    + 2 + 2 + 8 + 1
    + (IF a.phone = NoMethod THEN 0 ELSE 1 + 4 + PhoneBytes(a.phone))
    + (IF a.vault = NoMethod THEN 0 ELSE 1 + 4 + VaultBytes(a.vault))

\* Mutant of MarshalDigest: only an image's own PCR keeps its path.
MarshalDigest_UKIOnly(d) ==
  <<d.index, d.source>> \o (IF d.source = 3 THEN put(d.command) ELSE <<>>) \o put(d.digest)

\* An entry of the payload: a PCR, where its value is from, the value.
MarshalDigest(d) ==
  <<d.index, d.source>> \o (IF FromImage(d.source) THEN put(d.command) ELSE <<>>) \o put(d.digest)

\* The bytes of the payload before its attestation, which has a limit of its own.
BaseBytes(p) ==
  lp32s(<<p.public, p.private>>) + 4 + 2 + 8 + lp16s(<<p.ref, p.signing, p.approval, p.pcrKey>>) + 1
    + SumOver(p.digests, LAMBDA d : 4 + 1 + 2 + d.digest + IF FromImage(d.source) THEN 2 + d.command ELSE 0)

\* MarshalPayload.  The measure point's flag is written only beside an event
\* log's PCR.
MarshalPayload(p) ==
  LET att == IF p.att = NoAttestation THEN <<>> ELSE MarshalAttestation(p.att)
  IN  IF ~checkTOTP(p) \/ BaseBytes(p) > MaxBlobSize \/ att = Refused THEN Refused
      ELSE IF p.att # NoAttestation /\ AttestationBytes(p.att) > MaxAttestationLen THEN Refused
      ELSE puts(<<p.public, p.private>>)
             \o <<Len(p.digests)>> \o FlattenSeq([i \in DOMAIN p.digests |-> MarshalDigest(p.digests[i])])
             \o <<p.alg, p.generation>> \o puts(<<p.ref, p.signing, p.approval, p.pcrKey>>)
             \o <<IF p.measurePoint = 1 /\ HasEventlogPCRs(p) THEN 1 ELSE 0>>
             \o (IF p.att = NoAttestation THEN <<0>> ELSE <<1, Len(att)>> \o att)

\* Marshal and SignBlobPayload: the signature is of all that is before it.
SignBlobPayload(p, sig) ==
  LET payload == MarshalPayload(p)
  IN  IF payload = Refused \/ sig > 1024 THEN Refused
      ELSE <<CurrentBlobVersion, Len(payload)>> \o payload \o put(sig)
----------------------------------------------------------------------------
(* Reading.  A reader: what is left of the data, what it has read, whether *)
(* it failed (blobReader) and whether a PCR of the event log was in it.    *)

Reader(data) == [left |-> data, got |-> <<>>, ok |-> TRUE, log |-> FALSE]
Fail(r) == [r EXCEPT !.ok = FALSE]

\* What is read next: bytes behind their length, up to a limit; an integer or
\* bytes of a known number; the number of a PCR; a PCR's digest.
Known == -1
Index == -2
Digest == -3

num(r) ==
  IF ~r.ok \/ r.left = <<>> THEN Fail(r)
  ELSE [r EXCEPT !.left = Tail(@), !.got = Append(@, Head(r.left))]

\* lp16 and lp32: a length within the limit, and as many bytes.
get(r, max) ==
  IF ~r.ok \/ Len(r.left) < 2 THEN Fail(r)
  ELSE IF r.left[1] > max \/ r.left[2] # r.left[1] THEN Fail(r)
  ELSE [r EXCEPT !.left = Tail(Tail(@)), !.got = Append(@, r.left[1])]

UnmarshalDigest(r) ==
  LET s == num(num(r))
      source == IF s.ok THEN Last(s.got) ELSE 0
      noted == [s EXCEPT !.log = @ \/ source = Eventlog]
  IN  get(IF FromImage(source) THEN get(noted, 4096) ELSE noted, 1024)

readField(r, what) ==
  CASE what = Known -> num(r)
    [] what = Index -> IF r.left # <<>> /\ Head(r.left) >= maxChannelPCRs THEN Fail(r) ELSE num(r)
    [] what = Digest -> UnmarshalDigest(r)
    [] OTHER -> get(r, what)
reads(r, format) == FoldLeft(readField, r, format)

\* A number of entries, within its limits, and the entries.
entries(r, counts, format) ==
  IF r.ok /\ Last(r.got) \in counts THEN FoldLeft(reads, r, [i \in 1..Last(r.got) |-> format]) ELSE Fail(r)
\* Read to its end.
ended(r) == IF r.ok /\ r.left = <<>> THEN r.got ELSE Refused

checkPhone(got) == IF got = Refused THEN Refused ELSE IF got[1] = 0 \/ got[2] = 0 THEN Refused ELSE got
unmarshalPhone(data) ==
  checkPhone(ended(
    entries(num(entries(reads(Reader(data), <<1024, 1024, Known>>), 1..maxChannelPCRs, <<Index, 32>>)),
            0..MaxVerifiers, <<64, 256, Known, 64>>)))

\* A pepper's check only beside the pepper, in a recipe where nothing is typed.
checkVault(g) ==
  IF g = Refused THEN Refused
  ELSE IF g[1] = 0 \/ (g[4] = 0) # (g[5] = 0) THEN Refused
  ELSE IF g[7] # 0 /\ (g[7] # PepperCheckSize \/ g[6] # 1 \/ g[4] = 0) THEN Refused
  ELSE g
unmarshalVault(data) ==
  checkVault(ended(reads(Reader(data), <<512, Known, 64, 1024, 1024, Known, PepperCheckSize, Known>>)))

unmarshalMethod(kind, data) ==
  CASE kind = 1 -> unmarshalPhone(data) [] kind = 2 -> unmarshalVault(data) [] OTHER -> Refused

\* A method of an attestation: each once, and none this version does not know.
takeMethod(s, kind, len, m) ==
  IF m = Refused THEN Fail(s)
  ELSE [s EXCEPT !.left = SubSeq(@, len + 3, Len(@)), !.kinds = Append(@, kind), !.got = @ \o <<kind>> \o m]
readMethod(s, i) ==
  IF ~s.ok \/ Len(s.left) < 2 THEN Fail(s)
  ELSE LET kind == s.left[1] len == s.left[2] IN
       IF len > Len(s.left) - 2 \/ \E j \in DOMAIN s.kinds : s.kinds[j] = kind THEN Fail(s)
       ELSE takeMethod(s, kind, len, unmarshalMethod(kind, SubSeq(s.left, 3, len + 2)))
readMethods(r) ==
  FoldLeft(readMethod, [left |-> r.left, got |-> r.got, ok |-> r.ok, kinds |-> <<>>],
           [i \in 1..(IF ~r.ok THEN 0 ELSE IF Last(r.got) \in 0..2 THEN Last(r.got) ELSE 3) |-> i])

checkAttestation(got) == IF got = Refused THEN Refused ELSE IF got[3] = 0 THEN Refused ELSE got
UnmarshalAttestation(data) ==
  checkAttestation(ended(readMethods(
    reads(Reader(data), <<Known, 64, 4096, 4096, Known, 4096, 4096, 4096, 4096, 1024, 1024, Known, 24, Known, Known>>))))

\* UnmarshalPayload: the parts in turn, the flags, and nothing behind the last.
lastParts(r) ==
  LET n == Len(r.left) IN
  CASE Last(r.got) = 0 -> IF n = 0 THEN <<>> ELSE Refused
    [] Last(r.got) = 1 /\ n >= 2 -> IF r.left[1] # n - 1 THEN Refused ELSE UnmarshalAttestation(Tail(r.left))
    [] OTHER -> Refused
checkPayload(r, att) ==
  LET end == Len(r.got) flag == r.got[end - 1] IN
  IF \/ flag \notin {0, 1} \/ (flag = 1 /\ ~r.log) \/ att = Refused
     \/ ~checkTOTP([public |-> r.got[1], private |-> r.got[2], alg |-> r.got[end - 7]]) THEN Refused
  ELSE r.got \o att
whole(r) == IF ~r.ok THEN Refused ELSE checkPayload(r, lastParts(r))
UnmarshalPayload(data) ==
  whole(reads(entries(reads(Reader(data), <<2097152, 2097152, Known>>), 0..100, <<Digest>>),
              <<Known, Known, 64, 2048, 1024, 512, Known, Known>>))

\* UnmarshalSealedBlob; VerifyBlobSignature's region is what is read here, and
\* what may follow the signature is not looked at.
UnmarshalSealedBlob(data) ==
  IF Len(data) < 4 THEN Refused
  ELSE IF data[1] # CurrentBlobVersion \/ data[2] > Len(data) - 4 THEN Refused
  ELSE LET end == data[2] + 2
           sig == data[end + 1]
       IN  IF sig = 0 \/ sig > 1024 \/ data[end + 2] # sig THEN Refused
           ELSE UnmarshalPayload(SubSeq(data, 3, end))
----------------------------------------------------------------------------
(* The payloads the commands build, with every part at an edge; one with a *)
(* key that is too large for any record, and attestations on both sides of *)
(* their limit.                                                            *)

Digests == {<<[index |-> 7, source |-> 0, command |-> 0, digest |-> 32]>>,
            <<[index |-> 7, source |-> Eventlog, command |-> 0, digest |-> 20],
              [index |-> 11, source |-> 3, command |-> 4096, digest |-> 20]>>,
            <<[index |-> 4, source |-> 3, command |-> 9, digest |-> 32],
              [index |-> 11, source |-> 4, command |-> 9, digest |-> 32]>>}
aPhone(id) == [id |-> id, anchor |-> 91, policy |-> 64]
Phones == {[public |-> 78, private |-> 1024, pcrs |-> <<23>>, verifiers |-> <<>>],
           [public |-> 78, private |-> 78, pcrs |-> <<0, 7>>, verifiers |-> <<aPhone(1), aPhone(64)>>],
           [public |-> 78, private |-> 78, pcrs |-> <<0, 7>>, verifiers |-> [i \in 1..MaxVerifiers |-> aPhone(i)]]}
Vaults == {[url |-> 512, label |-> 64, credential |-> c, secret |-> c, pepper |-> p,
            check |-> IF p = 1 /\ c > 0 THEN PepperCheckSize ELSE 0, keyboard |-> k] :
             c \in {0, 1024}, p \in {0, 1}, k \in {0, 1}}
Attestations ==
  {[name |-> 64, ak |-> 1, bootKey |-> b, releaseKey |-> 4096, salt |-> 1024, selection |-> 24,
    count |-> 2, phone |-> ph, vault |-> v] :
     b \in {0, 2048}, ph \in Phones \union {NoMethod}, v \in Vaults \union {NoMethod}}
aPayload(k, d, m, a) ==
  [public |-> k, private |-> k, alg |-> IF k = 0 THEN 0 ELSE 5, digests |-> d, generation |-> 1,
   ref |-> 64, signing |-> 2048, approval |-> 1024, pcrKey |-> 512, measurePoint |-> m, att |-> a]
Payloads ==
  {aPayload(k, d, m, a) : k \in {0, 2}, d \in Digests, m \in {0, 1}, a \in Attestations \union {NoAttestation}}
    \union {aPayload(MaxBlobSize \div 2, d, 0, NoAttestation) : d \in Digests}

\* The flag of the measure point means nothing without an event log's PCR.
Normal(p) == [p EXCEPT !.measurePoint = IF HasEventlogPCRs(p) THEN @ ELSE 0]

\* A record a command writes is one every boot can read; cut short anywhere it
\* is refused; with anything behind the payload's end, too.
RecordReads(p) ==
  \A data \in {SignBlobPayload(p, 512)}, payload \in {MarshalPayload(p)} :
    data # Refused =>
      /\ UnmarshalSealedBlob(data) # Refused
      /\ \A n \in 0..(Len(data) - 1) : UnmarshalSealedBlob(SubSeq(data, 1, n)) = Refused
      /\ \A n \in 0..(Len(payload) - 1) : UnmarshalPayload(SubSeq(payload, 1, n)) = Refused
      /\ UnmarshalPayload(Append(payload, 0)) = Refused

\* It is read as what was written: two payloads are read alike only when they
\* are the same.
ReadBack(p) == LET payload == MarshalPayload(p) IN IF payload = Refused THEN Refused ELSE UnmarshalPayload(payload)
RecordSays(p, others) ==
  \A got \in {ReadBack(p)} :
    got # Refused => \A q \in others : ReadBack(q) = got => Normal(q) = Normal(p)
=============================================================================
