------------------------------- MODULE Wire --------------------------------
(***************************************************************************)
(* What two ends of an attestation send each other (core/attest wire.go,   *)
(* messages.go, canon.go): fields of <tag, length, value> in ascending     *)
(* order behind a type and a version, lists, PCR selections, and the table *)
(* of every message.  Bytes are abstracted to cells (a tag and a length    *)
(* are one cell each) where framing is the question, and to their number   *)
(* where the limits are.                                                   *)
(***************************************************************************)
EXTENDS Outcomes, Integers, Sequences, SequencesExt, FiniteSets, FiniteSetsExt

WireVersion == 1
MaxMessageSize == 65000
Header == 6
MaxPCRIndex == 24
MaxPCR7Chain == 16384
MaxEKCertChain == 16384
MaxInitrdChain == 16384
MaxAnchorAttestation == 16384
MaxEventlogChunk == 32768
MaxEventlogSize == 1048576
----------------------------------------------------------------------------
(* Framing: a message is <<type, version>> and its fields.                 *)

\* Encoder.field and Finish; the tags are the ones of the code, ascending.
EncodeFields(type, fields) ==
  <<type, WireVersion>>
    \o FlattenSeq([i \in DOMAIN fields |->
                     <<fields[i].tag, Len(fields[i].value)>> \o fields[i].value])

\* Decode's loop: a header cut short, a tag that does not ascend and a length
\* past the end are refused.
Fields(data) ==
  LET n == Len(data)
      from[off \in 1..(n + 1), last \in -1..n] ==
        CASE off = n + 1 -> <<>>
          [] off = n -> Refused
          [] OTHER -> LET len == data[off + 1] IN
               IF data[off] <= last \/ len > n - off - 1 \/ data[off] > n THEN Refused
               ELSE LET rest == from[off + 2 + len, data[off]] IN
                    IF rest = Refused THEN Refused
                    ELSE <<[tag |-> data[off], value |-> SubSeq(data, off + 2, off + 1 + len)]>> \o rest
  IN  from[3, -1]

\* Decode; Sub decodes a field's value the same way, below a type of its own.
Decode(data) ==
  IF Len(data) > MaxMessageSize \/ Len(data) < 2 \/ data[2] # WireVersion THEN Refused
  ELSE Fields(data)

EncodeList(entries) ==
  <<Len(entries)>>
    \o FlattenSeq([i \in DOMAIN entries |-> <<Len(entries[i])>> \o entries[i]])

\* DecodeList: as many entries as it says, none longer than maxEntry, and
\* nothing behind the last.
DecodeList(data, maxEntries, maxEntry) ==
  LET n == Len(data)
      from[off \in 1..(n + 1), left \in 0..maxEntries] ==
        CASE left = 0 -> IF off = n + 1 THEN <<>> ELSE Refused
          [] left > 0 /\ off = n + 1 -> Refused
          [] OTHER -> IF data[off] > maxEntry \/ data[off] > n - off THEN Refused
                      ELSE LET rest == from[off + 1 + data[off], left - 1] IN
                           IF rest = Refused THEN Refused
                           ELSE <<SubSeq(data, off + 1, off + data[off])>> \o rest
  IN  IF n < 1 THEN Refused ELSE IF data[1] > maxEntries THEN Refused ELSE from[2, data[1]]
----------------------------------------------------------------------------
(* PCR selections (canon.go).                                              *)

DigestSize(alg) == CASE alg = "sha1" -> 20 [] alg = "sha256" -> 32 [] OTHER -> 0

\* Validate.
ValidSelection(s) ==
  /\ DigestSize(s.alg) # 0 /\ s.indices # <<>>
  /\ \A i \in DOMAIN s.indices :
       s.indices[i] < MaxPCRIndex /\ (i > 1 => s.indices[i] > s.indices[i - 1])

\* The indices once each, in ascending order.
NewPCRSelection(alg, indices) ==
  IF DigestSize(alg) = 0 \/ indices = <<>>
       \/ \E i \in DOMAIN indices : indices[i] \notin 0..(MaxPCRIndex - 1) THEN Refused
  ELSE [alg |-> alg,
        indices |-> SetToSortSeq({indices[i] : i \in DOMAIN indices}, LAMBDA a, b : a < b)]

\* What QualifyingData hashes of a selection: bank, count, indices.
canonical(s) == <<s.alg, Len(s.indices)>> \o s.indices

\* lp: a length before the bytes keeps two fields of a signed text apart.
lp(x) == <<Len(x)>> \o x

\* ReceiptTBS and EnrolAcceptTBS: the fields of a signed text, one after the other.
SignedText(fields) == FlattenSeq([i \in DOMAIN fields |-> lp(fields[i])])
----------------------------------------------------------------------------
(* The messages.  A field: its tag, the sizes its getter takes, whether it *)
(* must be there, whether the encoder leaves it out when it is empty, the  *)
(* tag of the pointer it hangs on (group), the field it is nested in (sub) *)
(* and what its text is cut to before it is sent.                          *)

Uncut == MaxMessageSize + 1
Bytes(tag, max, req) ==
  [tag |-> tag, lo |-> 0, hi |-> max, req |-> req, omit |-> FALSE, int |-> FALSE,
   vals |-> FALSE, group |-> 0, sub |-> 0, cut |-> Uncut]
Fixed(tag, n, req) == [Bytes(tag, n, req) EXCEPT !.lo = n]
intField(tag, n, req) == [Fixed(tag, n, req) EXCEPT !.int = TRUE]
\* OptBytes, and the conditional strings and integers.
Opt(f) == [f EXCEPT !.omit = TRUE]
\* decodePCRValues: at most 24 entries of an index and a digest of up to 64 bytes.
PCRValues(tag, req) ==
  [Bytes(tag, MaxPCRIndex, req) EXCEPT !.vals = TRUE]
In(group, f) == [f EXCEPT !.group = group]

ShortString(tag, req) == Bytes(tag, 64, req)
\* decodeSelection; Validate refuses the empty one.
Selection(algTag, idxTag) == {intField(algTag, 2, TRUE), [Bytes(idxTag, MaxPCRIndex, TRUE) EXCEPT !.lo = 1]}

\* BootContext, inside the field of that tag.
BootContext(sub) ==
  {[f EXCEPT !.sub = sub, !.tag = sub * 100 + f.tag] :
     f \in {intField(1, 4, FALSE), intField(2, 4, FALSE), Bytes(3, 512, FALSE),
            Opt(Bytes(4, MaxPCR7Chain, FALSE)), Bytes(5, MaxPCRIndex, FALSE), intField(6, 8, FALSE)}}
maxBootContext == 2048 + MaxPCR7Chain

Hello == {intField(1, 2, TRUE), Fixed(2, 16, TRUE), Fixed(3, 32, TRUE), intField(4, 4, FALSE),
          ShortString(5, FALSE)}
Request == {Fixed(1, 32, TRUE), intField(4, 1, FALSE), ShortString(5, FALSE), Fixed(6, 65, TRUE),
            Fixed(7, 24, TRUE)} \union Selection(2, 3)
Evidence ==
  {intField(1, 2, TRUE), Fixed(2, 16, TRUE), Bytes(3, 68, TRUE), Bytes(4, 1024, TRUE),
   Bytes(5, 600, TRUE), intField(6, 2, TRUE), PCRValues(7, TRUE), Opt(Fixed(8, 32, FALSE)),
   ShortString(10, FALSE), Opt(intField(11, 4, FALSE)), intField(12, 1, FALSE),
   Opt(Fixed(13, 32, FALSE)), Opt(Bytes(14, 600, FALSE)),
   In(15, Bytes(15, 1024, FALSE)), In(15, Bytes(16, 1024, TRUE)), In(15, Opt(ShortString(17, FALSE))),
   In(18, Bytes(18, 1024, FALSE)), In(18, Bytes(19, 1024, TRUE)), In(18, Bytes(20, 64, TRUE))}
    \union BootContext(9)
EventlogRequest == {Fixed(1, 32, TRUE), intField(2, 4, FALSE)}
EventlogChunk == {Fixed(1, 32, TRUE), intField(2, 4, TRUE), intField(3, 4, TRUE),
                  Bytes(4, MaxEventlogChunk, TRUE)}
Receipt ==
  {intField(1, 1, TRUE), Fixed(2, 16, TRUE), Bytes(3, 68, TRUE), Fixed(4, 32, TRUE),
   Fixed(5, 32, TRUE), ShortString(6, FALSE), intField(7, 8, TRUE), intField(8, 8, TRUE),
   ShortString(9, TRUE), Opt(Bytes(10, 128, FALSE))}
Release ==
  {intField(1, 1, TRUE), intField(2, 1, TRUE), Bytes(3, 1024, TRUE), Bytes(4, 1024, TRUE),
   Opt(Bytes(5, 4096, FALSE)), Opt(Bytes(6, 600, FALSE)), Opt(ShortString(7, FALSE)),
   Opt(Bytes(8, 1024, FALSE)), Opt(Bytes(9, 1024, FALSE))}
ReceiptAck == {intField(1, 1, TRUE), Bytes(2, 256, FALSE)}
ReleaseAck == {intField(1, 1, TRUE), Bytes(2, 256, FALSE)}
Nonce == {Fixed(1, 32, TRUE)}
EnrolOffer ==
  {intField(1, 2, TRUE), Fixed(2, 16, TRUE), ShortString(3, TRUE), Bytes(4, 1024, TRUE),
   Opt(Bytes(5, 4096, FALSE)), Bytes(6, 1024, TRUE), Bytes(7, 68, TRUE), PCRValues(10, TRUE),
   Bytes(11, 1024, TRUE), Bytes(12, 600, TRUE), Opt(Fixed(13, 32, FALSE)), ShortString(15, FALSE),
   Fixed(16, 32, TRUE), Opt(Bytes(17, MaxEKCertChain, FALSE)), Opt(PCRValues(18, FALSE)),
   Bytes(19, 1024, TRUE), Bytes(20, 1024, TRUE), Bytes(21, 600, TRUE), Bytes(22, 1024, TRUE),
   Bytes(23, 64, TRUE), Opt(Bytes(24, MaxInitrdChain, FALSE)),
   Opt(Bytes(25, MaxInitrdChain, FALSE)), Bytes(26, 512, FALSE)}
    \union Selection(8, 9) \union BootContext(14)
Challenge == {Bytes(1, 1024, TRUE), Bytes(2, 1024, TRUE)}
ChallengeResponse == {Bytes(1, 64, TRUE)}
EnrolAccept == {[ShortString(1, TRUE) EXCEPT !.lo = 1], Bytes(3, 256, TRUE), ShortString(4, FALSE),
                intField(5, 4, FALSE), Bytes(6, 128, TRUE), Opt(Bytes(7, MaxAnchorAttestation, FALSE))}
EnrolConfirm == {Fixed(1, 32, TRUE), intField(2, 1, FALSE)}
ErrorMsg == {intField(1, 2, TRUE), [Bytes(2, 256, FALSE) EXCEPT !.cut = 256]}

Messages ==
  [Hello |-> Hello, Request |-> Request, Evidence |-> Evidence,
   EventlogRequest |-> EventlogRequest, EventlogChunk |-> EventlogChunk, Receipt |-> Receipt,
   Release |-> Release, ReceiptAck |-> ReceiptAck, ReleaseAck |-> ReleaseAck, Nonce |-> Nonce,
   EnrolOffer |-> EnrolOffer, Challenge |-> Challenge, ChallengeResponse |-> ChallengeResponse,
   EnrolAccept |-> EnrolAccept, EnrolConfirm |-> EnrolConfirm, ErrorMsg |-> ErrorMsg]

Nil == -1
Tags(m) == {f.tag : f \in Messages[m]}
FieldOf(m, t) == CHOOSE f \in Messages[m] : f.tag = t
Lesser(a, b) == IF a < b THEN a ELSE b

\* The tags a message's Encode writes of a value (tag -> size).
Written(m, v) ==
  {t \in Tags(m) : LET f == FieldOf(m, t) IN
     /\ f.omit => v[t] > 0
     /\ f.group # 0 => v[f.group] # Nil}

\* The bytes of a field: a list of PCR values has a count and an entry each.
size(f, n) == Header + IF f.vals THEN 2 + n * (4 + 1 + 64) ELSE n

\* The bytes of a nested message, its own header not counted.
SubSize(m, w, sub) ==
  MapThenSumSet(LAMBDA t : IF FieldOf(m, t).sub = sub THEN size(FieldOf(m, t), w[t]) ELSE 0, DOMAIN w)
Subs(m) == {f.sub : f \in Messages[m]} \ {0}

\* Finish refuses what is past MaxMessageSize, encodeNonceMsg what is no nonce.
NonceSize == 32
Encode(m, v) ==
  LET w == [t \in Written(m, v) |-> Lesser(v[t], FieldOf(m, t).cut)]
      total == 2 + MapThenSumSet(LAMBDA t : size(FieldOf(m, t), w[t]), DOMAIN w)
                 + Header * Cardinality(Subs(m))
  IN  IF total > MaxMessageSize \/ (m = "Nonce" /\ v[1] # NonceSize) THEN Refused ELSE w

\* The getters: a field that is there and not of its size is an error, and so is
\* one that is missing and required; after an error every getter gives zero.
IsRead(f, w) == f.group = 0 \/ f.group \in DOMAIN w
WrongSize(f, w) == f.tag \in DOMAIN w /\ IsRead(f, w) /\ w[f.tag] \notin f.lo..f.hi
Missing(f, w) == f.tag \notin DOMAIN w /\ IsRead(f, w) /\ f.req

\* decodeBootContext asks for no error of the decoder Sub gives: the field that is
\* wrong and those after it are zero, and the message is taken.
Zeroed(m, f, w) ==
  f.sub # 0 /\ \E g \in Messages[m] : g.sub = f.sub /\ g.tag <= f.tag /\ WrongSize(g, w)

Decoded(m, w) ==
  [t \in Tags(m) |->
     LET f == FieldOf(m, t) IN
     CASE ~ IsRead(f, w) -> Nil
       [] IsRead(f, w) /\ t \in DOMAIN w /\ ~ Zeroed(m, f, w) -> w[t]
       [] OTHER -> 0]

\* The message's own getters, and Sub's limit.
GettersFail(m, w) ==
  \/ \E f \in Messages[m] : f.sub = 0 /\ (WrongSize(f, w) \/ Missing(f, w))
  \/ \E s \in Subs(m) : SubSize(m, w, s) > maxBootContext

\* Mutant of DecodeMessage: a seed without its secret is taken.
DecodeHalf(m, w) == IF GettersFail(m, w) THEN Refused ELSE Decoded(m, w)

\* The Decode of every message: the getters in turn, then what it checks itself.
DecodeMessage(m, w) ==
  IF GettersFail(m, w) \/ (m = "Release" /\ (8 \in DOMAIN w) # (9 \in DOMAIN w)) THEN Refused ELSE Decoded(m, w)

\* sendEventlog from an offset: the chunks of a log of that many bytes.
Chunks(total, offset) ==
  [i \in 1..((total - offset + MaxEventlogChunk - 1) \div MaxEventlogChunk) |->
     LET off == offset + (i - 1) * MaxEventlogChunk IN
     [off |-> off, total |-> total, len |-> Lesser(MaxEventlogChunk, total - off)]]

\* DecodeEventlogChunk's check, and handleEventlogChunk's: it continues the log.
TakeChunk(received, c) ==
  IF \/ received = Refused \/ c.len > MaxEventlogChunk \/ c.total > MaxEventlogSize
     \/ c.off + c.len > c.total \/ c.off # received
  THEN Refused ELSE received + c.len
Transferred(chunks) == FoldLeft(TakeChunk, 0, chunks)
----------------------------------------------------------------------------
(* What is compared below: the sizes a field may have around its limits.   *)

Edges(f) ==
  (IF f.int THEN IF f.omit THEN {0, f.hi} ELSE {f.hi} ELSE {0, f.lo, f.hi, f.hi + 1})
    \union (IF f.group # 0 THEN {Nil} ELSE {})
    \union (IF f.sub # 0 /\ ~ f.int THEN {maxBootContext} ELSE {})
Least(m) == [t \in Tags(m) |-> LET f == FieldOf(m, t) IN
               IF f.group # 0 THEN Nil ELSE IF f.int /\ f.omit THEN 0 ELSE IF f.omit THEN 0 ELSE f.lo]
Most(m) == [t \in Tags(m) |-> FieldOf(m, t).hi]
\* A pointer is nil with all its fields, or with none.
Whole(m, v) == \A t \in Tags(m) : LET g == FieldOf(m, t).group IN g # 0 => (v[t] = Nil) = (v[g] = Nil)
OverLimit(f, v) == v[f.tag] # Nil /\ v[f.tag] \notin f.lo..f.hi /\ ~ (f.omit /\ v[f.tag] = 0) /\ v[f.tag] <= f.cut
\* The chains of digests and certificates, which together could fill a message.
Chains(m) == {t \in Tags(m) : FieldOf(m, t).hi = MaxInitrdChain}

\* What one end encodes the other decodes to the same value or refuses, and it
\* refuses exactly a field past its limit, a boot context that is too large as a
\* whole and half a seed; within a boot context a field past its limit is not
\* refused but lost, with every field after it and none before.  A message within
\* the limits of its fields always fits the wire, but where three of an enrolment
\* offer's four chains are full; an error's text arrives cut.
MessageAgrees(m, v) ==
  LET w == Encode(m, v) IN
  IF w = Refused THEN \/ m = "EnrolOffer" /\ Cardinality({t \in Chains(m) : v[t] >= MaxInitrdChain}) >= 3
                      \/ m = "Nonce" /\ OverLimit(FieldOf(m, 1), v)
  ELSE LET got == DecodeMessage(m, w)
           half == m = "Release" /\ (v[8] = 0) # (v[9] = 0)
           large == \E s \in Subs(m) : SubSize(m, w, s) > maxBootContext
           lost(f) == f.sub # 0 /\ \E g \in Messages[m] : g.sub = f.sub /\ g.tag <= f.tag /\ OverLimit(g, v)
       IN  /\ (got = Refused) = (half \/ large \/ \E f \in Messages[m] : f.sub = 0 /\ OverLimit(f, v))
           /\ got # Refused =>
                \A f \in Messages[m] : got[f.tag] = IF lost(f) THEN 0 ELSE Lesser(v[f.tag], f.cut)

\* Bytes that decode are the bytes their fields encode to: nothing cut short,
\* nothing twice, nothing behind the end passes, so no two texts say the same.
CellsAgree(x) ==
  /\ \A d \in {Decode(x)} : d # Refused => EncodeFields(x[1], d) = x
  /\ \A l \in {DecodeList(x, 3, 2)} : l # Refused => EncodeList(l) = x

\* A selection NewPCRSelection makes is one Validate takes, whatever the order
\* and the repetitions it was given, and two of them hash alike only when they
\* are of the same registers.
SelectionsAgree(a, b) ==
  LET s == NewPCRSelection("sha256", a)
      t == NewPCRSelection("sha256", b)
  IN  s # Refused /\ t # Refused =>
        /\ ValidSelection(s)
        /\ (canonical(s) = canonical(t)) = (Range(a) = Range(b))

\* Two receipts, or two acceptances, have one signed text only when every field
\* is the same.
TextsAgree(x, y) == SignedText(x) = SignedText(y) => x = y

\* The event log arrives whole, at any size, from the start: the one offset a
\* verifier asks for.
LogArrives(total) == Transferred(Chunks(total, 0)) = total
=============================================================================
