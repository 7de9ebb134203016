------------------------ MODULE AttestSessionProofs ------------------------
(***************************************************************************)
(* What the machine and the phone owe each other, for any number of        *)
(* sessions, boots and records of an event log, and wherever a connection  *)
(* breaks: the two state machines fit (NoProtocolError), an enrolment is   *)
(* one of both (EnrolmentAgreed), a salt or a seed is released as decided  *)
(* (ReleaseIsDecided), and the phone's record follows (RecordFollows).     *)
(* Records under way are looked at as a set; their order matters only as   *)
(* far as no kind of record but a few is under way twice.                  *)
(***************************************************************************)
EXTENDS AttestSession, TLAPS

Recs(s) == {s[i] : i \in 1..Len(s)}
Types(s) == {m.type : m \in Recs(s)}

\* Records of one kind that may be under way together.
Repeats == {"chunk", "error", "logRequest", "bye"}
Once(s) ==
  \A i, j \in 1..Len(s) : s[i].type = s[j].type /\ s[i].type \notin Repeats => i = j

Serving(m) == m \notin {"idle", "over"}
Running(v) == v \notin {"idle", "done", "failed"}

----------------------------------------------------------------------------
(* The inductive invariant, part by part. *)

Records == [key : Nat \ {0}, profiles : SUBSET Values, resets : Nat,
            once : SUBSET Values, salt : Nat, keyboard : BOOLEAN]
PhoneFields == {"verdict", "receipt", "remember", "keep", "keyboard", "log", "asked",
                "got", "layout", "shown", "why"}
MachFields == {"answer", "taken", "returned", "seed"}

SessionTypeOK ==
  /\ session \in Nat /\ session >= 2
  /\ boot.val \in Values /\ boot.resets \in Nat
  /\ up \in Seq(Recs(up)) /\ down \in Seq(Recs(down))
  /\ DOMAIN mach = MachFields /\ DOMAIN phone = PhoneFields
  /\ rec = NoRecord \/ rec \in Records
  /\ (mst = "idle") <=> (vst = "idle")
  /\ mst = "idle" => up = <<>> /\ down = <<>> /\ mach = NoMach /\ phone = NoPhone

\* What may be under way to a machine that is there, and to a phone.
UpTypes == CASE mst = "hs1" -> (IF pkind = "enrol" THEN {"XX"} ELSE {"IK"})
             [] mst = "person" -> {"sasConfirm"}
             [] mst = "last" -> {"bye"}
             [] OTHER -> Expected(mst)
UpFits == Serving(mst) => Once(up) /\ Types(up) \subseteq UpTypes \union {"error"}

DownFits ==
  Running(vst) =>
    /\ Once(down)
    /\ vst # "handshake" => Types(down) \subseteq Awaited(vst) \union {"error"}
    /\ vst = "handshake" =>
         /\ \/ Types(down) \subseteq {"XX"} /\ mst # "request"
            \/ Types(down) \subseteq {"IK", "hello"} /\ mst # "hs3"
            \/ Types(down) \subseteq {"plain"} /\ mst = "over"

\* An error is the last that its sender says.
ErrorsEnd ==
  /\ "error" \in Types(up) => vst = "failed"
  /\ "error" \in Types(down) => mst = "over"

\* While both are there they are at one point of the protocol, and whose turn
\* it is has nothing under way to the other.
PhoneTurn ==
  {<<"hs3", "handshake">>, <<"sasNonce", "sasCommit">>, <<"person", "sasReveal">>,
   <<"sasConfirm", "sasReveal">>, <<"person", "sasUser">>, <<"sasConfirm", "sasUser">>,
   <<"challenge", "enrolOffer">>, <<"accept", "response">>, <<"accept", "anchorKey">>,
   <<"accept", "anchorSig">>, <<"last", "enrolConfirm">>, <<"request", "handshake">>,
   <<"request", "hello">>, <<"serve", "evidence">>}
MachineTurn ==
  {<<"hs1", "handshake">>, <<"hs3", "sasCommit">>, <<"sasNonce", "sasReveal">>,
   <<"person", "enrolOffer">>, <<"sasConfirm", "enrolOffer">>, <<"challenge", "response">>,
   <<"accept", "enrolConfirm">>, <<"request", "evidence">>}
InStep ==
  Serving(mst) /\ Running(vst) =>
    \/ <<mst, vst>> \in PhoneTurn /\ up = <<>>
    \/ <<mst, vst>> \in MachineTurn /\ down = <<>>
    \/ mst = "serve" /\ vst \in InTransfer

\* A receipt and its answer, a release and its answer: one after the other.
Answers ==
  /\ "receipt" \in Types(up) => vst \in {"receiptAck", "done", "failed"}
                                /\ "receiptAck" \notin Types(down)
  /\ "release" \in Types(up) => vst \in {"releaseAck", "done", "failed"}
                                /\ "releaseAck" \notin Types(down)

TalkInv == UpFits /\ DownFits /\ ErrorsEnd /\ InStep /\ Answers

\* Both have confirmed the code once they are past it, and what they send of
\* an anchor is this session's.
EnrolInv ==
  /\ EnrolmentAgreed
  /\ mst \in {"sasConfirm", "challenge", "accept"} => <<session, "machine">> \in agreed
  /\ vst \in {"enrolOffer", "response", "anchorKey", "anchorSig", "enrolConfirm"} =>
       <<session, "phone">> \in agreed
  /\ \A m \in Recs(up) : m.type = "accept" => m.anchor = session /\ <<session, "phone">> \in agreed
  /\ \A m \in Recs(down) : m.type = "confirm" => m.anchor \in enrolled

\* The salt that the machine is to have the phone keep in this session, or 0.
ToKeep == IF mkind = "keep" THEN session ELSE 0

\* What has been shown to the phone of the boot, and its verdict on the reset
\* count, until the record is updated.
VerdictInv ==
  /\ \A m \in Recs(down) : m.type \in {"offer", "evidence"} => m.val \in Values /\ m.resets \in Nat
  /\ \A m \in Recs(down) : m.type = "evidence" => m.keep = ToKeep /\ m.keyboard \in BOOLEAN
  /\ vst \in {"response", "anchorKey", "anchorSig", "enrolConfirm", "decision", "receiptSig", "receiptAck"} =>
       phone.verdict.val \in Values /\ phone.verdict.resets \in Nat
  /\ vst \in InTransfer => phone.keep = ToKeep /\ phone.keyboard \in BOOLEAN
  /\ vst \in {"hello", "evidence"} \union InTransfer \/ (vst = "handshake" /\ pkind = "attest") =>
       rec \in Records
  /\ vst \in {"decision", "receiptSig", "receiptAck"} /\ phone.verdict.resets < rec.resets =>
       phone.verdict.state = "failed"
  /\ rec.key <= session /\ (Running(vst) => rec.key < session)

\* From the machine's answer to a receipt to what it takes of a release.
ReleaseInv ==
  /\ vst \notin {"receiptAck", "releaseAck", "done", "failed"} => mach.answer = "none"
  /\ "receipt" \in Types(up) => mach.answer = "none"
  /\ \A m \in Recs(down) : m.type = "receiptAck" /\ m.result = "accepted" => mach.answer = "accepted"
  /\ \A m \in Recs(up) : m.type = "release" =>
       /\ mach.answer = "accepted" /\ Trusted(phone.receipt) /\ m.salt = rec.salt
       /\ phone.shown = 0
       /\ vst = "releaseAck" => m.seed = phone.layout
  /\ mach.taken # 0 \/ mach.returned =>
       /\ mach.answer = "accepted" /\ Trusted(phone.receipt)
       /\ vst \in {"releaseAck", "done", "failed"}
       /\ rec.salt = IF mach.returned THEN session ELSE mach.taken
  /\ mach.returned => mkind = "keep"
  /\ \A m \in Recs(down) : m.type = "releaseAck" /\ m.status = "ok" /\ vst = "releaseAck" =>
       mkind = "keep" \/ mach.seed = phone.layout
  /\ phone.shown # 0 => phone.shown = mach.seed /\ vst = "done"

SessionIInv == SessionTypeOK /\ TalkInv /\ EnrolInv /\ VerdictInv /\ ReleaseInv

----------------------------------------------------------------------------
(* Sequences of records. *)

LEMMA NoRecs ==
  Recs(<<>>) = {} /\ Types(<<>>) = {} /\ Once(<<>>) /\ <<>> \in Seq(Recs(<<>>))
  BY DEF Recs, Types, Once

LEMMA OwnRecs ==
  ASSUME NEW S, NEW s \in Seq(S)
  PROVE  s \in Seq(Recs(s))
  BY DEF Recs

LEMMA EmptyRecs ==
  ASSUME NEW s, s \in Seq(Recs(s)), Types(s) = {}
  PROVE  s = <<>>
<1>1. Recs(s) = {}
  BY DEF Types
<1> QED
  BY <1>1 DEF Recs

LEMMA TypeOfRec ==
  ASSUME NEW s, NEW m \in Recs(s)
  PROVE  m.type \in Types(s)
  BY DEF Types

\* The first record is taken.
LEMMA TailRecs ==
  ASSUME NEW s, s \in Seq(Recs(s)), s # <<>>
  PROVE  /\ Tail(s) \in Seq(Recs(Tail(s)))
         /\ Head(s) \in Recs(s) /\ Head(s).type \in Types(s)
         /\ Recs(Tail(s)) \subseteq Recs(s) /\ Types(Tail(s)) \subseteq Types(s)
<1>1. /\ Tail(s) \in Seq(Recs(s)) /\ Len(Tail(s)) = Len(s) - 1
      /\ \A i \in 1..Len(Tail(s)) : Tail(s)[i] = s[i + 1]
  OBVIOUS
<1>2. Recs(Tail(s)) \subseteq Recs(s) /\ Head(s) \in Recs(s)
  BY <1>1 DEF Recs
<1>3. Tail(s) \in Seq(Recs(Tail(s)))
  BY <1>1, OwnRecs
<1> QED
  BY <1>2, <1>3 DEF Types

LEMMA TailOnce ==
  ASSUME NEW s, s \in Seq(Recs(s)), s # <<>>, Once(s)
  PROVE  Once(Tail(s)) /\ (Head(s).type \notin Repeats => Head(s).type \notin Types(Tail(s)))
<1>1. /\ Len(s) \in Nat /\ Len(s) > 0 /\ Len(Tail(s)) = Len(s) - 1 /\ Head(s) = s[1]
      /\ \A i \in 1..Len(Tail(s)) : Tail(s)[i] = s[i + 1]
  OBVIOUS
<1>2. Once(Tail(s))
  BY <1>1 DEF Once
<1>3. ASSUME Head(s).type \notin Repeats, Head(s).type \in Types(Tail(s)) PROVE FALSE
  <2>1. PICK i \in 1..Len(Tail(s)) : Tail(s)[i].type = Head(s).type
    BY <1>3 DEF Types, Recs
  <2>2. s[i + 1].type = s[1].type /\ i + 1 \in 1..Len(s) /\ 1 \in 1..Len(s)
    BY <1>1, <2>1
  <2>3. i + 1 = 1
    BY <2>2, <1>1, <1>3 DEF Once
  <2> QED
    BY <2>1, <2>3
<1> QED
  BY <1>2, <1>3

\* A record is sent.
LEMMA AppendRecs ==
  ASSUME NEW s, s \in Seq(Recs(s)), NEW m
  PROVE  /\ Append(s, m) \in Seq(Recs(Append(s, m)))
         /\ Recs(Append(s, m)) = Recs(s) \union {m}
         /\ Types(Append(s, m)) = Types(s) \union {m.type}
         /\ Once(s) /\ (m.type \in Repeats \/ m.type \notin Types(s)) => Once(Append(s, m))
<1>1. /\ Len(s) \in Nat /\ Len(Append(s, m)) = Len(s) + 1
      /\ \A i \in 1..Len(s) : Append(s, m)[i] = s[i]
      /\ Append(s, m)[Len(s) + 1] = m
      /\ Append(s, m) \in Seq(Recs(s) \union {m})
  OBVIOUS
<1>2. Recs(Append(s, m)) = Recs(s) \union {m}
  BY <1>1 DEF Recs
<1>3. Types(Append(s, m)) = Types(s) \union {m.type}
  BY <1>2 DEF Types
<1>4. ASSUME Once(s), m.type \in Repeats \/ m.type \notin Types(s) PROVE Once(Append(s, m))
  <2> SUFFICES ASSUME NEW i \in 1..Len(s) + 1, NEW j \in 1..Len(s) + 1,
                      Append(s, m)[i].type = Append(s, m)[j].type,
                      Append(s, m)[i].type \notin Repeats
               PROVE  i = j
    BY <1>1 DEF Once
  <2>1. CASE i \in 1..Len(s) /\ j \in 1..Len(s)
    BY <1>1, <1>4, <2>1 DEF Once
  <2>2. CASE i = Len(s) + 1 /\ j \in 1..Len(s)
    BY <1>1, <1>4, <2>2 DEF Types, Recs
  <2>3. CASE i \in 1..Len(s) /\ j = Len(s) + 1
    BY <1>1, <1>4, <2>3 DEF Types, Recs
  <2>4. CASE i = Len(s) + 1 /\ j = Len(s) + 1
    BY <2>4
  <2> QED
    BY <1>1, <2>1, <2>2, <2>3, <2>4
<1> QED
  BY <1>1, <1>2, <1>3, <1>4

LEMMA ConcatOne ==
  ASSUME NEW s, s \in Seq(Recs(s)), NEW m
  PROVE  s \o <<m>> = Append(s, m)
  OBVIOUS

LEMMA ConcatTwo ==
  ASSUME NEW s, s \in Seq(Recs(s)), NEW m, NEW n
  PROVE  s \o <<m, n>> = Append(Append(s, m), n)
  OBVIOUS

\* The event log is sent.
LEMMA ChunkRecs ==
  ASSUME NEW s, s \in Seq(Recs(s)), NEW t, t \in Seq(Recs(t)), \A m \in Recs(t) : m.type = "chunk"
  PROVE  /\ s \o t \in Seq(Recs(s \o t))
         /\ Recs(s \o t) \subseteq Recs(s) \union Recs(t)
         /\ Types(s \o t) \subseteq Types(s) \union {"chunk"}
         /\ Once(s) => Once(s \o t)
<1>1. /\ Len(s) \in Nat /\ Len(t) \in Nat /\ Len(s \o t) = Len(s) + Len(t)
      /\ s \o t \in Seq(Recs(s) \union Recs(t))
      /\ \A i \in 1..Len(s) + Len(t) : (s \o t)[i] = IF i <= Len(s) THEN s[i] ELSE t[i - Len(s)]
  OBVIOUS
<1>2. Recs(s \o t) \subseteq Recs(s) \union Recs(t)
  BY <1>1 DEF Recs
<1>3. s \o t \in Seq(Recs(s \o t))
  BY <1>1, OwnRecs
<1>4. Types(s \o t) \subseteq Types(s) \union {"chunk"}
  BY <1>2 DEF Types
<1>5. ASSUME Once(s) PROVE Once(s \o t)
  <2> SUFFICES ASSUME NEW i \in 1..Len(s) + Len(t), NEW j \in 1..Len(s) + Len(t),
                      (s \o t)[i].type = (s \o t)[j].type, (s \o t)[i].type \notin Repeats
               PROVE  i = j
    BY <1>1 DEF Once
  <2>1. ASSUME NEW k \in 1..Len(s) + Len(t), ~(k <= Len(s)) PROVE (s \o t)[k].type = "chunk"
    <3>1. k - Len(s) \in 1..Len(t) /\ (s \o t)[k] = t[k - Len(s)]
      BY <1>1, <2>1
    <3> QED
      BY <3>1 DEF Recs
  <2>2. i <= Len(s) /\ j <= Len(s)
    BY <2>1 DEF Repeats
  <2> QED
    BY <1>1, <1>5, <2>2 DEF Once
<1> QED
  BY <1>2, <1>3, <1>4, <1>5

\* The connection breaks.
LEMMA PrefixRecs ==
  ASSUME NEW s, s \in Seq(Recs(s)), NEW n \in 0..Len(s)
  PROVE  /\ SubSeq(s, 1, n) \in Seq(Recs(SubSeq(s, 1, n)))
         /\ Recs(SubSeq(s, 1, n)) \subseteq Recs(s) /\ Types(SubSeq(s, 1, n)) \subseteq Types(s)
         /\ Once(s) => Once(SubSeq(s, 1, n))
         /\ s = <<>> => SubSeq(s, 1, n) = <<>>
<1>1. /\ Len(s) \in Nat /\ SubSeq(s, 1, n) \in Seq(Recs(s)) /\ Len(SubSeq(s, 1, n)) = n
      /\ \A i \in 1..n : SubSeq(s, 1, n)[i] = s[i]
  OBVIOUS
<1>2. Recs(SubSeq(s, 1, n)) \subseteq Recs(s)
  BY <1>1 DEF Recs
<1>3. Types(SubSeq(s, 1, n)) \subseteq Types(s)
  BY <1>2 DEF Types
<1>4. Once(s) => Once(SubSeq(s, 1, n))
  BY <1>1 DEF Once
<1>5. s = <<>> => SubSeq(s, 1, n) = <<>>
  BY <1>1
<1>6. SubSeq(s, 1, n) \in Seq(Recs(SubSeq(s, 1, n)))
  BY <1>1, OwnRecs
<1> QED
  BY <1>2, <1>3, <1>4, <1>5, <1>6

----------------------------------------------------------------------------
(* The conversation. *)

LEMMA AwaitedIs ==
  /\ Awaited("sasCommit") = {"sasCommit"} /\ Awaited("sasReveal") = {"sasReveal"}
  /\ Awaited("sasUser") = {} /\ Awaited("enrolOffer") = {"offer"}
  /\ Awaited("response") = {"response"} /\ Awaited("anchorKey") = {} /\ Awaited("anchorSig") = {}
  /\ Awaited("enrolConfirm") = {"confirm"} /\ Awaited("hello") = {"hello"}
  /\ Awaited("evidence") = {"evidence"}
  /\ Awaited("decision") = {"chunk"} /\ Awaited("receiptSig") = {"chunk"}
  /\ Awaited("receiptAck") = {"chunk", "receiptAck"} /\ Awaited("releaseAck") = {"chunk", "releaseAck"}
  BY DEF Awaited, InTransfer

\* What the machine finds in the record it takes, and what is left after it.
LEMMA MachineTakes ==
  ASSUME SessionTypeOK, TalkInv, Serving(mst), up # <<>>, up' = Tail(up)
  PROVE  /\ up' \in Seq(Recs(up')) /\ Recs(up') \subseteq Recs(up) /\ Head(up) \in Recs(up)
         /\ Types(up') \subseteq Types(up) /\ Once(up')
         /\ Head(up).type \in UpTypes \union {"error"}
         /\ Head(up).type \notin Repeats => Head(up).type \notin Types(up')
         /\ Running(vst) => "error" \notin Types(up)
         /\ Running(vst) => \/ <<mst, vst>> \in MachineTurn /\ down = <<>>
                            \/ mst = "serve" /\ vst \in InTransfer
<1>1. up \in Seq(Recs(up)) /\ Once(up) /\ Types(up) \subseteq UpTypes \union {"error"}
  BY DEF SessionTypeOK, TalkInv, UpFits
<1>2. /\ up' \in Seq(Recs(up')) /\ Recs(up') \subseteq Recs(up) /\ Head(up) \in Recs(up)
      /\ Types(up') \subseteq Types(up) /\ Head(up).type \in Types(up)
  BY <1>1, TailRecs
<1>3. Once(up') /\ (Head(up).type \notin Repeats => Head(up).type \notin Types(up'))
  BY <1>1, TailOnce
<1>4. Running(vst) => "error" \notin Types(up)
  BY DEF TalkInv, ErrorsEnd, Running
<1>5. Running(vst) => \/ <<mst, vst>> \in MachineTurn /\ down = <<>>
                      \/ mst = "serve" /\ vst \in InTransfer
  BY DEF TalkInv, InStep
<1> QED
  BY <1>1, <1>2, <1>3, <1>4, <1>5

\* What the machine answers a record with, and where it then is.
MachineSteps ==
  {<<"hs1", "XX", "XX", "hs3">>, <<"hs3", "XX", "sasCommit", "sasNonce">>,
   <<"sasNonce", "sasNonce", "sasReveal", "person">>,
   <<"sasConfirm", "sasConfirm", "offer", "challenge">>,
   <<"challenge", "challenge", "response", "accept">>,
   <<"accept", "accept", "confirm", "last">>, <<"request", "request", "evidence", "serve">>,
   <<"serve", "receipt", "receiptAck", "serve">>, <<"serve", "release", "releaseAck", "serve">>}

LEMMA MachineGoes ==
  ASSUME SessionTypeOK, TalkInv, up # <<>>, up' = Tail(up), NEW m, down' = Append(down, m),
         UNCHANGED <<vst, pkind>>, <<mst, Head(up).type, m.type, mst'>> \in MachineSteps
  PROVE  TalkInv'
<1>1. /\ Serving(mst) /\ Serving(mst') /\ m.type # "error" /\ Head(up).type \notin Repeats
      /\ Head(up).type # "error" /\ mst' # "hs1"
  BY DEF MachineSteps, Serving, Repeats
<1>2. /\ Types(up') \subseteq Types(up) /\ Once(up')
      /\ Head(up).type \in UpTypes \union {"error"}
      /\ Head(up).type \notin Types(up')
      /\ Types(up) \subseteq UpTypes \union {"error"}
      /\ up' \in Seq(Recs(up')) /\ Head(up).type \in Types(up)
  BY <1>1, MachineTakes, TypeOfRec DEF TalkInv, UpFits
<1>3. /\ Types(down') = Types(down) \union {m.type} /\ down' \in Seq(Recs(down'))
      /\ Once(down) /\ m.type \notin Types(down) => Once(down')
  BY AppendRecs DEF SessionTypeOK
<1>4. Running(vst) => /\ "error" \notin Types(up)
                      /\ \/ <<mst, vst>> \in MachineTurn /\ down = <<>>
                         \/ mst = "serve" /\ vst \in InTransfer
  BY <1>1, MachineTakes
<1>5. UpTypes = {Head(up).type} \/ mst = "serve"
  BY <1>1, <1>2 DEF UpTypes, Expected, MachineSteps
<1>6. mst # "serve" => Types(up') \subseteq {"error"}
  BY <1>2, <1>5
<1>7. UpFits'
  <2>1. CASE mst # "serve"
    BY <1>2, <1>6, <2>1 DEF UpFits
  <2>2. CASE mst = "serve"
    <3>1. mst' = "serve"
      BY <2>2 DEF MachineSteps
    <3> QED
      BY <1>2, <2>2, <3>1 DEF UpFits, UpTypes, Expected
  <2> QED
    BY <2>1, <2>2
<1>8. ErrorsEnd'
  BY <1>1, <1>2, <1>3 DEF ErrorsEnd, TalkInv, Serving
<1>9. Running(vst) /\ mst # "serve" => up' = <<>>
  BY <1>2, <1>4, <1>6, EmptyRecs
<1>10. InStep'
  BY <1>4, <1>9 DEF InStep, MachineTurn, PhoneTurn, MachineSteps, Running
<1>11. Answers'
  BY <1>1, <1>2, <1>3 DEF Answers, TalkInv, MachineSteps
<1>12. ASSUME Running(vst) PROVE Once(down') /\ (vst # "handshake" => Types(down') \subseteq Awaited(vst) \union {"error"})
  <2>1. CASE <<mst, vst>> \in MachineTurn /\ down = <<>>
    <3>1. Types(down') = {m.type} /\ Once(down')
      BY <1>3, <2>1, NoRecs
    <3>2. vst # "handshake" => m.type \in Awaited(vst)
      BY <2>1, AwaitedIs DEF MachineTurn, MachineSteps
    <3> QED
      BY <3>1, <3>2
  <2>2. CASE mst = "serve" /\ vst \in InTransfer
    <3>1. \/ Head(up).type = "receipt" /\ m.type = "receiptAck"
          \/ Head(up).type = "release" /\ m.type = "releaseAck"
      BY <2>2 DEF MachineSteps
    <3>2. m.type \notin Types(down) /\ vst \in {"receiptAck", "releaseAck"} /\ m.type = vst
      <4>1. Answers /\ vst \notin {"idle", "done", "failed"} /\ Head(up).type \in Types(up)
        BY <1>2, <1>12 DEF TalkInv, Running
      <4> QED
        BY <3>1, <4>1 DEF Answers
    <3>3. vst # "handshake" /\ vst \in Awaited(vst)
      BY <3>2, AwaitedIs
    <3> QED
      BY <1>3, <1>12, <3>2, <3>3 DEF TalkInv, DownFits
  <2> QED
    BY <1>4, <1>12, <2>1, <2>2
<1>13. DownFits'
  <2>1. CASE vst = "handshake"
    <3>1. mst = "hs1" /\ down = <<>>
      BY <1>4, <2>1 DEF Running, MachineTurn, InTransfer
    <3>2. Types(down') = {"XX"} /\ mst' = "hs3"
      BY <1>3, <3>1, NoRecs DEF MachineSteps
    <3> QED
      BY <1>12, <2>1, <3>2 DEF DownFits
  <2>2. CASE vst # "handshake"
    BY <1>12, <2>2 DEF DownFits
  <2> QED
    BY <2>1, <2>2
<1> QED
  BY <1>7, <1>8, <1>10, <1>11, <1>13 DEF TalkInv

\* The handshake of a check, and the hello after it.
LEMMA MachineGreets ==
  ASSUME SessionTypeOK, TalkInv, mst = "hs1", up # <<>>, up' = Tail(up), Head(up).type = "IK",
         NEW m, NEW n, m.type = "IK", n.type = "hello", down' = Append(Append(down, m), n),
         UNCHANGED <<vst, pkind>>, mst' = "request"
  PROVE  TalkInv'
<1>1. Serving(mst) /\ Serving(mst')
  BY DEF Serving
<1>2. /\ Types(up') \subseteq Types(up) /\ Once(up')
      /\ Head(up).type \in UpTypes \union {"error"} /\ Head(up).type \notin Types(up')
      /\ Types(up) \subseteq UpTypes \union {"error"}
      /\ up' \in Seq(Recs(up'))
  BY <1>1, MachineTakes DEF TalkInv, UpFits, Repeats
<1>3. UpTypes = {"IK"}
  BY <1>2 DEF UpTypes
<1>4. Types(up') \subseteq {"error"}
  BY <1>2, <1>3
<1>5. Running(vst) => "error" \notin Types(up) /\ vst = "handshake" /\ down = <<>>
  BY <1>1, MachineTakes DEF MachineTurn, InTransfer
<1>6. Running(vst) => up' = <<>>
  BY <1>2, <1>4, <1>5, EmptyRecs
<1>7. UpFits'
  BY <1>2, <1>4 DEF UpFits
<1>8. Types(down') = Types(down) \union {"IK", "hello"}
      /\ (Types(down) = {} /\ Once(down) => Once(down'))
  <2> DEFINE d == Append(down, m)
  <2>1. /\ d \in Seq(Recs(d)) /\ Types(d) = Types(down) \union {"IK"}
        /\ Types(down) = {} /\ Once(down) => Once(d)
    BY AppendRecs DEF SessionTypeOK
  <2>2. Types(down) = {} => "hello" \notin Types(d)
    BY <2>1
  <2> HIDE DEF d
  <2>3. /\ Types(Append(d, n)) = Types(d) \union {"hello"}
        /\ Once(d) /\ "hello" \notin Types(d) => Once(Append(d, n))
    BY <2>1, AppendRecs
  <2>4. down' = Append(d, n)
    BY DEF d
  <2> QED
    BY <2>1, <2>2, <2>3, <2>4
<1>9. ErrorsEnd'
  BY <1>1, <1>2, <1>8 DEF ErrorsEnd, TalkInv, Serving
<1>10. InStep'
  BY <1>5, <1>6 DEF InStep, PhoneTurn, Running
<1>11. Answers'
  BY <1>2, <1>8 DEF Answers, TalkInv
<1>12. DownFits'
  BY <1>5, <1>8, NoRecs DEF DownFits, Running
<1> QED
  BY <1>7, <1>9, <1>10, <1>11, <1>12 DEF TalkInv

\* The event log.
LEMMA MachineLogs ==
  ASSUME SessionTypeOK, TalkInv, mst = "serve", up # <<>>, up' = Tail(up), Head(up).type = "logRequest",
         NEW t, t \in Seq(Recs(t)), \A m \in Recs(t) : m.type = "chunk", down' = down \o t,
         UNCHANGED <<vst, pkind, mst>>
  PROVE  TalkInv'
<1>1. Serving(mst) /\ Serving(mst')
  BY DEF Serving
<1>2. Types(up') \subseteq Types(up) /\ Once(up') /\ Types(up) \subseteq UpTypes \union {"error"}
  BY <1>1, MachineTakes DEF TalkInv, UpFits
<1>3. UpFits'
  BY <1>2 DEF UpFits, UpTypes
<1>4. Running(vst) => vst \in InTransfer
  BY <1>1, MachineTakes DEF MachineTurn
<1>5. Types(down') \subseteq Types(down) \union {"chunk"} /\ (Once(down) => Once(down'))
  BY ChunkRecs DEF SessionTypeOK
<1>6. ErrorsEnd'
  BY <1>2, <1>5 DEF ErrorsEnd, TalkInv
<1>7. InStep'
  BY <1>4 DEF InStep, Running
<1>8. Answers'
  BY <1>2, <1>5 DEF Answers, TalkInv
<1>9. ASSUME Running(vst) PROVE "chunk" \in Awaited(vst) /\ vst # "handshake"
  BY <1>4, <1>9, AwaitedIs DEF InTransfer
<1>10. DownFits'
  BY <1>5, <1>9 DEF DownFits, TalkInv
<1> QED
  BY <1>3, <1>6, <1>7, <1>8, <1>10 DEF TalkInv

\* The machine ends its session, with an error or without.
LEMMA MachineEnds ==
  ASSUME SessionTypeOK, TalkInv, Serving(mst), mst' = "over", UNCHANGED <<vst, pkind>>,
         up' = up \/ (up # <<>> /\ up' = Tail(up)), NEW m,
         \/ down' = down
         \/ down' = Append(down, m) /\ m.type = "error" /\ vst # "handshake"
         \/ down' = Append(down, m) /\ m.type = "plain" /\ (Running(vst) => down = <<>> /\ vst = "handshake")
  PROVE  TalkInv'
<1>1. ~Serving(mst')
  BY DEF Serving
<1>2. Types(up') \subseteq Types(up)
  BY TailRecs DEF SessionTypeOK
<1>3. UpFits' /\ InStep'
  BY <1>1 DEF UpFits, InStep
<1>4. down' # down => /\ Types(down') = Types(down) \union {m.type}
                      /\ Once(down) /\ (m.type \in Repeats \/ m.type \notin Types(down)) => Once(down')
  <2>1. down \in Seq(Recs(down))
    BY DEF SessionTypeOK
  <2>2. ASSUME down' = Append(down, m)
        PROVE  /\ Types(down') = Types(down) \union {m.type}
               /\ Once(down) /\ (m.type \in Repeats \/ m.type \notin Types(down)) => Once(down')
    BY <2>1, <2>2, AppendRecs
  <2> QED
    BY <2>2
<1>5. ErrorsEnd'
  BY <1>2 DEF ErrorsEnd, TalkInv
<1>6. Answers'
  BY <1>2, <1>4 DEF Answers, TalkInv
<1>7. DownFits'
  <2>1. CASE down' = down
    BY <2>1 DEF DownFits, TalkInv
  <2>2. CASE down' # down /\ m.type = "error" /\ vst # "handshake"
    BY <1>4, <2>2 DEF DownFits, TalkInv, Repeats
  <2>3. CASE down' # down /\ m.type = "plain" /\ (Running(vst) => down = <<>> /\ vst = "handshake")
    BY <1>4, <2>3, NoRecs DEF DownFits
  <2> QED
    BY <2>1, <2>2, <2>3
<1> QED
  BY <1>3, <1>5, <1>6, <1>7 DEF TalkInv

\* The person at the machine confirms the code.
LEMMA MachineConfirms ==
  ASSUME SessionTypeOK, TalkInv, mst = "person", mst' = "sasConfirm", UNCHANGED <<vst, pkind, up, down>>
  PROVE  TalkInv'
<1>1. UpFits'
  BY DEF TalkInv, UpFits, UpTypes, Expected, Serving
<1>2. DownFits'
  BY DEF TalkInv, DownFits
<1>3. ErrorsEnd' /\ Answers'
  BY DEF TalkInv, ErrorsEnd, Answers
<1>4. InStep'
  <2>1. ASSUME Running(vst) PROVE \/ vst \in {"sasReveal", "sasUser"} /\ up = <<>>
                                  \/ vst = "enrolOffer" /\ down = <<>>
    BY <2>1 DEF TalkInv, InStep, PhoneTurn, MachineTurn, Serving
  <2> QED
    BY <2>1 DEF InStep, PhoneTurn, MachineTurn
<1> QED
  BY <1>1, <1>2, <1>3, <1>4 DEF TalkInv

\* What the phone does at each point: the record that it takes, the one that it
\* sends, and where it then is ("-": none).
PhoneSteps ==
  {<<"handshake", "XX", "XX", "sasCommit">>, <<"sasCommit", "sasCommit", "sasNonce", "sasReveal">>,
   <<"sasReveal", "sasReveal", "-", "sasUser">>, <<"sasUser", "-", "sasConfirm", "enrolOffer">>,
   <<"enrolOffer", "offer", "challenge", "response">>, <<"response", "response", "-", "anchorKey">>,
   <<"anchorKey", "-", "-", "anchorSig">>, <<"anchorSig", "-", "accept", "enrolConfirm">>,
   <<"enrolConfirm", "confirm", "bye", "done">>,
   <<"handshake", "IK", "-", "hello">>, <<"hello", "hello", "request", "evidence">>,
   <<"evidence", "evidence", "-", "decision">>, <<"decision", "-", "logRequest", "decision">>,
   <<"decision", "-", "receipt", "receiptAck">>, <<"decision", "-", "-", "receiptSig">>,
   <<"receiptSig", "-", "receipt", "receiptAck">>,
   <<"receiptAck", "receiptAck", "release", "releaseAck">>,
   <<"receiptAck", "receiptAck", "bye", "done">>, <<"releaseAck", "releaseAck", "bye", "done">>,
   <<"decision", "chunk", "-", "decision">>, <<"receiptSig", "chunk", "-", "receiptSig">>,
   <<"receiptAck", "chunk", "-", "receiptAck">>, <<"releaseAck", "chunk", "-", "releaseAck">>}

PhoneTook(t) == IF t = "-" THEN down' = down ELSE VReceives(t)
PhoneSent(u) == up' = up \/ (u # "-" /\ \E m : m.type = u /\ up' = Append(up, m))

\* What is left of what is under way to the phone, and what is new of the rest.
LEMMA PhoneTakes ==
  ASSUME SessionTypeOK, NEW t, PhoneTook(t)
  PROVE  /\ down' \in Seq(Recs(down')) /\ Recs(down') \subseteq Recs(down)
         /\ Types(down') \subseteq Types(down) /\ (Once(down) => Once(down'))
         /\ t # "-" => t \in Types(down) /\ (Once(down) /\ t \notin Repeats => t \notin Types(down'))
         /\ t # "-" => Head(down) \in Recs(down) /\ Head(down).type = t
<1>1. down \in Seq(Recs(down))
  BY DEF SessionTypeOK
<1>2. CASE t = "-"
  BY <1>1, <1>2 DEF PhoneTook
<1>3. CASE t # "-"
  <2>1. down # <<>> /\ Head(down).type = t /\ down' = Tail(down)
    BY <1>3 DEF PhoneTook, VReceives
  <2> QED
    BY <1>1, <1>3, <2>1, TailRecs, TailOnce
<1> QED
  BY <1>2, <1>3

LEMMA PhoneSends ==
  ASSUME SessionTypeOK, NEW u, PhoneSent(u)
  PROVE  /\ up' \in Seq(Recs(up'))
         /\ Types(up') \subseteq Types(up) \union {u}
         /\ u = "-" => up' = up
         /\ Once(up) /\ (u \in Repeats \/ u \notin Types(up)) => Once(up')
<1>1. up \in Seq(Recs(up))
  BY DEF SessionTypeOK
<1>2. CASE up' = up
  BY <1>1, <1>2
<1>3. CASE up' # up
  <2>1. PICK m : m.type = u /\ up' = Append(up, m)
    BY <1>3 DEF PhoneSent
  <2>2. u # "-"
    BY <1>3 DEF PhoneSent
  <2> QED
    BY <1>1, <2>1, <2>2, AppendRecs
<1> QED
  BY <1>2, <1>3

LEMMA PhoneGoes ==
  ASSUME SessionTypeOK, TalkInv, NEW t, NEW u, PhoneTook(t), PhoneSent(u),
         <<vst, t, u, vst'>> \in PhoneSteps, UNCHANGED <<mst, pkind>>
  PROVE  TalkInv'
<1>1. Running(vst) /\ vst' # "handshake" /\ vst' # "failed" /\ vst' # "idle" /\ u # "error" /\ t # "error"
  BY DEF PhoneSteps, Running
<1>2. /\ Types(down') \subseteq Types(down) /\ Once(down) /\ Once(down')
      /\ t # "-" => t \in Types(down)
      /\ t # "-" /\ t \notin Repeats => t \notin Types(down')
      /\ down' \in Seq(Recs(down'))
  BY <1>1, PhoneTakes DEF TalkInv, DownFits
<1>3. /\ Types(up') \subseteq Types(up) \union {u}
      /\ u = "-" => up' = up
      /\ Once(up) /\ (u \in Repeats \/ u \notin Types(up)) => Once(up')
  BY PhoneSends
<1>4. "error" \notin Types(up) /\ (Serving(mst) => "error" \notin Types(down))
  BY <1>1 DEF TalkInv, ErrorsEnd, Running, Serving
<1>5. ErrorsEnd'
  BY <1>1, <1>2, <1>3, <1>4 DEF TalkInv, ErrorsEnd
<1>6. Serving(mst) => \/ <<mst, vst>> \in PhoneTurn /\ up = <<>>
                      \/ mst = "serve" /\ vst \in InTransfer
  <2>1. ~(<<mst, vst>> \in MachineTurn /\ down = <<>>)
    <3>1. down = <<>> => t = "-"
      BY <1>2, NoRecs
    <3>2. t = "-" => vst \in {"sasUser", "anchorKey", "anchorSig", "decision", "receiptSig"}
      BY DEF PhoneSteps
    <3> QED
      BY <3>1, <3>2 DEF MachineTurn
  <2> QED
    BY <1>1, <2>1 DEF TalkInv, InStep
<1>7. vst # "handshake" => Types(down) \subseteq Awaited(vst) \union {"error"}
  BY <1>1 DEF TalkInv, DownFits
<1>8. vst \notin InTransfer \union {"handshake"} => Types(down') \subseteq {"error"}
  <2> SUFFICES ASSUME vst \notin InTransfer \union {"handshake"} PROVE Types(down') \subseteq {"error"}
    OBVIOUS
  <2>1. \/ t = "-" /\ Awaited(vst) = {} /\ down' = down
        \/ t # "-" /\ t \notin Repeats /\ Awaited(vst) = {t}
    BY AwaitedIs DEF PhoneSteps, InTransfer, Repeats, PhoneTook
  <2> QED
    BY <1>2, <1>7, <2>1
<1>9. vst = "handshake" =>
        \/ t = "XX" /\ u = "XX" /\ vst' = "sasCommit" /\ Types(down') = {} /\ mst # "request"
        \/ t = "IK" /\ u = "-" /\ vst' = "hello" /\ Types(down') \subseteq {"hello"} /\ mst # "hs3"
  <2> SUFFICES ASSUME vst = "handshake"
               PROVE  \/ t = "XX" /\ u = "XX" /\ vst' = "sasCommit" /\ Types(down') = {} /\ mst # "request"
                      \/ t = "IK" /\ u = "-" /\ vst' = "hello" /\ Types(down') \subseteq {"hello"} /\ mst # "hs3"
    OBVIOUS
  <2>1. \/ t = "XX" /\ u = "XX" /\ vst' = "sasCommit"
        \/ t = "IK" /\ u = "-" /\ vst' = "hello"
    BY DEF PhoneSteps
  <2>2. t \in Types(down) /\ t \notin Types(down')
    BY <1>2, <2>1 DEF Repeats
  <2>3. \/ Types(down) \subseteq {"XX"} /\ mst # "request"
        \/ Types(down) \subseteq {"IK", "hello"} /\ mst # "hs3"
        \/ Types(down) \subseteq {"plain"}
    BY <1>1 DEF TalkInv, DownFits
  <2> QED
    BY <1>2, <2>1, <2>2, <2>3
<1>10. DownFits'
  <2> SUFFICES ASSUME Running(vst') PROVE Types(down') \subseteq Awaited(vst') \union {"error"}
    BY <1>1, <1>2 DEF DownFits
  <2>1. CASE vst = "handshake"
    BY <1>9, <2>1, AwaitedIs
  <2>2. CASE vst \in InTransfer
    <3>1. CASE t = "receiptAck"
      <4>1. vst = "receiptAck" /\ vst' \in {"releaseAck", "done"}
        BY <3>1 DEF PhoneSteps
      <4>2. Types(down') \subseteq {"chunk", "error"}
        BY <1>2, <1>7, <3>1, <4>1, AwaitedIs DEF Repeats
      <4> QED
        BY <4>1, <4>2, AwaitedIs DEF Running
    <3>2. CASE t # "receiptAck"
      <4>1. Awaited(vst) \subseteq Awaited(vst') /\ vst # "handshake"
        BY <2>2, <3>2, AwaitedIs DEF PhoneSteps, InTransfer, Running
      <4> QED
        BY <1>2, <1>7, <4>1
    <3> QED
      BY <3>1, <3>2
  <2>3. CASE vst \notin InTransfer \union {"handshake"}
    BY <1>8, <2>3
  <2> QED
    BY <2>1, <2>2, <2>3
<1>11. Serving(mst) /\ vst \notin InTransfer /\ vst # "handshake" => down' = <<>>
  BY <1>2, <1>4, <1>8, EmptyRecs
<1>12. vst = "handshake" /\ u = "XX" => down' = <<>>
  BY <1>2, <1>9, EmptyRecs
<1>13. InStep'
  <2> SUFFICES ASSUME Serving(mst), Running(vst')
               PROVE  \/ <<mst, vst'>> \in PhoneTurn /\ up' = <<>>
                      \/ <<mst, vst'>> \in MachineTurn /\ down' = <<>>
                      \/ mst = "serve" /\ vst' \in InTransfer
    BY DEF InStep
  <2>1. CASE mst = "serve" /\ vst \in InTransfer
    BY <2>1 DEF PhoneSteps, InTransfer, Running
  <2>2. CASE vst = "handshake" /\ <<mst, vst>> \in PhoneTurn /\ up = <<>>
    BY <1>3, <1>9, <1>12, <2>2 DEF PhoneTurn, MachineTurn
  <2>3. CASE vst # "handshake" /\ vst \notin InTransfer /\ <<mst, vst>> \in PhoneTurn /\ up = <<>>
    BY <1>3, <1>11, <2>3 DEF PhoneTurn, MachineTurn, PhoneSteps, InTransfer, Running
  <2> QED
    BY <1>6, <2>1, <2>2, <2>3 DEF PhoneTurn, InTransfer
<1>14. Answers'
  <2>1. ASSUME "receipt" \in Types(up') PROVE vst' = "receiptAck" /\ "receiptAck" \notin Types(down')
    <3>1. CASE u = "receipt"
      BY <1>2, <1>7, <3>1, AwaitedIs DEF PhoneSteps
    <3>2. CASE u # "receipt"
      <4>1. vst = "receiptAck" /\ "receiptAck" \notin Types(down)
        BY <1>1, <1>3, <2>1, <3>2 DEF TalkInv, Answers, Running
      <4>2. t # "receiptAck"
        BY <1>2, <4>1
      <4> QED
        BY <1>2, <4>1, <4>2 DEF PhoneSteps
    <3> QED
      BY <3>1, <3>2
  <2>2. ASSUME "release" \in Types(up') PROVE vst' = "releaseAck" /\ "releaseAck" \notin Types(down')
    <3>1. CASE u = "release"
      BY <1>2, <1>7, <3>1, AwaitedIs DEF PhoneSteps
    <3>2. CASE u # "release"
      <4>1. vst = "releaseAck" /\ "releaseAck" \notin Types(down)
        BY <1>1, <1>3, <2>2, <3>2 DEF TalkInv, Answers, Running
      <4>2. t # "releaseAck"
        BY <1>2, <4>1
      <4> QED
        BY <1>2, <4>1, <4>2 DEF PhoneSteps
    <3> QED
      BY <3>1, <3>2
  <2> QED
    BY <2>1, <2>2 DEF Answers
<1>15. UpFits'
  <2> SUFFICES ASSUME Serving(mst) PROVE Once(up') /\ Types(up') \subseteq UpTypes \union {"error"}
    BY DEF UpFits, UpTypes
  <2>1. Once(up) /\ Types(up) \subseteq UpTypes \union {"error"}
    BY DEF TalkInv, UpFits
  <2>2. CASE u = "-"
    BY <1>3, <2>1, <2>2
  <2>3. CASE u # "-" /\ <<mst, vst>> \in PhoneTurn /\ up = <<>>
    <3>1. u \in UpTypes
      BY <1>9, <2>3 DEF UpTypes, Expected, PhoneTurn, PhoneSteps
    <3> QED
      BY <1>3, <2>3, <3>1, NoRecs
  <2>4. CASE u # "-" /\ mst = "serve" /\ vst \in InTransfer
    <3>1. u \in Expected(mst) /\ UpTypes = Expected(mst)
      BY <2>4 DEF UpTypes, Expected, PhoneSteps, InTransfer
    <3>2. u \in Repeats \/ u \notin Types(up)
      BY <1>1, <2>4 DEF TalkInv, Answers, Repeats, PhoneSteps, InTransfer
    <3> QED
      BY <1>3, <2>1, <3>1, <3>2
  <2> QED
    BY <1>6, <2>2, <2>3, <2>4
<1> QED
  BY <1>5, <1>10, <1>13, <1>14, <1>15 DEF TalkInv

\* The phone fails, whatever came.
LEMMA PhoneEnds ==
  ASSUME SessionTypeOK, TalkInv, Running(vst), vst' = "failed", UNCHANGED <<mst, pkind>>,
         down' = down \/ (down # <<>> /\ down' = Tail(down)), PhoneSent("error")
  PROVE  TalkInv'
<1>1. Types(down') \subseteq Types(down)
  BY TailRecs DEF SessionTypeOK
<1>2. Types(up') \subseteq Types(up) \union {"error"} /\ (Once(up) => Once(up'))
  BY PhoneSends DEF Repeats
<1>3. ~Running(vst')
  BY DEF Running
<1>4. UpFits'
  BY <1>2 DEF TalkInv, UpFits, UpTypes
<1>5. DownFits' /\ InStep'
  BY <1>3 DEF DownFits, InStep
<1>6. ErrorsEnd'
  BY <1>1 DEF TalkInv, ErrorsEnd
<1>7. Answers'
  BY <1>1, <1>2 DEF TalkInv, Answers
<1> QED
  BY <1>4, <1>5, <1>6, <1>7 DEF TalkInv

\* A new session, the end of one, and nothing of one.
LEMMA TalkBegins ==
  ASSUME NEW m, up' = <<m>>, down' = <<>>, mst' = "hs1", vst' = "handshake",
         m.type = IF pkind' = "enrol" THEN "XX" ELSE "IK"
  PROVE  TalkInv' /\ up' \in Seq(Recs(up')) /\ down' \in Seq(Recs(down')) /\ Recs(up') = {m}
<1>1. <<m>> \in Seq(Recs(<<m>>)) /\ Recs(<<m>>) = {m} /\ Types(<<m>>) = {m.type} /\ Once(<<m>>)
  <2>1. Recs(<<m>>) = {m}
    BY DEF Recs
  <2> QED
    BY <2>1 DEF Types, Once
<1>2. UpFits'
  BY <1>1 DEF UpFits, UpTypes
<1>3. DownFits' /\ InStep'
  BY NoRecs DEF DownFits, InStep, MachineTurn
<1>4. ErrorsEnd' /\ Answers'
  BY <1>1, NoRecs DEF ErrorsEnd, Answers
<1> QED
  BY <1>1, <1>2, <1>3, <1>4, NoRecs DEF TalkInv

LEMMA TalkIsOver ==
  ASSUME up' = <<>>, down' = <<>>, mst' = "idle", vst' = "idle"
  PROVE  TalkInv'
  BY NoRecs DEF TalkInv, UpFits, DownFits, InStep, ErrorsEnd, Answers, Serving, Running

LEMMA TalkBreaks ==
  ASSUME SessionTypeOK, TalkInv, NEW i \in 0..Len(up), NEW j \in 0..Len(down),
         up' = SubSeq(up, 1, i), down' = SubSeq(down, 1, j), UNCHANGED <<mst, vst, pkind>>
  PROVE  TalkInv'
<1>1. /\ Types(up') \subseteq Types(up) /\ (Once(up) => Once(up')) /\ (up = <<>> => up' = <<>>)
      /\ Types(down') \subseteq Types(down) /\ (Once(down) => Once(down')) /\ (down = <<>> => down' = <<>>)
  BY PrefixRecs DEF SessionTypeOK
<1>2. UpFits'
  BY <1>1 DEF TalkInv, UpFits, UpTypes
<1>3. DownFits'
  BY <1>1 DEF TalkInv, DownFits
<1>4. InStep'
  BY <1>1 DEF TalkInv, InStep
<1>5. ErrorsEnd' /\ Answers'
  BY <1>1 DEF TalkInv, ErrorsEnd, Answers
<1> QED
  BY <1>2, <1>3, <1>4, <1>5 DEF TalkInv

LEMMA TalkStays ==
  ASSUME TalkInv, UNCHANGED <<up, down, mst, vst, pkind>>
  PROVE  TalkInv'
  BY DEF TalkInv, UpFits, UpTypes, DownFits, InStep, ErrorsEnd, Answers

\* Neither takes a record of the other's for a breach of the protocol.
LEMMA TalkFits ==
  ASSUME SessionTypeOK, TalkInv
  PROVE  NoProtocolError
<1>1. ASSUME mst \notin {"idle", "over", "person", "last"}, up # <<>>
      PROVE  Head(up).type \in Expected(mst) \union {"error"}
  <2>1. Head(up).type \in UpTypes \union {"error"}
    BY <1>1, TailRecs DEF SessionTypeOK, TalkInv, UpFits, Serving
  <2>2. UpTypes \subseteq Expected(mst)
    BY <1>1 DEF UpTypes, Expected
  <2> QED
    BY <2>1, <2>2
<1>2. ASSUME vst \notin {"idle", "done", "failed", "handshake"}, down # <<>>
      PROVE  Head(down).type \in Awaited(vst) \union {"error"}
  BY <1>2, TailRecs DEF SessionTypeOK, TalkInv, DownFits, Running
<1> QED
  BY <1>1, <1>2 DEF NoProtocolError

----------------------------------------------------------------------------
(* What a step of the machine leaves alone. *)

Confirmed == {"sasConfirm", "challenge", "accept"}

LEMMA TypeFrameM ==
  ASSUME SessionTypeOK, mst # "idle", mst' # "idle", UNCHANGED <<session, boot, phone, rec, vst>>,
         DOMAIN mach' = MachFields, up' \in Seq(Recs(up')), down' \in Seq(Recs(down'))
  PROVE  SessionTypeOK'
  BY DEF SessionTypeOK

LEMMA EnrolFrameM ==
  ASSUME EnrolInv, UNCHANGED <<session, agreed, vst, rec, enrolled>>, Recs(up') \subseteq Recs(up),
         NEW M, Recs(down') \subseteq Recs(down) \union M, \A m \in M : m.type # "confirm",
         mst' \in Confirmed => mst \in Confirmed
  PROVE  EnrolInv'
  BY DEF EnrolInv, EnrolmentAgreed, Confirmed

LEMMA VerdictFrameM ==
  ASSUME VerdictInv, UNCHANGED <<session, mkind, pkind, vst, phone, rec>>,
         NEW M, Recs(down') \subseteq Recs(down) \union M,
         \A m \in M : m.type \in {"offer", "evidence"} => m.val \in Values /\ m.resets \in Nat,
         \A m \in M : m.type = "evidence" => m.keep = ToKeep /\ m.keyboard \in BOOLEAN
  PROVE  VerdictInv'
<1>1. ToKeep' = ToKeep
  BY DEF ToKeep
<1>2. /\ \A m \in Recs(down') : m.type \in {"offer", "evidence"} => m.val \in Values /\ m.resets \in Nat
      /\ \A m \in Recs(down') : m.type = "evidence" => m.keep = ToKeep /\ m.keyboard \in BOOLEAN
  BY DEF VerdictInv
<1> QED
  BY <1>1, <1>2 DEF VerdictInv

LEMMA ReleaseFrameM ==
  ASSUME ReleaseInv, UNCHANGED <<session, mkind, mach, vst, phone, rec>>,
         Recs(up') \subseteq Recs(up), NEW M, Recs(down') \subseteq Recs(down) \union M,
         \A m \in M : m.type = "receiptAck" => m.result # "accepted",
         \A m \in M : m.type = "releaseAck" => m.status # "ok"
  PROVE  ReleaseInv'
<1>1. Types(up') \subseteq Types(up)
  BY DEF Types
<1>2. /\ \A m \in Recs(down') : m.type = "receiptAck" /\ m.result = "accepted" => mach.answer = "accepted"
      /\ \A m \in Recs(down') : m.type = "releaseAck" /\ m.status = "ok" /\ vst = "releaseAck" =>
           mkind = "keep" \/ mach.seed = phone.layout
  BY DEF ReleaseInv
<1>3. \A m \in Recs(up') : m.type = "release" =>
       /\ mach.answer = "accepted" /\ Trusted(phone.receipt) /\ m.salt = rec.salt
       /\ phone.shown = 0
       /\ vst = "releaseAck" => m.seed = phone.layout
  BY DEF ReleaseInv
<1> QED
  BY <1>1, <1>2, <1>3 DEF ReleaseInv

\* The same where nothing is sent.
LEMMA NothingSent ==
  ASSUME VerdictInv, ReleaseInv, UNCHANGED <<session, mkind, pkind, mach, vst, phone, rec>>,
         Recs(up') \subseteq Recs(up), Recs(down') \subseteq Recs(down)
  PROVE  VerdictInv' /\ ReleaseInv'
<1> DEFINE M == {}
<1>1. /\ Recs(down') \subseteq Recs(down) \union M
      /\ \A m \in M : m.type \in {"offer", "evidence"} => m.val \in Values /\ m.resets \in Nat
      /\ \A m \in M : m.type = "evidence" => m.keep = ToKeep /\ m.keyboard \in BOOLEAN
      /\ \A m \in M : m.type = "receiptAck" => m.result # "accepted"
      /\ \A m \in M : m.type = "releaseAck" => m.status # "ok"
  OBVIOUS
<1> HIDE DEF M
<1>2. VerdictInv'
  BY <1>1, VerdictFrameM
<1>3. ReleaseInv'
  BY <1>1, ReleaseFrameM
<1> QED
  BY <1>2, <1>3

----------------------------------------------------------------------------
(* The machine's steps. *)

\* A record taken and one sent in answer, or not sent.
LEMMA MachineAnswers ==
  ASSUME SessionTypeOK, TalkInv, NEW t, MReceives(t), NEW m, NEW next, MSends(<<m>>, next),
         <<mst, t, m.type, next>> \in MachineSteps, UNCHANGED <<vst, pkind>>
  PROVE  /\ TalkInv' /\ mst # "idle" /\ mst' \in {next, "over"}
         /\ up' \in Seq(Recs(up')) /\ Recs(up') \subseteq Recs(up)
         /\ Head(up) \in Recs(up) /\ Head(up).type = t /\ t \notin Types(up') /\ t \in Types(up)
         /\ down' \in Seq(Recs(down')) /\ Recs(down') \subseteq Recs(down) \union {m}
<1>1. up # <<>> /\ Head(up).type = t /\ up' = Tail(up)
  BY DEF MReceives
<1>2. Serving(mst) /\ t \notin Repeats /\ mst # "idle"
  BY DEF MachineSteps, Serving, Repeats
<1>3. /\ up' \in Seq(Recs(up')) /\ Recs(up') \subseteq Recs(up) /\ Head(up) \in Recs(up)
      /\ t \notin Types(up') /\ t \in Types(up)
  BY <1>1, <1>2, MachineTakes, TypeOfRec
<1>4. CASE mst' = next /\ down' = Append(down, m)
  <2>1. TalkInv'
    BY <1>1, <1>4, MachineGoes
  <2> QED
    BY <1>1, <1>2, <1>3, <1>4, <2>1, AppendRecs DEF SessionTypeOK
<1>5. CASE mst' = "over" /\ down' = down
  <2>1. TalkInv'
    BY <1>1, <1>2, <1>5, MachineEnds
  <2> QED
    BY <1>1, <1>2, <1>3, <1>5, <2>1 DEF SessionTypeOK
<1>6. down \o <<m>> = Append(down, m)
  BY ConcatOne DEF SessionTypeOK
<1> QED
  BY <1>4, <1>5, <1>6 DEF MSends

\* A record taken, and an error sent.
LEMMA MachineRefuses ==
  ASSUME SessionTypeOK, TalkInv, NEW t, MReceives(t), MFails, t # "error",
         mst \in {"sasConfirm", "challenge", "accept", "request"}, UNCHANGED <<vst, pkind>>
  PROVE  /\ TalkInv' /\ mst # "idle" /\ mst' = "over"
         /\ up' \in Seq(Recs(up')) /\ Recs(up') \subseteq Recs(up)
         /\ down' \in Seq(Recs(down')) /\ Recs(down') \subseteq Recs(down) \union {Msg("error")}
<1> DEFINE m == Msg("error")
<1>1. up # <<>> /\ Head(up).type = t /\ up' = Tail(up) /\ mst' = "over" /\ m.type = "error"
  BY DEF MReceives, MFails, Msg
<1>2. Serving(mst) /\ mst # "idle"
  BY DEF Serving
<1>3. up' \in Seq(Recs(up')) /\ Recs(up') \subseteq Recs(up)
  BY <1>1, <1>2, MachineTakes
<1>4. vst # "handshake"
  <2>1. ASSUME vst = "handshake" PROVE FALSE
    <3>1. Running(vst)
      BY <2>1 DEF Running
    <3>2. \/ <<mst, vst>> \in MachineTurn
          \/ mst = "serve"
      BY <1>1, <1>2, <3>1, MachineTakes
    <3> QED
      BY <2>1, <3>2 DEF MachineTurn
  <2> QED
    BY <2>1
<1>5. down' = down \/ down' = Append(down, m)
  BY DEF MFails
<1> HIDE DEF m
<1>6. TalkInv'
  BY <1>1, <1>2, <1>4, <1>5, MachineEnds
<1>7. down' \in Seq(Recs(down')) /\ Recs(down') \subseteq Recs(down) \union {m}
  <2>1. down \in Seq(Recs(down))
    BY DEF SessionTypeOK
  <2>2. Append(down, m) \in Seq(Recs(Append(down, m))) /\ Recs(Append(down, m)) = Recs(down) \union {m}
    BY <2>1, AppendRecs
  <2> QED
    BY <1>5, <2>1, <2>2
<1> QED
  BY <1>1, <1>2, <1>3, <1>6, <1>7 DEF m

\* What may be told the phone without a change of what the machine has.
Telling == {"confirm", "offer", "evidence", "receiptAck", "releaseAck"}
Sound(m) ==
  /\ m.type # "confirm"
  /\ m.type \in {"offer", "evidence"} => m.val \in Values /\ m.resets \in Nat
  /\ m.type = "evidence" => m.keep = ToKeep /\ m.keyboard \in BOOLEAN
  /\ m.type = "receiptAck" => m.result # "accepted"
  /\ m.type = "releaseAck" => m.status # "ok"

\* A step that leaves what the machine has alone.
LEMMA MachineTells ==
  ASSUME SessionIInv, TalkInv', mst # "idle", mst' # "idle", mst' \in Confirmed => mst \in Confirmed,
         UNCHANGED <<worldVars, phoneVars, enrolled, mkind, mach>>,
         up' \in Seq(Recs(up')), down' \in Seq(Recs(down')), Recs(up') \subseteq Recs(up),
         \A m \in Recs(down') : m \in Recs(down) \/ Sound(m)
  PROVE  SessionIInv'
<1> DEFINE M == {m \in Recs(down') : m \notin Recs(down)}
<1>1. UNCHANGED <<session, boot, agreed, pkind, vst, phone, rec, enrolled, mkind, mach>>
  BY DEF worldVars, phoneVars
<1>2. SessionTypeOK'
  BY <1>1, TypeFrameM DEF SessionIInv, SessionTypeOK
<1>3. Recs(down') \subseteq Recs(down) \union M /\ \A m \in M : Sound(m)
  OBVIOUS
<1>4. /\ \A m \in M : m.type # "confirm"
      /\ \A m \in M : m.type \in {"offer", "evidence"} => m.val \in Values /\ m.resets \in Nat
      /\ \A m \in M : m.type = "evidence" => m.keep = ToKeep /\ m.keyboard \in BOOLEAN
      /\ \A m \in M : m.type = "receiptAck" => m.result # "accepted"
      /\ \A m \in M : m.type = "releaseAck" => m.status # "ok"
  BY <1>3 DEF Sound
<1> HIDE DEF M
<1>5. EnrolInv'
  BY <1>1, <1>3, <1>4, EnrolFrameM DEF SessionIInv
<1>6. VerdictInv'
  BY <1>1, <1>3, <1>4, VerdictFrameM DEF SessionIInv
<1>7. ReleaseInv'
  BY <1>1, <1>3, <1>4, ReleaseFrameM DEF SessionIInv
<1> QED
  BY <1>2, <1>5, <1>6, <1>7 DEF SessionIInv

\* A step that tells nothing which the parts of the invariant speak of.
LEMMA MachineFrame ==
  ASSUME SessionIInv, TalkInv', mst # "idle", mst' # "idle", mst' \in Confirmed => mst \in Confirmed,
         UNCHANGED <<worldVars, phoneVars, enrolled, mkind, mach>>,
         up' \in Seq(Recs(up')), down' \in Seq(Recs(down')), Recs(up') \subseteq Recs(up),
         \A m \in Recs(down') : m \in Recs(down) \/ m.type \notin Telling
  PROVE  SessionIInv'
<1>1. \A m \in Recs(down') : m \in Recs(down) \/ Sound(m)
  BY DEF Sound, Telling
<1> QED
  BY <1>1, MachineTells

\* The machine's own failure, told the phone.
LEMMA MachineRefusesKeeps ==
  ASSUME SessionIInv, NEW t, MReceives(t), MFails, t # "error",
         mst \in {"sasConfirm", "challenge", "accept", "request"},
         UNCHANGED <<worldVars, phoneVars, enrolled, mkind, mach>>
  PROVE  SessionIInv'
<1> DEFINE m == Msg("error")
<1>1. SessionTypeOK /\ TalkInv /\ UNCHANGED <<vst, pkind>>
  BY DEF SessionIInv, phoneVars
<1>2. /\ TalkInv' /\ mst # "idle" /\ mst' = "over"
      /\ up' \in Seq(Recs(up')) /\ Recs(up') \subseteq Recs(up)
      /\ down' \in Seq(Recs(down')) /\ Recs(down') \subseteq Recs(down) \union {m}
  BY <1>1, MachineRefuses
<1>3. mst' # "idle" /\ (mst' \in Confirmed => mst \in Confirmed)
  BY <1>2 DEF Confirmed
<1>4. m.type = "error"
  BY DEF Msg
<1> HIDE DEF m
<1>5. \A x \in Recs(down') : x \in Recs(down) \/ x.type \notin Telling
  BY <1>2, <1>4 DEF Telling
<1> QED
  BY <1>2, <1>3, <1>5, MachineFrame

LEMMA RecvMsgFailsKeeps ==
  ASSUME SessionIInv, RecvMsgFails
  PROVE  SessionIInv'
<1>1. /\ mst \notin {"idle", "over"} /\ mst' = "over" /\ UNCHANGED down
      /\ UNCHANGED <<worldVars, phoneVars, enrolled, mkind, mach>>
      /\ up' = up \/ (up # <<>> /\ up' = Tail(up))
  BY DEF RecvMsgFails, MReceives
<1>2. SessionTypeOK /\ TalkInv /\ UNCHANGED <<vst, pkind>>
  BY <1>1 DEF SessionIInv, phoneVars
<1>3. TalkInv'
  BY <1>1, <1>2, MachineEnds DEF Serving
<1>4. /\ up' \in Seq(Recs(up')) /\ Recs(up') \subseteq Recs(up)
      /\ down' \in Seq(Recs(down')) /\ Recs(down') \subseteq Recs(down) \union {}
  BY <1>1, <1>2, TailRecs DEF SessionTypeOK
<1>5. mst # "idle" /\ mst' # "idle" /\ (mst' \in Confirmed => mst \in Confirmed)
  BY <1>1 DEF Confirmed
<1>6. \A m \in Recs(down') : m \in Recs(down) \/ m.type \notin Telling
  BY <1>1
<1> QED
  BY <1>1, <1>3, <1>4, <1>5, <1>6, MachineFrame

LEMMA AcceptHandshakeKeeps ==
  ASSUME SessionIInv, AcceptHandshake
  PROVE  SessionIInv'
<1>1. /\ mst = "hs1" /\ up # <<>> /\ Head(up).type \in {"XX", "IK"} /\ up' = Tail(up)
      /\ UNCHANGED <<worldVars, phoneVars, enrolled, mkind, mach>>
  BY DEF AcceptHandshake
<1>2. SessionTypeOK /\ TalkInv /\ UNCHANGED <<vst, pkind>> /\ Serving(mst)
  BY <1>1 DEF SessionIInv, phoneVars, Serving
<1>3. down \in Seq(Recs(down)) /\ up' \in Seq(Recs(up')) /\ Recs(up') \subseteq Recs(up)
  BY <1>1, <1>2, MachineTakes DEF SessionTypeOK
<1>4. Running(vst) => down = <<>> /\ vst = "handshake"
  BY <1>1, <1>2, MachineTakes DEF MachineTurn
<1>5. CASE mst' = "over" /\ down' = down
  <2>1. TalkInv'
    BY <1>1, <1>2, <1>5, MachineEnds
  <2>2. /\ down' \in Seq(Recs(down'))
        /\ \A x \in Recs(down') : x \in Recs(down) \/ x.type \notin Telling
    BY <1>3, <1>5
  <2>3. mst # "idle" /\ mst' # "idle" /\ (mst' \in Confirmed => mst \in Confirmed)
    BY <1>1, <1>5 DEF Confirmed
  <2> QED
    BY <1>1, <1>3, <1>5, <2>1, <2>2, <2>3, MachineFrame
<1>6. CASE Head(up).type = "XX" /\ mst' = "hs3" /\ down' = down \o <<Msg("XX")>>
  <2> DEFINE m == Msg("XX")
  <2>1. m.type = "XX"
    BY DEF Msg
  <2> HIDE DEF m
  <2>2. down' = Append(down, m)
    BY <1>3, <1>6, ConcatOne DEF m
  <2>3. <<mst, Head(up).type, m.type, mst'>> \in MachineSteps
    BY <1>1, <1>6, <2>1 DEF MachineSteps
  <2>4. TalkInv'
    BY <1>1, <1>2, <2>2, <2>3, MachineGoes
  <2>5. down' \in Seq(Recs(down')) /\ Recs(down') \subseteq Recs(down) \union {m}
    BY <1>3, <2>2, AppendRecs
  <2>8. mst # "idle" /\ mst' # "idle" /\ (mst' \in Confirmed => mst \in Confirmed)
    BY <1>1, <1>3, <1>6, <2>1, <2>4, <2>5 DEF Confirmed
  <2>9. \A x \in Recs(down') : x \in Recs(down) \/ x.type \notin Telling
    BY <1>1, <1>3, <1>6, <2>1, <2>4, <2>5 DEF Telling
  <2> QED
    BY <1>1, <1>3, <1>6, <2>1, <2>4, <2>5, <2>8, <2>9, MachineFrame
<1>7. CASE /\ Head(up).type = "IK" /\ mst' = "request"
           /\ down' = down \o <<Msg("IK"), [type |-> "hello", nonceA |-> session]>>
  <2> DEFINE m == Msg("IK")
             n == [type |-> "hello", nonceA |-> session]
  <2>1. m.type = "IK" /\ n.type = "hello"
    BY DEF Msg
  <2> HIDE DEF m, n
  <2>2. down' = Append(Append(down, m), n)
    BY <1>3, <1>7, ConcatTwo DEF m, n
  <2>3. TalkInv'
    BY <1>1, <1>2, <1>7, <2>1, <2>2, MachineGreets
  <2> DEFINE d == Append(down, m)
  <2>4. d \in Seq(Recs(d)) /\ Recs(d) = Recs(down) \union {m} /\ down' = Append(d, n)
    BY <1>3, <2>2, AppendRecs
  <2> HIDE DEF d
  <2>5. down' \in Seq(Recs(down')) /\ Recs(down') \subseteq Recs(down) \union {m, n}
    BY <2>4, AppendRecs
  <2>8. mst # "idle" /\ mst' # "idle" /\ (mst' \in Confirmed => mst \in Confirmed)
    BY <1>1, <1>3, <1>7, <2>1, <2>3, <2>5 DEF Confirmed
  <2>9. \A x \in Recs(down') : x \in Recs(down) \/ x.type \notin Telling
    BY <1>1, <1>3, <1>7, <2>1, <2>3, <2>5 DEF Telling
  <2> QED
    BY <1>1, <1>3, <1>7, <2>1, <2>3, <2>5, <2>8, <2>9, MachineFrame
<1>8. CASE mst' = "over" /\ down' = Append(down, Msg("plain"))
  <2> DEFINE m == Msg("plain")
  <2>1. m.type = "plain"
    BY DEF Msg
  <2>2. down' = Append(down, m)
    BY <1>8
  <2> HIDE DEF m
  <2>3. TalkInv'
    BY <1>1, <1>2, <1>4, <1>8, <2>1, <2>2, MachineEnds
  <2>4. down' \in Seq(Recs(down')) /\ Recs(down') \subseteq Recs(down) \union {m}
    BY <1>3, <2>2, AppendRecs
  <2>8. mst # "idle" /\ mst' # "idle" /\ (mst' \in Confirmed => mst \in Confirmed)
    BY <1>1, <1>3, <1>8, <2>1, <2>3, <2>4 DEF Confirmed
  <2>9. \A x \in Recs(down') : x \in Recs(down) \/ x.type \notin Telling
    BY <1>1, <1>3, <1>8, <2>1, <2>3, <2>4 DEF Telling
  <2> QED
    BY <1>1, <1>3, <1>8, <2>1, <2>3, <2>4, <2>8, <2>9, MachineFrame
<1> QED
  BY <1>5, <1>6, <1>7, <1>8 DEF AcceptHandshake, MSends

LEMMA ServeSASKeeps ==
  ASSUME SessionIInv, ServeSAS
  PROVE  SessionIInv'
<1>1. SessionTypeOK /\ TalkInv /\ UNCHANGED <<worldVars, phoneVars, enrolled, mkind, mach>>
      /\ UNCHANGED <<vst, pkind>>
  BY DEF ServeSAS, SessionIInv, phoneVars
<1>2. CASE /\ mst = "hs3" /\ MReceives("XX")
           /\ MSends(<<[type |-> "sasCommit", nonceM |-> session]>>, "sasNonce")
  <2> DEFINE m == [type |-> "sasCommit", nonceM |-> session]
  <2>1. m.type = "sasCommit" /\ MSends(<<m>>, "sasNonce")
    BY <1>2
  <2> HIDE DEF m
  <2>2. <<mst, "XX", m.type, "sasNonce">> \in MachineSteps
    BY <1>2, <2>1 DEF MachineSteps
  <2>3. /\ TalkInv' /\ mst # "idle" /\ mst' \in {"sasNonce", "over"}
        /\ up' \in Seq(Recs(up')) /\ Recs(up') \subseteq Recs(up)
        /\ down' \in Seq(Recs(down')) /\ Recs(down') \subseteq Recs(down) \union {m}
    BY <1>1, <1>2, <2>1, <2>2, MachineAnswers
  <2>8. mst # "idle" /\ mst' # "idle" /\ (mst' \in Confirmed => mst \in Confirmed)
    BY <1>1, <2>1, <2>3 DEF Confirmed
  <2>9. \A x \in Recs(down') : x \in Recs(down) \/ x.type \notin Telling
    BY <1>1, <2>1, <2>3 DEF Telling
  <2> QED
    BY <1>1, <2>1, <2>3, <2>8, <2>9, MachineFrame
<1>3. CASE /\ mst = "sasNonce" /\ MReceives("sasNonce")
           /\ MSends(<<[type |-> "sasReveal", nonceM |-> session]>>, "person")
  <2> DEFINE m == [type |-> "sasReveal", nonceM |-> session]
  <2>1. m.type = "sasReveal" /\ MSends(<<m>>, "person")
    BY <1>3
  <2> HIDE DEF m
  <2>2. <<mst, "sasNonce", m.type, "person">> \in MachineSteps
    BY <1>3, <2>1 DEF MachineSteps
  <2>3. /\ TalkInv' /\ mst # "idle" /\ mst' \in {"person", "over"}
        /\ up' \in Seq(Recs(up')) /\ Recs(up') \subseteq Recs(up)
        /\ down' \in Seq(Recs(down')) /\ Recs(down') \subseteq Recs(down) \union {m}
    BY <1>1, <1>3, <2>1, <2>2, MachineAnswers
  <2>8. mst # "idle" /\ mst' # "idle" /\ (mst' \in Confirmed => mst \in Confirmed)
    BY <1>1, <2>1, <2>3 DEF Confirmed
  <2>9. \A x \in Recs(down') : x \in Recs(down) \/ x.type \notin Telling
    BY <1>1, <2>1, <2>3 DEF Telling
  <2> QED
    BY <1>1, <2>1, <2>3, <2>8, <2>9, MachineFrame
<1> QED
  BY <1>2, <1>3 DEF ServeSAS

\* The code is confirmed at the machine, or refused there.
LEMMA MachineConfirmSASKeeps ==
  ASSUME SessionIInv, NEW yes \in BOOLEAN, MachineConfirmSAS(yes)
  PROVE  SessionIInv'
<1>1. /\ mst = "person" /\ SessionTypeOK /\ TalkInv
      /\ UNCHANGED <<up, session, boot, phoneVars, enrolled, mkind, mach>>
      /\ UNCHANGED <<vst, pkind, phone, rec>>
  BY DEF MachineConfirmSAS, SessionIInv, phoneVars
<1>2. CASE yes
  <2>1. mst' = "sasConfirm" /\ agreed' = agreed \union {<<session, "machine">>} /\ UNCHANGED down
    BY <1>2 DEF MachineConfirmSAS
  <2>2. TalkInv'
    BY <1>1, <2>1, MachineConfirms
  <2>3. SessionTypeOK'
    BY <1>1, <2>1 DEF SessionTypeOK
  <2>4. EnrolInv'
    BY <1>1, <2>1 DEF SessionIInv, EnrolInv, EnrolmentAgreed
  <2>5. VerdictInv'
    BY <1>1, <2>1 DEF SessionIInv, VerdictInv, ToKeep
  <2>6. ReleaseInv'
    BY <1>1, <2>1 DEF SessionIInv, ReleaseInv
  <2> QED
    BY <2>2, <2>3, <2>4, <2>5, <2>6 DEF SessionIInv
<1>3. CASE ~yes
  <2> DEFINE m == Msg("error")
  <2>1. mst' = "over" /\ (down' = down \/ down' = Append(down, m)) /\ m.type = "error" /\ UNCHANGED agreed
    BY <1>3 DEF MachineConfirmSAS, MFails, Msg
  <2> HIDE DEF m
  <2>2. Serving(mst) /\ (Running(vst) => vst # "handshake")
    BY <1>1 DEF TalkInv, InStep, PhoneTurn, MachineTurn, Serving
  <2>3. vst # "handshake"
    BY <2>2 DEF Running
  <2>4. TalkInv'
    BY <1>1, <2>1, <2>2, <2>3, MachineEnds
  <2>5. down \in Seq(Recs(down)) /\ up' \in Seq(Recs(up')) /\ Recs(up') \subseteq Recs(up)
    BY <1>1 DEF SessionTypeOK
  <2>6. down' \in Seq(Recs(down')) /\ Recs(down') \subseteq Recs(down) \union {m}
    <3>1. Append(down, m) \in Seq(Recs(Append(down, m))) /\ Recs(Append(down, m)) = Recs(down) \union {m}
      BY <2>5, AppendRecs
    <3> QED
      BY <2>1, <2>5, <3>1
  <2>7. UNCHANGED <<worldVars, phoneVars, enrolled, mkind, mach>>
    BY <1>1, <2>1 DEF worldVars
  <2>8. mst # "idle" /\ mst' # "idle" /\ (mst' \in Confirmed => mst \in Confirmed)
    BY <1>1, <2>1, <2>4, <2>5, <2>6, <2>7 DEF Confirmed
  <2>9. \A x \in Recs(down') : x \in Recs(down) \/ x.type \notin Telling
    BY <1>1, <2>1, <2>4, <2>5, <2>6, <2>7 DEF Telling
  <2> QED
    BY <1>1, <2>1, <2>4, <2>5, <2>6, <2>7, <2>8, <2>9, MachineFrame
<1> QED
  BY <1>2, <1>3

LEMMA ServeOfferKeeps ==
  ASSUME SessionIInv, NEW tpm \in BOOLEAN, ServeOffer(tpm)
  PROVE  SessionIInv'
<1>1. SessionTypeOK /\ TalkInv /\ UNCHANGED <<worldVars, phoneVars, enrolled, mkind, mach>>
      /\ UNCHANGED <<vst, pkind>>
  BY DEF ServeOffer, SessionIInv, phoneVars
<1>2. CASE /\ mst = "sasConfirm" /\ MReceives("sasConfirm")
           /\ MSends(<<[type |-> "offer", val |-> boot.val, resets |-> boot.resets]>>, "challenge")
  <2> DEFINE m == [type |-> "offer", val |-> boot.val, resets |-> boot.resets]
  <2>1. m.type = "offer" /\ m.val \in Values /\ m.resets \in Nat /\ MSends(<<m>>, "challenge")
    BY <1>1, <1>2 DEF SessionTypeOK
  <2> HIDE DEF m
  <2>2. <<mst, "sasConfirm", m.type, "challenge">> \in MachineSteps
    BY <1>2, <2>1 DEF MachineSteps
  <2>3. /\ TalkInv' /\ mst # "idle" /\ mst' \in {"challenge", "over"}
        /\ up' \in Seq(Recs(up')) /\ Recs(up') \subseteq Recs(up)
        /\ down' \in Seq(Recs(down')) /\ Recs(down') \subseteq Recs(down) \union {m}
    BY <1>1, <1>2, <2>1, <2>2, MachineAnswers
  <2>4. mst' # "idle" /\ (mst' \in Confirmed => mst \in Confirmed)
    BY <1>2, <2>3 DEF Confirmed
  <2>5. \A x \in Recs(down') : x \in Recs(down) \/ Sound(x)
    BY <2>1, <2>3 DEF Sound
  <2> QED
    BY <1>1, <2>3, <2>4, <2>5, MachineTells
<1>3. CASE /\ mst = "challenge" /\ MReceives("challenge")
           /\ MSends(<<[type |-> "response", secret |-> Head(up).secret]>>, "accept")
  <2> DEFINE m == [type |-> "response", secret |-> Head(up).secret]
  <2>1. m.type = "response" /\ MSends(<<m>>, "accept")
    BY <1>3
  <2> HIDE DEF m
  <2>2. <<mst, "challenge", m.type, "accept">> \in MachineSteps
    BY <1>3, <2>1 DEF MachineSteps
  <2>3. /\ TalkInv' /\ mst # "idle" /\ mst' \in {"accept", "over"}
        /\ up' \in Seq(Recs(up')) /\ Recs(up') \subseteq Recs(up)
        /\ down' \in Seq(Recs(down')) /\ Recs(down') \subseteq Recs(down) \union {m}
    BY <1>1, <1>3, <2>1, <2>2, MachineAnswers
  <2>4. mst' # "idle" /\ (mst' \in Confirmed => mst \in Confirmed)
    BY <1>3, <2>3 DEF Confirmed
  <2>5. \A x \in Recs(down') : x \in Recs(down) \/ x.type \notin Telling
    BY <2>1, <2>3 DEF Telling
  <2> QED
    BY <1>1, <2>3, <2>4, <2>5, MachineFrame
<1>4. CASE mst = "sasConfirm" /\ MReceives("sasConfirm") /\ MFails
  BY <1>1, <1>4, MachineRefusesKeeps
<1>5. CASE mst = "challenge" /\ MReceives("challenge") /\ MFails
  BY <1>1, <1>5, MachineRefusesKeeps
<1> QED
  BY <1>2, <1>3, <1>4, <1>5 DEF ServeOffer

\* The anchor stored is this session's, and both have confirmed its code.
LEMMA ServeCommitKeeps ==
  ASSUME SessionIInv, NEW stores \in BOOLEAN, ServeCommit(stores)
  PROVE  SessionIInv'
<1>1. SessionTypeOK /\ TalkInv /\ UNCHANGED <<worldVars, phoneVars, mkind, mach>>
      /\ UNCHANGED <<session, boot, agreed, vst, pkind, phone, rec, mkind, mach>>
      /\ mst = "accept" /\ MReceives("accept")
  BY DEF ServeCommit, SessionIInv, phoneVars, worldVars
<1>2. CASE ~stores
  <2>1. MFails /\ UNCHANGED <<worldVars, phoneVars, enrolled, mkind, mach>>
    BY <1>1, <1>2 DEF ServeCommit
  <2> QED
    BY <1>1, <2>1, MachineRefusesKeeps
<1>3. CASE stores
  <2> DEFINE m == [type |-> "confirm", anchor |-> Head(up).anchor]
  <2>1. /\ m.type = "confirm" /\ m.anchor = Head(up).anchor /\ MSends(<<m>>, "last")
        /\ enrolled' = enrolled \union {Head(up).anchor}
    BY <1>3 DEF ServeCommit
  <2> HIDE DEF m
  <2>2. <<mst, "accept", m.type, "last">> \in MachineSteps
    BY <1>1, <2>1 DEF MachineSteps
  <2>3. /\ TalkInv' /\ mst # "idle" /\ mst' \in {"last", "over"}
        /\ up' \in Seq(Recs(up')) /\ Recs(up') \subseteq Recs(up)
        /\ Head(up) \in Recs(up) /\ Head(up).type = "accept"
        /\ down' \in Seq(Recs(down')) /\ Recs(down') \subseteq Recs(down) \union {m}
    BY <1>1, <2>1, <2>2, MachineAnswers
  <2>4. mst' # "idle" /\ mst' \notin Confirmed /\ DOMAIN mach' = MachFields
    BY <1>1, <2>3 DEF Confirmed, SessionTypeOK
  <2>5. SessionTypeOK'
    BY <1>1, <2>3, <2>4, TypeFrameM
  <2>6. EnrolInv'
    <3>1. Head(up).anchor = session /\ {<<session, "machine">>, <<session, "phone">>} \subseteq agreed
      BY <1>1, <2>3 DEF SessionIInv, EnrolInv
    <3>2. EnrolmentAgreed'
      BY <1>1, <2>1, <3>1 DEF SessionIInv, EnrolInv, EnrolmentAgreed
    <3>3. \A x \in Recs(down') : x.type = "confirm" => x.anchor \in enrolled'
      BY <2>1, <2>3 DEF SessionIInv, EnrolInv
    <3> QED
      BY <1>1, <2>3, <2>4, <3>2, <3>3 DEF SessionIInv, EnrolInv, Confirmed
  <2>8. /\ \A x \in {m} : x.type \in {"offer", "evidence"} => x.val \in Values /\ x.resets \in Nat
        /\ \A x \in {m} : x.type = "evidence" => x.keep = ToKeep /\ x.keyboard \in BOOLEAN
        /\ \A x \in {m} : x.type = "receiptAck" => x.result # "accepted"
        /\ \A x \in {m} : x.type = "releaseAck" => x.status # "ok"
    BY <2>1
  <2>9. VerdictInv'
    BY <1>1, <2>3, <2>8, VerdictFrameM DEF SessionIInv
  <2>10. ReleaseInv'
    <3>1. ReleaseInv
      BY DEF SessionIInv
    <3> DEFINE M == {m}
    <3>2. /\ Recs(down') \subseteq Recs(down) \union M
          /\ \A x \in M : x.type = "receiptAck" => x.result # "accepted"
          /\ \A x \in M : x.type = "releaseAck" => x.status # "ok"
      BY <2>3, <2>8
    <3> HIDE DEF M
    <3> QED
      BY <1>1, <2>3, <3>1, <3>2, ReleaseFrameM
  <2> QED
    BY <2>3, <2>5, <2>6, <2>9, <2>10 DEF SessionIInv
<1> QED
  BY <1>2, <1>3

LEMMA ServeQuoteKeeps ==
  ASSUME SessionIInv, NEW tpm \in BOOLEAN, NEW q, NEW keyboard \in BOOLEAN, NEW log,
         ServeQuote(tpm, q, keyboard, log)
  PROVE  SessionIInv'
<1>1. SessionTypeOK /\ TalkInv /\ UNCHANGED <<worldVars, phoneVars, enrolled, mkind, mach>>
      /\ UNCHANGED <<vst, pkind>> /\ mst = "request" /\ MReceives("request")
  BY DEF ServeQuote, SessionIInv, phoneVars
<1>2. CASE ~tpm
  <2>1. MFails
    BY <1>2 DEF ServeQuote
  <2> QED
    BY <1>1, <2>1, MachineRefusesKeeps
<1>3. CASE tpm
  <2> DEFINE m == Evidence(q, keyboard, log)
  <2>1. m.type = "evidence" /\ m.val \in Values /\ m.resets \in Nat /\ m.keep = ToKeep
    BY <1>1 DEF SessionTypeOK, Evidence, ToKeep
  <2>2. m.keyboard \in BOOLEAN
    BY DEF Evidence
  <2>3. MSends(<<m>>, "serve")
    BY <1>3 DEF ServeQuote
  <2> HIDE DEF m
  <2>4. <<mst, "request", m.type, "serve">> \in MachineSteps
    BY <1>1, <2>1 DEF MachineSteps
  <2>5. /\ TalkInv' /\ mst # "idle" /\ mst' \in {"serve", "over"}
        /\ up' \in Seq(Recs(up')) /\ Recs(up') \subseteq Recs(up)
        /\ down' \in Seq(Recs(down')) /\ Recs(down') \subseteq Recs(down) \union {m}
    BY <1>1, <2>3, <2>4, MachineAnswers
  <2>6. mst' # "idle" /\ (mst' \in Confirmed => mst \in Confirmed)
    BY <2>5 DEF Confirmed
  <2>7. Sound(m)
    BY <2>1, <2>2 DEF Sound
  <2>8. \A x \in Recs(down') : x \in Recs(down) \/ Sound(x)
    BY <2>5, <2>7
  <2> QED
    BY <1>1, <2>5, <2>6, <2>8, MachineTells
<1> QED
  BY <1>2, <1>3

LEMMA ServeEventlogKeeps ==
  ASSUME SessionIInv, ServeEventlog
  PROVE  SessionIInv'
<1> DEFINE t == [i \in 1..Chunks |-> [type |-> "chunk", offset |-> i - 1]]
<1>1. /\ SessionTypeOK /\ TalkInv /\ UNCHANGED <<worldVars, phoneVars, enrolled, mkind, mach>>
      /\ UNCHANGED <<vst, pkind>> /\ mst = "serve" /\ up # <<>> /\ up' = Tail(up)
      /\ Head(up).type = "logRequest" /\ down \in Seq(Recs(down)) /\ Serving(mst)
  BY DEF ServeEventlog, SessionIInv, SessionTypeOK, phoneVars, MReceives, Serving
<1>2. up' \in Seq(Recs(up')) /\ Recs(up') \subseteq Recs(up)
  BY <1>1, MachineTakes
<1>3. t \in Seq(Recs(t)) /\ \A m \in Recs(t) : m.type = "chunk"
  <2> DEFINE C(i) == [type |-> "chunk", offset |-> i - 1]
             S == {C(i) : i \in 1..Chunks}
  <2>0. Chunks \in Nat
    BY SessionAssumption
  <2>1. t \in [1..Chunks -> S] /\ \A i \in 1..Chunks : t[i].type = "chunk"
    OBVIOUS
  <2> HIDE DEF S, t
  <2>2. t \in Seq(S) /\ Len(t) = Chunks
    BY <2>0, <2>1
  <2>3. t \in Seq(Recs(t))
    BY <2>2, OwnRecs
  <2>4. \A m \in Recs(t) : m.type = "chunk"
    BY <2>1, <2>2 DEF Recs
  <2> QED
    BY <2>3, <2>4
<1>4. MSends(t, "serve")
  BY DEF ServeEventlog
<1> HIDE DEF t
<1>5. CASE mst' = "serve" /\ down' = down \o t
  <2>1. TalkInv'
    BY <1>1, <1>3, <1>5, MachineLogs
  <2>2. down' \in Seq(Recs(down')) /\ Recs(down') \subseteq Recs(down) \union Recs(t)
    BY <1>1, <1>3, <1>5, ChunkRecs
  <2>3. \A x \in Recs(down') : x \in Recs(down) \/ x.type \notin Telling
    BY <1>3, <2>2 DEF Telling
  <2>4. mst # "idle" /\ mst' # "idle" /\ (mst' \in Confirmed => mst \in Confirmed)
    BY <1>1, <1>5 DEF Confirmed
  <2> QED
    BY <1>1, <1>2, <2>1, <2>2, <2>3, <2>4, MachineFrame
<1>6. CASE mst' = "over" /\ down' = down
  <2>1. TalkInv'
    BY <1>1, <1>6, MachineEnds
  <2>2. down' \in Seq(Recs(down')) /\ \A x \in Recs(down') : x \in Recs(down) \/ x.type \notin Telling
    BY <1>1, <1>6
  <2>3. mst # "idle" /\ mst' # "idle" /\ (mst' \in Confirmed => mst \in Confirmed)
    BY <1>1, <1>6 DEF Confirmed
  <2> QED
    BY <1>1, <1>2, <2>1, <2>2, <2>3, MachineFrame
<1> QED
  BY <1>4, <1>5, <1>6 DEF MSends

LEMMA ServeByeKeeps ==
  ASSUME SessionIInv, ServeBye
  PROVE  SessionIInv'
<1>1. /\ SessionTypeOK /\ TalkInv /\ UNCHANGED <<worldVars, phoneVars, enrolled, mkind, mach>>
      /\ UNCHANGED <<vst, pkind, down>> /\ mst \in {"serve", "last"} /\ mst' = "over"
      /\ up # <<>> /\ up' = Tail(up) /\ down \in Seq(Recs(down)) /\ Serving(mst)
  BY DEF ServeBye, SessionIInv, SessionTypeOK, phoneVars, MReceives, Serving
<1>2. up' \in Seq(Recs(up')) /\ Recs(up') \subseteq Recs(up)
  BY <1>1, MachineTakes
<1>3. TalkInv'
  BY <1>1, MachineEnds
<1>4. down' \in Seq(Recs(down')) /\ \A x \in Recs(down') : x \in Recs(down) \/ x.type \notin Telling
  BY <1>1
<1>5. mst # "idle" /\ mst' # "idle" /\ (mst' \in Confirmed => mst \in Confirmed)
  BY <1>1 DEF Confirmed
<1> QED
  BY <1>1, <1>2, <1>3, <1>4, <1>5, MachineFrame

\* A step that changes what the machine has, and no more than that.
LEMMA MachineTakesOn ==
  ASSUME SessionIInv, TalkInv', ReleaseInv', mst = "serve", mst' \in {"serve", "over"},
         UNCHANGED <<worldVars, phoneVars, enrolled, mkind>>, DOMAIN mach' = MachFields,
         up' \in Seq(Recs(up')), down' \in Seq(Recs(down')), Recs(up') \subseteq Recs(up),
         NEW m, m.type \in {"receiptAck", "releaseAck"}, Recs(down') \subseteq Recs(down) \union {m}
  PROVE  SessionIInv'
<1>1. UNCHANGED <<session, boot, agreed, pkind, vst, phone, rec, enrolled, mkind>>
  BY DEF worldVars, phoneVars
<1>2. mst # "idle" /\ mst' # "idle" /\ (mst' \in Confirmed => mst \in Confirmed)
  BY DEF Confirmed
<1>3. SessionTypeOK'
  BY <1>1, <1>2, TypeFrameM DEF SessionIInv
<1>4. /\ \A x \in {m} : x.type # "confirm"
      /\ \A x \in {m} : x.type \in {"offer", "evidence"} => x.val \in Values /\ x.resets \in Nat
      /\ \A x \in {m} : x.type = "evidence" => x.keep = ToKeep /\ x.keyboard \in BOOLEAN
  OBVIOUS
<1> DEFINE M == {m}
<1>5. /\ Recs(down') \subseteq Recs(down) \union M
      /\ \A x \in M : x.type # "confirm"
  BY <1>4
<1> HIDE DEF M
<1>6. EnrolInv'
  BY <1>1, <1>2, <1>5, EnrolFrameM DEF SessionIInv
<1>7. VerdictInv'
  BY <1>1, <1>4, VerdictFrameM DEF SessionIInv
<1> QED
  BY <1>3, <1>6, <1>7 DEF SessionIInv

\* While a receipt is under way nothing is answered and nothing taken.
LEMMA ServeReceiptKeeps ==
  ASSUME SessionIInv, ServeReceipt
  PROVE  SessionIInv'
<1> DEFINE a == CheckReceipt(Head(up))
           m == [type |-> "receiptAck", result |-> a]
<1>1. /\ SessionTypeOK /\ TalkInv /\ UNCHANGED <<worldVars, phoneVars, enrolled, mkind>>
      /\ UNCHANGED <<session, vst, pkind, phone, rec, mkind>> /\ mst = "serve" /\ MReceives("receipt")
      /\ mach' = [mach EXCEPT !.answer = a] /\ MSends(<<m>>, "serve")
  BY DEF ServeReceipt, SessionIInv, phoneVars, worldVars
<1>2. m.type = "receiptAck" /\ m.result = a
  OBVIOUS
<1> HIDE DEF m, a
<1>3. /\ DOMAIN mach' = MachFields /\ mach'.answer = a
      /\ mach'.taken = mach.taken /\ mach'.returned = mach.returned /\ mach'.seed = mach.seed
  BY <1>1 DEF SessionTypeOK, MachFields
<1>4. <<mst, "receipt", m.type, "serve">> \in MachineSteps
  BY <1>1, <1>2 DEF MachineSteps
<1>5. /\ TalkInv' /\ mst' \in {"serve", "over"}
      /\ up' \in Seq(Recs(up')) /\ Recs(up') \subseteq Recs(up)
      /\ "receipt" \notin Types(up') /\ "receipt" \in Types(up)
      /\ down' \in Seq(Recs(down')) /\ Recs(down') \subseteq Recs(down) \union {m}
  BY <1>1, <1>4, MachineAnswers
<1>6. mach.answer = "none" /\ vst \in {"receiptAck", "done", "failed"}
  BY <1>5 DEF SessionIInv, ReleaseInv, TalkInv, Answers
<1>7. /\ \A x \in Recs(up) : x.type # "release"
      /\ \A x \in Recs(down) : x.type = "receiptAck" => x.result # "accepted"
      /\ ~(mach.taken # 0 \/ mach.returned)
  BY <1>6 DEF SessionIInv, ReleaseInv
<1>8. ReleaseInv'
  <2>1. \A x \in Recs(down') : x.type = "receiptAck" /\ x.result = "accepted" => mach'.answer = "accepted"
    BY <1>2, <1>3, <1>5, <1>7
  <2>2. \A x \in Recs(up') : x.type # "release"
    BY <1>5, <1>7
  <2>3. \A x \in Recs(down') : x.type = "releaseAck" /\ x.status = "ok" /\ vst' = "releaseAck" =>
          mkind' = "keep" \/ mach'.seed = phone'.layout
    BY <1>1, <1>6
  <2>4. phone'.shown # 0 => phone'.shown = mach'.seed /\ vst' = "done"
    BY <1>1, <1>3 DEF SessionIInv, ReleaseInv
  <2> QED
    BY <1>1, <1>3, <1>5, <1>6, <1>7, <2>1, <2>2, <2>3, <2>4 DEF ReleaseInv
<1> QED
  BY <1>1, <1>2, <1>3, <1>5, <1>8, MachineTakesOn

\* What is taken is what the phone keeps, and the seed is the layout's.
LEMMA ServeReleaseKeeps ==
  ASSUME SessionIInv, NEW tpm \in BOOLEAN, ServeRelease(tpm)
  PROVE  SessionIInv'
<1>1. /\ SessionTypeOK /\ TalkInv /\ UNCHANGED <<worldVars, phoneVars, enrolled, mkind>>
      /\ UNCHANGED <<session, vst, pkind, phone, rec, mkind>> /\ mst = "serve" /\ MReceives("release")
  BY DEF ServeRelease, SessionIInv, phoneVars, worldVars
<1>2. CASE mach.answer # "accepted"
  <2> DEFINE m == [type |-> "releaseAck", status |-> "noReceipt"]
  <2>1. m.type = "releaseAck" /\ m.status = "noReceipt" /\ MSends(<<m>>, "serve") /\ UNCHANGED mach
    BY <1>2 DEF ServeRelease
  <2> HIDE DEF m
  <2>2. <<mst, "release", m.type, "serve">> \in MachineSteps
    BY <1>1, <2>1 DEF MachineSteps
  <2>3. /\ TalkInv' /\ mst # "idle" /\ mst' \in {"serve", "over"}
        /\ up' \in Seq(Recs(up')) /\ Recs(up') \subseteq Recs(up)
        /\ down' \in Seq(Recs(down')) /\ Recs(down') \subseteq Recs(down) \union {m}
    BY <1>1, <2>1, <2>2, MachineAnswers
  <2>4. mst' # "idle" /\ (mst' \in Confirmed => mst \in Confirmed)
    BY <2>3 DEF Confirmed
  <2>5. \A x \in Recs(down') : x \in Recs(down) \/ Sound(x)
    BY <2>1, <2>3 DEF Sound
  <2> QED
    BY <1>1, <2>1, <2>3, <2>4, <2>5, MachineTells
<1>3. CASE mach.answer = "accepted"
  <2> DEFINE r == Head(up)
             b == TakeRelease(r, tpm)
             m == [type |-> "releaseAck", status |-> b.status]
  <2>1. m.type = "releaseAck" /\ m.status = b.status /\ MSends(<<m>>, "serve") /\ mach' = b.mach
    BY <1>3 DEF ServeRelease, ReleaseTaken
  <2>2. \/ /\ mkind = "keep" /\ r.salt = session
           /\ mach' = [mach EXCEPT !.returned = TRUE]
        \/ /\ mkind # "keep" /\ mach' = [mach EXCEPT !.taken = r.salt, !.seed = r.seed]
        \/ m.status # "ok" /\ mach' = mach
    BY <2>1 DEF TakeRelease
  <2> HIDE DEF m, b
  <2>3. <<mst, "release", m.type, "serve">> \in MachineSteps
    BY <1>1, <2>1 DEF MachineSteps
  <2>4. /\ TalkInv' /\ mst' \in {"serve", "over"} /\ r \in Recs(up) /\ r.type = "release"
        /\ up' \in Seq(Recs(up')) /\ Recs(up') \subseteq Recs(up)
        /\ "release" \notin Types(up') /\ "release" \in Types(up)
        /\ down' \in Seq(Recs(down')) /\ Recs(down') \subseteq Recs(down) \union {m}
    BY <1>1, <2>1, <2>3, MachineAnswers
  <2>5. /\ Trusted(phone.receipt) /\ r.salt = rec.salt /\ phone.shown = 0
        /\ vst = "releaseAck" => r.seed = phone.layout
    BY <2>4 DEF SessionIInv, ReleaseInv
  <2>6. vst \in {"releaseAck", "done", "failed"} /\ "releaseAck" \notin Types(down)
    BY <2>4 DEF SessionIInv, TalkInv, Answers
  <2>7. DOMAIN mach = MachFields /\ (mach.returned => mkind = "keep")
    BY DEF SessionIInv, SessionTypeOK, ReleaseInv
  <2> HIDE DEF r
  <2>8. /\ DOMAIN mach' = MachFields /\ mach'.answer = "accepted"
        /\ \/ /\ mkind = "keep" /\ rec.salt = session /\ mach'.returned /\ mach'.seed = mach.seed
           \/ /\ mkind # "keep" /\ mach'.taken = rec.salt /\ mach'.seed = r.seed
              /\ mach'.returned = mach.returned
           \/ m.status # "ok" /\ mach' = mach
    BY <1>3, <2>2, <2>5, <2>7 DEF MachFields
  <2>9. \A x \in Recs(up') : x.type # "release"
    BY <2>4, TypeOfRec
  <2>10. "receipt" \notin Types(up')
    <3>1. "receipt" \notin Types(up)
      BY <1>3 DEF SessionIInv, ReleaseInv
    <3> QED
      BY <2>4, <3>1 DEF Types
  <2>11. \A x \in Recs(down) : x.type # "releaseAck"
    BY <2>6, TypeOfRec
  <2>12. ReleaseInv'
    <3>1. mach'.taken # 0 \/ mach'.returned =>
            rec'.salt = IF mach'.returned THEN session' ELSE mach'.taken
      BY <1>1, <2>7, <2>8 DEF SessionIInv, ReleaseInv
    <3>2. mach'.returned => mkind' = "keep"
      BY <1>1, <2>7, <2>8
    <3>3. \A x \in Recs(down') : x.type = "releaseAck" /\ x.status = "ok" /\ vst' = "releaseAck" =>
            mkind' = "keep" \/ mach'.seed = phone'.layout
      BY <1>1, <2>4, <2>5, <2>8, <2>11
    <3> QED
      BY <1>1, <2>4, <2>5, <2>6, <2>8, <2>9, <2>10, <3>1, <3>2, <3>3 DEF ReleaseInv
  <2> QED
    BY <1>1, <2>1, <2>4, <2>8, <2>12, MachineTakesOn
<1> QED
  BY <1>2, <1>3

----------------------------------------------------------------------------
(* What a step of the phone leaves alone. *)

PhoneConfirmed == {"enrolOffer", "response", "anchorKey", "anchorSig", "enrolConfirm"}
Judged == {"decision", "receiptSig", "receiptAck"}
Shows == {"response", "anchorKey", "anchorSig", "enrolConfirm"} \union Judged
Checking == {"hello", "evidence"} \union InTransfer
Late == {"receiptAck", "releaseAck", "done", "failed"}
After == {"releaseAck", "done", "failed"}

LEMMA TypeFrameP ==
  ASSUME SessionTypeOK, vst # "idle", vst' # "idle", UNCHANGED <<session, boot, mst, mach>>,
         DOMAIN phone' = PhoneFields, rec' = NoRecord \/ rec' \in Records,
         up' \in Seq(Recs(up')), down' \in Seq(Recs(down'))
  PROVE  SessionTypeOK'
<1>1. mst # "idle" /\ mst' # "idle" /\ mach' = mach
  BY DEF SessionTypeOK
<1> QED
  BY <1>1 DEF SessionTypeOK

LEMMA EnrolFrameP ==
  ASSUME EnrolInv, UNCHANGED <<session, enrolled, mst>>, agreed \subseteq agreed',
         rec'.key # 0 => rec'.key \in enrolled, Recs(down') \subseteq Recs(down),
         \A x \in Recs(up') : x \in Recs(up) \/ x.type # "accept"
                              \/ (x.anchor = session /\ <<session, "phone">> \in agreed'),
         vst' \in PhoneConfirmed => vst \in PhoneConfirmed \/ <<session, "phone">> \in agreed'
  PROVE  EnrolInv'
<1>1. EnrolmentAgreed'
  BY DEF EnrolInv, EnrolmentAgreed
<1>2. \A x \in Recs(up') : x.type = "accept" => x.anchor = session /\ <<session, "phone">> \in agreed'
  BY DEF EnrolInv
<1> QED
  BY <1>1, <1>2 DEF EnrolInv, PhoneConfirmed

LEMMA VerdictFrameP ==
  ASSUME VerdictInv, UNCHANGED <<session, mkind, pkind, rec>>, Recs(down') \subseteq Recs(down),
         Running(vst), vst' # "handshake",
         phone'.verdict = phone.verdict, phone'.keep = phone.keep, phone'.keyboard = phone.keyboard,
         vst' \in Shows => vst \in Shows, vst' \in Judged => vst \in Judged,
         vst' \in InTransfer => vst \in InTransfer, vst' \in Checking => rec \in Records
  PROVE  VerdictInv'
<1>1. ToKeep' = ToKeep
  BY DEF ToKeep
<1>2. /\ \A m \in Recs(down') : m.type \in {"offer", "evidence"} => m.val \in Values /\ m.resets \in Nat
      /\ \A m \in Recs(down') : m.type = "evidence" => m.keep = ToKeep /\ m.keyboard \in BOOLEAN
  BY DEF VerdictInv
<1>3. /\ vst' \in Shows => phone'.verdict.val \in Values /\ phone'.verdict.resets \in Nat
      /\ vst' \in Judged /\ phone'.verdict.resets < rec'.resets => phone'.verdict.state = "failed"
      /\ rec'.key <= session' /\ rec'.key < session'
  BY DEF VerdictInv, Shows, Judged
<1>4. vst' \in InTransfer => phone'.keep = ToKeep /\ phone'.keyboard \in BOOLEAN
  BY DEF VerdictInv
<1> QED
  BY <1>1, <1>2, <1>3, <1>4 DEF VerdictInv, Shows, Judged, Checking

\* Until the receipt is sent nothing is answered, and nothing taken.
LEMMA NothingYet ==
  ASSUME ReleaseInv, vst \notin Late
  PROVE  /\ mach.answer = "none" /\ phone.shown = 0 /\ ~(mach.taken # 0 \/ mach.returned)
         /\ \A x \in Recs(up) : x.type # "release"
         /\ \A x \in Recs(down) : ~(x.type = "receiptAck" /\ x.result = "accepted")
<1>1. mach.answer = "none"
  BY DEF ReleaseInv, Late
<1> QED
  BY <1>1 DEF ReleaseInv, Late

LEMMA ReleaseFrameP ==
  ASSUME ReleaseInv, UNCHANGED <<session, mkind, mach>>, vst \notin Late, vst' # "releaseAck",
         phone'.shown = phone.shown, Recs(down') \subseteq Recs(down),
         \A x \in Recs(up') : x \in Recs(up) \/ x.type # "release"
  PROVE  ReleaseInv'
<1>1. /\ mach.answer = "none" /\ phone.shown = 0 /\ ~(mach.taken # 0 \/ mach.returned)
      /\ \A x \in Recs(up) : x.type # "release"
      /\ \A x \in Recs(down) : ~(x.type = "receiptAck" /\ x.result = "accepted")
  BY NothingYet
<1>2. /\ \A x \in Recs(up') : x.type # "release"
      /\ \A x \in Recs(down') : ~(x.type = "receiptAck" /\ x.result = "accepted")
  BY <1>1
<1> QED
  BY <1>1, <1>2 DEF ReleaseInv

\* Later, what is under way and what was taken stay as they are.
LEMMA ReleaseFrameL ==
  ASSUME ReleaseInv, UNCHANGED <<session, mkind, mach, rec>>, Running(vst), vst' \in Late,
         phone'.shown = phone.shown, phone'.receipt = phone.receipt, phone'.layout = phone.layout,
         vst' = "releaseAck" => vst = "releaseAck", vst \in After => vst' \in After,
         Recs(down') \subseteq Recs(down),
         \A x \in Recs(up') : x \in Recs(up) \/ x.type \notin {"receipt", "release"}
  PROVE  ReleaseInv'
<1>1. "receipt" \in Types(up') => "receipt" \in Types(up)
  BY DEF Types
<1>2. phone'.shown = 0
  BY DEF ReleaseInv, Running
<1>3. /\ \A m \in Recs(down') : m.type = "receiptAck" /\ m.result = "accepted" => mach.answer = "accepted"
      /\ \A m \in Recs(down') : m.type = "releaseAck" /\ m.status = "ok" /\ vst' = "releaseAck" =>
           mkind = "keep" \/ mach.seed = phone'.layout
  BY DEF ReleaseInv
<1>4. \A m \in Recs(up') : m.type = "release" =>
       /\ mach.answer = "accepted" /\ Trusted(phone'.receipt) /\ m.salt = rec'.salt
       /\ vst' = "releaseAck" => m.seed = phone'.layout
  BY DEF ReleaseInv
<1>5. mach.taken # 0 \/ mach.returned =>
       /\ mach.answer = "accepted" /\ Trusted(phone'.receipt) /\ vst' \in After
       /\ rec'.salt = IF mach.returned THEN session ELSE mach.taken
  BY DEF ReleaseInv, After
<1>6. /\ vst' \notin Late => mach.answer = "none"
      /\ "receipt" \in Types(up') => mach.answer = "none"
      /\ mach.returned => mkind = "keep"
  BY <1>1 DEF ReleaseInv
<1> QED
  BY <1>2, <1>3, <1>4, <1>5, <1>6 DEF ReleaseInv, Late, After

SamePhone ==
  /\ DOMAIN phone' = PhoneFields
  /\ phone'.verdict = phone.verdict /\ phone'.keep = phone.keep /\ phone'.keyboard = phone.keyboard
  /\ phone'.shown = phone.shown /\ phone'.receipt = phone.receipt /\ phone'.layout = phone.layout
\* The phone comes to nothing new from v to w.
Onward(v, w) ==
  /\ w \in PhoneConfirmed => v \in PhoneConfirmed
  /\ w \in Shows => v \in Shows
  /\ w \in Judged => v \in Judged
  /\ w \in InTransfer => v \in InTransfer
  /\ w = "releaseAck" => v = "releaseAck"
  /\ v \in Late => w \in Late
  /\ v \in After => w \in After

LEMMA PhoneIs ==
  ASSUME SessionIInv, PhoneOnly
  PROVE  /\ SessionTypeOK /\ TalkInv /\ EnrolInv /\ VerdictInv /\ ReleaseInv
         /\ UNCHANGED <<session, boot, enrolled, mkind, mst, mach, pkind>>
         /\ DOMAIN phone = PhoneFields
         /\ (rec = NoRecord \/ rec \in Records) /\ (rec.key # 0 => rec.key \in enrolled)
  BY DEF SessionIInv, SessionTypeOK, EnrolInv, EnrolmentAgreed, PhoneOnly, machineVars

\* A step that changes nothing of what the parts of the invariant speak of.
LEMMA PhoneFrame ==
  ASSUME SessionIInv, TalkInv', PhoneOnly, UNCHANGED <<rec, agreed>>, Running(vst),
         vst' \notin {"idle", "handshake"}, SamePhone, Onward(vst, vst'),
         vst' \in Checking => rec \in Records,
         up' \in Seq(Recs(up')), down' \in Seq(Recs(down')), Recs(down') \subseteq Recs(down),
         \A x \in Recs(up') : x \in Recs(up) \/ x.type \notin {"accept", "receipt", "release"}
  PROVE  SessionIInv'
<1>1. /\ SessionTypeOK /\ EnrolInv /\ VerdictInv /\ ReleaseInv
      /\ UNCHANGED <<session, boot, enrolled, mkind, mst, mach, pkind>>
      /\ (rec = NoRecord \/ rec \in Records) /\ (rec.key # 0 => rec.key \in enrolled)
  BY PhoneIs
<1>2. vst # "idle" /\ DOMAIN phone' = PhoneFields
  BY DEF Running, SamePhone
<1>3. SessionTypeOK'
  BY <1>1, <1>2, TypeFrameP
<1>4. EnrolInv'
  BY <1>1, EnrolFrameP DEF Onward
<1>5. VerdictInv'
  BY <1>1, VerdictFrameP DEF Onward, SamePhone
<1>6. ReleaseInv'
  <2>1. CASE vst \in Late
    BY <1>1, <2>1, ReleaseFrameL DEF Onward, SamePhone
  <2>2. CASE vst \notin Late
    <3>1. vst' # "releaseAck"
      BY <2>2 DEF Onward, Late
    <3> QED
      BY <1>1, <2>2, <3>1, ReleaseFrameP DEF SamePhone
  <2> QED
    BY <2>1, <2>2
<1> QED
  BY <1>3, <1>4, <1>5, <1>6 DEF SessionIInv

----------------------------------------------------------------------------
(* The phone's steps. *)

LEMMA VSendsIs ==
  ASSUME SessionTypeOK, NEW m, NEW next, VSends(m, next), m.type # "-"
  PROVE  /\ vst' = next /\ PhoneSent(m.type)
         /\ up' \in Seq(Recs(up')) /\ Recs(up') \subseteq Recs(up) \union {m}
<1>1. up \in Seq(Recs(up)) /\ vst' = next /\ (up' = up \/ up' = Append(up, m))
  BY DEF SessionTypeOK, VSends
<1>2. Append(up, m) \in Seq(Recs(Append(up, m))) /\ Recs(Append(up, m)) = Recs(up) \union {m}
  BY <1>1, AppendRecs
<1> QED
  BY <1>1, <1>2 DEF PhoneSent

\* The phone ends its session, and says so or not.
LEMMA PhoneFails ==
  ASSUME SessionIInv, PhoneOnly, Running(vst), vst' = "failed", NEW why,
         phone' = [phone EXCEPT !.why = why], UNCHANGED <<rec, agreed>>,
         down' = down \/ (down # <<>> /\ down' = Tail(down)),
         up' = up \/ up' = Append(up, Msg("error"))
  PROVE  SessionIInv'
<1> DEFINE m == Msg("error")
<1>1. SessionTypeOK /\ TalkInv /\ UNCHANGED <<mst, pkind>> /\ DOMAIN phone = PhoneFields
  BY PhoneIs
<1>2. m.type = "error" /\ (up' = up \/ up' = Append(up, m))
  BY DEF Msg
<1> HIDE DEF m
<1>3. PhoneSent("error")
  BY <1>2 DEF PhoneSent
<1>4. TalkInv'
  BY <1>1, <1>3, PhoneEnds
<1>5. down' \in Seq(Recs(down')) /\ Recs(down') \subseteq Recs(down) /\ up \in Seq(Recs(up))
  BY <1>1, TailRecs DEF SessionTypeOK
<1>6. up' \in Seq(Recs(up')) /\ Recs(up') \subseteq Recs(up) \union {m}
  <2>1. Append(up, m) \in Seq(Recs(Append(up, m))) /\ Recs(Append(up, m)) = Recs(up) \union {m}
    BY <1>5, AppendRecs
  <2> QED
    BY <1>2, <1>5, <2>1
<1>7. \A x \in Recs(up') : x \in Recs(up) \/ x.type \notin {"accept", "receipt", "release"}
  BY <1>2, <1>6
<1>8. SamePhone
  BY <1>1 DEF SamePhone, PhoneFields
<1>9. /\ vst' \notin {"idle", "handshake"} /\ Onward(vst, vst')
      /\ (vst' \in Checking => rec \in Records)
  BY DEF Onward, PhoneConfirmed, Shows, Judged, InTransfer, Late, After, Checking
<1> QED
  BY <1>4, <1>5, <1>6, <1>7, <1>8, <1>9, PhoneFrame

\* A step of the table that changes nothing of what the invariant speaks of.
LEMMA PhoneGoesOn ==
  ASSUME SessionIInv, PhoneOnly, NEW t, NEW u, PhoneTook(t), <<vst, t, u, vst'>> \in PhoneSteps,
         UNCHANGED <<rec, agreed>>, SamePhone, Onward(vst, vst'), vst' \in Checking => rec \in Records,
         PhoneSent(u), u \notin {"accept", "receipt", "release"}
  PROVE  SessionIInv'
<1>1. SessionTypeOK /\ TalkInv /\ UNCHANGED <<mst, pkind>>
  BY PhoneIs
<1>2. TalkInv'
  BY <1>1, PhoneGoes
<1>3. down' \in Seq(Recs(down')) /\ Recs(down') \subseteq Recs(down)
  BY <1>1, PhoneTakes
<1>4. up \in Seq(Recs(up))
  BY <1>1 DEF SessionTypeOK
<1>5. /\ up' \in Seq(Recs(up'))
      /\ \A x \in Recs(up') : x \in Recs(up) \/ x.type \notin {"accept", "receipt", "release"}
  <2>1. CASE up' = up
    BY <1>4, <2>1
  <2>2. ASSUME NEW m, m.type = u, up' = Append(up, m)
        PROVE  /\ up' \in Seq(Recs(up'))
               /\ \A x \in Recs(up') : x \in Recs(up) \/ x.type \notin {"accept", "receipt", "release"}
    BY <1>4, <2>2, AppendRecs
  <2> QED
    BY <2>1, <2>2 DEF PhoneSent
<1>6. Running(vst) /\ vst' \notin {"idle", "handshake"}
  BY DEF PhoneSteps, Running
<1> QED
  BY <1>2, <1>3, <1>5, <1>6, PhoneFrame

LEMMA VFailsKeeps ==
  ASSUME SessionIInv, PhoneOnly, Running(vst), NEW why, VFails(why), UNCHANGED agreed,
         down' = down \/ (down # <<>> /\ down' = Tail(down))
  PROVE  SessionIInv'
<1>1. /\ vst' = "failed" /\ phone' = [phone EXCEPT !.why = why] /\ UNCHANGED <<rec, agreed>>
      /\ up' = up \/ up' = Append(up, Msg("error"))
  BY DEF VFails
<1> QED
  BY <1>1, PhoneFails

LEMMA HandleHandshakeKeeps ==
  ASSUME SessionIInv, HandleHandshake
  PROVE  SessionIInv'
<1>1. /\ vst = "handshake" /\ down # <<>> /\ down' = Tail(down) /\ UNCHANGED agreed /\ PhoneOnly
      /\ Running(vst)
  BY DEF HandleHandshake, Running
<1>2. SessionTypeOK /\ DOMAIN phone = PhoneFields /\ VerdictInv
  BY <1>1, PhoneIs
<1>3. CASE /\ Head(down).type = "XX" /\ VSends(Msg("XX"), "sasCommit") /\ UNCHANGED <<phone, rec>>
  <2> DEFINE m == Msg("XX")
  <2>1. m.type = "XX" /\ m.type # "-" /\ VSends(m, "sasCommit")
    BY <1>3 DEF Msg
  <2> HIDE DEF m
  <2>2. PhoneSent("XX") /\ vst' = "sasCommit"
    BY <1>2, <2>1, VSendsIs
  <2>3. PhoneTook("XX") /\ <<vst, "XX", "XX", vst'>> \in PhoneSteps
    BY <1>1, <1>3, <2>2 DEF PhoneTook, VReceives, PhoneSteps
  <2>4. Onward(vst, vst') /\ (vst' \in Checking => rec \in Records)
    BY <1>1, <2>2 DEF Onward, PhoneConfirmed, Shows, Judged, InTransfer, Late, After, Checking
  <2>5. SamePhone /\ UNCHANGED <<rec, agreed>>
    BY <1>1, <1>2, <1>3 DEF SamePhone
  <2> QED
    BY <1>1, <2>2, <2>3, <2>4, <2>5, PhoneGoesOn
<1>4. CASE /\ Head(down).type = "IK" /\ pkind = "attest" /\ vst' = "hello"
           /\ UNCHANGED <<up, phone, rec>>
  <2>1. PhoneTook("IK") /\ PhoneSent("-") /\ <<vst, "IK", "-", vst'>> \in PhoneSteps
    BY <1>1, <1>4 DEF PhoneTook, PhoneSent, VReceives, PhoneSteps
  <2>2. rec \in Records
    BY <1>1, <1>2, <1>4 DEF VerdictInv
  <2>3. Onward(vst, vst')
    BY <1>1, <1>4 DEF Onward, PhoneConfirmed, Shows, Judged, InTransfer, Late, After
  <2>4. SamePhone /\ UNCHANGED <<rec, agreed>>
    BY <1>1, <1>2, <1>4 DEF SamePhone
  <2> QED
    BY <1>1, <2>1, <2>2, <2>3, <2>4, PhoneGoesOn
<1>5. CASE VFails("machine")
  BY <1>1, <1>5, VFailsKeeps
<1> QED
  BY <1>3, <1>4, <1>5 DEF HandleHandshake

LEMMA HandleErrorKeeps ==
  ASSUME SessionIInv, HandleError
  PROVE  SessionIInv'
<1>1. /\ Running(vst) /\ PhoneOnly /\ vst' = "failed" /\ phone' = [phone EXCEPT !.why = "machine"]
      /\ UNCHANGED <<rec, agreed>> /\ down # <<>> /\ down' = Tail(down) /\ up' = up
  BY DEF HandleError, VReceives, Running
<1> QED
  BY <1>1, PhoneFails

LEMMA EvidenceRefusedKeeps ==
  ASSUME SessionIInv, EvidenceRefused
  PROVE  SessionIInv'
<1>1. /\ Running(vst) /\ PhoneOnly /\ VFails("refused") /\ UNCHANGED agreed
      /\ down # <<>> /\ down' = Tail(down)
  BY DEF EvidenceRefused, VReceives, Running
<1> QED
  BY <1>1, VFailsKeeps

LEMMA OfferRefusedKeeps ==
  ASSUME SessionIInv, OfferRefused
  PROVE  SessionIInv'
<1>1. /\ Running(vst) /\ PhoneOnly /\ VFails("refused") /\ UNCHANGED agreed
      /\ down # <<>> /\ down' = Tail(down)
  BY DEF OfferRefused, VReceives, Running
<1> QED
  BY <1>1, VFailsKeeps

LEMMA AbortKeeps ==
  ASSUME SessionIInv, Abort
  PROVE  SessionIInv'
<1>1. Running(vst) /\ PhoneOnly /\ VFails("aborted") /\ UNCHANGED agreed /\ down' = down
  BY DEF Abort, Running
<1> QED
  BY <1>1, VFailsKeeps

\* The steps that take or send a record and note nothing of it.
LEMMA HandleHelloKeeps ==
  ASSUME SessionIInv, HandleHello
  PROVE  SessionIInv'
<1> DEFINE m == [type |-> "request", nonceV |-> session]
<1>1. /\ vst = "hello" /\ VReceives("hello") /\ UNCHANGED <<phone, rec, agreed>> /\ PhoneOnly
      /\ m.type = "request" /\ m.type # "-" /\ VSends(m, "evidence")
  BY DEF HandleHello
<1>2. SessionTypeOK /\ DOMAIN phone = PhoneFields /\ VerdictInv
  BY <1>1, PhoneIs
<1> HIDE DEF m
<1>3. PhoneSent("request") /\ vst' = "evidence"
  BY <1>1, <1>2, VSendsIs
<1>4. PhoneTook("hello") /\ <<vst, "hello", "request", vst'>> \in PhoneSteps
  BY <1>1, <1>3 DEF PhoneTook, PhoneSteps
<1>5. rec \in Records
  BY <1>1, <1>2 DEF VerdictInv
<1>6. Onward(vst, vst')
  BY <1>1, <1>3 DEF Onward, PhoneConfirmed, Shows, Judged, InTransfer, Late, After
<1>7. SamePhone
  BY <1>1, <1>2 DEF SamePhone
<1> QED
  BY <1>1, <1>3, <1>4, <1>5, <1>6, <1>7, PhoneGoesOn

LEMMA ProvideAnchorKeyKeeps ==
  ASSUME SessionIInv, NEW good, ProvideAnchorKey(good)
  PROVE  SessionIInv'
<1>1. /\ vst = "anchorKey" /\ vst' = "anchorSig" /\ UNCHANGED <<up, down, phone, rec, agreed>> /\ PhoneOnly
  BY DEF ProvideAnchorKey
<1>2. DOMAIN phone = PhoneFields
  BY <1>1, PhoneIs
<1>3. PhoneTook("-") /\ PhoneSent("-") /\ <<vst, "-", "-", vst'>> \in PhoneSteps
  BY <1>1 DEF PhoneTook, PhoneSent, PhoneSteps
<1>4. Onward(vst, vst') /\ (vst' \in Checking => rec \in Records)
  BY <1>1 DEF Onward, PhoneConfirmed, Shows, Judged, InTransfer, Late, After, Checking
<1>5. SamePhone
  BY <1>1, <1>2 DEF SamePhone
<1> QED
  BY <1>1, <1>3, <1>4, <1>5, PhoneGoesOn

LEMMA RequestEventlogKeeps ==
  ASSUME SessionIInv, RequestEventlog
  PROVE  SessionIInv'
<1> DEFINE m == Msg("logRequest")
<1>1. /\ vst = "decision" /\ UNCHANGED <<down, rec, agreed>> /\ PhoneOnly
      /\ phone' = [phone EXCEPT !.asked = TRUE]
      /\ m.type = "logRequest" /\ m.type # "-" /\ VSends(m, "decision")
  BY DEF RequestEventlog, Msg
<1>2. SessionTypeOK /\ DOMAIN phone = PhoneFields /\ VerdictInv
  BY <1>1, PhoneIs
<1> HIDE DEF m
<1>3. PhoneSent("logRequest") /\ vst' = "decision"
  BY <1>1, <1>2, VSendsIs
<1>4. PhoneTook("-") /\ <<vst, "-", "logRequest", vst'>> \in PhoneSteps
  BY <1>1, <1>3 DEF PhoneTook, PhoneSteps
<1>5. rec \in Records
  BY <1>1, <1>2 DEF VerdictInv, InTransfer
<1>6. Onward(vst, vst')
  BY <1>1, <1>3 DEF Onward
<1>7. SamePhone
  BY <1>1, <1>2 DEF SamePhone, PhoneFields
<1> QED
  BY <1>1, <1>3, <1>4, <1>5, <1>6, <1>7, PhoneGoesOn

LEMMA HandleEventlogChunkKeeps ==
  ASSUME SessionIInv, HandleEventlogChunk
  PROVE  SessionIInv'
<1>1. /\ vst \in InTransfer /\ VReceives("chunk") /\ UNCHANGED <<up, vst, rec, agreed>> /\ PhoneOnly
      /\ phone' = [phone EXCEPT !.got = phone.got + 1]
  BY DEF HandleEventlogChunk
<1>2. DOMAIN phone = PhoneFields /\ VerdictInv
  BY <1>1, PhoneIs
<1>3. PhoneTook("chunk") /\ PhoneSent("-") /\ <<vst, "chunk", "-", vst'>> \in PhoneSteps
  BY <1>1 DEF PhoneTook, PhoneSent, PhoneSteps, InTransfer
<1>4. rec \in Records
  BY <1>1, <1>2 DEF VerdictInv
<1>5. Onward(vst, vst')
  BY <1>1 DEF Onward
<1>6. SamePhone
  BY <1>1, <1>2 DEF SamePhone, PhoneFields
<1> QED
  BY <1>1, <1>3, <1>4, <1>5, <1>6, PhoneGoesOn

\* A new verdict, or a new record.
LEMMA VerdictNew ==
  ASSUME VerdictInv, UNCHANGED <<session, mkind, pkind>>, Recs(down') \subseteq Recs(down),
         vst' # "handshake",
         vst' \in Shows => phone'.verdict.val \in Values /\ phone'.verdict.resets \in Nat,
         vst' \in Judged => (phone'.verdict.resets < rec'.resets => phone'.verdict.state = "failed"),
         vst' \in InTransfer => phone'.keep = ToKeep /\ phone'.keyboard \in BOOLEAN,
         vst' \in Checking => rec' \in Records,
         rec'.key <= session, Running(vst') => rec'.key < session
  PROVE  VerdictInv'
<1>1. ToKeep' = ToKeep
  BY DEF ToKeep
<1>2. /\ \A m \in Recs(down') : m.type \in {"offer", "evidence"} => m.val \in Values /\ m.resets \in Nat
      /\ \A m \in Recs(down') : m.type = "evidence" => m.keep = ToKeep /\ m.keyboard \in BOOLEAN
  BY DEF VerdictInv
<1> QED
  BY <1>1, <1>2 DEF VerdictInv, Shows, Judged, Checking

\* A step before the receipt is sent that leaves the record alone.
LEMMA PhoneEarly ==
  ASSUME SessionIInv, TalkInv', PhoneOnly, UNCHANGED rec, agreed \subseteq agreed', Running(vst),
         vst \notin Late, vst' \notin {"idle", "releaseAck"}, DOMAIN phone' = PhoneFields,
         phone'.shown = phone.shown, VerdictInv',
         up' \in Seq(Recs(up')), down' \in Seq(Recs(down')), Recs(down') \subseteq Recs(down),
         \A x \in Recs(up') : x \in Recs(up) \/ x.type # "release",
         \A x \in Recs(up') : x \in Recs(up) \/ x.type # "accept"
                              \/ (x.anchor = session /\ <<session, "phone">> \in agreed'),
         vst' \in PhoneConfirmed => vst \in PhoneConfirmed \/ <<session, "phone">> \in agreed'
  PROVE  SessionIInv'
<1>1. /\ SessionTypeOK /\ EnrolInv /\ VerdictInv /\ ReleaseInv
      /\ UNCHANGED <<session, boot, enrolled, mkind, mst, mach, pkind>>
      /\ (rec = NoRecord \/ rec \in Records) /\ (rec.key # 0 => rec.key \in enrolled)
  BY PhoneIs
<1>2. vst # "idle" /\ vst' # "idle" /\ vst' # "releaseAck"
  BY DEF Running
<1>3. SessionTypeOK'
  BY <1>1, <1>2, TypeFrameP
<1>4. EnrolInv'
  BY <1>1, EnrolFrameP
<1>5. ReleaseInv'
  BY <1>1, <1>2, ReleaseFrameP
<1> QED
  BY <1>3, <1>4, <1>5 DEF SessionIInv

LEMMA HandleEnrolKeeps ==
  ASSUME SessionIInv, HandleEnrol
  PROVE  SessionIInv'
<1>1. UNCHANGED <<rec, agreed>> /\ PhoneOnly
  BY DEF HandleEnrol
<1>2. SessionTypeOK /\ TalkInv /\ DOMAIN phone = PhoneFields /\ VerdictInv
      /\ UNCHANGED <<session, mkind, mst, pkind>>
  BY <1>1, PhoneIs
<1>3. CASE /\ vst = "sasCommit" /\ VReceives("sasCommit") /\ VSends(Msg("sasNonce"), "sasReveal")
           /\ phone' = [phone EXCEPT !.got = Head(down).nonceM]
  <2> DEFINE m == Msg("sasNonce")
  <2>1. m.type = "sasNonce" /\ m.type # "-" /\ VSends(m, "sasReveal")
    BY <1>3 DEF Msg
  <2> HIDE DEF m
  <2>2. PhoneSent("sasNonce") /\ vst' = "sasReveal"
    BY <1>2, <2>1, VSendsIs
  <2>3. PhoneTook("sasCommit") /\ <<vst, "sasCommit", "sasNonce", vst'>> \in PhoneSteps
    BY <1>3, <2>2 DEF PhoneTook, PhoneSteps
  <2>4. Onward(vst, vst') /\ (vst' \in Checking => rec \in Records)
    BY <1>3, <2>2 DEF Onward, PhoneConfirmed, Shows, Judged, InTransfer, Late, After, Checking
  <2>5. SamePhone
    BY <1>2, <1>3 DEF SamePhone, PhoneFields
  <2> QED
    BY <1>1, <2>2, <2>3, <2>4, <2>5, PhoneGoesOn
<1>4. CASE vst = "sasReveal" /\ VReceives("sasReveal") /\ vst' = "sasUser" /\ UNCHANGED <<up, phone>>
  <2>1. PhoneTook("sasReveal") /\ PhoneSent("-") /\ <<vst, "sasReveal", "-", vst'>> \in PhoneSteps
    BY <1>4 DEF PhoneTook, PhoneSent, PhoneSteps
  <2>2. Onward(vst, vst') /\ (vst' \in Checking => rec \in Records)
    BY <1>4 DEF Onward, PhoneConfirmed, Shows, Judged, InTransfer, Late, After, Checking
  <2>3. SamePhone
    BY <1>2, <1>4 DEF SamePhone
  <2> QED
    BY <1>1, <2>1, <2>2, <2>3, PhoneGoesOn
<1>5. CASE vst = "response" /\ VReceives("response") /\ vst' = "anchorKey" /\ UNCHANGED <<up, phone>>
  <2>1. PhoneTook("response") /\ PhoneSent("-") /\ <<vst, "response", "-", vst'>> \in PhoneSteps
    BY <1>5 DEF PhoneTook, PhoneSent, PhoneSteps
  <2>2. Onward(vst, vst') /\ (vst' \in Checking => rec \in Records)
    BY <1>5 DEF Onward, PhoneConfirmed, Shows, Judged, InTransfer, Late, After, Checking
  <2>3. SamePhone
    BY <1>2, <1>5 DEF SamePhone
  <2> QED
    BY <1>1, <2>1, <2>2, <2>3, PhoneGoesOn
<1>6. CASE /\ vst = "enrolOffer" /\ VReceives("offer")
           /\ VSends([type |-> "challenge", secret |-> session], "response")
           /\ phone' = [phone EXCEPT !.verdict = [state |-> "match", val |-> Head(down).val,
                                                  resets |-> Head(down).resets]]
  <2> DEFINE m == [type |-> "challenge", secret |-> session]
  <2>1. m.type = "challenge" /\ m.type # "-" /\ VSends(m, "response")
    BY <1>6
  <2> HIDE DEF m
  <2>2. /\ PhoneSent("challenge") /\ vst' = "response"
        /\ up' \in Seq(Recs(up')) /\ Recs(up') \subseteq Recs(up) \union {m}
    BY <1>2, <2>1, VSendsIs
  <2>3. PhoneTook("offer") /\ <<vst, "offer", "challenge", vst'>> \in PhoneSteps
    BY <1>6, <2>2 DEF PhoneTook, PhoneSteps
  <2>4. TalkInv'
    BY <1>2, <2>2, <2>3, PhoneGoes
  <2>5. /\ down' \in Seq(Recs(down')) /\ Recs(down') \subseteq Recs(down)
        /\ Head(down) \in Recs(down) /\ Head(down).type = "offer"
    BY <1>2, <2>3, PhoneTakes
  <2>6. Running(vst) /\ vst \notin Late /\ vst \in PhoneConfirmed
        /\ vst' \notin Judged /\ vst' \notin InTransfer /\ vst' \notin Checking
        /\ vst' \notin {"idle", "releaseAck", "handshake"}
    BY <1>6, <2>2 DEF Running, Late, PhoneConfirmed, Judged, InTransfer, Checking
  <2>7. /\ DOMAIN phone' = PhoneFields /\ phone'.shown = phone.shown
        /\ phone'.verdict.val = Head(down).val /\ phone'.verdict.resets = Head(down).resets
    BY <1>2, <1>6 DEF PhoneFields
  <2>8. /\ phone'.verdict.val \in Values /\ phone'.verdict.resets \in Nat
        /\ rec'.key <= session /\ rec'.key < session
    BY <1>1, <1>2, <2>5, <2>6, <2>7 DEF VerdictInv
  <2>9. VerdictInv'
    BY <1>2, <2>5, <2>6, <2>8, VerdictNew
  <2>10. \A x \in Recs(up') : x \in Recs(up) \/ x.type \notin {"release", "accept"}
    BY <2>1, <2>2
  <2> QED
    BY <1>1, <2>2, <2>4, <2>5, <2>6, <2>7, <2>9, <2>10, PhoneEarly
<1> QED
  BY <1>3, <1>4, <1>5, <1>6 DEF HandleEnrol

LEMMA ConfirmSASKeeps ==
  ASSUME SessionIInv, NEW match \in BOOLEAN, ConfirmSAS(match)
  PROVE  SessionIInv'
<1>1. vst = "sasUser" /\ UNCHANGED down /\ PhoneOnly /\ Running(vst)
  BY DEF ConfirmSAS, Running
<1>2. SessionTypeOK /\ TalkInv /\ DOMAIN phone = PhoneFields /\ VerdictInv
      /\ UNCHANGED <<session, mkind, mst, pkind>>
  BY <1>1, PhoneIs
<1>3. CASE ~match
  <2>1. VFails("refused") /\ UNCHANGED agreed
    BY <1>3 DEF ConfirmSAS
  <2> QED
    BY <1>1, <2>1, VFailsKeeps
<1>4. CASE match
  <2> DEFINE m == Msg("sasConfirm")
  <2>1. /\ m.type = "sasConfirm" /\ m.type # "-" /\ VSends(m, "enrolOffer") /\ UNCHANGED <<phone, rec>>
        /\ agreed' = agreed \union {<<session, "phone">>}
    BY <1>4 DEF ConfirmSAS, Msg
  <2> HIDE DEF m
  <2>2. /\ PhoneSent("sasConfirm") /\ vst' = "enrolOffer"
        /\ up' \in Seq(Recs(up')) /\ Recs(up') \subseteq Recs(up) \union {m}
    BY <1>2, <2>1, VSendsIs
  <2>3. PhoneTook("-") /\ <<vst, "-", "sasConfirm", vst'>> \in PhoneSteps
    BY <1>1, <2>2 DEF PhoneTook, PhoneSteps
  <2>4. TalkInv'
    BY <1>2, <2>2, <2>3, PhoneGoes
  <2>5. down' \in Seq(Recs(down')) /\ Recs(down') \subseteq Recs(down)
    BY <1>2, <2>3, PhoneTakes
  <2>6. vst \notin Late /\ vst' \notin Shows /\ vst' \notin Judged /\ vst' \notin InTransfer
        /\ vst' \notin Checking /\ vst' \notin {"idle", "releaseAck", "handshake"}
    BY <1>1, <2>2 DEF Running, Late, Shows, Judged, InTransfer, Checking
  <2>7. VerdictInv'
    BY <1>1, <1>2, <2>1, <2>5, <2>6, VerdictFrameP
  <2>8. \A x \in Recs(up') : x \in Recs(up) \/ x.type \notin {"release", "accept"}
    BY <2>1, <2>2
  <2>9. <<session, "phone">> \in agreed' /\ agreed \subseteq agreed' /\ DOMAIN phone' = PhoneFields
    BY <1>2, <2>1
  <2> QED
    BY <1>1, <2>1, <2>2, <2>4, <2>5, <2>6, <2>7, <2>8, <2>9, PhoneEarly
<1> QED
  BY <1>3, <1>4

LEMMA ProvideAcceptSignatureKeeps ==
  ASSUME SessionIInv, NEW right, ProvideAcceptSignature(right)
  PROVE  SessionIInv'
<1> DEFINE m == [type |-> "accept", anchor |-> session]
<1>1. /\ vst = "anchorSig" /\ UNCHANGED <<down, phone, rec, agreed>> /\ PhoneOnly /\ Running(vst)
      /\ m.type = "accept" /\ m.type # "-" /\ m.anchor = session /\ VSends(m, "enrolConfirm")
  BY DEF ProvideAcceptSignature, Running
<1> HIDE DEF m
<1>2. SessionTypeOK /\ TalkInv /\ DOMAIN phone = PhoneFields /\ VerdictInv /\ EnrolInv
      /\ UNCHANGED <<session, mkind, mst, pkind>>
  BY <1>1, PhoneIs
<1>3. /\ PhoneSent("accept") /\ vst' = "enrolConfirm"
      /\ up' \in Seq(Recs(up')) /\ Recs(up') \subseteq Recs(up) \union {m}
  BY <1>1, <1>2, VSendsIs
<1>4. PhoneTook("-") /\ <<vst, "-", "accept", vst'>> \in PhoneSteps
  BY <1>1, <1>3 DEF PhoneTook, PhoneSteps
<1>5. TalkInv'
  BY <1>2, <1>3, <1>4, PhoneGoes
<1>6. down' \in Seq(Recs(down')) /\ Recs(down') \subseteq Recs(down)
  BY <1>2, <1>4, PhoneTakes
<1>7. vst \notin Late /\ vst \in Shows /\ vst' \notin Judged /\ vst' \notin InTransfer
      /\ vst' \notin Checking /\ vst' \notin {"idle", "releaseAck", "handshake"}
  BY <1>1, <1>3 DEF Running, Late, Shows, Judged, InTransfer, Checking
<1>8. VerdictInv'
  BY <1>1, <1>2, <1>6, <1>7, VerdictFrameP
<1>9. <<session, "phone">> \in agreed' /\ agreed \subseteq agreed'
  BY <1>1, <1>2 DEF EnrolInv
<1>10. /\ \A x \in Recs(up') : x \in Recs(up) \/ x.type # "release"
       /\ \A x \in Recs(up') : x \in Recs(up) \/ x.anchor = session
  BY <1>1, <1>3
<1>11. DOMAIN phone' = PhoneFields /\ phone'.shown = phone.shown
  BY <1>1, <1>2
<1> QED
  BY <1>1, <1>3, <1>5, <1>6, <1>7, <1>8, <1>9, <1>10, <1>11, PhoneEarly

\* A quote that shows a lower count of resets than the record's is no match.
LEMMA VerifyNotes ==
  ASSUME NEW ev
  PROVE  /\ Verify(ev).val = ev.val /\ Verify(ev).resets = ev.resets
         /\ ev.resets < rec.resets => Verify(ev).state = "failed"
  BY DEF Verify

LEMMA HandleEvidenceKeeps ==
  ASSUME SessionIInv, HandleEvidence
  PROVE  SessionIInv'
<1> DEFINE ev == Head(down)
           v == Verify(ev)
<1>1. /\ vst = "evidence" /\ VReceives("evidence") /\ vst' = "decision" /\ UNCHANGED <<up, rec, agreed>>
      /\ PhoneOnly /\ Running(vst)
      /\ phone' = [phone EXCEPT !.verdict = v, !.log = ev.log, !.keep = ev.keep,
                                !.keyboard = ev.keyboard]
  BY DEF HandleEvidence, Running
<1>2. v.val = ev.val /\ v.resets = ev.resets /\ (ev.resets < rec.resets => v.state = "failed")
  BY VerifyNotes
<1> HIDE DEF v
<1>3. SessionTypeOK /\ TalkInv /\ DOMAIN phone = PhoneFields /\ VerdictInv
      /\ UNCHANGED <<session, mkind, mst, pkind>>
  BY <1>1, PhoneIs
<1>4. PhoneTook("evidence") /\ PhoneSent("-") /\ <<vst, "evidence", "-", vst'>> \in PhoneSteps
  BY <1>1 DEF PhoneTook, PhoneSent, PhoneSteps
<1>5. TalkInv'
  BY <1>3, <1>4, PhoneGoes
<1>6. /\ down' \in Seq(Recs(down')) /\ Recs(down') \subseteq Recs(down)
      /\ ev \in Recs(down) /\ ev.type = "evidence" /\ up' \in Seq(Recs(up'))
  BY <1>1, <1>3, <1>4, PhoneTakes DEF SessionTypeOK
<1>7. ev.val \in Values /\ ev.resets \in Nat /\ ev.keep = ToKeep /\ ev.keyboard \in BOOLEAN
  BY <1>3, <1>6 DEF VerdictInv
<1>8. rec \in Records /\ rec.key <= session /\ rec.key < session
  BY <1>1, <1>3 DEF VerdictInv
<1> HIDE DEF ev
<1>9. /\ DOMAIN phone' = PhoneFields /\ phone'.shown = phone.shown /\ phone'.verdict = v
      /\ phone'.keep = ev.keep /\ phone'.keyboard = ev.keyboard
  BY <1>1, <1>3 DEF PhoneFields
<1>10. vst \notin Late /\ vst' \notin PhoneConfirmed /\ vst' \notin {"idle", "releaseAck", "handshake"}
  BY <1>1 DEF Late, PhoneConfirmed
<1>11. /\ phone'.verdict.val \in Values /\ phone'.verdict.resets \in Nat
       /\ phone'.verdict.resets < rec'.resets => phone'.verdict.state = "failed"
  BY <1>1, <1>2, <1>7, <1>9
<1>12. /\ phone'.keep = ToKeep /\ phone'.keyboard \in BOOLEAN /\ rec' \in Records
       /\ rec'.key <= session /\ rec'.key < session
  BY <1>1, <1>7, <1>8, <1>9
<1>13. VerdictInv'
  BY <1>3, <1>6, <1>10, <1>11, <1>12, VerdictNew
<1> QED
  BY <1>1, <1>5, <1>6, <1>9, <1>10, <1>13, PhoneEarly

\* The person decides, and the receipt is signed.
LEMMA ReceiptGoes ==
  ASSUME SessionIInv, PhoneOnly, UNCHANGED <<down, rec, agreed>>,
         DOMAIN phone' = PhoneFields, phone'.verdict = phone.verdict, phone'.keep = phone.keep,
         phone'.keyboard = phone.keyboard, phone'.shown = phone.shown,
         vst \in {"decision", "receiptSig"},
         \/ vst = "decision" /\ vst' = "receiptSig" /\ UNCHANGED up
         \/ \E v, signed : VSends(Receipt(v, signed), "receiptAck")
  PROVE  SessionIInv'
<1>1. SessionTypeOK /\ TalkInv /\ VerdictInv /\ UNCHANGED <<session, mkind, mst, pkind>>
  BY PhoneIs
<1>2. PICK u \in {"-", "receipt"} :
        /\ PhoneSent(u) /\ up' \in Seq(Recs(up')) /\ \A x \in Recs(up') : x \in Recs(up) \/ x.type = "receipt"
        /\ vst' = (IF u = "-" THEN "receiptSig" ELSE "receiptAck") /\ (u = "-" => vst = "decision")
  <2>1. CASE vst = "decision" /\ vst' = "receiptSig" /\ UNCHANGED up
    <3>1. PhoneSent("-") /\ up' \in Seq(Recs(up')) /\ Recs(up') = Recs(up)
      BY <1>1, <2>1 DEF PhoneSent, SessionTypeOK
    <3> QED
      BY <2>1, <3>1
  <2>2. ASSUME NEW v, NEW signed, VSends(Receipt(v, signed), "receiptAck")
        PROVE  /\ PhoneSent("receipt") /\ up' \in Seq(Recs(up')) /\ vst' = "receiptAck"
               /\ \A x \in Recs(up') : x \in Recs(up) \/ x.type = "receipt"
    <3> DEFINE m == Receipt(v, signed)
    <3>1. m.type = "receipt" /\ m.type # "-" /\ VSends(m, "receiptAck")
      BY <2>2 DEF Receipt
    <3> HIDE DEF m
    <3> QED
      BY <1>1, <3>1, VSendsIs
  <2> QED
    BY <2>1, <2>2
<1>3. PhoneTook("-") /\ <<vst, "-", u, vst'>> \in PhoneSteps
  BY <1>2 DEF PhoneTook, PhoneSteps
<1>4. TalkInv'
  BY <1>1, <1>2, <1>3, PhoneGoes
<1>5. down' \in Seq(Recs(down')) /\ Recs(down') \subseteq Recs(down)
  BY <1>1, <1>3, PhoneTakes
<1>6. /\ vst \notin Late /\ vst \in Shows /\ vst \in Judged /\ vst \in InTransfer /\ Running(vst)
      /\ vst' \notin {"idle", "releaseAck", "handshake"} /\ vst' \notin PhoneConfirmed
  BY <1>2 DEF Running, Late, Shows, Judged, InTransfer, PhoneConfirmed
<1>7. rec \in Records
  BY <1>1, <1>6 DEF VerdictInv
<1>8. VerdictInv'
  BY <1>1, <1>5, <1>6, <1>7, VerdictFrameP
<1>9. \A x \in Recs(up') : x \in Recs(up) \/ x.type \notin {"release", "accept"}
  BY <1>2
<1> QED
  BY <1>2, <1>4, <1>5, <1>6, <1>8, <1>9, PhoneEarly

LEMMA DecideKeeps ==
  ASSUME SessionIInv, NEW d, NEW named, Decide(d, named)
  PROVE  SessionIInv'
<1>1. vst = "decision" /\ UNCHANGED <<down, rec, agreed>> /\ PhoneOnly
  BY DEF Decide
<1>2. DOMAIN phone = PhoneFields
  BY <1>1, PhoneIs
<1>3. /\ \/ VSends(Receipt("reject", 0), "receiptAck")
         \/ vst' = "receiptSig" /\ UNCHANGED up
      /\ \/ \E x : phone' = [phone EXCEPT !.receipt = x]
         \/ \E x, y : phone' = [phone EXCEPT !.receipt = x, !.remember = y]
  BY DEF Decide
<1>4. /\ DOMAIN phone' = PhoneFields /\ phone'.verdict = phone.verdict /\ phone'.keep = phone.keep
      /\ phone'.keyboard = phone.keyboard /\ phone'.shown = phone.shown
  BY <1>2, <1>3 DEF PhoneFields
<1> QED
  BY <1>1, <1>3, <1>4, ReceiptGoes

LEMMA ProvideReceiptSignatureKeeps ==
  ASSUME SessionIInv, NEW right, ProvideReceiptSignature(right)
  PROVE  SessionIInv'
<1>1. /\ vst = "receiptSig" /\ UNCHANGED <<down, phone, rec, agreed>> /\ PhoneOnly
      /\ VSends(Receipt(phone.receipt, rec.key), "receiptAck")
  BY DEF ProvideReceiptSignature
<1>2. DOMAIN phone' = PhoneFields
  BY <1>1, PhoneIs
<1> QED
  BY <1>1, <1>2, ReceiptGoes

\* The phone keeps the machine that has stored it.
LEMMA HandleConfirmKeeps ==
  ASSUME SessionIInv, HandleConfirm
  PROVE  SessionIInv'
<1> DEFINE m == Msg("bye")
<1>1. /\ vst = "enrolConfirm" /\ VReceives("confirm") /\ Head(down).anchor = session
      /\ rec' = RecordAtConfirm(session) /\ UNCHANGED <<phone, agreed>> /\ PhoneOnly
      /\ m.type = "bye" /\ m.type # "-" /\ VSends(m, "done")
  BY DEF HandleConfirm, Msg
<1> HIDE DEF m
<1>2. /\ SessionTypeOK /\ TalkInv /\ EnrolInv /\ VerdictInv /\ ReleaseInv /\ DOMAIN phone = PhoneFields
      /\ UNCHANGED <<session, boot, enrolled, mkind, mst, mach, pkind>>
  BY <1>1, PhoneIs
<1>3. /\ PhoneSent("bye") /\ vst' = "done"
      /\ up' \in Seq(Recs(up')) /\ Recs(up') \subseteq Recs(up) \union {m}
  BY <1>1, <1>2, VSendsIs
<1>4. PhoneTook("confirm") /\ <<vst, "confirm", "bye", vst'>> \in PhoneSteps
  BY <1>1, <1>3 DEF PhoneTook, PhoneSteps
<1>5. TalkInv'
  BY <1>2, <1>3, <1>4, PhoneGoes
<1>6. /\ down' \in Seq(Recs(down')) /\ Recs(down') \subseteq Recs(down)
      /\ Head(down) \in Recs(down) /\ Head(down).type = "confirm"
  BY <1>2, <1>4, PhoneTakes
<1>7. session \in enrolled
  BY <1>1, <1>2, <1>6 DEF EnrolInv
<1>8. phone.verdict.val \in Values /\ phone.verdict.resets \in Nat /\ session \in Nat \ {0}
  BY <1>1, <1>2 DEF VerdictInv, SessionTypeOK
<1>9. RecordAtConfirm(session) \in Records /\ RecordAtConfirm(session).key = session
  BY <1>8 DEF RecordAtConfirm, Records
<1>10. /\ vst \notin Late /\ ~Running(vst') /\ vst' \notin PhoneConfirmed /\ vst' \notin Shows
       /\ vst' \notin Judged /\ vst' \notin InTransfer /\ vst' \notin Checking
       /\ vst' # "handshake" /\ vst' # "releaseAck" /\ vst # "idle" /\ vst' # "idle"
  BY <1>1, <1>3 DEF Late, Running, PhoneConfirmed, Shows, Judged, InTransfer, Checking
<1>11. SessionTypeOK'
  BY <1>1, <1>2, <1>3, <1>6, <1>9, <1>10, TypeFrameP
<1>12. VerdictInv'
  <2>1. rec'.key <= session
    BY <1>1, <1>8, <1>9
  <2> QED
    BY <1>2, <1>6, <1>10, <2>1, VerdictNew
<1>13. \A x \in Recs(up') : x \in Recs(up) \/ x.type \notin {"accept", "release"}
  BY <1>1, <1>3
<1>14. EnrolInv'
  BY <1>1, <1>2, <1>6, <1>7, <1>9, <1>10, <1>13, EnrolFrameP
<1>15. ReleaseInv'
  BY <1>1, <1>2, <1>6, <1>10, <1>13, ReleaseFrameP
<1> QED
  BY <1>5, <1>11, <1>12, <1>14, <1>15 DEF SessionIInv

Updated(r, a, b, c, o, p) ==
  [r EXCEPT !.resets = a, !.salt = b, !.keyboard = c, !.once = o, !.profiles = p]

\* The types of fields by a name, which keeps the provers from taking them apart.
Bools == BOOLEAN
Sets == SUBSET Values

\* An update keeps a record a record, and its key.
UpdatedWell(r, a, b, c, o, p) ==
  /\ Updated(r, a, b, c, o, p) \in Records
  /\ Updated(r, a, b, c, o, p).key = r.key
  /\ Updated(r, a, b, c, o, p).resets = a

LEMMA RecordUpdated ==
  \A r \in Records, a \in Nat, b \in Nat, c \in Bools, o \in Sets, p \in Sets :
    UpdatedWell(r, a, b, c, o, p)
<1> SUFFICES ASSUME NEW r \in Records, NEW a \in Nat, NEW b \in Nat, NEW c \in Bools,
                    NEW o \in Sets, NEW p \in Sets
             PROVE  UpdatedWell(r, a, b, c, o, p)
  OBVIOUS
<1> QED
  BY DEF Records, Updated, UpdatedWell, Bools, Sets

LEMMA UpdateRecordIs ==
  ASSUME rec \in Records, phone.verdict.val \in Values, phone.verdict.resets \in Nat,
         session \in Nat, phone.keep = ToKeep, phone.keyboard \in BOOLEAN
  PROVE  /\ UpdateRecord \in Records /\ UpdateRecord.key = rec.key
         /\ UpdateRecord.resets = ResetsAfter(rec, phone.verdict)
<1> DEFINE v == phone.verdict
           a == ResetsAfter(rec, v)
           b == IF phone.keep # 0 THEN phone.keep ELSE rec.salt
           c == IF phone.keep # 0 THEN phone.keyboard ELSE rec.keyboard
           o == IF v.profile = "once" THEN rec.once \ {v.val} ELSE rec.once
           p == IF phone.remember /\ v.values THEN rec.profiles \union {v.val} ELSE rec.profiles
<1>1. rec.resets \in Nat /\ rec.salt \in Nat /\ rec.once \in SUBSET Values /\ rec.profiles \in SUBSET Values
  BY DEF Records
<1>2. rec.keyboard \in BOOLEAN
  BY DEF Records
<1>3. a \in Nat
  BY <1>1 DEF ResetsAfter
<1>4. b \in Nat
  BY <1>1 DEF ToKeep
<1>5. c \in Bools
  BY <1>2 DEF Bools
<1>6. o \in Sets /\ p \in Sets
  BY <1>1 DEF Sets
<1>7. UpdateRecord = Updated(rec, a, b, c, o, p)
  BY DEF UpdateRecord, Updated
<1> HIDE DEF v, a, b, c, o, p
<1>8. UpdatedWell(rec, a, b, c, o, p)
  <2>1. rec \in Records
    OBVIOUS
  <2> QED
    BY ONLY <1>3, <1>4, <1>5, <1>6, <2>1, RecordUpdated, Zenon
<1>9. /\ UpdateRecord \in Records /\ UpdateRecord.key = rec.key /\ UpdateRecord.resets = a
  BY ONLY <1>7, <1>8 DEF UpdatedWell
<1> QED
  BY <1>9 DEF a, v

\* Before the release nothing of one is under way, on either side.
LEMMA NoReleaseYet ==
  ASSUME SessionTypeOK, TalkInv, ReleaseInv, vst = "receiptAck"
  PROVE  /\ phone.shown = 0 /\ ~(mach.taken # 0 \/ mach.returned)
         /\ \A x \in Recs(up) : x.type # "release"
         /\ \A x \in Recs(down) : x.type # "releaseAck"
<1>1. "release" \notin Types(up)
  BY DEF TalkInv, Answers
<1>2. "releaseAck" \notin Types(down)
  BY AwaitedIs DEF TalkInv, DownFits, Running
<1>3. phone.shown = 0 /\ ~(mach.taken # 0 \/ mach.returned)
  BY DEF ReleaseInv
<1> QED
  BY <1>1, <1>2, <1>3, TypeOfRec

\* The answer to the receipt: the record is updated, and the release sent.
LEMMA HandleReceiptAckKeeps ==
  ASSUME SessionIInv, HandleReceiptAck
  PROVE  SessionIInv'
<1>1. vst = "receiptAck" /\ VReceives("receiptAck") /\ UNCHANGED agreed /\ PhoneOnly
  BY DEF HandleReceiptAck
<1>2. /\ SessionTypeOK /\ TalkInv /\ EnrolInv /\ VerdictInv /\ ReleaseInv /\ DOMAIN phone = PhoneFields
      /\ UNCHANGED <<session, boot, enrolled, mkind, mst, mach, pkind>>
      /\ (rec.key # 0 => rec.key \in enrolled)
  BY <1>1, PhoneIs
<1>3. /\ phone.verdict.val \in Values /\ phone.verdict.resets \in Nat /\ phone.keep = ToKeep
      /\ rec \in Records /\ rec.key <= session /\ rec.key < session /\ session \in Nat
  BY <1>1, <1>2 DEF VerdictInv, SessionTypeOK, InTransfer, Running
<1>4. phone.keyboard \in BOOLEAN
  BY <1>1, <1>2 DEF VerdictInv, InTransfer
<1>5. UpdateRecord \in Records /\ UpdateRecord.key = rec.key
  BY <1>3, <1>4, UpdateRecordIs
<1>6. /\ phone.shown = 0 /\ ~(mach.taken # 0 \/ mach.returned)
      /\ \A x \in Recs(up) : x.type # "release"
      /\ \A x \in Recs(down) : x.type # "releaseAck"
  BY <1>1, <1>2, NoReleaseYet
<1>7. PhoneTook("receiptAck")
  BY <1>1 DEF PhoneTook
<1>8. /\ down' \in Seq(Recs(down')) /\ Recs(down') \subseteq Recs(down)
      /\ Head(down) \in Recs(down) /\ Head(down).type = "receiptAck"
  BY <1>2, <1>7, PhoneTakes
\* What holds of any of the three ways on.
<1>9. ASSUME TalkInv', vst' \in {"releaseAck", "done"}, DOMAIN phone' = PhoneFields,
             rec' \in Records, rec'.key = rec.key, up' \in Seq(Recs(up')),
             phone'.keep = phone.keep, phone'.keyboard = phone.keyboard,
             \A x \in Recs(up') : x \in Recs(up) \/ x.type # "accept", ReleaseInv'
      PROVE  SessionIInv'
  <2>1. /\ vst' \notin PhoneConfirmed /\ vst' \notin Shows /\ vst' \notin Judged /\ vst' # "handshake"
        /\ vst' # "idle" /\ vst # "idle"
    BY <1>1, <1>9 DEF PhoneConfirmed, Shows, Judged
  <2>2. SessionTypeOK'
    BY <1>2, <1>8, <1>9, <2>1, TypeFrameP
  <2>3. phone'.keep = ToKeep /\ phone'.keyboard \in BOOLEAN
    BY <1>3, <1>4, <1>9
  <2>4. rec'.key <= session /\ rec'.key < session
    BY <1>3, <1>9
  <2>5. VerdictInv'
    BY <1>2, <1>8, <1>9, <2>1, <2>3, <2>4, VerdictNew
  <2>6. EnrolInv'
    BY <1>1, <1>2, <1>8, <1>9, <2>1, EnrolFrameP
  <2> QED
    BY <1>9, <2>2, <2>5, <2>6 DEF SessionIInv
<1>10. CASE /\ Head(down).result = "accepted" /\ Trusted(phone.receipt) /\ rec' = UpdateRecord
            /\ VSends(ReleaseMsg(UpdateRecord), "releaseAck")
            /\ phone' = [phone EXCEPT !.layout = ReleaseMsg(UpdateRecord).seed]
  <2> DEFINE m == ReleaseMsg(UpdateRecord)
  <2>1. m.type = "release" /\ m.type # "-" /\ m.salt = UpdateRecord.salt /\ VSends(m, "releaseAck")
        /\ phone' = [phone EXCEPT !.layout = m.seed]
    BY <1>10 DEF ReleaseMsg
  <2> HIDE DEF m
  <2>2. /\ PhoneSent("release") /\ vst' = "releaseAck"
        /\ up' \in Seq(Recs(up')) /\ Recs(up') \subseteq Recs(up) \union {m}
    BY <1>2, <2>1, VSendsIs
  <2>3. <<vst, "receiptAck", "release", vst'>> \in PhoneSteps
    BY <1>1, <2>2 DEF PhoneSteps
  <2>4. TalkInv'
    BY <1>2, <1>7, <2>2, <2>3, PhoneGoes
  <2>5. /\ DOMAIN phone' = PhoneFields /\ phone'.shown = phone.shown /\ phone'.receipt = phone.receipt
        /\ phone'.layout = m.seed /\ phone'.keep = phone.keep /\ phone'.keyboard = phone.keyboard
    BY <1>2, <2>1 DEF PhoneFields
  <2>6. mach.answer = "accepted"
    BY <1>2, <1>8, <1>10 DEF ReleaseInv
  <2>7. "receipt" \notin Types(up')
    <3>1. "receipt" \notin Types(up)
      BY <1>2, <2>6 DEF ReleaseInv
    <3> QED
      BY <2>1, <2>2, <3>1 DEF Types
  <2>8. \A x \in Recs(up') : x.type = "release" => x = m
    BY <1>6, <2>2
  <2>9. \A x \in Recs(down') : x.type # "releaseAck"
    BY <1>6, <1>8
  <2>10. ReleaseInv'
    BY <1>2, <1>6, <1>10, <2>1, <2>2, <2>5, <2>6, <2>7, <2>8, <2>9 DEF ReleaseInv
  <2>11. \A x \in Recs(up') : x \in Recs(up) \/ x.type # "accept"
    BY <2>1, <2>2
  <2>12. rec' \in Records /\ rec'.key = rec.key /\ vst' \in {"releaseAck", "done"}
    BY <1>5, <1>10, <2>2
  <2> QED
    BY <1>9, <2>2, <2>4, <2>5, <2>10, <2>11, <2>12
<1>11. CASE VSends(Msg("bye"), "done") /\ rec' \in {rec, UpdateRecord} /\ UNCHANGED phone
  <2> DEFINE m == Msg("bye")
  <2>1. m.type = "bye" /\ m.type # "-" /\ VSends(m, "done")
    BY <1>11 DEF Msg
  <2> HIDE DEF m
  <2>2. /\ PhoneSent("bye") /\ vst' = "done"
        /\ up' \in Seq(Recs(up')) /\ Recs(up') \subseteq Recs(up) \union {m}
    BY <1>2, <2>1, VSendsIs
  <2>3. <<vst, "receiptAck", "bye", vst'>> \in PhoneSteps
    BY <1>1, <2>2 DEF PhoneSteps
  <2>4. TalkInv'
    BY <1>2, <1>7, <2>2, <2>3, PhoneGoes
  <2>5. "receipt" \in Types(up') => "receipt" \in Types(up)
    BY <2>1, <2>2 DEF Types
  <2>6. \A x \in Recs(up') : x.type # "release" /\ (x \in Recs(up) \/ x.type # "accept")
    BY <1>6, <2>1, <2>2
  <2>7. \A x \in Recs(down') : x.type = "receiptAck" /\ x.result = "accepted" => mach.answer = "accepted"
    BY <1>2, <1>8 DEF ReleaseInv
  <2>8. "receipt" \in Types(up') => mach.answer = "none"
    BY <1>2, <2>5 DEF ReleaseInv
  <2>9. ReleaseInv'
    BY <1>2, <1>6, <1>11, <2>2, <2>6, <2>7, <2>8 DEF ReleaseInv
  <2>10. rec' \in Records /\ rec'.key = rec.key /\ vst' \in {"releaseAck", "done"}
    BY <1>3, <1>5, <1>11, <2>2
  <2> QED
    BY <1>2, <1>9, <1>11, <2>2, <2>4, <2>6, <2>9, <2>10
<1> QED
  BY <1>10, <1>11 DEF HandleReceiptAck, TrustedAck

\* The layout that is shown is of the seed the machine has opened.
LEMMA HandleReleaseAckKeeps ==
  ASSUME SessionIInv, HandleReleaseAck
  PROVE  SessionIInv'
<1> DEFINE m == Msg("bye")
           s == Shown(Head(down).status)
<1>1. /\ vst = "releaseAck" /\ VReceives("releaseAck") /\ UNCHANGED <<rec, agreed>> /\ PhoneOnly
      /\ phone' = [phone EXCEPT !.shown = s, !.layout = 0]
      /\ m.type = "bye" /\ m.type # "-" /\ VSends(m, "done")
  BY DEF HandleReleaseAck, Msg
<1>2. /\ SessionTypeOK /\ TalkInv /\ EnrolInv /\ VerdictInv /\ ReleaseInv /\ DOMAIN phone = PhoneFields
      /\ UNCHANGED <<session, boot, enrolled, mkind, mst, mach, pkind>>
      /\ (rec = NoRecord \/ rec \in Records) /\ (rec.key # 0 => rec.key \in enrolled)
  BY <1>1, PhoneIs
<1>3. PhoneTook("releaseAck")
  BY <1>1 DEF PhoneTook
<1>4. /\ down' \in Seq(Recs(down')) /\ Recs(down') \subseteq Recs(down)
      /\ Head(down) \in Recs(down) /\ Head(down).type = "releaseAck" /\ "releaseAck" \in Types(down)
  BY <1>2, <1>3, PhoneTakes
<1>5. s # 0 => s = mach.seed
  <2>1. session # 0 /\ phone.keep = ToKeep
    BY <1>1, <1>2 DEF SessionTypeOK, VerdictInv, InTransfer
  <2>2. Head(down).status = "ok" => mkind = "keep" \/ mach.seed = phone.layout
    BY <1>1, <1>2, <1>4 DEF ReleaseInv
  <2> QED
    BY <2>1, <2>2 DEF Shown, ToKeep
<1> HIDE DEF m, s
<1>6. /\ PhoneSent("bye") /\ vst' = "done"
      /\ up' \in Seq(Recs(up')) /\ Recs(up') \subseteq Recs(up) \union {m}
  BY <1>1, <1>2, VSendsIs
<1>7. <<vst, "releaseAck", "bye", vst'>> \in PhoneSteps
  BY <1>1, <1>6 DEF PhoneSteps
<1>8. TalkInv'
  BY <1>2, <1>3, <1>6, <1>7, PhoneGoes
<1>9. /\ DOMAIN phone' = PhoneFields /\ phone'.shown = s /\ phone'.receipt = phone.receipt
  BY <1>1, <1>2 DEF PhoneFields
<1>10. /\ vst' \notin PhoneConfirmed /\ vst' \notin Shows /\ vst' \notin Judged /\ vst' \notin InTransfer
       /\ vst' \notin Checking /\ ~Running(vst') /\ vst' # "handshake" /\ vst # "idle" /\ vst' # "idle"
  BY <1>1, <1>6 DEF PhoneConfirmed, Shows, Judged, InTransfer, Checking, Running
<1>11. SessionTypeOK'
  BY <1>1, <1>2, <1>4, <1>6, <1>9, <1>10, TypeFrameP
<1>12. VerdictInv'
  <2>1. rec'.key <= session
    BY <1>1, <1>2 DEF VerdictInv
  <2> QED
    BY <1>2, <1>4, <1>10, <2>1, VerdictNew
<1>13. \A x \in Recs(up) : x.type # "release"
  <2>1. "release" \notin Types(up)
    BY <1>2, <1>4 DEF TalkInv, Answers
  <2> QED
    BY <2>1, TypeOfRec
<1>14. /\ \A x \in Recs(up') : x.type # "release" /\ (x \in Recs(up) \/ x.type # "accept")
       /\ "receipt" \in Types(up') => "receipt" \in Types(up)
  BY <1>1, <1>6, <1>13 DEF Types
<1>15. EnrolInv'
  BY <1>1, <1>2, <1>4, <1>10, <1>14, EnrolFrameP
<1>16. ReleaseInv'
  <2>1. \A x \in Recs(down') : x.type = "receiptAck" /\ x.result = "accepted" => mach.answer = "accepted"
    BY <1>2, <1>4 DEF ReleaseInv
  <2>2. /\ "receipt" \in Types(up') => mach.answer = "none"
        /\ mach.returned => mkind = "keep"
        /\ mach.taken # 0 \/ mach.returned =>
             /\ mach.answer = "accepted" /\ Trusted(phone.receipt)
             /\ rec.salt = IF mach.returned THEN session ELSE mach.taken
    BY <1>2, <1>14 DEF ReleaseInv
  <2> QED
    BY <1>1, <1>2, <1>5, <1>6, <1>9, <1>14, <2>1, <2>2 DEF ReleaseInv
<1> QED
  BY <1>8, <1>11, <1>12, <1>15, <1>16 DEF SessionIInv

----------------------------------------------------------------------------
(* Around a session. *)

LEMMA ConnectKeeps ==
  ASSUME SessionIInv, NEW mk, NEW pk \in {"enrol", "attest"}, Connect(mk, pk)
  PROVE  SessionIInv'
<1> DEFINE m == IF pk = "enrol" THEN Msg("XX") ELSE [type |-> "IK", key |-> rec.key]
<1>1. /\ session' = session + 1 /\ UNCHANGED <<boot, enrolled, rec, agreed>>
      /\ mst' = "hs1" /\ mach' = NoMach /\ pkind' = pk /\ vst' = "handshake" /\ phone' = NoPhone
      /\ down' = <<>> /\ (pk = "attest" => rec # NoRecord) /\ up' = <<m>>
  BY DEF Connect
<1>2. /\ m.type = IF pkind' = "enrol" THEN "XX" ELSE "IK"
      /\ m.type \notin {"accept", "receipt", "release"}
  BY <1>1 DEF Msg
<1> HIDE DEF m
<1>3. TalkInv' /\ up' \in Seq(Recs(up')) /\ down' \in Seq(Recs(down')) /\ Recs(up') = {m}
  BY <1>1, <1>2, TalkBegins
<1>4. Recs(down') = {} /\ Types(up') = {m.type} /\ Types(down') = {}
  BY <1>1, <1>3, NoRecs DEF Types
<1>5. SessionTypeOK /\ EnrolInv /\ VerdictInv
  BY DEF SessionIInv
<1>6. DOMAIN mach' = MachFields /\ DOMAIN phone' = PhoneFields
  BY <1>1 DEF NoMach, NoPhone, MachFields, PhoneFields
<1>7. SessionTypeOK'
  BY <1>1, <1>3, <1>5, <1>6 DEF SessionTypeOK
<1>8. EnrolInv'
  BY <1>1, <1>2, <1>3, <1>4, <1>5 DEF EnrolInv, EnrolmentAgreed
<1>9. VerdictInv'
  <2>1. rec.key <= session /\ session \in Nat /\ (rec = NoRecord \/ rec \in Records)
    BY <1>5 DEF VerdictInv, SessionTypeOK
  <2>2. rec.key \in Nat
    BY <2>1 DEF NoRecord, Records
  <2>3. rec'.key <= session' /\ rec'.key < session'
    BY <1>1, <2>1, <2>2
  <2> QED
    BY <1>1, <1>4, <2>1, <2>3 DEF VerdictInv, InTransfer
<1>10. ReleaseInv'
  <2>1. mach'.answer = "none" /\ mach'.taken = 0 /\ mach'.returned = FALSE /\ phone'.shown = 0
    BY <1>1 DEF NoMach, NoPhone
  <2> QED
    BY <1>2, <1>3, <1>4, <2>1 DEF ReleaseInv
<1> QED
  BY <1>3, <1>7, <1>8, <1>9, <1>10 DEF SessionIInv

LEMMA BreakKeeps ==
  ASSUME SessionIInv, Break
  PROVE  SessionIInv'
<1>1. /\ UNCHANGED <<session, boot, agreed, enrolled, mkind, mst, mach, pkind, vst, phone, rec>>
      /\ SessionTypeOK /\ TalkInv /\ EnrolInv /\ VerdictInv /\ ReleaseInv
  BY DEF Break, worldVars, machineVars, phoneVars, SessionIInv
<1>2. PICK i \in 0..Len(up), j \in 0..Len(down) : up' = SubSeq(up, 1, i) /\ down' = SubSeq(down, 1, j)
  BY DEF Break
<1>3. TalkInv'
  BY <1>1, <1>2, TalkBreaks
<1>4. /\ up' \in Seq(Recs(up')) /\ Recs(up') \subseteq Recs(up) /\ Types(up') \subseteq Types(up)
      /\ up = <<>> => up' = <<>>
  BY <1>1, <1>2, PrefixRecs DEF SessionTypeOK
<1>5. /\ down' \in Seq(Recs(down')) /\ Recs(down') \subseteq Recs(down)
      /\ down = <<>> => down' = <<>>
  BY <1>1, <1>2, PrefixRecs DEF SessionTypeOK
<1>6. SessionTypeOK'
  BY <1>1, <1>4, <1>5 DEF SessionTypeOK
<1>7. EnrolInv'
  BY <1>1, <1>4, <1>5 DEF EnrolInv, EnrolmentAgreed
<1>8. VerdictInv' /\ ReleaseInv'
  BY <1>1, <1>4, <1>5, NothingSent
<1> QED
  BY <1>3, <1>6, <1>7, <1>8 DEF SessionIInv

LEMMA ThroughKeeps ==
  ASSUME SessionIInv, Through
  PROVE  SessionIInv'
<1>1. /\ up' = <<>> /\ down' = <<>> /\ mst' = "idle" /\ vst' = "idle" /\ mach' = NoMach /\ phone' = NoPhone
      /\ UNCHANGED <<session, boot, enrolled, rec, agreed>>
  BY DEF Through
<1>2. SessionTypeOK /\ EnrolInv /\ VerdictInv
  BY DEF SessionIInv
<1>3. TalkInv'
  BY <1>1, TalkIsOver
<1>4. DOMAIN mach' = MachFields /\ DOMAIN phone' = PhoneFields
  BY <1>1 DEF NoMach, NoPhone, MachFields, PhoneFields
<1>5. SessionTypeOK'
  BY <1>1, <1>2, <1>4, NoRecs DEF SessionTypeOK
<1>6. EnrolInv'
  BY <1>1, <1>2, NoRecs DEF EnrolInv, EnrolmentAgreed
<1>7. VerdictInv'
  BY <1>1, <1>2, NoRecs DEF VerdictInv, InTransfer, Running
<1>8. ReleaseInv'
  <2>1. mach'.answer = "none" /\ mach'.taken = 0 /\ mach'.returned = FALSE /\ phone'.shown = 0
    BY <1>1 DEF NoMach, NoPhone
  <2> QED
    BY <1>1, <2>1, NoRecs DEF ReleaseInv
<1> QED
  BY <1>3, <1>5, <1>6, <1>7, <1>8 DEF SessionIInv

LEMMA RebootKeeps ==
  ASSUME SessionIInv, NEW v \in Values, Reboot(v)
  PROVE  SessionIInv'
<1>1. /\ UNCHANGED <<session, up, down, enrolled, mkind, mst, mach, pkind, vst, phone, rec, agreed>>
      /\ boot' = [val |-> v, resets |-> IF boot.resets < MaxResets THEN boot.resets + 1 ELSE 0]
  BY DEF Reboot, machineVars, phoneVars
<1>2. boot'.val \in Values /\ boot'.resets \in Nat
  BY <1>1 DEF SessionIInv, SessionTypeOK
<1>3. SessionTypeOK'
  BY <1>1, <1>2 DEF SessionIInv, SessionTypeOK
<1>4. TalkInv'
  BY <1>1, TalkStays DEF SessionIInv
<1>5. EnrolInv'
  BY <1>1 DEF SessionIInv, EnrolInv, EnrolmentAgreed
<1>6. Recs(up') = Recs(up) /\ Recs(down') = Recs(down)
  BY <1>1
<1>7. VerdictInv' /\ ReleaseInv'
  BY <1>1, <1>6, NothingSent DEF SessionIInv
<1> QED
  BY <1>3, <1>4, <1>5, <1>7 DEF SessionIInv

LEMMA OnceGiven ==
  ASSUME NEW r \in Records, NEW v \in Values
  PROVE  [r EXCEPT !.once = {v}] \in Records /\ [r EXCEPT !.once = {v}].key = r.key
         /\ [r EXCEPT !.once = {v}].resets = r.resets
  BY DEF Records

LEMMA OneUseProfileKeeps ==
  ASSUME SessionIInv, NEW v \in Values, OneUseProfile(v)
  PROVE  SessionIInv'
<1>1. /\ UNCHANGED <<session, up, down, boot, enrolled, mkind, mst, mach, pkind, vst, phone, agreed>>
      /\ vst = "idle" /\ rec # NoRecord /\ rec' = [rec EXCEPT !.once = {v}]
  BY DEF OneUseProfile, machineVars
<1>2. SessionTypeOK /\ TalkInv /\ EnrolInv /\ VerdictInv /\ ReleaseInv
  BY DEF SessionIInv
<1>3. rec \in Records /\ mst = "idle" /\ mach = NoMach /\ up = <<>> /\ down = <<>>
  BY <1>1, <1>2 DEF SessionTypeOK
<1>4. rec' \in Records /\ rec'.key = rec.key
  BY <1>1, <1>3, OnceGiven
<1>5. SessionTypeOK'
  BY <1>1, <1>2, <1>4 DEF SessionTypeOK
<1>6. TalkInv'
  BY <1>1, <1>2, TalkStays
<1>7. EnrolInv'
  BY <1>1, <1>2, <1>4 DEF EnrolInv, EnrolmentAgreed
<1>8. VerdictInv'
  BY <1>1, <1>2, <1>3, <1>4, NoRecs DEF VerdictInv, InTransfer, Running
<1>9. ReleaseInv'
  <2>1. mach'.answer = "none" /\ mach'.taken = 0 /\ mach'.returned = FALSE
    BY <1>1, <1>3 DEF NoMach
  <2> QED
    BY <1>1, <1>2, <1>3, <2>1, NoRecs DEF ReleaseInv
<1> QED
  BY <1>5, <1>6, <1>7, <1>8, <1>9 DEF SessionIInv

LEMMA SessionBegins ==
  ASSUME SessionInit
  PROVE  SessionIInv
<1>1. /\ session = 2 /\ up = <<>> /\ down = <<>> /\ mst = "idle" /\ mach = NoMach
      /\ vst = "idle" /\ phone = NoPhone
  BY DEF SessionInit
<1>2. boot.val \in Values /\ boot.resets \in Nat
  <2>1. (CHOOSE v \in Values : TRUE) \in Values
    BY SessionAssumption
  <2> QED
    BY <2>1 DEF SessionInit
<1>3. \/ enrolled = {} /\ rec = NoRecord
      \/ /\ enrolled = {1} /\ agreed = {1} \X {"machine", "phone"}
         /\ rec = [key |-> 1, profiles |-> {boot.val}, once |-> {}, resets |-> 0,
                   salt |-> 2, keyboard |-> TRUE]
  BY DEF SessionInit
<1>4. (rec = NoRecord \/ rec \in Records) /\ rec.key <= session
  <2>1. CASE rec = NoRecord
    BY <1>1, <2>1 DEF NoRecord
  <2>2. CASE rec = [key |-> 1, profiles |-> {boot.val}, once |-> {}, resets |-> 0,
                    salt |-> 2, keyboard |-> TRUE]
    <3>1. rec \in Records
      BY <1>2, <2>2 DEF Records
    <3>2. rec.key = 1
      BY <2>2
    <3> QED
      BY <1>1, <3>1, <3>2
  <2> QED
    BY <1>3, <2>1, <2>2
<1>5. DOMAIN mach = MachFields /\ DOMAIN phone = PhoneFields
  BY <1>1 DEF NoMach, NoPhone, MachFields, PhoneFields
<1>6. SessionTypeOK
  BY <1>1, <1>2, <1>4, <1>5, NoRecs DEF SessionTypeOK
<1>7. TalkInv
  BY <1>1, NoRecs DEF TalkInv, UpFits, DownFits, InStep, ErrorsEnd, Answers, Serving, Running
<1>8. EnrolmentAgreed
  BY <1>3 DEF EnrolmentAgreed, NoRecord
<1>9. EnrolInv
  BY <1>1, <1>8, NoRecs DEF EnrolInv
<1>10. VerdictInv
  BY <1>1, <1>4, NoRecs DEF VerdictInv, InTransfer, Running
<1>11. ReleaseInv
  <2>1. mach.answer = "none" /\ mach.taken = 0 /\ mach.returned = FALSE /\ phone.shown = 0
    BY <1>1 DEF NoMach, NoPhone
  <2> QED
    BY <1>1, <2>1, NoRecs DEF ReleaseInv
<1> QED
  BY <1>6, <1>7, <1>9, <1>10, <1>11 DEF SessionIInv

LEMMA SessionStays ==
  ASSUME SessionIInv, UNCHANGED sessionVars
  PROVE  SessionIInv'
<1>1. UNCHANGED <<session, up, down, boot, enrolled, mkind, mst, mach, pkind, vst, phone, rec, agreed>>
  BY DEF sessionVars
<1>2. SessionTypeOK'
  BY <1>1 DEF SessionIInv, SessionTypeOK
<1>3. TalkInv'
  BY <1>1, TalkStays DEF SessionIInv
<1>4. EnrolInv'
  BY <1>1 DEF SessionIInv, EnrolInv, EnrolmentAgreed
<1>5. Recs(up') = Recs(up) /\ Recs(down') = Recs(down)
  BY <1>1
<1>6. VerdictInv' /\ ReleaseInv'
  BY <1>1, <1>5, NothingSent DEF SessionIInv
<1> QED
  BY <1>2, <1>3, <1>4, <1>6 DEF SessionIInv

LEMMA MachineNextKeeps ==
  ASSUME SessionIInv, MachineNext
  PROVE  SessionIInv'
<1>1. CASE RecvMsgFails
  BY <1>1, RecvMsgFailsKeeps
<1>2. CASE AcceptHandshake
  BY <1>2, AcceptHandshakeKeeps
<1>3. CASE ServeSAS
  BY <1>3, ServeSASKeeps
<1>4. CASE ServeEventlog
  BY <1>4, ServeEventlogKeeps
<1>5. CASE ServeReceipt
  BY <1>5, ServeReceiptKeeps
<1>6. CASE ServeBye
  BY <1>6, ServeByeKeeps
<1>7. ASSUME NEW b \in BOOLEAN, ServeOffer(b) PROVE SessionIInv'
  BY <1>7, ServeOfferKeeps
<1>8. ASSUME NEW b \in BOOLEAN, ServeCommit(b) PROVE SessionIInv'
  BY <1>8, ServeCommitKeeps
<1>9. ASSUME NEW b \in BOOLEAN, ServeRelease(b) PROVE SessionIInv'
  BY <1>9, ServeReleaseKeeps
<1>10. ASSUME NEW tpm \in BOOLEAN, NEW keyboard \in BOOLEAN, NEW log \in BOOLEAN, NEW q,
              ServeQuote(tpm, q, keyboard, log)
       PROVE  SessionIInv'
  BY <1>10, ServeQuoteKeeps
<1> QED
  BY <1>1, <1>2, <1>3, <1>4, <1>5, <1>6, <1>7, <1>8, <1>9, <1>10 DEF MachineNext

LEMMA HandleNextKeeps ==
  ASSUME SessionIInv, HandleNext
  PROVE  SessionIInv'
  BY HandleHandshakeKeeps, HandleErrorKeeps, HandleEnrolKeeps, OfferRefusedKeeps, HandleConfirmKeeps,
     HandleHelloKeeps, HandleEvidenceKeeps, EvidenceRefusedKeeps, HandleEventlogChunkKeeps, HandleReceiptAckKeeps,
     HandleReleaseAckKeeps DEF HandleNext

LEMMA PersonNextKeeps ==
  ASSUME SessionIInv, PersonNext
  PROVE  SessionIInv'
<1>1. ASSUME NEW b \in BOOLEAN, MachineConfirmSAS(b) PROVE SessionIInv'
  BY <1>1, MachineConfirmSASKeeps
<1>2. ASSUME NEW b \in BOOLEAN, ConfirmSAS(b) PROVE SessionIInv'
  BY <1>2, ConfirmSASKeeps
<1>3. ASSUME NEW b \in BOOLEAN, ProvideAnchorKey(b) PROVE SessionIInv'
  BY <1>3, ProvideAnchorKeyKeeps
<1>4. ASSUME NEW b \in BOOLEAN, ProvideAcceptSignature(b) PROVE SessionIInv'
  BY <1>4, ProvideAcceptSignatureKeeps
<1>5. ASSUME NEW b \in BOOLEAN, ProvideReceiptSignature(b) PROVE SessionIInv'
  BY <1>5, ProvideReceiptSignatureKeeps
<1>6. ASSUME NEW d, NEW named, Decide(d, named) PROVE SessionIInv'
  BY <1>6, DecideKeeps
<1>7. CASE RequestEventlog
  BY <1>7, RequestEventlogKeeps
<1> QED
  BY <1>1, <1>2, <1>3, <1>4, <1>5, <1>6, <1>7 DEF PersonNext

LEMMA SessionNextKeeps ==
  ASSUME SessionIInv, SessionNext
  PROVE  SessionIInv'
<1>1. ASSUME NEW mk, NEW pk \in {"enrol", "attest"}, Connect(mk, pk) PROVE SessionIInv'
  BY <1>1, ConnectKeeps
<1>2. ASSUME NEW v \in Values, Reboot(v) PROVE SessionIInv'
  BY <1>2, RebootKeeps
<1>3. ASSUME NEW v \in Values, OneUseProfile(v) PROVE SessionIInv'
  BY <1>3, OneUseProfileKeeps
<1> QED
  BY <1>1, <1>2, <1>3, MachineNextKeeps, HandleNextKeeps, PersonNextKeeps, AbortKeeps, BreakKeeps,
     ThroughKeeps DEF SessionNext

----------------------------------------------------------------------------
(* The results. *)

\* Every session of ServeEnrolment or ServeAttestation with the Verifier keeps
\* the inductive invariant: who may be waiting for whom, and what a record
\* under way, the machine and the phone know of each other.
THEOREM SessionInductive == SessionSpec => []SessionIInv
<1>1. SessionInit => SessionIInv
  BY SessionBegins
<1>2. SessionIInv /\ [SessionNext]_sessionVars => SessionIInv'
  BY SessionNextKeeps, SessionStays
<1> QED
  BY <1>1, <1>2, PTL DEF SessionSpec

\* Neither RecvMsg at the machine nor HandleRecord at the phone ever meets a
\* record of the other's that its state does not expect: whatever crosses on
\* the way, and wherever the connection broke.
THEOREM StateMachinesFit == SessionSpec => []NoProtocolError
<1>1. SessionIInv => NoProtocolError
  BY TalkFits DEF SessionIInv
<1> QED
  BY <1>1, SessionInductive, PTL

\* The machine stores (Commit) only a phone of a session whose code both people
\* confirmed, and the phone keeps a record only of a machine that has stored it.
THEOREM EnrolmentIsOfBoth == SessionSpec => []EnrolmentAgreed
<1>1. SessionIInv => EnrolmentAgreed
  BY DEF SessionIInv, EnrolInv
<1> QED
  BY <1>1, SessionInductive, PTL

\* A salt or a seed leaves the phone (sendRelease) and is taken by the machine
\* (TakeRelease) only in a session it accepted and the person trusted; it is the
\* one the phone keeps, and the layout shown is that of the seed opened.
THEOREM ReleaseAsDecided == SessionSpec => []ReleaseIsDecided
<1>1. ASSUME SessionIInv PROVE ReleaseIsDecided
  <2>1. ASSUME NEW i \in DOMAIN up, up[i].type = "release"
        PROVE  mach.answer = "accepted" /\ Trusted(phone.receipt)
    <3>1. up[i] \in Recs(up)
      <4>1. up \in Seq(Recs(up))
        BY <1>1 DEF SessionIInv, SessionTypeOK
      <4>2. DOMAIN up = 1..Len(up)
        BY <4>1
      <4> QED
        BY <4>2 DEF Recs
    <3> QED
      BY <1>1, <2>1, <3>1 DEF SessionIInv, ReleaseInv
  <2> QED
    BY <1>1, <2>1 DEF ReleaseIsDecided, SessionIInv, ReleaseInv
<1> QED
  BY <1>1, SessionInductive, PTL

\* The steps that change the phone's record or the disk's keyslot.
LEMMA WhatChangesTheRecord ==
  ASSUME SessionNext
  PROVE  \/ UNCHANGED <<keySalt, rec>>
         \/ HandleConfirm \/ HandleReceiptAck \/ Through
         \/ \E v \in Values : OneUseProfile(v)
<1>1. CASE MachineNext
  BY <1>1 DEF MachineNext, phoneVars, RecvMsgFails, AcceptHandshake, ServeSAS, ServeEventlog, ServeReceipt,
     ServeBye, ServeOffer, ServeCommit, ServeRelease, ServeQuote
<1>2. CASE HandleNext
  BY <1>2 DEF HandleNext, PhoneOnly, machineVars, HandleHandshake, HandleError, HandleEnrol,
     OfferRefused, HandleHello, HandleEvidence, EvidenceRefused, HandleEventlogChunk, HandleReleaseAck, VFails
<1>3. CASE PersonNext
  BY <1>3 DEF PersonNext, PhoneOnly, machineVars, phoneVars, MachineConfirmSAS, ConfirmSAS,
     ProvideAnchorKey, ProvideAcceptSignature, ProvideReceiptSignature, Decide, RequestEventlog, VFails
<1>4. CASE Abort \/ Break \/ \E v \in Values : Reboot(v)
  BY <1>4 DEF Abort, Break, Reboot, PhoneOnly, machineVars, phoneVars, VFails
<1>5. CASE \E mk \in {"enrol", "attest", "keep"}, pk \in {"enrol", "attest"} : Connect(mk, pk)
  BY <1>5 DEF Connect
<1> QED
  BY <1>1, <1>2, <1>3, <1>4, <1>5 DEF SessionNext

\* 'phone salt enrol' makes a keyslot only from a salt the phone keeps, and
\* updateRecord lowers the reset count only where the person approved a boot
\* that failed the check.
THEOREM TheRecordFollows == SessionSpec => RecordFollows
<1> DEFINE A == /\ keySalt' # keySalt => rec.salt = keySalt'
                /\ rec.key # 0 /\ rec'.key = rec.key /\ rec'.resets < rec.resets
                     => phone.receipt = "approved" /\ phone.verdict.state = "failed"
<1>1. ASSUME SessionIInv, UNCHANGED <<keySalt, rec>> PROVE A
  <2>1. rec.key # 0 => ~(rec.resets < rec.resets)
    BY <1>1 DEF SessionIInv, SessionTypeOK, NoRecord, Records
  <2> QED
    BY <1>1, <2>1
<1>2. ASSUME SessionIInv, HandleConfirm PROVE A
  <2>1. keySalt' = keySalt /\ rec'.key = session /\ vst = "enrolConfirm"
    BY <1>2 DEF HandleConfirm, PhoneOnly, machineVars, RecordAtConfirm
  <2>2. rec.key < session /\ session \in Nat /\ (rec = NoRecord \/ rec \in Records)
    BY <1>2, <2>1 DEF SessionIInv, SessionTypeOK, VerdictInv, Running
  <2>3. rec.key \in Nat
    BY <2>2 DEF NoRecord, Records
  <2> QED
    BY <2>1, <2>2, <2>3
<1>3. ASSUME SessionIInv, HandleReceiptAck PROVE A
  <2>1. keySalt' = keySalt /\ vst = "receiptAck" /\ rec' \in {rec, UpdateRecord}
    BY <1>3 DEF HandleReceiptAck, TrustedAck, PhoneOnly, machineVars
  <2>2. /\ phone.verdict.val \in Values /\ phone.verdict.resets \in Nat /\ phone.keep = ToKeep
        /\ rec \in Records /\ session \in Nat
        /\ phone.verdict.resets < rec.resets => phone.verdict.state = "failed"
    BY <1>3, <2>1 DEF SessionIInv, VerdictInv, SessionTypeOK, InTransfer
  <2>3. phone.keyboard \in BOOLEAN
    BY <1>3, <2>1 DEF SessionIInv, VerdictInv, InTransfer
  <2>4. rec'.resets \in {rec.resets, ResetsAfter(rec, phone.verdict)}
    BY <2>1, <2>2, <2>3, UpdateRecordIs
  <2>5. rec.resets \in Nat
    BY <2>2 DEF Records
  <2>6. rec'.resets < rec.resets => phone.receipt = "approved" /\ phone.verdict.resets < rec.resets
    BY <2>2, <2>4, <2>5 DEF ResetsAfter
  <2> QED
    BY <2>1, <2>2, <2>6
<1>4. ASSUME SessionIInv, Through PROVE A
  <2>1. rec' = rec /\ keySalt' = IF mkind = "keep" /\ mach.returned THEN session ELSE keySalt
    BY <1>4 DEF Through
  <2>2. mach.returned => rec.salt = session
    BY <1>4 DEF SessionIInv, ReleaseInv
  <2>3. rec.key # 0 => ~(rec.resets < rec.resets)
    BY <1>4 DEF SessionIInv, SessionTypeOK, NoRecord, Records
  <2> QED
    BY <2>1, <2>2, <2>3
<1>5. ASSUME SessionIInv, NEW v \in Values, OneUseProfile(v) PROVE A
  <2>1. keySalt' = keySalt /\ rec # NoRecord /\ rec' = [rec EXCEPT !.once = {v}]
    BY <1>5 DEF OneUseProfile, machineVars
  <2>2. rec \in Records
    BY <1>5, <2>1 DEF SessionIInv, SessionTypeOK
  <2>3. rec'.resets = rec.resets /\ rec.resets \in Nat
    <3>1. rec'.resets = rec.resets
      BY <2>1, <2>2, OnceGiven
    <3> QED
      BY <2>2, <3>1 DEF Records
  <2> QED
    BY <2>1, <2>3
<1>6. ASSUME SessionIInv, [SessionNext]_sessionVars PROVE [A]_sessionVars
  <2>1. CASE UNCHANGED sessionVars
    BY <2>1
  <2>2. CASE SessionNext
    BY <1>1, <1>2, <1>3, <1>4, <1>5, <1>6, <2>2, WhatChangesTheRecord
  <2> QED
    BY <1>6, <2>1, <2>2
<1>7. SessionIInv /\ [SessionNext]_sessionVars => [A]_sessionVars
  BY <1>6
<1> QED
  BY <1>7, SessionInductive, PTL DEF SessionSpec, RecordFollows
=============================================================================
