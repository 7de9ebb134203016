-------------------------- MODULE FrameLinkProofs --------------------------
(***************************************************************************)
(* The framing, for every modulus, limit, budget, set of record lengths    *)
(* and MTUs, and every set of foreign fragments.                           *)
(***************************************************************************)
EXTENDS FrameLink, SequenceTheorems, TLAPS

USE DEF phoneVars, connVars, callVars, linkVars, envVars, frameVars

-----------------------------------------------------------------------------
(* A Recv that waits is woken.                                             *)

\* What keeps it: the goroutines have calls to finish, and one in the middle
\* of its wake-up has not finished.
WakeInv ==
  /\ owes \in [Goroutines -> {"nothing", "wake", "wake and close", "tell"}]
  /\ WakeupKept

\* At the start nobody waits.
LEMMA WakeInit == FrameInit => WakeInv
BY DEF FrameInit, WakeInv, WakeupKept, Goroutines

\* Setting the error leaves a wake-up owed.
LEMMA FailOwes ==
  ASSUME NEW g \in Goroutines, NEW e, fail(g, e), WakeInv
  PROVE  /\ owes' \in [Goroutines -> {"nothing", "wake", "wake and close", "tell"}]
         /\ \E h \in Goroutines : owes'[h] \in {"wake", "wake and close"}
BY DEF fail, WakeInv

\* No step loses the wake-up a waiting Recv depends on.
LEMMA WakeNext == WakeInv /\ [FrameNext]_frameVars => WakeInv'
<1> SUFFICES ASSUME WakeInv, [FrameNext]_frameVars PROVE WakeInv'
  OBVIOUS
<1> USE DEF WakeInv, WakeupKept
<1>1. ASSUME NEW g \in Goroutines, Wakes(g) PROVE WakeInv'
  BY <1>1 DEF Wakes
<1>2. CASE PhoneSends \/ StrangerWrites \/ Subscribes
  <2>1. UNCHANGED <<queue, err, notify, owes, session>>
    BY <1>2 DEF PhoneSends, StrangerWrites, Subscribes
  <2> QED BY <2>1
<1>3. CASE Loses \/ Repeats \/ Reorders
  <2>1. UNCHANGED <<queue, err, notify, owes, session>>
    BY <1>3 DEF Loses, Repeats, Reorders, disturbs
  <2> QED BY <2>1
<1>4. CASE DeliversError
  BY <1>4, FailOwes DEF DeliversError, Goroutines
<1>5. CASE DeliversPart \/ PhoneReceives
  <2>1. UNCHANGED <<queue, err, notify, owes, session>>
    BY <1>5 DEF DeliversPart, PhoneReceives
  <2> QED BY <2>1
<1>6. CASE DeliversRecord
  BY <1>6 DEF DeliversRecord, Goroutines
<1>7. CASE PhoneLeaves \/ Disconnected
  <2>1. linkEnds
    BY <1>7 DEF PhoneLeaves, Disconnected
  <2>2. /\ owes["reader"] = "nothing" /\ UNCHANGED <<queue, err, notify, session>>
        /\ owes' = [owes EXCEPT !["reader"] = "tell"]
    BY <2>1 DEF linkEnds
  <2>3. \A g \in Goroutines : owes[g] \in {"wake", "wake and close"} => owes'[g] = owes[g]
    BY <2>2
  <2> QED BY <2>2, <2>3
<1>8. CASE LinkLost
  BY <1>8, FailOwes DEF LinkLost, Goroutines
<1>9. CASE DeadlinePasses
  BY <1>9, FailOwes DEF DeadlinePasses, Goroutines
<1>10. CASE RecvBegins \/ RecvTakes \/ RecvFails \/ RecvWaits \/ RecvWoken \/ SendRefused
  BY <1>10 DEF RecvBegins, RecvTakes, RecvFails, RecvWaits, RecvWoken, SendRefused
<1>11. CASE SendBegins \/ SendFragment
  <2>1. UNCHANGED owes /\ session' # "waiting"
    BY <1>11 DEF SendBegins, SendFragment
  <2> QED BY <2>1
<1>12. CASE SendFindsNoLink \/ SendErrs
  <2>1. session' = "over" /\ \E e : fail("session", e)
    BY <1>12 DEF SendFindsNoLink, SendErrs, sendFails
  <2> QED BY <2>1, FailOwes DEF Goroutines
<1>13. CASE Close
  BY <1>13, FailOwes DEF Close, Goroutines
<1>14. CASE UNCHANGED frameVars
  BY <1>14
<1> QED
  BY <1>1, <1>2, <1>3, <1>4, <1>5, <1>6, <1>7, <1>8, <1>9, <1>10, <1>11, <1>12, <1>13, <1>14
  DEF FrameNext

\* A Recv that waits while there is a record or an error for it is always
\* about to be woken: notify is full or being filled (conn.go Recv, Deliver,
\* fail).
THEOREM WakeupIsKept == FrameSpec => []WakeupKept
<1>1. WakeInv => WakeupKept
  BY DEF WakeInv
<1> QED
  BY WakeInit, WakeNext, <1>1, PTL DEF FrameSpec
-----------------------------------------------------------------------------
(* Types.                                                                  *)

\* A record is a sequence of bytes.
LEMMA RecordType ==
  ASSUME NEW k \in Nat, NEW n \in Nat
  PROVE  Record(k, n) \in Seq(Bytes) /\ Len(Record(k, n)) = n
BY DEF Record, Bytes

\* There are as many fragments as it takes, and at least one.
LEMMA FragmentCount ==
  ASSUME NEW n \in Nat \ {0}, NEW per \in Nat \ {0}
  PROVE  (n + per - 1) \div per \in Nat \ {0}
<1>1. n + per - 1 \in Nat /\ n + per - 1 >= per
  OBVIOUS
<1>2. \A a, b \in Nat : b # 0 /\ a >= b => a \div b \in Nat \ {0}
  OBVIOUS
<1> QED BY <1>1, <1>2

\* Split gives fragments.
LEMMA SplitType ==
  ASSUME NEW record \in Seq(Bytes), record # <<>>, NEW per \in Nat \ {0},
         NEW first \in 0 .. Modulus - 1
  PROVE  /\ Split(record, per, first) \in Seq(Fragments)
         /\ Split(record, per, first) # <<>>
         /\ Len(Split(record, per, first)) \in Nat
<1> DEFINE count == (Len(record) + per - 1) \div per
<1>1. Len(record) \in Nat \ {0}
  OBVIOUS
<1>2. count \in Nat \ {0}
  BY <1>1, FragmentCount
<1>3. ASSUME NEW j \in 1 .. count
      PROVE  [total   |-> Len(record),
              flags   |-> IF j = 1 THEN FlagStart ELSE 0,
              seq     |-> (first + j - 1) % Modulus,
              payload |-> SubSeq(record, (j - 1) * per + 1, Short(j * per, Len(record)))]
                \in Fragments
  <2>1. (first + j - 1) % Modulus \in Nat
    <3>1. first + j - 1 \in Nat
      BY <1>2, ModulusAssumption
    <3> QED BY <3>1, ModulusAssumption
  <2>2. (j - 1) * per + 1 \in Nat \ {0} /\ j * per \in Nat
    <3>1. j - 1 \in Nat
      BY <1>2
    <3>2. \A a, b \in Nat : a * b \in Nat
      OBVIOUS
    <3>3. (j - 1) * per \in Nat /\ j * per \in Nat
      BY <3>1, <3>2, <1>2
    <3> QED BY <3>3
  <2>3. Short(j * per, Len(record)) \in Nat /\ Short(j * per, Len(record)) <= Len(record)
    BY <2>2, <1>1 DEF Short
  <2>4. \A a \in Nat \ {0}, b \in Nat : b <= Len(record) => SubSeq(record, a, b) \in Seq(Bytes)
    OBVIOUS
  <2>5. SubSeq(record, (j - 1) * per + 1, Short(j * per, Len(record))) \in Seq(Bytes)
    BY <2>2, <2>3, <2>4
  <2> QED BY <2>1, <2>5, <1>1 DEF Fragments, FlagStart, Bytes
<1> HIDE DEF count
<1>4. Split(record, per, first) \in [1 .. count -> Fragments]
  BY <1>3 DEF Split, count
<1>5. \A f \in [1 .. count -> Fragments] : f \in Seq(Fragments) /\ f # <<>> /\ Len(f) \in Nat
  BY <1>2
<1> QED BY <1>4, <1>5

\* Feed keeps the reassembler's type, and a record it finishes is bytes.
LEMMA FeedType ==
  ASSUME NEW r \in Reassemblers, NEW f \in Fragments
  PROVE  Feed(r, f) \in Reassemblers /\ r.buf \o f.payload \in Seq(Bytes)
<1>1. r.seq \in Nat /\ r.received \in Nat /\ r.buf \in Seq(Bytes)
  BY ModulusAssumption DEF Reassemblers
<1>2. f.payload \in Seq(Bytes) /\ f.total \in Nat
  BY DEF Fragments, Bytes
<1>3. counted(r, f) \in Nat
  BY <1>1, <1>2, SizesAssumption DEF counted
<1>4. r.buf \o f.payload \in Seq(Bytes)
  BY <1>1, <1>2
<1>5. (r.seq + 1) % Modulus \in 0 .. Modulus - 1
  BY <1>1, ModulusAssumption
<1>6. fed(r, f) \in Reassemblers
  <2>1. <<>> \in Seq(Bytes)
    OBVIOUS
  <2>2. (IF completes(r, f) THEN <<>> ELSE r.buf \o f.payload) \in Seq(Bytes)
    BY <1>4, <2>1
  <2> QED BY <1>2, <1>3, <1>5, <2>2 DEF fed, Reassemblers
<1>7. [r EXCEPT !.received = counted(r, f), !.failed = TRUE] \in Reassemblers
  BY <1>3 DEF Reassemblers
<1> QED BY <1>4, <1>6, <1>7 DEF Feed

\* The buffer of a record begun is shorter than the record, and the record
\* within the limit.
Bounded(r) == r.buf # <<>> => Len(r.buf) < r.total /\ r.total <= Limit

\* Feed keeps that, and a record it finishes is within the limit.
LEMMA FeedBounded ==
  ASSUME NEW r \in Reassemblers, NEW f \in Fragments, Bounded(r)
  PROVE  /\ Bounded(Feed(r, f))
         /\ Finishes(r, f) => Len(r.buf \o f.payload) \in 1 .. Limit
<1>1. /\ r.buf \in Seq(Bytes) /\ r.total \in Nat /\ f.payload \in Seq(Bytes)
      /\ f.total \in Nat /\ Limit \in Nat
  BY SizesAssumption DEF Reassemblers, Fragments, Bytes
<1>2. /\ Len(r.buf \o f.payload) = Len(r.buf) + Len(f.payload)
      /\ Len(r.buf) \in Nat /\ Len(f.payload) \in Nat
  BY <1>1
<1>3. ASSUME accepts(r, f)
      PROVE  f.total <= Limit /\ Len(r.buf \o f.payload) <= f.total /\ f.payload # <<>>
  <2>1. f.payload # <<>> /\ Len(r.buf) + Len(f.payload) <= f.total
    BY <1>3 DEF accepts
  <2>2. f.total \in 1 .. Limit \/ (r.buf # <<>> /\ f.total = r.total)
    BY <1>3 DEF accepts
  <2>3. r.buf # <<>> => r.total <= Limit
    BY DEF Bounded
  <2>4. f.total <= Limit
    <3> HIDE DEF Bounded
    <3> QED BY <1>1, <2>2, <2>3
  <2> QED BY <1>1, <1>2, <2>1, <2>4
<1>4. f.payload # <<>> => Len(f.payload) >= 1
  BY <1>1
<1>5. Finishes(r, f) => Len(r.buf \o f.payload) \in 1 .. Limit
  <2>1. SUFFICES ASSUME Finishes(r, f) PROVE Len(r.buf \o f.payload) \in 1 .. Limit
    OBVIOUS
  <2>2. accepts(r, f) /\ Len(r.buf) + Len(f.payload) = f.total
    BY <2>1 DEF Finishes, completes
  <2>3. f.total <= Limit /\ f.payload # <<>>
    BY <1>3, <2>2
  <2>4. f.total \in Nat /\ Limit \in Nat /\ Len(f.payload) >= 1
    BY <1>1, <1>4, <2>3
  <2>5. \A a, b, t, l \in Nat : b >= 1 /\ a + b = t /\ t <= l => a + b \in 1 .. l
    OBVIOUS
  <2>6. Len(r.buf) + Len(f.payload) \in 1 .. Limit
    BY <1>2, <2>2, <2>3, <2>4, <2>5
  <2> QED BY <1>2, <2>6
<1>6. ASSUME accepts(r, f) PROVE Bounded(fed(r, f))
  <2>1. CASE completes(r, f)
    BY <2>1 DEF fed, Bounded
  <2>2. CASE ~completes(r, f)
    <3>0. Len(r.buf) + Len(f.payload) # f.total
      BY <1>6, <2>2 DEF completes
    <3>1. Len(r.buf \o f.payload) < f.total /\ f.total <= Limit
      <4>1. f.total <= Limit
        BY <1>3, <1>6
      <4>2. Len(r.buf) + Len(f.payload) <= f.total
        BY <1>6 DEF accepts
      <4>3. \A v, w, t \in Nat : v + w <= t /\ v + w # t => v + w < t
        OBVIOUS
      <4>4. Len(r.buf) + Len(f.payload) < f.total
        BY <1>1, <1>2, <3>0, <4>2, <4>3
      <4>5. Len(r.buf \o f.payload) < f.total
        BY <1>2, <4>4, Zenon
      <4> QED BY <4>1, <4>5
    <3>2. fed(r, f).buf = r.buf \o f.payload /\ fed(r, f).total = f.total
      BY <2>2 DEF fed
    <3> QED BY <3>1, <3>2 DEF Bounded
  <2> QED BY <2>1, <2>2
<1>7. Bounded([r EXCEPT !.received = counted(r, f), !.failed = TRUE])
  BY DEF Bounded, Reassemblers
<1> QED BY <1>5, <1>6, <1>7 DEF Feed
-----------------------------------------------------------------------------
(* The invariant: the types, and a limit that queue, buffer and all        *)
(* records returned respect.                                               *)

FrameInv == FrameTypeOK /\ WithinLimit

\* It holds of a new connection.
LEMMA FrameInitInv == FrameInit => FrameInv
<1> SUFFICES ASSUME FrameInit PROVE FrameInv
  OBVIOUS
<1>0. <<>> \in Seq(Fragments) /\ <<>> \in Seq(Seq(Bytes)) /\ <<>> \in Seq(Bytes)
  OBVIOUS
<1>1. NewReassembler \in Reassemblers
  BY <1>0, ModulusAssumption DEF NewReassembler, Reassemblers
<1>2. sent \in [Dirs -> Seq(Seq(Bytes))] /\ got \in [Dirs -> Seq(Seq(Bytes))]
  BY <1>0 DEF FrameInit
<1>3. seq \in [Dirs -> 0 .. Modulus - 1]
  BY ModulusAssumption DEF FrameInit
<1>4. net \in [Dirs -> Seq(Fragments)] /\ reas \in [Dirs -> Reassemblers]
  BY <1>0, <1>1 DEF FrameInit
<1>5. /\ queue \in Seq(Seq(Bytes)) /\ outgoing \in Seq(Fragments)
      /\ err \in Errors /\ notify \in BOOLEAN
      /\ timer \in {"off", "armed", "stopped", "fired"}
      /\ owes \in [Goroutines -> {"nothing", "wake", "wake and close", "tell"}]
      /\ session = "idle"
      /\ link \in {"up", "closing", "gone"} /\ sub \in BOOLEAN
      /\ strange \in Nat /\ faults \in Nat
  BY <1>0 DEF FrameInit, Errors
<1>6. FrameTypeOK
  BY <1>2, <1>3, <1>4, <1>5 DEF FrameTypeOK, Bytes, Reassemblers
<1>7. queue = <<>> /\ got[Up] = <<>> /\ reas[Up].buf = <<>>
  BY DEF FrameInit, NewReassembler, Dirs, Up, Down
<1>8. WithinLimit
  BY <1>7 DEF WithinLimit
<1> QED BY <1>6, <1>8 DEF FrameInv

\* The steps that touch neither reassembler, queue nor records returned.
aside == UNCHANGED <<reas, got, queue>>

\* Such steps keep the limit.
LEMMA AsideLimit == WithinLimit /\ aside => WithinLimit'
BY DEF WithinLimit, aside

\* Only a delivery, a Recv that takes a record and the phone touch them.
LEMMA StepsAside ==
  FrameNext => aside \/ DeliversError \/ DeliversPart \/ DeliversRecord \/ RecvTakes
               \/ PhoneReceives
<1>1. ASSUME NEW g \in Goroutines, Wakes(g) PROVE aside
  BY <1>1 DEF aside, Wakes
<1>2. PhoneSends \/ StrangerWrites \/ Subscribes \/ SendBegins => aside
  BY DEF aside, PhoneSends, StrangerWrites, Subscribes, SendBegins
<1>3. Loses \/ Repeats \/ Reorders => aside
  BY DEF aside, Loses, Repeats, Reorders, disturbs
<1>4. PhoneLeaves \/ Disconnected \/ LinkLost \/ DeadlinePasses => aside
  BY DEF aside, PhoneLeaves, Disconnected, linkEnds, LinkLost, DeadlinePasses
<1>5. RecvBegins \/ RecvFails \/ RecvWaits \/ RecvWoken \/ SendRefused => aside
  BY DEF aside, RecvBegins, RecvFails, RecvWaits, RecvWoken, SendRefused
<1>6. SendFragment \/ SendFindsNoLink \/ SendErrs \/ Close => aside
  BY DEF aside, SendFragment, SendFindsNoLink, SendErrs, sendFails, Close
<1> QED
  BY <1>1, <1>2, <1>3, <1>4, <1>5, <1>6 DEF FrameNext

\* The same, for one variable after the other.
LEMMA Types ==
  ASSUME FrameInv
  PROVE  /\ sent[Up] \in Seq(Seq(Bytes)) /\ sent[Down] \in Seq(Seq(Bytes))
         /\ seq[Up] \in 0 .. Modulus - 1 /\ seq[Down] \in 0 .. Modulus - 1
         /\ net[Up] \in Seq(Fragments) /\ net[Down] \in Seq(Fragments)
         /\ reas[Up] \in Reassemblers /\ reas[Down] \in Reassemblers
         /\ got[Up] \in Seq(Seq(Bytes)) /\ got[Down] \in Seq(Seq(Bytes))
BY DEF FrameInv, FrameTypeOK, Dirs, Up, Down

\* Framing a record of a direction keeps the types of what it changes.
LEMMA FramingTypes ==
  ASSUME FrameInv, NEW d \in Dirs, NEW n \in Lengths, NEW per \in Payloads,
         NEW record, record = Record(Len(sent[d]) + 1, n), Framable(record)
  PROVE  /\ Split(record, per, seq[d]) \in Seq(Fragments)
         /\ Split(record, per, seq[d]) # <<>>
         /\ [sent EXCEPT ![d] = Append(@, record)] \in [Dirs -> Seq(Seq(Bytes))]
         /\ [seq EXCEPT ![d] = (@ + Len(Split(record, per, seq[d]))) % Modulus]
              \in [Dirs -> 0 .. Modulus - 1]
<1>1. sent[d] \in Seq(Seq(Bytes)) /\ seq[d] \in 0 .. Modulus - 1
  BY DEF FrameInv, FrameTypeOK
<1>2. Len(sent[d]) + 1 \in Nat
  BY <1>1
<1>3. n \in Nat /\ per \in Nat \ {0}
  BY SizesAssumption
<1>4. record \in Seq(Bytes) /\ record # <<>>
  BY <1>2, <1>3, RecordType DEF Framable
<1>5. /\ Split(record, per, seq[d]) \in Seq(Fragments)
      /\ Split(record, per, seq[d]) # <<>>
      /\ Len(Split(record, per, seq[d])) \in Nat
  BY <1>1, <1>3, <1>4, SplitType
<1>6. Append(sent[d], record) \in Seq(Seq(Bytes))
  BY <1>1, <1>4
<1>7. (seq[d] + Len(Split(record, per, seq[d]))) % Modulus \in 0 .. Modulus - 1
  <2>1. seq[d] + Len(Split(record, per, seq[d])) \in Nat
    BY <1>1, <1>5, ModulusAssumption
  <2> QED BY <2>1, ModulusAssumption
<1> QED BY <1>5, <1>6, <1>7 DEF FrameInv, FrameTypeOK

\* What an error may be and what a goroutine may owe.
LEMMA FailTypes ==
  ASSUME FrameInv, NEW g \in Goroutines, NEW e \in Errors, fail(g, e)
  PROVE  err' \in Errors /\ owes' \in [Goroutines -> {"nothing", "wake", "wake and close", "tell"}]
<1>1. err \in Errors /\ owes \in [Goroutines -> {"nothing", "wake", "wake and close", "tell"}]
  BY DEF FrameInv, FrameTypeOK
<1> QED BY <1>1 DEF fail

\* A fragment taken by a reassembler.
LEMMA TakingTypes ==
  ASSUME FrameInv, NEW d \in Dirs, net[d] # <<>>
  PROVE  /\ Head(net[d]) \in Fragments
         /\ [net EXCEPT ![d] = Tail(@)] \in [Dirs -> Seq(Fragments)]
         /\ [reas EXCEPT ![d] = Feed(@, Head(net[d]))] \in [Dirs -> Reassemblers]
         /\ reas[d].buf \o Head(net[d]).payload \in Seq(Bytes)
<1>1. net[d] \in Seq(Fragments) /\ reas[d] \in Reassemblers
  BY DEF FrameInv, FrameTypeOK
<1>2. Head(net[d]) \in Fragments /\ Tail(net[d]) \in Seq(Fragments)
  BY <1>1
<1>3. Feed(reas[d], Head(net[d])) \in Reassemblers /\ reas[d].buf \o Head(net[d]).payload \in Seq(Bytes)
  BY <1>1, <1>2, FeedType
<1> QED BY <1>2, <1>3 DEF FrameInv, FrameTypeOK

\* Every step keeps the types.
LEMMA NextTypes ==
  ASSUME FrameInv, FrameNext
  PROVE  FrameTypeOK'
<1>0. FrameTypeOK
  BY DEF FrameInv
<1>a. "reader" \in Goroutines /\ "session" \in Goroutines /\ "timer" \in Goroutines
  BY DEF Goroutines
<1>b. /\ "lost" \in Errors /\ "deadline" \in Errors /\ "closed" \in Errors
      /\ "refused" \in Errors /\ "framing" \in Errors
  BY DEF Errors
<1>1. ASSUME NEW g \in Goroutines, Wakes(g) PROVE FrameTypeOK'
  <2>1. owes' \in [Goroutines -> {"nothing", "wake", "wake and close", "tell"}]
    BY <1>0, <1>1 DEF FrameTypeOK, Wakes
  <2>2. link' \in {"up", "closing", "gone"} /\ notify' \in BOOLEAN
    BY <1>0, <1>1 DEF FrameTypeOK, Wakes
  <2> QED BY <1>0, <1>1, <2>1, <2>2, Zenon DEF FrameTypeOK, Wakes
<1>2. CASE PhoneSends
  <2>1. PICK n \in Lengths, per \in Payloads :
          LET record == Record(Len(sent[Up]) + 1, n)
              frags  == Split(record, per, seq[Up])
          IN /\ Framable(record)
             /\ sent' = [sent EXCEPT ![Up] = Append(@, record)]
             /\ seq' = [seq EXCEPT ![Up] = (@ + Len(frags)) % Modulus]
             /\ net' = [net EXCEPT ![Up] = @ \o frags]
             /\ UNCHANGED <<reas, got, connVars, callVars, linkVars, envVars>>
    BY <1>2, Zenon DEF PhoneSends
  <2> DEFINE record == Record(Len(sent[Up]) + 1, n)
             frags  == Split(record, per, seq[Up])
  <2>2. /\ frags \in Seq(Fragments)
        /\ sent' \in [Dirs -> Seq(Seq(Bytes))]
        /\ seq' \in [Dirs -> 0 .. Modulus - 1]
    BY <2>1, FramingTypes DEF Dirs, Up
  <2> HIDE DEF frags, record
  <2>3. net[Up] \o frags \in Seq(Fragments)
    BY <2>2, Types
  <2>4. net' = [net EXCEPT ![Up] = net[Up] \o frags]
    BY <2>1 DEF frags, record
  <2>5. net' \in [Dirs -> Seq(Fragments)]
    BY <1>0, <2>3, <2>4 DEF FrameTypeOK
  <2> QED BY <1>0, <2>1, <2>2, <2>5, Zenon DEF FrameTypeOK
<1>3. CASE StrangerWrites
  <2>1. PICK f \in Foreign : /\ strange' = strange + 1
                             /\ net' = [net EXCEPT ![Up] = Append(@, f)]
    BY <1>3 DEF StrangerWrites
  <2>2. f \in Fragments
    BY ForeignAssumption DEF Fragments, Bytes
  <2>3. Append(net[Up], f) \in Seq(Fragments)
    BY <2>2, Types
  <2>4. net' \in [Dirs -> Seq(Fragments)] /\ strange' \in Nat
    <3>1. net \in [Dirs -> Seq(Fragments)] /\ strange \in Nat
      BY <1>0 DEF FrameTypeOK
    <3>2. strange' \in Nat
      BY <2>1, <3>1
    <3>3. net' \in [Dirs -> Seq(Fragments)]
      BY <2>1, <2>3, <3>1
    <3> QED BY <3>2, <3>3
  <2>5. UNCHANGED <<phoneVars, reas, got, connVars, callVars, linkVars, faults>>
    BY <1>3 DEF StrangerWrites
  <2> QED BY <1>0, <2>4, <2>5, Zenon DEF FrameTypeOK
<1>4. CASE Subscribes
  <2>1. sub' \in BOOLEAN
    BY <1>4 DEF Subscribes
  <2> QED BY <1>0, <1>4, <2>1, Zenon DEF FrameTypeOK, Subscribes
<1>5. ASSUME NEW d \in Dirs, NEW fragments \in Seq(Fragments), disturbs(d, fragments)
      PROVE  FrameTypeOK'
  <2>1. net' \in [Dirs -> Seq(Fragments)] /\ faults' \in Nat
    <3>1. net \in [Dirs -> Seq(Fragments)] /\ faults \in Nat
      BY <1>0 DEF FrameTypeOK
    <3>2. faults' \in Nat
      BY <1>5, <3>1 DEF disturbs
    <3>3. net' \in [Dirs -> Seq(Fragments)]
      BY <1>5, <3>1 DEF disturbs
    <3> QED BY <3>2, <3>3
  <2> QED BY <1>0, <1>5, <2>1, Zenon DEF FrameTypeOK, disturbs
<1>6. CASE Loses \/ Repeats \/ Reorders
  <2>0. \A d \in Dirs : net[d] \in Seq(Fragments)
    BY <1>0 DEF FrameTypeOK
  <2>1. CASE Loses
    <3>1. PICK d \in Dirs : \E i \in 1 .. Len(net[d]) : disturbs(d, RemoveAt(net[d], i))
      BY <2>1 DEF Loses
    <3>2. PICK i \in 1 .. Len(net[d]) : disturbs(d, RemoveAt(net[d], i))
      BY <3>1
    <3>3. RemoveAt(net[d], i) \in Seq(Fragments)
      BY <2>0 DEF RemoveAt
    <3> QED BY <1>5, <3>2, <3>3
  <2>2. CASE Repeats
    <3>1. PICK d \in Dirs : \E i \in 1 .. Len(net[d]) : disturbs(d, InsertAt(net[d], i, net[d][i]))
      BY <2>2 DEF Repeats
    <3>2. PICK i \in 1 .. Len(net[d]) : disturbs(d, InsertAt(net[d], i, net[d][i]))
      BY <3>1
    <3>3. InsertAt(net[d], i, net[d][i]) \in Seq(Fragments)
      BY <2>0 DEF InsertAt
    <3> QED BY <1>5, <3>2, <3>3
  <2>3. CASE Reorders
    <3>1. PICK d \in Dirs : \E i \in 2 .. Len(net[d]) :
            disturbs(d, [net[d] EXCEPT ![i] = net[d][i - 1], ![i - 1] = net[d][i]])
      BY <2>3 DEF Reorders
    <3>2. PICK i \in 2 .. Len(net[d]) :
            disturbs(d, [net[d] EXCEPT ![i] = net[d][i - 1], ![i - 1] = net[d][i]])
      BY <3>1
    <3>3. [net[d] EXCEPT ![i] = net[d][i - 1], ![i - 1] = net[d][i]] \in Seq(Fragments)
      BY <2>0
    <3> QED BY <1>5, <3>2, <3>3
  <2> QED BY <1>6, <2>1, <2>2, <2>3
<1>7. CASE DeliversError
  <2>1. net' \in [Dirs -> Seq(Fragments)] /\ reas' \in [Dirs -> Reassemblers]
    BY <1>7, TakingTypes DEF DeliversError, Dirs
  <2>2. err' \in Errors /\ owes' \in [Goroutines -> {"nothing", "wake", "wake and close", "tell"}]
    BY <1>7, <1>a, <1>b, FailTypes DEF DeliversError
  <2> QED BY <1>0, <1>7, <2>1, <2>2, Zenon DEF FrameTypeOK, DeliversError
<1>8. CASE DeliversPart
  <2>1. net' \in [Dirs -> Seq(Fragments)] /\ reas' \in [Dirs -> Reassemblers]
    BY <1>8, TakingTypes DEF DeliversPart, Dirs
  <2> QED BY <1>0, <1>8, <2>1, Zenon DEF FrameTypeOK, DeliversPart
<1>9. CASE DeliversRecord
  <2>1. /\ net' \in [Dirs -> Seq(Fragments)] /\ reas' \in [Dirs -> Reassemblers]
        /\ reas[Up].buf \o Head(net[Up]).payload \in Seq(Bytes)
    BY <1>9, TakingTypes DEF DeliversRecord, Dirs
  <2>2. queue' \in Seq(Seq(Bytes))
    <3>1. queue \in Seq(Seq(Bytes))
      BY <1>0 DEF FrameTypeOK
    <3>2. queue' = Append(queue, reas[Up].buf \o Head(net[Up]).payload)
      BY <1>9 DEF DeliversRecord
    <3> QED BY <2>1, <3>1, <3>2
  <2>3. owes' \in [Goroutines -> {"nothing", "wake", "wake and close", "tell"}]
    BY <1>0, <1>9 DEF FrameTypeOK, DeliversRecord
  <2> QED BY <1>0, <1>9, <2>1, <2>2, <2>3, Zenon DEF FrameTypeOK, DeliversRecord
<1>10. CASE PhoneLeaves \/ Disconnected
  <2>0. linkEnds
    BY <1>10 DEF PhoneLeaves, Disconnected
  <2>1. <<>> \in Seq(Fragments)
    OBVIOUS
  <2>2. net' \in [Dirs -> Seq(Fragments)]
    BY <2>0, <2>1 DEF linkEnds
  <2>3. /\ owes' \in [Goroutines -> {"nothing", "wake", "wake and close", "tell"}]
        /\ link' \in {"up", "closing", "gone"}
    BY <1>0, <2>0 DEF FrameTypeOK, linkEnds
  <2> QED BY <1>0, <2>0, <2>2, <2>3, Zenon DEF FrameTypeOK, linkEnds
<1>11. CASE LinkLost
  <2>1. err' \in Errors /\ owes' \in [Goroutines -> {"nothing", "wake", "wake and close", "tell"}]
    BY <1>11, <1>a, <1>b, FailTypes DEF LinkLost
  <2> QED BY <1>0, <1>11, <2>1, Zenon DEF FrameTypeOK, LinkLost
<1>12. CASE DeadlinePasses
  <2>1. err' \in Errors /\ owes' \in [Goroutines -> {"nothing", "wake", "wake and close", "tell"}]
    BY <1>12, <1>a, <1>b, FailTypes DEF DeadlinePasses
  <2>2. timer' \in {"off", "armed", "stopped", "fired"}
    BY <1>12 DEF DeadlinePasses
  <2> QED BY <1>0, <1>12, <2>1, <2>2, Zenon DEF FrameTypeOK, DeadlinePasses
<1>13. CASE RecvTakes
  <2>1. queue \in Seq(Seq(Bytes)) /\ queue # <<>>
    BY <1>0, <1>13 DEF FrameTypeOK, RecvTakes
  <2>2. Head(queue) \in Seq(Bytes) /\ Tail(queue) \in Seq(Seq(Bytes))
    BY <2>1
  <2>3. Append(got[Up], Head(queue)) \in Seq(Seq(Bytes))
    BY <2>2, Types
  <2>4. got' \in [Dirs -> Seq(Seq(Bytes))]
    BY <1>0, <1>13, <2>3 DEF FrameTypeOK, RecvTakes
  <2>5. queue' \in Seq(Seq(Bytes)) /\ session' = "idle"
    BY <1>13, <2>2 DEF RecvTakes
  <2>6. session' # "send" /\ session' \in {"idle", "recv", "waiting", "send", "over", "closed"}
    BY <2>5
  <2> QED BY <1>0, <1>13, <2>4, <2>5, <2>6, Zenon DEF FrameTypeOK, RecvTakes
<1>14. CASE RecvBegins \/ RecvFails \/ RecvWaits \/ RecvWoken \/ SendRefused
  <2>1. /\ session' # "send" /\ session' \in {"idle", "recv", "waiting", "send", "over", "closed"}
        /\ notify' \in BOOLEAN
    BY <1>0, <1>14 DEF FrameTypeOK, RecvBegins, RecvFails, RecvWaits, RecvWoken, SendRefused
  <2>2. UNCHANGED <<phoneVars, net, reas, got, queue, err, timer, owes, outgoing, linkVars, envVars>>
    BY <1>14 DEF RecvBegins, RecvFails, RecvWaits, RecvWoken, SendRefused
  <2> QED BY <1>0, <2>1, <2>2, Zenon DEF FrameTypeOK
<1>15. CASE SendBegins
  <2>1. PICK n \in Lengths, per \in Payloads :
          LET record == Record(Len(sent[Down]) + 1, n)
              frags  == Split(record, per, seq[Down])
          IN /\ Framable(record)
             /\ sent' = [sent EXCEPT ![Down] = Append(@, record)]
             /\ seq' = [seq EXCEPT ![Down] = (@ + Len(frags)) % Modulus]
             /\ outgoing' = frags
             /\ session' = "send"
             /\ UNCHANGED <<net, reas, got, connVars, timer, owes, linkVars, envVars>>
    BY <1>15, Zenon DEF SendBegins
  <2>2. /\ outgoing' \in Seq(Fragments) /\ outgoing' # <<>>
        /\ sent' \in [Dirs -> Seq(Seq(Bytes))]
        /\ seq' \in [Dirs -> 0 .. Modulus - 1]
    BY <2>1, FramingTypes DEF Dirs, Down
  <2>3. session' \in {"idle", "recv", "waiting", "send", "over", "closed"}
    BY <2>1
  <2> QED BY <1>0, <2>1, <2>2, <2>3, Zenon DEF FrameTypeOK
<1>16. CASE SendFragment
  <2>1. outgoing \in Seq(Fragments) /\ outgoing # <<>>
    BY <1>0, <1>16 DEF FrameTypeOK, SendFragment
  <2>2. /\ Head(outgoing) \in Fragments /\ Tail(outgoing) \in Seq(Fragments)
        /\ Len(outgoing) # 1 => Tail(outgoing) # <<>>
    <3>1. Head(outgoing) \in Fragments /\ Tail(outgoing) \in Seq(Fragments)
      BY <2>1
    <3>2. Len(outgoing) \in Nat \ {0} /\ Len(Tail(outgoing)) = Len(outgoing) - 1
      BY <2>1
    <3>3. Len(outgoing) # 1 => Len(Tail(outgoing)) # 0
      BY <3>2
    <3>4. Len(<<>>) = 0
      OBVIOUS
    <3> QED BY <3>1, <3>3, <3>4, Zenon
  <2>3. Append(net[Down], Head(outgoing)) \in Seq(Fragments)
    BY <2>2, Types
  <2>4. net' \in [Dirs -> Seq(Fragments)]
    BY <1>0, <1>16, <2>3 DEF FrameTypeOK, SendFragment
  <2>5. /\ outgoing' \in Seq(Fragments)
        /\ session' = "send" => outgoing' # <<>>
        /\ session' \in {"idle", "recv", "waiting", "send", "over", "closed"}
    BY <1>16, <2>2 DEF SendFragment
  <2> QED BY <1>0, <1>16, <2>4, <2>5, Zenon DEF FrameTypeOK, SendFragment
<1>17. CASE SendFindsNoLink \/ SendErrs
  <2>0. sendFails("closed") \/ sendFails("refused")
    BY <1>17 DEF SendFindsNoLink, SendErrs
  <2>1. err' \in Errors /\ owes' \in [Goroutines -> {"nothing", "wake", "wake and close", "tell"}]
    BY <2>0, <1>a, <1>b, FailTypes DEF sendFails
  <2>2. <<>> \in Seq(Fragments)
    OBVIOUS
  <2>3. /\ outgoing' \in Seq(Fragments) /\ session' # "send"
        /\ session' \in {"idle", "recv", "waiting", "send", "over", "closed"}
    BY <2>0, <2>2 DEF sendFails
  <2>4. UNCHANGED <<phoneVars, net, reas, got, queue, notify, timer, linkVars, envVars>>
    BY <2>0 DEF sendFails
  <2> QED BY <1>0, <2>1, <2>3, <2>4, Zenon DEF FrameTypeOK
<1>18. CASE Close
  <2>1. err' \in Errors /\ owes' \in [Goroutines -> {"nothing", "wake", "wake and close", "tell"}]
    BY <1>18, <1>a, <1>b, FailTypes DEF Close
  <2>2. /\ timer' \in {"off", "armed", "stopped", "fired"} /\ session' # "send"
        /\ session' \in {"idle", "recv", "waiting", "send", "over", "closed"}
    BY <1>0, <1>18 DEF FrameTypeOK, Close
  <2> QED BY <1>0, <1>18, <2>1, <2>2, Zenon DEF FrameTypeOK, Close
<1>19. CASE PhoneReceives
  <2>1. /\ net' \in [Dirs -> Seq(Fragments)] /\ reas' \in [Dirs -> Reassemblers]
        /\ reas[Down].buf \o Head(net[Down]).payload \in Seq(Bytes)
    BY <1>19, TakingTypes DEF PhoneReceives, Dirs
  <2>2. Append(got[Down], reas[Down].buf \o Head(net[Down]).payload) \in Seq(Seq(Bytes))
    BY <2>1, Types
  <2>3. got' \in [Dirs -> Seq(Seq(Bytes))]
    BY <1>0, <1>19, <2>2 DEF FrameTypeOK, PhoneReceives
  <2> QED BY <1>0, <1>19, <2>1, <2>3, Zenon DEF FrameTypeOK, PhoneReceives
<1> QED
  BY <1>1, <1>2, <1>3, <1>4, <1>6, <1>7, <1>8, <1>9, <1>10, <1>11, <1>12, <1>13, <1>14,
     <1>15, <1>16, <1>17, <1>18, <1>19 DEF FrameNext

\* Every step keeps the limit.
LEMMA NextLimit ==
  ASSUME FrameInv, FrameNext
  PROVE  WithinLimit'
<1>0. WithinLimit
  BY DEF FrameInv
<1>1. CASE DeliversError \/ DeliversPart
  <2>1. net[Up] # <<>> /\ UNCHANGED <<got, queue>>
    BY <1>1 DEF DeliversError, DeliversPart
  <2>2. reas' = [reas EXCEPT ![Up] = Feed(@, Head(net[Up]))]
    BY <1>1 DEF DeliversError, DeliversPart
  <2>3. reas'[Up] = Feed(reas[Up], Head(net[Up]))
    BY <2>2 DEF FrameInv, FrameTypeOK, Dirs
  <2>4. Bounded(reas'[Up])
    BY <1>0, <2>1, <2>3, Types, TakingTypes, FeedBounded DEF WithinLimit, Bounded, Dirs
  <2> QED BY <1>0, <2>1, <2>4, Zenon DEF WithinLimit, Bounded
<1>2. CASE DeliversRecord
  <2>1. /\ net[Up] # <<>> /\ UNCHANGED got
        /\ Finishes(reas[Up], Head(net[Up]))
        /\ queue' = Append(queue, reas[Up].buf \o Head(net[Up]).payload)
        /\ reas' = [reas EXCEPT ![Up] = Feed(@, Head(net[Up]))]
    BY <1>2 DEF DeliversRecord
  <2>2. reas'[Up] = Feed(reas[Up], Head(net[Up]))
    BY <2>1 DEF FrameInv, FrameTypeOK, Dirs
  <2>3. Bounded(reas'[Up]) /\ Len(reas[Up].buf \o Head(net[Up]).payload) \in 1 .. Limit
    BY <1>0, <2>1, <2>2, Types, TakingTypes, FeedBounded DEF WithinLimit, Bounded, Dirs
  <2>4. \A i \in DOMAIN queue' : Len(queue'[i]) \in 1 .. Limit
    <3>1. queue \in Seq(Seq(Bytes))
      BY DEF FrameInv, FrameTypeOK
    <3>2. \A i \in DOMAIN queue' : (i \in DOMAIN queue /\ queue'[i] = queue[i])
                                  \/ queue'[i] = reas[Up].buf \o Head(net[Up]).payload
      <4>1. \A S, x : \A q \in Seq(S) : \A i \in DOMAIN Append(q, x) :
              (i \in DOMAIN q /\ Append(q, x)[i] = q[i]) \/ Append(q, x)[i] = x
        OBVIOUS
      <4> DEFINE x == reas[Up].buf \o Head(net[Up]).payload
      <4>2. \A i \in DOMAIN Append(queue, x) :
              (i \in DOMAIN queue /\ Append(queue, x)[i] = queue[i]) \/ Append(queue, x)[i] = x
        <5> HIDE DEF x
        <5> QED BY <3>1, <4>1, Zenon
      <4> QED BY <2>1, <4>2, Zenon
    <3> QED BY <1>0, <2>3, <3>2, Zenon DEF WithinLimit
  <2> QED BY <1>0, <2>1, <2>3, <2>4, Zenon DEF WithinLimit, Bounded
<1>3. CASE RecvTakes
  <2>1. /\ queue \in Seq(Seq(Bytes)) /\ queue # <<>> /\ got[Up] \in Seq(Seq(Bytes))
        /\ queue' = Tail(queue) /\ UNCHANGED reas
        /\ got' = [got EXCEPT ![Up] = Append(@, Head(queue))]
    BY <1>3, Types DEF FrameInv, FrameTypeOK, RecvTakes
  <2>2. got'[Up] = Append(got[Up], Head(queue))
    BY <2>1 DEF FrameInv, FrameTypeOK, Dirs
  <2>3. \A i \in DOMAIN queue' : i + 1 \in DOMAIN queue /\ queue'[i] = queue[i + 1]
    BY <2>1
  <2>4. 1 \in DOMAIN queue /\ Head(queue) = queue[1]
    BY <2>1
  <2>5. \A i \in DOMAIN got'[Up] : (i \in DOMAIN got[Up] /\ got'[Up][i] = got[Up][i])
                                  \/ got'[Up][i] = Head(queue)
    BY <2>1, <2>2
  <2>6. Len(Head(queue)) \in 1 .. Limit
    BY <1>0, <2>4, Zenon DEF WithinLimit
  <2>7. \A i \in DOMAIN queue' : Len(queue'[i]) \in 1 .. Limit
    BY <1>0, <2>3, Zenon DEF WithinLimit
  <2>8. \A i \in DOMAIN got'[Up] : Len(got'[Up][i]) \in 1 .. Limit
    BY <1>0, <2>5, <2>6, Zenon DEF WithinLimit
  <2> QED BY <1>0, <2>1, <2>7, <2>8, Zenon DEF WithinLimit
<1>4. CASE PhoneReceives
  <2>1. UNCHANGED queue /\ got'[Up] = got[Up] /\ reas'[Up] = reas[Up]
    BY <1>4 DEF PhoneReceives, FrameInv, FrameTypeOK, Dirs, Up, Down
  <2> QED BY <1>0, <2>1, Zenon DEF WithinLimit
<1>5. CASE aside
  BY <1>0, <1>5, AsideLimit
<1> QED
  BY <1>1, <1>2, <1>3, <1>4, <1>5, StepsAside

\* Together: the invariant is inductive.
LEMMA FrameNextInv == FrameInv /\ [FrameNext]_frameVars => FrameInv'
<1> SUFFICES ASSUME FrameInv, [FrameNext]_frameVars PROVE FrameInv'
  OBVIOUS
<1>1. CASE FrameNext
  BY <1>1, NextTypes, NextLimit DEF FrameInv
<1>2. CASE UNCHANGED frameVars
  BY <1>2, Zenon DEF FrameInv, FrameTypeOK, WithinLimit
<1> QED BY <1>1, <1>2

\* Every variable has its type throughout a connection; in particular Send
\* never runs out of fragments within its loop.
THEOREM FrameTypeCorrect == FrameSpec => []FrameTypeOK
<1>1. FrameInv => FrameTypeOK
  BY DEF FrameInv
<1> QED
  BY FrameInitInv, FrameNextInv, <1>1, PTL DEF FrameSpec

\* No record Recv returns or queues, and no record half put together, is
\* longer than the reassembler's limit, whatever fragments a phone sends and
\* the link makes of them (frame.go feed).
THEOREM LimitIsKept == FrameSpec => []WithinLimit
<1>1. FrameInv => WithinLimit
  BY DEF FrameInv
<1> QED
  BY FrameInitInv, FrameNextInv, <1>1, PTL DEF FrameSpec
-----------------------------------------------------------------------------
(* The budget.                                                             *)

\* s adds up what the first i of the records cost.  Cost(records) is such a
\* sum; nothing of it is computed here, only what one more record adds.
Sums(s, records) ==
  s = [i \in 0 .. Len(records) |->
         IF i = 0 THEN 0 ELSE s[i - 1] + HeaderSize + Len(records[i])]

\* Where there is a sum, Cost is the last value of one.
LEMMA CostIsASum ==
  ASSUME NEW records, \E s : Sums(s, records)
  PROVE  \E s : Sums(s, records) /\ Cost(records) = s[Len(records)]
<1> DEFINE c == CHOOSE s : Sums(s, records)
<1>1. Sums(c, records)
  BY Zenon
<1>2. Cost(records) = c[Len(records)]
  BY Zenon DEF Cost, Sums
<1> QED BY <1>1, <1>2, Zenon

\* Nothing costs nothing.
LEMMA SumOfNone ==
  /\ \E s : Sums(s, <<>>)
  /\ \A s : Sums(s, <<>>) => s[Len(<<>>)] = 0
<1> DEFINE z == [i \in 0 .. 0 |-> 0]
<1>1. Sums(z, <<>>)
  BY DEF Sums
<1>2. \A s : Sums(s, <<>>) => s[Len(<<>>)] = 0
  BY DEF Sums
<1> QED BY <1>1, <1>2, Zenon

\* One record more costs a header and its bytes.
LEMMA SumOfOneMore ==
  ASSUME NEW records \in Seq(Seq(Bytes)), NEW rec \in Seq(Bytes)
  PROVE  /\ (\E s : Sums(s, records)) => \E s : Sums(s, Append(records, rec))
         /\ \A s : Sums(s, Append(records, rec)) =>
              \E t : /\ Sums(t, records)
                     /\ s[Len(Append(records, rec))] = t[Len(records)] + HeaderSize + Len(rec)
<1> DEFINE n == Len(records)
           more == Append(records, rec)
<1>1. n \in Nat /\ Len(more) = n + 1 /\ more[n + 1] = rec
  OBVIOUS
<1>2. \A i \in 1 .. n : more[i] = records[i]
  OBVIOUS
<1> HIDE DEF n, more
<1>3. ASSUME NEW t, Sums(t, records) PROVE \E s : Sums(s, more)
  <2> DEFINE s == [i \in 0 .. n + 1 |-> IF i = n + 1 THEN t[n] + HeaderSize + Len(rec) ELSE t[i]]
  <2>1. t = [i \in 0 .. n |-> IF i = 0 THEN 0 ELSE t[i - 1] + HeaderSize + Len(records[i])]
    BY <1>3 DEF Sums, n
  <2>2. \A i \in 0 .. n : s[i] = t[i]
    BY <1>1
  <2>3. s[n + 1] = t[n] + HeaderSize + Len(rec)
    BY <1>1
  <2>4. \A i \in 0 .. n + 1 :
          s[i] = IF i = 0 THEN 0 ELSE s[i - 1] + HeaderSize + Len(more[i])
    <3> SUFFICES ASSUME NEW i \in 0 .. n + 1
                 PROVE  s[i] = IF i = 0 THEN 0 ELSE s[i - 1] + HeaderSize + Len(more[i])
      OBVIOUS
    <3> HIDE DEF s
    <3>1. CASE i = n + 1
      BY <1>1, <2>2, <2>3, <3>1
    <3>2. CASE i \in 1 .. n
      <4>1. s[i] = t[i] /\ s[i - 1] = t[i - 1]
        BY <1>1, <2>2, <3>2
      <4>2. t[i] = t[i - 1] + HeaderSize + Len(records[i])
        BY <1>1, <2>1, <3>2
      <4> QED BY <1>1, <1>2, <3>2, <4>1, <4>2
    <3>3. CASE i = 0
      BY <1>1, <2>1, <2>2, <3>3
    <3> QED BY <1>1, <3>1, <3>2, <3>3
  <2>5. s = [i \in 0 .. n + 1 |->
               IF i = 0 THEN 0 ELSE s[i - 1] + HeaderSize + Len(more[i])]
    <3>1. s = [i \in 0 .. n + 1 |-> s[i]]
      OBVIOUS
    <3> HIDE DEF s
    <3> QED BY <2>4, <3>1
  <2> HIDE DEF s
  <2>6. Sums(s, more)
    BY <1>1, <2>5 DEF Sums
  <2> QED BY <2>6
<1>4. ASSUME NEW s, Sums(s, more)
      PROVE  \E t : Sums(t, records) /\ s[Len(more)] = t[n] + HeaderSize + Len(rec)
  <2> DEFINE t == [i \in 0 .. n |-> s[i]]
  <2>1. s = [i \in 0 .. n + 1 |-> IF i = 0 THEN 0 ELSE s[i - 1] + HeaderSize + Len(more[i])]
    BY <1>1, <1>4 DEF Sums
  <2>2. \A i \in 0 .. n + 1 : s[i] = IF i = 0 THEN 0 ELSE s[i - 1] + HeaderSize + Len(more[i])
    <3> DEFINE F(i) == IF i = 0 THEN 0 ELSE s[i - 1] + HeaderSize + Len(more[i])
    <3>1. s = [i \in 0 .. n + 1 |-> F(i)]
      BY <2>1
    <3> HIDE DEF F
    <3>2. \A i \in 0 .. n + 1 : s[i] = F(i)
      BY <3>1
    <3> QED BY <3>2 DEF F
  <2>3. \A i \in 0 .. n : t[i] = s[i]
    OBVIOUS
  <2>4. \A i \in 0 .. n : s[i] = IF i = 0 THEN 0 ELSE t[i - 1] + HeaderSize + Len(records[i])
    <3> HIDE DEF t
    <3> SUFFICES ASSUME NEW i \in 0 .. n
                 PROVE  s[i] = IF i = 0 THEN 0 ELSE t[i - 1] + HeaderSize + Len(records[i])
      OBVIOUS
    <3>1. CASE i = 0
      BY <1>1, <2>2, <3>1
    <3>2. CASE i \in 1 .. n
      <4>1. i # 0 /\ i \in 0 .. n + 1 /\ i - 1 \in 0 .. n /\ more[i] = records[i]
        BY <1>1, <1>2, <3>2
      <4>2. s[i] = s[i - 1] + HeaderSize + Len(more[i])
        BY <2>2, <4>1, Zenon
      <4>3. t[i - 1] = s[i - 1]
        BY <2>3, <4>1
      <4> QED BY <4>1, <4>2, <4>3
    <3> QED BY <1>1, <3>1, <3>2
  <2>5. t = [i \in 0 .. n |-> IF i = 0 THEN 0 ELSE t[i - 1] + HeaderSize + Len(records[i])]
    <3>1. t = [i \in 0 .. n |-> s[i]]
      OBVIOUS
    <3> HIDE DEF t
    <3> QED BY <2>4, <3>1
  <2>6. s[n + 1] = t[n] + HeaderSize + Len(rec)
    <3> HIDE DEF t
    <3>1. n + 1 # 0 /\ n + 1 \in 0 .. n + 1 /\ (n + 1) - 1 = n /\ n \in 0 .. n
      BY <1>1
    <3>2. s[n + 1] = s[(n + 1) - 1] + HeaderSize + Len(more[n + 1])
      BY <2>2, <3>1, Zenon
    <3> QED BY <1>1, <2>3, <3>1, <3>2
  <2> HIDE DEF t
  <2>7. Sums(t, records)
    BY <2>5 DEF Sums, n
  <2> QED BY <1>1, <2>6, <2>7
<1> QED BY <1>3, <1>4 DEF n, more

\* What a buffer costs so far, with the header of its first fragment.
begun(buf) == IF buf = <<>> THEN 0 ELSE HeaderSize + Len(buf)

\* It is no less than the buffer, and no more than it with a header.
LEMMA BegunIs ==
  ASSUME NEW b \in Seq(Bytes)
  PROVE  begun(b) \in Nat /\ begun(b) <= HeaderSize + Len(b) /\ Len(b) <= begun(b)
<1>1. HeaderSize \in Nat
  BY SizesAssumption
<1>2. Len(b) \in Nat /\ (b = <<>> => Len(b) = 0)
  OBVIOUS
<1>3. \A h, l \in Nat : h + l \in Nat /\ l <= h + l /\ 0 <= h + l /\ h + l <= h + l
  OBVIOUS
<1>4. CASE b = <<>>
  <2>1. begun(b) = 0
    BY <1>4 DEF begun
  <2>2. Len(b) = 0
    BY <1>2, <1>4
  <2> HIDE DEF begun
  <2> QED BY <1>1, <2>1, <2>2
<1>5. CASE b # <<>>
  <2>1. begun(b) = HeaderSize + Len(b)
    BY <1>5 DEF begun
  <2> QED BY <1>1, <1>2, <1>3, <2>1
<1> QED BY <1>4, <1>5

\* The records a reassembler let through and its buffer cost no more than what
\* it counted, while it has not failed, and never more than the budget.
Budgeted(records, r) ==
  /\ \E s : Sums(s, records)
  /\ \A s : Sums(s, records) =>
       /\ s[Len(records)] \in Nat
       /\ ~ r.failed => s[Len(records)] + begun(r.buf) <= r.received
       /\ MaxBytes # 0 => s[Len(records)] + begun(r.buf) <= MaxBytes

\* Feed keeps that, with the record it finishes.
LEMMA FeedBudget ==
  ASSUME NEW records \in Seq(Seq(Bytes)), NEW r \in Reassemblers, NEW f \in Fragments,
         Budgeted(records, r)
  PROVE  /\ ~ Finishes(r, f) => Budgeted(records, Feed(r, f))
         /\ Finishes(r, f) => Budgeted(Append(records, r.buf \o f.payload), Feed(r, f))
<1>1. /\ r.buf \in Seq(Bytes) /\ r.received \in Nat
      /\ f.payload \in Seq(Bytes) /\ HeaderSize \in Nat /\ MaxBytes \in Nat
  BY SizesAssumption DEF Reassemblers, Fragments, Bytes
<1> DEFINE whole == r.buf \o f.payload
<1>2. /\ whole \in Seq(Bytes) /\ Len(whole) = Len(r.buf) + Len(f.payload)
      /\ Len(r.buf) \in Nat /\ Len(f.payload) \in Nat /\ Len(whole) \in Nat
  <2>1. whole \in Seq(Bytes) /\ Len(whole) = Len(r.buf) + Len(f.payload)
    BY <1>1
  <2>2. Len(r.buf) \in Nat /\ Len(f.payload) \in Nat
    BY <1>1
  <2> HIDE DEF whole
  <2>3. Len(whole) \in Nat
    <3>1. \A q \in Seq(Bytes) : Len(q) \in Nat
      OBVIOUS
    <3> QED BY <2>1, <3>1, Zenon
  <2> QED BY <2>1, <2>2, <2>3
<1> HIDE DEF whole
<1>3. begun(r.buf) \in Nat /\ begun(<<>>) = 0 /\ begun(whole) \in Nat
      /\ begun(whole) <= HeaderSize + Len(whole)
      /\ HeaderSize + Len(whole) <= begun(r.buf) + HeaderSize + Len(f.payload)
  <2>1. begun(<<>>) = 0
    BY DEF begun
  <2>2. begun(whole) \in Nat /\ begun(whole) <= HeaderSize + Len(whole)
    BY <1>2, BegunIs
  <2>3. begun(r.buf) \in Nat /\ Len(r.buf) <= begun(r.buf)
    BY <1>1, BegunIs
  <2>4. \A h, b, l, g \in Nat : b <= g => h + (b + l) <= g + h + l
    OBVIOUS
  <2>5. HeaderSize + Len(whole) <= begun(r.buf) + HeaderSize + Len(f.payload)
    BY <1>1, <1>2, <2>3, <2>4
  <2> QED BY <2>1, <2>2, <2>3, <2>5
<1>4. counted(r, f) = r.received + HeaderSize + Len(f.payload) /\ counted(r, f) \in Nat
  BY <1>1, <1>2 DEF counted
<1>5. /\ \E s : Sums(s, records)
      /\ \A s : Sums(s, records) =>
           /\ s[Len(records)] \in Nat
           /\ ~ r.failed => s[Len(records)] + begun(r.buf) <= r.received
           /\ MaxBytes # 0 => s[Len(records)] + begun(r.buf) <= MaxBytes
  BY DEF Budgeted
\* What is accepted is counted first, and within the budget.
<1>6. ASSUME ~ r.failed, accepts(r, f), NEW t, Sums(t, records)
      PROVE  /\ t[Len(records)] \in Nat
             /\ t[Len(records)] + HeaderSize + Len(whole) <= counted(r, f)
             /\ MaxBytes # 0 => t[Len(records)] + HeaderSize + Len(whole) <= MaxBytes
  <2>1. t[Len(records)] \in Nat /\ t[Len(records)] + begun(r.buf) <= r.received
    BY <1>5, <1>6
  <2>2. \A a, b, c, h, l, w \in Nat : a + b <= c /\ h + w <= b + h + l => a + h + w <= c + h + l
    OBVIOUS
  <2>3. t[Len(records)] + HeaderSize + Len(whole) <= r.received + HeaderSize + Len(f.payload)
    BY <1>1, <1>2, <1>3, <2>1, <2>2
  <2>4. MaxBytes # 0 => counted(r, f) <= MaxBytes
    BY <1>6 DEF accepts
  <2>5. t[Len(records)] + HeaderSize + Len(whole) \in Nat
    <3>1. \A a, b, c \in Nat : a + b + c \in Nat
      OBVIOUS
    <3> QED BY <1>1, <1>2, <2>1, <3>1
  <2>6. \A a, b, c \in Nat : a <= b /\ b <= c => a <= c
    OBVIOUS
  <2> QED BY <1>1, <1>4, <2>1, <2>3, <2>4, <2>5, <2>6
<1>7. CASE r.failed
  <2>1. Feed(r, f) = r /\ ~ Finishes(r, f)
    BY <1>7 DEF Feed, Finishes
  <2> QED BY <2>1
<1>8. CASE ~ r.failed /\ ~ accepts(r, f)
  <2>1. Feed(r, f) = [r EXCEPT !.received = counted(r, f), !.failed = TRUE] /\ ~ Finishes(r, f)
    BY <1>8 DEF Feed, Finishes, completes
  <2>2. Feed(r, f).failed = TRUE /\ Feed(r, f).buf = r.buf
    BY <2>1 DEF Reassemblers
  <2>3. Budgeted(records, Feed(r, f))
    BY <1>5, <2>2, Zenon DEF Budgeted
  <2> QED BY <2>1, <2>3
<1>9. CASE ~ r.failed /\ accepts(r, f) /\ ~ completes(r, f)
  <2>1. Feed(r, f) = fed(r, f) /\ ~ Finishes(r, f)
    BY <1>9 DEF Feed, Finishes
  <2>2. Feed(r, f).buf = whole /\ Feed(r, f).received = counted(r, f)
    <3>1. ~ completes(r, f)
      BY <1>9
    <3>2. fed(r, f).buf = r.buf \o f.payload /\ fed(r, f).received = counted(r, f)
      BY <3>1 DEF fed
    <3> QED BY <2>1, <3>2, Zenon DEF whole
  <2>3. ASSUME NEW t, Sums(t, records)
        PROVE  /\ t[Len(records)] \in Nat
               /\ t[Len(records)] + begun(whole) <= counted(r, f)
               /\ MaxBytes # 0 => t[Len(records)] + begun(whole) <= MaxBytes
    <3>1. /\ t[Len(records)] \in Nat
          /\ t[Len(records)] + HeaderSize + Len(whole) <= counted(r, f)
          /\ MaxBytes # 0 => t[Len(records)] + HeaderSize + Len(whole) <= MaxBytes
      BY <1>6, <1>9, <2>3
    <3>2. \A a, b, h, w, m \in Nat : a + h + w <= m /\ b <= h + w => a + b <= m
      OBVIOUS
    <3> QED BY <1>1, <1>2, <1>3, <1>4, <3>1, <3>2
  <2>4. Budgeted(records, Feed(r, f))
    BY <1>5, <2>2, <2>3, Zenon DEF Budgeted
  <2> QED BY <2>1, <2>4
<1>10. CASE ~ r.failed /\ completes(r, f)
  <2>1. accepts(r, f) /\ Finishes(r, f)
    BY <1>10 DEF completes, Finishes
  <2>2. Feed(r, f) = fed(r, f)
    BY <1>10, <2>1 DEF Feed
  <2>3. Feed(r, f).buf = <<>> /\ Feed(r, f).received = counted(r, f)
    BY <1>10, <2>2 DEF fed
  <2>4. \E s : Sums(s, Append(records, whole))
    BY <1>2, <1>5, SumOfOneMore
  <2>5. ASSUME NEW s, Sums(s, Append(records, whole))
        PROVE  /\ s[Len(Append(records, whole))] \in Nat
               /\ s[Len(Append(records, whole))] + begun(<<>>) <= counted(r, f)
               /\ MaxBytes # 0 => s[Len(Append(records, whole))] + begun(<<>>) <= MaxBytes
    <3>1. PICK t : /\ Sums(t, records)
                   /\ s[Len(Append(records, whole))] = t[Len(records)] + HeaderSize + Len(whole)
      BY <1>2, <2>5, SumOfOneMore
    <3>2. /\ t[Len(records)] \in Nat
          /\ t[Len(records)] + HeaderSize + Len(whole) <= counted(r, f)
          /\ MaxBytes # 0 => t[Len(records)] + HeaderSize + Len(whole) <= MaxBytes
      BY <1>6, <1>10, <2>1, <3>1
    <3>3. t[Len(records)] + HeaderSize + Len(whole) \in Nat
      <4>1. \A a, b, c \in Nat : a + b + c \in Nat
        OBVIOUS
      <4> QED BY <1>1, <1>2, <3>2, <4>1
    <3>4. \A a \in Nat : a + begun(<<>>) = a
      BY <1>3
    <3> QED BY <3>1, <3>2, <3>3, <3>4, Zenon
  <2>6. Budgeted(Append(records, whole), Feed(r, f))
    BY <2>3, <2>4, <2>5, Zenon DEF Budgeted
  <2> QED BY <2>1, <2>6 DEF whole
<1> QED BY <1>7, <1>8, <1>9, <1>10 DEF completes

\* The invariant: the records returned and queued, and the machine's buffer.
BudgetInv == Budgeted(got[Up] \o queue, reas[Up])

LEMMA BudgetInit == FrameInit => BudgetInv
<1> SUFFICES ASSUME FrameInit PROVE BudgetInv
  OBVIOUS
<1>1. got[Up] \o queue = <<>> /\ reas[Up] = NewReassembler
  BY DEF FrameInit, Dirs, Up, Down
<1>2. begun(NewReassembler.buf) = 0 /\ NewReassembler.received = 0 /\ MaxBytes \in Nat
  BY SizesAssumption DEF begun, NewReassembler
<1>3. ASSUME NEW s, Sums(s, <<>>)
      PROVE  /\ s[Len(<<>>)] \in Nat
             /\ s[Len(<<>>)] + begun(NewReassembler.buf) <= NewReassembler.received
             /\ MaxBytes # 0 => s[Len(<<>>)] + begun(NewReassembler.buf) <= MaxBytes
  <2>1. s[Len(<<>>)] = 0
    BY <1>3, SumOfNone
  <2> HIDE DEF NewReassembler
  <2> QED BY <1>2, <2>1
<1>4. Budgeted(<<>>, NewReassembler)
  BY <1>3, SumOfNone, Zenon DEF Budgeted
<1> QED BY <1>1, <1>4 DEF BudgetInv

\* A step that neither feeds the machine's reassembler nor moves a record.
LEMMA BudgetAside ==
  ASSUME BudgetInv, UNCHANGED queue, got'[Up] = got[Up], reas'[Up] = reas[Up]
  PROVE  BudgetInv'
<1>1. (got[Up] \o queue)' = got[Up] \o queue
  OBVIOUS
<1> QED BY <1>1, Zenon DEF BudgetInv, Budgeted, Sums, begun

LEMMA BudgetNext ==
  ASSUME FrameInv, BudgetInv, [FrameNext]_frameVars
  PROVE  BudgetInv'
<1> DEFINE all == got[Up] \o queue
<1>1. /\ got[Up] \in Seq(Seq(Bytes)) /\ queue \in Seq(Seq(Bytes)) /\ all \in Seq(Seq(Bytes))
      /\ reas[Up] \in Reassemblers
  <2>1. got[Up] \in Seq(Seq(Bytes)) /\ queue \in Seq(Seq(Bytes)) /\ reas[Up] \in Reassemblers
    BY Types DEF FrameInv, FrameTypeOK
  <2> QED BY <2>1
<1>2. Budgeted(all, reas[Up])
  BY DEF BudgetInv
<1>3. ASSUME NEW records, NEW r, records = (got[Up] \o queue)', r = reas'[Up], Budgeted(records, r)
      PROVE  BudgetInv'
  BY <1>3 DEF BudgetInv
<1>4. CASE DeliversError \/ DeliversPart
  <2>1. /\ net[Up] # <<>> /\ UNCHANGED <<got, queue>> /\ ~ Finishes(reas[Up], Head(net[Up]))
        /\ reas' = [reas EXCEPT ![Up] = Feed(@, Head(net[Up]))]
    BY <1>4 DEF DeliversError, DeliversPart, Fails, Finishes, completes
  <2>2. reas'[Up] = Feed(reas[Up], Head(net[Up]))
    BY <2>1 DEF FrameInv, FrameTypeOK, Dirs
  <2>3. Head(net[Up]) \in Fragments
    BY <2>1, TakingTypes DEF Dirs
  <2>4. Budgeted(all, Feed(reas[Up], Head(net[Up])))
    BY <1>1, <1>2, <2>1, <2>3, FeedBudget
  <2>5. all = (got[Up] \o queue)'
    BY <2>1
  <2> HIDE DEF all
  <2> QED BY <1>3, <2>2, <2>4, <2>5
<1>5. CASE DeliversRecord
  <2> DEFINE rec == reas[Up].buf \o Head(net[Up]).payload
  <2>1. /\ net[Up] # <<>> /\ UNCHANGED got /\ Finishes(reas[Up], Head(net[Up]))
        /\ queue' = Append(queue, rec)
        /\ reas' = [reas EXCEPT ![Up] = Feed(@, Head(net[Up]))]
    BY <1>5 DEF DeliversRecord
  <2>2. reas'[Up] = Feed(reas[Up], Head(net[Up]))
    BY <2>1 DEF FrameInv, FrameTypeOK, Dirs
  <2>3. Head(net[Up]) \in Fragments /\ rec \in Seq(Bytes)
    BY <2>1, TakingTypes DEF Dirs
  <2>4. Budgeted(Append(all, rec), Feed(reas[Up], Head(net[Up])))
    BY <1>1, <1>2, <2>1, <2>3, FeedBudget
  <2> HIDE DEF rec
  <2>5. Append(all, rec) = (got[Up] \o queue)'
    <3>1. \A S : \A x \in S, a, b \in Seq(S) : Append(a \o b, x) = a \o Append(b, x)
      OBVIOUS
    <3> QED BY <1>1, <2>1, <2>3, <3>1
  <2> HIDE DEF all
  <2> QED BY <1>3, <2>2, <2>4, <2>5
<1>6. CASE RecvTakes
  <2>1. queue # <<>> /\ queue' = Tail(queue) /\ UNCHANGED reas
        /\ got' = [got EXCEPT ![Up] = Append(@, Head(queue))]
    BY <1>6 DEF RecvTakes
  <2>2. got'[Up] = Append(got[Up], Head(queue))
    BY <2>1 DEF FrameInv, FrameTypeOK, Dirs
  <2>3. \A a, b \in Seq(Seq(Bytes)) : b # <<>> => Append(a, Head(b)) \o Tail(b) = a \o b
    OBVIOUS
  <2>4. all = (got[Up] \o queue)'
    BY <1>1, <2>1, <2>2, <2>3
  <2>5. Budgeted(all, reas'[Up])
    BY <1>2, <2>1
  <2> HIDE DEF all
  <2> QED BY <1>3, <2>4, <2>5
<1>7. CASE PhoneReceives
  <2>1. UNCHANGED queue /\ got'[Up] = got[Up] /\ reas'[Up] = reas[Up]
    BY <1>7 DEF PhoneReceives, FrameInv, FrameTypeOK, Dirs, Up, Down
  <2> QED BY <2>1, BudgetAside
<1>8. CASE aside
  <2>1. UNCHANGED queue /\ got'[Up] = got[Up] /\ reas'[Up] = reas[Up]
    BY <1>8 DEF aside
  <2> QED BY <2>1, BudgetAside
<1>9. FrameNext => aside \/ DeliversError \/ DeliversPart \/ DeliversRecord \/ RecvTakes
                   \/ PhoneReceives
  BY StepsAside
<1>10. UNCHANGED frameVars => aside
  BY DEF aside
<1> QED BY <1>4, <1>5, <1>6, <1>7, <1>8, <1>9, <1>10

\* All that Recv has returned, that is queued and that is half put together is
\* within the budget of received bytes, with a header for each record, whatever
\* fragments arrive (frame.go feed, conn.go NewConn).
THEOREM BudgetIsKept == FrameSpec => []WithinBudget
<1>1. FrameInv /\ BudgetInv => WithinBudget
  <2> SUFFICES ASSUME FrameInv, BudgetInv, MaxBytes # 0
               PROVE  Cost(got[Up] \o queue) + Len(reas[Up].buf) <= MaxBytes
    BY DEF WithinBudget
  <2> DEFINE all == got[Up] \o queue
  <2>1. reas[Up].buf \in Seq(Bytes) /\ HeaderSize \in Nat /\ MaxBytes \in Nat
    BY Types, SizesAssumption DEF Reassemblers
  <2>2. \E s : Sums(s, all)
    BY DEF BudgetInv, Budgeted
  <2> HIDE DEF all
  <2>3. PICK s : Sums(s, all) /\ Cost(all) = s[Len(all)]
    BY <2>2, CostIsASum
  <2>4. s[Len(all)] \in Nat /\ s[Len(all)] + begun(reas[Up].buf) <= MaxBytes
    BY <2>3 DEF BudgetInv, Budgeted, all
  <2>5. Len(reas[Up].buf) \in Nat /\ (reas[Up].buf = <<>> => Len(reas[Up].buf) = 0)
    BY <2>1
  <2>6. Len(reas[Up].buf) <= begun(reas[Up].buf) /\ begun(reas[Up].buf) \in Nat
    BY <2>1, <2>5 DEF begun
  <2>7. \A a, b, c, m \in Nat : a + c <= m /\ b <= c => a + b <= m
    OBVIOUS
  <2>8. Cost(all) + Len(reas[Up].buf) <= MaxBytes
    BY <2>1, <2>3, <2>4, <2>5, <2>6, <2>7
  <2> QED BY <2>8 DEF all
<1>2. FrameInv /\ BudgetInv /\ [FrameNext]_frameVars => BudgetInv'
  BY BudgetNext
<1> QED
  BY FrameInitInv, FrameNextInv, BudgetInit, <1>1, <1>2, PTL DEF FrameSpec

-----------------------------------------------------------------------------
(* Framing implements the abstract pipe of whole records (RecordPipe), in  *)
(* both directions: what the reassemblers give out are the records framed, *)
(* whole, each once and in their order, for every modulus of the fragment  *)
(* numbers, any MTU of any moment and fewer faults than the modulus.       *)
(*                                                                         *)
(* The argument follows all fragments ever framed for a direction, from 1  *)
(* to N: the fragment x is the bytes A[x] + 1 to B[x] of the record K[x].  *)
(* The reassembler has taken the first e of them and nothing else.  A fault*)
(* moves a fragment by one place, so that the i-th on its way is one of    *)
(* those within as many places of e + i as there were faults; of these     *)
(* only e + 1 itself has the number the reassembler waits for.             *)

-----------------------------------------------------------------------------
(* Numbers that wrap.                                                     *)

\* Division with remainder.
LEMMA ModuloDivides ==
  ASSUME NEW a \in Nat, NEW m \in Nat \ {0}
  PROVE  \E q, r \in Nat : r = a % m /\ r < m /\ a = m * q + r
<1> DEFINE r == a % m
           q == a \div m
           w == m * q
<1>1. q \in Nat
  OBVIOUS
<1>2. r \in Nat /\ r < m
  OBVIOUS
<1>3. r = a - w
  OBVIOUS
<1>4. w \in Nat
  <2> HIDE DEF q
  <2> QED BY <1>1
<1> HIDE DEF q, r, w
<1>5. a = w + r
  BY <1>2, <1>3, <1>4
<1>6. a = m * q + r
  BY <1>5 DEF w
<1>7. r = a % m
  BY DEF r
<1> QED BY <1>1, <1>2, <1>6, <1>7, Zenon

\* The remainder is the one there is.
LEMMA RemainderIs ==
  ASSUME NEW m \in Nat \ {0}, NEW k \in Nat, NEW t \in Nat, t < m
  PROVE  (m * k + t) % m = t
<1> DEFINE y == m * k + t
<1>0. y \in Nat /\ y = m * k + t
  OBVIOUS
<1> HIDE DEF y
<1>1. PICK q, r \in Nat : r = y % m /\ r < m /\ y = m * q + r
  BY <1>0, ModuloDivides
<1>2. \A u, v, n \in Nat : u >= v + 1 => n * u >= n * v + n
  OBVIOUS
<1>3. ~ (k >= q + 1)
  BY <1>0, <1>1, <1>2
<1>4. ~ (q >= k + 1)
  BY <1>0, <1>1, <1>2
<1>5. q = k
  BY <1>3, <1>4
<1>6. r = t
  BY <1>0, <1>1, <1>5
<1> QED BY <1>1, <1>6 DEF y

\* Numbers less than the modulus apart that have the same remainder are equal.
LEMMA SameRemainder ==
  ASSUME NEW a \in Nat, NEW b \in Nat, NEW m \in Nat \ {0},
         a % m = b % m, a < b + m, b < a + m
  PROVE  a = b
<1>1. PICK p, r \in Nat : r = a % m /\ a = m * p + r
  BY ModuloDivides
<1>2. PICK q, s \in Nat : s = b % m /\ b = m * q + s
  BY ModuloDivides
<1>3. s = r
  BY <1>1, <1>2
<1>4. \A u, v, k \in Nat : u >= v + 1 => k * u >= k * v + k
  OBVIOUS
<1>5. ~ (p >= q + 1)
  BY <1>1, <1>2, <1>3, <1>4
<1>6. ~ (q >= p + 1)
  BY <1>1, <1>2, <1>3, <1>4
<1>7. p = q
  BY <1>1, <1>2, <1>5, <1>6
<1> QED BY <1>1, <1>2, <1>7

\* A counter that wraps counts on as one that does not.
LEMMA RemainderOfSum ==
  ASSUME NEW a \in Nat, NEW i \in Nat, NEW m \in Nat \ {0}
  PROVE  ((a % m) + i) % m = (a + i) % m
<1>1. PICK q, r \in Nat : r = a % m /\ a = m * q + r
  BY ModuloDivides
<1>2. r + i \in Nat
  OBVIOUS
<1>3. PICK k, t \in Nat : t = (r + i) % m /\ t < m /\ r + i = m * k + t
  BY <1>2, ModuloDivides
<1>4. a + i = m * (q + k) + t /\ q + k \in Nat
  BY <1>1, <1>3
<1>5. (m * (q + k) + t) % m = t
  BY <1>3, <1>4, RemainderIs
<1>6. (a + i) % m = t
  BY <1>4, <1>5, Zenon
<1> QED BY <1>1, <1>3, <1>6, Zenon

-----------------------------------------------------------------------------
(* A direction.                                                           *)

\* All fragments framed so far: each is a part of a record, and the next one goes
\* on where it ends.
Cut(N, K, A, B, records) ==
  /\ N \in Nat /\ K \in [Nat -> Nat] /\ A \in [Nat -> Nat] /\ B \in [Nat -> Nat]
  /\ \A x \in 1 .. N : K[x] \in 1 .. Len(records) /\ A[x] < B[x] /\ B[x] <= Len(records[K[x]])
  /\ \A x \in 1 .. N : x < N /\ B[x] = Len(records[K[x]]) => K[x + 1] = K[x] + 1 /\ A[x + 1] = 0
  /\ \A x \in 1 .. N : x < N /\ B[x] # Len(records[K[x]]) => K[x + 1] = K[x] /\ A[x + 1] = B[x]
  /\ N # 0 => K[N] = Len(records) /\ B[N] = Len(records[K[N]])

\* The records out are the first of those in.
Prefix(out, records) ==
  Len(out) <= Len(records) /\ \A i \in 1 .. Len(out) : out[i] = records[i]

\* The first e fragments are taken: into the records out, and into the buffer.
Taken(N, K, A, e, out, buf, records) ==
  /\ e \in Nat /\ e <= N
  /\ Prefix(out, records)
  /\ e < N => /\ K[e + 1] = Len(out) + 1 /\ A[e + 1] = Len(buf)
              /\ buf = SubSeq(records[Len(out) + 1], 1, Len(buf))
  /\ e = N => buf = <<>> /\ Len(out) = Len(records)

\* A fragment is the x-th.
Fragment(f, x, K, A, B, records) ==
  /\ f.total = Len(records[K[x]])
  /\ f.flags = IF A[x] = 0 THEN FlagStart ELSE 0
  /\ f.seq = (x - 1) % Modulus
  /\ f.payload = SubSeq(records[K[x]], A[x] + 1, B[x])

\* Fragments on their way, the first of which is due at off + 1, up to n faults.
Along(frs, off, n, N, K, A, B, records) ==
  \A i \in 1 .. Len(frs) : \E x \in 1 .. N :
    Fragment(frs[i], x, K, A, B, records) /\ x <= off + i + n /\ off + i <= x + n

\* The last fragment framed is the last one on its way, up to n faults, and the
\* next number of the sender follows it.
Ends(frs, more, e, n, N, s) ==
  /\ s = N % Modulus
  /\ N <= e + Len(frs) + Len(more) + n /\ e + Len(frs) + Len(more) <= N + n

\* A direction in which frs are on their way and more are to follow.
Carried(frs, more, records, out, r, n, whole, s) ==
  \E N, K, A, B, e :
    /\ Cut(N, K, A, B, records)
    /\ Taken(N, K, A, e, out, r.buf, records)
    /\ r.seq = e % Modulus
    /\ Along(frs, e, n, N, K, A, B, records)
    /\ Along(more, e + Len(frs), n, N, K, A, B, records)
    /\ whole => Ends(frs, more, e, n, N, s)

\* A buffer and the bytes that go on with it, put together.
Joined(rec, b, p, t) ==
  /\ p \in Seq(Bytes) /\ Len(b) + Len(p) = t /\ b \o p = SubSeq(rec, 1, t)
  /\ Len(SubSeq(rec, 1, t)) = t /\ (t = Len(rec) => b \o p = rec)

\* The bytes that follow those in the buffer continue them.
LEMMA Adjacent ==
  ASSUME NEW rec \in Seq(Bytes), NEW b \in Seq(Bytes), NEW t \in Nat, t <= Len(rec),
         Len(b) < t, b = SubSeq(rec, 1, Len(b))
  PROVE  Joined(rec, b, SubSeq(rec, Len(b) + 1, t), t)
<1> DEFINE p == SubSeq(rec, Len(b) + 1, t)
           w == SubSeq(rec, 1, t)
           k == Len(b)
<1>0. k \in Nat /\ Len(rec) \in Nat
  OBVIOUS
<1>1. p \in Seq(Bytes) /\ Len(p) = t - k /\ \A i \in 1 .. t - k : p[i] = rec[k + i]
  <2>0. k < t /\ t <= Len(rec)
    OBVIOUS
  <2> DEFINE m == k + 1
  <2> HIDE DEF k
  <2>1. m \in Int /\ t \in Int /\ m <= t /\ t - m + 1 = t - k
    BY <1>0, <2>0
  <2>2. \A i \in m .. t : i \in 1 .. Len(rec)
    BY <1>0, <2>0
  <2>3. \A i \in m .. t : rec[i] \in Bytes
    BY <2>2
  <2>4. \A i \in 1 .. t - k : m + i - 1 = k + i
    BY <1>0
  <2>5. p = SubSeq(rec, m, t)
    BY DEF k
  <2> HIDE DEF m, p
  <2>6. /\ SubSeq(rec, m, t) \in Seq(Bytes)
        /\ Len(SubSeq(rec, m, t)) = IF m <= t THEN t - m + 1 ELSE 0
        /\ \A i \in 1 .. t - m + 1 : SubSeq(rec, m, t)[i] = rec[m + i - 1]
    BY <2>1, <2>3, SubSeqProperties
  <2>7. p \in Seq(Bytes) /\ Len(p) = t - k /\ \A i \in 1 .. t - k : p[i] = rec[m + i - 1]
    BY <2>1, <2>5, <2>6
  <2> QED BY <2>4, <2>7
<1>2. w \in Seq(Bytes) /\ Len(w) = t /\ \A i \in 1 .. t : w[i] = rec[i]
  BY <1>0
<1>3. \A i \in 1 .. k : b[i] = rec[i]
  BY <1>0
<1> HIDE DEF p, w
<1>4. b \o p \in Seq(Bytes) /\ Len(b \o p) = t /\ \A i \in 1 .. t : (b \o p)[i] = rec[i]
  <2>0. b \o p \in Seq(Bytes) /\ Len(b \o p) = k + Len(p)
    BY <1>1
  <2>1. b \o p \in Seq(Bytes) /\ Len(b \o p) = t
    BY <1>0, <1>1, <2>0
  <2>2. \A i \in 1 .. k : (b \o p)[i] = rec[i]
    BY <1>0, <1>1, <1>3
  <2>3. \A i \in k + 1 .. t : (b \o p)[i] = rec[i]
    <3> SUFFICES ASSUME NEW i \in k + 1 .. t PROVE (b \o p)[i] = rec[i]
      OBVIOUS
    <3>1. (b \o p)[i] = p[i - k] /\ i - k \in 1 .. t - k /\ k + (i - k) = i
      BY <1>0, <1>1
    <3> QED BY <1>1, <3>1
  <2> QED BY <1>0, <2>1, <2>2, <2>3
<1>5. b \o p = w
  BY <1>2, <1>4, SeqEqual
<1>6. t = Len(rec) => b \o p = rec
  BY <1>4, SeqEqual
<1>7. k + Len(p) = t
  BY <1>0, <1>1
<1>8. Joined(rec, b, p, t)
  BY <1>1, <1>2, <1>5, <1>6, <1>7, Zenon DEF w, Joined
<1> QED BY <1>8 DEF p

\* The fragment the reassembler takes is the next one.
LEMMA TakesTheNext ==
  ASSUME NEW frs \in Seq(Fragments), frs # <<>>, NEW records \in Seq(Seq(Bytes)),
         NEW r \in Reassemblers, NEW n \in Nat, n < Modulus,
         NEW N, NEW K, NEW A, NEW B, NEW e \in Nat, N \in Nat,
         r.seq = e % Modulus, Along(frs, e, n, N, K, A, B, records),
         accepts(r, Head(frs))
  PROVE  e + 1 \in 1 .. N /\ Fragment(Head(frs), e + 1, K, A, B, records)
<1>1. Head(frs) = frs[1] /\ 1 \in 1 .. Len(frs)
  OBVIOUS
<1>2. PICK x \in 1 .. N : Fragment(frs[1], x, K, A, B, records) /\ x <= e + 1 + n /\ e + 1 <= x + n
  BY <1>1 DEF Along
<1>3. (x - 1) % Modulus = e % Modulus
  BY <1>1, <1>2 DEF accepts, Fragment
<1>4. x - 1 \in Nat /\ x - 1 < e + Modulus /\ e < (x - 1) + Modulus /\ Modulus \in Nat \ {0}
  BY <1>2, ModulusAssumption
<1>5. x - 1 = e
  BY <1>3, <1>4, SameRemainder
<1>6. x = e + 1
  BY <1>5
<1> QED BY <1>1, <1>2, <1>6

\* What is left to come after the first is taken.
LEMMA AlongTail ==
  ASSUME NEW frs \in Seq(Fragments), frs # <<>>, NEW e \in Nat, NEW n \in Nat, NEW N \in Nat,
         NEW K, NEW A, NEW B, NEW records, Along(frs, e, n, N, K, A, B, records)
  PROVE  /\ Along(Tail(frs), e + 1, n, N, K, A, B, records)
         /\ e + 1 + Len(Tail(frs)) = e + Len(frs)
<1>1. Len(Tail(frs)) = Len(frs) - 1 /\ Len(frs) \in Nat
  OBVIOUS
<1>2. ASSUME NEW i \in 1 .. Len(Tail(frs))
      PROVE  \E x \in 1 .. N : /\ Fragment(Tail(frs)[i], x, K, A, B, records)
                               /\ x <= e + 1 + i + n /\ e + 1 + i <= x + n
  <2>1. i + 1 \in 1 .. Len(frs) /\ Tail(frs)[i] = frs[i + 1] /\ i \in Nat
    BY <1>1
  <2>2. PICK x \in 1 .. N : /\ Fragment(frs[i + 1], x, K, A, B, records)
                            /\ x <= e + (i + 1) + n /\ e + (i + 1) <= x + n
    BY <2>1 DEF Along
  <2>3. x <= e + 1 + i + n /\ e + 1 + i <= x + n
    BY <2>1, <2>2
  <2> QED BY <2>1, <2>2, <2>3
<1> QED BY <1>1, <1>2 DEF Along

\* What one fragment is cut from, and where the next one goes on.
LEMMA CutAt ==
  ASSUME NEW records \in Seq(Seq(Bytes)), NEW N, NEW K, NEW A, NEW B, Cut(N, K, A, B, records),
         NEW x \in 1 .. N
  PROVE  /\ K[x] \in 1 .. Len(records) /\ records[K[x]] \in Seq(Bytes)
         /\ A[x] \in Nat /\ B[x] \in Nat /\ A[x] < B[x] /\ B[x] <= Len(records[K[x]])
         /\ x # N /\ B[x] = Len(records[K[x]]) => K[x + 1] = K[x] + 1 /\ A[x + 1] = 0
         /\ x # N /\ B[x] # Len(records[K[x]]) => K[x + 1] = K[x] /\ A[x + 1] = B[x]
         /\ x = N => K[x] = Len(records) /\ B[x] = Len(records[K[x]])
         /\ x # N => x + 1 \in 1 .. N
<1>1. N \in Nat /\ K \in [Nat -> Nat] /\ A \in [Nat -> Nat] /\ B \in [Nat -> Nat]
  BY DEF Cut
<1>2. K[x] \in 1 .. Len(records) /\ A[x] < B[x] /\ B[x] <= Len(records[K[x]])
  BY DEF Cut
<1>3. records[K[x]] \in Seq(Bytes)
  BY <1>2
<1>4. x \in Nat /\ (x # N => x < N /\ x + 1 \in 1 .. N) /\ (x = N => N # 0)
  BY <1>1
<1>5. A[x] \in Nat /\ B[x] \in Nat
  BY <1>1, <1>4
<1>6. x # N /\ B[x] = Len(records[K[x]]) => K[x + 1] = K[x] + 1 /\ A[x + 1] = 0
  BY <1>4, Zenon DEF Cut
<1>7. x # N /\ B[x] # Len(records[K[x]]) => K[x + 1] = K[x] /\ A[x + 1] = B[x]
  BY <1>4, Zenon DEF Cut
<1>8. x = N => K[x] = Len(records) /\ B[x] = Len(records[K[x]])
  BY <1>4, Zenon DEF Cut
<1> QED BY <1>2, <1>3, <1>4, <1>5, <1>6, <1>7, <1>8

\* The next fragment, when the reassembler accepts it, adds its bytes to the
\* record, or completes it (frame.go feed).
LEMMA FeedTakes ==
  ASSUME NEW f \in Fragments, NEW records \in Seq(Seq(Bytes)), NEW out \in Seq(Seq(Bytes)),
         NEW r \in Reassemblers, NEW N, NEW K, NEW A, NEW B, NEW e \in Nat,
         Cut(N, K, A, B, records), Taken(N, K, A, e, out, r.buf, records),
         r.seq = e % Modulus, e + 1 \in 1 .. N, Fragment(f, e + 1, K, A, B, records),
         ~ r.failed, accepts(r, f)
  PROVE  /\ Feed(r, f).seq = (e + 1) % Modulus
         /\ Finishes(r, f) =>
              Taken(N, K, A, e + 1, Append(out, r.buf \o f.payload), Feed(r, f).buf, records)
         /\ ~ Finishes(r, f) => Taken(N, K, A, e + 1, out, Feed(r, f).buf, records)
<1> DEFINE b == r.buf
           k == Len(out) + 1
           rec == records[k]
           t == B[e + 1]
<1>1. b \in Seq(Bytes) /\ Len(out) \in Nat /\ Len(records) \in Nat /\ Modulus \in Nat \ {0} /\ N \in Nat
  <2>1. b \in Seq(Bytes) /\ Modulus \in Nat \ {0}
    BY ModulusAssumption DEF Reassemblers
  <2>2. N \in Nat
    BY DEF Cut
  <2>3. Len(out) \in Nat /\ Len(records) \in Nat
    OBVIOUS
  <2> QED BY <2>1, <2>2, <2>3
<1>2. K[e + 1] = k /\ A[e + 1] = Len(b) /\ b = SubSeq(rec, 1, Len(b))
  <2>1. e < N
    BY <1>1
  <2> QED BY <2>1 DEF Taken
<1>3. k \in 1 .. Len(records) /\ rec \in Seq(Bytes)
  <2>1. K[e + 1] \in 1 .. Len(records) /\ records[K[e + 1]] \in Seq(Bytes)
    BY CutAt
  <2> QED BY <1>2, <2>1
<1>4. Len(b) < t /\ t <= Len(rec) /\ t \in Nat
  <2>1. A[e + 1] < B[e + 1] /\ B[e + 1] <= Len(records[K[e + 1]]) /\ B[e + 1] \in Nat
    BY CutAt
  <2> QED BY <1>2, <2>1
<1>a. /\ e + 1 # N => e + 1 + 1 \in 1 .. N
      /\ e + 1 # N /\ t = Len(rec) => K[e + 1 + 1] = k + 1 /\ A[e + 1 + 1] = 0
      /\ e + 1 # N /\ t # Len(rec) => K[e + 1 + 1] = k /\ A[e + 1 + 1] = t
      /\ e + 1 = N => k = Len(records) /\ t = Len(rec)
  <2>1. /\ e + 1 # N /\ B[e + 1] = Len(records[K[e + 1]]) => K[e + 1 + 1] = K[e + 1] + 1 /\ A[e + 1 + 1] = 0
        /\ e + 1 # N /\ B[e + 1] # Len(records[K[e + 1]]) => K[e + 1 + 1] = K[e + 1] /\ A[e + 1 + 1] = B[e + 1]
        /\ e + 1 = N => K[e + 1] = Len(records) /\ B[e + 1] = Len(records[K[e + 1]])
        /\ e + 1 # N => e + 1 + 1 \in 1 .. N
    <3> DEFINE x == e + 1
    <3>1. x \in 1 .. N
      OBVIOUS
    <3> HIDE DEF x
    <3>2. /\ x # N /\ B[x] = Len(records[K[x]]) => K[x + 1] = K[x] + 1 /\ A[x + 1] = 0
          /\ x # N /\ B[x] # Len(records[K[x]]) => K[x + 1] = K[x] /\ A[x + 1] = B[x]
          /\ x = N => K[x] = Len(records) /\ B[x] = Len(records[K[x]])
          /\ x # N => x + 1 \in 1 .. N
      BY <3>1, CutAt
    <3> QED BY <3>2, Zenon DEF x
  <2> QED BY <1>2, <2>1, Zenon
<1>5. /\ f.payload = SubSeq(rec, Len(b) + 1, t) /\ f.total = Len(rec)
  BY <1>2 DEF Fragment
<1> HIDE DEF b, k, rec, t
<1>6. /\ f.payload \in Seq(Bytes) /\ Len(b) + Len(f.payload) = t
      /\ b \o f.payload = SubSeq(rec, 1, t) /\ Len(SubSeq(rec, 1, t)) = t
      /\ t = Len(rec) => b \o f.payload = rec
  <2>1. Joined(rec, b, SubSeq(rec, Len(b) + 1, t), t)
    BY <1>1, <1>2, <1>3, <1>4, Adjacent
  <2>2. Joined(rec, b, f.payload, t)
    BY <1>5, <2>1, Zenon
  <2> QED BY <2>2, Zenon DEF Joined
<1>7. Finishes(r, f) <=> t = Len(rec)
  BY <1>5, <1>6 DEF Finishes, completes, b
<1>8. Feed(r, f) = fed(r, f)
  BY DEF Feed
<1>9. Feed(r, f).seq = (e + 1) % Modulus
  <2>1. Feed(r, f).seq = ((e % Modulus) + 1) % Modulus
    BY <1>8 DEF fed
  <2> QED BY <2>1, <1>1, RemainderOfSum
<1>10. Prefix(out, records)
  BY DEF Taken
<1>11. CASE t = Len(rec)
  <2>1. Feed(r, f).buf = <<>>
    BY <1>7, <1>8, <1>11 DEF fed, Finishes
  <2> DEFINE out2 == Append(out, b \o f.payload)
  <2>2. /\ Len(out2) = k /\ out2[k] = rec /\ \A i \in 1 .. Len(out) : out2[i] = out[i]
    <3>1. b \o f.payload = rec
      BY <1>6, <1>11
    <3>2. out2 = Append(out, rec)
      BY <3>1
    <3> HIDE DEF out2
    <3>3. /\ Len(Append(out, rec)) = Len(out) + 1 /\ Append(out, rec)[Len(out) + 1] = rec
          /\ \A i \in 1 .. Len(out) : Append(out, rec)[i] = out[i]
      BY <1>3
    <3> QED BY <3>2, <3>3 DEF k
  <2> HIDE DEF out2
  <2>3. Prefix(out2, records)
    <3>1. Len(out2) <= Len(records)
      BY <1>1, <1>3, <2>2
    <3>2. ASSUME NEW i \in 1 .. Len(out2) PROVE out2[i] = records[i]
      <4>1. i \in 1 .. Len(out) \/ i = k
        BY <1>1, <2>2 DEF k
      <4>2. i \in 1 .. Len(out) => out2[i] = records[i]
        BY <1>10, <2>2 DEF Prefix
      <4> QED BY <4>1, <4>2, <2>2 DEF rec
    <3> QED BY <3>1, <3>2 DEF Prefix
  <2>4. ASSUME e + 1 < N
        PROVE  /\ K[e + 1 + 1] = Len(out2) + 1 /\ A[e + 1 + 1] = Len(<<>>)
               /\ <<>> = SubSeq(records[Len(out2) + 1], 1, Len(<<>>))
    <3>1. K[e + 1 + 1] = k + 1 /\ A[e + 1 + 1] = 0
      BY <1>1, <1>11, <1>a, <2>4
    <3>2. k + 1 \in 1 .. Len(records)
      <4>1. e + 1 + 1 \in 1 .. N
        BY <1>1, <2>4
      <4>2. K[e + 1 + 1] \in 1 .. Len(records)
        BY <4>1, CutAt
      <4> QED BY <3>1, <4>2
    <3>3. records[k + 1] \in Seq(Bytes)
      BY <3>2
    <3>4. <<>> = SubSeq(records[k + 1], 1, 0)
      BY <3>3
    <3> QED BY <2>2, <3>1, <3>4
  <2>5. e + 1 = N => Len(out2) = Len(records)
    BY <1>a, <2>2
  <2>6. Taken(N, K, A, e + 1, out2, <<>>, records)
    <3>1. e + 1 \in Nat /\ e + 1 <= N
      BY <1>1
    <3> QED BY <3>1, <2>3, <2>4, <2>5 DEF Taken
  <2> QED BY <1>7, <1>9, <1>11, <2>1, <2>6 DEF out2, b
<1>12. CASE t # Len(rec)
  <2>1. Feed(r, f).buf = SubSeq(rec, 1, t)
    <3>1. ~ completes(r, f)
      BY <1>7, <1>12 DEF Finishes
    <3>2. fed(r, f).buf = r.buf \o f.payload
      BY <3>1 DEF fed
    <3> QED BY <1>6, <1>8, <3>2 DEF b
  <2>2. e + 1 # N
    BY <1>a, <1>12
  <2>3. e + 1 < N
    BY <1>1, <2>2
  <2>4. K[e + 1 + 1] = k /\ A[e + 1 + 1] = t
    BY <1>a, <1>12, <2>2
  <2>5. Taken(N, K, A, e + 1, out, SubSeq(rec, 1, t), records)
    <3>1. e + 1 \in Nat /\ e + 1 <= N
      BY <1>1
    <3> QED BY <3>1, <1>6, <1>10, <2>2, <2>4 DEF Taken, k, rec
  <2> QED BY <1>7, <1>9, <1>12, <2>1, <2>5
<1> QED BY <1>11, <1>12

\* What the reassembler takes, it takes from the stream in order; it fails at
\* anything else.
LEMMA CarriedFeeds ==
  ASSUME NEW frs \in Seq(Fragments), frs # <<>>, NEW more \in Seq(Fragments),
         NEW records \in Seq(Seq(Bytes)), NEW out \in Seq(Seq(Bytes)),
         NEW r \in Reassemblers, NEW n \in Nat, n < Modulus, NEW whole, NEW s,
         Carried(frs, more, records, out, r, n, whole, s), ~ Fails(r, Head(frs))
  PROVE  /\ Finishes(r, Head(frs)) =>
              Carried(Tail(frs), more, records, Append(out, r.buf \o Head(frs).payload),
                      Feed(r, Head(frs)), n, whole, s)
         /\ ~ Finishes(r, Head(frs)) =>
              Carried(Tail(frs), more, records, out, Feed(r, Head(frs)), n, whole, s)
<1> DEFINE f == Head(frs)
<1>1. PICK N, K, A, B, e :
        /\ Cut(N, K, A, B, records)
        /\ Taken(N, K, A, e, out, r.buf, records)
        /\ r.seq = e % Modulus
        /\ Along(frs, e, n, N, K, A, B, records)
        /\ Along(more, e + Len(frs), n, N, K, A, B, records)
        /\ whole => Ends(frs, more, e, n, N, s)
  BY Zenon DEF Carried
<1>2. e \in Nat /\ N \in Nat
  BY <1>1 DEF Taken, Cut
<1>3. f \in Fragments /\ Tail(frs) \in Seq(Fragments) /\ Len(frs) \in Nat /\ Len(more) \in Nat
      /\ Len(Tail(frs)) \in Nat
  OBVIOUS
<1>4. ~ r.failed /\ accepts(r, f)
  BY DEF Fails
<1> HIDE DEF f
<1>5. e + 1 \in 1 .. N /\ Fragment(f, e + 1, K, A, B, records)
  BY <1>1, <1>2, <1>4, TakesTheNext DEF f
<1>6. /\ Feed(r, f).seq = (e + 1) % Modulus
      /\ Finishes(r, f) =>
           Taken(N, K, A, e + 1, Append(out, r.buf \o f.payload), Feed(r, f).buf, records)
      /\ ~ Finishes(r, f) => Taken(N, K, A, e + 1, out, Feed(r, f).buf, records)
  BY <1>1, <1>2, <1>3, <1>4, <1>5, FeedTakes
<1>7. /\ Along(Tail(frs), e + 1, n, N, K, A, B, records)
      /\ e + 1 + Len(Tail(frs)) = e + Len(frs)
  BY <1>1, <1>2, AlongTail
<1>8. Along(more, e + 1 + Len(Tail(frs)), n, N, K, A, B, records)
  BY <1>1, <1>7
<1>9. whole => Ends(Tail(frs), more, e + 1, n, N, s)
  BY <1>1, <1>7 DEF Ends
<1>10. CASE Finishes(r, f)
  BY <1>1, <1>6, <1>7, <1>8, <1>9, <1>10, Zenon DEF Carried, f
<1>11. CASE ~ Finishes(r, f)
  BY <1>1, <1>6, <1>7, <1>8, <1>9, <1>11, Zenon DEF Carried, f
<1> QED BY <1>10, <1>11 DEF f

\* Fewer follow, or none any more.
LEMMA CarriedCut ==
  ASSUME NEW frs, NEW more, NEW records, NEW out, NEW r, NEW n, NEW whole, NEW s,
         Carried(frs, more, records, out, r, n, whole, s), NEW s2
  PROVE  Carried(frs, <<>>, records, out, r, n, FALSE, s2)
<1>1. PICK N, K, A, B, e :
        /\ Cut(N, K, A, B, records)
        /\ Taken(N, K, A, e, out, r.buf, records)
        /\ r.seq = e % Modulus
        /\ Along(frs, e, n, N, K, A, B, records)
  BY Zenon DEF Carried
<1>2. Along(<<>>, e + Len(frs), n, N, K, A, B, records)
  BY DEF Along
<1> QED BY <1>1, <1>2, Zenon DEF Carried

-----------------------------------------------------------------------------
(* Faults.                                                                *)

\* A fault moves what is on its way by one place.
Shifted(new, old) ==
  /\ Len(new) <= Len(old) + 1 /\ Len(old) <= Len(new) + 1
  /\ \A i \in 1 .. Len(new) : \E j \in 1 .. Len(old) : new[i] = old[j] /\ i <= j + 1 /\ j <= i + 1

\* A fault moves what is on its way, and no record is the worse for it.
LEMMA CarriedShifted ==
  ASSUME NEW frs \in Seq(Fragments), NEW frs2 \in Seq(Fragments), NEW more \in Seq(Fragments),
         Shifted(frs2, frs), NEW records, NEW out, NEW r, NEW n \in Nat, NEW whole, NEW s,
         Carried(frs, more, records, out, r, n, whole, s)
  PROVE  Carried(frs2, more, records, out, r, n + 1, whole, s)
<1>1. PICK N, K, A, B, e :
        /\ Cut(N, K, A, B, records)
        /\ Taken(N, K, A, e, out, r.buf, records)
        /\ r.seq = e % Modulus
        /\ Along(frs, e, n, N, K, A, B, records)
        /\ Along(more, e + Len(frs), n, N, K, A, B, records)
        /\ whole => Ends(frs, more, e, n, N, s)
  BY Zenon DEF Carried
<1>2. e \in Nat /\ N \in Nat
  BY <1>1 DEF Taken, Cut
<1>3. /\ Len(frs) \in Nat /\ Len(frs2) \in Nat /\ Len(more) \in Nat
      /\ Len(frs2) <= Len(frs) + 1 /\ Len(frs) <= Len(frs2) + 1
  BY DEF Shifted
<1>4. Along(frs2, e, n + 1, N, K, A, B, records)
  <2>1. ASSUME NEW i \in 1 .. Len(frs2)
        PROVE  \E x \in 1 .. N : /\ Fragment(frs2[i], x, K, A, B, records)
                                 /\ x <= e + i + (n + 1) /\ e + i <= x + (n + 1)
    <3>1. PICK j \in 1 .. Len(frs) : frs2[i] = frs[j] /\ i <= j + 1 /\ j <= i + 1
      BY DEF Shifted
    <3>2. PICK x \in 1 .. N : /\ Fragment(frs[j], x, K, A, B, records)
                              /\ x <= e + j + n /\ e + j <= x + n
      BY <1>1, <3>1 DEF Along
    <3>a. \A p \in Nat : \A y \in 1 .. p : y \in Nat
      OBVIOUS
    <3>3. x \in Nat /\ i \in Nat /\ j \in Nat
      BY <1>2, <1>3, <3>a, Zenon
    <3>b. \A a, b, c, d, k \in Nat : /\ b <= d + 1 /\ d <= b + 1 /\ a <= c + d + k /\ c + d <= a + k
                                     => a <= c + b + (k + 1) /\ c + b <= a + (k + 1)
      OBVIOUS
    <3>4. x <= e + i + (n + 1) /\ e + i <= x + (n + 1)
      BY <1>2, <3>1, <3>2, <3>3, <3>b, Zenon
    <3> QED BY <3>1, <3>2, <3>4
  <2> QED BY <2>1 DEF Along
<1>5. Along(more, e + Len(frs2), n + 1, N, K, A, B, records)
  <2>1. ASSUME NEW i \in 1 .. Len(more)
        PROVE  \E x \in 1 .. N : /\ Fragment(more[i], x, K, A, B, records)
                                 /\ x <= e + Len(frs2) + i + (n + 1) /\ e + Len(frs2) + i <= x + (n + 1)
    <3>2. PICK x \in 1 .. N : /\ Fragment(more[i], x, K, A, B, records)
                              /\ x <= e + Len(frs) + i + n /\ e + Len(frs) + i <= x + n
      BY <1>1 DEF Along
    <3>a. \A p \in Nat : \A y \in 1 .. p : y \in Nat
      OBVIOUS
    <3>3. x \in Nat /\ i \in Nat
      BY <1>2, <1>3, <3>a, Zenon
    <3>4. x <= e + Len(frs2) + i + (n + 1) /\ e + Len(frs2) + i <= x + (n + 1)
      BY <1>2, <1>3, <3>2, <3>3
    <3> QED BY <3>2, <3>4
  <2> QED BY <2>1 DEF Along
<1>6. whole => Ends(frs2, more, e, n + 1, N, s)
  <2>1. ASSUME whole
        PROVE  /\ N <= e + Len(frs2) + Len(more) + (n + 1)
               /\ e + Len(frs2) + Len(more) <= N + (n + 1)
    <3>1. N <= e + Len(frs) + Len(more) + n /\ e + Len(frs) + Len(more) <= N + n
      BY <1>1, <2>1 DEF Ends
    <3> QED BY <1>2, <1>3, <3>1
  <2>2. whole => s = N % Modulus
    BY <1>1 DEF Ends
  <2> QED BY <2>1, <2>2, Zenon DEF Ends
<1> QED BY <1>1, <1>4, <1>5, <1>6, Zenon DEF Carried

\* Losing, repeating and swapping are such faults.
LEMMA LostShifts ==
  ASSUME NEW q \in Seq(Fragments), NEW i \in 1 .. Len(q)
  PROVE  RemoveAt(q, i) \in Seq(Fragments) /\ Shifted(RemoveAt(q, i), q)
<1> DEFINE a == SubSeq(q, 1, i - 1)
           b == SubSeq(q, i + 1, Len(q))
           c == a \o b
<1>0. Len(q) \in Nat /\ i \in Nat
  OBVIOUS
<1>1. a \in Seq(Fragments) /\ Len(a) = i - 1 /\ \A j \in 1 .. i - 1 : a[j] = q[j]
  BY <1>0
<1>2. b \in Seq(Fragments) /\ Len(b) = Len(q) - i /\ \A j \in 1 .. Len(q) - i : b[j] = q[i + j]
  BY <1>0
<1> HIDE DEF a, b
<1>3. /\ c \in Seq(Fragments) /\ Len(c) = Len(a) + Len(b)
      /\ \A j \in 1 .. Len(a) + Len(b) : c[j] = IF j <= Len(a) THEN a[j] ELSE b[j - Len(a)]
  BY <1>1, <1>2, ConcatProperties
<1>4. Len(c) = Len(q) - 1
  BY <1>0, <1>1, <1>2, <1>3
<1>5. ASSUME NEW j \in 1 .. Len(c)
      PROVE  \E k \in 1 .. Len(q) : c[j] = q[k] /\ j <= k + 1 /\ k <= j + 1
  <2>1. CASE j < i
    <3>1. j \in 1 .. i - 1 /\ j \in 1 .. Len(q)
      BY <1>0, <1>4, <2>1
    <3>2. c[j] = a[j]
      BY <1>0, <1>1, <1>3, <3>1
    <3> QED BY <1>1, <3>1, <3>2
  <2>2. CASE j >= i
    <3>1. j - (i - 1) \in 1 .. Len(q) - i /\ j + 1 \in 1 .. Len(q) /\ i + (j - (i - 1)) = j + 1
      BY <1>0, <1>4, <2>2
    <3>2. c[j] = b[j - (i - 1)]
      <4>1. ~(j <= i - 1)
        BY <1>0, <1>4, <2>2
      <4> QED BY <1>1, <1>3, <4>1
    <3>3. c[j] = q[j + 1]
      BY <1>2, <3>1, <3>2
    <3>4. j <= (j + 1) + 1 /\ j + 1 <= j + 1
      BY <1>0, <3>1
    <3> QED BY <3>1, <3>3, <3>4
  <2> QED BY <1>0, <1>4, <2>1, <2>2
<1> HIDE DEF c
<1>6. Shifted(c, q)
  BY <1>0, <1>4, <1>5 DEF Shifted
<1> QED BY <1>3, <1>6 DEF RemoveAt, a, b, c

\* A repeated one does.
LEMMA RepeatShifts ==
  ASSUME NEW q \in Seq(Fragments), NEW i \in 1 .. Len(q)
  PROVE  InsertAt(q, i, q[i]) \in Seq(Fragments) /\ Shifted(InsertAt(q, i, q[i]), q)
<1> DEFINE a == SubSeq(q, 1, i - 1)
           a2 == a \o <<q[i]>>
           b == SubSeq(q, i, Len(q))
           c == a2 \o b
<1>0. Len(q) \in Nat /\ i \in Nat /\ q[i] \in Fragments
  OBVIOUS
<1>1. a \in Seq(Fragments) /\ Len(a) = i - 1 /\ \A j \in 1 .. i - 1 : a[j] = q[j]
  BY <1>0
<1>2. b \in Seq(Fragments) /\ Len(b) = Len(q) - i + 1 /\ \A j \in 1 .. Len(q) - i + 1 : b[j] = q[i - 1 + j]
  BY <1>0
<1> HIDE DEF a, b
<1>3. a2 \in Seq(Fragments) /\ Len(a2) = i /\ (\A j \in 1 .. i - 1 : a2[j] = q[j]) /\ a2[i] = q[i]
  BY <1>0, <1>1
<1> HIDE DEF a2
<1>4. \A j \in 1 .. i : a2[j] = q[j]
  BY <1>0, <1>3
<1>5. /\ c \in Seq(Fragments) /\ Len(c) = Len(a2) + Len(b)
      /\ \A j \in 1 .. Len(a2) + Len(b) : c[j] = IF j <= Len(a2) THEN a2[j] ELSE b[j - Len(a2)]
  BY <1>2, <1>3, ConcatProperties
<1>6. Len(c) = Len(q) + 1
  BY <1>0, <1>2, <1>3, <1>5
<1>7. ASSUME NEW j \in 1 .. Len(c)
      PROVE  \E k \in 1 .. Len(q) : c[j] = q[k] /\ j <= k + 1 /\ k <= j + 1
  <2>1. CASE j <= i
    <3>1. j \in 1 .. i /\ j \in 1 .. Len(q)
      BY <1>0, <1>6, <2>1
    <3>2. c[j] = a2[j]
      BY <1>0, <1>3, <1>5, <3>1
    <3> QED BY <1>4, <3>1, <3>2
  <2>2. CASE j > i
    <3>1. j - i \in 1 .. Len(q) - i + 1 /\ j - 1 \in 1 .. Len(q) /\ i - 1 + (j - i) = j - 1
      BY <1>0, <1>6, <2>2
    <3>2. c[j] = b[j - i]
      <4>1. ~(j <= i)
        BY <1>0, <1>6, <2>2
      <4> QED BY <1>3, <1>5, <4>1
    <3>3. c[j] = q[j - 1]
      BY <1>2, <3>1, <3>2
    <3> QED BY <1>0, <3>1, <3>3
  <2> QED BY <1>0, <1>6, <2>1, <2>2
<1> HIDE DEF c
<1>8. Shifted(c, q)
  BY <1>0, <1>6, <1>7 DEF Shifted
<1> QED BY <1>5, <1>8 DEF InsertAt, a, a2, b, c

\* Two that change places do.
LEMMA SwapShifts ==
  ASSUME NEW q \in Seq(Fragments), NEW i \in 2 .. Len(q)
  PROVE  /\ [q EXCEPT ![i] = q[i - 1], ![i - 1] = q[i]] \in Seq(Fragments)
         /\ Shifted([q EXCEPT ![i] = q[i - 1], ![i - 1] = q[i]], q)
<1> DEFINE c == [q EXCEPT ![i] = q[i - 1], ![i - 1] = q[i]]
<1>0. Len(q) \in Nat /\ i \in Nat /\ i - 1 \in 1 .. Len(q) /\ i \in 1 .. Len(q)
  OBVIOUS
<1>1. c \in Seq(Fragments) /\ Len(c) = Len(q)
  BY <1>0
<1>2. c[i] = q[i - 1] /\ c[i - 1] = q[i] /\ \A j \in 1 .. Len(q) : j # i /\ j # i - 1 => c[j] = q[j]
  BY <1>0
<1> HIDE DEF c
<1>3. ASSUME NEW j \in 1 .. Len(c)
      PROVE  \E k \in 1 .. Len(q) : c[j] = q[k] /\ j <= k + 1 /\ k <= j + 1
  <2>1. CASE j = i
    <3>1. j <= (i - 1) + 1 /\ i - 1 <= j + 1
      BY <1>0, <2>1
    <3> QED BY <1>0, <1>2, <2>1, <3>1
  <2>2. CASE j = i - 1
    <3>1. j <= i + 1 /\ i <= j + 1
      BY <1>0, <2>2
    <3> QED BY <1>0, <1>2, <2>2, <3>1
  <2>3. CASE j # i /\ j # i - 1
    <3>1. j \in 1 .. Len(q) /\ j <= j + 1
      BY <1>0, <1>1
    <3> QED BY <1>2, <2>3, <3>1
  <2> QED BY <2>1, <2>2, <2>3
<1>4. Shifted(c, q)
  BY <1>0, <1>1, <1>3 DEF Shifted
<1> QED BY <1>1, <1>4 DEF c

-----------------------------------------------------------------------------
(* Framing a record.                                                      *)

\* Where Split cuts a record of n bytes.
Places(n, per, c) ==
  /\ c \in Nat \ {0}
  /\ \A j \in 1 .. c :
       /\ (j - 1) * per \in Nat /\ j * per \in Nat /\ (j - 1) * per < j * per /\ (j - 1) * per < n
       /\ (j - 1) * per = 0 <=> j = 1
       /\ j # c => j * per < n
       /\ j = c => n <= j * per

\* Split cuts at every multiple of the payload, and at the end.
LEMMA SplitPlaces ==
  ASSUME NEW n \in Nat \ {0}, NEW per \in Nat \ {0}
  PROVE  Places(n, per, (n + per - 1) \div per)
<1> DEFINE c == (n + per - 1) \div per
<1>1. c \in Nat \ {0}
  BY FragmentCount
<1>2. n + per - 1 \in Nat
  OBVIOUS
<1>3. PICK t \in Nat : t < per /\ n + per - 1 = per * c + t
  <2> DEFINE a == n + per - 1
             w == per * c
  <2>1. a % per \in Nat /\ a % per < per /\ a % per = a - w
    BY <1>2
  <2>2. w \in Nat
    <3> HIDE DEF c
    <3> QED BY <1>1
  <2> DEFINE t == a % per
  <2>3. a \in Nat
    BY <1>2
  <2> HIDE DEF w, t, a
  <2>4. t \in Nat /\ t < per /\ a = w + t
    BY <2>1, <2>2, <2>3 DEF t
  <2> QED BY <2>4 DEF a, w
<1> HIDE DEF c
<1>4. per * c < n + per /\ n <= per * c
  BY <1>1, <1>3
<1>5. ASSUME NEW j \in 1 .. c
      PROVE  /\ (j - 1) * per \in Nat /\ j * per \in Nat /\ (j - 1) * per < j * per
             /\ (j - 1) * per < n
             /\ (j - 1) * per = 0 <=> j = 1
             /\ j # c => j * per < n
             /\ j = c => n <= j * per
  <2>1. \A u, v, k \in Nat : u <= v => u * k <= v * k
    OBVIOUS
  <2>2. \A u, k \in Nat : u * k \in Nat /\ (u + 1) * k = u * k + k /\ u * k = k * u
    OBVIOUS
  <2>3. j - 1 \in Nat /\ j \in Nat /\ (j - 1) + 1 = j /\ (j - 1) <= c - 1 /\ c - 1 \in Nat /\ (c - 1) + 1 = c
    BY <1>1
  <2>4. (j - 1) * per \in Nat /\ j * per \in Nat /\ c * per = per * c /\ c * per \in Nat
    BY <2>2, <2>3, <1>1
  <2>5. j * per = (j - 1) * per + per /\ c * per = (c - 1) * per + per
    <3>1. ((j - 1) + 1) * per = (j - 1) * per + per /\ ((c - 1) + 1) * per = (c - 1) * per + per
      BY <2>2, <2>3
    <3> QED BY <2>3, <3>1
  <2>6. (j - 1) * per <= (c - 1) * per /\ (c - 1) * per \in Nat
    BY <2>1, <2>2, <2>3
  <2>7. (c - 1) * per < n
    BY <1>4, <2>4, <2>5, <2>6
  <2>8. (j - 1) * per < n /\ (j - 1) * per < j * per
    BY <2>4, <2>5, <2>6, <2>7
  <2>9. (j - 1) * per = 0 <=> j = 1
    <3>1. \A u, k \in Nat : u # 0 /\ k # 0 => u * k # 0
      OBVIOUS
    <3>2. \A k \in Nat : 0 * k = 0
      OBVIOUS
    <3>3. j = 1 <=> j - 1 = 0
      BY <2>3
    <3> QED BY <2>3, <3>1, <3>2, <3>3
  <2>10. j # c => j * per < n
    <3>1. j # c => j <= c - 1
      BY <1>1
    <3>2. j # c => j * per <= (c - 1) * per
      BY <2>1, <2>3, <3>1
    <3> QED BY <2>4, <2>6, <2>7, <3>2
  <2>11. j = c => n <= j * per
    BY <1>4, <2>4
  <2> QED BY <2>4, <2>8, <2>9, <2>10, <2>11
<1> QED BY <1>1, <1>5 DEF Places, c

\* How many fragments Split makes.
Pieces(record, per) == (Len(record) + per - 1) \div per

\* The fragments of one more record behind those of the earlier ones.
Extended(N, K, A, B, k, n, per, c, K2, A2, B2) ==
  /\ K2 \in [Nat -> Nat] /\ A2 \in [Nat -> Nat] /\ B2 \in [Nat -> Nat]
  /\ \A x \in 1 .. N : K2[x] = K[x] /\ A2[x] = A[x] /\ B2[x] = B[x]
  /\ \A j \in 1 .. c : K2[N + j] = k /\ A2[N + j] = (j - 1) * per /\ B2[N + j] = Short(j * per, n)

\* There is a place for every fragment of one more record.
LEMMA GhostsExtend ==
  ASSUME NEW N \in Nat, NEW K \in [Nat -> Nat], NEW A \in [Nat -> Nat], NEW B \in [Nat -> Nat],
         NEW k \in Nat, NEW n \in Nat \ {0}, NEW per \in Nat \ {0}, NEW c, Places(n, per, c)
  PROVE  \E K2, A2, B2 : Extended(N, K, A, B, k, n, per, c, K2, A2, B2)
<1> DEFINE K2 == [x \in Nat |-> IF x <= N THEN K[x] ELSE k]
           A2 == [x \in Nat |-> IF x <= N THEN A[x] ELSE (x - N - 1) * per]
           B2 == [x \in Nat |-> IF x <= N THEN B[x] ELSE Short((x - N) * per, n)]
<1>1. \A u, v \in Nat : u * v \in Nat
  OBVIOUS
<1>2. \A u \in Nat : Short(u, n) \in Nat
  BY DEF Short
<1>3. K2 \in [Nat -> Nat]
  OBVIOUS
<1>4. A2 \in [Nat -> Nat]
  <2> SUFFICES ASSUME NEW x \in Nat PROVE (IF x <= N THEN A[x] ELSE (x - N - 1) * per) \in Nat
    OBVIOUS
  <2>1. ~ (x <= N) => x - N - 1 \in Nat
    OBVIOUS
  <2>2. ~ (x <= N) => (x - N - 1) * per \in Nat
    BY <1>1, <2>1
  <2> QED BY <2>2
<1>5. B2 \in [Nat -> Nat]
  <2> SUFFICES ASSUME NEW x \in Nat PROVE (IF x <= N THEN B[x] ELSE Short((x - N) * per, n)) \in Nat
    OBVIOUS
  <2>1. ~ (x <= N) => x - N \in Nat
    OBVIOUS
  <2>2. ~ (x <= N) => (x - N) * per \in Nat
    BY <1>1, <2>1
  <2> QED BY <1>2, <2>2
<1>6. ASSUME NEW x \in 1 .. N PROVE K2[x] = K[x] /\ A2[x] = A[x] /\ B2[x] = B[x]
  <2>1. x \in Nat /\ x <= N
    OBVIOUS
  <2> QED BY <2>1
<1>7. ASSUME NEW j \in 1 .. c
      PROVE  K2[N + j] = k /\ A2[N + j] = (j - 1) * per /\ B2[N + j] = Short(j * per, n)
  <2>1. c \in Nat
    BY DEF Places
  <2>2. N + j \in Nat /\ ~ (N + j <= N) /\ N + j - N - 1 = j - 1 /\ N + j - N = j
    BY <2>1
  <2> QED BY <2>2
<1> HIDE DEF K2, A2, B2
<1>8. Extended(N, K, A, B, k, n, per, c, K2, A2, B2)
  BY <1>3, <1>4, <1>5, <1>6, <1>7 DEF Extended
<1> QED BY <1>8, Zenon

\* Earlier fragments stay what they are, and the new ones are cut from the new
\* record.
LEMMA CutExtends ==
  ASSUME NEW records \in Seq(Seq(Bytes)), NEW record \in Seq(Bytes), record # <<>>,
         NEW N, NEW K, NEW A, NEW B, Cut(N, K, A, B, records),
         NEW per, NEW c, Places(Len(record), per, c), NEW K2, NEW A2, NEW B2,
         Extended(N, K, A, B, Len(records) + 1, Len(record), per, c, K2, A2, B2)
  PROVE  Cut(N + c, K2, A2, B2, Append(records, record))
<1> DEFINE records2 == Append(records, record)
           k == Len(records) + 1
           L == Len(record)
<1>1. N \in Nat /\ c \in Nat \ {0} /\ Len(records) \in Nat /\ L \in Nat /\ k \in Nat
  <2>1. N \in Nat
    BY DEF Cut
  <2>2. c \in Nat \ {0}
    BY DEF Places
  <2>3. Len(records) \in Nat /\ L \in Nat
    OBVIOUS
  <2> QED BY <2>1, <2>2, <2>3
<1>2. Len(records2) = k /\ records2[k] = record /\ \A i \in 1 .. Len(records) : records2[i] = records[i]
  OBVIOUS
<1>3. K2 \in [Nat -> Nat] /\ A2 \in [Nat -> Nat] /\ B2 \in [Nat -> Nat]
  BY DEF Extended
<1> HIDE DEF records2, L, k
<1>4. ASSUME NEW j \in 1 .. c
      PROVE  /\ N + j \in 1 .. N + c /\ K2[N + j] = k /\ A2[N + j] < B2[N + j] /\ B2[N + j] <= L
             /\ j # c => B2[N + j] # L /\ K2[N + j + 1] = k /\ A2[N + j + 1] = B2[N + j]
             /\ j = c => B2[N + j] = L
  <2>1. /\ (j - 1) * per \in Nat /\ j * per \in Nat /\ (j - 1) * per < j * per /\ (j - 1) * per < L
        /\ j # c => j * per < L
        /\ j = c => L <= j * per
    BY DEF Places, L
  <2>2. K2[N + j] = k /\ A2[N + j] = (j - 1) * per /\ B2[N + j] = Short(j * per, L)
    BY DEF Extended, k, L
  <2> DEFINE lo == (j - 1) * per
             hi == j * per
  <2>3. j # c => /\ j + 1 \in 1 .. c /\ N + (j + 1) = N + j + 1 /\ (j + 1) - 1 = j
    BY <1>1
  <2>4. j # c => K2[N + j + 1] = k /\ A2[N + j + 1] = hi
    <3>1. j # c => K2[N + (j + 1)] = k /\ A2[N + (j + 1)] = ((j + 1) - 1) * per
      BY <2>3 DEF Extended, k
    <3> QED BY <2>3, <3>1
  <2> HIDE DEF lo, hi
  <2>5. lo < Short(hi, L) /\ Short(hi, L) <= L /\ (j # c => Short(hi, L) = hi /\ hi # L) /\ (j = c => Short(hi, L) = L)
    BY <1>1, <2>1 DEF Short, lo, hi
  <2>6. N + j \in 1 .. N + c
    BY <1>1
  <2> QED BY <2>2, <2>4, <2>5, <2>6 DEF lo, hi
<1>5. ASSUME NEW x \in 1 .. N
      PROVE  /\ K2[x] = K[x] /\ A2[x] = A[x] /\ B2[x] = B[x]
             /\ K[x] \in 1 .. Len(records) /\ records2[K[x]] = records[K[x]]
  <2>1. K2[x] = K[x] /\ A2[x] = A[x] /\ B2[x] = B[x]
    BY DEF Extended
  <2>2. K[x] \in 1 .. Len(records)
    BY DEF Cut
  <2> QED BY <1>2, <2>1, <2>2
<1>6. \A x \in 1 .. N + c : x \in 1 .. N \/ (x - N \in 1 .. c /\ N + (x - N) = x)
  BY <1>1
<1>7. ASSUME NEW x \in 1 .. N + c
      PROVE  K2[x] \in 1 .. k /\ A2[x] < B2[x] /\ B2[x] <= Len(records2[K2[x]])
  <2>1. CASE x \in 1 .. N
    <3>1. A[x] < B[x] /\ B[x] <= Len(records[K[x]])
      BY <2>1 DEF Cut
    <3>2. \A y \in 1 .. Len(records) : y \in 1 .. k
      BY <1>1 DEF k
    <3>3. K[x] \in 1 .. k
      BY <1>5, <2>1, <3>2
    <3> QED BY <1>5, <2>1, <3>1, <3>3
  <2>2. CASE x \notin 1 .. N
    <3>1. x - N \in 1 .. c /\ N + (x - N) = x
      BY <1>6, <2>2
    <3>2. K2[N + (x - N)] = k /\ A2[N + (x - N)] < B2[N + (x - N)] /\ B2[N + (x - N)] <= L
      BY <1>4, <3>1
    <3>3. K2[x] = k /\ A2[x] < B2[x] /\ B2[x] <= L
      BY <3>1, <3>2, Zenon
    <3>4. k \in 1 .. k
      BY <1>1 DEF k
    <3> QED BY <1>2, <3>3, <3>4 DEF L
  <2> QED BY <2>1, <2>2
<1>8. ASSUME NEW x \in 1 .. N + c, x < N + c
      PROVE  /\ B2[x] = Len(records2[K2[x]]) => K2[x + 1] = K2[x] + 1 /\ A2[x + 1] = 0
             /\ B2[x] # Len(records2[K2[x]]) => K2[x + 1] = K2[x] /\ A2[x + 1] = B2[x]
  <2>1. CASE x \in 1 .. N /\ x # N
    <3>1. x + 1 \in 1 .. N /\ x < N
      BY <1>1, <2>1
    <3>2. /\ B[x] = Len(records[K[x]]) => K[x + 1] = K[x] + 1 /\ A[x + 1] = 0
          /\ B[x] # Len(records[K[x]]) => K[x + 1] = K[x] /\ A[x + 1] = B[x]
      BY <2>1, <3>1 DEF Cut
    <3>3. K2[x] = K[x] /\ B2[x] = B[x] /\ records2[K[x]] = records[K[x]]
      BY <1>5, <2>1
    <3>4. K2[x + 1] = K[x + 1] /\ A2[x + 1] = A[x + 1]
      BY <1>5, <3>1
    <3> QED BY <3>2, <3>3, <3>4, Zenon
  <2>2. CASE x = N
    <3>1. x \in 1 .. N /\ N # 0
      BY <1>1, <2>2
    <3>2. K[x] = Len(records) /\ B[x] = Len(records[K[x]])
      BY <2>2, <3>1 DEF Cut
    <3>3. K2[x] = K[x] /\ B2[x] = B[x] /\ records2[K[x]] = records[K[x]]
      BY <1>5, <3>1
    <3>4. K2[x + 1] = k /\ A2[x + 1] = 0
      <4>1. 1 \in 1 .. c /\ N + 1 = x + 1
        BY <1>1, <2>2
      <4>2. K2[N + 1] = k /\ A2[N + 1] = (1 - 1) * per
        BY <4>1 DEF Extended, k
      <4>3. (1 - 1) * per = 0
        BY <4>1 DEF Places
      <4> QED BY <4>1, <4>2, <4>3
    <3> QED BY <3>2, <3>3, <3>4 DEF k
  <2>3. CASE x \notin 1 .. N
    <3>1. x - N \in 1 .. c /\ N + (x - N) = x /\ x - N # c
      BY <1>1, <1>6, <1>8, <2>3
    <3> DEFINE j == x - N
    <3>2. j \in 1 .. c /\ N + j = x /\ j # c
      BY <3>1
    <3> HIDE DEF j
    <3>3. B2[N + j] # L /\ K2[N + j + 1] = k /\ A2[N + j + 1] = B2[N + j] /\ K2[N + j] = k
      BY <1>4, <3>2
    <3>4. B2[x] # L /\ K2[x + 1] = k /\ A2[x + 1] = B2[x] /\ K2[x] = k
      BY <3>2, <3>3, Zenon
    <3> QED BY <1>2, <3>4 DEF L
  <2> QED BY <1>1, <2>1, <2>2, <2>3
<1>9. K2[N + c] = Len(records2) /\ B2[N + c] = Len(records2[K2[N + c]])
  <2>1. c \in 1 .. c
    BY <1>1
  <2> QED BY <1>2, <1>4, <2>1 DEF L
<1>10. N + c \in Nat
  BY <1>1
<1> QED BY <1>2, <1>3, <1>7, <1>8, <1>9, <1>10, Zenon DEF Cut, records2

\* What was taken stays what it is.
LEMMA TakenExtends ==
  ASSUME NEW records \in Seq(Seq(Bytes)), NEW record \in Seq(Bytes), record # <<>>,
         NEW N, NEW K, NEW A, NEW B, Cut(N, K, A, B, records),
         NEW per, NEW c, Places(Len(record), per, c), NEW K2, NEW A2, NEW B2,
         Extended(N, K, A, B, Len(records) + 1, Len(record), per, c, K2, A2, B2),
         NEW e, NEW out \in Seq(Seq(Bytes)), NEW buf, Taken(N, K, A, e, out, buf, records)
  PROVE  Taken(N + c, K2, A2, e, out, buf, Append(records, record))
<1> DEFINE records2 == Append(records, record)
           k == Len(records) + 1
<1>1. N \in Nat /\ c \in Nat \ {0} /\ Len(records) \in Nat /\ k \in Nat /\ e \in Nat /\ Len(out) \in Nat
      /\ e <= N
  <2>1. N \in Nat
    BY DEF Cut
  <2>2. c \in Nat \ {0}
    BY DEF Places
  <2>3. Len(records) \in Nat /\ Len(out) \in Nat
    OBVIOUS
  <2>4. e \in Nat /\ e <= N
    BY DEF Taken
  <2> QED BY <2>1, <2>2, <2>3, <2>4
<1>2. Len(records2) = k /\ records2[k] = record /\ \A i \in 1 .. Len(records) : records2[i] = records[i]
  OBVIOUS
<1> HIDE DEF records2, k
<1>3. Prefix(out, records)
  BY DEF Taken
<1>4. Prefix(out, records2)
  <2>1. Len(out) <= Len(records) /\ \A i \in 1 .. Len(out) : out[i] = records[i]
    BY <1>3 DEF Prefix
  <2>2. \A i \in 1 .. Len(out) : i \in 1 .. Len(records)
    BY <1>1, <2>1
  <2>3. Len(out) <= Len(records2)
    BY <1>1, <1>2, <2>1 DEF k
  <2> QED BY <1>2, <2>1, <2>2, <2>3 DEF Prefix
<1>5. e < N + c /\ e <= N + c
  BY <1>1
<1>6. /\ K2[e + 1] = Len(out) + 1 /\ A2[e + 1] = Len(buf)
      /\ buf = SubSeq(records2[Len(out) + 1], 1, Len(buf))
  <2>1. CASE e < N
    <3>1. e + 1 \in 1 .. N
      BY <1>1, <2>1
    <3>2. K2[e + 1] = K[e + 1] /\ A2[e + 1] = A[e + 1]
      BY <3>1 DEF Extended
    <3>3. /\ K[e + 1] = Len(out) + 1 /\ A[e + 1] = Len(buf)
          /\ buf = SubSeq(records[Len(out) + 1], 1, Len(buf))
      BY <2>1 DEF Taken
    <3>4. K[e + 1] \in 1 .. Len(records)
      BY <3>1 DEF Cut
    <3>5. records2[Len(out) + 1] = records[Len(out) + 1]
      BY <1>2, <3>3, <3>4
    <3> QED BY <3>2, <3>3, <3>5
  <2>2. CASE e = N
    <3>1. buf = <<>> /\ Len(out) = Len(records)
      BY <2>2 DEF Taken
    <3>2. 1 \in 1 .. c
      BY <1>1
    <3>3. K2[N + 1] = k /\ A2[N + 1] = (1 - 1) * per
      BY <3>2 DEF Extended, k
    <3>4. (1 - 1) * per = 0
      BY <3>2 DEF Places
    <3>5. Len(<<>>) = 0 /\ <<>> = SubSeq(record, 1, 0)
      OBVIOUS
    <3>6. Len(out) + 1 = k
      BY <3>1 DEF k
    <3> QED BY <1>2, <2>2, <3>1, <3>3, <3>4, <3>5, <3>6
  <2> QED BY <1>1, <2>1, <2>2
<1>7. e # N + c
  BY <1>1
<1> QED BY <1>1, <1>4, <1>5, <1>6, <1>7 DEF Taken, records2

\* So does what is on its way.
LEMMA AlongExtends ==
  ASSUME NEW records \in Seq(Seq(Bytes)), NEW record \in Seq(Bytes),
         NEW N, NEW K, NEW A, NEW B, Cut(N, K, A, B, records),
         NEW n, NEW per, NEW c \in Nat, NEW K2, NEW A2, NEW B2,
         Extended(N, K, A, B, Len(records) + 1, Len(record), per, c, K2, A2, B2),
         NEW frs, NEW e, Along(frs, e, n, N, K, A, B, records)
  PROVE  Along(frs, e, n, N + c, K2, A2, B2, Append(records, record))
<1> DEFINE records2 == Append(records, record)
<1>1. N \in Nat
  BY DEF Cut
<1>2. \A i \in 1 .. Len(records) : records2[i] = records[i]
  OBVIOUS
<1> HIDE DEF records2
<1>3. ASSUME NEW i \in 1 .. Len(frs)
      PROVE  \E x \in 1 .. N + c :
               Fragment(frs[i], x, K2, A2, B2, records2) /\ x <= e + i + n /\ e + i <= x + n
  <2>1. PICK x \in 1 .. N : Fragment(frs[i], x, K, A, B, records) /\ x <= e + i + n /\ e + i <= x + n
    BY DEF Along
  <2>2. K2[x] = K[x] /\ A2[x] = A[x] /\ B2[x] = B[x]
    BY DEF Extended
  <2>3. K[x] \in 1 .. Len(records)
    BY DEF Cut
  <2>4. records2[K[x]] = records[K[x]]
    BY <1>2, <2>3
  <2>5. Fragment(frs[i], x, K2, A2, B2, records2)
    BY <2>1, <2>2, <2>4 DEF Fragment
  <2>6. x \in 1 .. N + c
    BY <1>1
  <2> QED BY <2>1, <2>5, <2>6
<1> QED BY <1>3 DEF Along, records2

\* What the fragments of one more record are to be laid along.
Behind(records, record, N, K, A, B, per, c, K2, A2, B2, n, off, s) ==
  /\ records \in Seq(Seq(Bytes)) /\ record \in Seq(Bytes) /\ record # <<>> /\ N \in Nat
  /\ c = Pieces(record, per) /\ Places(Len(record), per, c)
  /\ Extended(N, K, A, B, Len(records) + 1, Len(record), per, c, K2, A2, B2)
  /\ n \in Nat /\ off \in Nat /\ N <= off + n /\ off <= N + n /\ s = N % Modulus

\* The fragments Split makes are the new ones, in their order.
LEMMA AlongSplit ==
  ASSUME NEW records, NEW record, NEW N, NEW K, NEW A, NEW B, NEW per, NEW c,
         NEW K2, NEW A2, NEW B2, NEW n, NEW off, NEW s,
         Behind(records, record, N, K, A, B, per, c, K2, A2, B2, n, off, s)
  PROVE  /\ Along(Split(record, per, s), off, n, N + c, K2, A2, B2, Append(records, record))
         /\ Len(Split(record, per, s)) = c
<1>0. /\ records \in Seq(Seq(Bytes)) /\ record \in Seq(Bytes) /\ record # <<>> /\ N \in Nat
      /\ c = Pieces(record, per) /\ Places(Len(record), per, c)
      /\ Extended(N, K, A, B, Len(records) + 1, Len(record), per, c, K2, A2, B2)
      /\ n \in Nat /\ off \in Nat /\ N <= off + n /\ off <= N + n /\ s = N % Modulus
  BY Zenon DEF Behind
<1> USE <1>0
<1> DEFINE records2 == Append(records, record)
           k == Len(records) + 1
           L == Len(record)
           frags == Split(record, per, s)
<1>1. c \in Nat \ {0} /\ L \in Nat /\ Modulus \in Nat \ {0}
  <2>1. c \in Nat \ {0}
    BY DEF Places
  <2>2. L \in Nat
    OBVIOUS
  <2> QED BY <2>1, <2>2, ModulusAssumption
<1>2. records2[k] = record
  OBVIOUS
<1>3. /\ Len(frags) = c
      /\ \A j \in 1 .. c : frags[j] = [total |-> L, flags |-> IF j = 1 THEN FlagStart ELSE 0,
                               seq |-> (s + j - 1) % Modulus,
                               payload |-> SubSeq(record, (j - 1) * per + 1, Short(j * per, L))]
  <2>1. frags = [j \in 1 .. c |-> [total |-> L, flags |-> IF j = 1 THEN FlagStart ELSE 0,
                               seq |-> (s + j - 1) % Modulus,
                               payload |-> SubSeq(record, (j - 1) * per + 1, Short(j * per, L))]]
    BY DEF Split, Pieces
  <2> HIDE DEF frags, L
  <2>2. c \in Nat
    BY <1>1
  <2> QED BY <2>1, <2>2
<1> HIDE DEF records2, k, L, frags
<1>4. ASSUME NEW j \in 1 .. c
      PROVE  \E x \in 1 .. N + c :
               Fragment(frags[j], x, K2, A2, B2, records2) /\ x <= off + j + n /\ off + j <= x + n
  <2>0. j \in Nat /\ j - 1 \in Nat
    BY <1>1
  <2>1. K2[N + j] = k /\ A2[N + j] = (j - 1) * per /\ B2[N + j] = Short(j * per, L)
    BY DEF Extended, k, L
  <2>2. (j - 1) * per = 0 <=> j = 1
    BY DEF Places
  <2>3. (s + j - 1) % Modulus = (N + j - 1) % Modulus
    <3>1. s \in Nat
      BY <1>1
    <3>2. (s + (j - 1)) % Modulus = (N + (j - 1)) % Modulus
      BY <1>1, <2>0, RemainderOfSum
    <3>3. s + j - 1 = s + (j - 1) /\ N + j - 1 = N + (j - 1)
      BY <2>0, <3>1
    <3> QED BY <3>2, <3>3
  <2> DEFINE fl == IF j = 1 THEN FlagStart ELSE 0
             sq == (s + j - 1) % Modulus
             pl == SubSeq(record, (j - 1) * per + 1, Short(j * per, L))
  <2>4. frags[j] = [total |-> L, flags |-> fl, seq |-> sq, payload |-> pl]
    BY <1>3, Zenon
  <2>5. Fragment(frags[j], N + j, K2, A2, B2, records2)
    <3>1. pl = SubSeq(records2[K2[N + j]], A2[N + j] + 1, B2[N + j])
      BY <1>2, <2>1, Zenon
    <3>2. fl = IF A2[N + j] = 0 THEN FlagStart ELSE 0
      BY <2>1, <2>2, Zenon
    <3>3. L = Len(records2[K2[N + j]])
      BY <1>2, <2>1, Zenon DEF L
    <3>4. sq = (N + j - 1) % Modulus
      BY <2>3
    <3> HIDE DEF fl, sq, pl
    <3>5. frags[j].total = L /\ frags[j].flags = fl /\ frags[j].seq = sq /\ frags[j].payload = pl
      BY <2>4
    <3>6. frags[j].total = Len(records2[K2[N + j]])
      BY <3>3, <3>5, Zenon
    <3>7. frags[j].flags = IF A2[N + j] = 0 THEN FlagStart ELSE 0
      BY ONLY <3>2, <3>5
    <3>8. frags[j].seq = (N + j - 1) % Modulus
      BY <3>4, <3>5, Zenon
    <3>9. frags[j].payload = SubSeq(records2[K2[N + j]], A2[N + j] + 1, B2[N + j])
      BY <3>1, <3>5, Zenon
    <3> QED BY ONLY <1>0, <2>0, <3>6, <3>7, <3>8, <3>9 DEF Fragment
  <2>6. N + j \in 1 .. N + c /\ N + j <= off + j + n /\ off + j <= N + j + n
    BY <1>1, <2>0
  <2> QED BY <2>5, <2>6
<1>5. Along(frags, off, n, N + c, K2, A2, B2, records2)
  BY <1>3, <1>4, Zenon DEF Along
<1> QED BY <1>3, <1>5 DEF frags, records2

\* A record is framed: its fragments follow those of the ones before.
LEMMA CarriedSends ==
  ASSUME NEW frs \in Seq(Fragments), NEW records \in Seq(Seq(Bytes)), NEW out \in Seq(Seq(Bytes)),
         NEW r, NEW n \in Nat, NEW s, NEW record \in Seq(Bytes), record # <<>>,
         NEW per \in Nat \ {0}, Carried(frs, <<>>, records, out, r, n, TRUE, s)
  PROVE  Carried(frs, Split(record, per, s), Append(records, record), out, r, n, TRUE,
                 (s + Len(Split(record, per, s))) % Modulus)
<1> DEFINE c == (Len(record) + per - 1) \div per
<1>1. PICK N, K, A, B, e :
        /\ Cut(N, K, A, B, records)
        /\ Taken(N, K, A, e, out, r.buf, records)
        /\ r.seq = e % Modulus
        /\ Along(frs, e, n, N, K, A, B, records)
        /\ TRUE => Ends(frs, <<>>, e, n, N, s)
  BY Zenon DEF Carried
<1>2. /\ N \in Nat /\ e \in Nat /\ Len(frs) \in Nat /\ Len(record) \in Nat \ {0} /\ Len(records) \in Nat
      /\ K \in [Nat -> Nat] /\ A \in [Nat -> Nat] /\ B \in [Nat -> Nat] /\ Modulus \in Nat \ {0}
  <2>1. N \in Nat /\ K \in [Nat -> Nat] /\ A \in [Nat -> Nat] /\ B \in [Nat -> Nat]
    BY <1>1 DEF Cut
  <2>2. e \in Nat
    BY <1>1 DEF Taken
  <2>3. Len(frs) \in Nat /\ Len(record) \in Nat \ {0} /\ Len(records) \in Nat
    OBVIOUS
  <2> QED BY <2>1, <2>2, <2>3, ModulusAssumption
<1>3. s = N % Modulus /\ N <= e + Len(frs) + n /\ e + Len(frs) <= N + n
  <2>1. Len(<<>>) = 0
    OBVIOUS
  <2>2. /\ s = N % Modulus
        /\ N <= e + Len(frs) + Len(<<>>) + n /\ e + Len(frs) + Len(<<>>) <= N + n
    BY <1>1 DEF Ends
  <2>3. e + Len(frs) + 0 = e + Len(frs)
    BY <1>2
  <2> QED BY <2>1, <2>2, <2>3
<1>4. Places(Len(record), per, c)
  BY <1>2, SplitPlaces
<1>5. c \in Nat \ {0}
  BY <1>4, Zenon DEF Places
<1>a. c = Pieces(record, per)
  BY DEF Pieces
<1> HIDE DEF c
<1>6. PICK K2, A2, B2 : Extended(N, K, A, B, Len(records) + 1, Len(record), per, c, K2, A2, B2)
  <2>1. Len(records) + 1 \in Nat
    BY <1>2
  <2> QED BY <1>2, <1>4, <2>1, GhostsExtend
<1> DEFINE records2 == Append(records, record)
           frags == Split(record, per, s)
           off == e + Len(frs)
<1>7. Cut(N + c, K2, A2, B2, records2)
  BY <1>1, <1>4, <1>6, CutExtends
<1>8. Taken(N + c, K2, A2, e, out, r.buf, records2)
  BY <1>1, <1>4, <1>6, TakenExtends
<1>9. Along(frs, e, n, N + c, K2, A2, B2, records2)
  <2>1. c \in Nat
    BY <1>5
  <2> QED BY <1>1, <1>6, <2>1, AlongExtends
<1>10. Along(frags, off, n, N + c, K2, A2, B2, records2) /\ Len(frags) = c
  <2>1. off \in Nat /\ N <= off + n /\ off <= N + n
    BY <1>2, <1>3
  <2> HIDE DEF off
  <2>2. s = N % Modulus
    BY <1>3
  <2>3. Behind(records, record, N, K, A, B, per, c, K2, A2, B2, n, off, s)
    <3>1. records \in Seq(Seq(Bytes)) /\ record \in Seq(Bytes) /\ record # <<>> /\ n \in Nat /\ N \in Nat
      BY <1>2
    <3> HIDE DEF frags, records2
    <3> QED BY ONLY <1>4, <1>6, <1>a, <2>1, <2>2, <3>1, Zenon DEF Behind
  <2>4. /\ Along(Split(record, per, s), off, n, N + c, K2, A2, B2, Append(records, record))
        /\ Len(Split(record, per, s)) = c
    <3> HIDE DEF frags, records2
    <3> QED BY ONLY <2>3, AlongSplit
  <2> QED BY <2>4
<1>11. Ends(frs, frags, e, n, N + c, (s + Len(frags)) % Modulus)
  <2>1. ((N % Modulus) + c) % Modulus = (N + c) % Modulus
    <3>1. N \in Nat /\ c \in Nat /\ Modulus \in Nat \ {0}
      BY <1>2, <1>5
    <3> QED BY ONLY <3>1, RemainderOfSum, Zenon
  <2>2. (s + Len(frags)) % Modulus = (N + c) % Modulus
    BY <1>3, <1>10, <2>1, Zenon
  <2>3. N + c <= e + Len(frs) + c + n /\ e + Len(frs) + c <= N + c + n
    <3>1. \A a, b, d, p, q \in Nat : a <= b + d + q /\ b + d <= a + q
                                       => a + p <= b + d + p + q /\ b + d + p <= a + p + q
      OBVIOUS
    <3> QED BY <1>2, <1>3, <1>5, <3>1, Zenon
  <2> HIDE DEF frags
  <2> QED BY <1>10, <2>2, <2>3 DEF Ends
<1> HIDE DEF records2, frags
<1>12. Carried(frs, frags, records2, out, r, n, TRUE, (s + Len(frags)) % Modulus)
  BY <1>1, <1>7, <1>8, <1>9, <1>10, <1>11, Zenon DEF Carried
<1> QED BY <1>12 DEF records2, frags

\* The next fragment is handed to the link.
LEMMA CarriedMoves ==
  ASSUME NEW frs \in Seq(Fragments), NEW more \in Seq(Fragments), more # <<>>,
         NEW records, NEW out, NEW r, NEW n \in Nat, NEW whole, NEW s,
         Carried(frs, more, records, out, r, n, whole, s)
  PROVE  Carried(Append(frs, Head(more)), Tail(more), records, out, r, n, whole, s)
<1>1. PICK N, K, A, B, e :
        /\ Cut(N, K, A, B, records)
        /\ Taken(N, K, A, e, out, r.buf, records)
        /\ r.seq = e % Modulus
        /\ Along(frs, e, n, N, K, A, B, records)
        /\ Along(more, e + Len(frs), n, N, K, A, B, records)
        /\ whole => Ends(frs, more, e, n, N, s)
  BY Zenon DEF Carried
<1> DEFINE frs2 == Append(frs, Head(more))
           more2 == Tail(more)
           off == e + Len(frs)
<1>2. e \in Nat /\ N \in Nat
  BY <1>1 DEF Taken, Cut
<1>3. /\ Len(frs) \in Nat /\ Len(more) \in Nat /\ Len(frs2) = Len(frs) + 1 /\ Len(more2) = Len(more) - 1
      /\ Len(more2) \in Nat /\ Head(more) = more[1] /\ 1 \in 1 .. Len(more)
      /\ \A i \in 1 .. Len(frs) : frs2[i] = frs[i]
      /\ frs2[Len(frs) + 1] = more[1]
  OBVIOUS
<1>4. off \in Nat
  BY <1>2, <1>3
<1>5. /\ Along(more2, off + 1, n, N, K, A, B, records)
      /\ off + 1 + Len(more2) = off + Len(more)
  <2> HIDE DEF off
  <2>1. Along(more, off, n, N, K, A, B, records)
    BY <1>1 DEF off
  <2> QED BY <1>2, <1>4, <2>1, AlongTail
<1> HIDE DEF frs2, more2
<1>6. Along(more2, e + Len(frs2), n, N, K, A, B, records)
  <2>1. off + 1 = e + Len(frs2)
    BY <1>2, <1>3
  <2> QED BY <1>5, <2>1, Zenon
<1>7. Along(frs2, e, n, N, K, A, B, records)
  <2>1. ASSUME NEW i \in 1 .. Len(frs2)
        PROVE  \E x \in 1 .. N : /\ Fragment(frs2[i], x, K, A, B, records)
                                 /\ x <= e + i + n /\ e + i <= x + n
    <3>1. CASE i \in 1 .. Len(frs)
      BY <1>1, <1>3, <3>1 DEF Along
    <3>2. CASE i = Len(frs) + 1
      <4>1. PICK x \in 1 .. N : /\ Fragment(more[1], x, K, A, B, records)
                                /\ x <= e + Len(frs) + 1 + n /\ e + Len(frs) + 1 <= x + n
        BY <1>1, <1>3 DEF Along
      <4>2. e + Len(frs) + 1 = e + i
        BY <1>2, <1>3, <3>2
      <4> QED BY <1>3, <3>2, <4>1, <4>2
    <3> QED BY <1>3, <3>1, <3>2
  <2> QED BY <2>1 DEF Along
<1>8. whole => Ends(frs2, more2, e, n, N, s)
  <2>1. e + Len(frs2) + Len(more2) = e + Len(frs) + Len(more)
    BY <1>2, <1>3
  <2> QED BY <1>1, <2>1, Zenon DEF Ends
<1>9. Carried(frs2, more2, records, out, r, n, whole, s)
  BY <1>1, <1>6, <1>7, <1>8, Zenon DEF Carried
<1> QED BY <1>9 DEF frs2, more2

\* All of them are.
LEMMA CarriedJoins ==
  ASSUME NEW frs \in Seq(Fragments), NEW more \in Seq(Fragments),
         NEW records, NEW out, NEW r, NEW n \in Nat, NEW whole, NEW s,
         Carried(frs, more, records, out, r, n, whole, s)
  PROVE  Carried(frs \o more, <<>>, records, out, r, n, whole, s)
<1>1. PICK N, K, A, B, e :
        /\ Cut(N, K, A, B, records)
        /\ Taken(N, K, A, e, out, r.buf, records)
        /\ r.seq = e % Modulus
        /\ Along(frs, e, n, N, K, A, B, records)
        /\ Along(more, e + Len(frs), n, N, K, A, B, records)
        /\ whole => Ends(frs, more, e, n, N, s)
  BY Zenon DEF Carried
<1> DEFINE all == frs \o more
<1>2. e \in Nat /\ N \in Nat /\ Len(frs) \in Nat /\ Len(more) \in Nat /\ Len(<<>>) = 0
  <2>1. e \in Nat /\ N \in Nat
    BY <1>1 DEF Taken, Cut
  <2>2. Len(frs) \in Nat /\ Len(more) \in Nat /\ Len(<<>>) = 0
    OBVIOUS
  <2> QED BY <2>1, <2>2
<1>3. /\ Len(all) = Len(frs) + Len(more)
      /\ \A i \in 1 .. Len(frs) + Len(more) : all[i] = IF i <= Len(frs) THEN frs[i] ELSE more[i - Len(frs)]
  BY ConcatProperties
<1> HIDE DEF all
<1>4. Along(all, e, n, N, K, A, B, records)
  <2>1. ASSUME NEW i \in 1 .. Len(all)
        PROVE  \E x \in 1 .. N : /\ Fragment(all[i], x, K, A, B, records)
                                 /\ x <= e + i + n /\ e + i <= x + n
    <3>1. CASE i <= Len(frs)
      <4>1. i \in 1 .. Len(frs) /\ all[i] = frs[i]
        BY <1>2, <1>3, <3>1
      <4> QED BY <1>1, <4>1 DEF Along
    <3>2. CASE ~ (i <= Len(frs))
      <4> DEFINE j == i - Len(frs)
      <4>1. j \in 1 .. Len(more) /\ all[i] = more[j] /\ e + Len(frs) + j = e + i
        BY <1>2, <1>3, <3>2
      <4> HIDE DEF j
      <4>2. PICK x \in 1 .. N : /\ Fragment(more[j], x, K, A, B, records)
                                /\ x <= e + Len(frs) + j + n /\ e + Len(frs) + j <= x + n
        BY <1>1, <4>1 DEF Along
      <4> QED BY <4>1, <4>2
    <3> QED BY <3>1, <3>2
  <2> QED BY <2>1 DEF Along
<1>5. Along(<<>>, e + Len(all), n, N, K, A, B, records)
  BY DEF Along
<1>6. whole => Ends(all, <<>>, e, n, N, s)
  <2>1. e + Len(all) + Len(<<>>) = e + Len(frs) + Len(more)
    BY <1>2, <1>3
  <2> QED BY <1>1, <2>1, Zenon DEF Ends
<1>7. Carried(all, <<>>, records, out, r, n, whole, s)
  BY <1>1, <1>4, <1>5, <1>6, Zenon DEF Carried
<1> QED BY <1>7 DEF all

-----------------------------------------------------------------------------
(* The state of a direction.                                              *)

\* What holds of a direction: the records out are those that went in, from the
\* first on, and while the link is there and the reassembler has not failed
\* what is under way goes on with them.
Sound(frs, more, records, out, r, lk, n, whole, s) ==
  /\ Prefix(out, records)
  /\ lk # "gone" /\ ~ r.failed => Carried(frs, more, records, out, r, n, whole, s)

\* Feeding the next fragment, whichever it is.
LEMMA SoundFeeds ==
  ASSUME NEW frs \in Seq(Fragments), frs # <<>>, NEW more \in Seq(Fragments),
         NEW records \in Seq(Seq(Bytes)), NEW out \in Seq(Seq(Bytes)),
         NEW r \in Reassemblers, NEW n \in Nat, n < Modulus, NEW whole, NEW s,
         NEW lk, lk # "gone", Sound(frs, more, records, out, r, lk, n, whole, s)
  PROVE  /\ Finishes(r, Head(frs)) =>
              Sound(Tail(frs), more, records, Append(out, r.buf \o Head(frs).payload),
                    Feed(r, Head(frs)), lk, n, whole, s)
         /\ ~ Finishes(r, Head(frs)) =>
              Sound(Tail(frs), more, records, out, Feed(r, Head(frs)), lk, n, whole, s)
<1> DEFINE f == Head(frs)
<1>1. CASE Fails(r, f)
  <2>1. ~ Finishes(r, f)
    BY <1>1 DEF Fails, Finishes, completes
  <2>2. Feed(r, f).failed
    BY <1>1 DEF Fails, Feed, Reassemblers
  <2>3. Prefix(out, records)
    BY DEF Sound
  <2> HIDE DEF f
  <2>4. Sound(Tail(frs), more, records, out, Feed(r, f), lk, n, whole, s)
    BY <2>2, <2>3, Zenon DEF Sound
  <2> QED BY <2>1, <2>4 DEF f
<1>2. CASE ~ Fails(r, f)
  <2>1. ~ r.failed
    BY <1>2 DEF Fails
  <2>2. Carried(frs, more, records, out, r, n, whole, s)
    BY <2>1 DEF Sound
  <2>3. /\ Finishes(r, f) =>
              Carried(Tail(frs), more, records, Append(out, r.buf \o f.payload), Feed(r, f), n, whole, s)
        /\ ~ Finishes(r, f) =>
              Carried(Tail(frs), more, records, out, Feed(r, f), n, whole, s)
    BY <1>2, <2>2, CarriedFeeds
  <2>4. ASSUME NEW q, NEW o, NEW t, Carried(q, more, records, o, t, n, whole, s)
        PROVE  Sound(q, more, records, o, t, lk, n, whole, s)
    <3>1. Prefix(o, records)
      BY <2>4, Zenon DEF Carried, Taken
    <3> QED BY <2>4, <3>1, Zenon DEF Sound
  <2> HIDE DEF f
  <2>5. /\ Finishes(r, f) =>
              Sound(Tail(frs), more, records, Append(out, r.buf \o f.payload), Feed(r, f), lk, n, whole, s)
        /\ ~ Finishes(r, f) =>
              Sound(Tail(frs), more, records, out, Feed(r, f), lk, n, whole, s)
    BY <2>3, <2>4, Zenon
  <2> QED BY <2>5 DEF f
<1> QED BY <1>1, <1>2

\* A fault on the way.
LEMMA SoundShifts ==
  ASSUME NEW frs \in Seq(Fragments), NEW frs2 \in Seq(Fragments), NEW more \in Seq(Fragments),
         Shifted(frs2, frs), NEW records, NEW out, NEW r, NEW lk, NEW n \in Nat, NEW whole, NEW s,
         Sound(frs, more, records, out, r, lk, n, whole, s)
  PROVE  Sound(frs2, more, records, out, r, lk, n + 1, whole, s)
BY CarriedShifted DEF Sound

\* More records go in.
LEMMA PrefixGrows ==
  ASSUME NEW records \in Seq(Seq(Bytes)), NEW record \in Seq(Bytes), NEW out \in Seq(Seq(Bytes)),
         Prefix(out, records)
  PROVE  Prefix(out, Append(records, record))
<1> DEFINE records2 == Append(records, record)
<1>1. /\ Len(records) \in Nat /\ Len(out) \in Nat /\ Len(records2) = Len(records) + 1
      /\ \A i \in 1 .. Len(records) : records2[i] = records[i]
  OBVIOUS
<1> HIDE DEF records2
<1>2. Len(out) <= Len(records) /\ \A i \in 1 .. Len(out) : out[i] = records[i]
  BY DEF Prefix
<1>3. Len(out) <= Len(records2) /\ \A i \in 1 .. Len(out) : i \in 1 .. Len(records)
  BY <1>1, <1>2
<1> QED BY <1>1, <1>2, <1>3 DEF Prefix, records2

\* Framing a record.
LEMMA SoundSends ==
  ASSUME NEW frs \in Seq(Fragments), NEW records \in Seq(Seq(Bytes)), NEW out \in Seq(Seq(Bytes)),
         NEW r, NEW lk, NEW n \in Nat, NEW s, NEW record \in Seq(Bytes), record # <<>>,
         NEW per \in Nat \ {0}, Sound(frs, <<>>, records, out, r, lk, n, TRUE, s)
  PROVE  Sound(frs, Split(record, per, s), Append(records, record), out, r, lk, n, TRUE,
                 (s + Len(Split(record, per, s))) % Modulus)
<1> DEFINE frags == Split(record, per, s)
           s2 == (s + Len(frags)) % Modulus
           records2 == Append(records, record)
<1>1. Prefix(out, records2)
  BY PrefixGrows DEF Sound
<1>2. ASSUME lk # "gone", ~ r.failed
      PROVE  Carried(frs, frags, records2, out, r, n, TRUE, s2)
  <2>1. Carried(frs, <<>>, records, out, r, n, TRUE, s)
    BY <1>2, Zenon DEF Sound
  <2> QED BY <2>1, CarriedSends
<1> HIDE DEF frags, records2, s2
<1>3. Sound(frs, frags, records2, out, r, lk, n, TRUE, s2)
  BY <1>1, <1>2, Zenon DEF Sound
<1> QED BY <1>3 DEF frags, records2, s2

\* Writing all of its fragments.
LEMMA SoundJoins ==
  ASSUME NEW frs \in Seq(Fragments), NEW more \in Seq(Fragments),
         NEW records, NEW out, NEW r, NEW lk, NEW n \in Nat, NEW whole, NEW s,
         Sound(frs, more, records, out, r, lk, n, whole, s)
  PROVE  Sound(frs \o more, <<>>, records, out, r, lk, n, whole, s)
BY CarriedJoins DEF Sound

\* Handing one of them to the link.
LEMMA SoundMoves ==
  ASSUME NEW frs \in Seq(Fragments), NEW more \in Seq(Fragments), more # <<>>,
         NEW records, NEW out, NEW r, NEW lk, NEW n \in Nat, NEW whole, NEW s,
         Sound(frs, more, records, out, r, lk, n, whole, s)
  PROVE  Sound(Append(frs, Head(more)), Tail(more), records, out, r, lk, n, whole, s)
BY CarriedMoves DEF Sound

\* Giving up the rest of them.
LEMMA SoundStops ==
  ASSUME NEW frs, NEW more, NEW records, NEW out, NEW r, NEW lk, NEW n, NEW whole, NEW s, NEW s2,
         Sound(frs, more, records, out, r, lk, n, whole, s)
  PROVE  Sound(frs, <<>>, records, out, r, lk, n, FALSE, s2)
BY CarriedCut, Zenon DEF Sound

\* The link never comes back, and what it lost matters no more.
LEMMA SoundLink ==
  ASSUME NEW frs, NEW more, NEW records, NEW out, NEW r, NEW lk, NEW n, NEW whole, NEW s,
         Sound(frs, more, records, out, r, lk, n, whole, s),
         NEW frs2, NEW more2, NEW lk2, NEW n2, NEW whole2, NEW s2,
         lk2 # "gone" => /\ lk # "gone" /\ frs2 = frs /\ more2 = more /\ n2 = n
                         /\ whole2 = whole /\ s2 = s
  PROVE  Sound(frs2, more2, records, out, r, lk2, n2, whole2, s2)
BY Zenon DEF Sound

-----------------------------------------------------------------------------
(* The connection.                                                        *)

\* What holds of both directions.  A stranger's connection has nothing to carry.
UpIntact ==
  /\ strange # 0 => sent[Up] = <<>>
  /\ strange = 0 => Sound(net[Up], <<>>, sent[Up], got[Up] \o queue, reas[Up], link, faults, TRUE, seq[Up])
DownIntact ==
  /\ session # "send" => outgoing = <<>>
  /\ Sound(net[Down], outgoing, sent[Down], got[Down], reas[Down], link, faults,
           session \notin {"over", "closed"}, seq[Down])
FewFaults == faults \in Nat /\ faults <= MaxFaults

\* The steps that leave a direction as it is, or end its link.
upQuiet ==
  /\ UNCHANGED <<strange>> /\ sent'[Up] = sent[Up] /\ (got[Up] \o queue)' = got[Up] \o queue
  /\ reas'[Up] = reas[Up]
  /\ link' # "gone" => link # "gone" /\ net'[Up] = net[Up] /\ faults' = faults /\ seq'[Up] = seq[Up]
downQuiet ==
  /\ sent'[Down] = sent[Down] /\ got'[Down] = got[Down] /\ reas'[Down] = reas[Down]
  /\ UNCHANGED outgoing /\ (session' = "send" <=> session = "send")
  /\ link' # "gone" => /\ link # "gone" /\ net'[Down] = net[Down] /\ faults' = faults /\ seq'[Down] = seq[Down]
                       /\ (session' \in {"over", "closed"} <=> session \in {"over", "closed"})
\* The steps that end the sending of the machine.
downStops ==
  /\ sent'[Down] = sent[Down] /\ got'[Down] = got[Down] /\ reas'[Down] = reas[Down]
  /\ session' \in {"over", "closed"} /\ outgoing' = <<>>
  /\ UNCHANGED <<link, faults>> /\ net'[Down] = net[Down]

\* The steps that matter to what the phone sends.
LEMMA UpSteps ==
  ASSUME FrameInv, FrameNext
  PROVE  \/ upQuiet \/ PhoneSends \/ StrangerWrites \/ Loses \/ Repeats \/ Reorders
         \/ DeliversError \/ DeliversPart \/ DeliversRecord
<1>0. Up \in Dirs /\ Down \in Dirs /\ Up # Down /\ link \in {"up", "closing", "gone"}
  BY DEF Dirs, Up, Down, FrameInv, FrameTypeOK
<1>1. /\ sent \in [Dirs -> Seq(Seq(Bytes))] /\ got \in [Dirs -> Seq(Seq(Bytes))]
      /\ seq \in [Dirs -> 0 .. Modulus - 1] /\ net \in [Dirs -> Seq(Fragments)]
      /\ reas \in [Dirs -> Reassemblers]
  BY DEF FrameInv, FrameTypeOK
<1>2. ASSUME NEW g \in Goroutines, Wakes(g) PROVE upQuiet
  BY <1>0, <1>2 DEF upQuiet, Wakes
<1>3. Subscribes \/ LinkLost \/ DeadlinePasses \/ RecvBegins \/ RecvFails \/ RecvWaits \/ RecvWoken
      \/ SendRefused \/ SendFindsNoLink \/ SendErrs \/ Close => upQuiet
  BY DEF upQuiet, Subscribes, LinkLost, DeadlinePasses, RecvBegins, RecvFails, RecvWaits, RecvWoken,
         SendRefused, SendFindsNoLink, SendErrs, sendFails, Close
<1>4. PhoneLeaves \/ Disconnected => upQuiet
  BY DEF upQuiet, PhoneLeaves, Disconnected, linkEnds
<1>5. ASSUME RecvTakes PROVE upQuiet
  <2>1. queue # <<>> /\ queue' = Tail(queue) /\ UNCHANGED <<reas, strange, sent, link, net, faults, seq>>
        /\ got' = [got EXCEPT ![Up] = Append(@, Head(queue))]
    BY <1>5 DEF RecvTakes
  <2>2. got'[Up] = Append(got[Up], Head(queue))
    BY <1>0, <1>1, <2>1
  <2>3. got[Up] \in Seq(Seq(Bytes)) /\ queue \in Seq(Seq(Bytes))
    BY Types DEF FrameInv, FrameTypeOK
  <2>4. \A a, b \in Seq(Seq(Bytes)) : b # <<>> => Append(a, Head(b)) \o Tail(b) = a \o b
    OBVIOUS
  <2>5. (got[Up] \o queue)' = got[Up] \o queue
    BY <2>1, <2>2, <2>3, <2>4
  <2> QED BY <2>1, <2>5 DEF upQuiet
<1>6. ASSUME SendBegins PROVE upQuiet
  <2>1. /\ UNCHANGED <<net, reas, got, queue, link, faults, strange>>
        /\ sent'[Up] = sent[Up] /\ seq'[Up] = seq[Up]
    BY <1>0, <1>1, <1>6 DEF SendBegins
  <2> QED BY <2>1 DEF upQuiet
<1>7. ASSUME SendFragment PROVE upQuiet
  <2>1. /\ UNCHANGED <<sent, seq, reas, got, queue, link, faults, strange>> /\ net'[Up] = net[Up]
    BY <1>0, <1>1, <1>7 DEF SendFragment
  <2> QED BY <2>1 DEF upQuiet
<1>8. ASSUME PhoneReceives PROVE upQuiet
  <2>1. /\ UNCHANGED <<sent, seq, queue, link, faults, strange>>
        /\ net'[Up] = net[Up] /\ reas'[Up] = reas[Up] /\ got'[Up] = got[Up]
    BY <1>0, <1>1, <1>8 DEF PhoneReceives
  <2> QED BY <2>1 DEF upQuiet
<1> QED BY <1>2, <1>3, <1>4, <1>5, <1>6, <1>7, <1>8 DEF FrameNext

\* The steps that matter to what the machine sends.
LEMMA DownSteps ==
  ASSUME FrameInv, DownIntact, FrameNext
  PROVE  \/ downQuiet \/ downStops \/ Loses \/ Repeats \/ Reorders
         \/ SendBegins \/ SendFragment \/ PhoneReceives
<1>0. Up \in Dirs /\ Down \in Dirs /\ Up # Down /\ link \in {"up", "closing", "gone"}
  BY DEF Dirs, Up, Down, FrameInv, FrameTypeOK
<1>1. /\ sent \in [Dirs -> Seq(Seq(Bytes))] /\ got \in [Dirs -> Seq(Seq(Bytes))]
      /\ seq \in [Dirs -> 0 .. Modulus - 1] /\ net \in [Dirs -> Seq(Fragments)]
      /\ reas \in [Dirs -> Reassemblers]
  BY DEF FrameInv, FrameTypeOK
<1>2. ASSUME NEW g \in Goroutines, Wakes(g) PROVE downQuiet
  BY <1>0, <1>2 DEF downQuiet, Wakes
<1>3. Subscribes \/ LinkLost \/ DeadlinePasses \/ RecvBegins \/ RecvWaits \/ RecvWoken => downQuiet
  BY DEF downQuiet, Subscribes, LinkLost, DeadlinePasses, RecvBegins, RecvWaits, RecvWoken
<1>4. PhoneLeaves \/ Disconnected => downQuiet
  BY DEF downQuiet, PhoneLeaves, Disconnected, linkEnds
<1>5. ASSUME RecvTakes PROVE downQuiet
  <2>1. got'[Down] = got[Down]
    BY <1>0, <1>1, <1>5 DEF RecvTakes
  <2> QED BY <1>5, <2>1 DEF RecvTakes, downQuiet
<1>6. SendFindsNoLink \/ SendErrs => downStops
  BY DEF downStops, SendFindsNoLink, SendErrs, sendFails
<1>7. RecvFails \/ SendRefused \/ Close => downStops
  <2>1. session # "send" => outgoing = <<>>
    BY DEF DownIntact
  <2> QED BY <2>1 DEF downStops, RecvFails, SendRefused, Close
<1>8. ASSUME PhoneSends \/ StrangerWrites PROVE downQuiet
  <2>1. /\ UNCHANGED <<reas, got, link, faults, session, outgoing>>
        /\ net'[Down] = net[Down] /\ sent'[Down] = sent[Down] /\ seq'[Down] = seq[Down]
    BY <1>0, <1>1, <1>8 DEF PhoneSends, StrangerWrites
  <2> QED BY <2>1 DEF downQuiet
<1>9. ASSUME DeliversError \/ DeliversPart \/ DeliversRecord PROVE downQuiet
  <2>1. /\ UNCHANGED <<sent, seq, got, link, faults, session, outgoing>>
        /\ net'[Down] = net[Down] /\ reas'[Down] = reas[Down]
    BY <1>0, <1>1, <1>9 DEF DeliversError, DeliversPart, DeliversRecord
  <2> QED BY <2>1 DEF downQuiet
<1> QED BY <1>2, <1>3, <1>4, <1>5, <1>6, <1>7, <1>8, <1>9 DEF FrameNext

\* A fault of the link, of either direction, seen from one.
LEMMA FaultShifts ==
  ASSUME FrameInv, Loses \/ Repeats \/ Reorders, NEW o \in Dirs
  PROVE  /\ net'[o] \in Seq(Fragments) /\ Shifted(net'[o], net[o])
         /\ faults' = faults + 1 /\ faults < MaxFaults /\ strange = 0
         /\ UNCHANGED <<sent, seq, reas, got, queue, link, strange, session, outgoing>>
<1>1. net \in [Dirs -> Seq(Fragments)]
  BY DEF FrameInv, FrameTypeOK
<1>2. PICK d \in Dirs, q \in Seq(Fragments) : Shifted(q, net[d]) /\ disturbs(d, q)
  <2>1. CASE Loses
    <3>1. PICK d \in Dirs : \E i \in 1 .. Len(net[d]) :
            disturbs(d, RemoveAt(net[d], i))
      BY <2>1, Zenon DEF Loses
    <3>2. PICK i \in 1 .. Len(net[d]) : disturbs(d, RemoveAt(net[d], i))
      BY <3>1, Zenon
    <3> DEFINE q == RemoveAt(net[d], i)
    <3>3. net[d] \in Seq(Fragments)
      BY <1>1
    <3>4. q \in Seq(Fragments) /\ Shifted(q, net[d])
      BY <3>3, LostShifts
    <3>5. disturbs(d, q)
      BY <3>2
    <3> HIDE DEF q
    <3> QED BY <3>4, <3>5
  <2>2. CASE Repeats
    <3>1. PICK d \in Dirs : \E i \in 1 .. Len(net[d]) :
            disturbs(d, InsertAt(net[d], i, net[d][i]))
      BY <2>2, Zenon DEF Repeats
    <3>2. PICK i \in 1 .. Len(net[d]) : disturbs(d, InsertAt(net[d], i, net[d][i]))
      BY <3>1, Zenon
    <3> DEFINE q == InsertAt(net[d], i, net[d][i])
    <3>3. net[d] \in Seq(Fragments)
      BY <1>1
    <3>4. q \in Seq(Fragments) /\ Shifted(q, net[d])
      BY <3>3, RepeatShifts
    <3>5. disturbs(d, q)
      BY <3>2
    <3> HIDE DEF q
    <3> QED BY <3>4, <3>5
  <2>3. CASE Reorders
    <3>1. PICK d \in Dirs : \E i \in 2 .. Len(net[d]) :
            disturbs(d, [net[d] EXCEPT ![i] = net[d][i - 1], ![i - 1] = net[d][i]])
      BY <2>3, Zenon DEF Reorders
    <3>2. PICK i \in 2 .. Len(net[d]) : disturbs(d, [net[d] EXCEPT ![i] = net[d][i - 1], ![i - 1] = net[d][i]])
      BY <3>1, Zenon
    <3> DEFINE q == [net[d] EXCEPT ![i] = net[d][i - 1], ![i - 1] = net[d][i]]
    <3>3. net[d] \in Seq(Fragments)
      BY <1>1
    <3>4. q \in Seq(Fragments) /\ Shifted(q, net[d])
      BY <3>3, SwapShifts
    <3>5. disturbs(d, q)
      BY <3>2
    <3> HIDE DEF q
    <3> QED BY <3>4, <3>5
  <2> QED BY <2>1, <2>2, <2>3
<1>3. /\ faults' = faults + 1 /\ faults < MaxFaults /\ strange = 0
      /\ UNCHANGED <<sent, seq, reas, got, queue, link, strange, session, outgoing>>
      /\ net' = [net EXCEPT ![d] = q]
  BY <1>2 DEF disturbs
<1>4. net'[d] = q /\ (o # d => net'[o] = net[o])
  BY <1>1, <1>3
<1>5. net[o] \in Seq(Fragments)
  BY <1>1
<1>6. Shifted(net[o], net[o])
  <2> DEFINE p == net[o]
  <2>0. p \in Seq(Fragments)
    BY <1>5
  <2> HIDE DEF p
  <2>1. Len(p) \in Nat
    BY <2>0
  <2>2. Len(p) <= Len(p) + 1 /\ \A i \in 1 .. Len(p) : i <= i + 1
    BY <2>1
  <2>3. Shifted(p, p)
    BY <2>2, Zenon DEF Shifted
  <2> QED BY <2>3 DEF p
<1>7. CASE o = d
  BY <1>2, <1>3, <1>4, <1>7
<1>8. CASE o # d
  <2>1. net'[o] = net[o]
    BY <1>4, <1>8
  <2> QED BY <1>3, <1>5, <1>6, <2>1
<1> QED BY <1>7, <1>8

\* There are never more faults than the bound.
LEMMA FewFaultsNext ==
  ASSUME FrameInv, FewFaults, [FrameNext]_frameVars
  PROVE  FewFaults'
<1>1. CASE Loses \/ Repeats \/ Reorders
  <2>1. faults' = faults + 1 /\ faults < MaxFaults
    BY <1>1, FaultShifts DEF Dirs
  <2> QED BY <2>1, ModulusAssumption DEF FewFaults
<1>2. CASE UNCHANGED faults
  BY <1>2 DEF FewFaults
<1>3. FrameNext => UNCHANGED faults \/ Loses \/ Repeats \/ Reorders
  <2>1. ASSUME NEW g \in Goroutines, Wakes(g) PROVE UNCHANGED faults
    BY <2>1 DEF Wakes
  <2>2. PhoneSends \/ StrangerWrites \/ Subscribes \/ PhoneReceives => UNCHANGED faults
    BY DEF PhoneSends, StrangerWrites, Subscribes, PhoneReceives
  <2>3. DeliversError \/ DeliversPart \/ DeliversRecord \/ PhoneLeaves \/ Disconnected \/ LinkLost
        \/ DeadlinePasses => UNCHANGED faults
    BY DEF DeliversError, DeliversPart, DeliversRecord, PhoneLeaves, Disconnected, linkEnds, LinkLost,
           DeadlinePasses
  <2>4. RecvBegins \/ RecvTakes \/ RecvFails \/ RecvWaits \/ RecvWoken => UNCHANGED faults
    BY DEF RecvBegins, RecvTakes, RecvFails, RecvWaits, RecvWoken
  <2>5. SendRefused \/ SendBegins \/ SendFragment \/ SendFindsNoLink \/ SendErrs \/ Close => UNCHANGED faults
    BY DEF SendRefused, SendBegins, SendFragment, SendFindsNoLink, SendErrs, sendFails, Close
  <2> QED BY <2>1, <2>2, <2>3, <2>4, <2>5 DEF FrameNext
<1> QED BY <1>1, <1>2, <1>3

\* What the phone sends stays sound.
LEMMA UpNext ==
  ASSUME FrameInv, FewFaults, UpIntact, [FrameNext]_frameVars
  PROVE  UpIntact'
<1> DEFINE all == got[Up] \o queue
<1>0. Up \in Dirs /\ Down \in Dirs /\ Up # Down
  BY DEF Dirs, Up, Down
<1>1. /\ got[Up] \in Seq(Seq(Bytes)) /\ queue \in Seq(Seq(Bytes)) /\ all \in Seq(Seq(Bytes))
      /\ reas[Up] \in Reassemblers /\ net[Up] \in Seq(Fragments) /\ sent[Up] \in Seq(Seq(Bytes))
      /\ faults \in Nat /\ faults < Modulus /\ <<>> \in Seq(Fragments) /\ strange \in Nat
  <2>1. got[Up] \in Seq(Seq(Bytes)) /\ queue \in Seq(Seq(Bytes)) /\ reas[Up] \in Reassemblers
    BY Types DEF FrameInv, FrameTypeOK
  <2>2. net[Up] \in Seq(Fragments) /\ sent[Up] \in Seq(Seq(Bytes)) /\ strange \in Nat
    BY Types DEF FrameInv, FrameTypeOK
  <2>3. faults \in Nat /\ faults < Modulus
    BY ModulusAssumption DEF FewFaults
  <2>4. <<>> \in Seq(Fragments) /\ all \in Seq(Seq(Bytes))
    BY <2>1
  <2> QED BY <2>1, <2>2, <2>3, <2>4
<1>2. /\ strange # 0 => sent[Up] = <<>>
      /\ strange = 0 => Sound(net[Up], <<>>, sent[Up], all, reas[Up], link, faults, TRUE, seq[Up])
  BY DEF UpIntact
<1> HIDE DEF all
<1>3. ASSUME NEW q, NEW rs, NEW o, NEW r, NEW lk, NEW n, NEW s,
             q = net'[Up], rs = sent'[Up], o = (got[Up] \o queue)', r = reas'[Up], lk = link',
             n = faults', s = seq'[Up], strange' # 0 => rs = <<>>,
             strange' = 0 => Sound(q, <<>>, rs, o, r, lk, n, TRUE, s)
      PROVE  UpIntact'
  BY <1>3, Zenon DEF UpIntact
<1>4. CASE upQuiet
  <2>1. /\ UNCHANGED <<strange>> /\ sent'[Up] = sent[Up] /\ (got[Up] \o queue)' = all
        /\ reas'[Up] = reas[Up]
        /\ link' # "gone" => link # "gone" /\ net'[Up] = net[Up] /\ faults' = faults /\ seq'[Up] = seq[Up]
    BY <1>4 DEF upQuiet, all
  <2>2. strange = 0 => Sound(net'[Up], <<>>, sent[Up], all, reas[Up], link', faults', TRUE, seq'[Up])
    <3>1. CASE strange = 0 /\ link' # "gone"
      <4>1. Sound(net[Up], <<>>, sent[Up], all, reas[Up], link, faults, TRUE, seq[Up])
        BY <1>2, <3>1
      <4>2. link # "gone" /\ net'[Up] = net[Up] /\ faults' = faults /\ seq'[Up] = seq[Up]
        BY <2>1, <3>1
      <4> QED BY <3>1, <4>1, <4>2 DEF Sound
    <3>2. CASE strange = 0 /\ link' = "gone"
      <4>1. Prefix(all, sent[Up])
        BY <1>2, <3>2 DEF Sound
      <4> QED BY <3>2, <4>1, Zenon DEF Sound
    <3> QED BY <3>1, <3>2
  <2> QED BY <1>2, <1>3, <2>1, <2>2
<1>5. CASE PhoneSends
  <2>1. PICK n \in Lengths, per \in Payloads :
          LET record == Record(Len(sent[Up]) + 1, n)
              frags  == Split(record, per, seq[Up])
          IN /\ strange = 0 /\ Framable(record)
             /\ sent' = [sent EXCEPT ![Up] = Append(@, record)]
             /\ seq' = [seq EXCEPT ![Up] = (@ + Len(frags)) % Modulus]
             /\ net' = [net EXCEPT ![Up] = @ \o frags]
             /\ UNCHANGED <<reas, got, queue, link, faults, strange>>
    BY <1>5 DEF PhoneSends
  <2> DEFINE record == Record(Len(sent[Up]) + 1, n)
             frags == Split(record, per, seq[Up])
             s2 == (seq[Up] + Len(frags)) % Modulus
  <2>2. /\ sent'[Up] = Append(sent[Up], record) /\ seq'[Up] = s2 /\ net'[Up] = net[Up] \o frags
        /\ UNCHANGED <<reas, link, faults, strange>> /\ (got[Up] \o queue)' = all /\ strange = 0
    <3>1. /\ sent \in [Dirs -> Seq(Seq(Bytes))] /\ seq \in [Dirs -> 0 .. Modulus - 1]
          /\ net \in [Dirs -> Seq(Fragments)]
      BY DEF FrameInv, FrameTypeOK
    <3> HIDE DEF record, frags, s2
    <3>2. /\ sent' = [sent EXCEPT ![Up] = Append(@, record)]
          /\ seq' = [seq EXCEPT ![Up] = (@ + Len(frags)) % Modulus]
          /\ net' = [net EXCEPT ![Up] = @ \o frags]
          /\ UNCHANGED <<reas, got, queue, link, faults, strange>> /\ strange = 0
      BY <2>1, Zenon DEF record, frags
    <3> QED BY <1>0, <3>1, <3>2 DEF all, s2
  <2>3. /\ record \in Seq(Bytes) /\ record # <<>> /\ per \in Nat \ {0} /\ frags \in Seq(Fragments)
    <3>1. Len(sent[Up]) + 1 \in Nat /\ n \in Nat /\ per \in Nat \ {0}
      BY <1>1, SizesAssumption
    <3>2. record \in Seq(Bytes)
      BY <3>1, RecordType
    <3>3. record # <<>>
      BY <2>1 DEF Framable
    <3>4. seq[Up] \in 0 .. Modulus - 1
      BY Types
    <3> HIDE DEF record
    <3>5. frags \in Seq(Fragments)
      BY <3>1, <3>2, <3>3, <3>4, SplitType
    <3> QED BY <3>1, <3>2, <3>3, <3>5
  <2> HIDE DEF record
  <2>4. Sound(net[Up], <<>>, sent[Up], all, reas[Up], link, faults, TRUE, seq[Up])
    BY <1>2, <2>2
  <2>5. Sound(net[Up], frags, Append(sent[Up], record), all, reas[Up], link, faults, TRUE, s2)
    BY <1>1, <2>3, <2>4, SoundSends
  <2> HIDE DEF frags, s2
  <2>6. Sound(net[Up] \o frags, <<>>, Append(sent[Up], record), all, reas[Up], link, faults, TRUE, s2)
    BY <1>1, <2>3, <2>5, SoundJoins
  <2> QED BY <1>3, <2>2, <2>6
<1>6. CASE StrangerWrites
  <2>1. sent[Up] = <<>> /\ strange' = strange + 1 /\ UNCHANGED sent
    BY <1>6 DEF StrangerWrites
  <2>2. strange' # 0
    BY <1>1, <2>1
  <2> QED BY <1>3, <2>1, <2>2
<1>7. CASE Loses \/ Repeats \/ Reorders
  <2>1. /\ net'[Up] \in Seq(Fragments) /\ Shifted(net'[Up], net[Up])
        /\ faults' = faults + 1 /\ strange = 0
        /\ UNCHANGED <<sent, seq, reas, got, queue, link, strange>>
    BY <1>0, <1>7, FaultShifts
  <2>2. Sound(net[Up], <<>>, sent[Up], all, reas[Up], link, faults, TRUE, seq[Up])
    BY <1>2, <2>1
  <2>3. Sound(net'[Up], <<>>, sent[Up], all, reas[Up], link, faults + 1, TRUE, seq[Up])
    BY <1>1, <2>1, <2>2, SoundShifts
  <2>4. all = (got[Up] \o queue)'
    BY <2>1 DEF all
  <2> QED BY <1>3, <2>1, <2>3, <2>4
<1>8. CASE DeliversError \/ DeliversPart \/ DeliversRecord
  <2> DEFINE f == Head(net[Up])
             o == IF Finishes(reas[Up], f) THEN Append(all, reas[Up].buf \o f.payload) ELSE all
  <2>1. /\ net[Up] # <<>> /\ link # "gone" /\ UNCHANGED <<sent, seq, got, link, faults, strange>>
        /\ reas' = [reas EXCEPT ![Up] = Feed(@, f)] /\ net' = [net EXCEPT ![Up] = Tail(@)]
        /\ Finishes(reas[Up], f) => queue' = Append(queue, reas[Up].buf \o f.payload)
        /\ ~ Finishes(reas[Up], f) => queue' = queue
    BY <1>8 DEF DeliversError, DeliversPart, DeliversRecord, Fails, Finishes, completes
  <2>2. reas'[Up] = Feed(reas[Up], f) /\ net'[Up] = Tail(net[Up])
    BY <1>0, <2>1 DEF FrameInv, FrameTypeOK
  <2>3. reas[Up].buf \o f.payload \in Seq(Bytes)
    BY <1>0, <2>1, TakingTypes
  <2>4. o = (got[Up] \o queue)'
    <3> DEFINE w == reas[Up].buf \o f.payload
    <3>1. \A S : \A x \in S, a, b \in Seq(S) : Append(a \o b, x) = a \o Append(b, x)
      OBVIOUS
    <3>2. w \in Seq(Bytes)
      BY <2>3
    <3> HIDE DEF w
    <3>3. Append(got[Up] \o queue, w) = got[Up] \o Append(queue, w)
      BY <1>1, <3>1, <3>2
    <3> QED BY <2>1, <3>3, Zenon DEF all, w
  <2>5. ASSUME strange = 0
        PROVE  Sound(Tail(net[Up]), <<>>, sent[Up], o, Feed(reas[Up], f), link, faults, TRUE, seq[Up])
    <3>1. Sound(net[Up], <<>>, sent[Up], all, reas[Up], link, faults, TRUE, seq[Up])
      BY <1>2, <2>5
    <3> QED BY <1>1, <2>1, <3>1, SoundFeeds
  <2> HIDE DEF o
  <2> QED BY <1>2, <1>3, <2>1, <2>2, <2>4, <2>5
<1>9. CASE UNCHANGED frameVars
  <2>1. upQuiet
    BY <1>9 DEF upQuiet
  <2> QED BY <1>4, <2>1
<1> QED BY <1>4, <1>5, <1>6, <1>7, <1>8, <1>9, UpSteps

\* What the machine sends stays sound.
LEMMA DownNext ==
  ASSUME FrameInv, FewFaults, DownIntact, [FrameNext]_frameVars
  PROVE  DownIntact'
<1> DEFINE ended == {"over", "closed"}
<1>0. Up \in Dirs /\ Down \in Dirs /\ Up # Down
  BY DEF Dirs, Up, Down
<1>1. /\ got[Down] \in Seq(Seq(Bytes)) /\ outgoing \in Seq(Fragments)
      /\ reas[Down] \in Reassemblers /\ net[Down] \in Seq(Fragments) /\ sent[Down] \in Seq(Seq(Bytes))
      /\ faults \in Nat /\ faults < Modulus
  <2>1. got[Down] \in Seq(Seq(Bytes)) /\ outgoing \in Seq(Fragments) /\ reas[Down] \in Reassemblers
    BY Types DEF FrameInv, FrameTypeOK
  <2>2. net[Down] \in Seq(Fragments) /\ sent[Down] \in Seq(Seq(Bytes))
    BY Types
  <2>3. faults \in Nat /\ faults < Modulus
    BY ModulusAssumption DEF FewFaults
  <2> QED BY <2>1, <2>2, <2>3
<1>2. /\ session # "send" => outgoing = <<>>
      /\ Sound(net[Down], outgoing, sent[Down], got[Down], reas[Down], link, faults,
               session \notin ended, seq[Down])
  BY DEF DownIntact
<1>3. ASSUME NEW q, NEW m, NEW rs, NEW o, NEW r, NEW lk, NEW n, NEW w, NEW s,
             q = net'[Down], m = outgoing', rs = sent'[Down], o = got'[Down], r = reas'[Down],
             lk = link', n = faults', w = (session' \notin ended), s = seq'[Down],
             session' # "send" => m = <<>>, Sound(q, m, rs, o, r, lk, n, w, s)
      PROVE  DownIntact'
  BY <1>3, Zenon DEF DownIntact
<1>4. CASE downQuiet
  <2>1. /\ sent'[Down] = sent[Down] /\ got'[Down] = got[Down] /\ reas'[Down] = reas[Down]
        /\ UNCHANGED outgoing /\ (session' = "send" <=> session = "send")
        /\ link' # "gone" => /\ link # "gone" /\ net'[Down] = net[Down] /\ faults' = faults
                             /\ seq'[Down] = seq[Down] /\ (session' \in ended <=> session \in ended)
    BY <1>4 DEF downQuiet
  <2>2. Sound(net'[Down], outgoing, sent[Down], got[Down], reas[Down], link', faults',
              session' \notin ended, seq'[Down])
    <3>1. CASE link' # "gone"
      <4>1. /\ link # "gone" /\ net'[Down] = net[Down] /\ faults' = faults
            /\ seq'[Down] = seq[Down] /\ (session' \notin ended) = (session \notin ended)
        BY <2>1, <3>1
      <4> HIDE DEF ended
      <4> QED BY <1>2, <3>1, <4>1, Zenon DEF Sound
    <3>2. CASE link' = "gone"
      <4>1. Prefix(got[Down], sent[Down])
        BY <1>2, Zenon DEF Sound
      <4> QED BY <3>2, <4>1, Zenon DEF Sound
    <3> QED BY <3>1, <3>2
  <2> HIDE DEF ended
  <2>3. session' # "send" => outgoing = <<>>
    BY <1>2, <2>1
  <2> QED BY <1>3, <2>1, <2>2, <2>3
<1>5. CASE downStops
  <2>1. /\ sent'[Down] = sent[Down] /\ got'[Down] = got[Down] /\ reas'[Down] = reas[Down]
        /\ session' \in ended /\ outgoing' = <<>>
        /\ UNCHANGED <<link, faults>> /\ net'[Down] = net[Down] /\ (session' \notin ended) = FALSE
    BY <1>5 DEF downStops
  <2> HIDE DEF ended
  <2>2. Sound(net[Down], <<>>, sent[Down], got[Down], reas[Down], link, faults, FALSE, seq'[Down])
    BY <1>2, SoundStops, Zenon
  <2> QED BY <1>3, <2>1, <2>2
<1>6. CASE Loses \/ Repeats \/ Reorders
  <2>1. /\ net'[Down] \in Seq(Fragments) /\ Shifted(net'[Down], net[Down])
        /\ faults' = faults + 1
        /\ UNCHANGED <<sent, seq, reas, got, queue, link, strange, session, outgoing>>
    BY <1>0, <1>6, FaultShifts
  <2> DEFINE w == session \notin ended
  <2>2. w = (session' \notin ended)
    BY <2>1
  <2> HIDE DEF w
  <2>3. Sound(net[Down], outgoing, sent[Down], got[Down], reas[Down], link, faults, w, seq[Down])
    BY <1>2 DEF w
  <2>4. Sound(net'[Down], outgoing, sent[Down], got[Down], reas[Down], link, faults + 1, w, seq[Down])
    BY <1>1, <2>1, <2>3, SoundShifts
  <2> HIDE DEF ended
  <2> QED BY <1>2, <1>3, <2>1, <2>2, <2>4
<1>7. CASE SendBegins
  <2>1. PICK n \in Lengths, per \in Payloads :
          LET record == Record(Len(sent[Down]) + 1, n)
              frags  == Split(record, per, seq[Down])
          IN /\ session = "idle" /\ Framable(record)
             /\ sent' = [sent EXCEPT ![Down] = Append(@, record)]
             /\ seq' = [seq EXCEPT ![Down] = (@ + Len(frags)) % Modulus]
             /\ outgoing' = frags
             /\ session' = "send"
             /\ UNCHANGED <<net, reas, got, link, faults>>
    BY <1>7 DEF SendBegins
  <2> DEFINE record == Record(Len(sent[Down]) + 1, n)
             frags == Split(record, per, seq[Down])
             s2 == (seq[Down] + Len(frags)) % Modulus
  <2>2. /\ sent'[Down] = Append(sent[Down], record) /\ seq'[Down] = s2 /\ outgoing' = frags
        /\ UNCHANGED <<net, reas, got, link, faults>> /\ session = "idle" /\ session' = "send"
    <3>1. sent \in [Dirs -> Seq(Seq(Bytes))] /\ seq \in [Dirs -> 0 .. Modulus - 1]
      BY DEF FrameInv, FrameTypeOK
    <3> HIDE DEF record, frags, s2
    <3>2. /\ sent' = [sent EXCEPT ![Down] = Append(@, record)]
          /\ seq' = [seq EXCEPT ![Down] = (@ + Len(frags)) % Modulus]
          /\ outgoing' = frags
          /\ UNCHANGED <<net, reas, got, link, faults>> /\ session = "idle" /\ session' = "send"
      BY <2>1, Zenon DEF record, frags
    <3> QED BY <1>0, <3>1, <3>2 DEF s2
  <2>3. record \in Seq(Bytes) /\ record # <<>> /\ per \in Nat \ {0}
    <3>1. Len(sent[Down]) + 1 \in Nat /\ n \in Nat /\ per \in Nat \ {0}
      BY <1>1, SizesAssumption
    <3>2. record \in Seq(Bytes)
      BY <3>1, RecordType
    <3>3. record # <<>>
      BY <2>1 DEF Framable
    <3> QED BY <3>1, <3>2, <3>3
  <2> HIDE DEF record
  <2>4. Sound(net[Down], <<>>, sent[Down], got[Down], reas[Down], link, faults, TRUE, seq[Down])
    <3>1. outgoing = <<>> /\ (session \notin ended) = TRUE
      BY <1>2, <2>2
    <3> QED BY <1>2, <3>1
  <2>5. Sound(net[Down], frags, Append(sent[Down], record), got[Down], reas[Down], link, faults, TRUE, s2)
    BY <1>1, <2>3, <2>4, SoundSends
  <2> HIDE DEF frags, s2
  <2>6. TRUE = (session' \notin ended)
    BY <2>2
  <2> HIDE DEF ended
  <2> QED BY <1>3, <2>2, <2>5, <2>6
<1>8. CASE SendFragment
  <2>1. /\ session = "send" /\ outgoing # <<>> /\ net'[Down] = Append(net[Down], Head(outgoing))
        /\ outgoing' = Tail(outgoing) /\ session' = IF Len(outgoing) = 1 THEN "idle" ELSE "send"
        /\ UNCHANGED <<sent, seq, reas, got, link, faults>>
    BY <1>0, <1>8 DEF SendFragment, FrameInv, FrameTypeOK
  <2>2. session' # "send" => outgoing' = <<>>
    <3>1. Len(outgoing) = 1 => Tail(outgoing) = <<>>
      <4>1. \A p \in Seq(Fragments) : Len(p) = 1 => Tail(p) = <<>>
        <5>1. \A p \in Seq(Fragments) : Len(p) = 1 => Tail(p) \in Seq(Fragments) /\ Len(Tail(p)) = 0
          OBVIOUS
        <5>2. \A p \in Seq(Fragments) : Len(p) = 0 => p = <<>>
          OBVIOUS
        <5> QED BY <5>1, <5>2, Zenon
      <4> QED BY <1>1, <4>1
    <3> QED BY <2>1, <3>1
  <2>3. TRUE = (session \notin ended) /\ TRUE = (session' \notin ended)
    BY <2>1
  <2>4. Sound(net[Down], outgoing, sent[Down], got[Down], reas[Down], link, faults, TRUE, seq[Down])
    BY <1>2, <2>3
  <2>5. Sound(net'[Down], outgoing', sent[Down], got[Down], reas[Down], link, faults, TRUE, seq[Down])
    BY <1>1, <2>1, <2>4, SoundMoves
  <2> HIDE DEF ended
  <2> QED BY <1>3, <2>1, <2>2, <2>3, <2>5
<1>9. CASE PhoneReceives
  <2> DEFINE f == Head(net[Down])
             o == IF Finishes(reas[Down], f) THEN Append(got[Down], reas[Down].buf \o f.payload) ELSE got[Down]
             w == session \notin ended
  <2>1. /\ net[Down] # <<>> /\ link # "gone"
        /\ UNCHANGED <<sent, seq, link, faults, session, outgoing>>
        /\ reas'[Down] = Feed(reas[Down], f) /\ net'[Down] = Tail(net[Down]) /\ got'[Down] = o
    BY <1>0, <1>9 DEF PhoneReceives, FrameInv, FrameTypeOK
  <2>2. w = (session' \notin ended)
    BY <2>1
  <2> HIDE DEF w
  <2>3. Sound(net[Down], outgoing, sent[Down], got[Down], reas[Down], link, faults, w, seq[Down])
    BY <1>2 DEF w
  <2>4. Sound(Tail(net[Down]), outgoing, sent[Down], o, Feed(reas[Down], f), link, faults, w, seq[Down])
    BY <1>1, <2>1, <2>3, SoundFeeds
  <2> HIDE DEF o, ended
  <2> QED BY <1>2, <1>3, <2>1, <2>2, <2>4
<1>10. CASE UNCHANGED frameVars
  <2>1. downQuiet
    BY <1>10 DEF downQuiet
  <2> QED BY <1>4, <2>1
<1> QED BY <1>4, <1>5, <1>6, <1>7, <1>8, <1>9, <1>10, DownSteps

\* A new connection carries nothing.
LEMMA IntactInit == FrameInit => UpIntact /\ DownIntact /\ FewFaults
<1> SUFFICES ASSUME FrameInit PROVE UpIntact /\ DownIntact /\ FewFaults
  OBVIOUS
<1>1. /\ sent[Up] = <<>> /\ sent[Down] = <<>> /\ seq[Up] = 0 /\ seq[Down] = 0
      /\ net[Up] = <<>> /\ net[Down] = <<>> /\ got[Down] = <<>> /\ got[Up] \o queue = <<>>
      /\ reas[Up] = NewReassembler /\ reas[Down] = NewReassembler
      /\ session = "idle" /\ outgoing = <<>> /\ strange = 0 /\ faults = 0
  BY DEF FrameInit, Dirs, Up, Down
<1>2. NewReassembler.seq = 0 /\ NewReassembler.buf = <<>> /\ 0 % Modulus = 0
  <2>1. 0 % Modulus = 0
    BY ModulusAssumption
  <2> QED BY <2>1 DEF NewReassembler
<1> DEFINE z == [x \in Nat |-> 0]
<1>3. Cut(0, z, z, z, <<>>)
  BY DEF Cut
<1> HIDE DEF z
<1>4. Prefix(<<>>, <<>>)
  BY DEF Prefix
<1>5. Taken(0, z, z, 0, <<>>, <<>>, <<>>)
  BY <1>4 DEF Taken
<1>6. \A off : Along(<<>>, off, 0, 0, z, z, z, <<>>)
  BY DEF Along
<1>7. Ends(<<>>, <<>>, 0, 0, 0, 0)
  BY <1>2 DEF Ends
<1> HIDE DEF NewReassembler
<1>8. Carried(<<>>, <<>>, <<>>, <<>>, NewReassembler, 0, TRUE, 0)
  BY <1>2, <1>3, <1>5, <1>6, <1>7, Zenon DEF Carried
<1>9. \A lk : Sound(<<>>, <<>>, <<>>, <<>>, NewReassembler, lk, 0, TRUE, 0)
  BY <1>4, <1>8, Zenon DEF Sound
<1>10. UpIntact
  BY <1>1, <1>9 DEF UpIntact
<1>11. DownIntact
  <2>1. TRUE = (session \notin {"over", "closed"})
    BY <1>1
  <2> QED BY <1>1, <1>9, <2>1 DEF DownIntact
<1>12. FewFaults
  BY <1>1, ModulusAssumption DEF FewFaults
<1> QED BY <1>10, <1>11, <1>12

-----------------------------------------------------------------------------
(* The refinement.                                                        *)

\* The inductive invariant: types, and both directions.
IntactInv == FrameInv /\ FewFaults /\ UpIntact /\ DownIntact

\* A step of the connection is one of the phone's pipe, or none.
LEMMA UpStep ==
  ASSUME IntactInv, IntactInv', [FrameNext]_frameVars
  PROVE  [UpPipe!Put \/ UpPipe!Get]_<<sent[Up], IF strange = 0 THEN got[Up] ELSE <<>>>>
<1> DEFINE g == IF strange = 0 THEN got[Up] ELSE <<>>
<1>0. FrameInv /\ UpIntact /\ FrameInv' /\ UpIntact' /\ Up \in Dirs /\ Down \in Dirs /\ Up # Down
  BY DEF IntactInv, Dirs, Up, Down
<1>1. /\ got[Up] \in Seq(Seq(Bytes)) /\ queue \in Seq(Seq(Bytes)) /\ sent[Up] \in Seq(Seq(Bytes))
      /\ got \in [Dirs -> Seq(Seq(Bytes))] /\ sent \in [Dirs -> Seq(Seq(Bytes))] /\ strange \in Nat
  BY <1>0, Types DEF FrameInv, FrameTypeOK
<1>2. strange = 0 => Prefix(got[Up] \o queue, sent[Up])
  BY <1>0 DEF UpIntact, Sound
<1>3. CASE PhoneSends
  <2>1. /\ strange = 0 /\ UNCHANGED <<got, strange>>
        /\ \E record \in Seq(Bytes) : sent'[Up] = Append(sent[Up], record)
    <3>1. PICK n \in Lengths, per \in Payloads :
            /\ strange = 0 /\ UNCHANGED <<got, strange>>
            /\ sent' = [sent EXCEPT ![Up] = Append(@, Record(Len(sent[Up]) + 1, n))]
      BY <1>3 DEF PhoneSends
    <3> DEFINE record == Record(Len(sent[Up]) + 1, n)
    <3>2. Len(sent[Up]) + 1 \in Nat /\ n \in Nat
      BY <1>1, SizesAssumption
    <3>3. record \in Seq(Bytes)
      BY <3>2, RecordType
    <3> HIDE DEF record
    <3>4. sent'[Up] = Append(sent[Up], record)
      BY <1>0, <1>1, <3>1 DEF record
    <3> QED BY <3>1, <3>3, <3>4
  <2>2. PICK record \in Seq(Bytes) : sent'[Up] = Append(sent[Up], record)
    BY <2>1
  <2>3. \A a \in Seq(Seq(Bytes)) : /\ Len(Append(a, record)) = Len(a) + 1
                                   /\ SubSeq(Append(a, record), 1, Len(a)) = a
    OBVIOUS
  <2>4. UpPipe!Put
    BY <1>1, <2>1, <2>2, <2>3 DEF UpPipe!Put
  <2> QED BY <2>4
<1>4. CASE RecvTakes
  <2>1. /\ queue # <<>> /\ UNCHANGED <<sent, strange>>
        /\ got'[Up] = Append(got[Up], Head(queue))
    BY <1>0, <1>1, <1>4 DEF RecvTakes
  <2>2. CASE strange = 0
    <3>1. \A a, b \in Seq(Seq(Bytes)) : b # <<>> =>
            /\ Len(a \o b) = Len(a) + Len(b) /\ Len(a) + 1 \in 1 .. Len(a \o b)
            /\ (a \o b)[Len(a) + 1] = Head(b) /\ Len(a) \in Nat
      <4> SUFFICES ASSUME NEW a \in Seq(Seq(Bytes)), NEW b \in Seq(Seq(Bytes)), b # <<>>
                   PROVE  /\ Len(a \o b) = Len(a) + Len(b) /\ Len(a) + 1 \in 1 .. Len(a \o b)
                          /\ (a \o b)[Len(a) + 1] = Head(b) /\ Len(a) \in Nat
        OBVIOUS
      <4>1. Len(a) \in Nat /\ Len(b) \in Nat /\ Len(b) # 0 /\ Head(b) = b[1]
        OBVIOUS
      <4>2. /\ Len(a \o b) = Len(a) + Len(b)
            /\ \A i \in 1 .. Len(a) + Len(b) : (a \o b)[i] = IF i <= Len(a) THEN a[i] ELSE b[i - Len(a)]
        BY ConcatProperties
      <4> DEFINE c == a \o b
      <4> HIDE DEF c
      <4>3. Len(a) + 1 \in 1 .. Len(a) + Len(b) /\ ~ (Len(a) + 1 <= Len(a)) /\ Len(a) + 1 - Len(a) = 1
        BY <4>1
      <4>4. c[Len(a) + 1] = b[1]
        BY <4>2, <4>3 DEF c
      <4> QED BY <4>1, <4>2, <4>3, <4>4 DEF c
    <3> DEFINE all == got[Up] \o queue
    <3>2. /\ Len(got[Up]) + 1 \in 1 .. Len(all) /\ all[Len(got[Up]) + 1] = Head(queue)
          /\ Len(got[Up]) \in Nat /\ Len(all) = Len(got[Up]) + Len(queue) /\ Len(queue) \in Nat
      BY <1>1, <2>1, <3>1
    <3> HIDE DEF all
    <3>3. Len(all) <= Len(sent[Up]) /\ all[Len(got[Up]) + 1] = sent[Up][Len(got[Up]) + 1]
      BY <1>2, <2>2, <3>2 DEF Prefix, all
    <3>4. Len(got[Up]) < Len(sent[Up])
      <4>1. Len(sent[Up]) \in Nat
        BY <1>1
      <4> QED BY <3>2, <3>3, <4>1
    <3>5. got'[Up] = Append(got[Up], sent[Up][Len(got[Up]) + 1])
      BY <2>1, <3>2, <3>3
    <3>6. UpPipe!Get
      BY <2>1, <2>2, <3>4, <3>5 DEF UpPipe!Get
    <3> QED BY <3>6
  <2>3. CASE strange # 0
    BY <2>1, <2>3
  <2> QED BY <2>2, <2>3
<1>5. CASE StrangerWrites
  <2>1. UNCHANGED <<sent, got>> /\ sent[Up] = <<>> /\ strange' # 0
    BY <1>1, <1>5 DEF StrangerWrites
  <2>2. strange = 0 => got[Up] = <<>>
    <3>1. \A a, b \in Seq(Seq(Bytes)) : Len(a \o b) <= 0 => a = <<>>
      <4> SUFFICES ASSUME NEW a \in Seq(Seq(Bytes)), NEW b \in Seq(Seq(Bytes)), Len(a \o b) <= 0
                   PROVE  a = <<>>
        OBVIOUS
      <4>1. Len(a) \in Nat /\ Len(b) \in Nat
        OBVIOUS
      <4>2. Len(a \o b) = Len(a) + Len(b)
        BY ConcatProperties
      <4>3. Len(a) = 0
        <5> DEFINE l == Len(a \o b)
        <5>1. l = Len(a) + Len(b) /\ l <= 0
          BY <4>2
        <5> HIDE DEF l
        <5> QED BY <4>1, <5>1
      <4> QED BY <4>3
    <3>2. strange = 0 => Len(got[Up] \o queue) <= Len(<<>>)
      BY <1>2, <2>1 DEF Prefix
    <3>3. Len(<<>>) = 0
      OBVIOUS
    <3> QED BY <1>1, <3>1, <3>2, <3>3
  <2> QED BY <2>1, <2>2
<1>6. CASE UNCHANGED strange /\ sent'[Up] = sent[Up] /\ got'[Up] = got[Up]
  BY <1>6
<1>7. FrameNext => \/ PhoneSends \/ RecvTakes \/ StrangerWrites
                   \/ UNCHANGED strange /\ sent'[Up] = sent[Up] /\ got'[Up] = got[Up]
  <2>1. CASE upQuiet /\ aside
    BY <2>1 DEF upQuiet, aside
  <2>2. CASE PhoneReceives
    BY <1>0, <1>1, <2>2 DEF PhoneReceives
  <2>3. CASE DeliversError \/ DeliversPart \/ DeliversRecord
    BY <2>3 DEF DeliversError, DeliversPart, DeliversRecord
  <2>4. CASE Loses \/ Repeats \/ Reorders
    BY <1>0, <2>4, FaultShifts
  <2> QED BY <1>0, <2>1, <2>2, <2>3, <2>4, UpSteps, StepsAside
<1> QED BY <1>3, <1>4, <1>5, <1>6, <1>7

\* Nor is it anything else to the machine's.
LEMMA DownStep ==
  ASSUME IntactInv, IntactInv', [FrameNext]_frameVars
  PROVE  [DownPipe!Put \/ DownPipe!Get]_<<sent[Down], got[Down]>>
<1>0. FrameInv /\ DownIntact /\ FrameInv' /\ DownIntact' /\ Up \in Dirs /\ Down \in Dirs /\ Up # Down
  BY DEF IntactInv, Dirs, Up, Down
<1>1. /\ got[Down] \in Seq(Seq(Bytes)) /\ sent[Down] \in Seq(Seq(Bytes))
      /\ got \in [Dirs -> Seq(Seq(Bytes))] /\ sent \in [Dirs -> Seq(Seq(Bytes))]
  BY <1>0, Types DEF FrameInv, FrameTypeOK
<1>2. Prefix(got'[Down], sent'[Down])
  BY <1>0 DEF DownIntact, Sound
<1>3. CASE SendBegins
  <2>1. UNCHANGED got /\ \E record \in Seq(Bytes) : sent'[Down] = Append(sent[Down], record)
    <3>1. PICK n \in Lengths, per \in Payloads :
            /\ UNCHANGED got
            /\ sent' = [sent EXCEPT ![Down] = Append(@, Record(Len(sent[Down]) + 1, n))]
      BY <1>3 DEF SendBegins
    <3> DEFINE record == Record(Len(sent[Down]) + 1, n)
    <3>2. Len(sent[Down]) + 1 \in Nat /\ n \in Nat
      BY <1>1, SizesAssumption
    <3>3. record \in Seq(Bytes)
      BY <3>2, RecordType
    <3> HIDE DEF record
    <3>4. sent'[Down] = Append(sent[Down], record)
      BY <1>0, <1>1, <3>1 DEF record
    <3> QED BY <3>1, <3>3, <3>4
  <2>2. PICK record \in Seq(Bytes) : sent'[Down] = Append(sent[Down], record)
    BY <2>1
  <2>3. \A a \in Seq(Seq(Bytes)) : /\ Len(Append(a, record)) = Len(a) + 1
                                   /\ SubSeq(Append(a, record), 1, Len(a)) = a
    OBVIOUS
  <2>4. DownPipe!Put
    BY <1>1, <2>1, <2>2, <2>3 DEF DownPipe!Put
  <2> QED BY <2>4
<1>4. CASE PhoneReceives
  <2> DEFINE w == reas[Down].buf \o Head(net[Down]).payload
  <2>1. /\ UNCHANGED sent /\ net[Down] # <<>>
        /\ got'[Down] = Append(got[Down], w) \/ got'[Down] = got[Down]
    BY <1>0, <1>1, <1>4 DEF PhoneReceives
  <2>2. w \in Seq(Bytes)
    BY <1>0, <2>1, TakingTypes
  <2> HIDE DEF w
  <2>3. CASE got'[Down] = Append(got[Down], w)
    <3> DEFINE g == Append(got[Down], w)
    <3>1. /\ Len(g) = Len(got[Down]) + 1 /\ g[Len(got[Down]) + 1] = w /\ Len(got[Down]) \in Nat
          /\ Len(sent[Down]) \in Nat
      BY <1>1, <2>2
    <3> HIDE DEF g
    <3>2. Len(g) <= Len(sent[Down]) /\ \A i \in 1 .. Len(g) : g[i] = sent[Down][i]
      BY <1>2, <2>1, <2>3 DEF Prefix, g
    <3>3. Len(got[Down]) < Len(sent[Down]) /\ Len(got[Down]) + 1 \in 1 .. Len(g)
      BY <3>1, <3>2
    <3>4. w = sent[Down][Len(got[Down]) + 1]
      BY <3>1, <3>2, <3>3
    <3>5. DownPipe!Get
      BY <2>1, <2>3, <3>3, <3>4 DEF DownPipe!Get
    <3> QED BY <3>5
  <2>4. CASE got'[Down] = got[Down]
    BY <2>1, <2>4
  <2> QED BY <2>1, <2>3, <2>4
<1>5. CASE sent'[Down] = sent[Down] /\ got'[Down] = got[Down]
  BY <1>5
<1>6. FrameNext => \/ SendBegins \/ PhoneReceives
                   \/ sent'[Down] = sent[Down] /\ got'[Down] = got[Down]
  <2>1. CASE downQuiet \/ downStops
    BY <2>1 DEF downQuiet, downStops
  <2>2. CASE SendFragment
    BY <2>2 DEF SendFragment
  <2>3. CASE Loses \/ Repeats \/ Reorders
    BY <1>0, <2>3, FaultShifts
  <2> QED BY <1>0, <2>1, <2>2, <2>3, DownSteps
<1>7. CASE UNCHANGED frameVars
  BY <1>5, <1>7
<1> QED BY <1>3, <1>4, <1>5, <1>6, <1>7

\* Framing implements the pipe of whole records in both directions (frame.go
\* Split and Feed, conn.go Deliver, Recv and Send, kiracore OnNotification): what
\* either end is given are the records the other framed, whole, each once and in
\* their order, though fragments are lost, repeated or out of order.
THEOREM PipesAreIntact == FrameSpec => ArrivesIntact
<1>1. FrameInit => IntactInv
  BY FrameInitInv, IntactInit DEF IntactInv
<1>2. IntactInv /\ [FrameNext]_frameVars => IntactInv'
  BY FrameNextInv, FewFaultsNext, UpNext, DownNext DEF IntactInv
<1>3. FrameInit => UpPipe!PipeInit /\ DownPipe!PipeInit
  BY DEF FrameInit, UpPipe!PipeInit, DownPipe!PipeInit, Dirs, Up, Down
<1>4. IntactInv /\ IntactInv' /\ [FrameNext]_frameVars
        => [UpPipe!Put \/ UpPipe!Get]_<<sent[Up], IF strange = 0 THEN got[Up] ELSE <<>>>>
  BY UpStep
<1>5. IntactInv /\ IntactInv' /\ [FrameNext]_frameVars
        => [DownPipe!Put \/ DownPipe!Get]_<<sent[Down], got[Down]>>
  BY DownStep
<1> QED
  BY <1>1, <1>2, <1>3, <1>4, <1>5, PTL
     DEF FrameSpec, ArrivesIntact, UpArrivesIntact, DownArrivesIntact, UpPipe!PipeSpec, DownPipe!PipeSpec
=============================================================================
