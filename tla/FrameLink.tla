----------------------------- MODULE FrameLink -----------------------------
(***************************************************************************)
(* One Bluetooth connection between a phone and the machine, at the level  *)
(* of records: core/transport/frame (Fragmenter, Reassembler, Conn), its   *)
(* use by the phone (core/mobile/kiracore Session) and the machine's Link  *)
(* (core/transport/ble) as far as Conn depends on it.                      *)
(*                                                                         *)
(* Three goroutines meet in the machine's Conn: the reader, which delivers *)
(* what the radio received and reports the end of the link; the session,   *)
(* which calls Recv, Send and last Close; and the deadline's timer.  Each  *)
(* changes the queue or the error under the mutex and fills the channel    *)
(* notify after it has let go of it.                                       *)
(*                                                                         *)
(* The byte i of the record k of a direction is <<k, i>>, so that a record *)
(* put together from fragments of two is not one that was sent.            *)
(***************************************************************************)
EXTENDS Naturals, Sequences, SequencesExt

CONSTANTS
  Modulus,      \* fragment numbers wrap here: 65536
  HeaderSize,   \* the bytes of a fragment's header
  MaxRecord,    \* the longest record a header can describe
  Limit,        \* the reassembler's maxRecord
  MaxBytes,     \* the budget of received bytes; 0 for none
  HasDeadline,  \* whether the budget has a deadline
  Lengths,      \* how long the records are that either end frames
  Payloads,     \* the payload a fragment may have: the MTU, less headers
  Foreign,      \* fragments of a phone that does not frame as ours does
  MaxTraffic,   \* bound: records framed by either end, and foreign fragments
  MaxFaults     \* bound: fragments lost, repeated or out of order

ASSUME ModulusAssumption == Modulus \in Nat \ {0} /\ MaxFaults \in Nat /\ MaxFaults < Modulus
ASSUME SizesAssumption ==
  /\ HeaderSize \in Nat /\ MaxBytes \in Nat /\ MaxRecord \in Nat
  /\ Limit \in 1 .. MaxRecord
  /\ Lengths \subseteq Nat /\ Payloads \subseteq Nat \ {0}
ASSUME ForeignAssumption ==
  Foreign \subseteq [total : Nat, flags : Nat, seq : Nat, payload : Seq(Nat \X Nat)]
ASSUME BoundsAssumption == MaxTraffic \in Nat
ASSUME DeadlineAssumption == HasDeadline \in BOOLEAN

VARIABLES
  sent,      \* by direction, the records given to Split
  seq,       \* Fragmenter.seq of either end
  net,       \* the fragments on their way
  reas,      \* the Reassembler of either end
  got,       \* the records Recv returned, and those the phone handled
  queue,     \* Conn.queue
  err,       \* Conn.err
  notify,    \* whether the channel notify is full
  timer,     \* the deadline's timer
  owes,      \* what each goroutine has yet to do of the call it is in
  session,   \* where the session goroutine is
  outgoing,  \* the fragments of the record in Send not yet transmitted
  link,      \* "up", "closing" once link.Close was called, "gone"
  sub,       \* whether the phone has subscribed to TX
  strange,   \* the foreign fragments so far
  faults     \* the faults so far

phoneVars == <<sent, seq>>
connVars  == <<queue, err, notify>>
callVars  == <<timer, owes, session, outgoing>>
linkVars  == <<link, sub>>
envVars   == <<strange, faults>>
frameVars == <<sent, seq, net, reas, got, queue, err, notify, timer, owes,
               session, outgoing, link, sub, strange, faults>>

Up == "up"
Down == "down"
Dirs == {Up, Down}

Goroutines == {"reader", "session", "timer"}

\* The record k of a direction.
Record(k, n) == [i \in 1 .. n |-> <<k, i>>]

FlagStart == 1

Short(a, b) == IF a < b THEN a ELSE b

\* Split refuses the record it cannot describe, and numbers nothing then.
Framable(record) == record # <<>> /\ Len(record) <= MaxRecord

Split(record, per, first) ==
  [j \in 1 .. ((Len(record) + per - 1) \div per) |->
     [total   |-> Len(record),
      flags   |-> IF j = 1 THEN FlagStart ELSE 0,
      seq     |-> (first + j - 1) % Modulus,
      payload |-> SubSeq(record, (j - 1) * per + 1, Short(j * per, Len(record)))]]

\* A reassembler: buf is empty where the code's is nil.
NewReassembler == [seq |-> 0, total |-> 0, buf |-> <<>>, received |-> 0, failed |-> FALSE]

\* Mutant: the header is not counted.
PayloadCounted(r, f) == r.received + Len(f.payload)

counted(r, f) == r.received + HeaderSize + Len(f.payload)

\* Mutants: the number is not looked at; the limit is not.
AcceptsAnyNumber(r, f) ==
  /\ f.payload # <<>> /\ f.flags \in {0, FlagStart}
  /\ IF f.flags = FlagStart THEN r.buf = <<>> /\ f.total \in 1 .. Limit
                            ELSE r.buf # <<>> /\ f.total = r.total
  /\ Len(r.buf) + Len(f.payload) <= f.total
AcceptsAnyLength(r, f) ==
  /\ MaxBytes # 0 => counted(r, f) <= MaxBytes
  /\ f.payload # <<>> /\ f.flags \in {0, FlagStart} /\ f.seq = r.seq
  /\ IF f.flags = FlagStart THEN r.buf = <<>> ELSE r.buf # <<>> /\ f.total = r.total
  /\ Len(r.buf) + Len(f.payload) <= f.total

\* The checks of feed, in their order.
accepts(r, f) ==
  /\ MaxBytes # 0 => counted(r, f) <= MaxBytes
  /\ f.payload # <<>>
  /\ f.flags \in {0, FlagStart}
  /\ f.seq = r.seq
  /\ IF f.flags = FlagStart THEN r.buf = <<>> /\ f.total \in 1 .. Limit
                            ELSE r.buf # <<>> /\ f.total = r.total
  /\ Len(r.buf) + Len(f.payload) <= f.total

completes(r, f) == accepts(r, f) /\ Len(r.buf) + Len(f.payload) = f.total

fed(r, f) ==
  [seq      |-> (r.seq + 1) % Modulus,
   total    |-> f.total,
   buf      |-> IF completes(r, f) THEN <<>> ELSE r.buf \o f.payload,
   received |-> counted(r, f),
   failed   |-> FALSE]

\* Feed: after any error the reassembler stays as it is.
Feed(r, f) ==
  IF r.failed THEN r
  ELSE IF accepts(r, f) THEN fed(r, f)
  ELSE [r EXCEPT !.received = counted(r, f), !.failed = TRUE]

Fails(r, f) == r.failed \/ ~accepts(r, f)
Finishes(r, f) == ~r.failed /\ completes(r, f)
-----------------------------------------------------------------------------
FrameInit ==
  /\ sent = [d \in Dirs |-> <<>>]
  /\ seq = [d \in Dirs |-> 0]
  /\ net = [d \in Dirs |-> <<>>]
  /\ reas = [d \in Dirs |-> NewReassembler]
  /\ got = [d \in Dirs |-> <<>>]
  /\ queue = <<>>
  /\ err = "none"
  /\ notify = FALSE
  /\ timer = IF HasDeadline THEN "armed" ELSE "off"
  /\ owes = [g \in Goroutines |-> "nothing"]
  /\ session = "idle"
  /\ outgoing = <<>>
  /\ link = "up"
  /\ sub = FALSE
  /\ strange = 0
  /\ faults = 0

\* The first half of fail, under the mutex: the first error is the one kept.
\* What is left of it is to fill notify and to have the link closed.
fail(g, e) ==
  /\ err' = IF err = "none" THEN e ELSE err
  /\ owes' = [owes EXCEPT ![g] = "wake and close"]

\* A goroutine's select on notify, which never blocks; after fail, Close of
\* the link starts on a goroutine of its own.
Wakes(g) ==
  /\ owes[g] \in {"wake", "wake and close"}
  /\ notify' = TRUE
  /\ owes' = [owes EXCEPT ![g] = "nothing"]
  /\ link' = IF owes[g] = "wake and close" /\ link = "up" THEN "closing" ELSE link
  /\ UNCHANGED <<phoneVars, net, reas, got, queue, err, timer, session, outgoing, sub, envVars>>

traffic == Len(sent[Up]) + Len(sent[Down]) + strange

\* The phone frames a record at the MTU of the moment and writes it to RX.
PhoneSends ==
  \E n \in Lengths, per \in Payloads :
    LET record == Record(Len(sent[Up]) + 1, n)
        frags  == Split(record, per, seq[Up])
    IN /\ link # "gone" /\ strange = 0 /\ traffic < MaxTraffic
       /\ Framable(record)
       /\ sent' = [sent EXCEPT ![Up] = Append(@, record)]
       /\ seq' = [seq EXCEPT ![Up] = (@ + Len(frags)) % Modulus]
       /\ net' = [net EXCEPT ![Up] = @ \o frags]
       /\ UNCHANGED <<reas, got, connVars, callVars, linkVars, envVars>>

\* A phone that frames otherwise, in a connection of its own, writes whatever
\* it likes.
StrangerWrites ==
  \E f \in Foreign :
    /\ link # "gone" /\ sent[Up] = <<>> /\ traffic < MaxTraffic
    /\ strange' = strange + 1
    /\ net' = [net EXCEPT ![Up] = Append(@, f)]
    /\ UNCHANGED <<phoneVars, reas, got, connVars, callVars, linkVars, faults>>

\* The phone turns its subscription to TX on or off.
Subscribes ==
  /\ link # "gone" /\ owes["reader"] = "nothing"
  /\ sub' = ~sub
  /\ UNCHANGED <<phoneVars, net, reas, got, connVars, callVars, link, envVars>>
-----------------------------------------------------------------------------
(* The link, which ought to do none of this.                               *)

disturbs(d, fragments) ==
  /\ faults < MaxFaults /\ strange = 0
  /\ faults' = faults + 1
  /\ net' = [net EXCEPT ![d] = fragments]
  /\ UNCHANGED <<phoneVars, reas, got, connVars, callVars, linkVars, strange>>

Loses == \E d \in Dirs : \E i \in 1 .. Len(net[d]) : disturbs(d, RemoveAt(net[d], i))

Repeats ==
  \E d \in Dirs : \E i \in 1 .. Len(net[d]) : disturbs(d, InsertAt(net[d], i, net[d][i]))

Reorders ==
  \E d \in Dirs : \E i \in 2 .. Len(net[d]) :
    disturbs(d, [net[d] EXCEPT ![i] = net[d][i - 1], ![i - 1] = net[d][i]])
-----------------------------------------------------------------------------
(* The reader.                                                             *)

\* Deliver, up to its unlocking: only the reader touches the reassembler.
DeliversError ==
  /\ owes["reader"] = "nothing" /\ link # "gone" /\ net[Up] # <<>>
  /\ Fails(reas[Up], Head(net[Up]))
  /\ reas' = [reas EXCEPT ![Up] = Feed(@, Head(net[Up]))]
  /\ net' = [net EXCEPT ![Up] = Tail(@)]
  /\ fail("reader", "framing")
  /\ UNCHANGED <<phoneVars, got, queue, notify, timer, session, outgoing, linkVars, envVars>>

DeliversPart ==
  /\ owes["reader"] = "nothing" /\ link # "gone" /\ net[Up] # <<>>
  /\ ~Fails(reas[Up], Head(net[Up])) /\ ~Finishes(reas[Up], Head(net[Up]))
  /\ reas' = [reas EXCEPT ![Up] = Feed(@, Head(net[Up]))]
  /\ net' = [net EXCEPT ![Up] = Tail(@)]
  /\ UNCHANGED <<phoneVars, got, connVars, callVars, linkVars, envVars>>

\* Mutant: a record is queued without a word.
DeliversSilently ==
  /\ owes["reader"] = "nothing" /\ link # "gone" /\ net[Up] # <<>>
  /\ Finishes(reas[Up], Head(net[Up]))
  /\ queue' = Append(queue, reas[Up].buf \o Head(net[Up]).payload)
  /\ reas' = [reas EXCEPT ![Up] = Feed(@, Head(net[Up]))]
  /\ net' = [net EXCEPT ![Up] = Tail(@)]
  /\ UNCHANGED <<phoneVars, got, err, notify, timer, owes, session, outgoing, linkVars, envVars>>

DeliversRecord ==
  /\ owes["reader"] = "nothing" /\ link # "gone" /\ net[Up] # <<>>
  /\ Finishes(reas[Up], Head(net[Up]))
  /\ queue' = Append(queue, reas[Up].buf \o Head(net[Up]).payload)
  /\ reas' = [reas EXCEPT ![Up] = Feed(@, Head(net[Up]))]
  /\ net' = [net EXCEPT ![Up] = Tail(@)]
  /\ owes' = [owes EXCEPT !["reader"] = "wake"]
  /\ UNCHANGED <<phoneVars, got, err, notify, timer, session, outgoing, linkVars, envVars>>

\* lost: the link is gone for its users, what was on its way is dropped, and
\* Conn is yet to be told.
linkEnds ==
  /\ owes["reader"] = "nothing"
  /\ link' = "gone"
  /\ net' = [d \in Dirs |-> <<>>]
  /\ owes' = [owes EXCEPT !["reader"] = "tell"]
  /\ UNCHANGED <<phoneVars, reas, got, connVars, timer, session, outgoing, sub, envVars>>

\* The phone leaves, or the adapter goes.
PhoneLeaves == link # "gone" /\ linkEnds

\* The controller confirms the disconnect that Close commanded.
Disconnected == link = "closing" /\ linkEnds

LinkLost ==
  /\ owes["reader"] = "tell"
  /\ fail("reader", "lost")
  /\ UNCHANGED <<phoneVars, net, reas, got, queue, notify, timer, session, outgoing, linkVars, envVars>>

\* The deadline's function, on a goroutine of the timer.
DeadlinePasses ==
  /\ timer = "armed"
  /\ timer' = "fired"
  /\ fail("timer", "deadline")
  /\ UNCHANGED <<phoneVars, net, reas, got, queue, notify, session, outgoing, linkVars, envVars>>
-----------------------------------------------------------------------------
(* The session.                                                            *)

RecvBegins ==
  /\ session = "idle"
  /\ session' = "recv"
  /\ UNCHANGED <<phoneVars, net, reas, got, connVars, timer, owes, outgoing, linkVars, envVars>>

\* One look at queue and error under the mutex: the queue comes first.
RecvTakes ==
  /\ session = "recv" /\ queue # <<>>
  /\ got' = [got EXCEPT ![Up] = Append(@, Head(queue))]
  /\ queue' = Tail(queue)
  /\ session' = "idle"
  /\ UNCHANGED <<phoneVars, net, reas, err, notify, timer, owes, outgoing, linkVars, envVars>>

RecvFails ==
  /\ session = "recv" /\ queue = <<>> /\ err # "none"
  /\ session' = "over"
  /\ UNCHANGED <<phoneVars, net, reas, got, connVars, timer, owes, outgoing, linkVars, envVars>>

RecvWaits ==
  /\ session = "recv" /\ queue = <<>> /\ err = "none"
  /\ session' = "waiting"
  /\ UNCHANGED <<phoneVars, net, reas, got, connVars, timer, owes, outgoing, linkVars, envVars>>

RecvWoken ==
  /\ session = "waiting" /\ notify
  /\ notify' = FALSE
  /\ session' = "recv"
  /\ UNCHANGED <<phoneVars, net, reas, got, queue, err, timer, owes, outgoing, linkVars, envVars>>

\* Send returns the error there is, or takes the MTU and splits the record.
SendRefused ==
  /\ session = "idle" /\ err # "none"
  /\ session' = "over"
  /\ UNCHANGED <<phoneVars, net, reas, got, connVars, timer, owes, outgoing, linkVars, envVars>>

SendBegins ==
  \E n \in Lengths, per \in Payloads :
    LET record == Record(Len(sent[Down]) + 1, n)
        frags  == Split(record, per, seq[Down])
    IN /\ session = "idle" /\ err = "none" /\ traffic < MaxTraffic
       /\ Framable(record)
       /\ sent' = [sent EXCEPT ![Down] = Append(@, record)]
       /\ seq' = [seq EXCEPT ![Down] = (@ + Len(frags)) % Modulus]
       /\ outgoing' = frags
       /\ session' = "send"
       /\ UNCHANGED <<net, reas, got, connVars, timer, owes, linkVars, envVars>>

\* SendFragment waits for the subscription and the controller's buffers.
SendFragment ==
  /\ session = "send" /\ outgoing # <<>>
  /\ sub /\ link # "gone"
  /\ net' = [net EXCEPT ![Down] = Append(@, Head(outgoing))]
  /\ outgoing' = Tail(outgoing)
  /\ session' = IF Len(outgoing) = 1 THEN "idle" ELSE "send"
  /\ UNCHANGED <<phoneVars, reas, got, connVars, timer, owes, linkVars, envVars>>

sendFails(e) ==
  /\ session = "send"
  /\ fail("session", e)
  /\ outgoing' = <<>>
  /\ session' = "over"
  /\ UNCHANGED <<phoneVars, net, reas, got, queue, notify, timer, linkVars, envVars>>

\* Mutant: the wait for the subscription does not look at the link.
SendWaitsOn == link = "gone" /\ sub /\ sendFails("closed")

\* The wait ends because the link is gone; or the MTU has shrunk below the
\* fragment, or the adapter refuses it.
SendFindsNoLink == link = "gone" /\ sendFails("closed")
SendErrs == sub /\ link # "gone" /\ sendFails("refused")

\* Close, which whoever served the session calls when that is over.
Close ==
  /\ session \in {"idle", "over"} /\ owes["session"] = "nothing"
  /\ timer' = IF timer = "armed" THEN "stopped" ELSE timer
  /\ fail("session", "closed")
  /\ session' = "closed"
  /\ UNCHANGED <<phoneVars, net, reas, got, queue, notify, outgoing, linkVars, envVars>>

\* OnNotification: a whole record goes to the verifier, an error ends it.
PhoneReceives ==
  /\ link # "gone" /\ net[Down] # <<>>
  /\ LET f == Head(net[Down])
     IN got' = IF Finishes(reas[Down], f)
                 THEN [got EXCEPT ![Down] = Append(@, reas[Down].buf \o f.payload)]
                 ELSE got
  /\ reas' = [reas EXCEPT ![Down] = Feed(@, Head(net[Down]))]
  /\ net' = [net EXCEPT ![Down] = Tail(@)]
  /\ UNCHANGED <<phoneVars, connVars, callVars, linkVars, envVars>>
-----------------------------------------------------------------------------
Delivers == DeliversError \/ DeliversPart \/ DeliversRecord
Recv == RecvTakes \/ RecvFails \/ RecvWaits \/ RecvWoken
Sends == SendBegins \/ SendFragment \/ SendFindsNoLink \/ SendErrs \/ SendRefused

FrameNext ==
  \/ \E g \in Goroutines : Wakes(g)
  \/ PhoneSends \/ StrangerWrites \/ Subscribes
  \/ Loses \/ Repeats \/ Reorders
  \/ DeliversError \/ DeliversPart \/ DeliversRecord
  \/ PhoneLeaves \/ Disconnected \/ LinkLost
  \/ DeadlinePasses
  \/ RecvBegins \/ RecvTakes \/ RecvFails \/ RecvWaits \/ RecvWoken
  \/ SendRefused \/ SendBegins \/ SendFragment \/ SendFindsNoLink \/ SendErrs
  \/ Close
  \/ PhoneReceives

FrameSpec == FrameInit /\ [][FrameNext]_frameVars

\* The scheduler runs every goroutine that can run, time passes, and the
\* controller confirms a disconnect; nothing is asked of the phone, nor that
\* the controller ever takes a fragment.
FrameFairness ==
  /\ \A g \in Goroutines : WF_frameVars(Wakes(g))
  /\ WF_frameVars(Delivers)
  /\ WF_frameVars(Disconnected)
  /\ WF_frameVars(LinkLost)
  /\ WF_frameVars(DeadlinePasses)
  /\ WF_frameVars(Recv)
  /\ WF_frameVars(SendFindsNoLink)

FairFrameSpec == FrameSpec /\ FrameFairness
-----------------------------------------------------------------------------
Bytes == Nat \X Nat
Fragments == [total : Nat, flags : Nat, seq : Nat, payload : Seq(Bytes)]
Reassemblers == [seq : 0 .. Modulus - 1, total : Nat, buf : Seq(Bytes),
                 received : Nat, failed : BOOLEAN]
Errors == {"none", "framing", "lost", "deadline", "closed", "refused"}

\* The type of every variable.
FrameTypeOK ==
  /\ sent \in [Dirs -> Seq(Seq(Bytes))]
  /\ seq \in [Dirs -> 0 .. Modulus - 1]
  /\ net \in [Dirs -> Seq(Fragments)]
  /\ reas \in [Dirs -> Reassemblers]
  /\ got \in [Dirs -> Seq(Seq(Bytes))]
  /\ queue \in Seq(Seq(Bytes))
  /\ err \in Errors
  /\ notify \in BOOLEAN
  /\ timer \in {"off", "armed", "stopped", "fired"}
  /\ owes \in [Goroutines -> {"nothing", "wake", "wake and close", "tell"}]
  /\ session \in {"idle", "recv", "waiting", "send", "over", "closed"}
  /\ outgoing \in Seq(Fragments)
  /\ session = "send" => outgoing # <<>>
  /\ link \in {"up", "closing", "gone"}
  /\ sub \in BOOLEAN
  /\ strange \in Nat
  /\ faults \in Nat

\* A Recv that waits is always going to be woken when there is something to
\* return: notify is full, or some goroutine is on its way to fill it.  The
\* channel holds one wake-up and filling it never blocks, so a wake-up may
\* be dropped: only ever one that another stands for.
WakeupKept ==
  session = "waiting" /\ (queue # <<>> \/ err # "none")
    => notify \/ \E g \in Goroutines : owes[g] \in {"wake", "wake and close"}

\* What records cost of the budget at the least: their bytes, and a header each.
Cost(records) ==
  LET upTo[i \in 0 .. Len(records)] ==
        IF i = 0 THEN 0 ELSE upTo[i - 1] + HeaderSize + Len(records[i])
  IN  upTo[Len(records)]

\* What the reassembler lets in, whoever sends it, counts towards the
\* budget: all records returned, queued or half put together are within
\* MaxBytes, with a header for each that is whole.
WithinBudget ==
  MaxBytes # 0 => Cost(got[Up] \o queue) + Len(reas[Up].buf) <= MaxBytes

\* No record and no buffer ever grows beyond the limit, nor a buffer beyond
\* the length its first fragment declared, whatever fragments arrive.
WithinLimit ==
  /\ \A i \in DOMAIN queue : Len(queue[i]) \in 1 .. Limit
  /\ \A i \in DOMAIN got[Up] : Len(got[Up][i]) \in 1 .. Limit
  /\ reas[Up].buf # <<>> => Len(reas[Up].buf) < reas[Up].total /\ reas[Up].total <= Limit

\* The phone's records reach Recv whole, once and in order, through changes
\* of the MTU, wrapping numbers and fragments lost, repeated or out of order:
\* after such a fragment nothing more arrives.  A stranger's connection has
\* nothing to arrive.
UpPipe == INSTANCE RecordPipe
            WITH sent <- sent[Up], got <- IF strange = 0 THEN got[Up] ELSE <<>>
UpArrivesIntact == UpPipe!PipeSpec

\* So do the machine's records on the phone, which Send hands to the link a
\* fragment at a time while subscription, MTU and error change.
DownPipe == INSTANCE RecordPipe WITH sent <- sent[Down], got <- got[Down]
DownArrivesIntact == DownPipe!PipeSpec

\* With a deadline no call of the session blocks for ever: Recv is woken by
\* the error, and Send, which waits for the phone's subscription and for the
\* controller and never looks at the error, by the link the failure closes.
CallsReturn == session \in {"recv", "waiting", "send"} ~> session \in {"idle", "over", "closed"}

\* A record in the queue is returned to the Recv that waits, deadline or not.
QueuedIsReturned == session = "waiting" /\ queue # <<>> ~> session = "idle"

\* A connection that failed is dropped, so that the peripheral can return to
\* advertising.
FailedIsDropped == err # "none" ~> link = "gone"

\* Both directions are the same abstract pipe of whole records.
ArrivesIntact == UpArrivesIntact /\ DownArrivesIntact

\* Nothing waits for good: no call, no record, no failed connection.
NothingIsStuck == CallsReturn /\ QueuedIsReturned /\ FailedIsDropped
=============================================================================
