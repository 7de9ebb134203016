--------------------------- MODULE BleHostProofs ---------------------------
(***************************************************************************)
(* The radio's host, for any number of controller buffers and links.       *)
(*                                                                         *)
(* The controller's events wait in a queue, and the host acts on what was. *)
(* The queue tells of links in their order, of each from its connection to *)
(* its end, so that what is told first is a new link or the host's own.    *)
(* What the host counts for its link (inFlight) covers what the controller *)
(* holds of it, what it told to be free and what is about to be written;   *)
(* with the credits left that is never more than there are buffers.        *)
(***************************************************************************)
EXTENDS BleHost, SequenceTheorems, FiniteSetTheorems, TLAPS

-----------------------------------------------------------------------------
(* What is told waits in order.                                            *)

LinkKinds == {"connected", "subscribes", "asks", "completed", "disconnected"}
OfLink(e) == e[1] \in LinkKinds
Events == (LinkKinds \union {"answer", "error"}) \X Nat
Told(ev, k, l) == \E i \in DOMAIN ev : ev[i] = <<k, l>>

\* The events of links come in the order of the links, for one link from
\* "connected" to "disconnected".
InOrder(e, f) ==
  OfLink(e) /\ OfLink(f) => e[2] <= f[2] /\ (e[2] = f[2] => e[1] # "disconnected" /\ f[1] # "connected")

\* h is the host's link: of those before it nothing is told, of itself anything
\* but that it is connected; buffers are given back for it alone.
EventOK(e, h, made, conn) ==
  OfLink(e) =>
    /\ h <= e[2] /\ e[2] \in 1..made
    /\ e[2] = h => e[1] # "connected"
    /\ e[1] = "completed" => e[2] = h
    /\ e[1] = "disconnected" => e[2] # conn

\* What is told of a link the host has not is told with its connection; the host
\* has, or will have, what the controller has; what the host has or will have and
\* the controller has not, is told to be disconnected; an error is the last.
QueueOK(ev, h, made, conn, up) ==
  /\ ev \in Seq(Events) /\ made \in Nat /\ h \in 0..made /\ conn \in {NoLink, made}
  /\ \A i \in DOMAIN ev : EventOK(ev[i], h, made, conn)
  /\ \A i, j \in DOMAIN ev : i < j => InOrder(ev[i], ev[j])
  /\ \A i \in DOMAIN ev : OfLink(ev[i]) => h = ev[i][2] \/ Told(ev, "connected", ev[i][2])
  /\ conn # NoLink => h = conn \/ Told(ev, "connected", conn)
  /\ \A l \in 1..made : (h = l \/ Told(ev, "connected", l)) /\ (l # made \/ (up /\ conn # l)) => Told(ev, "disconnected", l)
  /\ ~ up => conn = NoLink
  /\ \A i \in DOMAIN ev : ev[i][1] = "error" => i = Len(ev) /\ ~ up

Completed(ev) == Cardinality({i \in DOMAIN ev : ev[i][1] = "completed"})

\* The host has met link l, c is the controller.
Met(c, l) == l \in 1..c.made /\ ~ Told(c.events, "connected", l)

NewLink == [gone |-> FALSE, sub |-> FALSE, accepted |-> FALSE, inFlight |-> 0, tx |-> "free"]
LinkType == [gone : BOOLEAN, sub : BOOLEAN, accepted : BOOLEAN, inFlight : Nat, tx : Senders \union {"free"}]
SenderStages == {"idle", "sub", "asleep for sub", "lock", "credit", "asleep for credit", "write"}
Holding == {"credit", "asleep for credit", "write"}
AcceptStages == {"idle", "closes stale", "waits", "drains", "starts", "starting", "select", "stopping", "serving"}

BleTypeOK ==
  /\ host \in [link : Nat, credits : Nat, closed : BOOLEAN, newLinks : {<<>>} \union {<<l>> : l \in Links}]
  /\ links \in [Links -> LinkType]
  /\ reader \in {<<>>, <<"broadcast">>, <<"done">>} \union {<<"lost", l>> : l \in Links}
  /\ snd \in [Senders -> [at : SenderStages, l : Nat, off : 0..Last2, sent : Nat]]
  /\ acc \in [at : AcceptStages, l : Nat]
  /\ DOMAIN ctl = {"up", "adv", "conn", "made", "held", "events", "last", "torn", "asked", "failed"}
  /\ ctl.up \in BOOLEAN /\ ctl.adv \in BOOLEAN /\ ctl.torn \in BOOLEAN /\ ctl.failed \in BOOLEAN
  /\ ctl.made \in 0..MaxLinks /\ ctl.held \in Nat /\ ctl.asked \in Nat

QueueInv == QueueOK(ctl.events, host.link, ctl.made, ctl.conn, ctl.up)

\* Who has a link has met it; a link that was not met is new; one that is gone is
\* none of the controller's.
LinksInv ==
  /\ \A l \in Links : ~ Met(ctl, l) => links[l] = NewLink
  /\ \A l \in Links : links[l].gone \/ reader = <<"lost", l>> => Met(ctl, l) /\ ctl.conn # l
  /\ \A s \in Senders : snd[s].at # "idle" => Met(ctl, snd[s].l)
  /\ acc.at \in {"closes stale", "serving"} => Met(ctl, acc.l)
  /\ \A i \in DOMAIN host.newLinks : Met(ctl, host.newLinks[i]) /\ ~ links[host.newLinks[i]].accepted
  /\ host.closed => ~ ctl.up /\ ctl.events = <<>>
  /\ reader = <<"done">> => host.closed
  /\ ctl.adv => ctl.up /\ ctl.conn = NoLink

\* txMu: who sends on a link holds it, and who does not is at its first piece.
TxInv ==
  /\ \A l \in Links : links[l].tx # "free" => snd[links[l].tx].l = l /\ snd[links[l].tx].at \in Holding
  /\ \A s \in Senders : IF snd[s].at \in Holding THEN links[snd[s].l].tx = s ELSE snd[s].off = 0

\* The link's part in the credits; what the controller holds, what it told of and
\* what is about to be written are among the link's.
Writing(ls, ss, l) == IF ls[l].tx # "free" /\ ss[ls[l].tx].at = "write" THEN 1 ELSE 0
CreditsInv ==
  /\ host.link = NoLink => host.credits <= AclBuffers
  /\ host.link # NoLink =>
       /\ host.credits + links[host.link].inFlight <= AclBuffers
       /\ Completed(ctl.events) + ctl.held + Writing(links, snd, host.link) <= links[host.link].inFlight
  /\ ctl.held > 0 => ctl.conn # NoLink /\ ctl.conn = host.link

\* The piece that went out last.
PieceInv ==
  /\ ~ ctl.torn
  /\ ctl.conn # NoLink =>
       IF links[ctl.conn].tx # "free" /\ snd[links[ctl.conn].tx].off # 0
       THEN ctl.last = <<links[ctl.conn].tx, 0>>
       ELSE ctl.last = Absent \/ ctl.last[2] = Last2

\* As long as no command failed: advertising is on, and a connection told of,
\* only from its start to its stop, and of one connection.
NoneComes(c) == ~ c.adv /\ \A l \in Links : ~ Told(c.events, "connected", l)
AcceptInv ==
  ~ ctl.failed =>
    /\ acc.at \notin {"starting", "select", "stopping"} => NoneComes(ctl)
    /\ acc.at \in {"drains", "starts"} => host.link = NoLink
    /\ acc.at = "starts" => host.newLinks = <<>>
    /\ acc.at \in {"starting", "select"} =>
         /\ host.link # NoLink => host.newLinks = <<host.link>>
         /\ host.newLinks # <<>> => NoneComes(ctl)
         /\ \A l \in Links : Told(ctl.events, "connected", l) => ~ ctl.adv
         /\ \A k, l \in Links : Told(ctl.events, "connected", k) /\ Told(ctl.events, "connected", l) => k = l
    /\ acc.at = "stopping" =>
         /\ ~ ctl.adv
         /\ \A i, j \in DOMAIN ctl.events :
              ctl.events[i][1] = "connected" /\ ctl.events[j] = <<"answer", ctl.asked>> => i < j

BleIInv ==
  /\ BleTypeOK /\ QueueInv /\ LinksInv /\ TxInv /\ CreditsInv /\ PieceInv /\ NobodyOversleeps /\ AcceptInv

\* No answer is told of a command that was not asked yet.
AnswersInv == \A i \in DOMAIN ctl.events : ctl.events[i][1] = "answer" => ctl.events[i][2] <= ctl.asked

-----------------------------------------------------------------------------
(* What is told, and taken. *)

\* An event is its kind and its number.
LEMMA EventIs ==
  ASSUME NEW e \in Events
  PROVE  e = <<e[1], e[2]>> /\ e[1] \in LinkKinds \union {"answer", "error"} /\ e[2] \in Nat
  BY DEF Events

\* The queue with one event more.
LEMMA Appended ==
  ASSUME NEW ev \in Seq(Events), NEW e \in Events, NEW ev2, ev2 = Append(ev, e)
  PROVE  /\ ev2 \in Seq(Events) /\ Len(ev) \in Nat /\ Len(ev2) = Len(ev) + 1
         /\ DOMAIN ev = 1..Len(ev) /\ DOMAIN ev2 = 1..(Len(ev) + 1)
         /\ ev2[Len(ev) + 1] = e /\ \A i \in DOMAIN ev : i \in DOMAIN ev2 /\ ev2[i] = ev[i]
  BY AppendProperties

\* What is told once one event more is.
LEMMA ToldThen ==
  ASSUME NEW ev \in Seq(Events), NEW e \in Events, NEW ev2, ev2 = Append(ev, e), NEW k, NEW l
  PROVE  Told(ev2, k, l) <=> Told(ev, k, l) \/ e = <<k, l>>
<1>1. /\ Len(ev) \in Nat /\ DOMAIN ev = 1..Len(ev) /\ DOMAIN ev2 = 1..(Len(ev) + 1)
      /\ ev2[Len(ev) + 1] = e /\ \A i \in DOMAIN ev : i \in DOMAIN ev2 /\ ev2[i] = ev[i]
  BY Appended
<1>2. \A i \in DOMAIN ev2 : i \in DOMAIN ev \/ i = Len(ev) + 1
  BY <1>1
<1>3. Len(ev) + 1 \in DOMAIN ev2
  BY <1>1
<1> QED BY <1>1, <1>2, <1>3 DEF Told

\* The queue without its first event.
LEMMA TakenOff ==
  ASSUME NEW ev \in Seq(Events), ev # <<>>, NEW ev2, ev2 = Tail(ev)
  PROVE  /\ ev2 \in Seq(Events) /\ Len(ev2) \in Nat /\ Len(ev) = Len(ev2) + 1
         /\ DOMAIN ev = 1..Len(ev) /\ DOMAIN ev2 = 1..Len(ev2)
         /\ 1 \in DOMAIN ev /\ Head(ev) = ev[1] /\ Head(ev) \in Events
         /\ \A i \in DOMAIN ev2 : i + 1 \in DOMAIN ev /\ ev2[i] = ev[i + 1]
<1>1. ev2 \in Seq(Events) /\ Len(ev2) = Len(ev) - 1 /\ Len(ev) \in Nat /\ Len(ev) # 0 /\ \A i \in 1..Len(ev2) : ev2[i] = ev[i + 1]
  BY HeadTailProperties, EmptySeq
<1>2. DOMAIN ev = 1..Len(ev) /\ DOMAIN ev2 = 1..Len(ev2) /\ Len(ev2) \in Nat /\ Len(ev) = Len(ev2) + 1
  BY <1>1
<1>3. 1 \in DOMAIN ev /\ Head(ev) = ev[1] /\ Head(ev) \in Events
  BY <1>1, <1>2
<1>4. \A i \in DOMAIN ev2 : i + 1 \in DOMAIN ev
  BY <1>2
<1> QED BY <1>1, <1>2, <1>3, <1>4

\* What is still told when the first event is taken.
LEMMA ToldStill ==
  ASSUME NEW ev \in Seq(Events), ev # <<>>
  PROVE  \A k, l : Told(ev, k, l) <=> Told(Tail(ev), k, l) \/ Head(ev) = <<k, l>>
<1> DEFINE ev2 == Tail(ev)
<1> SUFFICES ASSUME NEW k, NEW l
             PROVE  Told(ev, k, l) <=> Told(ev2, k, l) \/ Head(ev) = <<k, l>>
  OBVIOUS
<1>1. /\ Len(ev2) \in Nat /\ Len(ev) = Len(ev2) + 1 /\ DOMAIN ev = 1..Len(ev) /\ DOMAIN ev2 = 1..Len(ev2)
      /\ 1 \in DOMAIN ev /\ Head(ev) = ev[1] /\ \A i \in DOMAIN ev2 : i + 1 \in DOMAIN ev /\ ev2[i] = ev[i + 1]
  BY TakenOff
<1> HIDE DEF ev2
<1>2. ASSUME Told(ev, k, l), Head(ev) # <<k, l>>
      PROVE  Told(ev2, k, l)
  <2>1. PICK i \in DOMAIN ev : ev[i] = <<k, l>>
    BY <1>2 DEF Told
  <2>2. i # 1
    BY <1>1, <1>2, <2>1
  <2>3. i - 1 \in DOMAIN ev2 /\ (i - 1) + 1 = i
    BY <1>1, <2>2
  <2>4. ev2[i - 1] = <<k, l>>
    BY <1>1, <2>1, <2>3
  <2> QED BY <2>3, <2>4 DEF Told
<1>3. ASSUME Told(ev2, k, l)
      PROVE  Told(ev, k, l)
  BY <1>1, <1>3 DEF Told
<1>4. Head(ev) = <<k, l>> => Told(ev, k, l)
  BY <1>1 DEF Told
<1> QED BY <1>2, <1>3, <1>4

\* One more is told.
LEMMA OneMore ==
  ASSUME NEW ev, NEW h, NEW made, NEW conn, NEW up, QueueOK(ev, h, made, conn, up), up,
         NEW e \in Events, NEW made2 \in {made, made + 1}, NEW conn2 \in {NoLink, made2}, NEW up2 \in BOOLEAN,
         \A i \in DOMAIN ev : EventOK(ev[i], h, made2, conn2) /\ InOrder(ev[i], e),
         EventOK(e, h, made2, conn2), OfLink(e) => h = e[2] \/ e[1] = "connected" \/ Told(ev, "connected", e[2]),
         conn2 # NoLink => h = conn2 \/ e = <<"connected", conn2>> \/ Told(ev, "connected", conn2),
         \A l \in 1..made2 :
           (h = l \/ e = <<"connected", l>> \/ Told(ev, "connected", l)) /\ (l # made2 \/ (up2 /\ conn2 # l))
           => e = <<"disconnected", l>> \/ Told(ev, "disconnected", l),
         ~ up2 => conn2 = NoLink, e[1] = "error" => ~ up2
  PROVE  QueueOK(Append(ev, e), h, made2, conn2, up2)
<1> DEFINE ev2 == Append(ev, e)
           n == Len(ev) + 1
<1>0. ev \in Seq(Events) /\ made \in Nat /\ h \in 0..made
  BY DEF QueueOK
<1>1. /\ ev2 \in Seq(Events) /\ Len(ev) \in Nat /\ Len(ev2) = n /\ DOMAIN ev = 1..Len(ev) /\ DOMAIN ev2 = 1..n
      /\ ev2[n] = e /\ \A i \in DOMAIN ev : i \in DOMAIN ev2 /\ ev2[i] = ev[i]
  BY <1>0, Appended
<1>2. \A k, l : Told(ev2, k, l) <=> Told(ev, k, l) \/ e = <<k, l>>
  BY <1>0, ToldThen
<1> HIDE DEF ev2
<1>3. n \in DOMAIN ev2 /\ \A i \in DOMAIN ev2 : i \in DOMAIN ev \/ i = n
  BY <1>1
<1>4. \A i \in DOMAIN ev2 : EventOK(ev2[i], h, made2, conn2)
  BY <1>1, <1>3
<1>5. ASSUME NEW i \in DOMAIN ev2, NEW j \in DOMAIN ev2, i < j
      PROVE  InOrder(ev2[i], ev2[j])
  <2>1. i \in DOMAIN ev
    BY <1>1, <1>5
  <2>2. CASE j = n
    BY <1>1, <2>1, <2>2
  <2>3. CASE j \in DOMAIN ev
    BY <1>1, <1>5, <2>1, <2>3 DEF QueueOK
  <2> QED BY <1>3, <2>2, <2>3
<1>6. ASSUME NEW i \in DOMAIN ev2, OfLink(ev2[i])
      PROVE  h = ev2[i][2] \/ Told(ev2, "connected", ev2[i][2])
  <2>1. CASE i \in DOMAIN ev
    BY <1>1, <1>2, <1>6, <2>1 DEF QueueOK
  <2>2. CASE i = n
    <3>1. ev2[i] = e /\ e = <<e[1], e[2]>>
      BY <1>1, <2>2, EventIs
    <3> QED BY <1>2, <1>6, <3>1
  <2> QED BY <1>3, <2>1, <2>2
<1>7. \A l \in 1..made2 : (h = l \/ Told(ev2, "connected", l)) /\ (l # made2 \/ (up2 /\ conn2 # l)) => Told(ev2, "disconnected", l)
  BY <1>2
<1>8. conn2 # NoLink => h = conn2 \/ Told(ev2, "connected", conn2)
  BY <1>2
<1>9. \A i \in DOMAIN ev2 : ev2[i][1] = "error" => i = Len(ev2) /\ ~ up2
  <2>1. \A i \in DOMAIN ev : ev[i][1] # "error"
    BY DEF QueueOK
  <2> QED BY <1>1, <1>3, <2>1
<1>10. made2 \in Nat /\ h \in 0..made2
  BY <1>0
<1> QED BY <1>1, <1>4, <1>5, <1>6, <1>7, <1>8, <1>9, <1>10 DEF QueueOK, ev2

\* The queue's parts, apart.
LEMMA QueueFacts ==
  ASSUME NEW ev, NEW h, NEW made, NEW conn, NEW up, QueueOK(ev, h, made, conn, up)
  PROVE  /\ ev \in Seq(Events) /\ made \in Nat /\ h \in Nat /\ h <= made /\ conn \in Nat /\ conn \in {NoLink, made}
         /\ \A i \in DOMAIN ev : ev[i] \in Events
         /\ \A i \in DOMAIN ev : OfLink(ev[i]) => ev[i][2] \in Nat /\ ev[i][2] <= made /\ h <= ev[i][2] /\ 1 <= ev[i][2]
  BY DEF QueueOK, EventOK, NoLink

\* The link there is tells something more, and the queue stays in order.
LEMMA LinkTells ==
  ASSUME NEW ev, NEW h, NEW made, NEW conn, NEW up, QueueOK(ev, h, made, conn, up), up \in BOOLEAN,
         up, conn # NoLink, NEW k \in {"subscribes", "asks", "completed"}, k = "completed" => h = conn
  PROVE  QueueOK(Append(ev, <<k, conn>>), h, made, conn, up)
<1> DEFINE e == <<k, conn>>
<1>0. /\ ev \in Seq(Events) /\ made \in Nat /\ h \in Nat /\ h <= made /\ conn \in Nat /\ conn = made /\ made >= 1
      /\ \A i \in DOMAIN ev : OfLink(ev[i]) => ev[i][2] \in Nat /\ ev[i][2] <= made
  <2>1. /\ ev \in Seq(Events) /\ made \in Nat /\ h \in Nat /\ h <= made /\ conn \in {NoLink, made}
        /\ \A i \in DOMAIN ev : OfLink(ev[i]) => ev[i][2] \in Nat /\ ev[i][2] <= made /\ 1 <= ev[i][2]
    BY QueueFacts
  <2>2. conn = made /\ made # 0
    BY <2>1 DEF NoLink
  <2> QED BY <2>1, <2>2
<1>1. e \in Events /\ e[1] = k /\ e[2] = conn /\ OfLink(e) /\ e[1] \notin {"connected", "disconnected", "error"}
  BY <1>0 DEF Events, LinkKinds, OfLink
<1> HIDE DEF e
<1>2. \A i \in DOMAIN ev : EventOK(ev[i], h, made, conn)
  BY DEF QueueOK
<1>3. \A i \in DOMAIN ev : InOrder(ev[i], e)
  BY <1>0, <1>1, <1>2 DEF InOrder, EventOK
<1>4. EventOK(e, h, made, conn)
  BY <1>0, <1>1 DEF EventOK
<1>5. h = conn \/ Told(ev, "connected", conn)
  BY DEF QueueOK
<1>6. \A l \in 1..made : (h = l \/ Told(ev, "connected", l)) /\ (l # made \/ (up /\ conn # l)) => Told(ev, "disconnected", l)
  BY DEF QueueOK
<1>7. \A l : e # <<"connected", l>>
  BY <1>1
<1> QED BY <1>0, <1>1, <1>2, <1>3, <1>4, <1>5, <1>6, <1>7, OneMore DEF e

\* A command is answered.
LEMMA AnswerTold ==
  ASSUME NEW ev, NEW h, NEW made, NEW conn, NEW up, QueueOK(ev, h, made, conn, up), up \in BOOLEAN, up, NEW n \in Nat
  PROVE  QueueOK(Append(ev, <<"answer", n>>), h, made, conn, up)
<1> DEFINE e == <<"answer", n>>
<1>0. ev \in Seq(Events) /\ made \in Nat /\ conn \in {NoLink, made}
  BY QueueFacts
<1>1. e \in Events /\ e[1] = "answer" /\ ~ OfLink(e)
  BY <1>0 DEF Events, LinkKinds, OfLink
<1> HIDE DEF e
<1>2. \A i \in DOMAIN ev : EventOK(ev[i], h, made, conn) /\ InOrder(ev[i], e)
  BY <1>1 DEF QueueOK, InOrder
<1>3. EventOK(e, h, made, conn)
  BY <1>1 DEF EventOK
<1>5. conn # NoLink => h = conn \/ Told(ev, "connected", conn)
  BY DEF QueueOK
<1>6. \A l \in 1..made : (h = l \/ Told(ev, "connected", l)) /\ (l # made \/ (up /\ conn # l)) => Told(ev, "disconnected", l)
  BY DEF QueueOK
<1>7. \A l : e # <<"connected", l>>
  BY <1>1
<1> QED BY <1>0, <1>1, <1>2, <1>3, <1>5, <1>6, <1>7, OneMore DEF e

\* The controller has a new connection, and tells so.
LEMMA ConnectTold ==
  ASSUME NEW ev, NEW h, NEW made, NEW conn, NEW up, QueueOK(ev, h, made, conn, up), up \in BOOLEAN, up, conn = NoLink
  PROVE  QueueOK(Append(ev, <<"connected", made + 1>>), h, made + 1, made + 1, up)
<1> DEFINE e == <<"connected", made + 1>>
           m == made + 1
<1>0. /\ ev \in Seq(Events) /\ made \in Nat /\ h \in Nat /\ h <= made /\ m \in Nat /\ h < m
      /\ \A i \in DOMAIN ev : OfLink(ev[i]) => ev[i][2] \in Nat /\ ev[i][2] <= made /\ ev[i][2] < m /\ 1 <= ev[i][2]
  <2>1. /\ ev \in Seq(Events) /\ made \in Nat /\ h \in Nat /\ h <= made
        /\ \A i \in DOMAIN ev : OfLink(ev[i]) => ev[i][2] \in Nat /\ ev[i][2] <= made /\ 1 <= ev[i][2]
    BY QueueFacts
  <2> QED BY <2>1
<1>1. e \in Events /\ e[1] = "connected" /\ e[2] = m /\ OfLink(e)
  BY <1>0 DEF Events, LinkKinds, OfLink
<1>2. \A i \in DOMAIN ev : EventOK(ev[i], h, made, conn)
  BY DEF QueueOK
<1>3. \A l : e = <<"connected", l>> => l = m
  BY <1>1
<1> HIDE DEF e
<1>4. \A i \in DOMAIN ev : EventOK(ev[i], h, m, m)
  BY <1>0, <1>2 DEF EventOK
<1>5. \A i \in DOMAIN ev : InOrder(ev[i], e)
  BY <1>0, <1>1 DEF InOrder
<1>6. EventOK(e, h, m, m)
  BY <1>0, <1>1 DEF EventOK
<1>7. ASSUME NEW l \in 1..m, h = l \/ e = <<"connected", l>> \/ Told(ev, "connected", l), l # m \/ (up /\ m # l)
      PROVE  Told(ev, "disconnected", l)
  <2>1. l \in 1..made /\ (h = l \/ Told(ev, "connected", l)) /\ (l # made \/ (up /\ conn # l))
    BY <1>0, <1>3, <1>7 DEF NoLink
  <2> QED BY <2>1 DEF QueueOK
<1>8. m \in {made, made + 1} /\ e = <<"connected", m>>
  BY DEF e
<1> HIDE DEF m
<1>9. QueueOK(Append(ev, e), h, m, m, up)
  BY <1>0, <1>1, <1>4, <1>5, <1>6, <1>7, <1>8, OneMore
<1> QED BY <1>9 DEF m, e

\* The controller's connection is over, and it tells so.
LEMMA DropTold ==
  ASSUME NEW ev, NEW h, NEW made, NEW conn, NEW up, QueueOK(ev, h, made, conn, up), up \in BOOLEAN, up, conn # NoLink
  PROVE  QueueOK(Append(ev, <<"disconnected", conn>>), h, made, NoLink, up)
<1> DEFINE e == <<"disconnected", conn>>
<1>0. /\ ev \in Seq(Events) /\ made \in Nat /\ h \in Nat /\ h <= made /\ conn \in Nat /\ conn = made /\ made >= 1
      /\ \A i \in DOMAIN ev : OfLink(ev[i]) => ev[i][2] \in Nat /\ ev[i][2] <= made /\ 1 <= ev[i][2]
  <2>1. /\ ev \in Seq(Events) /\ made \in Nat /\ h \in Nat /\ h <= made /\ conn \in {NoLink, made}
        /\ \A i \in DOMAIN ev : OfLink(ev[i]) => ev[i][2] \in Nat /\ ev[i][2] <= made /\ 1 <= ev[i][2]
    BY QueueFacts
  <2>2. conn = made /\ made # 0
    BY <2>1 DEF NoLink
  <2> QED BY <2>1, <2>2
<1>1. e \in Events /\ e[1] = "disconnected" /\ e[2] = conn /\ OfLink(e) /\ e = <<"disconnected", made>>
  BY <1>0 DEF Events, LinkKinds, OfLink
<1> HIDE DEF e
<1>2. \A i \in DOMAIN ev : EventOK(ev[i], h, made, conn)
  BY DEF QueueOK
<1>3. \A i \in DOMAIN ev : EventOK(ev[i], h, made, NoLink)
  BY <1>0, <1>2 DEF EventOK, NoLink
<1>4. \A i \in DOMAIN ev : InOrder(ev[i], e)
  BY <1>0, <1>1, <1>2 DEF InOrder, EventOK
<1>5. EventOK(e, h, made, NoLink)
  BY <1>0, <1>1 DEF EventOK, NoLink
<1>6. h = conn \/ Told(ev, "connected", conn)
  BY DEF QueueOK
<1>7. \A l \in 1..made : (h = l \/ Told(ev, "connected", l)) /\ l # made => Told(ev, "disconnected", l)
  BY DEF QueueOK
<1>8. \A l : e # <<"connected", l>>
  BY <1>1
<1> QED BY <1>0, <1>1, <1>3, <1>4, <1>5, <1>6, <1>7, <1>8, OneMore DEF e

\* The adapter is gone: an error is told, and nothing behind it.
LEMMA ErrorTold ==
  ASSUME NEW ev, NEW h, NEW made, NEW conn, NEW up, QueueOK(ev, h, made, conn, up), up \in BOOLEAN, up
  PROVE  QueueOK(Append(ev, <<"error", NoLink>>), h, made, NoLink, FALSE)
<1> DEFINE e == <<"error", NoLink>>
<1>0. /\ ev \in Seq(Events) /\ made \in Nat /\ h \in Nat /\ h <= made
      /\ \A i \in DOMAIN ev : OfLink(ev[i]) => ev[i][2] \in Nat /\ ev[i][2] <= made /\ 1 <= ev[i][2]
  BY QueueFacts
<1>1. e \in Events /\ e[1] = "error" /\ ~ OfLink(e)
  BY <1>0 DEF Events, LinkKinds, OfLink, NoLink
<1> HIDE DEF e
<1>2. \A i \in DOMAIN ev : EventOK(ev[i], h, made, conn) /\ InOrder(ev[i], e)
  BY <1>1 DEF QueueOK, InOrder
<1>3. \A i \in DOMAIN ev : EventOK(ev[i], h, made, NoLink)
  BY <1>0, <1>2 DEF EventOK, NoLink
<1>4. EventOK(e, h, made, NoLink)
  BY <1>1 DEF EventOK
<1>5. \A l \in 1..made : (h = l \/ Told(ev, "connected", l)) /\ l # made => Told(ev, "disconnected", l)
  BY DEF QueueOK
<1>6. \A l : e # <<"connected", l>>
  BY <1>1
<1> QED BY <1>0, <1>1, <1>2, <1>3, <1>4, <1>5, <1>6, OneMore DEF e

\* The first is taken.
LEMMA OneLess ==
  ASSUME NEW ev, NEW h, NEW made, NEW conn, NEW up, QueueOK(ev, h, made, conn, up), ev # <<>>, NEW h2 \in 0..made,
         \A i \in DOMAIN ev : i # 1 => EventOK(ev[i], h2, made, conn),
         \A i \in DOMAIN ev : i # 1 /\ OfLink(ev[i]) => h2 = ev[i][2] \/ Told(Tail(ev), "connected", ev[i][2]),
         conn # NoLink => h2 = conn \/ Told(Tail(ev), "connected", conn),
         \A l \in 1..made :
           (h2 = l \/ Told(Tail(ev), "connected", l)) /\ (l # made \/ (up /\ conn # l)) => Told(Tail(ev), "disconnected", l)
  PROVE  QueueOK(Tail(ev), h2, made, conn, up)
<1> DEFINE ev2 == Tail(ev)
<1>0. ev \in Seq(Events) /\ made \in Nat /\ conn \in {NoLink, made} /\ (~ up => conn = NoLink)
  BY DEF QueueOK
<1>1. /\ ev2 \in Seq(Events) /\ Len(ev2) \in Nat /\ Len(ev) = Len(ev2) + 1
      /\ DOMAIN ev = 1..Len(ev) /\ DOMAIN ev2 = 1..Len(ev2)
      /\ \A i \in DOMAIN ev2 : i + 1 \in DOMAIN ev /\ ev2[i] = ev[i + 1]
  BY <1>0, TakenOff
<1> HIDE DEF ev2
<1>2. \A i \in DOMAIN ev2 : i \in Nat /\ i + 1 # 1
  BY <1>1
<1>3. \A i \in DOMAIN ev2 : EventOK(ev2[i], h2, made, conn)
  BY <1>1, <1>2
<1>4. ASSUME NEW i \in DOMAIN ev2, NEW j \in DOMAIN ev2, i < j
      PROVE  InOrder(ev2[i], ev2[j])
  <2>1. i + 1 < j + 1
    BY <1>2, <1>4
  <2>2. InOrder(ev[i + 1], ev[j + 1])
    BY <1>1, <2>1 DEF QueueOK
  <2> QED BY <1>1, <2>2
<1>5. \A i \in DOMAIN ev2 : OfLink(ev2[i]) => h2 = ev2[i][2] \/ Told(ev2, "connected", ev2[i][2])
  BY <1>1, <1>2 DEF ev2
<1>6. ASSUME NEW i \in DOMAIN ev2, ev2[i][1] = "error"
      PROVE  i = Len(ev2) /\ ~ up
  <2>1. i + 1 = Len(ev) /\ ~ up
    BY <1>1, <1>6 DEF QueueOK
  <2> QED BY <1>1, <1>2, <2>1
<1> QED BY <1>0, <1>1, <1>3, <1>4, <1>5, <1>6 DEF QueueOK, ev2

\* The first event comes before all others.
LEMMA HeadFacts ==
  ASSUME NEW ev, NEW h, NEW made, NEW conn, NEW up, QueueOK(ev, h, made, conn, up), ev # <<>>
  PROVE  /\ 1 \in DOMAIN ev /\ Head(ev) = ev[1] /\ Head(ev) \in Events /\ Head(ev) = <<Head(ev)[1], Head(ev)[2]>>
         /\ EventOK(Head(ev), h, made, conn) /\ \A i \in DOMAIN ev : i # 1 => InOrder(Head(ev), ev[i])
         /\ \A k, l : Told(ev, k, l) <=> Told(Tail(ev), k, l) \/ Head(ev) = <<k, l>>
<1>0. ev \in Seq(Events)
  BY DEF QueueOK
<1>1. /\ 1 \in DOMAIN ev /\ Head(ev) = ev[1] /\ Head(ev) \in Events /\ DOMAIN ev = 1..Len(ev) /\ Len(ev) \in Nat
  BY <1>0, TakenOff
<1>2. Head(ev) = <<Head(ev)[1], Head(ev)[2]>>
  BY <1>1, EventIs
<1>3. EventOK(Head(ev), h, made, conn)
  BY <1>1 DEF QueueOK
<1>4. ASSUME NEW i \in DOMAIN ev, i # 1
      PROVE  InOrder(Head(ev), ev[i])
  <2>1. 1 < i
    BY <1>1, <1>4
  <2> QED BY <1>1, <2>1 DEF QueueOK
<1>5. \A k, l : Told(ev, k, l) <=> Told(Tail(ev), k, l) \/ Head(ev) = <<k, l>>
  BY ONLY <1>0, ev # <<>>, ToldStill
<1> QED BY <1>1, <1>2, <1>3, <1>4, <1>5

\* A told event of a link is of that link.
LEMMA ToldIsOfLink ==
  ASSUME NEW ev, NEW k \in LinkKinds, NEW l, NEW i, ev[i] = <<k, l>>
  PROVE  OfLink(ev[i]) /\ ev[i][1] = k /\ ev[i][2] = l
  BY DEF OfLink

\* If what is first in the queue is of a link and no connection, the link is the host's.
LEMMA HeadIsHosts ==
  ASSUME NEW ev, NEW h, NEW made, NEW conn, NEW up, QueueOK(ev, h, made, conn, up), ev # <<>>,
         OfLink(Head(ev)), Head(ev)[1] # "connected"
  PROVE  Head(ev)[2] = h /\ h # NoLink
<1>1. /\ 1 \in DOMAIN ev /\ Head(ev) = ev[1] /\ \A i \in DOMAIN ev : i # 1 => InOrder(Head(ev), ev[i])
      /\ EventOK(Head(ev), h, made, conn) /\ made \in Nat
  BY HeadFacts, QueueFacts
<1>2. SUFFICES ASSUME Head(ev)[2] # h
               PROVE  FALSE
  BY <1>1 DEF EventOK, NoLink
<1>3. Told(ev, "connected", Head(ev)[2])
  BY <1>1, <1>2 DEF QueueOK
<1>4. PICK j \in DOMAIN ev : ev[j] = <<"connected", Head(ev)[2]>>
  BY <1>3 DEF Told
<1>5. OfLink(ev[j]) /\ ev[j][1] = "connected" /\ ev[j][2] = Head(ev)[2]
  BY <1>4, ToldIsOfLink DEF LinkKinds
<1>6. j # 1
  BY <1>1, <1>5
<1> QED BY <1>1, <1>5, <1>6 DEF InOrder

\* An event that neither begins nor ends a link is taken, and the queue stays in order.
LEMMA PlainTaken ==
  ASSUME NEW ev, NEW h, NEW made, NEW conn, NEW up, QueueOK(ev, h, made, conn, up), ev # <<>>,
         Head(ev)[1] \notin {"connected", "disconnected"}
  PROVE  QueueOK(Tail(ev), h, made, conn, up)
<1>1. \A k, l : Told(ev, k, l) <=> Told(Tail(ev), k, l) \/ Head(ev) = <<k, l>>
  BY HeadFacts
<1>2. \A l : Head(ev) # <<"connected", l>> /\ Head(ev) # <<"disconnected", l>>
  OBVIOUS
<1>3. \A l : Told(ev, "connected", l) <=> Told(Tail(ev), "connected", l)
  BY <1>1, <1>2
<1>4. \A l : Told(ev, "disconnected", l) <=> Told(Tail(ev), "disconnected", l)
  BY <1>1, <1>2
<1>5. h \in 0..made /\ \A i \in DOMAIN ev : EventOK(ev[i], h, made, conn)
  BY DEF QueueOK
<1>6. \A i \in DOMAIN ev : i # 1 /\ OfLink(ev[i]) => h = ev[i][2] \/ Told(Tail(ev), "connected", ev[i][2])
  BY <1>3 DEF QueueOK
<1>7. conn # NoLink => h = conn \/ Told(Tail(ev), "connected", conn)
  BY <1>3 DEF QueueOK
<1>8. \A l \in 1..made :
        (h = l \/ Told(Tail(ev), "connected", l)) /\ (l # made \/ (up /\ conn # l)) => Told(Tail(ev), "disconnected", l)
  BY <1>3, <1>4 DEF QueueOK
<1> QED BY <1>5, <1>6, <1>7, <1>8, OneLess

\* A connection is taken: it is the host's link now.
LEMMA ConnectTaken ==
  ASSUME NEW ev, NEW h, NEW made, NEW conn, NEW up, QueueOK(ev, h, made, conn, up), ev # <<>>, Head(ev)[1] = "connected"
  PROVE  /\ h = NoLink /\ Head(ev)[2] \in 1..made /\ QueueOK(Tail(ev), Head(ev)[2], made, conn, up)
         /\ ~ Told(Tail(ev), "connected", Head(ev)[2])
<1> DEFINE l == Head(ev)[2]
<1>0. made \in Nat /\ h \in Nat
  BY QueueFacts
<1>1. /\ 1 \in DOMAIN ev /\ Head(ev) = ev[1] /\ Head(ev) = <<"connected", l>> /\ \A i \in DOMAIN ev : i # 1 => InOrder(Head(ev), ev[i])
      /\ EventOK(Head(ev), h, made, conn)
  BY HeadFacts
<1>2. \A k, x : Told(ev, k, x) <=> Told(Tail(ev), k, x) \/ Head(ev) = <<k, x>>
  BY HeadFacts
<1>3. OfLink(Head(ev))
  BY DEF OfLink, LinkKinds
<1>4. h <= l /\ l \in 1..made /\ h # l
  BY <1>1, <1>3 DEF EventOK
<1>5. \A i \in DOMAIN ev : i # 1 /\ OfLink(ev[i]) => l <= ev[i][2] /\ (ev[i][2] = l => ev[i][1] # "connected")
  BY <1>1, <1>3 DEF InOrder
<1>6. h = NoLink
  <2>1. SUFFICES ASSUME h # NoLink
                 PROVE  FALSE
    OBVIOUS
  <2>2. h \in 1..made /\ h # made
    BY <1>0, <1>4, <2>1 DEF NoLink
  <2>3. Told(ev, "disconnected", h)
    BY <2>2 DEF QueueOK
  <2>4. PICK j \in DOMAIN ev : ev[j] = <<"disconnected", h>>
    BY <2>3 DEF Told
  <2>5. OfLink(ev[j]) /\ ev[j][1] = "disconnected" /\ ev[j][2] = h
    BY <2>4, ToldIsOfLink DEF LinkKinds
  <2>6. j # 1
    BY <1>1, <2>5
  <2>7. l <= h
    BY <1>5, <2>5, <2>6
  <2> QED BY <1>0, <1>4, <2>7
<1>7. \A x : x # l => (Told(ev, "connected", x) <=> Told(Tail(ev), "connected", x))
  BY <1>1, <1>2
<1>8. \A x : Told(ev, "disconnected", x) <=> Told(Tail(ev), "disconnected", x)
  BY <1>1, <1>2
<1>9. ~ Told(Tail(ev), "connected", l)
  <2>1. SUFFICES ASSUME Told(Tail(ev), "connected", l)
                 PROVE  FALSE
    OBVIOUS
  <2>2. /\ DOMAIN Tail(ev) = 1..Len(Tail(ev)) /\ Len(Tail(ev)) \in Nat
        /\ \A i \in DOMAIN Tail(ev) : i + 1 \in DOMAIN ev /\ Tail(ev)[i] = ev[i + 1]
    BY TakenOff, QueueFacts
  <2>3. PICK i \in DOMAIN Tail(ev) : Tail(ev)[i] = <<"connected", l>>
    BY <2>1 DEF Told
  <2>4. i + 1 \in DOMAIN ev /\ i + 1 # 1 /\ ev[i + 1] = <<"connected", l>>
    BY <2>2, <2>3
  <2>5. OfLink(ev[i + 1]) /\ ev[i + 1][1] = "connected" /\ ev[i + 1][2] = l
    BY <2>4 DEF OfLink, LinkKinds
  <2> QED BY <1>5, <2>4, <2>5
<1> HIDE DEF l
<1>10. \A i \in DOMAIN ev : EventOK(ev[i], h, made, conn)
  BY DEF QueueOK
<1>11. ASSUME NEW i \in DOMAIN ev, i # 1
       PROVE  EventOK(ev[i], l, made, conn)
  BY <1>5, <1>6, <1>10, <1>11 DEF EventOK, NoLink
<1>12. ASSUME NEW i \in DOMAIN ev, i # 1, OfLink(ev[i])
       PROVE  l = ev[i][2] \/ Told(Tail(ev), "connected", ev[i][2])
  <2>1. ev[i][2] # h
    BY <1>6, <1>10, <1>12 DEF EventOK, NoLink
  <2>2. Told(ev, "connected", ev[i][2])
    BY <1>12, <2>1 DEF QueueOK
  <2> QED BY <1>7, <2>2
<1>13. conn # NoLink => l = conn \/ Told(Tail(ev), "connected", conn)
  BY <1>6, <1>7 DEF QueueOK
<1>14. ASSUME NEW x \in 1..made, l = x \/ Told(Tail(ev), "connected", x), x # made \/ (up /\ conn # x)
       PROVE  Told(Tail(ev), "disconnected", x)
  <2>1. Told(ev, "connected", x)
    BY <1>1, <1>2, <1>14
  <2>2. Told(ev, "disconnected", x)
    BY <1>14, <2>1 DEF QueueOK
  <2> QED BY <1>8, <2>2
<1>15. l \in 0..made
  BY <1>4
<1>16. QueueOK(Tail(ev), l, made, conn, up)
  BY <1>11, <1>12, <1>13, <1>14, <1>15, OneLess
<1> QED BY <1>4, <1>6, <1>9, <1>16 DEF l

\* The end of the host's link is taken: the host has none.
LEMMA DropTaken ==
  ASSUME NEW ev, NEW h, NEW made, NEW conn, NEW up, QueueOK(ev, h, made, conn, up), ev # <<>>, Head(ev)[1] = "disconnected"
  PROVE  /\ Head(ev)[2] = h /\ h # NoLink /\ conn # h /\ QueueOK(Tail(ev), NoLink, made, conn, up)
         /\ \A i \in DOMAIN ev : i # 1 => ev[i][1] # "completed"
<1>0. made \in Nat /\ h \in Nat /\ conn \in {NoLink, made}
  BY QueueFacts
<1>1. /\ 1 \in DOMAIN ev /\ Head(ev) = ev[1] /\ Head(ev) = <<"disconnected", Head(ev)[2]>>
      /\ \A i \in DOMAIN ev : i # 1 => InOrder(Head(ev), ev[i])
      /\ EventOK(Head(ev), h, made, conn)
  BY HeadFacts
<1>2. \A k, x : Told(ev, k, x) <=> Told(Tail(ev), k, x) \/ Head(ev) = <<k, x>>
  BY HeadFacts
<1>3. OfLink(Head(ev)) /\ Head(ev)[2] = h /\ h # NoLink
  BY HeadIsHosts DEF OfLink, LinkKinds
<1>4. conn # h
  BY <1>1, <1>3 DEF EventOK
<1>5. \A i \in DOMAIN ev : i # 1 /\ OfLink(ev[i]) => ev[i][2] # h
  BY <1>1, <1>3 DEF InOrder
<1>6. \A x : Told(ev, "connected", x) <=> Told(Tail(ev), "connected", x)
  BY <1>1, <1>2
<1>7. \A i \in DOMAIN ev : EventOK(ev[i], h, made, conn)
  BY DEF QueueOK
<1>8. ASSUME NEW i \in DOMAIN ev, i # 1
      PROVE  EventOK(ev[i], NoLink, made, conn) /\ ev[i][1] # "completed"
  BY <1>5, <1>7, <1>8 DEF EventOK, NoLink, OfLink, LinkKinds
<1>9. \A i \in DOMAIN ev : i # 1 /\ OfLink(ev[i]) => Told(Tail(ev), "connected", ev[i][2])
  BY <1>5, <1>6 DEF QueueOK
<1>10. conn # NoLink => Told(Tail(ev), "connected", conn)
  BY <1>4, <1>6 DEF QueueOK
<1>11. ASSUME NEW x \in 1..made, NoLink = x \/ Told(Tail(ev), "connected", x), x # made \/ (up /\ conn # x)
       PROVE  Told(Tail(ev), "disconnected", x)
  <2>1. Told(ev, "connected", x)
    BY <1>6, <1>11 DEF NoLink
  <2>2. Told(ev, "disconnected", x)
    BY <1>11, <2>1 DEF QueueOK
  <2>3. x # h
    <3>1. PICK j \in DOMAIN ev : ev[j] = <<"connected", x>>
      BY <2>1 DEF Told
    <3>2. OfLink(ev[j]) /\ ev[j][1] = "connected" /\ ev[j][2] = x
      BY <3>1, ToldIsOfLink DEF LinkKinds
    <3> QED BY <1>7, <3>2 DEF EventOK
  <2> QED BY <1>2, <1>3, <2>2, <2>3
<1>12. NoLink \in 0..made
  BY <1>0 DEF NoLink
<1>13. QueueOK(Tail(ev), NoLink, made, conn, up)
  BY <1>8, <1>9, <1>10, <1>11, <1>12, OneLess
<1> QED BY <1>3, <1>4, <1>8, <1>13

-----------------------------------------------------------------------------
(* How many buffers are told to be free. *)

\* The completions told are finitely many.
LEMMA CompletedFinite ==
  ASSUME NEW ev \in Seq(Events)
  PROVE  IsFiniteSet({i \in DOMAIN ev : ev[i][1] = "completed"}) /\ Completed(ev) \in Nat
<1> DEFINE S == {i \in DOMAIN ev : ev[i][1] = "completed"}
<1>1. DOMAIN ev = 1..Len(ev) /\ Len(ev) \in Nat
  OBVIOUS
<1>2. IsFiniteSet(1..Len(ev))
  BY <1>1, FS_Interval
<1>3. IsFiniteSet(S)
  BY <1>1, <1>2, FS_Subset
<1> QED BY <1>3, FS_CardinalityType DEF Completed

\* An event more is a completion more, or none.
LEMMA CompletedThen ==
  ASSUME NEW ev \in Seq(Events), NEW e \in Events, NEW ev2, ev2 = Append(ev, e)
  PROVE  Completed(ev2) = IF e[1] = "completed" THEN Completed(ev) + 1 ELSE Completed(ev)
<1> DEFINE S == {i \in DOMAIN ev : ev[i][1] = "completed"}
           S2 == {i \in DOMAIN ev2 : ev2[i][1] = "completed"}
           n == Len(ev) + 1
<1>1. /\ Len(ev) \in Nat /\ DOMAIN ev = 1..Len(ev) /\ DOMAIN ev2 = 1..n /\ ev2[n] = e
      /\ \A i \in DOMAIN ev : i \in DOMAIN ev2 /\ ev2[i] = ev[i]
  BY Appended
<1>2. n \notin DOMAIN ev /\ \A i \in DOMAIN ev2 : i \in DOMAIN ev \/ i = n
  BY <1>1
<1>3. n \in DOMAIN ev2
  BY <1>1
<1>4. IsFiniteSet(S)
  BY CompletedFinite
<1> HIDE DEF n
<1>5. CASE e[1] = "completed"
  <2>1. S2 = S \union {n} /\ n \notin S
    BY <1>1, <1>2, <1>3, <1>5
  <2>2. Cardinality(S \union {n}) = Cardinality(S) + 1
    <3> HIDE DEF S
    <3> QED BY <1>4, <2>1, FS_AddElement
  <2> QED BY <1>5, <2>1, <2>2 DEF Completed
<1>6. CASE e[1] # "completed"
  <2>1. S2 = S
    BY <1>1, <1>2, <1>3, <1>6
  <2> QED BY <1>6, <2>1 DEF Completed
<1> QED BY <1>5, <1>6

\* An event taken is a completion less, or none.
LEMMA CompletedStill ==
  ASSUME NEW ev \in Seq(Events), ev # <<>>
  PROVE  Completed(ev) = IF Head(ev)[1] = "completed" THEN Completed(Tail(ev)) + 1 ELSE Completed(Tail(ev))
<1> DEFINE ev2 == Tail(ev)
           S == {i \in DOMAIN ev : ev[i][1] = "completed"}
           R == {i \in DOMAIN ev : i # 1 /\ ev[i][1] = "completed"}
           S2 == {i \in DOMAIN ev2 : ev2[i][1] = "completed"}
           f == [i \in S2 |-> i + 1]
<1>1. /\ ev2 \in Seq(Events) /\ Len(ev2) \in Nat /\ Len(ev) = Len(ev2) + 1 /\ DOMAIN ev = 1..Len(ev) /\ DOMAIN ev2 = 1..Len(ev2)
      /\ 1 \in DOMAIN ev /\ Head(ev) = ev[1] /\ \A i \in DOMAIN ev2 : i + 1 \in DOMAIN ev /\ ev2[i] = ev[i + 1]
  BY TakenOff
<1> HIDE DEF ev2
<1>2. IsFiniteSet(S2) /\ IsFiniteSet(S)
  BY <1>1, CompletedFinite
<1>3. IsFiniteSet(R) /\ Cardinality(R) = Cardinality(S2)
  <2>1. \A i \in S2 : i \in Nat /\ i + 1 \in R
    BY <1>1
  <2>2. ASSUME NEW j \in R
        PROVE  j - 1 \in S2 /\ (j - 1) + 1 = j
    <3>1. j \in Nat /\ j - 1 \in DOMAIN ev2 /\ (j - 1) + 1 = j
      BY <1>1
    <3>2. ev2[j - 1] = ev[j]
      BY <1>1, <3>1
    <3> QED BY <3>1, <3>2
  <2> HIDE DEF S2, R
  <2>3. f \in [S2 -> R]
    BY <2>1
  <2>4. \A a, b \in S2 : f[a] = f[b] => a = b
    BY <2>1
  <2>5. \A j \in R : \E i \in S2 : f[i] = j
    BY <2>2
  <2>6. f \in Bijection(S2, R)
    BY <2>3, <2>4, <2>5 DEF Bijection, Injection, Surjection, IsInjective
  <2>7. ExistsBijection(S2, R)
    BY <2>6 DEF ExistsBijection
  <2> QED BY <1>2, <2>7, FS_Bijection
<1>4. CASE Head(ev)[1] = "completed"
  <2>1. S = R \union {1} /\ 1 \notin R
    BY <1>1, <1>4
  <2>2. Cardinality(R \union {1}) = Cardinality(R) + 1
    <3> HIDE DEF R
    <3> QED BY <1>3, <2>1, FS_AddElement
  <2> QED BY <1>3, <1>4, <2>1, <2>2 DEF Completed, ev2
<1>5. CASE Head(ev)[1] # "completed"
  <2>1. S = R
    BY <1>1, <1>5
  <2> QED BY <1>3, <1>5, <2>1 DEF Completed, ev2
<1> QED BY <1>4, <1>5

\* Where no event is a completion, none is counted.
LEMMA NoneCompleted ==
  ASSUME NEW ev, \A i \in DOMAIN ev : ev[i][1] # "completed"
  PROVE  Completed(ev) = 0
<1>1. {i \in DOMAIN ev : ev[i][1] = "completed"} = {}
  OBVIOUS
<1> QED BY <1>1, FS_EmptySet DEF Completed

-----------------------------------------------------------------------------
(* The invariant, read. *)

\* The types of host and controller that the arithmetic needs.
LEMMA BleFields ==
  ASSUME BleIInv
  PROVE  /\ host.link \in Nat /\ host.link \in 0..MaxLinks /\ host.credits \in Nat /\ host.closed \in BOOLEAN
         /\ DOMAIN host = {"link", "credits", "closed", "newLinks"}
         /\ ctl.made \in Nat /\ ctl.made \in 0..MaxLinks /\ ctl.held \in Nat /\ ctl.conn \in Nat /\ ctl.conn \in {NoLink, ctl.made}
         /\ ctl.events \in Seq(Events) /\ Completed(ctl.events) \in Nat
         /\ MaxLinks \in Nat /\ Links = 1..MaxLinks
<1>1. QueueOK(ctl.events, host.link, ctl.made, ctl.conn, ctl.up)
  BY DEF BleIInv, QueueInv
<1>2. /\ host.link \in Nat /\ host.link <= ctl.made /\ ctl.conn \in Nat /\ ctl.conn \in {NoLink, ctl.made}
      /\ ctl.events \in Seq(Events)
  BY <1>1, QueueFacts
<1>3. host.credits \in Nat /\ host.closed \in BOOLEAN /\ DOMAIN host = {"link", "credits", "closed", "newLinks"}
  BY DEF BleIInv, BleTypeOK
<1>4. ctl.made \in Nat /\ ctl.made \in 0..MaxLinks /\ ctl.held \in Nat
  BY BleAssumption DEF BleIInv, BleTypeOK
<1>5. host.link \in 0..MaxLinks
  <2>1. host.link \in Nat /\ host.link <= ctl.made /\ ctl.made \in 0..MaxLinks /\ MaxLinks \in Nat
    BY <1>2, <1>4, BleAssumption
  <2> QED BY <2>1
<1>6. Completed(ctl.events) \in Nat
  BY <1>2, CompletedFinite
<1>7. MaxLinks \in Nat /\ Links = 1..MaxLinks
  BY BleAssumption DEF Links
<1> QED BY <1>2, <1>3, <1>4, <1>5, <1>6, <1>7

\* No link is none.
LEMMA LinkIsOne ==
  ASSUME NEW l \in Links
  PROVE  l # NoLink
  BY BleAssumption DEF Links, NoLink

\* A link of the controller the host has met is the host's.
LEMMA MetIsHosts ==
  ASSUME BleIInv, ctl.conn # NoLink, Met(ctl, ctl.conn)
  PROVE  host.link = ctl.conn
  BY DEF BleIInv, QueueInv, QueueOK, Met

\* A link that was met is one of the links.
LEMMA MetIsLink ==
  ASSUME BleIInv, NEW l, Met(ctl, l)
  PROVE  l \in Links /\ l # NoLink
  BY BleFields DEF Met, NoLink

\* At most one sender is about to write on a link.
LEMMA WritingIs ==
  ASSUME NEW ls, NEW ss, NEW l
  PROVE  Writing(ls, ss, l) \in {0, 1} /\ Writing(ls, ss, l) \in Nat
  BY DEF Writing

\* A piece of the sum may move, and the bound stays.
LEMMA NoMoreThan ==
  ASSUME NEW a \in Nat, NEW b \in Nat, NEW c \in Nat, NEW d \in Nat, NEW w \in Nat, NEW f \in Nat,
         a + b <= c + d, c + d + w <= f
  PROVE  a + b + w <= f
  OBVIOUS

\* The host has met its link.
LEMMA HostsIsMet ==
  ASSUME BleIInv, host.link # NoLink
  PROVE  Met(ctl, host.link) /\ host.link \in Links
<1>1. QueueOK(ctl.events, host.link, ctl.made, ctl.conn, ctl.up)
  BY DEF BleIInv, QueueInv
<1>2. host.link \in 1..ctl.made /\ host.link \in Links
  BY <1>1, BleFields DEF QueueOK, NoLink
<1>3. ~ Told(ctl.events, "connected", host.link)
  <2>1. SUFFICES ASSUME NEW i \in DOMAIN ctl.events, ctl.events[i] = <<"connected", host.link>>
                 PROVE  FALSE
    BY DEF Told
  <2>2. OfLink(ctl.events[i]) /\ ctl.events[i][1] = "connected" /\ ctl.events[i][2] = host.link
    BY <2>1, ToldIsOfLink DEF LinkKinds
  <2> QED BY <1>1, <2>2 DEF QueueOK, EventOK
<1> QED BY <1>2, <1>3 DEF Met

\* A step of the controller, or of Accept that touches no link.
ControllerMove ==
  /\ UNCHANGED <<host, links, reader, snd>>
  /\ acc' \in [at : AcceptStages, l : Nat] /\ DOMAIN ctl' = DOMAIN ctl
  /\ ctl'.up \in BOOLEAN /\ ctl'.adv \in BOOLEAN /\ ctl'.failed \in BOOLEAN
  /\ ctl'.made \in 0..MaxLinks /\ ctl'.held \in Nat /\ ctl'.asked \in Nat /\ ctl'.torn = ctl.torn
  /\ QueueOK(ctl'.events, host.link, ctl'.made, ctl'.conn, ctl'.up)
  /\ \A l : Met(ctl, l) => Met(ctl', l)
  /\ ctl'.conn # NoLink => \/ ctl'.conn = ctl.conn /\ ctl'.last = ctl.last
                           \/ ~ Met(ctl, ctl'.conn) /\ ctl'.last = Absent
  /\ acc'.at \in {"closes stale", "serving"} => Met(ctl', acc'.l)
  /\ host.closed => ~ ctl'.up /\ ctl'.events = <<>>
  /\ ctl'.adv => ctl'.up /\ ctl'.conn = NoLink
  /\ Completed(ctl'.events) \in Nat /\ Completed(ctl'.events) + ctl'.held <= Completed(ctl.events) + ctl.held
  /\ ctl'.held > 0 => ctl'.conn = ctl.conn /\ ctl.held > 0

\* A step of the controller keeps the invariant if it keeps what Accept relies on.
LEMMA ControllerSteps ==
  ASSUME BleIInv, ControllerMove, AcceptInv'
  PROVE  BleIInv'
<1> USE DEF ControllerMove
<1>0. LinksInv /\ CreditsInv /\ PieceInv /\ BleTypeOK /\ TxInv /\ NobodyOversleeps
  BY DEF BleIInv
<1>1. BleTypeOK'
  BY <1>0 DEF BleTypeOK
<1>2. QueueInv'
  BY DEF QueueInv
<1>3. \A l \in Links : Met(ctl, l) /\ ctl.conn # l => Met(ctl', l) /\ ctl'.conn # l
  BY LinkIsOne
<1>4. LinksInv'
  BY <1>0, <1>3 DEF LinksInv
<1>5. TxInv'
  BY <1>0 DEF TxInv
<1>6. CreditsInv'
  <2>0. host.link # NoLink => host.link \in Links
    BY HostsIsMet
  <2>1. host.link # NoLink => links[host.link].inFlight \in Nat
    BY <1>0, <2>0 DEF BleTypeOK, LinkType
  <2>2. Writing(links, snd, host.link) \in Nat
    BY WritingIs
  <2>3. Completed(ctl.events) \in Nat /\ ctl.held \in Nat
    BY BleFields
  <2>4. host.link # NoLink => Completed(ctl'.events) + ctl'.held + Writing(links, snd, host.link) <= links[host.link].inFlight
    <3>1. host.link # NoLink => Completed(ctl.events) + ctl.held + Writing(links, snd, host.link) <= links[host.link].inFlight
      BY <1>0 DEF CreditsInv
    <3>2. Completed(ctl'.events) \in Nat /\ ctl'.held \in Nat /\ Completed(ctl'.events) + ctl'.held <= Completed(ctl.events) + ctl.held
      OBVIOUS
    <3> QED BY ONLY <2>1, <2>2, <2>3, <3>1, <3>2, NoMoreThan
  <2> QED BY <1>0, <2>4 DEF CreditsInv
<1>7. PieceInv'
  <2>1. CASE ctl'.conn # NoLink /\ ~ Met(ctl, ctl'.conn) /\ ctl'.last = Absent
    <3>1. ctl'.conn \in Links
      <4>1. ctl'.conn \in {NoLink, ctl'.made} /\ ctl'.made \in 0..MaxLinks
        BY DEF QueueOK
      <4>2. ctl'.conn \in 0..MaxLinks /\ ctl'.conn # 0 /\ MaxLinks \in Nat
        BY <2>1, <4>1, BleAssumption DEF NoLink
      <4> QED BY ONLY <4>2 DEF Links
    <3>2. links[ctl'.conn].tx = "free"
      <4>1. links[ctl'.conn] = NewLink
        BY <1>0, <2>1, <3>1 DEF LinksInv
      <4> QED BY ONLY <4>1 DEF NewLink
    <3> QED BY <1>0, <2>1, <3>2 DEF PieceInv
  <2> QED BY <1>0, <2>1 DEF PieceInv
<1>8. NobodyOversleeps'
  BY <1>0 DEF NobodyOversleeps, LinkOver
<1> QED BY <1>1, <1>2, <1>4, <1>5, <1>6, <1>7, <1>8 DEF BleIInv

-----------------------------------------------------------------------------
(* The controller's steps. *)

\* The invariant's parts, apart.
LEMMA BleParts ==
  ASSUME BleIInv
  PROVE  /\ QueueOK(ctl.events, host.link, ctl.made, ctl.conn, ctl.up)
         /\ BleTypeOK /\ LinksInv /\ TxInv /\ CreditsInv /\ PieceInv /\ NobodyOversleeps /\ AcceptInv
         /\ acc \in [at : AcceptStages, l : Nat]
         /\ DOMAIN ctl = {"up", "adv", "conn", "made", "held", "events", "last", "torn", "asked", "failed"}
         /\ ctl.up \in BOOLEAN /\ ctl.adv \in BOOLEAN /\ ctl.torn \in BOOLEAN /\ ctl.failed \in BOOLEAN /\ ctl.asked \in Nat
         /\ ctl.made \in 0..MaxLinks /\ ctl.held \in Nat
         /\ host.closed => ~ ctl.up /\ ctl.events = <<>>
  BY DEF BleIInv, QueueInv, BleTypeOK, LinksInv

\* Who has a link has one that was met.
LEMMA HaveLinks ==
  ASSUME BleIInv
  PROVE  /\ \A s \in Senders : snd[s].at # "idle" => Met(ctl, snd[s].l) /\ snd[s].l \in Links
         /\ \A i \in DOMAIN host.newLinks : /\ Met(ctl, host.newLinks[i]) /\ host.newLinks[i] \in Links
                                            /\ ~ links[host.newLinks[i]].accepted
<1>1. /\ \A s \in Senders : snd[s].at # "idle" => Met(ctl, snd[s].l)
      /\ \A i \in DOMAIN host.newLinks : Met(ctl, host.newLinks[i]) /\ ~ links[host.newLinks[i]].accepted
  BY DEF BleIInv, LinksInv
<1>2. \A l : Met(ctl, l) => l \in Links
  BY MetIsLink
<1> QED BY ONLY <1>1, <1>2

\* The new links stay met and not accepted where neither changes.
LEMMA NewLinksStay ==
  ASSUME BleIInv, host'.newLinks = host.newLinks, \A l : Met(ctl, l) => Met(ctl', l),
         \A l \in Links : links'[l].accepted = links[l].accepted
  PROVE  \A i \in DOMAIN host'.newLinks : Met(ctl', host'.newLinks[i]) /\ ~ links'[host'.newLinks[i]].accepted
<1>1. \A i \in DOMAIN host.newLinks : /\ Met(ctl, host.newLinks[i]) /\ host.newLinks[i] \in Links
                                      /\ ~ links[host.newLinks[i]].accepted
  BY HaveLinks
<1>2. host'.newLinks = host.newLinks /\ (\A l : Met(ctl, l) => Met(ctl', l)) /\ \A l \in Links : links'[l].accepted = links[l].accepted
  OBVIOUS
<1> QED BY ONLY <1>1, <1>2

\* The piece that went out last, where the controller's link and its sender are as before.
LEMMA PieceStays ==
  ASSUME BleIInv, ctl'.conn = ctl.conn, ctl'.last = ctl.last, ctl'.torn = ctl.torn, links'[ctl.conn].tx = links[ctl.conn].tx,
         links[ctl.conn].tx # "free" => snd'[links[ctl.conn].tx].off = snd[links[ctl.conn].tx].off
  PROVE  PieceInv'
<1>1. PieceInv
  BY BleParts
<1>2. /\ ctl'.conn = ctl.conn /\ ctl'.last = ctl.last /\ ctl'.torn = ctl.torn /\ links'[ctl.conn].tx = links[ctl.conn].tx
      /\ links[ctl.conn].tx # "free" => snd'[links[ctl.conn].tx].off = snd[links[ctl.conn].tx].off
  OBVIOUS
<1> QED BY ONLY <1>1, <1>2 DEF PieceInv

\* A sender holds the txMu of its own link alone.
LEMMA HoldsOne ==
  ASSUME BleIInv, NEW s \in Senders
  PROVE  \A k \in Links : k # snd[s].l => links[k].tx # s
<1>1. \A k \in Links : links[k].tx # "free" => snd[links[k].tx].l = k
  BY DEF BleIInv, TxInv
<1>2. s # "free"
  BY DEF Senders
<1> QED BY ONLY <1>1, <1>2

\* A central connects.
LEMMA ConnectsKeeps ==
  ASSUME BleIInv, Connects
  PROVE  BleIInv'
<1> DEFINE l0 == ctl.made + 1
           e == <<"connected", l0>>
<1>0. /\ ctl.up /\ ctl.adv /\ ctl.made < MaxLinks /\ UNCHANGED <<host, links, reader, snd, acc>>
  BY DEF Connects
<1>1. /\ DOMAIN ctl' = DOMAIN ctl /\ ctl'.events = Append(ctl.events, e) /\ ctl'.conn = l0 /\ ctl'.made = l0
      /\ ctl'.adv = FALSE /\ ctl'.last = Absent /\ ctl'.up = ctl.up /\ ctl'.held = ctl.held
      /\ ctl'.torn = ctl.torn /\ ctl'.asked = ctl.asked /\ ctl'.failed = ctl.failed
  BY BleParts DEF Connects, Tells
<1>2. ctl.made \in Nat /\ l0 \in Nat /\ l0 \in 0..MaxLinks /\ l0 # NoLink /\ ctl.events \in Seq(Events) /\ Links = 1..MaxLinks
  <2>1. ctl.made \in Nat /\ MaxLinks \in Nat /\ ctl.events \in Seq(Events) /\ Links = 1..MaxLinks
    BY BleFields
  <2> QED BY <1>0, <2>1 DEF NoLink
<1>3. ctl.conn = NoLink
  BY <1>0, BleParts DEF LinksInv
<1>4. QueueOK(ctl'.events, host.link, ctl'.made, ctl'.conn, ctl'.up)
  <2>1. QueueOK(ctl.events, host.link, ctl.made, ctl.conn, ctl.up) /\ ctl.up \in BOOLEAN
    BY BleParts
  <2>2. QueueOK(Append(ctl.events, e), host.link, l0, l0, ctl.up)
    BY ONLY <1>0, <1>3, <2>1, ConnectTold
  <2> QED BY <1>1, <2>2
<1>5. e \in Events /\ e[1] = "connected" /\ OfLink(e)
  BY <1>2 DEF Events, LinkKinds, OfLink
<1>6. \A k, l : Told(ctl'.events, k, l) <=> Told(ctl.events, k, l) \/ e = <<k, l>>
  BY ONLY <1>1, <1>2, <1>5, ToldThen
<1>7. \A l : Met(ctl, l) => Met(ctl', l)
  <2>1. \A l : l \in 1..ctl.made => l \in 1..l0 /\ l # l0
    BY ONLY <1>2
  <2>2. \A l : l # l0 => e # <<"connected", l>>
    OBVIOUS
  <2> HIDE DEF e, l0
  <2> QED BY ONLY <1>1, <1>6, <2>1, <2>2 DEF Met
<1>8. ~ Met(ctl, l0)
  BY <1>2 DEF Met
<1>9. ctl.held = 0
  BY <1>3, BleParts DEF CreditsInv
<1>10. Completed(ctl'.events) = Completed(ctl.events) /\ Completed(ctl.events) \in Nat
  BY ONLY <1>1, <1>2, <1>5, CompletedThen, CompletedFinite
<1>11. Completed(ctl'.events) + ctl'.held <= Completed(ctl.events) + ctl.held
  BY ONLY <1>1, <1>9, <1>10
<1>12. acc.at \in {"closes stale", "serving"} => Met(ctl', acc.l)
  BY <1>7, BleParts DEF LinksInv
<1>13. AcceptInv'
  <2>1. SUFFICES ASSUME ~ ctl.failed
                 PROVE  AcceptInv'
    BY <1>1 DEF AcceptInv
  <2>2. acc.at \in {"starting", "select"} /\ host.newLinks = <<>> /\ host.link = NoLink
    BY <1>0, <2>1, BleParts DEF AcceptInv, NoneComes
  <2>3. \A l \in Links : ~ Told(ctl.events, "connected", l)
    BY <1>0, <2>1, <2>2, BleParts DEF AcceptInv
  <2>4. \A l \in Links : Told(ctl'.events, "connected", l) => l = l0
    BY <1>6, <2>3
  <2> HIDE DEF l0
  <2> QED BY <1>0, <1>1, <2>2, <2>4 DEF AcceptInv
<1>14. ~ host.closed
  BY <1>0, BleParts
<1> HIDE DEF l0
<1>15. ControllerMove
  <2>1. acc' \in [at : AcceptStages, l : Nat] /\ ctl'.up \in BOOLEAN /\ ctl'.adv \in BOOLEAN /\ ctl'.failed \in BOOLEAN
    BY <1>0, <1>1, BleParts
  <2>2. ctl'.made \in 0..MaxLinks /\ ctl'.held \in Nat /\ ctl'.asked \in Nat /\ ctl'.torn = ctl.torn
    BY <1>1, <1>2, BleParts
  <2>3. ~ (ctl'.held > 0) /\ ~ ctl'.adv /\ acc' = acc
    BY <1>0, <1>1, <1>9
  <2> QED BY <1>0, <1>1, <1>4, <1>7, <1>8, <1>10, <1>11, <1>12, <1>14, <2>1, <2>2, <2>3 DEF ControllerMove
<1> QED BY <1>13, <1>15, ControllerSteps

\* What the controller tells, other than a connection, changes no link that was met.
LEMMA TellsPlain ==
  ASSUME BleIInv, NEW e \in Events, e[1] # "connected", ctl'.events = Append(ctl.events, e), ctl'.made = ctl.made
  PROVE  /\ \A l : Met(ctl, l) <=> Met(ctl', l)
         /\ \A l : Told(ctl'.events, "connected", l) <=> Told(ctl.events, "connected", l)
         /\ Completed(ctl'.events) = IF e[1] = "completed" THEN Completed(ctl.events) + 1 ELSE Completed(ctl.events)
         /\ Completed(ctl'.events) \in Nat /\ Completed(ctl.events) \in Nat
<1>1. ctl.events \in Seq(Events)
  BY BleFields
<1>2. \A k, l : Told(ctl'.events, k, l) <=> Told(ctl.events, k, l) \/ e = <<k, l>>
  BY <1>1, ToldThen
<1>3. \A l : Told(ctl'.events, "connected", l) <=> Told(ctl.events, "connected", l)
  BY <1>2
<1>4. \A l : Met(ctl, l) <=> Met(ctl', l)
  BY <1>3 DEF Met
<1>5. Completed(ctl'.events) = IF e[1] = "completed" THEN Completed(ctl.events) + 1 ELSE Completed(ctl.events)
  BY <1>1, CompletedThen
<1>6. Completed(ctl.events) \in Nat
  BY BleFields
<1>7. Completed(ctl'.events) \in Nat
  BY ONLY <1>5, <1>6
<1> QED BY <1>3, <1>4, <1>5, <1>6, <1>7

\* What Accept relies on survives such an event.
LEMMA AcceptAfterTelling ==
  ASSUME BleIInv, NEW e \in Events, e[1] \notin {"connected", "answer"}, ctl'.events = Append(ctl.events, e), ctl'.made = ctl.made,
         ctl'.adv => ctl.adv, ctl'.failed = ctl.failed, ctl'.asked = ctl.asked, UNCHANGED host, acc' = acc
  PROVE  AcceptInv'
<1>0. SUFFICES ASSUME ~ ctl.failed
               PROVE  AcceptInv'
  BY DEF AcceptInv
<1>1. \A l : Told(ctl'.events, "connected", l) <=> Told(ctl.events, "connected", l)
  BY TellsPlain
<1>2. NoneComes(ctl) => NoneComes(ctl')
  BY <1>1 DEF NoneComes
<1>3. acc.at = "stopping" =>
        \A i, j \in DOMAIN ctl'.events :
          ctl'.events[i][1] = "connected" /\ ctl'.events[j] = <<"answer", ctl'.asked>> => i < j
  <2>1. /\ Len(ctl.events) \in Nat /\ DOMAIN ctl.events = 1..Len(ctl.events) /\ DOMAIN ctl'.events = 1..(Len(ctl.events) + 1)
        /\ ctl'.events[Len(ctl.events) + 1] = e /\ \A i \in DOMAIN ctl.events : ctl'.events[i] = ctl.events[i]
    BY BleFields, Appended
  <2>2. \A i \in DOMAIN ctl'.events : i \in DOMAIN ctl.events \/ i = Len(ctl.events) + 1
    BY ONLY <2>1
  <2>3. acc.at = "stopping" =>
        \A i, j \in DOMAIN ctl.events :
          ctl.events[i][1] = "connected" /\ ctl.events[j] = <<"answer", ctl.asked>> => i < j
    BY <1>0, BleParts DEF AcceptInv
  <2>4. e # <<"answer", ctl.asked>>
    OBVIOUS
  <2> QED BY <2>1, <2>2, <2>3, <2>4
<1>4. /\ acc.at \notin {"starting", "select", "stopping"} => NoneComes(ctl)
      /\ acc.at \in {"drains", "starts"} => host.link = NoLink
      /\ acc.at = "starts" => host.newLinks = <<>>
      /\ acc.at = "stopping" => ~ ctl.adv
  BY <1>0, BleParts DEF AcceptInv
<1>5. acc.at \in {"starting", "select"} =>
         /\ host.link # NoLink => host.newLinks = <<host.link>>
         /\ host.newLinks # <<>> => NoneComes(ctl)
         /\ \A l \in Links : Told(ctl.events, "connected", l) => ~ ctl.adv
         /\ \A k, l \in Links : Told(ctl.events, "connected", k) /\ Told(ctl.events, "connected", l) => k = l
  BY <1>0, BleParts DEF AcceptInv
<1> QED BY <1>1, <1>2, <1>3, <1>4, <1>5 DEF AcceptInv

\* The controller's connection ends, by the central, by Link.Close or with the adapter.
LEMMA DroppedMoves ==
  ASSUME BleIInv, ctl.up, ctl.conn # NoLink, ctl' = Dropped(ctl), UNCHANGED <<host, links, reader, snd>>,
         acc' \in [at : AcceptStages, l : Nat], acc'.at \in {"closes stale", "serving"} => acc' = acc
  PROVE  ControllerMove /\ ctl'.adv = ctl.adv /\ ctl'.failed = ctl.failed /\ ctl'.asked = ctl.asked /\ ctl'.made = ctl.made
         /\ ctl'.events = Append(ctl.events, <<"disconnected", ctl.conn>>)
<1> DEFINE e == <<"disconnected", ctl.conn>>
<1>1. /\ DOMAIN ctl' = DOMAIN ctl /\ ctl'.events = Append(ctl.events, e) /\ ctl'.conn = NoLink /\ ctl'.made = ctl.made
      /\ ctl'.adv = ctl.adv /\ ctl'.last = Absent /\ ctl'.up = ctl.up /\ ctl'.held = 0
      /\ ctl'.torn = ctl.torn /\ ctl'.asked = ctl.asked /\ ctl'.failed = ctl.failed
  BY BleParts DEF Dropped, Tells
<1>2. e \in Events /\ e[1] = "disconnected"
  BY BleFields DEF Events, LinkKinds
<1>3. QueueOK(ctl'.events, host.link, ctl'.made, ctl'.conn, ctl'.up)
  <2>1. QueueOK(ctl.events, host.link, ctl.made, ctl.conn, ctl.up) /\ ctl.up \in BOOLEAN
    BY BleParts
  <2>2. QueueOK(Append(ctl.events, e), host.link, ctl.made, NoLink, ctl.up)
    BY <2>1, DropTold
  <2> QED BY <1>1, <2>2
<1>4. /\ \A l : Met(ctl, l) <=> Met(ctl', l)
      /\ Completed(ctl'.events) = Completed(ctl.events) /\ Completed(ctl'.events) \in Nat
  BY <1>1, <1>2, TellsPlain
<1>5. Completed(ctl'.events) + ctl'.held <= Completed(ctl.events) + ctl.held
  <2>1. ctl.held \in Nat
    BY BleParts
  <2> QED BY ONLY <1>1, <1>4, <2>1
<1>6. acc'.at \in {"closes stale", "serving"} => Met(ctl', acc'.l)
  BY <1>4, BleParts DEF LinksInv
<1>7. ctl'.up \in BOOLEAN /\ ctl'.adv \in BOOLEAN /\ ctl'.failed \in BOOLEAN
  BY <1>1, BleParts
<1>a. ctl'.held = 0
  BY <1>1
<1>b. ctl'.held \in Nat /\ ~ (ctl'.held > 0)
  BY ONLY <1>a
<1>8. ctl'.made \in 0..MaxLinks /\ ctl'.asked \in Nat /\ ctl'.torn = ctl.torn
  BY <1>1, BleParts
<1>9. ctl'.adv => ctl'.up /\ ctl'.conn = NoLink
  BY <1>1, BleParts DEF LinksInv
<1>10. ~ host.closed
  BY BleParts
<1> QED BY <1>1, <1>3, <1>4, <1>5, <1>6, <1>7, <1>8, <1>9, <1>10, <1>b DEF ControllerMove

\* A central leaves.
LEMMA CentralLeavesKeeps ==
  ASSUME BleIInv, CentralLeaves
  PROVE  BleIInv'
<1>0. ctl.up /\ ctl.conn # NoLink /\ ctl' = Dropped(ctl) /\ UNCHANGED <<host, links, reader, snd>> /\ acc' = acc
  BY DEF CentralLeaves
<1>1. ControllerMove /\ ctl'.adv = ctl.adv /\ ctl'.failed = ctl.failed /\ ctl'.asked = ctl.asked /\ ctl'.made = ctl.made
      /\ ctl'.events = Append(ctl.events, <<"disconnected", ctl.conn>>)
  BY <1>0, BleParts, DroppedMoves
<1>2. <<"disconnected", ctl.conn>> \in Events
  BY BleFields DEF Events, LinkKinds
<1>3. AcceptInv'
  BY <1>0, <1>1, <1>2, AcceptAfterTelling
<1> QED BY <1>1, <1>3, ControllerSteps

\* A central subscribes or asks.
LEMMA CentralWritesKeeps ==
  ASSUME BleIInv, NEW k \in {"subscribes", "asks"}, CentralWrites(k)
  PROVE  BleIInv'
<1> DEFINE e == <<k, ctl.conn>>
<1>0. ctl.up /\ ctl.conn # NoLink /\ ctl' = Tells(ctl, e) /\ UNCHANGED <<host, links, reader, snd>> /\ acc' = acc
  BY DEF CentralWrites
<1>1. /\ DOMAIN ctl' = DOMAIN ctl /\ ctl'.events = Append(ctl.events, e) /\ ctl'.conn = ctl.conn /\ ctl'.made = ctl.made
      /\ ctl'.adv = ctl.adv /\ ctl'.last = ctl.last /\ ctl'.up = ctl.up /\ ctl'.held = ctl.held
      /\ ctl'.torn = ctl.torn /\ ctl'.asked = ctl.asked /\ ctl'.failed = ctl.failed
  BY <1>0, BleParts DEF Tells
<1>2. e \in Events /\ e[1] = k
  BY BleFields DEF Events, LinkKinds
<1>3. QueueOK(ctl'.events, host.link, ctl'.made, ctl'.conn, ctl'.up)
  <2>1. QueueOK(ctl.events, host.link, ctl.made, ctl.conn, ctl.up) /\ ctl.up \in BOOLEAN
    BY BleParts
  <2>2. QueueOK(Append(ctl.events, e), host.link, ctl.made, ctl.conn, ctl.up)
    BY <1>0, <2>1, LinkTells
  <2> QED BY <1>1, <2>2
<1>4. /\ \A l : Met(ctl, l) <=> Met(ctl', l)
      /\ Completed(ctl'.events) = Completed(ctl.events) /\ Completed(ctl'.events) \in Nat
  BY <1>1, <1>2, TellsPlain
<1>5. Completed(ctl'.events) + ctl'.held <= Completed(ctl.events) + ctl.held
  <2>1. ctl.held \in Nat
    BY BleParts
  <2> QED BY ONLY <1>1, <1>4, <2>1
<1>6. acc'.at \in {"closes stale", "serving"} => Met(ctl', acc'.l)
  BY <1>0, <1>4, BleParts DEF LinksInv
<1>7. ctl'.up \in BOOLEAN /\ ctl'.adv \in BOOLEAN /\ ctl'.failed \in BOOLEAN /\ acc' \in [at : AcceptStages, l : Nat]
  BY <1>0, <1>1, BleParts
<1>8. ctl'.made \in 0..MaxLinks /\ ctl'.held \in Nat /\ ctl'.asked \in Nat /\ ctl'.torn = ctl.torn
  BY <1>1, BleParts
<1>9. ctl'.adv => ctl'.up /\ ctl'.conn = NoLink
  BY <1>1, BleParts DEF LinksInv
<1>10. ~ host.closed
  BY <1>0, BleParts
<1>11. ControllerMove
  BY <1>0, <1>1, <1>3, <1>4, <1>5, <1>6, <1>7, <1>8, <1>9, <1>10 DEF ControllerMove
<1>12. AcceptInv'
  BY <1>0, <1>1, <1>2, AcceptAfterTelling
<1> QED BY <1>11, <1>12, ControllerSteps

\* The controller sends a piece, and tells that its buffer is free.
LEMMA TransmitsKeeps ==
  ASSUME BleIInv, Transmits
  PROVE  BleIInv'
<1> DEFINE e == <<"completed", ctl.conn>>
<1>0. ctl.up /\ ctl.held > 0 /\ UNCHANGED <<host, links, reader, snd>> /\ acc' = acc
  BY DEF Transmits
<1>1. /\ DOMAIN ctl' = DOMAIN ctl /\ ctl'.events = Append(ctl.events, e) /\ ctl'.conn = ctl.conn /\ ctl'.made = ctl.made
      /\ ctl'.adv = ctl.adv /\ ctl'.last = ctl.last /\ ctl'.up = ctl.up /\ ctl'.held = ctl.held - 1
      /\ ctl'.torn = ctl.torn /\ ctl'.asked = ctl.asked /\ ctl'.failed = ctl.failed
  BY BleParts DEF Transmits, Tells
<1>2. e \in Events /\ e[1] = "completed"
  BY BleFields DEF Events, LinkKinds
<1>a. ctl.conn # NoLink /\ host.link = ctl.conn
  BY <1>0, BleParts DEF CreditsInv
<1>3. QueueOK(ctl'.events, host.link, ctl'.made, ctl'.conn, ctl'.up)
  <2>1. QueueOK(ctl.events, host.link, ctl.made, ctl.conn, ctl.up) /\ ctl.up \in BOOLEAN
    BY BleParts
  <2>2. QueueOK(Append(ctl.events, e), host.link, ctl.made, ctl.conn, ctl.up)
    BY <1>0, <1>a, <2>1, LinkTells
  <2> QED BY <1>1, <2>2
<1>4. /\ \A l : Met(ctl, l) <=> Met(ctl', l)
      /\ Completed(ctl'.events) = Completed(ctl.events) + 1 /\ Completed(ctl'.events) \in Nat /\ Completed(ctl.events) \in Nat
  BY <1>1, <1>2, TellsPlain
<1>5. Completed(ctl'.events) + ctl'.held <= Completed(ctl.events) + ctl.held /\ ctl'.held \in Nat
  <2>1. ctl.held \in Nat
    BY BleParts
  <2> QED BY ONLY <1>0, <1>1, <1>4, <2>1
<1>6. acc'.at \in {"closes stale", "serving"} => Met(ctl', acc'.l)
  BY <1>0, <1>4, BleParts DEF LinksInv
<1>7. ctl'.up \in BOOLEAN /\ ctl'.adv \in BOOLEAN /\ ctl'.failed \in BOOLEAN /\ acc' \in [at : AcceptStages, l : Nat]
  BY <1>0, <1>1, BleParts
<1>8. ctl'.made \in 0..MaxLinks /\ ctl'.asked \in Nat /\ ctl'.torn = ctl.torn
  BY <1>1, BleParts
<1>9. ctl'.adv => ctl'.up /\ ctl'.conn = NoLink
  BY <1>1, BleParts DEF LinksInv
<1>10. ~ host.closed
  BY <1>0, BleParts
<1>11. ControllerMove
  BY <1>0, <1>1, <1>3, <1>4, <1>5, <1>6, <1>7, <1>8, <1>9, <1>10 DEF ControllerMove
<1>12. AcceptInv'
  BY <1>0, <1>1, <1>2, AcceptAfterTelling
<1> QED BY <1>11, <1>12, ControllerSteps

\* The adapter goes.
LEMMA AdapterGoesKeeps ==
  ASSUME BleIInv, AdapterGoes
  PROVE  BleIInv'
<1> DEFINE e == <<"error", NoLink>>
<1>0. ctl.up /\ UNCHANGED <<host, links, reader, snd>> /\ acc' = acc
  BY DEF AdapterGoes
<1>1. /\ DOMAIN ctl' = DOMAIN ctl /\ ctl'.events = Append(ctl.events, e) /\ ctl'.conn = NoLink /\ ctl'.made = ctl.made
      /\ ctl'.adv = FALSE /\ ctl'.last = Absent /\ ctl'.up = FALSE /\ ctl'.held = 0
      /\ ctl'.torn = ctl.torn /\ ctl'.asked = ctl.asked /\ ctl'.failed = ctl.failed
  BY BleParts DEF AdapterGoes, Tells
<1>2. e \in Events /\ e[1] = "error"
  BY DEF Events, LinkKinds, NoLink
<1>3. QueueOK(ctl'.events, host.link, ctl'.made, ctl'.conn, ctl'.up)
  <2>1. QueueOK(ctl.events, host.link, ctl.made, ctl.conn, ctl.up) /\ ctl.up \in BOOLEAN
    BY BleParts
  <2>2. QueueOK(Append(ctl.events, e), host.link, ctl.made, NoLink, FALSE)
    BY <1>0, <2>1, ErrorTold
  <2> QED BY <1>1, <2>2
<1>4. /\ \A l : Met(ctl, l) <=> Met(ctl', l)
      /\ Completed(ctl'.events) = Completed(ctl.events) /\ Completed(ctl'.events) \in Nat
  BY <1>1, <1>2, TellsPlain
<1>5. Completed(ctl'.events) + ctl'.held <= Completed(ctl.events) + ctl.held
  <2>1. ctl.held \in Nat
    BY BleParts
  <2> QED BY ONLY <1>1, <1>4, <2>1
<1>6. acc'.at \in {"closes stale", "serving"} => Met(ctl', acc'.l)
  BY <1>0, <1>4, BleParts DEF LinksInv
<1>7. ctl'.up \in BOOLEAN /\ ctl'.adv \in BOOLEAN /\ ctl'.failed \in BOOLEAN /\ acc' \in [at : AcceptStages, l : Nat]
  BY <1>0, <1>1, BleParts
<1>8. ctl'.made \in 0..MaxLinks /\ ctl'.held \in Nat /\ ctl'.asked \in Nat /\ ctl'.torn = ctl.torn
  BY <1>1, BleParts
<1>9. ~ host.closed /\ ~ (ctl'.held > 0) /\ ~ ctl'.adv
  BY <1>0, <1>1, BleParts
<1>11. ControllerMove
  BY <1>0, <1>1, <1>3, <1>4, <1>5, <1>6, <1>7, <1>8, <1>9 DEF ControllerMove
<1>12. AcceptInv'
  BY <1>0, <1>1, <1>2, AcceptAfterTelling
<1> QED BY <1>11, <1>12, ControllerSteps

-----------------------------------------------------------------------------
(* The reader's steps, and the senders' that take or leave no txMu. *)

\* Who holds a txMu goes on holding it, with the same piece in hand.
HoldersStay ==
  /\ \A l \in Links : links'[l].tx = links[l].tx
  /\ \A s \in Senders :
       IF snd[s].at \in Holding
       THEN /\ snd'[s].at \in Holding /\ snd'[s].l = snd[s].l /\ snd'[s].off = snd[s].off
            /\ snd'[s].at = "write" <=> snd[s].at = "write"
       ELSE snd'[s].at \notin Holding /\ snd'[s].off = 0

\* The types of links and senders.
LEMMA BleTyped ==
  ASSUME BleIInv
  PROVE  /\ \A l \in Links : /\ DOMAIN links[l] = {"gone", "sub", "accepted", "inFlight", "tx"} /\ links[l].inFlight \in Nat
                             /\ links[l].gone \in BOOLEAN /\ links[l].sub \in BOOLEAN /\ links[l].accepted \in BOOLEAN
                             /\ links[l].tx \in Senders \union {"free"}
         /\ DOMAIN links = Links /\ DOMAIN snd = Senders
         /\ \A s \in Senders : /\ DOMAIN snd[s] = {"at", "l", "off", "sent"} /\ snd[s].at \in SenderStages /\ snd[s].l \in Nat
                               /\ snd[s].off \in 0..Last2 /\ snd[s].sent \in Nat
         /\ host.newLinks \in {<<>>} \union {<<l>> : l \in Links}
         /\ reader \in {<<>>, <<"broadcast">>, <<"done">>} \union {<<"lost", l>> : l \in Links}
         /\ host.closed \in BOOLEAN /\ host.credits \in Nat /\ host.link \in Nat
  BY DEF BleIInv, BleTypeOK, LinkType

\* A sender's first piece is one of its pieces.
LEMMA FirstPiece ==
  ASSUME BleIInv, NEW s \in Senders, snd[s].at \notin Holding
  PROVE  snd[s].off = 0
  BY BleParts DEF TxInv

\* While nobody takes or leaves a txMu, who holds one keeps it, and the pieces stay together.
LEMMA HoldersStaying ==
  ASSUME BleIInv, HoldersStay
  PROVE  /\ TxInv' /\ \A l \in Links : Writing(links', snd', l) = Writing(links, snd, l)
         /\ ctl'.conn = ctl.conn /\ ctl'.last = ctl.last /\ ctl'.torn = ctl.torn => PieceInv'
<1>1. /\ \A l \in Links : links[l].tx # "free" => links[l].tx \in Senders /\ snd[links[l].tx].l = l /\ snd[links[l].tx].at \in Holding
      /\ \A s \in Senders : snd[s].at \in Holding => snd[s].l \in Links /\ links[snd[s].l].tx = s
  <2>1. \A s \in Senders : snd[s].at \in Holding => snd[s].at # "idle"
    BY DEF Holding
  <2>2. \A s \in Senders : snd[s].at \in Holding => snd[s].l \in Links
    BY <2>1, BleParts, MetIsLink DEF LinksInv
  <2> QED BY <2>2, BleParts, BleTyped DEF TxInv
<1>2. TxInv'
  BY <1>1 DEF TxInv, HoldersStay
<1>3. \A l \in Links : Writing(links', snd', l) = Writing(links, snd, l)
  BY <1>1 DEF Writing, HoldersStay
<1>4. ASSUME ctl'.conn = ctl.conn, ctl'.last = ctl.last, ctl'.torn = ctl.torn
      PROVE  PieceInv'
  <2>0. ~ ctl'.torn
    BY <1>4, BleParts DEF PieceInv
  <2>1. SUFFICES ASSUME ctl.conn # NoLink
                 PROVE  PieceInv'
    BY <1>4, <2>0 DEF PieceInv
  <2>2. ctl.conn \in Links
    <3>1. ctl.conn \in {NoLink, ctl.made} /\ ctl.made \in 0..MaxLinks /\ MaxLinks \in Nat
      BY BleFields
    <3> QED BY ONLY <2>1, <3>1 DEF NoLink, Links
  <2>3. /\ links'[ctl.conn].tx = links[ctl.conn].tx
        /\ links[ctl.conn].tx # "free" => snd'[links[ctl.conn].tx].off = snd[links[ctl.conn].tx].off
    BY <1>1, <2>2 DEF HoldersStay
  <2> QED BY <1>4, <2>0, <2>3, BleParts DEF PieceInv
<1> QED BY <1>2, <1>3, <1>4

\* A broadcast moves those who sleep, and nothing else of them.
LEMMA WokenFacts ==
  ASSUME BleIInv, snd' = Woken(snd)
  PROVE  /\ snd' \in [Senders -> [at : SenderStages, l : Nat, off : 0..Last2, sent : Nat]]
         /\ \A s \in Senders : /\ snd'[s].l = snd[s].l /\ snd'[s].off = snd[s].off
                               /\ snd'[s].at \notin {"asleep for sub", "asleep for credit"}
                               /\ snd'[s].at = "idle" <=> snd[s].at = "idle"
                               /\ snd'[s].at = "write" <=> snd[s].at = "write"
                               /\ snd'[s].at \in Holding <=> snd[s].at \in Holding
<1>0. snd \in [Senders -> [at : SenderStages, l : Nat, off : 0..Last2, sent : Nat]]
  BY DEF BleIInv, BleTypeOK
<1>1. ASSUME NEW s \in Senders
      PROVE  /\ snd'[s] \in [at : SenderStages, l : Nat, off : 0..Last2, sent : Nat]
             /\ snd'[s].l = snd[s].l /\ snd'[s].off = snd[s].off
             /\ snd'[s].at = IF snd[s].at = "asleep for sub" THEN "sub"
                             ELSE IF snd[s].at = "asleep for credit" THEN "credit" ELSE snd[s].at
  <2>1. snd'[s] = IF snd[s].at = "asleep for sub" THEN [snd[s] EXCEPT !.at = "sub"]
                  ELSE IF snd[s].at = "asleep for credit" THEN [snd[s] EXCEPT !.at = "credit"] ELSE snd[s]
    BY DEF Woken
  <2> QED BY <1>0, <2>1 DEF SenderStages
<1>2. snd' \in [Senders -> [at : SenderStages, l : Nat, off : 0..Last2, sent : Nat]]
  BY <1>1 DEF Woken
<1> QED BY <1>1, <1>2 DEF Holding, SenderStages

\* A broadcast leaves every txMu to its holder, and nobody sleeps behind it.
LEMMA WokenKeeps ==
  ASSUME BleIInv, snd' = Woken(snd), \A l \in Links : links'[l].tx = links[l].tx
  PROVE  HoldersStay /\ NobodyOversleeps'
<1>1. HoldersStay
  <2>1. \A s \in Senders : snd[s].at \notin Holding => snd[s].off = 0
    BY BleParts DEF TxInv
  <2> QED BY <2>1, WokenFacts DEF HoldersStay
<1>2. NobodyOversleeps'
  BY WokenFacts DEF NobodyOversleeps
<1> QED BY <1>1, <1>2

\* An event is taken.
LEMMA TakenFields ==
  ASSUME BleIInv, ctl.events # <<>>, Taken
  PROVE  /\ DOMAIN ctl' = DOMAIN ctl /\ ctl'.events = Tail(ctl.events) /\ ctl'.conn = ctl.conn /\ ctl'.made = ctl.made
         /\ ctl'.adv = ctl.adv /\ ctl'.last = ctl.last /\ ctl'.up = ctl.up /\ ctl'.held = ctl.held
         /\ ctl'.torn = ctl.torn /\ ctl'.asked = ctl.asked /\ ctl'.failed = ctl.failed /\ ~ host.closed
  BY BleParts DEF Taken

\* What is taken, other than a connection, changes no link that was met.
LEMMA TakenPlain ==
  ASSUME BleIInv, ctl.events # <<>>, Taken, Head(ctl.events)[1] # "connected"
  PROVE  /\ \A l : Met(ctl, l) <=> Met(ctl', l)
         /\ \A l : Told(ctl'.events, "connected", l) <=> Told(ctl.events, "connected", l)
         /\ Completed(ctl.events) = IF Head(ctl.events)[1] = "completed" THEN Completed(ctl'.events) + 1 ELSE Completed(ctl'.events)
         /\ Completed(ctl'.events) \in Nat /\ Completed(ctl.events) \in Nat
<1>1. ctl.events \in Seq(Events) /\ ctl'.events = Tail(ctl.events) /\ ctl'.made = ctl.made
  BY BleFields, TakenFields
<1>2. \A k, l : Told(ctl.events, k, l) <=> Told(Tail(ctl.events), k, l) \/ Head(ctl.events) = <<k, l>>
  BY ONLY <1>1, ctl.events # <<>>, ToldStill
<1>3. \A l : Told(ctl'.events, "connected", l) <=> Told(ctl.events, "connected", l)
  BY <1>1, <1>2
<1>4. \A l : Met(ctl, l) <=> Met(ctl', l)
  BY <1>1, <1>3 DEF Met
<1>5. Completed(ctl.events) = IF Head(ctl.events)[1] = "completed" THEN Completed(ctl'.events) + 1 ELSE Completed(ctl'.events)
  BY <1>1, CompletedStill
<1>6. Completed(ctl.events) \in Nat /\ Completed(ctl'.events) \in Nat
  BY <1>1, TakenOff, CompletedFinite
<1> QED BY <1>3, <1>4, <1>5, <1>6

\* What Accept relies on survives that such an event is taken.
LEMMA AcceptAfterTaking ==
  ASSUME BleIInv, ctl.events # <<>>, Taken, Head(ctl.events)[1] # "connected", acc' = acc,
         host'.newLinks = host.newLinks, host'.link \in {NoLink, host.link}
  PROVE  AcceptInv'
<1>0. /\ ctl'.events = Tail(ctl.events) /\ ctl'.adv = ctl.adv /\ ctl'.asked = ctl.asked /\ ctl'.failed = ctl.failed
      /\ ctl.events \in Seq(Events)
  BY TakenFields, BleFields
<1>1. SUFFICES ASSUME ~ ctl.failed
               PROVE  AcceptInv'
  BY <1>0 DEF AcceptInv
<1>2. \A l : Told(ctl'.events, "connected", l) <=> Told(ctl.events, "connected", l)
  BY TakenPlain
<1>3. NoneComes(ctl) => NoneComes(ctl')
  BY <1>0, <1>2 DEF NoneComes
<1>4. acc.at = "stopping" =>
        \A i, j \in DOMAIN ctl'.events :
          ctl'.events[i][1] = "connected" /\ ctl'.events[j] = <<"answer", ctl'.asked>> => i < j
  <2>0. SUFFICES ASSUME acc.at = "stopping", NEW i \in DOMAIN ctl'.events, NEW j \in DOMAIN ctl'.events,
                        ctl'.events[i][1] = "connected", ctl'.events[j] = <<"answer", ctl.asked>>
                 PROVE  i < j
    BY <1>0
  <2>1. /\ i + 1 \in DOMAIN ctl.events /\ ctl'.events[i] = ctl.events[i + 1] /\ i \in Nat
        /\ j + 1 \in DOMAIN ctl.events /\ ctl'.events[j] = ctl.events[j + 1] /\ j \in Nat
    BY <1>0, TakenOff
  <2>2. i + 1 < j + 1
    BY <1>1, <2>0, <2>1, BleParts DEF AcceptInv
  <2> QED BY ONLY <2>1, <2>2
<1>5. /\ acc.at \notin {"starting", "select", "stopping"} => NoneComes(ctl)
      /\ acc.at \in {"drains", "starts"} => host.link = NoLink
      /\ acc.at = "starts" => host.newLinks = <<>>
      /\ acc.at = "stopping" => ~ ctl.adv
  BY <1>1, BleParts DEF AcceptInv
<1>6. acc.at \in {"starting", "select"} =>
         /\ host.link # NoLink => host.newLinks = <<host.link>>
         /\ host.newLinks # <<>> => NoneComes(ctl)
         /\ \A l \in Links : Told(ctl.events, "connected", l) => ~ ctl.adv
         /\ \A k, l \in Links : Told(ctl.events, "connected", k) /\ Told(ctl.events, "connected", l) => k = l
  BY <1>1, BleParts DEF AcceptInv
<1> QED BY <1>0, <1>2, <1>3, <1>4, <1>5, <1>6 DEF AcceptInv

\* The link that is connected is the one that is met.
LEMMA ConnectMeets ==
  ASSUME BleIInv, ctl.events # <<>>, Taken, Head(ctl.events)[1] = "connected"
  PROVE  /\ host.link = NoLink /\ Its \in Links /\ Its # NoLink /\ Met(ctl', Its) /\ ~ Met(ctl, Its) /\ links[Its] = NewLink
         /\ QueueOK(ctl'.events, Its, ctl'.made, ctl'.conn, ctl'.up)
         /\ \A l : Told(ctl.events, "connected", l) <=> Told(ctl'.events, "connected", l) \/ l = Its
         /\ \A l : Met(ctl, l) => Met(ctl', l)
         /\ Completed(ctl'.events) = 0 /\ ctl.held = 0
<1>0. /\ ctl'.events = Tail(ctl.events) /\ ctl'.made = ctl.made /\ ctl'.conn = ctl.conn /\ ctl'.up = ctl.up
      /\ ctl.events \in Seq(Events) /\ ctl.made \in 0..MaxLinks /\ MaxLinks \in Nat /\ ctl.held \in Nat
      /\ QueueOK(ctl.events, host.link, ctl.made, ctl.conn, ctl.up)
  BY TakenFields, BleFields, BleParts
<1>1. /\ host.link = NoLink /\ Its \in 1..ctl.made /\ ~ Told(ctl'.events, "connected", Its)
      /\ QueueOK(ctl'.events, Its, ctl'.made, ctl'.conn, ctl'.up)
  BY <1>0, ConnectTaken DEF Its
<1>2. Its \in Links /\ Its # NoLink
  BY ONLY <1>0, <1>1 DEF Links, NoLink
<1>3. Head(ctl.events) = <<"connected", Its>>
  BY <1>0, HeadFacts DEF Its
<1>4. \A k, l : Told(ctl.events, k, l) <=> Told(Tail(ctl.events), k, l) \/ Head(ctl.events) = <<k, l>>
  BY ONLY <1>0, ctl.events # <<>>, ToldStill
<1>5. \A l : Told(ctl.events, "connected", l) <=> Told(ctl'.events, "connected", l) \/ l = Its
  BY <1>0, <1>3, <1>4
<1>6. Met(ctl', Its) /\ ~ Met(ctl, Its) /\ \A l : Met(ctl, l) => Met(ctl', l)
  BY <1>0, <1>1, <1>5 DEF Met
<1>7. links[Its] = NewLink
  BY <1>2, <1>6, BleParts DEF LinksInv
<1>8. ctl.held = 0
  <2>1. ~ (ctl.held > 0)
    BY <1>1, BleParts DEF CreditsInv
  <2> QED BY <1>0, <2>1
<1>9. Completed(ctl'.events) = 0
  <2>1. \A i \in DOMAIN ctl.events : ctl.events[i][1] # "completed"
    BY <1>0, <1>1 DEF QueueOK, EventOK, OfLink, LinkKinds, NoLink
  <2>2. \A i \in DOMAIN Tail(ctl.events) : i + 1 \in DOMAIN ctl.events /\ Tail(ctl.events)[i] = ctl.events[i + 1]
    BY <1>0, TakenOff
  <2>3. \A i \in DOMAIN ctl'.events : ctl'.events[i][1] # "completed"
    BY <1>0, <2>1, <2>2
  <2> QED BY ONLY <2>3, NoneCompleted
<1> QED BY <1>1, <1>2, <1>5, <1>6, <1>7, <1>8, <1>9

\* onLEMeta: the host takes the connection, and gives it to Accept.
LEMMA onConnectKeeps ==
  ASSUME BleIInv, onConnect
  PROVE  BleIInv'
<1>0. /\ ctl.events # <<>> /\ Taken /\ Head(ctl.events)[1] = "connected" /\ UNCHANGED <<links, reader, snd, acc>>
      /\ host' = IF host.link # NoLink THEN host
                 ELSE [host EXCEPT !.link = Its, !.newLinks = IF @ = <<>> THEN <<Its>> ELSE @]
  BY DEF onConnect, NextEvent
<1>1. /\ host.link = NoLink /\ Its \in Links /\ Its # NoLink /\ Met(ctl', Its) /\ ~ Met(ctl, Its) /\ links[Its] = NewLink
      /\ QueueOK(ctl'.events, Its, ctl'.made, ctl'.conn, ctl'.up)
      /\ \A l : Told(ctl.events, "connected", l) <=> Told(ctl'.events, "connected", l) \/ l = Its
      /\ \A l : Met(ctl, l) => Met(ctl', l)
      /\ Completed(ctl'.events) = 0 /\ ctl.held = 0
  BY <1>0, ConnectMeets
<1>2. /\ DOMAIN ctl' = DOMAIN ctl /\ ctl'.events = Tail(ctl.events) /\ ctl'.conn = ctl.conn /\ ctl'.made = ctl.made
      /\ ctl'.adv = ctl.adv /\ ctl'.last = ctl.last /\ ctl'.up = ctl.up /\ ctl'.held = ctl.held
      /\ ctl'.torn = ctl.torn /\ ctl'.asked = ctl.asked /\ ctl'.failed = ctl.failed /\ ~ host.closed
  BY <1>0, TakenFields
<1>3. /\ host'.link = Its /\ host'.credits = host.credits /\ host'.closed = host.closed /\ DOMAIN host' = DOMAIN host
      /\ host'.newLinks = IF host.newLinks = <<>> THEN <<Its>> ELSE host.newLinks
  BY <1>0, <1>1, BleFields
<1>4. BleTypeOK'
  <2>1. Its \in Nat
    BY <1>1, BleFields
  <2>2. host' \in [link : Nat, credits : Nat, closed : BOOLEAN, newLinks : {<<>>} \union {<<l>> : l \in Links}]
    BY <1>0, <1>1, <2>1, BleParts DEF BleTypeOK
  <2> QED BY <1>0, <1>2, <2>2, BleParts DEF BleTypeOK
<1>5. QueueInv'
  BY <1>1, <1>3 DEF QueueInv
<1>6. LinksInv'
  <2>1. \A i \in DOMAIN host'.newLinks : Met(ctl', host'.newLinks[i]) /\ ~ links'[host'.newLinks[i]].accepted
    <3>1. CASE host.newLinks = <<>>
      <4>1. host'.newLinks = <<Its>> /\ links'[Its].accepted = FALSE
        BY <1>0, <1>1, <1>3, <3>1 DEF NewLink
      <4> QED BY <1>1, <4>1
    <3>2. CASE host.newLinks # <<>>
      BY <1>0, <1>1, <1>3, <3>2, NewLinksStay
    <3> QED BY <3>1, <3>2
  <2>2. /\ \A l \in Links : ~ Met(ctl', l) => links'[l] = NewLink
        /\ \A l \in Links : links'[l].gone \/ reader' = <<"lost", l>> => Met(ctl', l) /\ ctl'.conn # l
    BY <1>0, <1>1, <1>2, BleParts DEF LinksInv
  <2>3. \A s \in Senders : snd'[s].at # "idle" => Met(ctl', snd'[s].l)
    BY <1>0, <1>1, HaveLinks
  <2>4. /\ acc'.at \in {"closes stale", "serving"} => Met(ctl', acc'.l)
        /\ reader' = <<"done">> => host'.closed
        /\ ~ host'.closed /\ (ctl'.adv => ctl'.up /\ ctl'.conn = NoLink)
    BY <1>0, <1>1, <1>2, <1>3, BleParts DEF LinksInv
  <2> QED BY ONLY <2>1, <2>2, <2>3, <2>4 DEF LinksInv
<1>7. HoldersStay
  BY <1>0, FirstPiece DEF HoldersStay
<1>8. TxInv' /\ PieceInv' /\ \A l \in Links : Writing(links', snd', l) = Writing(links, snd, l)
  BY <1>2, <1>7, HoldersStaying
<1>9. CreditsInv'
  <2>1. links'[Its].inFlight = 0 /\ Writing(links', snd', Its) = 0
    BY <1>0, <1>1 DEF NewLink, Writing
  <2>2. host.credits \in Nat /\ host.credits <= AclBuffers
    BY <1>1, BleParts, BleFields DEF CreditsInv
  <2>3. host'.credits + links'[Its].inFlight <= AclBuffers
    BY <1>3, <2>1, <2>2, BleAssumption
  <2>4. Completed(ctl'.events) + ctl'.held + Writing(links', snd', Its) <= links'[Its].inFlight
    BY <1>1, <1>2, <2>1
  <2>5. ~ (ctl'.held > 0)
    BY <1>1, <1>2
  <2> QED BY <1>1, <1>3, <2>3, <2>4, <2>5 DEF CreditsInv
<1>10. NobodyOversleeps'
  BY <1>0, <1>3, BleParts DEF NobodyOversleeps, LinkOver
<1>11. AcceptInv'
  <2>1. SUFFICES ASSUME ~ ctl.failed
                 PROVE  AcceptInv'
    BY <1>2 DEF AcceptInv
  <2>2. Told(ctl.events, "connected", Its) /\ ~ NoneComes(ctl)
    BY <1>1 DEF NoneComes
  <2>3. acc.at \in {"starting", "select", "stopping"}
    BY <2>1, <2>2, BleParts DEF AcceptInv
  <2>4. CASE acc.at \in {"starting", "select"}
    <3>1. host'.newLinks = <<host'.link>>
      BY <1>3, <2>1, <2>2, <2>4, BleParts DEF AcceptInv
    <3>2. NoneComes(ctl')
      <4>1. ~ ctl'.adv
        BY <1>1, <1>2, <2>1, <2>2, <2>4, BleParts DEF AcceptInv
      <4>2. \A l \in Links : Told(ctl.events, "connected", l) => l = Its
        BY <1>1, <2>1, <2>2, <2>4, BleParts DEF AcceptInv
      <4>3. ~ Told(ctl'.events, "connected", Its)
        BY <1>1 DEF Met
      <4> QED BY <1>1, <4>1, <4>2, <4>3 DEF NoneComes
    <3> QED BY <1>0, <2>4, <3>1, <3>2 DEF AcceptInv, NoneComes
  <2>5. CASE acc.at = "stopping"
    <3>0. ~ ctl'.adv
      BY <1>2, <2>1, <2>5, BleParts DEF AcceptInv
    <3>1. ASSUME NEW i \in DOMAIN ctl'.events, NEW j \in DOMAIN ctl'.events,
                 ctl'.events[i][1] = "connected", ctl'.events[j] = <<"answer", ctl.asked>>
          PROVE  i < j
      <4>1. /\ i + 1 \in DOMAIN ctl.events /\ ctl'.events[i] = ctl.events[i + 1] /\ i \in Nat
            /\ j + 1 \in DOMAIN ctl.events /\ ctl'.events[j] = ctl.events[j + 1] /\ j \in Nat
        <5>1. ctl.events \in Seq(Events) /\ ctl.events # <<>> /\ ctl'.events = Tail(ctl.events)
          BY <1>0, <1>2, BleFields
        <5>2. i \in DOMAIN Tail(ctl.events) /\ j \in DOMAIN Tail(ctl.events)
          BY <5>1
        <5> QED BY ONLY <5>1, <5>2, TakenOff
      <4>2. i + 1 < j + 1
        BY <2>1, <2>5, <3>1, <4>1, BleParts DEF AcceptInv
      <4> QED BY ONLY <4>1, <4>2
    <3> QED BY <1>0, <1>2, <2>5, <3>0, <3>1 DEF AcceptInv
  <2> QED BY <2>3, <2>4, <2>5
<1> QED BY <1>4, <1>5, <1>6, <1>8, <1>9, <1>10, <1>11 DEF BleIInv

\* onCompletedPkts: buffers of the host's link are free again.
LEMMA completedPktsKeeps ==
  ASSUME BleIInv, completedPkts
  PROVE  BleIInv'
<1> DEFINE h == host.link
<1>0. /\ ctl.events # <<>> /\ Taken /\ Head(ctl.events)[1] = "completed" /\ UNCHANGED <<reader, acc>>
      /\ host' = [host EXCEPT !.credits = @ + 1] /\ snd' = Woken(snd)
      /\ links' = [links EXCEPT ![Its].inFlight = IF host.link = Its /\ @ > 0 THEN @ - 1 ELSE @]
  BY DEF completedPkts, NextEvent
<1>1. /\ Its = h /\ h # NoLink /\ QueueOK(ctl.events, h, ctl.made, ctl.conn, ctl.up)
  BY <1>0, BleParts, HeadIsHosts DEF Its, OfLink, LinkKinds
<1>2. /\ DOMAIN ctl' = DOMAIN ctl /\ ctl'.events = Tail(ctl.events) /\ ctl'.conn = ctl.conn /\ ctl'.made = ctl.made
      /\ ctl'.adv = ctl.adv /\ ctl'.last = ctl.last /\ ctl'.up = ctl.up /\ ctl'.held = ctl.held
      /\ ctl'.torn = ctl.torn /\ ctl'.asked = ctl.asked /\ ctl'.failed = ctl.failed /\ ~ host.closed
  BY <1>0, TakenFields
<1>3. /\ \A l : Met(ctl, l) <=> Met(ctl', l)
      /\ Completed(ctl.events) = Completed(ctl'.events) + 1 /\ Completed(ctl'.events) \in Nat
  BY <1>0, TakenPlain
<1>4. Met(ctl, h) /\ h \in Links
  BY <1>1, HostsIsMet
<1>5. /\ Completed(ctl.events) + ctl.held + Writing(links, snd, h) <= links[h].inFlight /\ ctl.held \in Nat
      /\ Writing(links, snd, h) \in Nat /\ host.credits + links[h].inFlight <= AclBuffers /\ links[h].inFlight \in Nat
      /\ host.credits \in Nat
  BY <1>1, <1>4, BleParts, BleTyped, WritingIs DEF CreditsInv
<1>6. links[h].inFlight > 0 /\ links[h].inFlight - 1 \in Nat /\ host.credits + 1 \in Nat
  BY ONLY <1>3, <1>5
<1>7. /\ host'.link = h /\ host'.credits = host.credits + 1 /\ host'.closed = host.closed /\ DOMAIN host' = DOMAIN host
      /\ host'.newLinks = host.newLinks
  BY <1>0, BleFields
<1>8. /\ DOMAIN links' = Links /\ links'[h].inFlight = links[h].inFlight - 1 /\ links'[h].tx = links[h].tx
      /\ links'[h].gone = links[h].gone /\ links'[h].sub = links[h].sub /\ links'[h].accepted = links[h].accepted
      /\ DOMAIN links'[h] = DOMAIN links[h]
      /\ \A l \in Links : l # h => links'[l] = links[l]
  BY <1>0, <1>1, <1>4, <1>6, BleTyped
<1>9. \A l \in Links : links'[l].tx = links[l].tx /\ links'[l].gone = links[l].gone /\ links'[l].accepted = links[l].accepted
  BY <1>8
<1>10. BleTypeOK'
  <2>1. host' \in [link : Nat, credits : Nat, closed : BOOLEAN, newLinks : {<<>>} \union {<<l>> : l \in Links}]
    BY <1>0, <1>6, BleParts DEF BleTypeOK
  <2>2. links' \in [Links -> LinkType]
    <3>1. links \in [Links -> LinkType]
      BY BleParts DEF BleTypeOK
    <3>2. [links[h] EXCEPT !.inFlight = links[h].inFlight - 1] \in LinkType
      BY <1>4, <1>6, <3>1 DEF LinkType
    <3>3. links' = [links EXCEPT ![h] = [links[h] EXCEPT !.inFlight = links[h].inFlight - 1]]
      BY <1>0, <1>1, <1>4, <1>6, <3>1
    <3> QED BY ONLY <1>4, <3>1, <3>2, <3>3
  <2> QED BY <1>0, <1>2, <2>1, <2>2, BleParts, WokenFacts DEF BleTypeOK
<1>11. QueueInv'
  <2>1. Head(ctl.events)[1] \notin {"connected", "disconnected"}
    BY <1>0
  <2>2. QueueOK(Tail(ctl.events), h, ctl.made, ctl.conn, ctl.up)
    BY ONLY <1>0, <1>1, <2>1, PlainTaken
  <2> QED BY <1>2, <1>7, <2>2 DEF QueueInv
<1>12. LinksInv'
  <2>1. \A l \in Links : ~ Met(ctl', l) => links'[l] = NewLink
    BY <1>3, <1>4, <1>8, BleParts DEF LinksInv
  <2>2. \A s \in Senders : snd'[s].at # "idle" => Met(ctl', snd'[s].l)
    BY <1>0, <1>3, BleParts, WokenFacts DEF LinksInv
  <2>3. \A i \in DOMAIN host'.newLinks : Met(ctl', host'.newLinks[i]) /\ ~ links'[host'.newLinks[i]].accepted
    BY <1>3, <1>7, <1>9, NewLinksStay
  <2>4. \A l \in Links : links'[l].gone \/ reader' = <<"lost", l>> => Met(ctl', l) /\ ctl'.conn # l
    <3>1. reader' = reader /\ \A l \in Links : links[l].gone \/ reader = <<"lost", l>> => Met(ctl, l) /\ ctl.conn # l
      BY <1>0, BleParts DEF LinksInv
    <3> QED BY ONLY <1>2, <1>3, <1>9, <3>1
  <2>5. /\ acc'.at \in {"closes stale", "serving"} => Met(ctl', acc'.l)
        /\ reader' # <<"done">> /\ ~ host'.closed /\ (ctl'.adv => ctl'.up /\ ctl'.conn = NoLink)
    BY <1>0, <1>2, <1>3, <1>7, BleParts DEF LinksInv
  <2> QED BY <2>1, <2>2, <2>3, <2>4, <2>5 DEF LinksInv
<1>13. HoldersStay /\ NobodyOversleeps'
  BY <1>0, <1>9, WokenKeeps
<1>14. TxInv' /\ PieceInv' /\ Writing(links', snd', h) = Writing(links, snd, h)
  BY <1>2, <1>4, <1>13, HoldersStaying
<1>15. CreditsInv'
  <2>1. host'.credits + links'[h].inFlight <= AclBuffers
    BY <1>5, <1>6, <1>7, <1>8, BleAssumption
  <2>2. Completed(ctl'.events) + ctl'.held + Writing(links', snd', h) <= links'[h].inFlight
    BY <1>2, <1>3, <1>5, <1>6, <1>8, <1>14
  <2>3. ctl'.held > 0 => ctl'.conn # NoLink /\ ctl'.conn = h
    BY <1>2, BleParts DEF CreditsInv
  <2> QED BY <1>1, <1>7, <2>1, <2>2, <2>3 DEF CreditsInv
<1>16. AcceptInv'
  BY <1>0, <1>7, AcceptAfterTaking
<1> QED BY <1>10, <1>11, <1>12, <1>13, <1>14, <1>15, <1>16 DEF BleIInv

\* onDisconnComplete: the host unsets the link and gives its credits back.
LEMMA disconnCompleteKeeps ==
  ASSUME BleIInv, disconnComplete
  PROVE  BleIInv'
<1> DEFINE h == host.link
<1>0. /\ ctl.events # <<>> /\ Taken /\ Head(ctl.events)[1] = "disconnected" /\ acc' = acc /\ snd' = Woken(snd)
  BY DEF disconnComplete, NextEvent
<1>1. /\ Its = h /\ h # NoLink /\ ctl.conn # h /\ QueueOK(Tail(ctl.events), NoLink, ctl.made, ctl.conn, ctl.up)
  BY <1>0, BleParts, DropTaken DEF Its
<1>2. /\ DOMAIN ctl' = DOMAIN ctl /\ ctl'.events = Tail(ctl.events) /\ ctl'.conn = ctl.conn /\ ctl'.made = ctl.made
      /\ ctl'.adv = ctl.adv /\ ctl'.last = ctl.last /\ ctl'.up = ctl.up /\ ctl'.held = ctl.held
      /\ ctl'.torn = ctl.torn /\ ctl'.asked = ctl.asked /\ ctl'.failed = ctl.failed /\ ~ host.closed
  BY <1>0, TakenFields
<1>3. \A l : Met(ctl, l) <=> Met(ctl', l)
  BY <1>0, TakenPlain
<1>4. Met(ctl, h) /\ h \in Links
  BY <1>1, HostsIsMet
<1>5. /\ host.credits + links[h].inFlight <= AclBuffers /\ links[h].inFlight \in Nat /\ host.credits \in Nat
  BY <1>1, <1>4, BleParts, BleTyped DEF CreditsInv
<1>6. /\ host' = [host EXCEPT !.link = NoLink, !.credits = @ + links[h].inFlight]
      /\ links' = [links EXCEPT ![h].inFlight = 0] /\ reader' = <<"lost", h>>
  BY <1>1 DEF disconnComplete, freed
<1>7. /\ host'.link = NoLink /\ host'.credits = host.credits + links[h].inFlight /\ host'.closed = host.closed
      /\ DOMAIN host' = DOMAIN host /\ host'.newLinks = host.newLinks
  BY <1>6, BleFields
<1>8. /\ DOMAIN links' = Links /\ links'[h].tx = links[h].tx
      /\ links'[h].gone = links[h].gone /\ links'[h].sub = links[h].sub /\ links'[h].accepted = links[h].accepted
      /\ \A l \in Links : l # h => links'[l] = links[l]
  BY <1>4, <1>6, BleTyped
<1>9. \A l \in Links : links'[l].tx = links[l].tx /\ links'[l].gone = links[l].gone /\ links'[l].accepted = links[l].accepted
  BY <1>8
<1>10. BleTypeOK'
  <2>0. host.credits + links[h].inFlight \in Nat /\ NoLink \in Nat
    BY ONLY <1>5 DEF NoLink
  <2>1. host' \in [link : Nat, credits : Nat, closed : BOOLEAN, newLinks : {<<>>} \union {<<l>> : l \in Links}]
    BY <1>6, <2>0, BleParts DEF BleTypeOK
  <2>2. links' \in [Links -> LinkType]
    <3>1. links \in [Links -> LinkType]
      BY BleParts DEF BleTypeOK
    <3>2. [links[h] EXCEPT !.inFlight = 0] \in LinkType
      BY <1>4, <1>5, <3>1 DEF LinkType
    <3>3. links' = [links EXCEPT ![h] = [links[h] EXCEPT !.inFlight = 0]]
      BY <1>0, <1>1, <1>4, <1>6, <3>1
    <3> QED BY ONLY <1>4, <3>1, <3>2, <3>3
  <2> QED BY <1>0, <1>2, <1>4, <1>6, <2>1, <2>2, BleParts, WokenFacts DEF BleTypeOK
<1>11. QueueInv'
  BY <1>1, <1>2, <1>7 DEF QueueInv
<1>12. LinksInv'
  <2>1. \A l \in Links : ~ Met(ctl', l) => links'[l] = NewLink
    BY <1>3, <1>4, <1>8, BleParts DEF LinksInv
  <2>2. \A s \in Senders : snd'[s].at # "idle" => Met(ctl', snd'[s].l)
    BY <1>0, <1>3, BleParts, WokenFacts DEF LinksInv
  <2>3. \A i \in DOMAIN host'.newLinks : Met(ctl', host'.newLinks[i]) /\ ~ links'[host'.newLinks[i]].accepted
    BY <1>3, <1>7, <1>9, NewLinksStay
  <2>4. \A l \in Links : links'[l].gone \/ reader' = <<"lost", l>> => Met(ctl', l) /\ ctl'.conn # l
    <3>1. \A l \in Links : links[l].gone => Met(ctl, l) /\ ctl.conn # l
      BY BleParts DEF LinksInv
    <3>2. \A l \in Links : reader' = <<"lost", l>> => l = h
      BY <1>6
    <3> HIDE DEF h
    <3> QED BY <1>1, <1>2, <1>3, <1>4, <1>9, <3>1, <3>2
  <2>5. reader' # <<"done">>
    BY <1>6
  <2> QED BY <1>0, <1>2, <1>3, <1>7, <2>1, <2>2, <2>3, <2>4, <2>5, BleParts DEF LinksInv
<1>13. HoldersStay /\ NobodyOversleeps'
  BY <1>0, <1>9, WokenKeeps
<1>14. TxInv' /\ PieceInv'
  BY <1>2, <1>13, HoldersStaying
<1>15. CreditsInv'
  <2>1. host'.credits <= AclBuffers
    BY <1>5, <1>7
  <2>2. ~ (ctl'.held > 0)
    BY <1>1, <1>2, BleParts DEF CreditsInv
  <2> QED BY <1>7, <2>1, <2>2 DEF CreditsInv
<1>16. AcceptInv'
  BY <1>0, <1>7, AcceptAfterTaking
<1> QED BY <1>10, <1>11, <1>12, <1>13, <1>14, <1>15, <1>16 DEF BleIInv

\* readLoop ends on an error: the host is closed, its link lost.
LEMMA readFailsKeeps ==
  ASSUME BleIInv, readFails
  PROVE  BleIInv'
<1> DEFINE h == host.link
<1>0. /\ ctl.events # <<>> /\ Taken /\ Head(ctl.events)[1] = "error" /\ UNCHANGED <<links, acc>> /\ snd' = Woken(snd)
      /\ host' = [host EXCEPT !.closed = TRUE] /\ reader' = IF h = NoLink THEN <<"done">> ELSE <<"lost", h>>
  BY DEF readFails, NextEvent
<1>1. QueueOK(ctl.events, h, ctl.made, ctl.conn, ctl.up) /\ ctl.events \in Seq(Events)
  BY BleParts, BleFields
<1>2. /\ DOMAIN ctl' = DOMAIN ctl /\ ctl'.events = Tail(ctl.events) /\ ctl'.conn = ctl.conn /\ ctl'.made = ctl.made
      /\ ctl'.adv = ctl.adv /\ ctl'.last = ctl.last /\ ctl'.up = ctl.up /\ ctl'.held = ctl.held
      /\ ctl'.torn = ctl.torn /\ ctl'.asked = ctl.asked /\ ctl'.failed = ctl.failed
  BY <1>0, TakenFields
<1>3. ctl'.events = <<>> /\ ~ ctl.up /\ ctl.conn = NoLink
  <2>1. 1 \in DOMAIN ctl.events /\ ctl.events[1][1] = "error"
    BY <1>0, <1>1, HeadFacts
  <2>2. 1 = Len(ctl.events) /\ ~ ctl.up /\ ctl.conn = NoLink
    BY <1>1, <2>1 DEF QueueOK
  <2>3. Tail(ctl.events) \in Seq(Events) /\ Len(Tail(ctl.events)) \in Nat /\ Len(ctl.events) = Len(Tail(ctl.events)) + 1
    BY <1>0, <1>1, TakenOff
  <2>4. Len(Tail(ctl.events)) = 0
    BY ONLY <2>2, <2>3
  <2> QED BY <1>2, <2>2, <2>3, <2>4, EmptySeq
<1>4. /\ \A l : Met(ctl, l) <=> Met(ctl', l)
      /\ Completed(ctl.events) = Completed(ctl'.events) /\ Completed(ctl'.events) \in Nat
  BY <1>0, TakenPlain
<1>5. h # NoLink => Met(ctl, h) /\ h \in Links
  BY HostsIsMet
<1>7. /\ host'.link = h /\ host'.credits = host.credits /\ host'.closed = TRUE /\ DOMAIN host' = DOMAIN host
      /\ host'.newLinks = host.newLinks
  BY <1>0, BleFields
<1>10. BleTypeOK'
  <2>1. host' \in [link : Nat, credits : Nat, closed : BOOLEAN, newLinks : {<<>>} \union {<<l>> : l \in Links}]
    BY <1>0, BleParts DEF BleTypeOK
  <2>2. reader' \in {<<>>, <<"broadcast">>, <<"done">>} \union {<<"lost", l>> : l \in Links}
    BY <1>0, <1>5
  <2> QED BY <1>0, <1>2, <2>1, <2>2, BleParts, WokenFacts DEF BleTypeOK
<1>11. QueueInv'
  <2>1. Head(ctl.events)[1] \notin {"connected", "disconnected"}
    BY <1>0
  <2>2. QueueOK(Tail(ctl.events), h, ctl.made, ctl.conn, ctl.up)
    BY ONLY <1>0, <1>1, <2>1, PlainTaken
  <2> QED BY <1>2, <1>7, <2>2 DEF QueueInv
<1>12. LinksInv'
  <2>1. \A l \in Links : reader' = <<"lost", l>> => h = l /\ h # NoLink
    BY <1>0
  <2>2. \A s \in Senders : snd'[s].at # "idle" => Met(ctl', snd'[s].l)
    BY <1>0, <1>4, BleParts, WokenFacts DEF LinksInv
  <2>3. \A l \in Links : links'[l].gone \/ reader' = <<"lost", l>> => Met(ctl', l) /\ ctl'.conn # l
    BY <1>0, <1>2, <1>3, <1>4, <1>5, <2>1, BleParts DEF LinksInv
  <2> QED BY <1>0, <1>2, <1>3, <1>4, <1>7, <2>2, <2>3, BleParts DEF LinksInv
<1>13. HoldersStay /\ NobodyOversleeps'
  BY <1>0, WokenKeeps
<1>14. TxInv' /\ PieceInv' /\ \A l \in Links : Writing(links', snd', l) = Writing(links, snd, l)
  BY <1>2, <1>13, HoldersStaying
<1>15. CreditsInv'
  BY <1>0, <1>2, <1>4, <1>5, <1>7, <1>14, BleParts DEF CreditsInv
<1>16. AcceptInv'
  BY <1>0, <1>7, AcceptAfterTaking
<1> QED BY <1>10, <1>11, <1>12, <1>13, <1>14, <1>15, <1>16 DEF BleIInv

\* setGone: the link that was unset is marked gone, after it was unset.
LEMMA lostKeeps ==
  ASSUME BleIInv, lost
  PROVE  BleIInv'
<1>0. PICK l0 \in Links : reader = <<"lost", l0>>
  <2>1. reader # <<>> /\ reader[1] = "lost"
    BY DEF lost
  <2>2. reader \in {<<>>, <<"broadcast">>, <<"done">>} \union {<<"lost", l>> : l \in Links}
    BY BleTyped
  <2> QED BY <2>1, <2>2
<1>1. links' = [links EXCEPT ![l0].gone = TRUE] /\ reader' = <<"broadcast">> /\ UNCHANGED <<host, snd, acc, ctl>>
  BY <1>0 DEF lost
<1>2. /\ DOMAIN links' = Links /\ links'[l0].tx = links[l0].tx /\ links'[l0].inFlight = links[l0].inFlight
      /\ links'[l0].sub = links[l0].sub /\ links'[l0].accepted = links[l0].accepted
      /\ \A l \in Links : l # l0 => links'[l] = links[l]
  BY <1>1, BleTyped
<1>3. \A l \in Links : links'[l].tx = links[l].tx /\ links'[l].inFlight = links[l].inFlight /\ links'[l].accepted = links[l].accepted
  BY <1>2
<1>4. Met(ctl, l0) /\ ctl.conn # l0
  BY <1>0, BleParts DEF LinksInv
<1>5. BleTypeOK'
  <2>1. links \in [Links -> LinkType]
    BY BleParts DEF BleTypeOK
  <2>2. [links[l0] EXCEPT !.gone = TRUE] \in LinkType
    BY <2>1 DEF LinkType
  <2>3. links' = [links EXCEPT ![l0] = [links[l0] EXCEPT !.gone = TRUE]]
    BY <1>1, <2>1
  <2>4. links' \in [Links -> LinkType]
    BY ONLY <2>1, <2>2, <2>3
  <2> QED BY <1>1, <2>4, BleParts DEF BleTypeOK
<1>6. QueueInv'
  BY <1>1, BleParts DEF QueueInv
<1>7. LinksInv'
  <2>1. \A l \in Links : ~ Met(ctl, l) => links'[l] = NewLink
    BY <1>2, <1>4, BleParts DEF LinksInv
  <2>2. \A l \in Links : links'[l].gone => Met(ctl, l) /\ ctl.conn # l
    BY <1>2, <1>4, BleParts DEF LinksInv
  <2>3. \A i \in DOMAIN host.newLinks : Met(ctl, host.newLinks[i]) /\ ~ links'[host.newLinks[i]].accepted
    BY <1>3, BleParts, MetIsLink DEF LinksInv
  <2>4. reader' # <<"done">> /\ \A l \in Links : reader' # <<"lost", l>>
    BY <1>1
  <2>5. /\ \A s \in Senders : snd[s].at # "idle" => Met(ctl, snd[s].l)
        /\ acc.at \in {"closes stale", "serving"} => Met(ctl, acc.l)
        /\ host.closed => ~ ctl.up /\ ctl.events = <<>>
        /\ ctl.adv => ctl.up /\ ctl.conn = NoLink
    BY BleParts DEF LinksInv
  <2> QED BY <1>1, <2>1, <2>2, <2>3, <2>4, <2>5 DEF LinksInv
<1>8. HoldersStay
  BY <1>1, <1>3, FirstPiece DEF HoldersStay
<1>9. TxInv' /\ PieceInv' /\ \A l \in Links : Writing(links', snd', l) = Writing(links, snd, l)
  BY <1>1, <1>8, HoldersStaying
<1>10. CreditsInv'
  <2>1. host.link # NoLink => host.link \in Links
    BY HostsIsMet
  <2> QED BY <1>1, <1>3, <1>9, <2>1, BleParts DEF CreditsInv
<1>11. NobodyOversleeps'
  BY <1>1 DEF NobodyOversleeps
<1>12. AcceptInv'
  BY <1>1, BleParts DEF AcceptInv
<1> QED BY <1>5, <1>6, <1>7, <1>9, <1>10, <1>11, <1>12 DEF BleIInv

\* A step that leaves the host, the links and the controller as they are, and
\* takes and leaves no txMu.
QuietMove ==
  /\ UNCHANGED <<host, links, acc, ctl>> /\ HoldersStay
  /\ snd' \in [Senders -> [at : SenderStages, l : Nat, off : 0..Last2, sent : Nat]]
  /\ \A s \in Senders : snd'[s].at # "idle" => Met(ctl, snd'[s].l)
  /\ reader' \in {<<>>, <<"broadcast">>, <<"done">>, reader} /\ (reader' = <<"done">> => host.closed)

\* A step that touches no credit, no lock and no event keeps the invariant if nobody oversleeps.
LEMMA QuietSteps ==
  ASSUME BleIInv, QuietMove, NobodyOversleeps'
  PROVE  BleIInv'
<1> USE DEF QuietMove
<1>1. BleTypeOK'
  <2>1. reader' \in {<<>>, <<"broadcast">>, <<"done">>} \union {<<"lost", l>> : l \in Links}
    BY BleTyped
  <2> QED BY <2>1, BleParts DEF BleTypeOK
<1>2. QueueInv'
  BY BleParts DEF QueueInv
<1>3. LinksInv'
  <2>1. \A l \in Links : reader' = <<"lost", l>> => reader = <<"lost", l>>
    OBVIOUS
  <2> QED BY <2>1, BleParts DEF LinksInv
<1>4. TxInv' /\ PieceInv' /\ \A l \in Links : Writing(links', snd', l) = Writing(links, snd, l)
  BY HoldersStaying
<1>5. CreditsInv'
  <2>1. host.link # NoLink => host.link \in Links
    BY HostsIsMet
  <2> QED BY <1>4, <2>1, BleParts DEF CreditsInv
<1>6. AcceptInv'
  BY BleParts DEF AcceptInv
<1> QED BY <1>1, <1>2, <1>3, <1>4, <1>5, <1>6 DEF BleIInv

\* The broadcast that wakes the senders.
LEMMA broadcastKeeps ==
  ASSUME BleIInv, broadcast
  PROVE  BleIInv'
<1>1. snd' = Woken(snd) /\ reader' = (IF host.closed THEN <<"done">> ELSE <<>>) /\ UNCHANGED <<host, links, acc, ctl>>
  BY DEF broadcast
<1>2. HoldersStay /\ NobodyOversleeps'
  BY <1>1, WokenKeeps
<1>3. \A s \in Senders : snd'[s].at # "idle" => Met(ctl, snd'[s].l)
  BY <1>1, BleParts, WokenFacts DEF LinksInv
<1>4. <<>> # <<"done">>
  OBVIOUS
<1>5. QuietMove
  BY <1>1, <1>2, <1>3, <1>4, WokenFacts DEF QuietMove
<1> QED BY <1>2, <1>5, QuietSteps

\* A sender begins.
LEMMA SendFragmentKeeps ==
  ASSUME BleIInv, SendFragment
  PROVE  BleIInv'
<1> DEFINE r == [at |-> "sub", l |-> acc.l, off |-> 0, sent |-> snd["notify"].sent + 1]
<1>1. /\ acc.at = "serving" /\ snd["notify"].at = "idle" /\ UNCHANGED <<host, links, reader, acc, ctl>>
      /\ snd' = [snd EXCEPT !["notify"] = [at |-> "sub", l |-> acc.l, off |-> 0, sent |-> @.sent + 1]]
  BY DEF SendFragment
<1>2. "notify" \in Senders /\ snd \in [Senders -> [at : SenderStages, l : Nat, off : 0..Last2, sent : Nat]]
  BY BleParts DEF Senders, BleTypeOK
<1>3. Met(ctl, acc.l)
  BY <1>1, BleParts DEF LinksInv
<1>4. r \in [at : SenderStages, l : Nat, off : 0..Last2, sent : Nat]
  <2>1. snd["notify"].sent \in Nat /\ acc.l \in Nat
    BY <1>2, BleParts
  <2>2. snd["notify"].sent + 1 \in Nat /\ 0 \in 0..Last2
    BY ONLY <2>1 DEF Last2
  <2> QED BY <2>1, <2>2 DEF SenderStages
<1>5. snd'["notify"] = r /\ (\A s \in Senders : s # "notify" => snd'[s] = snd[s]) /\ snd' = [snd EXCEPT !["notify"] = r]
  BY <1>1, <1>2
<1>6. snd' \in [Senders -> [at : SenderStages, l : Nat, off : 0..Last2, sent : Nat]]
  BY ONLY <1>2, <1>4, <1>5
<1>7. snd'["notify"].at = "sub" /\ snd'["notify"].l = acc.l /\ snd'["notify"].off = 0
  BY <1>5
<1>8. HoldersStay
  BY <1>1, <1>5, <1>7, FirstPiece DEF HoldersStay, Holding
<1>9. \A s \in Senders : snd'[s].at # "idle" => Met(ctl, snd'[s].l)
  BY <1>3, <1>5, <1>7, BleParts DEF LinksInv
<1>10. NobodyOversleeps'
  <2>1. \A s \in Senders : snd'[s] = snd[s] \/ snd'[s].at = "sub"
    BY <1>5, <1>7
  <2>2. NobodyOversleeps /\ host' = host /\ links' = links /\ reader' = reader
    BY <1>1, BleParts
  <2> QED BY ONLY <2>1, <2>2 DEF NobodyOversleeps, LinkOver
<1>11. QuietMove
  <2>1. reader' = <<"done">> => host.closed
    BY <1>1, BleParts DEF LinksInv
  <2> QED BY <1>1, <1>6, <1>8, <1>9, <2>1 DEF QuietMove
<1> QED BY <1>10, <1>11, QuietSteps

\* A sender waits for the subscription, or finds it there.
LEMMA awaitSubKeeps ==
  ASSUME BleIInv, NEW s \in Senders, awaitSub(s)
  PROVE  BleIInv'
<1> DEFINE l == snd[s].l
<1>0. /\ snd[s].at = "sub" /\ UNCHANGED <<host, links, reader, acc, ctl>>
      /\ snd \in [Senders -> [at : SenderStages, l : Nat, off : 0..Last2, sent : Nat]]
  BY BleParts DEF awaitSub, BleTypeOK
<1>1. Met(ctl, l)
  BY <1>0, BleParts DEF LinksInv
<1>2. PICK r \in [at : SenderStages, l : Nat, off : 0..Last2, sent : Nat] :
        /\ snd' = [snd EXCEPT ![s] = r] /\ r.at \in {"idle", "lock", "asleep for sub"} /\ (r.at # "idle" => r.l = l) /\ r.off = 0
        /\ r.at = "asleep for sub" => ~ LinkOver(l) /\ ~ links[l].sub
  <2>0. /\ \/ LinkOver(l) /\ Returns(s)
           \/ ~ LinkOver(l) /\ links[l].sub /\ At(s, "lock")
           \/ ~ LinkOver(l) /\ ~ links[l].sub /\ At(s, "asleep for sub")
    BY DEF awaitSub
  <2>1. CASE LinkOver(l) /\ Returns(s)
    <3>1. [IdleSender EXCEPT !.sent = snd[s].sent] \in [at : SenderStages, l : Nat, off : 0..Last2, sent : Nat]
      <4>1. 0 \in 0..Last2
        BY DEF Last2
      <4> QED BY <1>0, <4>1 DEF IdleSender, SenderStages, NoLink
    <3>2. [IdleSender EXCEPT !.sent = snd[s].sent].at = "idle" /\ [IdleSender EXCEPT !.sent = snd[s].sent].off = 0
      BY DEF IdleSender
    <3> QED BY <2>1, <3>1, <3>2 DEF Returns
  <2>a. snd[s].off = 0
    BY <1>0, FirstPiece DEF Holding
  <2>2. ASSUME NEW a \in {"lock", "asleep for sub"}, At(s, a)
        PROVE  /\ [snd[s] EXCEPT !.at = a] \in [at : SenderStages, l : Nat, off : 0..Last2, sent : Nat]
               /\ [snd[s] EXCEPT !.at = a].at = a /\ [snd[s] EXCEPT !.at = a].l = l /\ [snd[s] EXCEPT !.at = a].off = 0
               /\ snd' = [snd EXCEPT ![s] = [snd[s] EXCEPT !.at = a]]
    BY <1>0, <2>2, <2>a DEF At, SenderStages
  <2>3. CASE ~ LinkOver(l) /\ links[l].sub /\ At(s, "lock")
    BY <2>2, <2>3
  <2>4. CASE ~ LinkOver(l) /\ ~ links[l].sub /\ At(s, "asleep for sub")
    BY <2>2, <2>4
  <2> QED BY <2>0, <2>1, <2>3, <2>4
<1>3. snd' \in [Senders -> [at : SenderStages, l : Nat, off : 0..Last2, sent : Nat]]
  BY ONLY <1>0, <1>2
<1>4. snd'[s] = r /\ \A x \in Senders : x # s => snd'[x] = snd[x]
  BY <1>0, <1>2
<1>5. HoldersStay
  BY <1>0, <1>2, <1>4, FirstPiece DEF HoldersStay, Holding
<1>6. \A x \in Senders : snd'[x].at # "idle" => Met(ctl, snd'[x].l)
  BY <1>1, <1>2, <1>4, BleParts DEF LinksInv
<1>7. NobodyOversleeps'
  BY <1>0, <1>2, <1>4, BleParts DEF NobodyOversleeps, LinkOver
<1>8. QuietMove
  <2>1. reader' = <<"done">> => host.closed
    BY <1>0, BleParts DEF LinksInv
  <2> QED BY <1>0, <1>3, <1>5, <1>6, <2>1 DEF QuietMove
<1> QED BY <1>7, <1>8, QuietSteps

\* The central subscribed, or no longer is.
LEMMA subscribeKeeps ==
  ASSUME BleIInv, subscribe
  PROVE  BleIInv'
<1> DEFINE h == host.link
<1>0. /\ ctl.events # <<>> /\ Taken /\ Head(ctl.events)[1] = "subscribes" /\ UNCHANGED <<host, snd, acc>>
  BY DEF subscribe, NextEvent
<1>1. /\ Its = h /\ h # NoLink /\ QueueOK(ctl.events, h, ctl.made, ctl.conn, ctl.up)
  BY <1>0, BleParts, HeadIsHosts DEF Its, OfLink, LinkKinds
<1>2. /\ DOMAIN ctl' = DOMAIN ctl /\ ctl'.events = Tail(ctl.events) /\ ctl'.conn = ctl.conn /\ ctl'.made = ctl.made
      /\ ctl'.adv = ctl.adv /\ ctl'.last = ctl.last /\ ctl'.up = ctl.up /\ ctl'.held = ctl.held
      /\ ctl'.torn = ctl.torn /\ ctl'.asked = ctl.asked /\ ctl'.failed = ctl.failed /\ ~ host.closed
  BY <1>0, TakenFields
<1>3. /\ \A l : Met(ctl, l) <=> Met(ctl', l)
      /\ Completed(ctl.events) = Completed(ctl'.events)
  BY <1>0, TakenPlain
<1>4. Met(ctl, h) /\ h \in Links
  BY <1>1, HostsIsMet
<1>5. PICK on \in BOOLEAN : links' = [links EXCEPT ![h].sub = on] /\ reader' = <<"broadcast">>
  BY <1>1 DEF subscribe, Subscriptions
<1>6. /\ DOMAIN links' = Links /\ links'[h].inFlight = links[h].inFlight /\ links'[h].tx = links[h].tx
      /\ links'[h].gone = links[h].gone /\ links'[h].accepted = links[h].accepted
      /\ \A l \in Links : l # h => links'[l] = links[l]
  BY <1>4, <1>5, BleTyped
<1>7. \A l \in Links : /\ links'[l].tx = links[l].tx /\ links'[l].gone = links[l].gone
                       /\ links'[l].accepted = links[l].accepted /\ links'[l].inFlight = links[l].inFlight
  BY <1>6
<1>8. BleTypeOK'
  <2>1. links \in [Links -> LinkType]
    BY BleParts DEF BleTypeOK
  <2>2. [links[h] EXCEPT !.sub = on] \in LinkType
    BY <1>4, <2>1 DEF LinkType
  <2>3. links' = [links EXCEPT ![h] = [links[h] EXCEPT !.sub = on]]
    BY <1>4, <1>5, <2>1
  <2>4. links' \in [Links -> LinkType]
    BY ONLY <1>4, <2>1, <2>2, <2>3
  <2> QED BY <1>0, <1>2, <1>5, <2>4, BleParts DEF BleTypeOK
<1>9. QueueInv'
  <2>1. Head(ctl.events)[1] \notin {"connected", "disconnected"}
    BY <1>0
  <2>2. QueueOK(Tail(ctl.events), h, ctl.made, ctl.conn, ctl.up)
    BY ONLY <1>0, <1>1, <2>1, PlainTaken
  <2> QED BY <1>0, <1>2, <2>2 DEF QueueInv
<1>10. LinksInv'
  <2>1. \A l \in Links : ~ Met(ctl', l) => links'[l] = NewLink
    BY <1>3, <1>4, <1>6, BleParts DEF LinksInv
  <2>2. \A s \in Senders : snd'[s].at # "idle" => Met(ctl', snd'[s].l)
    BY <1>0, <1>3, BleParts DEF LinksInv
  <2>3. \A i \in DOMAIN host'.newLinks : Met(ctl', host'.newLinks[i]) /\ ~ links'[host'.newLinks[i]].accepted
    BY <1>0, <1>3, <1>7, BleParts, MetIsLink DEF LinksInv
  <2>4. \A l \in Links : links'[l].gone \/ reader' = <<"lost", l>> => Met(ctl', l) /\ ctl'.conn # l
    <3>1. \A l \in Links : links[l].gone => Met(ctl, l) /\ ctl.conn # l
      BY BleParts DEF LinksInv
    <3>2. \A l \in Links : reader' # <<"lost", l>>
      BY <1>5
    <3> QED BY <1>2, <1>3, <1>7, <3>1, <3>2
  <2>5. /\ acc'.at \in {"closes stale", "serving"} => Met(ctl', acc'.l)
        /\ reader' # <<"done">> /\ ~ host'.closed /\ (ctl'.adv => ctl'.up /\ ctl'.conn = NoLink)
    BY <1>0, <1>2, <1>3, <1>5, BleParts DEF LinksInv
  <2> QED BY <2>1, <2>2, <2>3, <2>4, <2>5 DEF LinksInv
<1>11. HoldersStay
  BY <1>0, <1>7, FirstPiece DEF HoldersStay
<1>12. TxInv' /\ PieceInv' /\ Writing(links', snd', h) = Writing(links, snd, h)
  BY <1>2, <1>4, <1>11, HoldersStaying
<1>13. CreditsInv'
  BY <1>0, <1>2, <1>3, <1>4, <1>7, <1>12, BleParts DEF CreditsInv
<1>14. NobodyOversleeps'
  BY <1>5 DEF NobodyOversleeps
<1>15. AcceptInv'
  BY <1>0, AcceptAfterTaking
<1> QED BY <1>8, <1>9, <1>10, <1>12, <1>13, <1>14, <1>15 DEF BleIInv

\* A request of the central is answered, if its link is the host's.
LEMMA attRequestKeeps ==
  ASSUME BleIInv, attRequest
  PROVE  BleIInv'
<1> DEFINE h == host.link
<1>0. /\ ctl.events # <<>> /\ Taken /\ Head(ctl.events)[1] = "asks" /\ UNCHANGED <<host, links, reader, acc>>
      /\ snd \in [Senders -> [at : SenderStages, l : Nat, off : 0..Last2, sent : Nat]] /\ "answer" \in Senders
  BY BleParts DEF attRequest, NextEvent, BleTypeOK, Senders
<1>1. /\ Its = h /\ h # NoLink /\ QueueOK(ctl.events, h, ctl.made, ctl.conn, ctl.up)
  BY <1>0, BleParts, HeadIsHosts DEF Its, OfLink, LinkKinds
<1>2. /\ DOMAIN ctl' = DOMAIN ctl /\ ctl'.events = Tail(ctl.events) /\ ctl'.conn = ctl.conn /\ ctl'.made = ctl.made
      /\ ctl'.adv = ctl.adv /\ ctl'.last = ctl.last /\ ctl'.up = ctl.up /\ ctl'.held = ctl.held
      /\ ctl'.torn = ctl.torn /\ ctl'.asked = ctl.asked /\ ctl'.failed = ctl.failed /\ ~ host.closed
  BY <1>0, TakenFields
<1>3. /\ \A l : Met(ctl, l) <=> Met(ctl', l)
      /\ Completed(ctl.events) = Completed(ctl'.events)
  BY <1>0, TakenPlain
<1>4. Met(ctl, h) /\ h \in Links
  BY <1>1, HostsIsMet
<1>5. PICK r \in [at : SenderStages, l : Nat, off : 0..Last2, sent : Nat] :
        /\ snd' = [snd EXCEPT !["answer"] = r]
        /\ r = snd["answer"] \/ (snd["answer"].at = "idle" /\ r.at = "lock" /\ r.l = h /\ r.off = 0)
  <2>1. CASE snd["answer"].at = "idle" /\ snd["answer"].sent < MaxSends
    <3> DEFINE r0 == [at |-> "lock", l |-> Its, off |-> 0, sent |-> snd["answer"].sent + 1]
    <3>1. snd' = [snd EXCEPT !["answer"] = r0]
      BY <1>1, <2>1 DEF attRequest
    <3>2. snd["answer"].sent + 1 \in Nat /\ h \in Nat /\ 0 \in 0..Last2
      <4>1. snd["answer"].sent \in Nat /\ h \in Nat
        BY <1>0, BleFields
      <4> QED BY ONLY <4>1 DEF Last2
    <3>3. r0 \in [at : SenderStages, l : Nat, off : 0..Last2, sent : Nat] /\ r0.at = "lock" /\ r0.l = h /\ r0.off = 0
      BY <1>0, <1>1, <3>2 DEF SenderStages
    <3> HIDE DEF r0
    <3> QED BY <2>1, <3>1, <3>3
  <2>2. CASE ~ (snd["answer"].at = "idle" /\ snd["answer"].sent < MaxSends)
    <3>1. snd' = snd
      BY <2>2 DEF attRequest
    <3>2. snd = [snd EXCEPT !["answer"] = snd["answer"]] /\ snd["answer"] \in [at : SenderStages, l : Nat, off : 0..Last2, sent : Nat]
      BY ONLY <1>0
    <3> QED BY <3>1, <3>2
  <2> QED BY <2>1, <2>2
<1>6. snd' \in [Senders -> [at : SenderStages, l : Nat, off : 0..Last2, sent : Nat]]
  BY ONLY <1>0, <1>5
<1>7. snd'["answer"] = r /\ \A x \in Senders : x # "answer" => snd'[x] = snd[x]
  BY <1>0, <1>5
<1>8. BleTypeOK'
  BY <1>0, <1>2, <1>6, BleParts DEF BleTypeOK
<1>9. QueueInv'
  <2>1. Head(ctl.events)[1] \notin {"connected", "disconnected"}
    BY <1>0
  <2>2. QueueOK(Tail(ctl.events), h, ctl.made, ctl.conn, ctl.up)
    BY ONLY <1>0, <1>1, <2>1, PlainTaken
  <2> QED BY <1>0, <1>2, <2>2 DEF QueueInv
<1>10. LinksInv'
  <2>1. \A s \in Senders : snd'[s].at # "idle" => Met(ctl', snd'[s].l)
    <3>1. \A s \in Senders : snd[s].at # "idle" => Met(ctl', snd[s].l)
      BY <1>3, BleParts DEF LinksInv
    <3>2. r.at # "idle" => Met(ctl', r.l)
      BY <1>0, <1>3, <1>4, <1>5, <3>1
    <3> QED BY <1>7, <3>1, <3>2
  <2> QED BY <1>0, <1>2, <1>3, <2>1, BleParts DEF LinksInv
<1>11. HoldersStay
  BY <1>0, <1>5, <1>7, FirstPiece DEF HoldersStay, Holding
<1>12. TxInv' /\ PieceInv' /\ Writing(links', snd', h) = Writing(links, snd, h)
  BY <1>2, <1>4, <1>11, HoldersStaying
<1>13. CreditsInv'
  BY <1>0, <1>2, <1>3, <1>4, <1>12, BleParts DEF CreditsInv
<1>14. NobodyOversleeps'
  <2>1. \A s \in Senders : snd'[s] = snd[s] \/ snd'[s].at = "lock"
    BY <1>5, <1>7
  <2> QED BY <1>0, <2>1, BleParts DEF NobodyOversleeps, LinkOver
<1>15. AcceptInv'
  BY <1>0, AcceptAfterTaking
<1> QED BY <1>8, <1>9, <1>10, <1>12, <1>13, <1>14, <1>15 DEF BleIInv

\* A command's answer is taken by who waits for it.
LEMMA answeredKeeps ==
  ASSUME BleIInv, answered
  PROVE  BleIInv'
<1> DEFINE h == host.link
<1>0. /\ ctl.events # <<>> /\ Taken /\ Head(ctl.events)[1] = "answer" /\ UNCHANGED <<host, links, reader, snd>>
      /\ acc' = IF acc.at \notin DOMAIN Then \/ Its # ctl.asked THEN acc ELSE [at |-> Then[acc.at], l |-> NoLink]
  BY DEF answered, NextEvent
<1>1. QueueOK(ctl.events, h, ctl.made, ctl.conn, ctl.up) /\ ctl.events \in Seq(Events)
  BY BleParts, BleFields
<1>2. /\ DOMAIN ctl' = DOMAIN ctl /\ ctl'.events = Tail(ctl.events) /\ ctl'.conn = ctl.conn /\ ctl'.made = ctl.made
      /\ ctl'.adv = ctl.adv /\ ctl'.last = ctl.last /\ ctl'.up = ctl.up /\ ctl'.held = ctl.held
      /\ ctl'.torn = ctl.torn /\ ctl'.asked = ctl.asked /\ ctl'.failed = ctl.failed /\ ~ host.closed
  BY <1>0, TakenFields
<1>3. /\ \A l : Met(ctl, l) <=> Met(ctl', l)
      /\ \A l : Told(ctl'.events, "connected", l) <=> Told(ctl.events, "connected", l)
      /\ Completed(ctl.events) = Completed(ctl'.events) /\ Completed(ctl'.events) \in Nat
  BY <1>0, TakenPlain
<1>4. \/ acc' = acc
      \/ acc.at = "starting" /\ acc' = [at |-> "select", l |-> NoLink]
      \/ acc.at = "stopping" /\ acc' = [at |-> "idle", l |-> NoLink] /\ Its = ctl.asked
  BY <1>0 DEF Then
<1>5. acc' \in [at : AcceptStages, l : Nat]
  <2>1. \A a \in {"select", "idle"} : [at |-> a, l |-> NoLink] \in [at : AcceptStages, l : Nat]
    BY DEF AcceptStages, NoLink
  <2> QED BY <1>4, <2>1, BleParts
<1>6. acc'.at \in {"closes stale", "serving"} => Met(ctl', acc'.l)
  <2>1. acc' # acc => acc'.at \in {"select", "idle"}
    BY <1>4
  <2> QED BY <1>3, <2>1, BleParts DEF LinksInv
<1>7. QueueOK(ctl'.events, h, ctl'.made, ctl'.conn, ctl'.up)
  <2>1. Head(ctl.events)[1] \notin {"connected", "disconnected"}
    BY <1>0
  <2>2. QueueOK(Tail(ctl.events), h, ctl.made, ctl.conn, ctl.up)
    BY ONLY <1>0, <1>1, <2>1, PlainTaken
  <2> QED BY <1>2, <2>2
<1>8. ControllerMove
  <2>1. ctl.held \in Nat
    BY BleFields
  <2>2. Completed(ctl'.events) + ctl'.held <= Completed(ctl.events) + ctl.held
    BY ONLY <1>2, <1>3, <2>1
  <2>3. ctl'.up \in BOOLEAN /\ ctl'.adv \in BOOLEAN /\ ctl'.failed \in BOOLEAN /\ ctl'.asked \in Nat
    BY <1>2, BleParts
  <2>4. ctl'.made \in 0..MaxLinks /\ ctl'.held \in Nat
    BY <1>2, BleParts
  <2>5. ctl'.adv => ctl'.up /\ ctl'.conn = NoLink
    BY <1>2, BleParts DEF LinksInv
  <2> QED BY <1>0, <1>2, <1>3, <1>5, <1>6, <1>7, <2>2, <2>3, <2>4, <2>5 DEF ControllerMove
<1>9. CASE acc' = acc
  <2>1. AcceptInv'
    BY <1>0, <1>9, AcceptAfterTaking
  <2> QED BY <1>8, <2>1, ControllerSteps
<1>10. CASE acc.at = "starting" /\ acc' = [at |-> "select", l |-> NoLink]
  <2>1. NoneComes(ctl) => NoneComes(ctl')
    BY <1>2, <1>3 DEF NoneComes
  <2>2. AcceptInv'
    BY <1>0, <1>2, <1>3, <1>10, <2>1, BleParts DEF AcceptInv
  <2> QED BY <1>8, <2>2, ControllerSteps
<1>11. CASE acc.at = "stopping" /\ acc' = [at |-> "idle", l |-> NoLink] /\ Its = ctl.asked
  <2>1. AcceptInv'
    <3>0. SUFFICES ASSUME ~ ctl.failed
                   PROVE  AcceptInv'
      BY <1>2 DEF AcceptInv
    <3>1. 1 \in DOMAIN ctl.events /\ ctl.events[1] = <<"answer", ctl.asked>> /\ DOMAIN ctl.events = 1..Len(ctl.events) /\ Len(ctl.events) \in Nat
      BY <1>0, <1>1, <1>11, HeadFacts, TakenOff DEF Its
    <3>2. \A i \in DOMAIN ctl.events : ctl.events[i][1] = "connected" => i < 1
      BY <1>11, <3>0, <3>1, BleParts DEF AcceptInv
    <3>3. \A i \in DOMAIN ctl.events : ctl.events[i][1] # "connected"
      BY ONLY <3>1, <3>2
    <3>4. \A l : ~ Told(ctl.events, "connected", l)
      BY <3>3 DEF Told
    <3>5. ~ ctl'.adv
      BY <1>2, <1>11, <3>0, BleParts DEF AcceptInv
    <3>6. NoneComes(ctl')
      BY <1>3, <3>4, <3>5 DEF NoneComes
    <3> QED BY <1>11, <3>6 DEF AcceptInv
  <2> QED BY <1>8, <2>1, ControllerSteps
<1> QED BY <1>4, <1>9, <1>10, <1>11

-----------------------------------------------------------------------------
(* The senders' steps that take a txMu or a credit, write, or leave. *)

\* Sender s, on its link, goes on as r; the credits may have become fewer.
SenderMove(s, r) ==
  LET l == snd[s].l IN
  /\ snd[s].at # "idle" /\ (r.at # "idle" => r.l = l) /\ r.at \notin {"asleep for sub", "asleep for credit"}
  /\ r \in [at : SenderStages, l : Nat, off : 0..Last2, sent : Nat]
  /\ snd' = [snd EXCEPT ![s] = r] /\ UNCHANGED <<acc, reader>>
  /\ \A k \in Links : links'[k].tx = (IF k = l THEN IF r.at \in Holding THEN s ELSE "free" ELSE links[k].tx)
  /\ links' \in [Links -> LinkType] /\ \A k \in Links : k # l => links'[k] = links[k]
  /\ \A k \in Links : /\ links'[k].gone = links[k].gone /\ links'[k].accepted = links[k].accepted /\ links'[k].sub = links[k].sub
  /\ links[l].tx \in {"free", s} /\ (r.at \notin Holding => r.off = 0)
  /\ host'.link = host.link /\ host'.closed = host.closed /\ host'.newLinks = host.newLinks
  /\ host' \in [link : Nat, credits : Nat, closed : BOOLEAN, newLinks : {<<>>} \union {<<k>> : k \in Links}]
  /\ host'.credits # 0 => host.credits # 0
  /\ DOMAIN ctl' = DOMAIN ctl /\ ctl'.events = ctl.events /\ ctl'.conn = ctl.conn /\ ctl'.made = ctl.made
  /\ ctl'.adv = ctl.adv /\ ctl'.up = ctl.up /\ ctl'.asked = ctl.asked /\ ctl'.failed = ctl.failed
  /\ ctl'.held \in Nat /\ ctl'.torn \in BOOLEAN

\* A sender's step that touches its own link keeps the invariant if credits and pieces are kept.
LEMMA SenderSteps ==
  ASSUME BleIInv, NEW s \in Senders, NEW r, SenderMove(s, r), CreditsInv', PieceInv'
  PROVE  BleIInv'
<1> DEFINE l == snd[s].l
<1>a. /\ snd[s].at # "idle" /\ (r.at # "idle" => r.l = l) /\ r.at \notin {"asleep for sub", "asleep for credit"}
      /\ links[l].tx \in {"free", s} /\ (r.at \notin Holding => r.off = 0)
  BY DEF SenderMove
<1>b. r \in [at : SenderStages, l : Nat, off : 0..Last2, sent : Nat] /\ snd' = [snd EXCEPT ![s] = r] /\ acc' = acc /\ reader' = reader
  BY DEF SenderMove
<1>c. \A k \in Links : links'[k].tx = (IF k = l THEN IF r.at \in Holding THEN s ELSE "free" ELSE links[k].tx)
  BY DEF SenderMove
<1>d. links' \in [Links -> LinkType] /\ \A k \in Links : k # l => links'[k] = links[k]
  BY DEF SenderMove
<1>e. \A k \in Links : links'[k].gone = links[k].gone /\ links'[k].accepted = links[k].accepted /\ links'[k].sub = links[k].sub
  BY DEF SenderMove
<1>f. /\ host'.link = host.link /\ host'.closed = host.closed /\ host'.newLinks = host.newLinks
      /\ host' \in [link : Nat, credits : Nat, closed : BOOLEAN, newLinks : {<<>>} \union {<<k>> : k \in Links}]
      /\ host'.credits # 0 => host.credits # 0
  BY DEF SenderMove
<1>g. /\ DOMAIN ctl' = DOMAIN ctl /\ ctl'.events = ctl.events /\ ctl'.conn = ctl.conn /\ ctl'.made = ctl.made
      /\ ctl'.adv = ctl.adv /\ ctl'.up = ctl.up /\ ctl'.asked = ctl.asked /\ ctl'.failed = ctl.failed
      /\ ctl'.held \in Nat /\ ctl'.torn \in BOOLEAN
  BY DEF SenderMove
<1> HIDE DEF l
<1>0. /\ snd \in [Senders -> [at : SenderStages, l : Nat, off : 0..Last2, sent : Nat]]
      /\ snd' = [snd EXCEPT ![s] = r] /\ r \in [at : SenderStages, l : Nat, off : 0..Last2, sent : Nat]
  BY <1>b, BleParts DEF BleTypeOK
<1>1. snd' \in [Senders -> [at : SenderStages, l : Nat, off : 0..Last2, sent : Nat]]
  BY ONLY <1>0
<1>2. snd'[s] = r /\ \A x \in Senders : x # s => snd'[x] = snd[x]
  BY ONLY <1>0
<1>3. Met(ctl, l) /\ l \in Links
  BY <1>a, BleParts, MetIsLink DEF LinksInv, l
<1>4. BleTypeOK'
  BY <1>1, <1>b, <1>d, <1>f, <1>g, BleParts DEF BleTypeOK
<1>5. QueueInv'
  BY <1>f, <1>g, BleParts DEF QueueInv
<1>6. \A k : Met(ctl', k) <=> Met(ctl, k)
  BY <1>g DEF Met
<1>7. LinksInv'
  <2>1. \A k \in Links : ~ Met(ctl', k) => links'[k] = NewLink
    BY <1>3, <1>6, <1>d, BleParts DEF LinksInv
  <2>2. \A x \in Senders : snd'[x].at # "idle" => Met(ctl', snd'[x].l)
    <3>1. \A x \in Senders : snd[x].at # "idle" => Met(ctl, snd[x].l)
      BY HaveLinks
    <3>2. r.at # "idle" => r.l = l
      BY <1>a
    <3> QED BY ONLY <1>2, <1>3, <1>6, <3>1, <3>2
  <2>3. \A i \in DOMAIN host'.newLinks : Met(ctl', host'.newLinks[i]) /\ ~ links'[host'.newLinks[i]].accepted
    BY <1>6, <1>e, <1>f, NewLinksStay
  <2>4. \A k \in Links : links'[k].gone \/ reader' = <<"lost", k>> => Met(ctl', k) /\ ctl'.conn # k
    BY <1>6, <1>b, <1>e, <1>g, BleParts DEF LinksInv
  <2>5. /\ acc'.at \in {"closes stale", "serving"} => Met(ctl', acc'.l)
        /\ host'.closed => ~ ctl'.up /\ ctl'.events = <<>>
        /\ reader' = <<"done">> => host'.closed
        /\ ctl'.adv => ctl'.up /\ ctl'.conn = NoLink
    BY <1>6, <1>b, <1>f, <1>g, BleParts DEF LinksInv
  <2> QED BY <2>1, <2>2, <2>3, <2>4, <2>5 DEF LinksInv
<1>8. TxInv'
  <2>0. /\ \A k \in Links : links[k].tx # "free" => links[k].tx \in Senders /\ snd[links[k].tx].l = k /\ snd[links[k].tx].at \in Holding
        /\ \A x \in Senders : IF snd[x].at \in Holding THEN links[snd[x].l].tx = x /\ snd[x].l \in Links ELSE snd[x].off = 0
    <3>1. \A x \in Senders : snd[x].at \in Holding => snd[x].at # "idle"
      BY DEF Holding
    <3>2. \A x \in Senders : snd[x].at \in Holding => snd[x].l \in Links
      BY <3>1, BleParts, MetIsLink DEF LinksInv
    <3> QED BY <3>2, BleParts, BleTyped DEF TxInv
  <2>a. s # "free" /\ (r.at \in Holding => r.l = l)
    BY <1>a DEF Senders, Holding
  <2>1. \A k \in Links : links'[k].tx # "free" => snd'[links'[k].tx].l = k /\ snd'[links'[k].tx].at \in Holding
    <3> SUFFICES ASSUME NEW k \in Links, links'[k].tx # "free"
                 PROVE  snd'[links'[k].tx].l = k /\ snd'[links'[k].tx].at \in Holding
      OBVIOUS
    <3>1. CASE k = l
      BY <1>2, <1>c, <2>a, <3>1
    <3>2. CASE k # l
      <4>1. links'[k].tx = links[k].tx
        BY <1>c, <3>2
      <4>2. links[k].tx \in Senders /\ links[k].tx # s
        BY <2>0, <3>2, <4>1 DEF l
      <4> QED BY <1>2, <2>0, <4>1, <4>2
    <3> QED BY <3>1, <3>2
  <2>2. \A x \in Senders : IF snd'[x].at \in Holding THEN links'[snd'[x].l].tx = x ELSE snd'[x].off = 0
    <3> SUFFICES ASSUME NEW x \in Senders
                 PROVE  IF snd'[x].at \in Holding THEN links'[snd'[x].l].tx = x ELSE snd'[x].off = 0
      OBVIOUS
    <3>1. CASE x = s
      BY <1>2, <1>3, <1>a, <1>c, <2>a, <3>1
    <3>2. CASE x # s
      <4>1. snd'[x] = snd[x]
        BY <1>2, <3>2
      <4>2. CASE snd[x].at \in Holding
        <5>1. links[snd[x].l].tx = x /\ snd[x].l \in Links /\ x # "free"
          BY <2>0, <4>2 DEF Senders
        <5>2. snd[x].l # l
          BY <1>a, <3>2, <5>1
        <5> QED BY <1>c, <4>1, <4>2, <5>1, <5>2
      <4>3. CASE snd[x].at \notin Holding
        BY <2>0, <4>1, <4>3
      <4> QED BY <4>2, <4>3
    <3> QED BY <3>1, <3>2
  <2> QED BY <2>1, <2>2 DEF TxInv
<1>9. NobodyOversleeps'
  <2>0. SUFFICES ASSUME NEW x \in Senders, snd'[x].at \in {"asleep for sub", "asleep for credit"}
                 PROVE  LET coming == reader' # <<>> /\ reader'[1] \in {"lost", "broadcast"}
                        IN /\ snd'[x].at = "asleep for sub" => (~ LinkOver(snd[x].l)' /\ ~ links'[snd'[x].l].sub) \/ coming
                           /\ snd'[x].at = "asleep for credit" => (~ LinkOver(snd[x].l)' /\ host'.credits = 0) \/ coming
    BY DEF NobodyOversleeps
  <2>1. snd'[x] = snd[x]
    BY <1>2, <1>a, <2>0
  <2>2. snd[x].l \in Links
    BY <2>0, <2>1, BleParts, MetIsLink DEF LinksInv
  <2>3. host'.closed = host.closed /\ links'[snd[x].l].gone = links[snd[x].l].gone /\ links'[snd[x].l].sub = links[snd[x].l].sub
    BY <1>e, <1>f, <2>2
  <2>4. NobodyOversleeps /\ reader' = reader /\ (host'.credits # 0 => host.credits # 0)
    BY <1>b, <1>f, BleParts
  <2> QED BY ONLY <2>0, <2>1, <2>3, <2>4 DEF NobodyOversleeps, LinkOver
<1>10. AcceptInv'
  <2>1. NoneComes(ctl) => NoneComes(ctl')
    BY <1>g DEF NoneComes
  <2> QED BY <1>b, <1>f, <1>g, <2>1, BleParts DEF AcceptInv
<1> QED BY <1>4, <1>5, <1>7, <1>8, <1>9, <1>10 DEF BleIInv

\* Who is not idle has a link it met, and who holds a txMu holds its link's.
LEMMA SenderFacts ==
  ASSUME BleIInv, NEW s \in Senders, snd[s].at # "idle"
  PROVE  /\ Met(ctl, snd[s].l) /\ snd[s].l \in Links /\ s # "free"
         /\ snd[s] \in [at : SenderStages, l : Nat, off : 0..Last2, sent : Nat]
         /\ snd \in [Senders -> [at : SenderStages, l : Nat, off : 0..Last2, sent : Nat]]
         /\ links \in [Links -> LinkType] /\ links[snd[s].l] \in LinkType
         /\ host \in [link : Nat, credits : Nat, closed : BOOLEAN, newLinks : {<<>>} \union {<<k>> : k \in Links}]
         /\ snd[s].at \in Holding => links[snd[s].l].tx = s
         /\ [IdleSender EXCEPT !.sent = snd[s].sent] \in [at : SenderStages, l : Nat, off : 0..Last2, sent : Nat]
         /\ [IdleSender EXCEPT !.sent = snd[s].sent].at = "idle" /\ [IdleSender EXCEPT !.sent = snd[s].sent].off = 0
<1>1. Met(ctl, snd[s].l) /\ snd[s].l \in Links
  BY BleParts, MetIsLink DEF LinksInv
<1>2. /\ snd \in [Senders -> [at : SenderStages, l : Nat, off : 0..Last2, sent : Nat]] /\ links \in [Links -> LinkType]
      /\ host \in [link : Nat, credits : Nat, closed : BOOLEAN, newLinks : {<<>>} \union {<<k>> : k \in Links}]
  BY BleParts DEF BleTypeOK
<1>3. snd[s] \in [at : SenderStages, l : Nat, off : 0..Last2, sent : Nat] /\ links[snd[s].l] \in LinkType
  BY <1>1, <1>2
<1>4. 0 \in 0..Last2
  BY DEF Last2
<1>5. /\ [IdleSender EXCEPT !.sent = snd[s].sent] \in [at : SenderStages, l : Nat, off : 0..Last2, sent : Nat]
      /\ [IdleSender EXCEPT !.sent = snd[s].sent].at = "idle" /\ [IdleSender EXCEPT !.sent = snd[s].sent].off = 0
  BY <1>3, <1>4 DEF IdleSender, SenderStages, NoLink
<1>6. s # "free" /\ (snd[s].at \in Holding => links[snd[s].l].tx = s)
  BY BleParts DEF Senders, TxInv
<1> QED BY <1>1, <1>2, <1>3, <1>5, <1>6

\* What the sender leaves alone of a link the host has.
LEMMA WritingElsewhere ==
  ASSUME BleIInv, NEW s \in Senders, NEW l \in Links, links[l].tx # s, links'[l] = links[l],
         \A x \in Senders : x # s => snd'[x] = snd[x]
  PROVE  /\ Writing(links', snd', l) = Writing(links, snd, l)
         /\ links[l].tx # "free" => snd'[links[l].tx].off = snd[links[l].tx].off
<1>1. links[l].tx # "free" => links[l].tx \in Senders
  BY BleTyped
<1> QED BY <1>1 DEF Writing

\* What the controller has is a link.
LEMMA ConnIsLink ==
  ASSUME BleIInv, ctl.conn # NoLink
  PROVE  ctl.conn \in Links
<1>1. ctl.conn \in {NoLink, ctl.made} /\ ctl.made \in 0..MaxLinks /\ MaxLinks \in Nat
  BY BleFields
<1> QED BY <1>1 DEF NoLink, Links

\* A sender takes txMu.
LEMMA lockTxKeeps ==
  ASSUME BleIInv, NEW s \in Senders, lockTx(s)
  PROVE  BleIInv'
<1> DEFINE l == snd[s].l
           r == [snd[s] EXCEPT !.at = "credit"]
<1>0. /\ snd[s].at = "lock" /\ links[l].tx = "free" /\ UNCHANGED <<host, reader, acc, ctl>>
      /\ snd' = [snd EXCEPT ![s].at = "credit"] /\ links' = [links EXCEPT ![l].tx = s]
  BY DEF lockTx, At
<1>1. /\ Met(ctl, l) /\ l \in Links /\ s # "free" /\ links \in [Links -> LinkType] /\ links[l] \in LinkType
      /\ snd \in [Senders -> [at : SenderStages, l : Nat, off : 0..Last2, sent : Nat]]
      /\ snd[s] \in [at : SenderStages, l : Nat, off : 0..Last2, sent : Nat]
      /\ host \in [link : Nat, credits : Nat, closed : BOOLEAN, newLinks : {<<>>} \union {<<k>> : k \in Links}]
  BY <1>0, SenderFacts
<1>2. snd' = [snd EXCEPT ![s] = r] /\ snd'[s] = r /\ \A x \in Senders : x # s => snd'[x] = snd[x]
  BY <1>0, <1>1
<1>3. /\ r \in [at : SenderStages, l : Nat, off : 0..Last2, sent : Nat] /\ r.at = "credit" /\ r.l = l /\ r.off = snd[s].off
      /\ snd[s].off = 0
  BY <1>0, <1>1, FirstPiece DEF SenderStages, Holding
<1>4. [links[l] EXCEPT !.tx = s] \in LinkType /\ links' = [links EXCEPT ![l] = [links[l] EXCEPT !.tx = s]]
  BY <1>0, <1>1 DEF LinkType
<1>5. links' \in [Links -> LinkType] /\ \A k \in Links : k # l => links'[k] = links[k]
  BY ONLY <1>1, <1>4
<1>6. /\ links'[l].tx = s /\ links'[l].gone = links[l].gone /\ links'[l].accepted = links[l].accepted /\ links'[l].sub = links[l].sub
      /\ links'[l].inFlight = links[l].inFlight
  BY <1>0, <1>1 DEF LinkType
<1> HIDE DEF l, r
<1>7. SenderMove(s, r)
  <2>1. ctl'.held \in Nat /\ ctl'.torn \in BOOLEAN /\ r.at \in Holding
    BY <1>0, <1>3, BleParts DEF Holding
  <2> QED BY <1>0, <1>1, <1>2, <1>3, <1>5, <1>6, <2>1 DEF SenderMove, l
<1>8. \A k \in Links : k # l => links[k].tx # s
  BY <1>0, <1>1, BleParts DEF TxInv, Holding, l
<1>9. \A k \in Links : k # l => Writing(links', snd', k) = Writing(links, snd, k)
  BY <1>2, <1>5, <1>8, WritingElsewhere
<1>10. Writing(links', snd', l) = 0 /\ Writing(links, snd, l) = 0
  BY <1>0, <1>2, <1>3, <1>6 DEF Writing
<1>11. CreditsInv'
  <2>1. host.link # NoLink => host.link \in Links
    BY HostsIsMet
  <2>2. host.link # NoLink => links'[host.link].inFlight = links[host.link].inFlight /\ Writing(links', snd', host.link) = Writing(links, snd, host.link)
    BY <1>5, <1>6, <1>9, <1>10, <2>1
  <2> QED BY <1>0, <2>2, BleParts DEF CreditsInv
<1>12. PieceInv'
  <2>0. ~ ctl.torn
    BY BleParts DEF PieceInv
  <2>1. CASE ctl.conn = NoLink
    BY <1>0, <2>0, <2>1 DEF PieceInv
  <2>2. CASE ctl.conn # NoLink /\ ctl.conn = l
    <3>1. ctl.last = Absent \/ ctl.last[2] = Last2
      BY <1>0, <2>2, BleParts DEF PieceInv
    <3>2. links'[ctl.conn].tx = s /\ snd'[s].off = 0
      BY <1>2, <1>3, <1>6, <2>2
    <3> QED BY <1>0, <2>0, <3>1, <3>2 DEF PieceInv
  <2>3. CASE ctl.conn # NoLink /\ ctl.conn # l
    <3>1. ctl.conn \in Links
      BY <2>3, ConnIsLink
    <3>2. /\ links'[ctl.conn] = links[ctl.conn]
          /\ links[ctl.conn].tx # "free" => snd'[links[ctl.conn].tx].off = snd[links[ctl.conn].tx].off
      BY <1>2, <1>5, <1>8, <2>3, <3>1, WritingElsewhere
    <3> QED BY <1>0, <3>2, PieceStays
  <2> QED BY <2>1, <2>2, <2>3
<1> QED BY <1>7, <1>11, <1>12, SenderSteps

\* The sender leaves, its link being over.
LEMMA CreditRefused ==
  ASSUME BleIInv, NEW s \in Senders, snd[s].at = "credit", LinkOver(snd[s].l), Returns(s),
         links' = [links EXCEPT ![snd[s].l].tx = "free"], UNCHANGED <<host, reader, acc, ctl>>
  PROVE  BleIInv'
<1> DEFINE l == snd[s].l
           r == [IdleSender EXCEPT !.sent = snd[s].sent]
<1>0. snd' = [snd EXCEPT ![s] = r] /\ links' = [links EXCEPT ![l].tx = "free"]
  BY DEF Returns
<1>1. /\ Met(ctl, l) /\ l \in Links /\ s # "free" /\ links \in [Links -> LinkType] /\ links[l] \in LinkType
      /\ snd \in [Senders -> [at : SenderStages, l : Nat, off : 0..Last2, sent : Nat]]
      /\ host \in [link : Nat, credits : Nat, closed : BOOLEAN, newLinks : {<<>>} \union {<<k>> : k \in Links}]
      /\ r \in [at : SenderStages, l : Nat, off : 0..Last2, sent : Nat] /\ r.at = "idle" /\ r.off = 0
      /\ links[l].tx = s
  BY SenderFacts DEF Holding
<1>2. snd'[s] = r /\ \A x \in Senders : x # s => snd'[x] = snd[x]
  BY <1>0, <1>1
<1>3. ctl.conn # l
  <2>1. links[l].gone => ctl.conn # l
    BY <1>1, BleParts DEF LinksInv
  <2>2. host.closed => ctl.conn = NoLink
    BY BleParts DEF QueueOK
  <2>3. l # NoLink
    BY <1>1, LinkIsOne
  <2> QED BY <2>1, <2>2, <2>3 DEF LinkOver
<1>4. [links[l] EXCEPT !.tx = "free"] \in LinkType /\ links' = [links EXCEPT ![l] = [links[l] EXCEPT !.tx = "free"]]
  BY <1>0, <1>1 DEF LinkType
<1>5. links' \in [Links -> LinkType] /\ \A k \in Links : k # l => links'[k] = links[k]
  BY ONLY <1>1, <1>4
<1>6. /\ links'[l].tx = "free" /\ links'[l].gone = links[l].gone /\ links'[l].accepted = links[l].accepted /\ links'[l].sub = links[l].sub
      /\ links'[l].inFlight = links[l].inFlight
  BY <1>0, <1>1 DEF LinkType
<1> HIDE DEF l, r
<1>7. SenderMove(s, r)
  <2>1. ctl'.held \in Nat /\ ctl'.torn \in BOOLEAN /\ r.at \notin Holding
    BY <1>1, BleParts DEF Holding
  <2> QED BY <1>0, <1>1, <1>2, <1>5, <1>6, <2>1 DEF SenderMove, l
<1>8. \A k \in Links : k # l => links[k].tx # s
  BY HoldsOne DEF l
<1>9. \A k \in Links : k # l => Writing(links', snd', k) = Writing(links, snd, k)
  BY <1>2, <1>5, <1>8, WritingElsewhere
<1>10. Writing(links', snd', l) = 0 /\ Writing(links, snd, l) = 0
  BY <1>1, <1>6 DEF Writing
<1>11. CreditsInv'
  <2>1. host.link # NoLink => host.link \in Links
    BY HostsIsMet
  <2>2. host.link # NoLink => links'[host.link].inFlight = links[host.link].inFlight /\ Writing(links', snd', host.link) = Writing(links, snd, host.link)
    BY <1>5, <1>6, <1>9, <1>10, <2>1
  <2> QED BY <2>2, BleParts DEF CreditsInv
<1>12. PieceInv'
  <2>1. CASE ctl.conn = NoLink
    BY <2>1, BleParts DEF PieceInv
  <2>2. CASE ctl.conn # NoLink
    <3>1. ctl.conn \in Links
      BY <2>2, ConnIsLink
    <3>2. /\ links'[ctl.conn] = links[ctl.conn]
          /\ links[ctl.conn].tx # "free" => snd'[links[ctl.conn].tx].off = snd[links[ctl.conn].tx].off
      BY <1>2, <1>3, <1>5, <1>8, <3>1, WritingElsewhere
    <3> QED BY <3>2, PieceStays
  <2> QED BY <2>1, <2>2
<1> QED BY <1>7, <1>11, <1>12, SenderSteps

\* There is no credit: it sleeps.
LEMMA CreditAwaited ==
  ASSUME BleIInv, NEW s \in Senders, snd[s].at = "credit", ~ LinkOver(snd[s].l), host.credits = 0,
         At(s, "asleep for credit"), UNCHANGED <<host, links, reader, acc, ctl>>
  PROVE  BleIInv'
<1> DEFINE r == [snd[s] EXCEPT !.at = "asleep for credit"]
<1>1. /\ Met(ctl, snd[s].l) /\ snd[s] \in [at : SenderStages, l : Nat, off : 0..Last2, sent : Nat]
      /\ snd \in [Senders -> [at : SenderStages, l : Nat, off : 0..Last2, sent : Nat]]
  BY SenderFacts
<1>2. /\ snd' = [snd EXCEPT ![s] = r] /\ r \in [at : SenderStages, l : Nat, off : 0..Last2, sent : Nat]
      /\ r.at = "asleep for credit" /\ r.l = snd[s].l /\ r.off = snd[s].off
  BY <1>1 DEF At, SenderStages
<1> HIDE DEF r
<1>3. snd' \in [Senders -> [at : SenderStages, l : Nat, off : 0..Last2, sent : Nat]]
  BY ONLY <1>1, <1>2
<1>4. snd'[s] = r /\ \A x \in Senders : x # s => snd'[x] = snd[x]
  BY <1>1, <1>2
<1>5. HoldersStay
  BY <1>2, <1>4, FirstPiece DEF HoldersStay, Holding
<1>6. \A x \in Senders : snd'[x].at # "idle" => Met(ctl, snd'[x].l)
  BY <1>1, <1>2, <1>4, BleParts DEF LinksInv
<1>7. NobodyOversleeps'
  <2>1. \A x \in Senders : snd'[x] = snd[x] \/ (snd'[x].at = "asleep for credit" /\ snd'[x].l = snd[s].l)
    BY <1>2, <1>4
  <2> QED BY <2>1, BleParts DEF NobodyOversleeps, LinkOver
<1>8. QuietMove
  <2>1. reader' = <<"done">> => host.closed
    BY BleParts DEF LinksInv
  <2> QED BY <1>3, <1>5, <1>6, <2>1 DEF QuietMove
<1> QED BY <1>7, <1>8, QuietSteps

\* A credit is taken.
LEMMA CreditTaken ==
  ASSUME BleIInv, NEW s \in Senders, snd[s].at = "credit", ~ LinkOver(snd[s].l), host.credits > 0, At(s, "write"),
         host' = [host EXCEPT !.credits = @ - 1], links' = [links EXCEPT ![snd[s].l].inFlight = @ + 1],
         UNCHANGED <<reader, acc, ctl>>
  PROVE  BleIInv'
<1> DEFINE l == snd[s].l
           r == [snd[s] EXCEPT !.at = "write"]
<1>0. links' = [links EXCEPT ![l].inFlight = @ + 1]
  OBVIOUS
<1>1. /\ Met(ctl, l) /\ l \in Links /\ s # "free" /\ links \in [Links -> LinkType] /\ links[l] \in LinkType
      /\ snd \in [Senders -> [at : SenderStages, l : Nat, off : 0..Last2, sent : Nat]]
      /\ snd[s] \in [at : SenderStages, l : Nat, off : 0..Last2, sent : Nat]
      /\ host \in [link : Nat, credits : Nat, closed : BOOLEAN, newLinks : {<<>>} \union {<<k>> : k \in Links}]
      /\ links[l].tx = s
  BY SenderFacts DEF Holding
<1>2. /\ snd' = [snd EXCEPT ![s] = r] /\ r \in [at : SenderStages, l : Nat, off : 0..Last2, sent : Nat]
      /\ r.at = "write" /\ r.l = l /\ r.off = snd[s].off
  BY <1>1 DEF At, SenderStages
<1>3. snd'[s] = r /\ \A x \in Senders : x # s => snd'[x] = snd[x]
  BY ONLY <1>1, <1>2
<1>a. links[l].inFlight \in Nat /\ host.credits \in Nat /\ host.credits - 1 \in Nat /\ links[l].inFlight + 1 \in Nat
  <2>1. links[l].inFlight \in Nat /\ host.credits \in Nat
    BY <1>1 DEF LinkType
  <2> QED BY <2>1
<1>4. /\ [links[l] EXCEPT !.inFlight = links[l].inFlight + 1] \in LinkType
      /\ links' = [links EXCEPT ![l] = [links[l] EXCEPT !.inFlight = links[l].inFlight + 1]]
  BY <1>0, <1>1, <1>a DEF LinkType
<1>5. links' \in [Links -> LinkType] /\ \A k \in Links : k # l => links'[k] = links[k]
  BY ONLY <1>1, <1>4
<1>6. /\ links'[l].tx = links[l].tx /\ links'[l].gone = links[l].gone /\ links'[l].accepted = links[l].accepted
      /\ links'[l].sub = links[l].sub /\ links'[l].inFlight = links[l].inFlight + 1
  BY <1>0, <1>1 DEF LinkType
<1>b. /\ host'.link = host.link /\ host'.closed = host.closed /\ host'.newLinks = host.newLinks /\ host'.credits = host.credits - 1
      /\ host' \in [link : Nat, credits : Nat, closed : BOOLEAN, newLinks : {<<>>} \union {<<k>> : k \in Links}]
  BY <1>1, <1>a
<1> HIDE DEF l, r
<1>7. SenderMove(s, r)
  <2>1. ctl'.held \in Nat /\ ctl'.torn \in BOOLEAN /\ r.at \in Holding
    BY <1>2, BleParts DEF Holding
  <2>2. host'.credits # 0 => host.credits # 0
    BY <1>a, <1>b
  <2>3. \A k \in Links : links'[k].tx = links[k].tx /\ links'[k].gone = links[k].gone /\ links'[k].accepted = links[k].accepted /\ links'[k].sub = links[k].sub
    BY <1>5, <1>6
  <2> QED BY <1>1, <1>2, <1>3, <1>5, <1>b, <2>1, <2>2, <2>3 DEF SenderMove, l
<1>8. \A k \in Links : k # l => links[k].tx # s
  BY HoldsOne DEF l
<1>9. \A k \in Links : k # l => Writing(links', snd', k) = Writing(links, snd, k)
  BY <1>3, <1>5, <1>8, WritingElsewhere
<1>10. Writing(links', snd', l) = 1 /\ Writing(links, snd, l) = 0
  BY <1>1, <1>2, <1>3, <1>6 DEF Writing
<1>11. CreditsInv'
  <2>0. ctl.held > 0 => ctl.conn # NoLink /\ ctl.conn = host.link
    BY BleParts DEF CreditsInv
  <2>1. CASE host.link = NoLink
    <3>1. host.credits <= AclBuffers
      BY <2>1, BleParts DEF CreditsInv
    <3>2. host'.credits <= AclBuffers
      BY <1>a, <1>b, <3>1, BleAssumption
    <3> QED BY <1>b, <2>0, <2>1, <3>2 DEF CreditsInv
  <2>2. CASE host.link # NoLink
    <3> DEFINE h == host.link
               n == Completed(ctl.events) + ctl.held
    <3>1. /\ h \in Links /\ links[h].inFlight \in Nat /\ host.credits + links[h].inFlight <= AclBuffers
          /\ n + Writing(links, snd, h) <= links[h].inFlight /\ Writing(links, snd, h) \in Nat
      BY <2>2, HostsIsMet, BleParts, BleTyped, WritingIs DEF CreditsInv
    <3>2. n \in Nat
      BY BleFields
    <3>3. CASE h = l
      <4>1. n \in Nat /\ n <= links[h].inFlight
        BY <1>10, <3>1, <3>2, <3>3
      <4> HIDE DEF n
      <4>2. (host.credits - 1) + (links[h].inFlight + 1) <= AclBuffers /\ n + 1 <= links[h].inFlight + 1
        BY <1>a, <3>1, <4>1, BleAssumption
      <4>3. host'.credits + links'[h].inFlight <= AclBuffers /\ n + Writing(links', snd', h) <= links'[h].inFlight
        BY <1>6, <1>10, <1>b, <3>3, <4>2
      <4> QED BY <1>b, <2>0, <2>2, <4>3 DEF CreditsInv, n
    <3>4. CASE h # l
      <4>1. links'[h] = links[h] /\ Writing(links', snd', h) = Writing(links, snd, h)
        BY <1>5, <1>9, <3>1, <3>4
      <4>2. host'.credits + links'[h].inFlight <= AclBuffers
        <5>1. host.credits \in Nat /\ links[h].inFlight \in Nat /\ AclBuffers \in Nat /\ host.credits + links[h].inFlight <= AclBuffers
          BY <1>a, <3>1, BleAssumption
        <5>2. (host.credits - 1) + links[h].inFlight <= AclBuffers
          BY ONLY <5>1
        <5> QED BY ONLY <1>b, <4>1, <5>2
      <4> QED BY <1>b, <2>0, <2>2, <3>1, <4>1, <4>2 DEF CreditsInv
    <3> QED BY <3>3, <3>4
  <2> QED BY <2>1, <2>2
<1>12. PieceInv'
  <2>1. CASE ctl.conn = NoLink
    BY <2>1, BleParts DEF PieceInv
  <2>2. CASE ctl.conn # NoLink
    <3>1. ctl.conn \in Links
      BY <2>2, ConnIsLink
    <3>2. links'[ctl.conn].tx = links[ctl.conn].tx
      BY <1>5, <1>6, <3>1
    <3>3. \A x \in Senders : snd'[x].off = snd[x].off
      BY <1>2, <1>3
    <3>4. links[ctl.conn].tx # "free" => links[ctl.conn].tx \in Senders
      BY <3>1, BleTyped
    <3> QED BY <3>2, <3>3, <3>4, BleParts DEF PieceInv
  <2> QED BY <2>1, <2>2
<1> QED BY <1>7, <1>11, <1>12, SenderSteps

\* takeCredit: a credit is taken, or awaited, or the link is over.
LEMMA takeCreditKeeps ==
  ASSUME BleIInv, NEW s \in Senders, takeCredit(s)
  PROVE  BleIInv'
<1>0. snd[s].at = "credit" /\ UNCHANGED <<reader, acc, ctl>>
  BY DEF takeCredit
<1>1. \/ LinkOver(snd[s].l) /\ Returns(s) /\ links' = [links EXCEPT ![snd[s].l].tx = "free"] /\ UNCHANGED host
      \/ ~ LinkOver(snd[s].l) /\ host.credits = 0 /\ At(s, "asleep for credit") /\ UNCHANGED <<host, links>>
      \/ /\ ~ LinkOver(snd[s].l) /\ host.credits > 0 /\ At(s, "write")
         /\ host' = [host EXCEPT !.credits = @ - 1]
         /\ links' = [links EXCEPT ![snd[s].l].inFlight = @ + 1]
  BY DEF takeCredit
<1>2. CASE LinkOver(snd[s].l) /\ Returns(s) /\ links' = [links EXCEPT ![snd[s].l].tx = "free"] /\ UNCHANGED host
  BY <1>0, <1>2, CreditRefused
<1>3. CASE ~ LinkOver(snd[s].l) /\ host.credits = 0 /\ At(s, "asleep for credit") /\ UNCHANGED <<host, links>>
  BY <1>0, <1>3, CreditAwaited
<1>4. CASE /\ ~ LinkOver(snd[s].l) /\ host.credits > 0 /\ At(s, "write")
           /\ host' = [host EXCEPT !.credits = @ - 1]
           /\ links' = [links EXCEPT ![snd[s].l].inFlight = @ + 1]
  BY <1>0, <1>4, CreditTaken
<1> QED BY <1>1, <1>2, <1>3, <1>4

\* The piece is written: the next one is to follow, or txMu is free.
LEMMA writeACLKeeps ==
  ASSUME BleIInv, NEW s \in Senders, writeACL(s)
  PROVE  BleIInv'
<1> DEFINE l == snd[s].l
           off == snd[s].off
           ends == ~ ctl.up \/ off = Last2
           there == ctl.up /\ ctl.conn = l
           r0 == [IdleSender EXCEPT !.sent = snd[s].sent]
           r1 == [snd[s] EXCEPT !.at = "credit", !.off = off + 1]
           r == IF ends THEN r0 ELSE r1
<1>0. /\ snd[s].at = "write" /\ UNCHANGED <<host, reader, acc>>
      /\ links' = IF ends THEN [links EXCEPT ![l].tx = "free"] ELSE links
      /\ ctl' = IF there
                THEN [ctl EXCEPT !.held = @ + 1, !.last = <<s, off>>,
                                 !.torn = @ \/ (IF off = 0 THEN ctl.last # Absent /\ ctl.last[2] # Last2
                                                ELSE ctl.last # <<s, off - 1>>)]
                ELSE ctl
      /\ IF ends THEN Returns(s) ELSE snd' = [snd EXCEPT ![s].at = "credit", ![s].off = off + 1]
  BY DEF writeACL
<1>1. /\ Met(ctl, l) /\ l \in Links /\ s # "free" /\ links \in [Links -> LinkType] /\ links[l] \in LinkType
      /\ snd \in [Senders -> [at : SenderStages, l : Nat, off : 0..Last2, sent : Nat]]
      /\ snd[s] \in [at : SenderStages, l : Nat, off : 0..Last2, sent : Nat]
      /\ host \in [link : Nat, credits : Nat, closed : BOOLEAN, newLinks : {<<>>} \union {<<k>> : k \in Links}]
      /\ r0 \in [at : SenderStages, l : Nat, off : 0..Last2, sent : Nat] /\ r0.at = "idle" /\ r0.off = 0
      /\ links[l].tx = s
  BY <1>0, SenderFacts DEF Holding
<1>2. off \in {0, 1} /\ (~ ends => off = 0 /\ off + 1 = 1 /\ off + 1 \in 0..Last2)
  <2>1. off \in 0..1
    BY <1>1 DEF Last2
  <2>2. off \in {0, 1}
    BY ONLY <2>1
  <2> QED BY <2>2 DEF Last2
<1>3. ~ ends => r1 \in [at : SenderStages, l : Nat, off : 0..Last2, sent : Nat] /\ r1.at = "credit" /\ r1.l = l /\ r1.off = 1
  BY <1>1, <1>2 DEF SenderStages
<1>4. snd' = [snd EXCEPT ![s] = r]
  <2>1. CASE ends
    BY <1>0, <2>1 DEF Returns
  <2>2. CASE ~ ends
    BY <1>0, <1>1, <2>2
  <2> QED BY <2>1, <2>2
<1>5. /\ r \in [at : SenderStages, l : Nat, off : 0..Last2, sent : Nat]
      /\ IF ends THEN r.at = "idle" /\ r.off = 0 ELSE r.at = "credit" /\ r.l = l /\ r.off = 1
  BY <1>1, <1>3
<1>6. snd'[s] = r /\ \A x \in Senders : x # s => snd'[x] = snd[x]
  BY ONLY <1>1, <1>4
<1>7. links' \in [Links -> LinkType] /\ (\A k \in Links : k # l => links'[k] = links[k]) /\ links'[l].tx = (IF ends THEN "free" ELSE s)
      /\ links'[l].gone = links[l].gone /\ links'[l].accepted = links[l].accepted /\ links'[l].sub = links[l].sub
      /\ links'[l].inFlight = links[l].inFlight
  <2>1. CASE ends
    <3>1. [links[l] EXCEPT !.tx = "free"] \in LinkType /\ links' = [links EXCEPT ![l] = [links[l] EXCEPT !.tx = "free"]]
      BY <1>0, <1>1, <2>1 DEF LinkType
    <3>2. links' \in [Links -> LinkType] /\ \A k \in Links : k # l => links'[k] = links[k]
      BY ONLY <1>1, <3>1
    <3> QED BY <1>0, <1>1, <2>1, <3>2 DEF LinkType
  <2>2. CASE ~ ends
    BY <1>0, <1>1, <2>2
  <2> QED BY <2>1, <2>2
<1>8. there => host.link = l /\ l # NoLink /\ l = ctl.conn
  BY <1>1, MetIsHosts, LinkIsOne
<1>9. /\ DOMAIN ctl' = DOMAIN ctl /\ ctl'.events = ctl.events /\ ctl'.conn = ctl.conn /\ ctl'.made = ctl.made
      /\ ctl'.adv = ctl.adv /\ ctl'.up = ctl.up /\ ctl'.asked = ctl.asked /\ ctl'.failed = ctl.failed
  BY <1>0, BleParts
<1>10. /\ ctl'.held = (IF there THEN ctl.held + 1 ELSE ctl.held)
       /\ ctl'.last = (IF there THEN <<s, off>> ELSE ctl.last)
  BY <1>0, BleParts
<1>11. ctl'.torn = FALSE
  <2>0. ctl.torn = FALSE
    BY BleParts DEF PieceInv
  <2>1. CASE there
    <3>1. IF off # 0 THEN ctl.last = <<s, 0>> ELSE ctl.last = Absent \/ ctl.last[2] = Last2
      BY <1>1, <1>8, <2>1, BleParts DEF PieceInv
    <3>2. ctl'.torn = (ctl.torn \/ (IF off = 0 THEN ctl.last # Absent /\ ctl.last[2] # Last2
                                    ELSE ctl.last # <<s, off - 1>>))
      BY <1>0, <2>1, BleParts
    <3>3. off # 0 => off - 1 = 0
      BY ONLY <1>2
    <3> QED BY <2>0, <3>1, <3>2, <3>3
  <2>2. CASE ~ there
    BY <1>0, <2>0, <2>2
  <2> QED BY <2>1, <2>2
<1> HIDE DEF l, r, off, ends, there, r0, r1
<1>12. SenderMove(s, r)
  <2>1. ctl'.held \in Nat
    BY <1>10, BleFields
  <2>2. ctl'.torn \in BOOLEAN
    BY <1>11
  <2>3. r.at \in Holding <=> ~ ends
    BY <1>5 DEF Holding
  <2>4. \A k \in Links : links'[k].gone = links[k].gone /\ links'[k].accepted = links[k].accepted /\ links'[k].sub = links[k].sub
    BY <1>7
  <2>5. \A k \in Links : links'[k].tx = (IF k = l THEN IF r.at \in Holding THEN s ELSE "free" ELSE links[k].tx)
    BY <1>7, <2>3
  <2>6. r.at \notin {"asleep for sub", "asleep for credit"} /\ (r.at # "idle" => r.l = l) /\ (r.at \notin Holding => r.off = 0)
    BY <1>5, <2>3
  <2> QED BY <1>0, <1>1, <1>4, <1>5, <1>7, <1>9, <2>1, <2>2, <2>4, <2>5, <2>6 DEF SenderMove, l
<1>13. \A k \in Links : k # l => links[k].tx # s
  BY HoldsOne DEF l
<1>14. \A k \in Links : k # l => Writing(links', snd', k) = Writing(links, snd, k)
  BY <1>6, <1>7, <1>13, WritingElsewhere
<1>15. Writing(links', snd', l) = 0 /\ Writing(links, snd, l) = 1
  <2>1. Writing(links, snd, l) = 1
    BY <1>0, <1>1 DEF Writing
  <2>2. Writing(links', snd', l) = 0
    BY <1>1, <1>5, <1>6, <1>7 DEF Writing
  <2> QED BY <2>1, <2>2
<1>16. CreditsInv'
  <2>0. /\ ctl.held > 0 => ctl.conn # NoLink /\ ctl.conn = host.link
        /\ host.link = NoLink => host.credits <= AclBuffers
        /\ host.link # NoLink =>
             /\ host.credits + links[host.link].inFlight <= AclBuffers
             /\ Completed(ctl.events) + ctl.held + Writing(links, snd, host.link) <= links[host.link].inFlight
    BY BleParts DEF CreditsInv
  <2>1. ctl'.held > 0 => ctl'.conn # NoLink /\ ctl'.conn = host'.link
    BY <1>0, <1>8, <1>9, <1>10, <2>0
  <2>2. host.link # NoLink => host.link \in Links /\ links'[host.link].inFlight = links[host.link].inFlight
    BY <1>7, HostsIsMet
  <2>3. ASSUME host.link # NoLink
        PROVE  Completed(ctl.events) + ctl'.held + Writing(links', snd', host.link) <= links[host.link].inFlight
    <3>0. Completed(ctl.events) \in Nat /\ ctl.held \in Nat
      BY BleFields
    <3>1. links[host.link].inFlight \in Nat
      BY <2>2, <2>3, BleTyped
    <3>2. Completed(ctl.events) + ctl.held + Writing(links, snd, host.link) <= links[host.link].inFlight
      BY <2>0, <2>3
    <3>3. CASE there
      <4>1. ctl'.held = ctl.held + 1 /\ Writing(links', snd', host.link) = 0 /\ Writing(links, snd, host.link) = 1
        BY <1>8, <1>10, <1>15, <3>3
      <4> QED BY ONLY <3>0, <3>1, <3>2, <4>1
    <3>4. CASE ~ there
      <4>1. ctl'.held = ctl.held
        BY <1>10, <3>4
      <4>2. CASE host.link = l
        <5>1. Writing(links', snd', host.link) = 0 /\ Writing(links, snd, host.link) = 1
          BY <1>15, <4>2
        <5> QED BY ONLY <3>0, <3>1, <3>2, <4>1, <5>1
      <4>3. CASE host.link # l
        BY <1>14, <2>2, <2>3, <3>2, <4>1, <4>3
      <4> QED BY <4>2, <4>3
    <3> QED BY <3>3, <3>4
  <2> QED BY <1>0, <1>9, <2>0, <2>1, <2>2, <2>3 DEF CreditsInv
<1>17. PieceInv'
  <2>1. CASE ctl.conn = NoLink
    BY <1>9, <1>11, <2>1 DEF PieceInv
  <2>2. CASE ctl.conn # NoLink /\ ctl.conn = l
    <3>1. ctl.up
      BY <2>2, BleParts DEF QueueOK
    <3>2. there /\ ctl'.last = <<s, off>>
      BY <1>10, <2>2, <3>1 DEF there
    <3>3. CASE ends
      <4>1. off = Last2
        BY <3>1, <3>3 DEF ends
      <4>2. ctl'.last[2] = Last2 /\ links'[ctl.conn].tx = "free"
        BY <1>7, <2>2, <3>2, <3>3, <4>1
      <4> QED BY <1>9, <1>11, <4>2 DEF PieceInv
    <3>4. CASE ~ ends
      <4>1. links'[ctl.conn].tx = s /\ snd'[s].off = 1 /\ off = 0
        BY <1>2, <1>5, <1>6, <1>7, <2>2, <3>4
      <4> QED BY <1>1, <1>9, <1>11, <3>2, <4>1 DEF PieceInv
    <3> QED BY <3>3, <3>4
  <2>3. CASE ctl.conn # NoLink /\ ctl.conn # l
    <3>1. ctl.conn \in Links
      BY <2>3, ConnIsLink
    <3>2. /\ links'[ctl.conn] = links[ctl.conn]
          /\ links[ctl.conn].tx # "free" => snd'[links[ctl.conn].tx].off = snd[links[ctl.conn].tx].off
      BY <1>6, <1>7, <1>13, <2>3, <3>1, WritingElsewhere
    <3>3. ctl'.last = ctl.last
      BY <1>10, <2>3 DEF there
    <3> QED BY <1>9, <1>11, <3>2, <3>3, BleParts DEF PieceInv
  <2> QED BY <2>1, <2>2, <2>3
<1> QED BY <1>12, <1>16, <1>17, SenderSteps

-----------------------------------------------------------------------------
(* Accept, Link.Close and the commands. *)

\* Accept's caller goes on, and the controller as it was or with a command more failed.
LEMMA CallerMoves ==
  ASSUME BleIInv, UNCHANGED <<host, links, reader, snd>>, NEW a \in AcceptStages, NEW l \in Nat, acc' = [at |-> a, l |-> l],
         a \in {"closes stale", "serving"} => Met(ctl, l),
         DOMAIN ctl' = DOMAIN ctl, ctl'.events = ctl.events, ctl'.conn = ctl.conn, ctl'.made = ctl.made,
         ctl'.adv = ctl.adv, ctl'.last = ctl.last, ctl'.up = ctl.up, ctl'.held = ctl.held,
         ctl'.torn = ctl.torn, ctl'.asked = ctl.asked, ctl'.failed \in BOOLEAN
  PROVE  ControllerMove
<1>1. acc' \in [at : AcceptStages, l : Nat] /\ acc'.at = a /\ acc'.l = l
  OBVIOUS
<1>2. \A k : Met(ctl, k) <=> Met(ctl', k)
  BY DEF Met
<1>3. Completed(ctl'.events) \in Nat /\ ctl.held \in Nat /\ Completed(ctl'.events) = Completed(ctl.events) /\ ctl'.held = ctl.held
  BY BleFields
<1>4. Completed(ctl'.events) + ctl'.held <= Completed(ctl.events) + ctl.held
  BY ONLY <1>3
<1>5. ctl'.up \in BOOLEAN /\ ctl'.adv \in BOOLEAN /\ ctl'.made \in 0..MaxLinks /\ ctl'.held \in Nat /\ ctl'.asked \in Nat
  BY BleParts
<1>6. QueueOK(ctl'.events, host.link, ctl'.made, ctl'.conn, ctl'.up)
  BY BleParts
<1>7. (ctl'.adv => ctl'.up /\ ctl'.conn = NoLink) /\ (host.closed => ~ ctl'.up /\ ctl'.events = <<>>)
  BY BleParts DEF LinksInv
<1> QED BY <1>1, <1>2, <1>3, <1>4, <1>5, <1>6, <1>7 DEF ControllerMove

\* A command about advertising fails, or is not answered in time.
LEMMA FailureKeeps ==
  ASSUME BleIInv, UNCHANGED <<host, links, reader, snd>>, acc' = [at |-> "idle", l |-> NoLink], ctl' = [ctl EXCEPT !.failed = TRUE]
  PROVE  BleIInv'
<1>1. /\ DOMAIN ctl' = DOMAIN ctl /\ ctl'.events = ctl.events /\ ctl'.conn = ctl.conn /\ ctl'.made = ctl.made
      /\ ctl'.adv = ctl.adv /\ ctl'.last = ctl.last /\ ctl'.up = ctl.up /\ ctl'.held = ctl.held
      /\ ctl'.torn = ctl.torn /\ ctl'.asked = ctl.asked /\ ctl'.failed = TRUE
  BY BleParts
<1>2. "idle" \in AcceptStages /\ NoLink \in Nat /\ "idle" \notin {"closes stale", "serving"}
  BY DEF AcceptStages, NoLink
<1>3. ControllerMove
  BY <1>1, <1>2, CallerMoves
<1>4. AcceptInv'
  BY <1>1 DEF AcceptInv
<1> QED BY <1>3, <1>4, ControllerSteps

\* Accept is called: there is a link that nobody took, or it waits.
LEMMA AcceptKeeps ==
  ASSUME BleIInv, Accept
  PROVE  BleIInv'
<1>0. /\ acc.at = "idle" /\ UNCHANGED <<host, links, reader, snd, ctl>>
      /\ acc' = IF host.link # NoLink /\ ~ links[host.link].accepted
                THEN [at |-> "closes stale", l |-> host.link] ELSE [at |-> "waits", l |-> NoLink]
  BY DEF Accept
<1>1. PICK a \in {"closes stale", "waits"} : \E l \in Nat : acc' = [at |-> a, l |-> l] /\ (a = "closes stale" => Met(ctl, l))
  <2>1. host.link \in Nat /\ NoLink \in Nat
    BY BleFields DEF NoLink
  <2>2. host.link # NoLink => Met(ctl, host.link)
    BY HostsIsMet
  <2>3. CASE host.link # NoLink /\ ~ links[host.link].accepted
    BY <1>0, <2>1, <2>2, <2>3
  <2>4. CASE ~ (host.link # NoLink /\ ~ links[host.link].accepted)
    BY <1>0, <2>1, <2>4
  <2> QED BY <2>3, <2>4
<1>2. PICK l \in Nat : acc' = [at |-> a, l |-> l] /\ (a = "closes stale" => Met(ctl, l))
  BY <1>1
<1>3. a \in AcceptStages /\ (a \in {"closes stale", "serving"} => Met(ctl, l))
  BY <1>2 DEF AcceptStages
<1>4. ctl.failed \in BOOLEAN /\ ctl' = ctl
  BY <1>0, BleParts
<1>5. ControllerMove
  BY <1>0, <1>2, <1>3, <1>4, CallerMoves
<1>6. AcceptInv'
  <2>1. acc'.at = a
    BY <1>2
  <2> QED BY <1>0, <2>1, BleParts DEF AcceptInv
<1> QED BY <1>5, <1>6, ControllerSteps

\* Link.Close: the connection is to be ended.
LEMMA CloseLinkKeeps ==
  ASSUME BleIInv, NEW at \in {"closes stale", "serving"}, NEW next \in {"waits", "idle"}, CloseLink(at, next)
  PROVE  BleIInv'
<1>0. /\ acc.at = at /\ acc' = [at |-> next, l |-> NoLink] /\ UNCHANGED <<host, links, reader, snd>>
      /\ ctl' = ctl \/ (ctl.conn = acc.l /\ ctl' = Dropped(ctl))
  BY DEF CloseLink
<1>1. Met(ctl, acc.l) /\ next \in AcceptStages /\ NoLink \in Nat /\ next \notin {"closes stale", "serving"}
  BY <1>0, BleParts DEF LinksInv, AcceptStages, NoLink
<1>2. CASE ctl' = ctl
  <2>1. ctl.failed \in BOOLEAN
    BY BleParts
  <2>2. ControllerMove
    BY <1>0, <1>1, <1>2, <2>1, CallerMoves
  <2>3. AcceptInv'
    BY <1>0, <1>2, BleParts DEF AcceptInv
  <2> QED BY <2>2, <2>3, ControllerSteps
<1>3. CASE ctl.conn = acc.l /\ ctl' = Dropped(ctl)
  <2>1. ctl.conn # NoLink
    BY <1>1, <1>3, MetIsLink
  <2>2. ctl.up
    BY <2>1, BleParts DEF QueueOK
  <2>3. acc' \in [at : AcceptStages, l : Nat] /\ acc'.at = next
    BY <1>0, <1>1
  <2>4. ControllerMove /\ ctl'.adv = ctl.adv /\ ctl'.failed = ctl.failed /\ ctl'.asked = ctl.asked /\ ctl'.made = ctl.made
        /\ ctl'.events = Append(ctl.events, <<"disconnected", ctl.conn>>)
    BY <1>0, <1>1, <1>3, <2>1, <2>2, <2>3, DroppedMoves
  <2>5. <<"disconnected", ctl.conn>> \in Events
    BY BleFields DEF Events, LinkKinds
  <2>6. \A l : Told(ctl'.events, "connected", l) <=> Told(ctl.events, "connected", l)
    BY <2>4, <2>5, TellsPlain
  <2>7. NoneComes(ctl) => NoneComes(ctl')
    BY <2>4, <2>6 DEF NoneComes
  <2>8. AcceptInv'
    BY <1>0, <2>4, <2>7, BleParts DEF AcceptInv
  <2> QED BY <2>4, <2>8, ControllerSteps
<1> QED BY <1>0, <1>2, <1>3

\* Accept goes on with a host that has no link, and ends with any other.
LEMMA acceptBeginsKeeps ==
  ASSUME BleIInv, acceptBegins
  PROVE  BleIInv'
<1>0. /\ acc.at = "waits" /\ UNCHANGED <<host, links, reader, snd, ctl>>
      /\ acc' = [acc EXCEPT !.at = IF host.closed \/ host.link # NoLink THEN "idle" ELSE "drains"]
  BY DEF acceptBegins
<1>1. PICK a \in {"idle", "drains"} : acc' = [at |-> a, l |-> acc.l] /\ (a = "drains" => host.link = NoLink)
  <2>1. acc \in [at : AcceptStages, l : Nat]
    BY BleParts
  <2>2. \A b : [acc EXCEPT !.at = b] = [at |-> b, l |-> acc.l]
    BY <2>1
  <2> QED BY <1>0, <2>2
<1>2. a \in AcceptStages /\ acc.l \in Nat /\ a \notin {"closes stale", "serving"} /\ ctl.failed \in BOOLEAN
  BY BleParts DEF AcceptStages
<1>3. ControllerMove
  BY <1>0, <1>1, <1>2, CallerMoves
<1>4. AcceptInv'
  BY <1>0, <1>1, BleParts DEF AcceptInv
<1> QED BY <1>3, <1>4, ControllerSteps

\* Accept empties newLinks before it lets a phone come.
LEMMA acceptDrainsKeeps ==
  ASSUME BleIInv, acceptDrains
  PROVE  BleIInv'
<1>0. /\ acc.at = "drains" /\ UNCHANGED <<links, reader, snd, ctl>>
      /\ host' = [host EXCEPT !.newLinks = <<>>] /\ acc' = [acc EXCEPT !.at = "starts"]
  BY DEF acceptDrains
<1>1. /\ host'.link = host.link /\ host'.credits = host.credits /\ host'.closed = host.closed /\ host'.newLinks = <<>>
      /\ host' \in [link : Nat, credits : Nat, closed : BOOLEAN, newLinks : {<<>>} \union {<<l>> : l \in Links}]
  BY <1>0, BleParts DEF BleTypeOK
<1>2. acc' \in [at : AcceptStages, l : Nat] /\ acc'.at = "starts"
  BY <1>0, BleParts DEF AcceptStages
<1>3. BleTypeOK'
  BY <1>0, <1>1, <1>2, BleParts DEF BleTypeOK
<1>4. QueueInv'
  BY <1>0, <1>1, BleParts DEF QueueInv
<1>5. LinksInv'
  <2>1. DOMAIN host'.newLinks = {}
    BY <1>1
  <2> QED BY <1>0, <1>1, <1>2, <2>1, BleParts DEF LinksInv
<1>6. TxInv' /\ PieceInv'
  BY <1>0, BleParts DEF TxInv, PieceInv
<1>7. CreditsInv'
  BY <1>0, <1>1, BleParts DEF CreditsInv
<1>8. NobodyOversleeps'
  BY <1>0, <1>1, BleParts DEF NobodyOversleeps, LinkOver
<1>9. AcceptInv'
  BY <1>0, <1>1, <1>2, BleParts DEF AcceptInv
<1> QED BY <1>3, <1>4, <1>5, <1>6, <1>7, <1>8, <1>9 DEF BleIInv

\* Accept takes the link it is given.
LEMMA acceptTakesKeeps ==
  ASSUME BleIInv, acceptTakes
  PROVE  BleIInv'
<1> DEFINE l == Head(host.newLinks)
<1>0. /\ acc.at = "select" /\ host.newLinks # <<>> /\ UNCHANGED <<reader, snd, ctl>>
      /\ acc' = [at |-> "serving", l |-> l] /\ links' = [links EXCEPT ![l].accepted = TRUE]
      /\ host' = [host EXCEPT !.newLinks = <<>>]
  BY DEF acceptTakes
<1>1. l \in Links /\ Met(ctl, l)
  <2>1. PICK k \in Links : host.newLinks = <<k>>
    BY <1>0, BleTyped
  <2>2. l = k /\ 1 \in DOMAIN host.newLinks /\ host.newLinks[1] = k
    BY <2>1
  <2> QED BY <2>2, BleParts DEF LinksInv
<1>2. /\ host'.link = host.link /\ host'.credits = host.credits /\ host'.closed = host.closed /\ host'.newLinks = <<>>
      /\ host' \in [link : Nat, credits : Nat, closed : BOOLEAN, newLinks : {<<>>} \union {<<k>> : k \in Links}]
  BY <1>0, BleParts DEF BleTypeOK
<1>3. links \in [Links -> LinkType]
  BY BleParts DEF BleTypeOK
<1>4. [links[l] EXCEPT !.accepted = TRUE] \in LinkType /\ links' = [links EXCEPT ![l] = [links[l] EXCEPT !.accepted = TRUE]]
  BY <1>0, <1>1, <1>3 DEF LinkType
<1>5. links' \in [Links -> LinkType] /\ \A k \in Links : k # l => links'[k] = links[k]
  BY ONLY <1>1, <1>3, <1>4
<1>6. /\ links'[l].tx = links[l].tx /\ links'[l].gone = links[l].gone /\ links'[l].sub = links[l].sub
      /\ links'[l].inFlight = links[l].inFlight
  BY <1>0, <1>1, <1>3 DEF LinkType
<1>7. acc' \in [at : AcceptStages, l : Nat] /\ acc'.at = "serving" /\ acc'.l = l
  <2>1. l \in Nat
    BY <1>1, BleAssumption DEF Links
  <2> QED BY <1>0, <2>1 DEF AcceptStages
<1> HIDE DEF l
<1>8. \A k \in Links : /\ links'[k].tx = links[k].tx /\ links'[k].gone = links[k].gone /\ links'[k].sub = links[k].sub
                       /\ links'[k].inFlight = links[k].inFlight
  BY <1>5, <1>6
<1>9. BleTypeOK'
  BY <1>0, <1>2, <1>5, <1>7, BleParts DEF BleTypeOK
<1>10. QueueInv'
  BY <1>0, <1>2, BleParts DEF QueueInv
<1>11. LinksInv'
  <2>1. DOMAIN host'.newLinks = {}
    BY <1>2
  <2>2. \A k \in Links : ~ Met(ctl, k) => links'[k] = NewLink
    BY <1>1, <1>5, BleParts DEF LinksInv
  <2>3. \A k \in Links : links'[k].gone \/ reader = <<"lost", k>> => Met(ctl, k) /\ ctl.conn # k
    BY <1>8, BleParts DEF LinksInv
  <2> QED BY <1>0, <1>1, <1>2, <1>7, <2>1, <2>2, <2>3, BleParts DEF LinksInv
<1>12. HoldersStay
  BY <1>0, <1>8, FirstPiece DEF HoldersStay
<1>13. TxInv' /\ PieceInv' /\ \A k \in Links : Writing(links', snd', k) = Writing(links, snd, k)
  BY <1>0, <1>12, HoldersStaying
<1>14. CreditsInv'
  <2>1. host.link # NoLink => host.link \in Links
    BY HostsIsMet
  <2> QED BY <1>0, <1>2, <1>8, <1>13, <2>1, BleParts DEF CreditsInv
<1>15. NobodyOversleeps'
  <2>1. \A s \in Senders : snd[s].at # "idle" => snd[s].l \in Links
    BY BleParts, MetIsLink DEF LinksInv
  <2>2. /\ NobodyOversleeps /\ snd' = snd /\ reader' = reader
        /\ host'.link = host.link /\ host'.closed = host.closed /\ host'.credits = host.credits
    BY <1>0, <1>2, BleParts
  <2> QED BY ONLY <1>8, <2>1, <2>2 DEF NobodyOversleeps, LinkOver
<1>16. AcceptInv'
  BY <1>0, <1>2, <1>7, BleParts DEF AcceptInv
<1> QED BY <1>9, <1>10, <1>11, <1>13, <1>14, <1>15, <1>16 DEF BleIInv

\* A command is asked: its answer is told behind all that was told.
LEMMA AskMoves ==
  ASSUME BleIInv, ctl.up, UNCHANGED <<host, links, reader, snd>>, NEW a \in {"starting", "stopping"}, acc' = [acc EXCEPT !.at = a],
         DOMAIN ctl' = DOMAIN ctl, ctl'.events = Append(ctl.events, <<"answer", ctl.asked + 1>>), ctl'.conn = ctl.conn,
         ctl'.made = ctl.made, ctl'.adv \in BOOLEAN, ctl'.adv => ctl.conn = NoLink, ctl'.last = ctl.last, ctl'.up = ctl.up,
         ctl'.held = ctl.held, ctl'.torn = ctl.torn, ctl'.asked = ctl.asked + 1, ctl'.failed = ctl.failed
  PROVE  /\ ControllerMove /\ acc'.at = a /\ <<"answer", ctl.asked + 1>> \in Events
         /\ \A l : Told(ctl'.events, "connected", l) <=> Told(ctl.events, "connected", l)
<1> DEFINE e == <<"answer", ctl.asked + 1>>
<1>0. ctl.asked \in Nat /\ ctl.asked + 1 \in Nat
  <2>1. ctl.asked \in Nat
    BY BleParts
  <2> QED BY ONLY <2>1
<1>1. e \in Events /\ e[1] = "answer"
  BY <1>0 DEF Events
<1>2. /\ \A l : Met(ctl, l) <=> Met(ctl', l)
      /\ \A l : Told(ctl'.events, "connected", l) <=> Told(ctl.events, "connected", l)
      /\ Completed(ctl'.events) = Completed(ctl.events) /\ Completed(ctl'.events) \in Nat
  BY <1>1, TellsPlain
<1>3. acc' \in [at : AcceptStages, l : Nat] /\ acc'.at = a
  BY BleParts DEF AcceptStages
<1>4. QueueOK(ctl'.events, host.link, ctl'.made, ctl'.conn, ctl'.up)
  <2>1. QueueOK(ctl.events, host.link, ctl.made, ctl.conn, ctl.up) /\ ctl.up \in BOOLEAN
    BY BleParts
  <2>2. QueueOK(Append(ctl.events, e), host.link, ctl.made, ctl.conn, ctl.up)
    BY ONLY <1>0, <2>1, ctl.up, AnswerTold
  <2> QED BY <2>2
<1>5. ctl.held \in Nat /\ ctl'.held = ctl.held
  BY BleFields
<1>6. Completed(ctl'.events) + ctl'.held <= Completed(ctl.events) + ctl.held
  BY ONLY <1>2, <1>5
<1>7. ctl'.up \in BOOLEAN /\ ctl'.failed \in BOOLEAN /\ ctl'.made \in 0..MaxLinks /\ ctl'.held \in Nat /\ ctl'.asked \in Nat
  BY <1>0, BleParts
<1>8. ~ host.closed
  BY BleParts
<1>9. ctl'.adv => ctl'.up /\ ctl'.conn = NoLink
  OBVIOUS
<1> HIDE DEF e
<1>10. ControllerMove
  BY <1>2, <1>3, <1>4, <1>6, <1>7, <1>8, <1>9 DEF ControllerMove
<1> QED BY <1>1, <1>2, <1>3, <1>10 DEF e

\* Accept starts advertising.
LEMMA startAdvertisingKeeps ==
  ASSUME BleIInv, startAdvertising
  PROVE  BleIInv'
<1>0. acc.at = "starts" /\ UNCHANGED <<host, links, reader, snd>> /\ (Asks(Advertises(ctl), "starting") \/ Fails("idle"))
  BY DEF startAdvertising
<1>1. CASE Asks(Advertises(ctl), "starting")
  <2>1. ctl.up /\ acc' = [acc EXCEPT !.at = "starting"]
    BY <1>1 DEF Asks
  <2>2. /\ DOMAIN ctl' = DOMAIN ctl /\ ctl'.events = Append(ctl.events, <<"answer", ctl.asked + 1>>) /\ ctl'.conn = ctl.conn
        /\ ctl'.made = ctl.made /\ ctl'.adv = (ctl.conn = NoLink) /\ ctl'.last = ctl.last /\ ctl'.up = ctl.up
        /\ ctl'.held = ctl.held /\ ctl'.torn = ctl.torn /\ ctl'.asked = ctl.asked + 1 /\ ctl'.failed = ctl.failed
    BY <1>1, BleParts DEF Asks, Tells, Advertises
  <2>3. ctl'.adv \in BOOLEAN /\ (ctl'.adv => ctl.conn = NoLink)
    BY <2>2
  <2>4. ControllerMove /\ acc'.at = "starting" /\ \A l : Told(ctl'.events, "connected", l) <=> Told(ctl.events, "connected", l)
    BY <1>0, <2>1, <2>2, <2>3, AskMoves
  <2>5. AcceptInv'
    <3>1. SUFFICES ASSUME ~ ctl.failed
                   PROVE  AcceptInv'
      BY <2>2 DEF AcceptInv
    <3>2. host.link = NoLink /\ host.newLinks = <<>> /\ \A l \in Links : ~ Told(ctl.events, "connected", l)
      BY <1>0, <3>1, BleParts DEF AcceptInv, NoneComes
    <3> QED BY <1>0, <2>4, <3>2 DEF AcceptInv
  <2> QED BY <2>4, <2>5, ControllerSteps
<1>2. CASE Fails("idle")
  BY <1>0, <1>2, FailureKeeps DEF Fails
<1> QED BY <1>0, <1>1, <1>2

\* Accept stops advertising, with a link or without.
LEMMA acceptEndsKeeps ==
  ASSUME BleIInv, AnswersInv, acceptEnds
  PROVE  BleIInv'
<1>0. /\ acc.at = "select" /\ UNCHANGED <<host, links, reader, snd>>
      /\ \/ Asks([ctl EXCEPT !.adv = FALSE], "stopping") \/ Fails("idle")
         \/ reader = <<"done">> /\ acc' = [at |-> "idle", l |-> NoLink] /\ ctl' = ctl
  BY DEF acceptEnds
<1>1. CASE Asks([ctl EXCEPT !.adv = FALSE], "stopping")
  <2>1. ctl.up /\ acc' = [acc EXCEPT !.at = "stopping"]
    BY <1>1 DEF Asks
  <2>2. /\ DOMAIN ctl' = DOMAIN ctl /\ ctl'.events = Append(ctl.events, <<"answer", ctl.asked + 1>>) /\ ctl'.conn = ctl.conn
        /\ ctl'.made = ctl.made /\ ctl'.adv = FALSE /\ ctl'.last = ctl.last /\ ctl'.up = ctl.up
        /\ ctl'.held = ctl.held /\ ctl'.torn = ctl.torn /\ ctl'.asked = ctl.asked + 1 /\ ctl'.failed = ctl.failed
    BY <1>1, BleParts DEF Asks, Tells
  <2>3. ControllerMove /\ acc'.at = "stopping" /\ <<"answer", ctl.asked + 1>> \in Events
    BY <1>0, <2>1, <2>2, AskMoves
  <2>4. \A i, j \in DOMAIN ctl'.events :
          ctl'.events[i][1] = "connected" /\ ctl'.events[j] = <<"answer", ctl'.asked>> => i < j
    <3> DEFINE n == Len(ctl.events) + 1
    <3>1. /\ Len(ctl.events) \in Nat /\ DOMAIN ctl.events = 1..Len(ctl.events) /\ DOMAIN ctl'.events = 1..n
          /\ ctl'.events[n] = <<"answer", ctl.asked + 1>> /\ \A i \in DOMAIN ctl.events : ctl'.events[i] = ctl.events[i]
      <4>1. ctl.events \in Seq(Events) /\ <<"answer", ctl.asked + 1>> \in Events
        BY <2>3, BleFields
      <4> QED BY ONLY <2>2, <4>1, Appended
    <3>2. \A i \in DOMAIN ctl'.events : i \in DOMAIN ctl.events \/ i = n
      BY ONLY <3>1
    <3>3. \A i \in DOMAIN ctl.events : i < n
      BY ONLY <3>1
    <3>4. \A i \in DOMAIN ctl.events : ctl.events[i] # <<"answer", ctl.asked + 1>>
      <4>1. ctl.asked \in Nat
        BY BleParts
      <4>2. SUFFICES ASSUME NEW i \in DOMAIN ctl.events, ctl.events[i] = <<"answer", ctl.asked + 1>>
                     PROVE  FALSE
        OBVIOUS
      <4>3. ctl.events[i][1] = "answer" /\ ctl.events[i][2] = ctl.asked + 1
        BY <4>2
      <4>4. ctl.asked + 1 <= ctl.asked
        BY <4>2, <4>3 DEF AnswersInv
      <4> QED BY ONLY <4>1, <4>4
    <3>5. ctl'.events[n][1] # "connected"
      BY <3>1
    <3> HIDE DEF n
    <3> QED BY <2>2, <3>1, <3>2, <3>3, <3>4, <3>5
  <2>5. AcceptInv'
    BY <2>2, <2>3, <2>4 DEF AcceptInv
  <2> QED BY <2>3, <2>5, ControllerSteps
<1>2. CASE Fails("idle")
  BY <1>0, <1>2, FailureKeeps DEF Fails
<1>3. CASE reader = <<"done">> /\ acc' = [at |-> "idle", l |-> NoLink] /\ ctl' = ctl
  <2>1. "idle" \in AcceptStages /\ NoLink \in Nat /\ "idle" \notin {"closes stale", "serving"} /\ ctl.failed \in BOOLEAN
    BY BleParts DEF AcceptStages, NoLink
  <2>2. ControllerMove
    BY <1>0, <1>3, <2>1, CallerMoves
  <2>3. ~ ctl.adv /\ ctl.events = <<>>
    BY <1>3, BleParts DEF LinksInv
  <2>4. NoneComes(ctl)
    BY <2>3 DEF NoneComes, Told
  <2>5. AcceptInv'
    BY <1>3, <2>4 DEF AcceptInv
  <2> QED BY <2>2, <2>5, ControllerSteps
<1> QED BY <1>0, <1>1, <1>2, <1>3

\* A command gets no answer in time.
LEMMA commandTimesOutKeeps ==
  ASSUME BleIInv, commandTimesOut
  PROVE  BleIInv'
  BY FailureKeeps DEF commandTimesOut

-----------------------------------------------------------------------------
(* The answers, and the theorem. *)

\* No answer comes before its command, when an event is told
LEMMA AnswerAfterTelling ==
  ASSUME BleIInv, AnswersInv, NEW e \in Events, ctl'.events = Append(ctl.events, e), ctl'.asked \in {ctl.asked, ctl.asked + 1},
         e[1] = "answer" => e[2] <= ctl'.asked
  PROVE  AnswersInv'
<1>1. ctl.asked \in Nat /\ ctl.asked <= ctl'.asked /\ ctl'.asked \in Nat
  <2>1. ctl.asked \in Nat
    BY BleParts
  <2> QED BY <2>1
<1>2. /\ Len(ctl.events) \in Nat /\ DOMAIN ctl.events = 1..Len(ctl.events) /\ DOMAIN ctl'.events = 1..(Len(ctl.events) + 1)
      /\ ctl'.events[Len(ctl.events) + 1] = e /\ \A i \in DOMAIN ctl.events : ctl'.events[i] = ctl.events[i]
  BY BleFields, Appended
<1>3. \A i \in DOMAIN ctl'.events : i \in DOMAIN ctl.events \/ i = Len(ctl.events) + 1
  BY ONLY <1>2
<1>4. \A i \in DOMAIN ctl.events : ctl.events[i][1] = "answer" => ctl.events[i][2] \in Nat /\ ctl.events[i][2] <= ctl.asked
  <2>1. \A i \in DOMAIN ctl.events : ctl.events[i] \in Events
    BY BleFields
  <2> QED BY <2>1, EventIs DEF AnswersInv
<1>5. \A i \in DOMAIN ctl.events : ctl.events[i][1] = "answer" => ctl.events[i][2] <= ctl'.asked
  BY ONLY <1>1, <1>4
<1> QED BY <1>2, <1>3, <1>5 DEF AnswersInv

\* and when one is taken.
LEMMA AnswerAfterTaking ==
  ASSUME BleIInv, AnswersInv, ctl.events # <<>>, Taken
  PROVE  AnswersInv'
<1>1. ctl'.events = Tail(ctl.events) /\ ctl'.asked = ctl.asked /\ ctl.events \in Seq(Events)
  BY TakenFields, BleFields
<1>2. \A i \in DOMAIN ctl'.events : i + 1 \in DOMAIN ctl.events /\ ctl'.events[i] = ctl.events[i + 1]
  BY <1>1, TakenOff
<1> QED BY <1>1, <1>2 DEF AnswersInv

\* No step answers a command that was not asked.
LEMMA AnswersKept ==
  ASSUME BleIInv, AnswersInv, BleNext
  PROVE  AnswersInv'
<1>0. /\ DOMAIN ctl = {"up", "adv", "conn", "made", "held", "events", "last", "torn", "asked", "failed"}
      /\ ctl.conn \in Nat /\ ctl.made \in Nat /\ ctl.made + 1 \in Nat /\ NoLink \in Nat /\ ctl.asked \in Nat /\ ctl.asked + 1 \in Nat
  <2>1. ctl.conn \in Nat /\ ctl.made \in Nat /\ ctl.asked \in Nat
    BY BleFields, BleParts
  <2>2. ctl.made + 1 \in Nat /\ ctl.asked + 1 \in Nat /\ NoLink \in Nat
    BY ONLY <2>1 DEF NoLink
  <2> QED BY <2>1, <2>2, BleParts
<1>1. ASSUME NEW k \in LinkKinds \union {"error"}, NEW n \in Nat, ctl'.events = Append(ctl.events, <<k, n>>), ctl'.asked = ctl.asked
      PROVE  AnswersInv'
  <2>1. <<k, n>> \in Events /\ <<k, n>>[1] # "answer"
    BY DEF Events, LinkKinds
  <2> QED BY <1>1, <2>1, AnswerAfterTelling
<1>2. ASSUME ctl'.events = ctl.events, ctl'.asked = ctl.asked
      PROVE  AnswersInv'
  BY <1>2 DEF AnswersInv
<1>3. CASE Connects
  <2>1. ctl'.events = Append(ctl.events, <<"connected", ctl.made + 1>>) /\ ctl'.asked = ctl.asked
    BY <1>0, <1>3 DEF Connects, Tells
  <2> QED BY <1>0, <1>1, <2>1 DEF LinkKinds
<1>4. ASSUME ctl' = Dropped(ctl)
      PROVE  AnswersInv'
  <2>1. ctl'.events = Append(ctl.events, <<"disconnected", ctl.conn>>) /\ ctl'.asked = ctl.asked
    BY <1>0, <1>4 DEF Dropped, Tells
  <2> QED BY <1>0, <1>1, <2>1 DEF LinkKinds
<1>5. CASE CentralLeaves
  BY <1>4, <1>5 DEF CentralLeaves
<1>6. ASSUME NEW k \in {"subscribes", "asks"}, CentralWrites(k)
      PROVE  AnswersInv'
  <2>1. ctl'.events = Append(ctl.events, <<k, ctl.conn>>) /\ ctl'.asked = ctl.asked
    BY <1>0, <1>6 DEF CentralWrites, Tells
  <2> QED BY <1>0, <1>1, <2>1 DEF LinkKinds
<1>7. CASE Transmits
  <2>1. ctl'.events = Append(ctl.events, <<"completed", ctl.conn>>) /\ ctl'.asked = ctl.asked
    BY <1>0, <1>7 DEF Transmits, Tells
  <2> QED BY <1>0, <1>1, <2>1 DEF LinkKinds
<1>8. CASE AdapterGoes
  <2>1. ctl'.events = Append(ctl.events, <<"error", NoLink>>) /\ ctl'.asked = ctl.asked
    BY <1>0, <1>8 DEF AdapterGoes, Tells
  <2> QED BY <1>0, <1>1, <2>1
<1>9. CASE onConnect \/ completedPkts \/ disconnComplete \/ readFails \/ subscribe \/ attRequest \/ answered
  <2>1. ctl.events # <<>> /\ Taken
    BY <1>9 DEF onConnect, completedPkts, disconnComplete, readFails, subscribe, attRequest, answered, NextEvent
  <2> QED BY <2>1, AnswerAfterTaking
<1>10. CASE lost \/ broadcast \/ SendFragment \/ Accept \/ acceptBegins \/ acceptDrains \/ acceptTakes
  BY <1>2, <1>10 DEF lost, broadcast, SendFragment, Accept, acceptBegins, acceptDrains, acceptTakes
<1>11. ASSUME NEW s \in Senders, awaitSub(s) \/ lockTx(s) \/ takeCredit(s) \/ writeACL(s)
       PROVE  AnswersInv'
  <2>1. CASE awaitSub(s) \/ lockTx(s) \/ takeCredit(s)
    BY <1>2, <2>1 DEF awaitSub, lockTx, takeCredit
  <2>2. CASE writeACL(s)
    <3>1. ctl'.events = ctl.events /\ ctl'.asked = ctl.asked
      BY <1>0, <2>2 DEF writeACL
    <3> QED BY <1>2, <3>1
  <2> QED BY <1>11, <2>1, <2>2
<1>12. CASE CloseStale \/ CloseServed
  <2>1. ctl' = ctl \/ ctl' = Dropped(ctl)
    BY <1>12 DEF CloseStale, CloseServed, CloseLink
  <2> QED BY <1>2, <1>4, <2>1
<1>13. ASSUME ctl'.events = Append(ctl.events, <<"answer", ctl.asked + 1>>), ctl'.asked = ctl.asked + 1
       PROVE  AnswersInv'
  <2>1. <<"answer", ctl.asked + 1>> \in Events /\ <<"answer", ctl.asked + 1>>[2] <= ctl.asked + 1
    BY <1>0 DEF Events
  <2> QED BY <1>13, <2>1, AnswerAfterTelling
<1>14. ASSUME ctl' = [ctl EXCEPT !.failed = TRUE]
       PROVE  AnswersInv'
  BY <1>0, <1>2, <1>14
<1>15. CASE startAdvertising
  <2>1. CASE Asks(Advertises(ctl), "starting")
    <3>1. ctl'.events = Append(ctl.events, <<"answer", ctl.asked + 1>>) /\ ctl'.asked = ctl.asked + 1
      BY <1>0, <2>1 DEF Asks, Tells, Advertises
    <3> QED BY <1>13, <3>1
  <2>2. CASE Fails("idle")
    BY <1>14, <2>2 DEF Fails
  <2> QED BY <1>15, <2>1, <2>2 DEF startAdvertising
<1>16. CASE acceptEnds
  <2>1. CASE Asks([ctl EXCEPT !.adv = FALSE], "stopping")
    <3>1. ctl'.events = Append(ctl.events, <<"answer", ctl.asked + 1>>) /\ ctl'.asked = ctl.asked + 1
      BY <1>0, <2>1 DEF Asks, Tells
    <3> QED BY <1>13, <3>1
  <2>2. CASE Fails("idle")
    BY <1>14, <2>2 DEF Fails
  <2>3. CASE ctl' = ctl
    BY <1>2, <2>3
  <2> QED BY <1>16, <2>1, <2>2, <2>3 DEF acceptEnds
<1>17. CASE commandTimesOut
  BY <1>14, <1>17 DEF commandTimesOut
<1> QED BY <1>3, <1>5, <1>6, <1>7, <1>8, <1>9, <1>10, <1>11, <1>12, <1>15, <1>16, <1>17 DEF BleNext

\* The invariant holds when the host is up.
LEMMA BleStarts ==
  ASSUME BleInit
  PROVE  BleIInv /\ AnswersInv
<1>1. /\ host.link = NoLink /\ host.credits = AclBuffers /\ host.closed = FALSE /\ host.newLinks = <<>>
      /\ ctl.up = TRUE /\ ctl.adv = FALSE /\ ctl.conn = NoLink /\ ctl.made = 0 /\ ctl.held = 0 /\ ctl.events = <<>>
      /\ ctl.torn = FALSE /\ ctl.asked = 0 /\ ctl.failed = FALSE /\ reader = <<>> /\ acc.at = "idle"
  BY DEF BleInit
<1>2. \A l \in Links : links[l] = NewLink
  BY DEF BleInit, NewLink
<1>3. \A s \in Senders : snd[s].at = "idle" /\ snd[s].off = 0
  BY DEF BleInit, IdleSender
<1>4. DOMAIN ctl.events = {} /\ ctl.events \in Seq(Events) /\ DOMAIN host.newLinks = {}
  BY <1>1
<1>5. \A k, l : ~ Told(ctl.events, k, l)
  BY <1>4 DEF Told
<1>6. BleTypeOK
  <2>1. 0 \in 0..MaxLinks /\ 0 \in 0..Last2 /\ AclBuffers \in Nat
    BY BleAssumption DEF Last2
  <2>2. host \in [link : Nat, credits : Nat, closed : BOOLEAN, newLinks : {<<>>} \union {<<l>> : l \in Links}]
    BY <2>1 DEF BleInit, NoLink
  <2>3. NewLink \in LinkType
    BY DEF NewLink, LinkType
  <2>4. links \in [Links -> LinkType]
    BY <2>3 DEF BleInit, NewLink
  <2>5. snd \in [Senders -> [at : SenderStages, l : Nat, off : 0..Last2, sent : Nat]]
    BY <2>1 DEF BleInit, IdleSender, SenderStages, NoLink
  <2>6. acc \in [at : AcceptStages, l : Nat]
    BY DEF BleInit, AcceptStages, NoLink
  <2>7. DOMAIN ctl = {"up", "adv", "conn", "made", "held", "events", "last", "torn", "asked", "failed"}
    BY DEF BleInit
  <2>8. ctl.up \in BOOLEAN /\ ctl.adv \in BOOLEAN /\ ctl.torn \in BOOLEAN /\ ctl.failed \in BOOLEAN
    BY <1>1
  <2>9. ctl.made \in 0..MaxLinks /\ ctl.held \in Nat /\ ctl.asked \in Nat
    BY <1>1, <2>1
  <2>10. reader = <<>>
    BY <1>1
  <2> QED BY ONLY <1>4, <2>2, <2>4, <2>5, <2>6, <2>7, <2>8, <2>9, <2>10 DEF BleTypeOK
<1>7. QueueInv
  <2>1. ctl.made \in Nat /\ host.link \in 0..ctl.made /\ ctl.conn \in {NoLink, ctl.made} /\ 1..ctl.made = {}
    BY <1>1 DEF NoLink
  <2> QED BY <1>1, <1>4, <2>1 DEF QueueInv, QueueOK
<1>8. LinksInv
  <2>1. NewLink.gone = FALSE /\ NewLink.tx = "free"
    BY DEF NewLink
  <2> QED BY <1>1, <1>2, <1>3, <1>4, <2>1 DEF LinksInv
<1>9. TxInv
  <2>1. NewLink.tx = "free" /\ "idle" \notin Holding
    BY DEF NewLink, Holding
  <2> QED BY <1>2, <1>3, <2>1 DEF TxInv
<1>10. CreditsInv
  BY <1>1, BleAssumption DEF CreditsInv
<1>11. PieceInv
  BY <1>1 DEF PieceInv
<1>12. NobodyOversleeps
  BY <1>3 DEF NobodyOversleeps
<1>13. AcceptInv
  BY <1>1, <1>5 DEF AcceptInv, NoneComes
<1>14. AnswersInv
  BY <1>4 DEF AnswersInv
<1> QED BY <1>6, <1>7, <1>8, <1>9, <1>10, <1>11, <1>12, <1>13, <1>14 DEF BleIInv

\* Every step keeps it.
LEMMA BleKeeps ==
  ASSUME BleIInv, AnswersInv, BleNext
  PROVE  BleIInv'
<1>1. CASE Connects
  BY <1>1, ConnectsKeeps
<1>2. CASE CentralLeaves
  BY <1>2, CentralLeavesKeeps
<1>3. CASE CentralWrites("subscribes") \/ CentralWrites("asks")
  BY <1>3, CentralWritesKeeps
<1>4. CASE Transmits
  BY <1>4, TransmitsKeeps
<1>5. CASE AdapterGoes
  BY <1>5, AdapterGoesKeeps
<1>6. CASE onConnect
  BY <1>6, onConnectKeeps
<1>7. CASE completedPkts
  BY <1>7, completedPktsKeeps
<1>8. CASE disconnComplete
  BY <1>8, disconnCompleteKeeps
<1>9. CASE readFails
  BY <1>9, readFailsKeeps
<1>10. CASE lost
  BY <1>10, lostKeeps
<1>11. CASE broadcast
  BY <1>11, broadcastKeeps
<1>12. CASE subscribe
  BY <1>12, subscribeKeeps
<1>13. CASE attRequest
  BY <1>13, attRequestKeeps
<1>14. CASE SendFragment
  BY <1>14, SendFragmentKeeps
<1>15. ASSUME NEW s \in Senders, awaitSub(s) \/ lockTx(s) \/ takeCredit(s) \/ writeACL(s)
       PROVE  BleIInv'
  BY <1>15, awaitSubKeeps, lockTxKeeps, takeCreditKeeps, writeACLKeeps
<1>16. CASE Accept
  BY <1>16, AcceptKeeps
<1>17. CASE CloseStale
  BY <1>17, CloseLinkKeeps DEF CloseStale
<1>18. CASE CloseServed
  BY <1>18, CloseLinkKeeps DEF CloseServed
<1>19. CASE acceptBegins
  BY <1>19, acceptBeginsKeeps
<1>20. CASE acceptDrains
  BY <1>20, acceptDrainsKeeps
<1>21. CASE startAdvertising
  BY <1>21, startAdvertisingKeeps
<1>22. CASE acceptTakes
  BY <1>22, acceptTakesKeeps
<1>23. CASE acceptEnds
  BY <1>23, acceptEndsKeeps
<1>24. CASE answered
  BY <1>24, answeredKeeps
<1>25. CASE commandTimesOut
  BY <1>25, commandTimesOutKeeps
<1> QED BY <1>1, <1>2, <1>3, <1>4, <1>5, <1>6, <1>7, <1>8, <1>9, <1>10, <1>11, <1>12, <1>13, <1>14, <1>15, <1>16,
           <1>17, <1>18, <1>19, <1>20, <1>21, <1>22, <1>23, <1>24, <1>25 DEF BleNext

\* So does a step of something else.
LEMMA BleStutters ==
  ASSUME BleIInv, AnswersInv, UNCHANGED bleVars
  PROVE  BleIInv' /\ AnswersInv'
<1>0. host' = host /\ links' = links /\ reader' = reader /\ snd' = snd /\ acc' = acc /\ ctl' = ctl
  BY DEF bleVars
<1>1. BleTypeOK'
  BY <1>0, BleParts DEF BleTypeOK
<1>2. QueueInv' /\ LinksInv' /\ TxInv'
  BY <1>0, BleParts DEF QueueInv, LinksInv, TxInv
<1>3. CreditsInv' /\ PieceInv'
  BY <1>0, BleParts DEF CreditsInv, PieceInv
<1>4. NobodyOversleeps'
  BY <1>0, BleParts DEF NobodyOversleeps, LinkOver
<1>5. AcceptInv' /\ AnswersInv'
  BY <1>0, BleParts DEF AcceptInv, AnswersInv
<1> QED BY <1>1, <1>2, <1>3, <1>4, <1>5 DEF BleIInv

\* The inductive invariant of the host, its controller, its senders and Accept:
\* host.go and peripheral.go with any number of links and buffers, and the
\* controller's events taken one by one while senders and Accept go on.
THEOREM BleInductive == BleSpec => [](BleIInv /\ AnswersInv)
<1>1. BleInit => BleIInv /\ AnswersInv
  BY BleStarts
<1>2. BleIInv /\ AnswersInv /\ [BleNext]_bleVars => (BleIInv /\ AnswersInv)'
  BY BleKeeps, AnswersKept, BleStutters
<1> QED BY <1>1, <1>2, PTL DEF BleSpec

\* It implies what the radio promises.
LEMMA BleServes ==
  ASSUME BleIInv
  PROVE  RadioServes
<1>1. WithinBuffers
  <2>0. host.credits \in Nat /\ ctl.held \in Nat /\ Completed(ctl.events) \in Nat
    BY BleFields
  <2>1. CASE host.link = NoLink
    <3>1. host.credits <= AclBuffers /\ ~ (ctl.held > 0)
      BY <2>1, BleParts DEF CreditsInv
    <3> QED BY <2>0, <3>1, BleAssumption DEF WithinBuffers
  <2>2. CASE host.link # NoLink
    <3>1. host.link \in Links
      BY <2>2, HostsIsMet
    <3>2. /\ host.credits + links[host.link].inFlight <= AclBuffers
          /\ Completed(ctl.events) + ctl.held + Writing(links, snd, host.link) <= links[host.link].inFlight
      BY <2>2, BleParts DEF CreditsInv
    <3>3. links[host.link].inFlight \in Nat /\ Writing(links, snd, host.link) \in Nat
      BY <3>1, BleTyped, WritingIs
    <3> QED BY <2>0, <3>2, <3>3, BleAssumption DEF WithinBuffers
  <2> QED BY <2>1, <2>2
<1>2. PiecesTogether
  BY BleParts DEF PiecesTogether, PieceInv
<1>3. AcceptHasTheLink
  <2>1. acc.at = "select" /\ host.link # NoLink /\ ~ ctl.failed => host.newLinks = <<host.link>>
    BY BleParts DEF AcceptInv
  <2>2. \A i \in DOMAIN host.newLinks : ~ links[host.newLinks[i]].accepted
    BY BleParts DEF LinksInv
  <2>3. \A l \in Links : links[l].tx # "free" => snd[links[l].tx].l = l
    BY BleParts DEF TxInv
  <2> QED BY <2>1, <2>2, <2>3 DEF AcceptHasTheLink
<1> QED BY <1>1, <1>2, <1>3, BleParts DEF RadioServes

\* Never more pieces are in the controller than it has buffers, no PDU is torn by
\* another's piece, nobody sleeps past what it waits for, and Accept has the link
\* there is (host.go: takeCredit, sendL2CAP, readLoop; peripheral.go: Accept).
THEOREM TheRadioServes == BleSpec => []RadioServes
<1>1. BleIInv => RadioServes
  BY BleServes
<1> QED BY <1>1, BleInductive, PTL
=============================================================================
