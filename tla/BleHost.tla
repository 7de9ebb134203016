------------------------------- MODULE BleHost -------------------------------
(* The peripheral on one Bluetooth controller (core/transport/ble host.go, *)
(* peripheral.go): Accept, the read loop, and the senders of notifications *)
(* and answers, which share the controller's buffers.                      *)
(*                                                                         *)
(* A step under h.mu is one step here, and so is each stretch between two  *)
(* of them.  What the controller tells comes in order, through `events`.   *)
(* A command's answer comes among the events, or not at all.  Every        *)
(* connection has a handle of its own.                                     *)
EXTENDS Integers, Sequences, SequencesExt, FiniteSets, Outcomes

CONSTANTS
  AclBuffers,    \* the controller's ACL buffers
  MaxLinks,   \* bound: the connections made
  MaxSends,   \* bound: the PDUs a sender sends
  MaxAsked    \* bound: the commands about advertising

\* The buffers are a byte or a word the controller told (host.go, init).
ASSUME BleAssumption == AclBuffers \in Nat /\ MaxLinks \in Nat

VARIABLES
  host,     \* h.link, credits, closed, newLinks
  links,    \* of a link: gone, sub, accepted, inFlight, the holder of txMu
  reader,   \* readLoop: what it has yet to do for the event in hand
  snd,      \* of a sender: where it is
  acc,      \* where Accept's caller is, and the link it serves
  ctl       \* the controller: advertising, its connection, buffers in use, what
            \* it has to tell, the piece that went out last on a connection, and
            \* whether a command about advertising has failed

bleVars == <<host, links, reader, snd, acc, ctl>>

Links == 1..MaxLinks
Senders == {"notify", "answer"}
Last2 == 1   \* a PDU is sent in the pieces 0..Last2
NoLink == 0
Then == [starting |-> "select", stopping |-> "idle"]   \* where a command's answer leads
IdleSender == [at |-> "idle", l |-> NoLink, off |-> 0, sent |-> 0]

BleInit ==
  /\ host = [link |-> NoLink, credits |-> AclBuffers, closed |-> FALSE, newLinks |-> <<>>]
  /\ links = [l \in Links |-> [gone |-> FALSE, sub |-> FALSE, accepted |-> FALSE, inFlight |-> 0, tx |-> "free"]]
  /\ reader = <<>>
  /\ snd = [s \in Senders |-> IdleSender]
  /\ acc = [at |-> "idle", l |-> NoLink]
  /\ ctl = [up |-> TRUE, adv |-> FALSE, conn |-> NoLink, made |-> 0, held |-> 0, events |-> <<>>,
            last |-> Absent, torn |-> FALSE, asked |-> 0, failed |-> FALSE]

\* cond.Broadcast: who sleeps looks again.
Woken(s) == [x \in Senders |-> IF s[x].at = "asleep for sub" THEN [s[x] EXCEPT !.at = "sub"]
                               ELSE IF s[x].at = "asleep for credit" THEN [s[x] EXCEPT !.at = "credit"] ELSE s[x]]
LinkOver(l) == host.closed \/ links[l].gone
----------------------------------------------------------------------------
(* The controller.                                                          *)

Tells(c, e) == [c EXCEPT !.events = Append(@, e)]

\* A central connects, and advertising ends with it.
Connects ==
  /\ ctl.up /\ ctl.adv /\ ctl.made < MaxLinks
  /\ LET l == ctl.made + 1 IN
     ctl' = Tells([ctl EXCEPT !.adv = FALSE, !.conn = l, !.made = l, !.last = Absent], <<"connected", l>>)
  /\ UNCHANGED <<host, links, reader, snd, acc>>
Dropped(c) == Tells([c EXCEPT !.conn = NoLink, !.held = 0, !.last = Absent], <<"disconnected", c.conn>>)
CentralLeaves ==
  /\ ctl.up /\ ctl.conn # NoLink /\ ctl' = Dropped(ctl)
  /\ UNCHANGED <<host, links, reader, snd, acc>>
Subscriptions(l) == {TRUE} \union {on \in {FALSE} : l < MaxLinks}   \* to TX's descriptor
CentralWrites(e) ==
  /\ ctl.up /\ ctl.conn # NoLink /\ <<e, ctl.conn>> \notin Range(ctl.events)
  /\ IF e = "subscribes" THEN links[ctl.conn].sub => FALSE \in Subscriptions(ctl.conn) ELSE snd["answer"].sent < MaxSends
  /\ ctl' = Tells(ctl, <<e, ctl.conn>>)
  /\ UNCHANGED <<host, links, reader, snd, acc>>
Transmits ==
  /\ ctl.up /\ ctl.held > 0
  /\ ctl' = Tells([ctl EXCEPT !.held = @ - 1], <<"completed", ctl.conn>>)
  /\ UNCHANGED <<host, links, reader, snd, acc>>
AdapterGoes ==
  /\ ctl.up /\ ctl' = Tells([ctl EXCEPT !.up = FALSE, !.adv = FALSE, !.conn = NoLink, !.held = 0, !.last = Absent], <<"error", NoLink>>)
  /\ UNCHANGED <<host, links, reader, snd, acc>>
----------------------------------------------------------------------------
(* readLoop: handleEvent and aclIn, one event at a time.                    *)

NextEvent(e) == reader = <<>> /\ ctl.events # <<>> /\ Head(ctl.events)[1] = e
Taken == ctl' = [ctl EXCEPT !.events = Tail(@)]
Its == Head(ctl.events)[2]

\* onConnect: the one link, handed to whoever accepts if there is room.
onConnect ==
  /\ NextEvent("connected") /\ Taken
  /\ host' = IF host.link # NoLink THEN host
             ELSE [host EXCEPT !.link = Its, !.newLinks = IF @ = <<>> THEN <<Its>> ELSE @]
  /\ UNCHANGED <<links, reader, snd, acc>>

\* evNumCompletedPkts.
completedPkts ==
  /\ NextEvent("completed") /\ Taken
  /\ host' = [host EXCEPT !.credits = @ + 1]
  /\ links' = [links EXCEPT ![Its].inFlight = IF host.link = Its /\ @ > 0 THEN @ - 1 ELSE @]
  /\ snd' = Woken(snd) /\ UNCHANGED <<reader, acc>>

\* evDisconnComplete: its buffers are free again, and the link is lost.
freed(l) == links[l].inFlight
disconnComplete ==
  /\ NextEvent("disconnected") /\ Taken
  /\ IF host.link = Its
     THEN /\ host' = [host EXCEPT !.link = NoLink, !.credits = @ + freed(Its)]
          /\ links' = [links EXCEPT ![Its].inFlight = 0]
          /\ reader' = <<"lost", Its>>
     ELSE UNCHANGED <<host, links, reader>>
  /\ snd' = Woken(snd) /\ UNCHANGED acc

\* The end of the read loop, when the adapter is gone.
readFails ==
  /\ NextEvent("error") /\ Taken
  /\ host' = [host EXCEPT !.closed = TRUE] /\ snd' = Woken(snd)
  /\ reader' = IF host.link = NoLink THEN <<"done">> ELSE <<"lost", host.link>>
  /\ UNCHANGED <<links, acc>>

\* Link.lost, in its two parts: gone under its own lock, and then the broadcast.
lost ==
  /\ reader # <<>> /\ reader[1] = "lost"
  /\ links' = [links EXCEPT ![reader[2]].gone = TRUE]
  /\ reader' = <<"broadcast">> /\ UNCHANGED <<host, snd, acc, ctl>>
broadcast ==
  /\ reader # <<>> /\ reader[1] = "broadcast"
  /\ snd' = Woken(snd)
  /\ reader' = IF host.closed THEN <<"done">> ELSE <<>>
  /\ UNCHANGED <<host, links, acc, ctl>>

\* The central subscribes to TX, or no longer (bound: not on the last connection): the flag, and then the broadcast.
subscribe ==
  /\ NextEvent("subscribes") /\ Taken
  /\ IF host.link = Its
     THEN /\ \E on \in Subscriptions(Its) : links' = [links EXCEPT ![Its].sub = on]
          /\ reader' = <<"broadcast">>
     ELSE UNCHANGED <<links, reader>>
  /\ UNCHANGED <<host, snd, acc>>

\* A request: its answer is sent beside the read loop.
attRequest ==
  /\ NextEvent("asks") /\ Taken
  /\ snd' = IF host.link = Its /\ snd["answer"].at = "idle" /\ snd["answer"].sent < MaxSends
            THEN [snd EXCEPT !["answer"] = [at |-> "lock", l |-> Its, off |-> 0, sent |-> @.sent + 1]] ELSE snd
  /\ UNCHANGED <<host, links, reader, acc>>
----------------------------------------------------------------------------
(* SendFragment and sendL2CAP.                                              *)

At(s, a) == snd' = [snd EXCEPT ![s].at = a]
Returns(s) == snd' = [snd EXCEPT ![s] = [IdleSender EXCEPT !.sent = snd[s].sent]]
SendFragment ==
  /\ acc.at = "serving" /\ snd["notify"].at = "idle" /\ snd["notify"].sent < MaxSends
  /\ snd' = [snd EXCEPT !["notify"] = [at |-> "sub", l |-> acc.l, off |-> 0, sent |-> @.sent + 1]]
  /\ UNCHANGED <<host, links, reader, acc, ctl>>
awaitSub(s) ==
  LET l == snd[s].l IN
  /\ snd[s].at = "sub"
  /\ \/ LinkOver(l) /\ Returns(s)
     \/ ~ LinkOver(l) /\ links[l].sub /\ At(s, "lock")
     \/ ~ LinkOver(l) /\ ~ links[l].sub /\ At(s, "asleep for sub")
  /\ UNCHANGED <<host, links, reader, acc, ctl>>
lockTx_Ignored(s) ==   \* Mutant: txMu is not asked for
  /\ snd[s].at = "lock" /\ At(s, "credit")
  /\ links' = [links EXCEPT ![snd[s].l].tx = s]
  /\ UNCHANGED <<host, reader, acc, ctl>>
lockTx(s) ==
  /\ snd[s].at = "lock" /\ links[snd[s].l].tx = "free" /\ At(s, "credit")
  /\ links' = [links EXCEPT ![snd[s].l].tx = s]
  /\ UNCHANGED <<host, reader, acc, ctl>>

\* A credit for one piece, with the link looked at after the wait.
takeCredit(s) ==
  LET l == snd[s].l IN
  /\ snd[s].at = "credit"
  /\ \/ LinkOver(l) /\ Returns(s) /\ links' = [links EXCEPT ![l].tx = "free"] /\ UNCHANGED host
     \/ ~ LinkOver(l) /\ host.credits = 0 /\ At(s, "asleep for credit") /\ UNCHANGED <<host, links>>
     \/ /\ ~ LinkOver(l) /\ host.credits > 0 /\ At(s, "write")
        /\ host' = [host EXCEPT !.credits = @ - 1]
        /\ links' = [links EXCEPT ![l].inFlight = @ + 1]
  /\ UNCHANGED <<reader, acc, ctl>>

\* The piece goes to the controller, which takes none for a handle it has not.
writeACL(s) ==
  LET l == snd[s].l
      off == snd[s].off
      ends == ~ ctl.up \/ off = Last2
  IN /\ snd[s].at = "write"
     /\ ctl' = IF ctl.up /\ ctl.conn = l
               THEN [ctl EXCEPT !.held = @ + 1, !.last = <<s, off>>,
                                !.torn = @ \/ (IF off = 0 THEN ctl.last # Absent /\ ctl.last[2] # Last2
                                               ELSE ctl.last # <<s, off - 1>>)]
               ELSE ctl
     /\ IF ends THEN Returns(s) ELSE snd' = [snd EXCEPT ![s].at = "credit", ![s].off = off + 1]
     /\ links' = IF ends THEN [links EXCEPT ![l].tx = "free"] ELSE links
     /\ UNCHANGED <<host, reader, acc>>
----------------------------------------------------------------------------
(* Accept, Link.Close and Peripheral.Close.                                 *)

\* command: done by the controller and answered behind what it had to tell, or
\* done and not answered in time (commandTimesOut), or refused.  An answer that comes too
\* late is nobody's (cmdWait is emptied, and opcodes are compared).  One fails in a
\* behaviour (a bound).
Asks(done, at) ==
  /\ ctl.up /\ ctl' = Tells([done EXCEPT !.asked = @ + 1], <<"answer", ctl.asked + 1>>)
  /\ acc' = [acc EXCEPT !.at = at]
Fails(at) ==
  /\ ~ ctl.failed /\ ctl' = [ctl EXCEPT !.failed = TRUE]
  /\ acc' = [at |-> at, l |-> NoLink]
answered ==
  /\ NextEvent("answer") /\ Taken
  /\ acc' = IF acc.at \notin DOMAIN Then \/ Its # ctl.asked THEN acc
            ELSE [at |-> Then[acc.at], l |-> NoLink]
  /\ UNCHANGED <<host, links, reader, snd>>

\* Accept: who connected while nobody accepted is disconnected first.
Accept ==
  /\ acc.at = "idle"
  /\ acc' = IF host.link # NoLink /\ ~ links[host.link].accepted
            THEN [at |-> "closes stale", l |-> host.link] ELSE [at |-> "waits", l |-> NoLink]
  /\ UNCHANGED <<host, links, reader, snd, ctl>>

\* Link.Close: it has left by itself, or is disconnected, and is not waited for
\* without end.
CloseLink(at, next) ==
  /\ acc.at = at
  /\ \/ (links[acc.l].gone \/ host.closed \/ ctl.conn # acc.l) /\ UNCHANGED ctl
     \/ ~ links[acc.l].gone /\ ctl.conn = acc.l /\ ctl' \in {ctl, Dropped(ctl)}
  /\ acc' = [at |-> next, l |-> NoLink]
  /\ UNCHANGED <<host, links, reader, snd>>
CloseStale == CloseLink("closes stale", "waits")
CloseServed == CloseLink("serving", "idle")

\* The last connection must be gone, or Accept fails; a link that came and went
\* is taken out.
acceptBegins ==
  /\ acc.at = "waits"
  /\ acc' = [acc EXCEPT !.at = IF host.closed \/ host.link # NoLink THEN "idle" ELSE "drains"]
  /\ UNCHANGED <<host, links, reader, snd, ctl>>
acceptDrains ==
  /\ acc.at = "drains" /\ host' = [host EXCEPT !.newLinks = <<>>] /\ acc' = [acc EXCEPT !.at = "starts"]
  /\ UNCHANGED <<links, reader, snd, ctl>>

Advertises(c) == [c EXCEPT !.adv = c.conn = NoLink]
startAdvertising ==
  /\ acc.at = "starts" /\ ctl.asked < MaxAsked
  /\ Asks(Advertises(ctl), "starting") \/ Fails("idle")
  /\ UNCHANGED <<host, links, reader, snd>>
acceptTakes ==
  /\ acc.at = "select" /\ host.newLinks # <<>>
  /\ LET l == Head(host.newLinks) IN
     /\ acc' = [at |-> "serving", l |-> l] /\ links' = [links EXCEPT ![l].accepted = TRUE]
  /\ host' = [host EXCEPT !.newLinks = <<>>]
  /\ UNCHANGED <<reader, snd, ctl>>

\* The time is over, or the adapter is gone.
acceptEnds ==
  /\ acc.at = "select"
  /\ \/ LET off == [ctl EXCEPT !.adv = FALSE] IN (ctl.asked < MaxAsked /\ Asks(off, "stopping")) \/ Fails("idle")
     \/ reader = <<"done">> /\ acc' = [at |-> "idle", l |-> NoLink] /\ UNCHANGED ctl
  /\ UNCHANGED <<host, links, reader, snd>>
commandTimesOut ==
  /\ acc.at \in DOMAIN Then /\ ~ ctl.failed /\ acc' = [at |-> "idle", l |-> NoLink]
  /\ ctl' = [ctl EXCEPT !.failed = TRUE]
  /\ UNCHANGED <<host, links, reader, snd>>

BleNext ==
  \/ Connects \/ CentralLeaves \/ CentralWrites("subscribes") \/ CentralWrites("asks") \/ Transmits \/ AdapterGoes
  \/ onConnect \/ completedPkts \/ disconnComplete \/ readFails \/ lost \/ broadcast \/ subscribe \/ attRequest
  \/ SendFragment \/ \E s \in Senders : awaitSub(s) \/ lockTx(s) \/ takeCredit(s) \/ writeACL(s)
  \/ Accept \/ CloseStale \/ CloseServed \/ acceptBegins \/ acceptDrains \/ startAdvertising \/ acceptTakes \/ acceptEnds
  \/ answered \/ commandTimesOut
BleSpec == BleInit /\ [][BleNext]_bleVars
----------------------------------------------------------------------------
\* The controller is never sent more than it has buffers for, also when a link
\* goes with pieces under way and the next one comes.
WithinBuffers == ctl.held <= AclBuffers /\ host.credits <= AclBuffers

\* The pieces of a PDU go out one behind the other, with none of another PDU
\* between them.
PiecesTogether == ~ ctl.torn

\* Nobody sleeps past what it waits for: a sender sleeps while there is nothing
\* for it, or a broadcast is to come.
NobodyOversleeps ==
  \A s \in Senders :
    LET l == snd[s].l
        coming == reader # <<>> /\ reader[1] \in {"lost", "broadcast"}
    IN /\ snd[s].at = "asleep for sub" => (~ LinkOver(l) /\ ~ links[l].sub) \/ coming
       /\ snd[s].at = "asleep for credit" => (~ LinkOver(l) /\ host.credits = 0) \/ coming

\* While Accept waits for a phone the link there is, is on its way to it, and it
\* is given no link a second time: as long as advertising was started and stopped
\* as it was told to, no connection that nobody serves keeps a phone out.
AcceptHasTheLink ==
  /\ acc.at = "select" /\ host.link # NoLink /\ ~ ctl.failed => host.newLinks = <<host.link>>
  /\ acc.at \in {"starts", "select"} => \A i \in DOMAIN host.newLinks : ~ links[host.newLinks[i]].accepted
  /\ \A l \in Links : links[l].tx # "free" => snd[links[l].tx].l = l

\* The radio serves a phone at a time, within the controller's means.
RadioServes == WithinBuffers /\ PiecesTogether /\ NobodyOversleeps /\ AcceptHasTheLink
=============================================================================
