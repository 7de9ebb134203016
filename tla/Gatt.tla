-------------------------------- MODULE Gatt --------------------------------
(* The attribute server of the peripheral (core/transport/ble att.go): its  *)
(* database, what it answers to each request at the MTU agreed, and the     *)
(* reassembly of what comes in pieces (host.go, aclIn).  A value is known   *)
(* by its length; an answer is the handles it names and how long it is.     *)
EXTENDS Integers, Sequences, SequencesExt, FiniteSets, Outcomes

CONSTANT InfoLengths   \* the lengths of INFO that are looked at

defaultATTMTU == 23
maxATTMTU == 247
maxL2CAPPDU == maxATTMTU + 4
maxAttrValueSize == 512

Clients == {0, 23, 40, 247, 517}   \* the MTUs asked for that are looked at

Primary == "primary"
Characteristic == "characteristic"
Long == {"RX", "TX", "INFO"}
TypeLength(a) == IF a.typ \in Long THEN 16 ELSE 2
Uuid(u) == IF u \in Long \union {"kira"} THEN 16 ELSE 2

Service(u, last) == [typ |-> Primary, len |-> Uuid(u), readable |-> TRUE, writable |-> FALSE, end |-> last, of |-> u]
charDecl(u, at) == [typ |-> Characteristic, len |-> 3 + Uuid(u), readable |-> TRUE, writable |-> FALSE, end |-> at, of |-> u]
Value(u, len, r, w) == [typ |-> u, len |-> len, readable |-> r, writable |-> w, end |-> 0, of |-> u]

\* newGATTDB: handle i is attrs[i].
newGATTDB(name, info) ==
  << Service("GAP", 5),
       charDecl("name", 3), Value("name", name, TRUE, FALSE),
       charDecl("appearance", 5), Value("appearance", 2, TRUE, FALSE),
     Service("kira", 13),
       charDecl("RX", 8), Value("RX", 0, FALSE, TRUE),
       charDecl("TX", 10), Value("TX", 0, FALSE, FALSE), Value("CCC", 2, TRUE, TRUE),
       charDecl("INFO", 13), Value("INFO", info, TRUE, FALSE) >>

Smaller(a, b) == IF a <= b THEN a ELSE b

\* handle, attExchangeMTUReq.
exchangeMTU(client) == IF client < defaultATTMTU THEN defaultATTMTU ELSE Smaller(client, maxATTMTU)
maxNotify(mtu) == mtu - 3

\* The answers that list attributes: those asked for in the range, as many as
\* are of one size and fit.
Entries(db, start, end) == SelectSeq([i \in 1..Len(db) |-> i], LAMBDA i : start <= i /\ i <= end)
Listed(handles, Size(_), head, mtu) ==
  LET Fits(n) == /\ \A k \in 1..n : Size(handles[k]) = Size(handles[1])
                 /\ head + n * Size(handles[1]) <= mtu
      n == CHOOSE k \in 0..Len(handles) : Fits(k) /\ (k = Len(handles) \/ ~ Fits(k + 1))
  IN IF handles = <<>> THEN Refused
     ELSE [handles |-> SubSeq(handles, 1, n), len |-> head + n * Size(handles[1])]

findInfo(db, start, end, mtu) ==
  Listed(Entries(db, start, end), LAMBDA i : 2 + TypeLength(db[i]), 2, mtu)
readByType(db, start, end, typ, mtu) ==
  LET all == SelectSeq(Entries(db, start, end), LAMBDA i : db[i].typ = typ)
      Size(i) == IF db[i].readable THEN 2 + Smaller(db[i].len, Smaller(mtu - 4, 253)) ELSE 0
  IN IF all # <<>> /\ ~ db[all[1]].readable THEN Refused ELSE Listed(all, Size, 2, mtu)
readByGroup(db, start, end, mtu) ==
  Listed(SelectSeq(Entries(db, start, end), LAMBDA i : db[i].typ = Primary), LAMBDA i : 4 + db[i].len, 2, mtu)
findByType(db, start, end, u, mtu) ==
  Listed(SelectSeq(Entries(db, start, end), LAMBDA i : db[i].typ = Primary /\ db[i].of = u), LAMBDA i : 4, 1, mtu)

\* attReadReq and attReadBlobReq: the length answered, from an offset.
readValue(db, h, off, mtu) ==
  IF h \notin DOMAIN db \/ ~ db[h].readable \/ off > db[h].len THEN Refused
  ELSE Smaller(db[h].len - off, mtu - 1)

\* write: what a write of a length to a handle is.
writeValue(db, h, len) ==
  CASE h \notin DOMAIN db -> "invalid handle"
    [] h \in DOMAIN db /\ ~ db[h].writable -> "not permitted"
    [] h \in DOMAIN db /\ db[h].typ = "CCC" -> IF len = 2 THEN "subscribe" ELSE "invalid length"
    [] h \in DOMAIN db /\ db[h].typ = "RX" -> IF len \in 1..maxAttrValueSize THEN "deliver" ELSE "invalid length"
    [] OTHER -> "not permitted"
\* The advertisement: flags and the service; in the scan response its data.
adLimit == 31
advertisingData == 3 + 2 + 16
scanResponseData(n) == IF n = 0 THEN 0 ELSE 2 + 16 + n
ServiceData == 1 + 4 + 8   \* attest.BuildServiceData: flags, prand, tag
AdvertisementFits == advertisingData <= adLimit /\ scanResponseData(ServiceData) <= adLimit

----------------------------------------------------------------------------
(* How a central uses it: it asks again from behind the last handle it was  *)
(* told, until there is none; a value's rest from where the last ended.     *)

Databases == {newGATTDB(9, n) : n \in InfoLengths}
MTUs == {exchangeMTU(c) : c \in Clients}

found[ask \in {"info", "chars", "groups"}, db \in Databases, mtu \in MTUs, from \in 1..14] ==
  LET r == CASE ask = "info" -> findInfo(db, from, 65535, mtu)
             [] ask = "chars" -> readByType(db, from, 65535, Characteristic, mtu)
             [] OTHER -> readByGroup(db, from, 65535, mtu)
  IN IF r = Refused \/ r.handles = <<>> THEN {} ELSE
     IF r.len > mtu THEN {0} ELSE Range(r.handles) \union found[ask, db, mtu, 1 + Last(r.handles)]

readAll[db \in Databases, h \in 1..13, mtu \in {23, 40, 247}, off \in 0..600] ==
  LET n == readValue(db, h, off, mtu) IN
  CASE n = Refused -> Refused
    [] n # Refused /\ n < mtu - 1 -> off + n
    [] OTHER -> readAll[db, h, mtu, off + n]

\* A central finds every attribute, characteristic and service there is whatever
\* the MTU, no answer longer than it, reads every value whole, and a declared
\* characteristic is where its declaration says it is.
DiscoveryFindsAll(info, client) ==
  LET db == newGATTDB(9, info)
      mtu == exchangeMTU(client)
      OfType(t) == {i \in DOMAIN db : db[i].typ = t}
  IN /\ AdvertisementFits
     /\ found["info", db, mtu, 1] = DOMAIN db
     /\ found["chars", db, mtu, 1] = OfType(Characteristic)
     /\ found["groups", db, mtu, 1] = OfType(Primary)
     /\ findByType(db, 1, 65535, "kira", mtu).handles = <<6>>
     /\ \A i \in OfType(Characteristic) : db[i].of = db[db[i].end].typ
     /\ \A i \in OfType(Primary) : \A j \in OfType(Primary) : j > i => j > db[i].end
     /\ \A h \in DOMAIN db : db[h].readable => readAll[db, h, mtu, 0] = db[h].len
     /\ \A h \in DOMAIN db : writeValue(db, h, maxNotify(mtu)) = "deliver" <=> db[h].of = "RX" /\ db[h].writable
----------------------------------------------------------------------------
(* Reassembly: a piece is [first, size]; the first of a PDU says how long   *)
(* the PDU is.                                                              *)

NoPDU == [rx |-> Absent, len |-> 0, out |-> <<>>, dropped |-> FALSE]
aclIn(s, p) ==
  LET len == IF p.first THEN p.total ELSE s.len
      rx == IF p.first THEN p.size ELSE s.rx + p.size
  IN CASE s.dropped \/ (p.first /\ p.size < 4) \/ (~ p.first /\ s.rx = Absent) -> s
       [] ~ (s.dropped \/ (p.first /\ p.size < 4) \/ (~ p.first /\ s.rx = Absent)) ->
            IF len > maxL2CAPPDU \/ rx > len THEN [s EXCEPT !.dropped = TRUE]
            ELSE IF rx < len THEN [s EXCEPT !.rx = rx, !.len = len]
            ELSE [s EXCEPT !.rx = Absent, !.out = Append(@, len)]

\* sendL2CAP: a PDU in pieces of the controller's buffer size.
Pieces(total, max) ==
  [i \in 1..((total + max - 1) \div max) |->
     [first |-> i = 1, total |-> total, size |-> Smaller(max, total - (i - 1) * max)]]

\* init: the LE buffers <<length, number>>, or those of BR/EDR where LE has none
\* of its own; and no more in one than the largest LE payload.
maxLEACL == 251
controllerBuffers(le, br) ==
  LET b == IF 0 \in {le[1], le[2]} THEN br ELSE le
  IN IF b[1] < 27 \/ b[2] = 0 THEN Refused ELSE [max |-> Smaller(b[1], maxLEACL), num |-> b[2]]

\* PDUs cut to any controller's buffer size come out whole and in order, also
\* behind one that was cut off; one that is too long, or longer than it says, ends
\* the link; and a notification at the largest MTU goes out in one piece where the
\* controller's buffers take it.
PiecesJoin(a, b, le, br) ==
  controllerBuffers(le, br) # Refused =>
  LET max == controllerBuffers(le, br).max
      Join(s) == FoldLeft(aclIn, NoPDU, s)
      fits == a <= maxL2CAPPDU /\ b <= maxL2CAPPDU
      whole == Join(Pieces(a, max) \o Pieces(b, max))
      cut == Join(Front(Pieces(a, max)) \o Pieces(b, max))
      late == Join(Pieces(a, max) \o <<[first |-> FALSE, total |-> 0, size |-> max]>> \o Pieces(b, max))
      over == Join(Front(Pieces(a, max)) \o <<[first |-> FALSE, total |-> 0, size |-> max + 1]>>)
  IN /\ fits => /\ whole.out = <<a, b>> /\ ~ whole.dropped
                /\ cut.out = <<b>> /\ late.out = <<a, b>>
     /\ ~ fits => whole.dropped
     /\ Len(Pieces(a, max)) > 1 => over.dropped /\ over.out = <<>>
     /\ max = maxLEACL => Len(Pieces(4 + 3 + maxNotify(maxATTMTU), max)) = 1
=============================================================================
