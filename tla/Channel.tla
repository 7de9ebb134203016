------------------------------- MODULE Channel -------------------------------
(* The sealed channel between a phone and a machine (core/attest noise.go, *)
(* transport.go; the Verifier's handling of records): the two handshakes,  *)
(* and the records after them, over a link that loses, repeats, reorders,  *)
(* damages and misdelivers what it carries.                                *)
(*                                                                         *)
(* An end is <<who, n>>, the n-th session of a phone or a machine.  A hash *)
(* is what was hashed, a DH secret the set of its two keys, a derived key  *)
(* the secrets mixed so far, and what is sealed is opened by the same key, *)
(* counter and associated data alone.                                      *)
EXTENDS Integers, Sequences, SequencesExt, FiniteSets

CONSTANT MaxRecords   \* bound: the messages an end seals

VARIABLES
  ends,   \* of an end: its Handshake and Session, or NoEnd
  air     \* the records ever sent

channelVars == <<ends, air>>

\* No handshake: one not begun, and what a message that is refused leaves.
NoEnd == [at |-> "none", idx |-> 0, h |-> <<>>]
\* No key: nil.
NoKey == <<>>
initiator(e) == e[1] = "phone"
Static(who) == <<"static", who>>
Ephemeral(e) == <<"ephemeral", e[1], e[2]>>
Junk == <<"junk">>
Sealed(k, n, ad, p) == <<"sealed", k, n, ad, p>>
IsSealed(c) == Len(c) = 5
DH(a, b) == {a, b}

messages(p) ==
  IF p = "XX" THEN <<<<"e">>, <<"e", "ee", "s", "es">>, <<"s", "se">>>>
  ELSE <<<<"e", "es", "s", "ss">>, <<"e", "ee", "se">>>>
Complete(hs) == hs.at # "none" /\ hs.idx = Len(messages(hs.pattern))
myTurn(hs) == (hs.idx % 2 = 0) = hs.initiator
----------------------------------------------------------------------------
(* The cipher and the hash of a handshake.                                 *)

mixHash(hs, x) == [hs EXCEPT !.h = Append(@, x)]
mixKey(hs, z) == [hs EXCEPT !.ck = Append(@, z), !.n = 0]
HasKey(hs) == hs.ck # <<>>

\* Encrypt and Decrypt: before the first key, as it is.
Encrypt(hs, p) == IF HasKey(hs) THEN Sealed(hs.ck, hs.n, hs.h, p) ELSE p
Opens(hs, c) == HasKey(hs) => IsSealed(c) /\ c = Sealed(hs.ck, hs.n, hs.h, c[5])
Decrypt(hs, c) == IF HasKey(hs) THEN c[5] ELSE c
Counted(hs) == IF HasKey(hs) THEN [hs EXCEPT !.n = @ + 1] ELSE hs

\* The keys a token's secret is made of: this end's, and the other's.
pair(hs, t) ==
  CASE t = "ee" -> <<hs.e, hs.re>>
    [] t = "ss" -> <<hs.s, hs.rs>>
    [] (t = "es" /\ hs.initiator) \/ (t = "se" /\ ~ hs.initiator) -> <<hs.e, hs.rs>>
    [] OTHER -> <<hs.s, hs.re>>
mixDH(hs, t) ==
  LET k == pair(hs, t) IN IF NoKey \in {k[1], k[2]} THEN NoEnd ELSE mixKey(hs, DH(k[1], k[2]))

\* newHandshake: IK's initiator knows the machine, and both mix that key in.
NewHandshake(e, p) ==
  LET known == IF p = "IK" THEN <<Static("machine")>> ELSE <<>>
      own == IF p = "IK" THEN <<Static(e[1])>> ELSE <<>>
  IN [at |-> "handshake", end |-> e, pattern |-> p, initiator |-> initiator(e), s |-> Static(e[1]),
      rs |-> IF initiator(e) /\ p = "IK" THEN Static("machine") ELSE NoKey,
      e |-> NoKey, re |-> NoKey, idx |-> 0, n |-> 0, ck |-> <<>>,
      h |-> <<p>> \o (IF initiator(e) THEN known ELSE own),
      sent |-> <<>>, got |-> <<>>, send |-> NoKey, recv |-> NoKey]

\* split: the two keys of a session.
Half(hs, i) == Append(hs.ck, {<<"half", i>>})

\* advance: at the end each direction has a key of its own.
advance_Alike(hs) ==   \* Mutant: both ends take the halves in the same order
  LET next == [hs EXCEPT !.idx = @ + 1] IN
  IF ~ Complete(next) THEN next
  ELSE [next EXCEPT !.at = "open", !.e = NoKey, !.send = Half(hs, 1), !.recv = Half(hs, 2)]
advance(hs) ==
  LET next == [hs EXCEPT !.idx = @ + 1]
      half == IF hs.initiator THEN 1 ELSE 2
  IN IF ~ Complete(next) THEN next
     ELSE [next EXCEPT !.at = "open", !.e = NoKey,
                       !.send = Half(hs, half), !.recv = Half(hs, 3 - half)]

\* WriteMessage and ReadMessage, token by token: the handshake and the parts
\* written or left; NoEnd where one is refused.
Writes(hs, parts, t) ==
  CASE t = "e" -> LET k == Ephemeral(hs.end)
                  IN [hs |-> mixHash([hs EXCEPT !.e = k], k), parts |-> Append(parts, k)]
    [] t = "s" -> LET c == Encrypt(hs, hs.s)
                  IN [hs |-> mixHash(Counted(hs), c), parts |-> Append(parts, c)]
    [] OTHER -> [hs |-> mixDH(hs, t), parts |-> parts]
WrittenOver(hs, m) ==
  LET after[i \in 0..Len(m)] ==
        IF i = 0 THEN [hs |-> hs, parts |-> <<>>] ELSE Writes(after[i - 1].hs, after[i - 1].parts, m[i])
  IN after[Len(m)]
WriteMessage(hs) ==
  LET a == WrittenOver(hs, messages(hs.pattern)[hs.idx + 1])
      c == Encrypt(a.hs, <<>>)
  IN [hs |-> advance(mixHash(Counted(a.hs), c)), parts |-> Append(a.parts, c)]

\* No key where one is to be read: what is left is shorter, or the empty payload.
Truncated(parts) == parts = <<>> \/ Head(parts) = <<>>
Reads(hs, parts, t) ==
  LET c == Head(parts) IN
  IF hs = NoEnd \/ (t \in {"e", "s"} /\ Truncated(parts)) THEN [hs |-> NoEnd, parts |-> parts]
  ELSE CASE t = "e" -> [hs |-> mixHash([hs EXCEPT !.re = c], c), parts |-> Tail(parts)]
         [] t = "s" -> [hs |-> IF Opens(hs, c) THEN mixHash(Counted([hs EXCEPT !.rs = Decrypt(hs, c)]), c) ELSE NoEnd,
                        parts |-> Tail(parts)]
         [] OTHER -> [hs |-> mixDH(hs, t), parts |-> parts]
ReadOver(hs, parts, m) ==
  LET after[i \in 0..Len(m)] ==
        IF i = 0 THEN [hs |-> hs, parts |-> parts] ELSE Reads(after[i - 1].hs, after[i - 1].parts, m[i])
  IN after[Len(m)]
ReadMessage(hs, parts) ==
  LET a == ReadOver(hs, parts, messages(hs.pattern)[hs.idx + 1])
  IN IF a.hs # NoEnd /\ Len(a.parts) = 1 /\ Opens(a.hs, a.parts[1])
     THEN advance(mixHash(Counted(a.hs), a.parts[1]))
     ELSE NoEnd
----------------------------------------------------------------------------
(* Records.                                                                *)

Sent(kind, parts) == [kind |-> kind, parts |-> parts]

\* What may come of what was sent: itself, damaged in one part, or cut short.
Arriving ==
  air \union {[r EXCEPT !.parts = SubSeq(@, 1, Len(@) - 1)] : r \in {x \in air : x.parts # <<>>}}
      \union UNION {{[r EXCEPT !.parts[i] = Junk] : i \in DOMAIN r.parts} : r \in air}

Is(e, hs) == ends' = [ends EXCEPT ![e] = hs]
EndsTalk(e) == Is(e, [ends[e] EXCEPT !.at = "over"])

\* Seal and Open, without associated data: one counter for each direction.
Seal(hs, p) == Sealed(hs.send, Len(hs.sent), <<>>, p)
OpensWith(hs, c) == IsSealed(c) /\ c[2] = hs.recv /\ c[3] = Len(hs.got)

\* Verifier.Start, and the machine's wait for it.
StartVerifier(e, p) ==
  /\ ends[e].at = "none" /\ initiator(e)
  /\ LET w == WriteMessage(NewHandshake(e, p))
     IN Is(e, w.hs) /\ air' = air \union {Sent(p, w.parts)}
AcceptHandshake(e, p) ==
  /\ ends[e].at = "none" /\ ~ initiator(e)
  /\ Is(e, NewHandshake(e, p)) /\ UNCHANGED air

\* allow, asked before IK's answer.
allowed(hs) == hs.initiator \/ hs.pattern = "XX" \/ hs.rs = Static("phone")

\* A record of the handshake: read, and answered where it is this end's turn.
Shake(e, r) ==
  LET hs == ends[e]
      got == ReadMessage(hs, r.parts)
      w == WriteMessage(got)
  IN /\ hs.at = "handshake" /\ r.kind = hs.pattern
     /\ \/ got = NoEnd /\ EndsTalk(e) /\ UNCHANGED air
        \/ got # NoEnd /\ Complete(got) /\ Is(e, got) /\ UNCHANGED air
        \/ got # NoEnd /\ ~ Complete(got) /\ ~ allowed(got) /\ EndsTalk(e) /\ UNCHANGED air
        \/ /\ got # NoEnd /\ ~ Complete(got) /\ allowed(got)
           /\ Is(e, w.hs) /\ air' = air \union {Sent(hs.pattern, w.parts)}

\* A record of another kind ends it, and a machine that waits for the other
\* handshake says so.
OtherKind(e, r) ==
  /\ ends[e].at = "handshake" /\ r.kind # ends[e].pattern
  /\ EndsTalk(e)
  /\ air' = IF ~ initiator(e) /\ r.kind \in {"XX", "IK"} THEN air \union {Sent("plain", <<>>)} ELSE air

\* SendMsg.
SendMsg(e) ==
  LET hs == ends[e]
      p == <<"message", e[1], e[2], Len(hs.sent)>>
  IN /\ hs.at = "open" /\ Len(hs.sent) < MaxRecords
     /\ Is(e, [hs EXCEPT !.sent = Append(@, p)])
     /\ air' = air \union {Sent("transport", <<Seal(hs, p)>>)}

\* RecvMsg and the Verifier's: what does not open ends the session, and a phone
\* says so in it.
RecvMsg(e, r) ==
  LET hs == ends[e]
      opens == r.kind = "transport" /\ r.parts # <<>> /\ OpensWith(hs, r.parts[1])
      error == Seal(hs, <<"error">>)
  IN /\ hs.at = "open"
     /\ \/ /\ opens /\ UNCHANGED air
           /\ Is(e, [hs EXCEPT !.got = Append(@, r.parts[1][5]),
                               !.at = IF r.parts[1][5] = <<"error">> THEN "over" ELSE @])
        \/ /\ ~ opens
           /\ Is(e, [hs EXCEPT !.at = "over", !.sent = IF initiator(e) THEN Append(@, <<"error">>) ELSE @])
           /\ air' = IF initiator(e) THEN air \union {Sent("transport", <<error>>)} ELSE air

ChannelInit(E) == ends = [e \in E |-> NoEnd] /\ air = {}
ChannelNext ==
  \E e \in DOMAIN ends :
    \/ \E p \in {"XX", "IK"} : StartVerifier(e, p) \/ AcceptHandshake(e, p)
    \/ SendMsg(e)
    \/ \E r \in Arriving : Shake(e, r) \/ OtherKind(e, r) \/ RecvMsg(e, r)
ChannelSpec(E) == ChannelInit(E) /\ [][ChannelNext]_channelVars
----------------------------------------------------------------------------
Done == {e \in DOMAIN ends : Complete(ends[e])}
Peers(e) == {f \in Done \ {e} : ends[f].h = ends[e].h}

\* One channel binding is of one phone and one machine, which each hold the
\* other's key, in one handshake, each opening what the other seals.
BindingIsOfTwo ==
  \A e \in Done : \A f \in Peers(e) :
    /\ Peers(e) = {f} /\ initiator(e) # initiator(f) /\ ends[e].pattern = ends[f].pattern
    /\ ends[e].rs = ends[f].s /\ ends[f].rs = ends[e].s
    /\ ends[e].send = ends[f].recv /\ ends[f].send = ends[e].recv

\* An end whose peer is to have answered has one: a phone that comes to the end
\* of IK speaks with the machine it is enrolled at, a machine that comes to the
\* end of XX with the phone that began it.
AnswerIsOfThePeer ==
  \A e \in Done : initiator(e) = (ends[e].pattern = "IK") => Peers(e) # {}

\* What an end has opened is what its peer sealed, from the first on, in order
\* and each once; a handshake that was sent again opens nothing.
OpensInOrder ==
  \A e \in Done : ends[e].got # <<>> => \E f \in Peers(e) : IsPrefix(ends[e].got, ends[f].sent)

\* A session is between one phone and one machine, which know each other's keys,
\* and carries what each says to the other, whatever the link does with it
\* (core/attest noise.go, transport.go).
TalkIsBetweenTwo == BindingIsOfTwo /\ AnswerIsOfThePeer /\ OpensInOrder
=============================================================================
