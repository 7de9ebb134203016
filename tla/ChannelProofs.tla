----------------------------- MODULE ChannelProofs -----------------------------
(***************************************************************************)
(* The sealed channel keeps what it promises (TalkIsBetweenTwo), for any   *)
(* number of sessions of a phone and of any machines, any MaxRecords and a *)
(* link that loses, repeats, reorders, damages and misdelivers.            *)
(*                                                                         *)
(* What is promised speaks of ends that have finished, and is not kept by  *)
(* a step by itself: that an end which opens a record has a peer that      *)
(* sealed it next needs to know what every other end holds, and what the   *)
(* link can carry.  The inductive invariant is TalkInv:                    *)
(*   EndsOK    each end is at one of nine stages (Stage), and its hash and *)
(*             its secrets are spelled out there;                          *)
(*   AirOK     whatever is sealed and was ever sent was sealed by an end,  *)
(*             in its handshake (Shook) or after it (Told);                *)
(*   Answered  an end that finished by a message has a peer;               *)
(*   InOrder   what an end has opened is the beginning of what its peer    *)
(*             sealed.                                                     *)
(* The argument: (1) what each of the five messages writes and reads,      *)
(* token by token; (2) so each stage leads to the next; (3) a hash names   *)
(* both ends' keys, so two ends with one hash are a phone and a machine    *)
(* that match; (4) a sealed part names all that was hashed before it, so   *)
(* the last message is of one handshake alone; (5) a session's keys seal   *)
(* nothing in a handshake and are shared with the peer alone; (6) each     *)
(* action keeps TalkInv.                                                   *)
(*                                                                         *)
(* What is assumed of an end is that it is a pair: whose it is, and which  *)
(* of its sessions.                                                        *)
(*                                                                         *)
(* At the end: what BootCode's algorithms promise, for any keys, sessions, *)
(* public areas, layouts and peppers.  That the draws always make a layout *)
(* would be an induction over them: a swap keeps one (SwapKeepsLayout).    *)
(***************************************************************************)
EXTENDS Channel, BootCode, TLAPS
-----------------------------------------------------------------------------
(* Tuples, and what is made of them.                                       *)

\* Sequences that agree at every index are one.
LEMMA SameSeq ==
  ASSUME NEW S, NEW s \in Seq(S), NEW t \in Seq(S), Len(s) = Len(t), \A i \in 1..Len(s) : s[i] = t[i]
  PROVE  s = t
OBVIOUS

\* A tuple with one more at its end.
LEMMA Append1 ==
  ASSUME NEW a, NEW b
  PROVE  Append(<<a>>, b) = <<a, b>>
<1> DEFINE S == {a, b}
           s == Append(<<a>>, b)
           t == <<a, b>>
<1>1. <<a>> \in Seq(S) /\ b \in S /\ t \in Seq(S)
  OBVIOUS
<1>2. Len(s) = 2 /\ s[1] = a /\ s[2] = b /\ s \in Seq(S)
  BY <1>1
<1>3. Len(t) = 2 /\ t[1] = a /\ t[2] = b
  OBVIOUS
<1> HIDE DEF s, t, S
<1>4. \A n \in 1..Len(s) : s[n] = t[n]
  BY <1>2, <1>3
<1>5. s = t
  BY <1>1, <1>2, <1>3, <1>4, SameSeq
<1> QED
  BY <1>5 DEF s, t

LEMMA Append2 ==
  ASSUME NEW a, NEW b, NEW c
  PROVE  Append(<<a, b>>, c) = <<a, b, c>>
<1> DEFINE S == {a, b, c}
           s == Append(<<a, b>>, c)
           t == <<a, b, c>>
<1>1. <<a, b>> \in Seq(S) /\ c \in S /\ t \in Seq(S)
  OBVIOUS
<1>2. Len(s) = 3 /\ s[1] = a /\ s[2] = b /\ s[3] = c /\ s \in Seq(S)
  BY <1>1
<1>3. Len(t) = 3 /\ t[1] = a /\ t[2] = b /\ t[3] = c
  OBVIOUS
<1> HIDE DEF s, t, S
<1>4. \A n \in 1..Len(s) : s[n] = t[n]
  BY <1>2, <1>3
<1>5. s = t
  BY <1>1, <1>2, <1>3, <1>4, SameSeq
<1> QED
  BY <1>5 DEF s, t

LEMMA Append3 ==
  ASSUME NEW a, NEW b, NEW c, NEW d
  PROVE  Append(<<a, b, c>>, d) = <<a, b, c, d>>
<1> DEFINE S == {a, b, c, d}
           s == Append(<<a, b, c>>, d)
           t == <<a, b, c, d>>
<1>1. <<a, b, c>> \in Seq(S) /\ d \in S /\ t \in Seq(S)
  OBVIOUS
<1>2. Len(s) = 4 /\ s[1] = a /\ s[2] = b /\ s[3] = c /\ s[4] = d /\ s \in Seq(S)
  BY <1>1
<1>3. Len(t) = 4 /\ t[1] = a /\ t[2] = b /\ t[3] = c /\ t[4] = d
  OBVIOUS
<1> HIDE DEF s, t, S
<1>4. \A n \in 1..Len(s) : s[n] = t[n]
  BY <1>2, <1>3
<1>5. s = t
  BY <1>1, <1>2, <1>3, <1>4, SameSeq
<1> QED
  BY <1>5 DEF s, t

LEMMA Append4 ==
  ASSUME NEW a, NEW b, NEW c, NEW d, NEW f
  PROVE  Append(<<a, b, c, d>>, f) = <<a, b, c, d, f>>
<1> DEFINE S == {a, b, c, d, f}
           s == Append(<<a, b, c, d>>, f)
           t == <<a, b, c, d, f>>
<1>1. <<a, b, c, d>> \in Seq(S) /\ f \in S /\ t \in Seq(S)
  OBVIOUS
<1>2. Len(s) = 5 /\ s[1] = a /\ s[2] = b /\ s[3] = c /\ s[4] = d /\ s[5] = f /\ s \in Seq(S)
  BY <1>1
<1>3. Len(t) = 5 /\ t[1] = a /\ t[2] = b /\ t[3] = c /\ t[4] = d /\ t[5] = f
  OBVIOUS
<1> HIDE DEF s, t, S
<1>4. \A n \in 1..Len(s) : s[n] = t[n]
  BY <1>2, <1>3
<1>5. s = t
  BY <1>1, <1>2, <1>3, <1>4, SameSeq
<1> QED
  BY <1>5 DEF s, t

LEMMA Append5 ==
  ASSUME NEW a, NEW b, NEW c, NEW d, NEW f, NEW g
  PROVE  Append(<<a, b, c, d, f>>, g) = <<a, b, c, d, f, g>>
<1> DEFINE S == {a, b, c, d, f, g}
           s == Append(<<a, b, c, d, f>>, g)
           t == <<a, b, c, d, f, g>>
<1>1. <<a, b, c, d, f>> \in Seq(S) /\ g \in S /\ t \in Seq(S)
  OBVIOUS
<1>2. Len(s) = 6 /\ s[1] = a /\ s[2] = b /\ s[3] = c /\ s[4] = d /\ s[5] = f /\ s[6] = g /\ s \in Seq(S)
  BY <1>1
<1>3. Len(t) = 6 /\ t[1] = a /\ t[2] = b /\ t[3] = c /\ t[4] = d /\ t[5] = f /\ t[6] = g
  OBVIOUS
<1> HIDE DEF s, t, S
<1>4. \A n \in 1..Len(s) : s[n] = t[n]
  BY <1>2, <1>3
<1>5. s = t
  BY <1>1, <1>2, <1>3, <1>4, SameSeq
<1> QED
  BY <1>5 DEF s, t

LEMMA Append6 ==
  ASSUME NEW a, NEW b, NEW c, NEW d, NEW f, NEW g, NEW i
  PROVE  Append(<<a, b, c, d, f, g>>, i) = <<a, b, c, d, f, g, i>>
<1> DEFINE S == {a, b, c, d, f, g, i}
           s == Append(<<a, b, c, d, f, g>>, i)
           t == <<a, b, c, d, f, g, i>>
<1>1. <<a, b, c, d, f, g>> \in Seq(S) /\ i \in S /\ t \in Seq(S)
  OBVIOUS
<1>2. Len(s) = 7 /\ s[1] = a /\ s[2] = b /\ s[3] = c /\ s[4] = d /\ s[5] = f /\ s[6] = g /\ s[7] = i /\ s \in Seq(S)
  BY <1>1
<1>3. Len(t) = 7 /\ t[1] = a /\ t[2] = b /\ t[3] = c /\ t[4] = d /\ t[5] = f /\ t[6] = g /\ t[7] = i
  OBVIOUS
<1> HIDE DEF s, t, S
<1>4. \A n \in 1..Len(s) : s[n] = t[n]
  BY <1>2, <1>3
<1>5. s = t
  BY <1>1, <1>2, <1>3, <1>4, SameSeq
<1> QED
  BY <1>5 DEF s, t

LEMMA Append7 ==
  ASSUME NEW a, NEW b, NEW c, NEW d, NEW f, NEW g, NEW i, NEW j
  PROVE  Append(<<a, b, c, d, f, g, i>>, j) = <<a, b, c, d, f, g, i, j>>
<1> DEFINE S == {a, b, c, d, f, g, i, j}
           s == Append(<<a, b, c, d, f, g, i>>, j)
           t == <<a, b, c, d, f, g, i, j>>
<1>1. <<a, b, c, d, f, g, i>> \in Seq(S) /\ j \in S /\ t \in Seq(S)
  OBVIOUS
<1>2. Len(s) = 8 /\ s[1] = a /\ s[2] = b /\ s[3] = c /\ s[4] = d /\ s[5] = f /\ s[6] = g /\ s[7] = i /\ s[8] = j
      /\ s \in Seq(S)
  BY <1>1
<1>3. Len(t) = 8 /\ t[1] = a /\ t[2] = b /\ t[3] = c /\ t[4] = d /\ t[5] = f /\ t[6] = g /\ t[7] = i /\ t[8] = j
  OBVIOUS
<1> HIDE DEF s, t, S
<1>4. \A n \in 1..Len(s) : s[n] = t[n]
  BY <1>2, <1>3
<1>5. s = t
  BY <1>1, <1>2, <1>3, <1>4, SameSeq
<1> QED
  BY <1>5 DEF s, t

\* Nothing is sealed alike in two ways: Encrypt has no collisions.
LEMMA SealedIs ==
  ASSUME NEW k, NEW n, NEW ad, NEW p, NEW k2, NEW n2, NEW ad2, NEW p2,
         Sealed(k, n, ad, p) = Sealed(k2, n2, ad2, p2)
  PROVE  k = k2 /\ n = n2 /\ ad = ad2 /\ p = p2
BY DEF Sealed

\* An ephemeral key is of one end.
LEMMA EphemeralIs ==
  ASSUME NEW W, NEW N, NEW e \in W \X N, NEW f \in W \X N, Ephemeral(e) = Ephemeral(f)
  PROVE  e = f
BY DEF Ephemeral

\* What is sealed is told from a key and from junk by its length.
LEMMA Lengths ==
  ASSUME NEW e, NEW k, NEW n, NEW ad, NEW p
  PROVE  /\ Len(Sealed(k, n, ad, p)) = 5 /\ Len(Ephemeral(e)) = 3 /\ Len(Junk) = 1 /\ Len(<<>>) = 0
         /\ Sealed(k, n, ad, p)[2] = k /\ Sealed(k, n, ad, p)[3] = n /\ Sealed(k, n, ad, p)[4] = ad
         /\ Sealed(k, n, ad, p)[5] = p
         /\ Ephemeral(e) # <<>> /\ \A w : Static(w) # <<>>
BY DEF Sealed, Ephemeral, Junk, Static
-----------------------------------------------------------------------------
(* The tokens of a message.                                                *)

\* What a Handshake holds.
Fields == {"at", "end", "pattern", "initiator", "s", "rs", "e", "re", "idx", "n", "ck", "h", "sent", "got",
           "send", "recv"}

\* What mixing does not touch.
Kept(x, y) ==
  /\ DOMAIN x = Fields /\ x.at = y.at /\ x.end = y.end /\ x.pattern = y.pattern /\ x.initiator = y.initiator
  /\ x.s = y.s /\ x.idx = y.idx /\ x.sent = y.sent /\ x.got = y.got /\ x.send = y.send /\ x.recv = y.recv
Mixed(x, y, e, re, rs, ck, h) ==
  Kept(x, y) /\ x.e = e /\ x.re = re /\ x.rs = rs /\ x.ck = ck /\ x.h = h

\* "e": the key, in the clear and hashed.
LEMMA WritesE ==
  ASSUME NEW hs, DOMAIN hs = Fields, NEW parts, NEW w, w = Writes(hs, parts, "e")
  PROVE  /\ Mixed(w.hs, hs, Ephemeral(hs.end), hs.re, hs.rs, hs.ck, Append(hs.h, Ephemeral(hs.end)))
         /\ w.parts = Append(parts, Ephemeral(hs.end))
BY DEF Writes, mixHash, Mixed, Kept, Fields

\* Counting, hashing and mixing a key in touch nothing else.
LEMMA CountedIs ==
  ASSUME NEW hs, DOMAIN hs = Fields
  PROVE  Mixed(Counted(hs), hs, hs.e, hs.re, hs.rs, hs.ck, hs.h)
BY DEF Counted, HasKey, Mixed, Kept, Fields

LEMMA HashIs ==
  ASSUME NEW hs, DOMAIN hs = Fields, NEW x
  PROVE  Mixed(mixHash(hs, x), hs, hs.e, hs.re, hs.rs, hs.ck, Append(hs.h, x))
BY DEF mixHash, Mixed, Kept, Fields

LEMMA KeyIs ==
  ASSUME NEW hs, DOMAIN hs = Fields, NEW z
  PROVE  Mixed(mixKey(hs, z), hs, hs.e, hs.re, hs.rs, Append(hs.ck, z), hs.h)
BY DEF mixKey, Mixed, Kept, Fields
\* The five first values of a function by cases.
LEMMA FiveAre ==
  ASSUME NEW a0, NEW a1, NEW a2, NEW a3, NEW a4, NEW g,
         g = [i \in 0..4 |-> IF i = 0 THEN a0 ELSE IF i = 1 THEN a1 ELSE IF i = 2 THEN a2 ELSE IF i = 3 THEN a3
             ELSE a4]
  PROVE  g[0] = a0 /\ g[1] = a1 /\ g[2] = a2 /\ g[3] = a3 /\ g[4] = a4
<1>1. 0 \in 0..4 /\ 1 \in 0..4 /\ 2 \in 0..4 /\ 3 \in 0..4 /\ 4 \in 0..4
  OBVIOUS
<1>2. QED
  BY <1>1

\* WriteMessage's loop over one token, and over two, three and four.
LEMMA Written1 ==
  ASSUME NEW hs, NEW m, Len(m) = 1, NEW a1,
         a1 = Writes(hs, <<>>, m[1])
  PROVE  WrittenOver(hs, m) = a1
<1> DEFINE a0 == [hs |-> hs, parts |-> <<>>]
           Step(f) == [i \in 0..1 |-> IF i = 0 THEN a0 ELSE Writes(f[i - 1].hs, f[i - 1].parts, m[i])]
           after == CHOOSE f : f = Step(f)
           g == [i \in 0..1 |-> IF i = 0 THEN a0 ELSE a1]
<1>1. a1 = Writes(a0.hs, a0.parts, m[1])
  OBVIOUS
<1>2. g = Step(g)
  <2> HIDE DEF a0
  <2>1. \A i \in 0..1 : g[i] = IF i = 0 THEN a0 ELSE Writes(g[i - 1].hs, g[i - 1].parts, m[i])
    <3>1. g[0] = a0 /\ g[1] = a1
      OBVIOUS
    <3> HIDE DEF g
    <3>2. \A i \in 1..1 : i \in {1}
      OBVIOUS
    <3>3. ASSUME NEW i \in 1..1
          PROVE  g[i] = Writes(g[i - 1].hs, g[i - 1].parts, m[i])
      <4>1. CASE i = 1
        <5>1. i - 1 = 0
          BY <4>1
        <5> QED
          BY ONLY <1>1, <3>1, <4>1, <5>1
      <4> QED
        BY <3>2, <4>1
    <3>4. \A i \in 0..1 : i # 0 => i \in 1..1
      OBVIOUS
    <3>5. QED
      BY ONLY <3>1, <3>3, <3>4
  <2>2. g = [i \in 0..1 |-> g[i]]
    OBVIOUS
  <2> HIDE DEF g
  <2>3. [i \in 0..1 |-> g[i]] = Step(g)
    BY <2>1
  <2>4. QED
    BY <2>2, <2>3
<1>3. after = Step(after)
  <2> HIDE DEF Step, g
  <2>1. QED
    BY <1>2
<1>4. WrittenOver(hs, m) = after[1]
  BY DEF WrittenOver
<1>5. after[0] = a0 /\ \A i \in 1..1 : after[i] = Writes(after[i - 1].hs, after[i - 1].parts, m[i])
  <2> HIDE DEF after, a0
  <2>1. QED
    BY <1>3
<1> HIDE DEF after, a0
<1>6. after[1] = a1
  <2>1. 1 \in 1..1 /\ 1 - 1 = 0
    OBVIOUS
  <2>2. after[1] = Writes(after[0].hs, after[0].parts, m[1])
    BY ONLY <1>5, <2>1
  <2>3. QED
    BY ONLY <2>2, <1>1, <1>5
<1>7. QED
  BY <1>4, <1>6

LEMMA Written2 ==
  ASSUME NEW hs, NEW m, Len(m) = 2, NEW a1, NEW a2,
         a1 = Writes(hs, <<>>, m[1]), a2 = Writes(a1.hs, a1.parts, m[2])
  PROVE  WrittenOver(hs, m) = a2
<1> DEFINE a0 == [hs |-> hs, parts |-> <<>>]
           Step(f) == [i \in 0..2 |-> IF i = 0 THEN a0 ELSE Writes(f[i - 1].hs, f[i - 1].parts, m[i])]
           after == CHOOSE f : f = Step(f)
           g == [i \in 0..2 |-> IF i = 0 THEN a0 ELSE IF i = 1 THEN a1 ELSE a2]
<1>1. a1 = Writes(a0.hs, a0.parts, m[1])
  OBVIOUS
<1>2. g = Step(g)
  <2> HIDE DEF a0
  <2>1. \A i \in 0..2 : g[i] = IF i = 0 THEN a0 ELSE Writes(g[i - 1].hs, g[i - 1].parts, m[i])
    <3>1. g[0] = a0 /\ g[1] = a1 /\ g[2] = a2
      OBVIOUS
    <3> HIDE DEF g
    <3>2. \A i \in 1..2 : i \in {1, 2}
      OBVIOUS
    <3>3. ASSUME NEW i \in 1..2
          PROVE  g[i] = Writes(g[i - 1].hs, g[i - 1].parts, m[i])
      <4>1. CASE i = 1
        <5>1. i - 1 = 0
          BY <4>1
        <5> QED
          BY ONLY <1>1, <3>1, <4>1, <5>1
      <4>2. CASE i = 2
        <5>1. i - 1 = 1
          BY <4>2
        <5> QED
          BY ONLY <1>1, <3>1, <4>2, <5>1, a2 = Writes(a1.hs, a1.parts, m[2])
      <4> QED
        BY <3>2, <4>1, <4>2
    <3>4. \A i \in 0..2 : i # 0 => i \in 1..2
      OBVIOUS
    <3>5. QED
      BY ONLY <3>1, <3>3, <3>4
  <2>2. g = [i \in 0..2 |-> g[i]]
    OBVIOUS
  <2> HIDE DEF g
  <2>3. [i \in 0..2 |-> g[i]] = Step(g)
    BY <2>1
  <2>4. QED
    BY <2>2, <2>3
<1>3. after = Step(after)
  <2> HIDE DEF Step, g
  <2>1. QED
    BY <1>2
<1>4. WrittenOver(hs, m) = after[2]
  BY DEF WrittenOver
<1>5. after[0] = a0 /\ \A i \in 1..2 : after[i] = Writes(after[i - 1].hs, after[i - 1].parts, m[i])
  <2> HIDE DEF after, a0
  <2>1. QED
    BY <1>3
<1> HIDE DEF after, a0
<1>6. after[1] = a1
  <2>1. 1 \in 1..2 /\ 1 - 1 = 0
    OBVIOUS
  <2>2. after[1] = Writes(after[0].hs, after[0].parts, m[1])
    BY ONLY <1>5, <2>1
  <2>3. QED
    BY ONLY <2>2, <1>1, <1>5
<1>7. after[2] = a2
  <2>1. 2 \in 1..2 /\ 2 - 1 = 1
    OBVIOUS
  <2>2. after[2] = Writes(after[1].hs, after[1].parts, m[2])
    BY ONLY <1>5, <2>1
  <2>3. QED
    BY ONLY <2>2, <1>5, <1>6, a2 = Writes(a1.hs, a1.parts, m[2])
<1>8. QED
  BY <1>4, <1>7

LEMMA Written3 ==
  ASSUME NEW hs, NEW m, Len(m) = 3, NEW a1, NEW a2, NEW a3,
         a1 = Writes(hs, <<>>, m[1]), a2 = Writes(a1.hs, a1.parts, m[2]), a3 = Writes(a2.hs, a2.parts, m[3])
  PROVE  WrittenOver(hs, m) = a3
<1> DEFINE a0 == [hs |-> hs, parts |-> <<>>]
           Step(f) == [i \in 0..3 |-> IF i = 0 THEN a0 ELSE Writes(f[i - 1].hs, f[i - 1].parts, m[i])]
           after == CHOOSE f : f = Step(f)
           g == [i \in 0..3 |-> IF i = 0 THEN a0 ELSE IF i = 1 THEN a1 ELSE IF i = 2 THEN a2 ELSE a3]
<1>1. a1 = Writes(a0.hs, a0.parts, m[1])
  OBVIOUS
<1>2. g = Step(g)
  <2> HIDE DEF a0
  <2>1. \A i \in 0..3 : g[i] = IF i = 0 THEN a0 ELSE Writes(g[i - 1].hs, g[i - 1].parts, m[i])
    <3>1. g[0] = a0 /\ g[1] = a1 /\ g[2] = a2 /\ g[3] = a3
      OBVIOUS
    <3> HIDE DEF g
    <3>2. \A i \in 1..3 : i \in {1, 2, 3}
      OBVIOUS
    <3>3. ASSUME NEW i \in 1..3
          PROVE  g[i] = Writes(g[i - 1].hs, g[i - 1].parts, m[i])
      <4>1. CASE i = 1
        <5>1. i - 1 = 0
          BY <4>1
        <5> QED
          BY ONLY <1>1, <3>1, <4>1, <5>1
      <4>2. CASE i = 2
        <5>1. i - 1 = 1
          BY <4>2
        <5> QED
          BY ONLY <1>1, <3>1, <4>2, <5>1, a2 = Writes(a1.hs, a1.parts, m[2])
      <4>3. CASE i = 3
        <5>1. i - 1 = 2
          BY <4>3
        <5> QED
          BY ONLY <1>1, <3>1, <4>3, <5>1, a3 = Writes(a2.hs, a2.parts, m[3])
      <4> QED
        BY <3>2, <4>1, <4>2, <4>3
    <3>4. \A i \in 0..3 : i # 0 => i \in 1..3
      OBVIOUS
    <3>5. QED
      BY ONLY <3>1, <3>3, <3>4
  <2>2. g = [i \in 0..3 |-> g[i]]
    OBVIOUS
  <2> HIDE DEF g
  <2>3. [i \in 0..3 |-> g[i]] = Step(g)
    BY <2>1
  <2>4. QED
    BY <2>2, <2>3
<1>3. after = Step(after)
  <2> HIDE DEF Step, g
  <2>1. QED
    BY <1>2
<1>4. WrittenOver(hs, m) = after[3]
  BY DEF WrittenOver
<1>5. after[0] = a0 /\ \A i \in 1..3 : after[i] = Writes(after[i - 1].hs, after[i - 1].parts, m[i])
  <2> HIDE DEF after, a0
  <2>1. QED
    BY <1>3
<1> HIDE DEF after, a0
<1>6. after[1] = a1
  <2>1. 1 \in 1..3 /\ 1 - 1 = 0
    OBVIOUS
  <2>2. after[1] = Writes(after[0].hs, after[0].parts, m[1])
    BY ONLY <1>5, <2>1
  <2>3. QED
    BY ONLY <2>2, <1>1, <1>5
<1>7. after[2] = a2
  <2>1. 2 \in 1..3 /\ 2 - 1 = 1
    OBVIOUS
  <2>2. after[2] = Writes(after[1].hs, after[1].parts, m[2])
    BY ONLY <1>5, <2>1
  <2>3. QED
    BY ONLY <2>2, <1>5, <1>6, a2 = Writes(a1.hs, a1.parts, m[2])
<1>8. after[3] = a3
  <2>1. 3 \in 1..3 /\ 3 - 1 = 2
    OBVIOUS
  <2>2. after[3] = Writes(after[2].hs, after[2].parts, m[3])
    BY ONLY <1>5, <2>1
  <2>3. QED
    BY ONLY <2>2, <1>5, <1>7, a3 = Writes(a2.hs, a2.parts, m[3])
<1>9. QED
  BY <1>4, <1>8

LEMMA Written4 ==
  ASSUME NEW hs, NEW m, Len(m) = 4, NEW a1, NEW a2, NEW a3, NEW a4,
         a1 = Writes(hs, <<>>, m[1]), a2 = Writes(a1.hs, a1.parts, m[2]), a3 = Writes(a2.hs, a2.parts, m[3]),
         a4 = Writes(a3.hs, a3.parts, m[4])
  PROVE  WrittenOver(hs, m) = a4
<1> DEFINE a0 == [hs |-> hs, parts |-> <<>>]
           Step(f) == [i \in 0..4 |-> IF i = 0 THEN a0 ELSE Writes(f[i - 1].hs, f[i - 1].parts, m[i])]
           after == CHOOSE f : f = Step(f)
           g == [i \in 0..4 |-> IF i = 0 THEN a0 ELSE IF i = 1 THEN a1 ELSE IF i = 2 THEN a2
               ELSE IF i = 3 THEN a3 ELSE a4]
<1>1. a1 = Writes(a0.hs, a0.parts, m[1])
  OBVIOUS
<1>2. g = Step(g)
  <2> HIDE DEF a0
  <2>1. \A i \in 0..4 : g[i] = IF i = 0 THEN a0 ELSE Writes(g[i - 1].hs, g[i - 1].parts, m[i])
    <3>1. g[0] = a0 /\ g[1] = a1 /\ g[2] = a2 /\ g[3] = a3 /\ g[4] = a4
      <4>1. g = [i \in 0..4 |-> IF i = 0 THEN a0 ELSE IF i = 1 THEN a1 ELSE IF i = 2 THEN a2
            ELSE IF i = 3 THEN a3 ELSE a4]
        OBVIOUS
      <4> HIDE DEF g
      <4>2. QED
        BY ONLY <4>1, FiveAre
    <3> HIDE DEF g
    <3>2. \A i \in 1..4 : i \in {1, 2, 3, 4}
      OBVIOUS
    <3>3. ASSUME NEW i \in 1..4
          PROVE  g[i] = Writes(g[i - 1].hs, g[i - 1].parts, m[i])
      <4>1. CASE i = 1
        <5>1. i - 1 = 0
          BY <4>1
        <5> QED
          BY ONLY <1>1, <3>1, <4>1, <5>1
      <4>2. CASE i = 2
        <5>1. i - 1 = 1
          BY <4>2
        <5> QED
          BY ONLY <1>1, <3>1, <4>2, <5>1, a2 = Writes(a1.hs, a1.parts, m[2])
      <4>3. CASE i = 3
        <5>1. i - 1 = 2
          BY <4>3
        <5> QED
          BY ONLY <1>1, <3>1, <4>3, <5>1, a3 = Writes(a2.hs, a2.parts, m[3])
      <4>4. CASE i = 4
        <5>1. i - 1 = 3
          BY <4>4
        <5> QED
          BY ONLY <1>1, <3>1, <4>4, <5>1, a4 = Writes(a3.hs, a3.parts, m[4])
      <4> QED
        BY <3>2, <4>1, <4>2, <4>3, <4>4
    <3>4. \A i \in 0..4 : i # 0 => i \in 1..4
      OBVIOUS
    <3>5. QED
      BY ONLY <3>1, <3>3, <3>4
  <2>2. g = [i \in 0..4 |-> g[i]]
    OBVIOUS
  <2> HIDE DEF g
  <2>3. [i \in 0..4 |-> g[i]] = Step(g)
    BY <2>1
  <2>4. QED
    BY <2>2, <2>3
<1>3. after = Step(after)
  <2> HIDE DEF Step, g
  <2>1. QED
    BY <1>2
<1>4. WrittenOver(hs, m) = after[4]
  BY DEF WrittenOver
<1>5. after[0] = a0 /\ \A i \in 1..4 : after[i] = Writes(after[i - 1].hs, after[i - 1].parts, m[i])
  <2> HIDE DEF after, a0
  <2>1. QED
    BY <1>3
<1> HIDE DEF after, a0
<1>6. after[1] = a1
  <2>1. 1 \in 1..4 /\ 1 - 1 = 0
    OBVIOUS
  <2>2. after[1] = Writes(after[0].hs, after[0].parts, m[1])
    BY ONLY <1>5, <2>1
  <2>3. QED
    BY ONLY <2>2, <1>1, <1>5
<1>7. after[2] = a2
  <2>1. 2 \in 1..4 /\ 2 - 1 = 1
    OBVIOUS
  <2>2. after[2] = Writes(after[1].hs, after[1].parts, m[2])
    BY ONLY <1>5, <2>1
  <2>3. QED
    BY ONLY <2>2, <1>5, <1>6, a2 = Writes(a1.hs, a1.parts, m[2])
<1>8. after[3] = a3
  <2>1. 3 \in 1..4 /\ 3 - 1 = 2
    OBVIOUS
  <2>2. after[3] = Writes(after[2].hs, after[2].parts, m[3])
    BY ONLY <1>5, <2>1
  <2>3. QED
    BY ONLY <2>2, <1>5, <1>7, a3 = Writes(a2.hs, a2.parts, m[3])
<1>9. after[4] = a4
  <2>1. 4 \in 1..4 /\ 4 - 1 = 3
    OBVIOUS
  <2>2. after[4] = Writes(after[3].hs, after[3].parts, m[4])
    BY ONLY <1>5, <2>1
  <2>3. QED
    BY ONLY <2>2, <1>5, <1>8, a4 = Writes(a3.hs, a3.parts, m[4])
<1>10. QED
  BY <1>4, <1>9

\* ReadMessage's loop over one token, and over two, three and four.
LEMMA ReadOver1 ==
  ASSUME NEW hs, NEW parts, NEW m, Len(m) = 1, NEW a1,
         a1 = Reads(hs, parts, m[1])
  PROVE  ReadOver(hs, parts, m) = a1
<1> DEFINE a0 == [hs |-> hs, parts |-> parts]
           Step(f) == [i \in 0..1 |-> IF i = 0 THEN a0 ELSE Reads(f[i - 1].hs, f[i - 1].parts, m[i])]
           after == CHOOSE f : f = Step(f)
           g == [i \in 0..1 |-> IF i = 0 THEN a0 ELSE a1]
<1>1. a1 = Reads(a0.hs, a0.parts, m[1])
  OBVIOUS
<1>2. g = Step(g)
  <2> HIDE DEF a0
  <2>1. \A i \in 0..1 : g[i] = IF i = 0 THEN a0 ELSE Reads(g[i - 1].hs, g[i - 1].parts, m[i])
    <3>1. g[0] = a0 /\ g[1] = a1
      OBVIOUS
    <3> HIDE DEF g
    <3>2. \A i \in 1..1 : i \in {1}
      OBVIOUS
    <3>3. ASSUME NEW i \in 1..1
          PROVE  g[i] = Reads(g[i - 1].hs, g[i - 1].parts, m[i])
      <4>1. CASE i = 1
        <5>1. i - 1 = 0
          BY <4>1
        <5> QED
          BY ONLY <1>1, <3>1, <4>1, <5>1
      <4> QED
        BY <3>2, <4>1
    <3>4. \A i \in 0..1 : i # 0 => i \in 1..1
      OBVIOUS
    <3>5. QED
      BY ONLY <3>1, <3>3, <3>4
  <2>2. g = [i \in 0..1 |-> g[i]]
    OBVIOUS
  <2> HIDE DEF g
  <2>3. [i \in 0..1 |-> g[i]] = Step(g)
    BY <2>1
  <2>4. QED
    BY <2>2, <2>3
<1>3. after = Step(after)
  <2> HIDE DEF Step, g
  <2>1. QED
    BY <1>2
<1>4. ReadOver(hs, parts, m) = after[1]
  BY DEF ReadOver
<1>5. after[0] = a0 /\ \A i \in 1..1 : after[i] = Reads(after[i - 1].hs, after[i - 1].parts, m[i])
  <2> HIDE DEF after, a0
  <2>1. QED
    BY <1>3
<1> HIDE DEF after, a0
<1>6. after[1] = a1
  <2>1. 1 \in 1..1 /\ 1 - 1 = 0
    OBVIOUS
  <2>2. after[1] = Reads(after[0].hs, after[0].parts, m[1])
    BY ONLY <1>5, <2>1
  <2>3. QED
    BY ONLY <2>2, <1>1, <1>5
<1>7. QED
  BY <1>4, <1>6

LEMMA ReadOver2 ==
  ASSUME NEW hs, NEW parts, NEW m, Len(m) = 2, NEW a1, NEW a2,
         a1 = Reads(hs, parts, m[1]), a2 = Reads(a1.hs, a1.parts, m[2])
  PROVE  ReadOver(hs, parts, m) = a2
<1> DEFINE a0 == [hs |-> hs, parts |-> parts]
           Step(f) == [i \in 0..2 |-> IF i = 0 THEN a0 ELSE Reads(f[i - 1].hs, f[i - 1].parts, m[i])]
           after == CHOOSE f : f = Step(f)
           g == [i \in 0..2 |-> IF i = 0 THEN a0 ELSE IF i = 1 THEN a1 ELSE a2]
<1>1. a1 = Reads(a0.hs, a0.parts, m[1])
  OBVIOUS
<1>2. g = Step(g)
  <2> HIDE DEF a0
  <2>1. \A i \in 0..2 : g[i] = IF i = 0 THEN a0 ELSE Reads(g[i - 1].hs, g[i - 1].parts, m[i])
    <3>1. g[0] = a0 /\ g[1] = a1 /\ g[2] = a2
      OBVIOUS
    <3> HIDE DEF g
    <3>2. \A i \in 1..2 : i \in {1, 2}
      OBVIOUS
    <3>3. ASSUME NEW i \in 1..2
          PROVE  g[i] = Reads(g[i - 1].hs, g[i - 1].parts, m[i])
      <4>1. CASE i = 1
        <5>1. i - 1 = 0
          BY <4>1
        <5> QED
          BY ONLY <1>1, <3>1, <4>1, <5>1
      <4>2. CASE i = 2
        <5>1. i - 1 = 1
          BY <4>2
        <5> QED
          BY ONLY <1>1, <3>1, <4>2, <5>1, a2 = Reads(a1.hs, a1.parts, m[2])
      <4> QED
        BY <3>2, <4>1, <4>2
    <3>4. \A i \in 0..2 : i # 0 => i \in 1..2
      OBVIOUS
    <3>5. QED
      BY ONLY <3>1, <3>3, <3>4
  <2>2. g = [i \in 0..2 |-> g[i]]
    OBVIOUS
  <2> HIDE DEF g
  <2>3. [i \in 0..2 |-> g[i]] = Step(g)
    BY <2>1
  <2>4. QED
    BY <2>2, <2>3
<1>3. after = Step(after)
  <2> HIDE DEF Step, g
  <2>1. QED
    BY <1>2
<1>4. ReadOver(hs, parts, m) = after[2]
  BY DEF ReadOver
<1>5. after[0] = a0 /\ \A i \in 1..2 : after[i] = Reads(after[i - 1].hs, after[i - 1].parts, m[i])
  <2> HIDE DEF after, a0
  <2>1. QED
    BY <1>3
<1> HIDE DEF after, a0
<1>6. after[1] = a1
  <2>1. 1 \in 1..2 /\ 1 - 1 = 0
    OBVIOUS
  <2>2. after[1] = Reads(after[0].hs, after[0].parts, m[1])
    BY ONLY <1>5, <2>1
  <2>3. QED
    BY ONLY <2>2, <1>1, <1>5
<1>7. after[2] = a2
  <2>1. 2 \in 1..2 /\ 2 - 1 = 1
    OBVIOUS
  <2>2. after[2] = Reads(after[1].hs, after[1].parts, m[2])
    BY ONLY <1>5, <2>1
  <2>3. QED
    BY ONLY <2>2, <1>5, <1>6, a2 = Reads(a1.hs, a1.parts, m[2])
<1>8. QED
  BY <1>4, <1>7

LEMMA ReadOver3 ==
  ASSUME NEW hs, NEW parts, NEW m, Len(m) = 3, NEW a1, NEW a2, NEW a3,
         a1 = Reads(hs, parts, m[1]), a2 = Reads(a1.hs, a1.parts, m[2]), a3 = Reads(a2.hs, a2.parts, m[3])
  PROVE  ReadOver(hs, parts, m) = a3
<1> DEFINE a0 == [hs |-> hs, parts |-> parts]
           Step(f) == [i \in 0..3 |-> IF i = 0 THEN a0 ELSE Reads(f[i - 1].hs, f[i - 1].parts, m[i])]
           after == CHOOSE f : f = Step(f)
           g == [i \in 0..3 |-> IF i = 0 THEN a0 ELSE IF i = 1 THEN a1 ELSE IF i = 2 THEN a2 ELSE a3]
<1>1. a1 = Reads(a0.hs, a0.parts, m[1])
  OBVIOUS
<1>2. g = Step(g)
  <2> HIDE DEF a0
  <2>1. \A i \in 0..3 : g[i] = IF i = 0 THEN a0 ELSE Reads(g[i - 1].hs, g[i - 1].parts, m[i])
    <3>1. g[0] = a0 /\ g[1] = a1 /\ g[2] = a2 /\ g[3] = a3
      OBVIOUS
    <3> HIDE DEF g
    <3>2. \A i \in 1..3 : i \in {1, 2, 3}
      OBVIOUS
    <3>3. ASSUME NEW i \in 1..3
          PROVE  g[i] = Reads(g[i - 1].hs, g[i - 1].parts, m[i])
      <4>1. CASE i = 1
        <5>1. i - 1 = 0
          BY <4>1
        <5> QED
          BY ONLY <1>1, <3>1, <4>1, <5>1
      <4>2. CASE i = 2
        <5>1. i - 1 = 1
          BY <4>2
        <5> QED
          BY ONLY <1>1, <3>1, <4>2, <5>1, a2 = Reads(a1.hs, a1.parts, m[2])
      <4>3. CASE i = 3
        <5>1. i - 1 = 2
          BY <4>3
        <5> QED
          BY ONLY <1>1, <3>1, <4>3, <5>1, a3 = Reads(a2.hs, a2.parts, m[3])
      <4> QED
        BY <3>2, <4>1, <4>2, <4>3
    <3>4. \A i \in 0..3 : i # 0 => i \in 1..3
      OBVIOUS
    <3>5. QED
      BY ONLY <3>1, <3>3, <3>4
  <2>2. g = [i \in 0..3 |-> g[i]]
    OBVIOUS
  <2> HIDE DEF g
  <2>3. [i \in 0..3 |-> g[i]] = Step(g)
    BY <2>1
  <2>4. QED
    BY <2>2, <2>3
<1>3. after = Step(after)
  <2> HIDE DEF Step, g
  <2>1. QED
    BY <1>2
<1>4. ReadOver(hs, parts, m) = after[3]
  BY DEF ReadOver
<1>5. after[0] = a0 /\ \A i \in 1..3 : after[i] = Reads(after[i - 1].hs, after[i - 1].parts, m[i])
  <2> HIDE DEF after, a0
  <2>1. QED
    BY <1>3
<1> HIDE DEF after, a0
<1>6. after[1] = a1
  <2>1. 1 \in 1..3 /\ 1 - 1 = 0
    OBVIOUS
  <2>2. after[1] = Reads(after[0].hs, after[0].parts, m[1])
    BY ONLY <1>5, <2>1
  <2>3. QED
    BY ONLY <2>2, <1>1, <1>5
<1>7. after[2] = a2
  <2>1. 2 \in 1..3 /\ 2 - 1 = 1
    OBVIOUS
  <2>2. after[2] = Reads(after[1].hs, after[1].parts, m[2])
    BY ONLY <1>5, <2>1
  <2>3. QED
    BY ONLY <2>2, <1>5, <1>6, a2 = Reads(a1.hs, a1.parts, m[2])
<1>8. after[3] = a3
  <2>1. 3 \in 1..3 /\ 3 - 1 = 2
    OBVIOUS
  <2>2. after[3] = Reads(after[2].hs, after[2].parts, m[3])
    BY ONLY <1>5, <2>1
  <2>3. QED
    BY ONLY <2>2, <1>5, <1>7, a3 = Reads(a2.hs, a2.parts, m[3])
<1>9. QED
  BY <1>4, <1>8

LEMMA ReadOver4 ==
  ASSUME NEW hs, NEW parts, NEW m, Len(m) = 4, NEW a1, NEW a2, NEW a3, NEW a4,
         a1 = Reads(hs, parts, m[1]), a2 = Reads(a1.hs, a1.parts, m[2]), a3 = Reads(a2.hs, a2.parts, m[3]),
         a4 = Reads(a3.hs, a3.parts, m[4])
  PROVE  ReadOver(hs, parts, m) = a4
<1> DEFINE a0 == [hs |-> hs, parts |-> parts]
           Step(f) == [i \in 0..4 |-> IF i = 0 THEN a0 ELSE Reads(f[i - 1].hs, f[i - 1].parts, m[i])]
           after == CHOOSE f : f = Step(f)
           g == [i \in 0..4 |-> IF i = 0 THEN a0 ELSE IF i = 1 THEN a1 ELSE IF i = 2 THEN a2
               ELSE IF i = 3 THEN a3 ELSE a4]
<1>1. a1 = Reads(a0.hs, a0.parts, m[1])
  OBVIOUS
<1>2. g = Step(g)
  <2> HIDE DEF a0
  <2>1. \A i \in 0..4 : g[i] = IF i = 0 THEN a0 ELSE Reads(g[i - 1].hs, g[i - 1].parts, m[i])
    <3>1. g[0] = a0 /\ g[1] = a1 /\ g[2] = a2 /\ g[3] = a3 /\ g[4] = a4
      <4>1. g = [i \in 0..4 |-> IF i = 0 THEN a0 ELSE IF i = 1 THEN a1 ELSE IF i = 2 THEN a2
            ELSE IF i = 3 THEN a3 ELSE a4]
        OBVIOUS
      <4> HIDE DEF g
      <4>2. QED
        BY ONLY <4>1, FiveAre
    <3> HIDE DEF g
    <3>2. \A i \in 1..4 : i \in {1, 2, 3, 4}
      OBVIOUS
    <3>3. ASSUME NEW i \in 1..4
          PROVE  g[i] = Reads(g[i - 1].hs, g[i - 1].parts, m[i])
      <4>1. CASE i = 1
        <5>1. i - 1 = 0
          BY <4>1
        <5> QED
          BY ONLY <1>1, <3>1, <4>1, <5>1
      <4>2. CASE i = 2
        <5>1. i - 1 = 1
          BY <4>2
        <5> QED
          BY ONLY <1>1, <3>1, <4>2, <5>1, a2 = Reads(a1.hs, a1.parts, m[2])
      <4>3. CASE i = 3
        <5>1. i - 1 = 2
          BY <4>3
        <5> QED
          BY ONLY <1>1, <3>1, <4>3, <5>1, a3 = Reads(a2.hs, a2.parts, m[3])
      <4>4. CASE i = 4
        <5>1. i - 1 = 3
          BY <4>4
        <5> QED
          BY ONLY <1>1, <3>1, <4>4, <5>1, a4 = Reads(a3.hs, a3.parts, m[4])
      <4> QED
        BY <3>2, <4>1, <4>2, <4>3, <4>4
    <3>4. \A i \in 0..4 : i # 0 => i \in 1..4
      OBVIOUS
    <3>5. QED
      BY ONLY <3>1, <3>3, <3>4
  <2>2. g = [i \in 0..4 |-> g[i]]
    OBVIOUS
  <2> HIDE DEF g
  <2>3. [i \in 0..4 |-> g[i]] = Step(g)
    BY <2>1
  <2>4. QED
    BY <2>2, <2>3
<1>3. after = Step(after)
  <2> HIDE DEF Step, g
  <2>1. QED
    BY <1>2
<1>4. ReadOver(hs, parts, m) = after[4]
  BY DEF ReadOver
<1>5. after[0] = a0 /\ \A i \in 1..4 : after[i] = Reads(after[i - 1].hs, after[i - 1].parts, m[i])
  <2> HIDE DEF after, a0
  <2>1. QED
    BY <1>3
<1> HIDE DEF after, a0
<1>6. after[1] = a1
  <2>1. 1 \in 1..4 /\ 1 - 1 = 0
    OBVIOUS
  <2>2. after[1] = Reads(after[0].hs, after[0].parts, m[1])
    BY ONLY <1>5, <2>1
  <2>3. QED
    BY ONLY <2>2, <1>1, <1>5
<1>7. after[2] = a2
  <2>1. 2 \in 1..4 /\ 2 - 1 = 1
    OBVIOUS
  <2>2. after[2] = Reads(after[1].hs, after[1].parts, m[2])
    BY ONLY <1>5, <2>1
  <2>3. QED
    BY ONLY <2>2, <1>5, <1>6, a2 = Reads(a1.hs, a1.parts, m[2])
<1>8. after[3] = a3
  <2>1. 3 \in 1..4 /\ 3 - 1 = 2
    OBVIOUS
  <2>2. after[3] = Reads(after[2].hs, after[2].parts, m[3])
    BY ONLY <1>5, <2>1
  <2>3. QED
    BY ONLY <2>2, <1>5, <1>7, a3 = Reads(a2.hs, a2.parts, m[3])
<1>9. after[4] = a4
  <2>1. 4 \in 1..4 /\ 4 - 1 = 3
    OBVIOUS
  <2>2. after[4] = Reads(after[3].hs, after[3].parts, m[4])
    BY ONLY <1>5, <2>1
  <2>3. QED
    BY ONLY <2>2, <1>5, <1>8, a4 = Reads(a3.hs, a3.parts, m[4])
<1>10. QED
  BY <1>4, <1>9

----------------------------------------------------------------------------
\* What two tokens do, one after the other.
LEMMA MixedOn ==
  ASSUME NEW x, NEW y, NEW z, Kept(y, z), NEW e, NEW re, NEW rs, NEW ck, NEW h, Mixed(x, y, e, re, rs, ck, h)
  PROVE  Mixed(x, z, e, re, rs, ck, h)
BY DEF Mixed, Kept

\* Encrypt, before the first key and after it.
LEMMA EncryptIs ==
  ASSUME NEW hs, NEW p
  PROVE  /\ hs.ck = <<>> => Encrypt(hs, p) = p
         /\ hs.ck # <<>> => Encrypt(hs, p) = Sealed(hs.ck, hs.n, hs.h, p)
BY DEF Encrypt, HasKey

\* A part, once sealed or opened, is hashed and counted.
LEMMA HashedIs ==
  ASSUME NEW hs, DOMAIN hs = Fields, NEW x
  PROVE  Mixed(mixHash(Counted(hs), x), hs, hs.e, hs.re, hs.rs, hs.ck, Append(hs.h, x))
<1>1. Mixed(Counted(hs), hs, hs.e, hs.re, hs.rs, hs.ck, hs.h)
  BY CountedIs
<1> DEFINE y == Counted(hs)
<1>2. DOMAIN y = Fields /\ y.h = hs.h /\ y.e = hs.e /\ y.re = hs.re /\ y.rs = hs.rs /\ y.ck = hs.ck /\ Kept(y, hs)
  BY <1>1 DEF Mixed, Kept
<1> HIDE DEF y
<1>3. Mixed(mixHash(y, x), y, y.e, y.re, y.rs, y.ck, Append(y.h, x))
  BY <1>2, HashIs
<1>4. Mixed(mixHash(y, x), hs, hs.e, hs.re, hs.rs, hs.ck, Append(hs.h, x))
  BY <1>2, <1>3, MixedOn
<1>5. QED
  BY <1>4 DEF y

\* "s": the static key, sealed.
LEMMA WritesS ==
  ASSUME NEW hs, DOMAIN hs = Fields, hs.ck # <<>>, NEW parts, NEW w, w = Writes(hs, parts, "s")
  PROVE  \E n : LET c == Sealed(hs.ck, n, hs.h, hs.s)
                IN /\ Mixed(w.hs, hs, hs.e, hs.re, hs.rs, hs.ck, Append(hs.h, c))
                   /\ w.parts = Append(parts, c)
<1> DEFINE c == Sealed(hs.ck, hs.n, hs.h, hs.s)
<1>1. Encrypt(hs, hs.s) = c
  BY EncryptIs
<1>2. w = [hs |-> mixHash(Counted(hs), c), parts |-> Append(parts, c)]
  BY <1>1 DEF Writes
<1> HIDE DEF c
<1>3. w.hs = mixHash(Counted(hs), c) /\ w.parts = Append(parts, c)
  BY <1>2
<1>4. Mixed(w.hs, hs, hs.e, hs.re, hs.rs, hs.ck, Append(hs.h, c))
  BY <1>3, HashedIs
<1>5. QED
  BY <1>3, <1>4 DEF c

\* A token read without an error: a key that is read is there.
LEMMA ReadsOn ==
  ASSUME NEW hs, NEW parts, NEW t, NEW r, r = Reads(hs, parts, t), r.hs # NoEnd
  PROVE  hs # NoEnd /\ (t \in {"e", "s"} => parts # <<>> /\ Head(parts) # <<>>)
BY DEF Reads, Truncated

\* The tokens, where they are read without an error.
LEMMA ReadsE ==
  ASSUME NEW hs, DOMAIN hs = Fields, NEW parts, NEW r, r = Reads(hs, parts, "e"), r.hs # NoEnd
  PROVE  /\ Mixed(r.hs, hs, hs.e, Head(parts), hs.rs, hs.ck, Append(hs.h, Head(parts)))
         /\ r.parts = Tail(parts)
<1> DEFINE c == Head(parts)
           y == [hs EXCEPT !.re = c]
<1>1. hs # NoEnd /\ parts # <<>> /\ c # <<>>
  BY ReadsOn
<1> HIDE DEF c
<1>2. r = [hs |-> mixHash(y, c), parts |-> Tail(parts)]
  BY <1>1 DEF Reads, Truncated, c
<1>3. DOMAIN y = Fields /\ Mixed(y, hs, hs.e, c, hs.rs, hs.ck, hs.h)
  BY DEF Mixed, Kept, Fields
<1> HIDE DEF y
<1>4. Mixed(mixHash(y, c), y, y.e, y.re, y.rs, y.ck, Append(y.h, c))
  BY <1>3, HashIs
<1>5. y.e = hs.e /\ y.re = c /\ y.rs = hs.rs /\ y.ck = hs.ck /\ y.h = hs.h /\ Kept(y, hs)
  BY <1>3 DEF Mixed
<1>6. Mixed(mixHash(y, c), hs, hs.e, c, hs.rs, hs.ck, Append(hs.h, c))
  BY <1>4, <1>5, MixedOn
<1>7. QED
  BY <1>2, <1>6 DEF c

LEMMA ReadsS ==
  ASSUME NEW hs, DOMAIN hs = Fields, hs.ck # <<>>, NEW parts, NEW r, r = Reads(hs, parts, "s"), r.hs # NoEnd
  PROVE  /\ \E n : Head(parts) = Sealed(hs.ck, n, hs.h, Head(parts)[5])
         /\ Mixed(r.hs, hs, hs.e, hs.re, Head(parts)[5], hs.ck, Append(hs.h, Head(parts)))
         /\ r.parts = Tail(parts)
<1> DEFINE c == Head(parts)
           y == [hs EXCEPT !.rs = c[5]]
<1>1. hs # NoEnd /\ parts # <<>> /\ c # <<>>
  BY ReadsOn
<1> HIDE DEF c
<1>2. Decrypt(hs, c) = c[5]
  BY DEF Decrypt, HasKey
<1>3. r = [hs |-> IF Opens(hs, c) THEN mixHash(Counted(y), c) ELSE NoEnd, parts |-> Tail(parts)]
  BY <1>1, <1>2 DEF Reads, Truncated, c
<1>4. Opens(hs, c) /\ r.hs = mixHash(Counted(y), c) /\ r.parts = Tail(parts)
  BY <1>3
<1>5. c = Sealed(hs.ck, hs.n, hs.h, c[5])
  BY <1>4 DEF Opens, HasKey
<1>6. DOMAIN y = Fields /\ Mixed(y, hs, hs.e, hs.re, c[5], hs.ck, hs.h)
  BY DEF Mixed, Kept, Fields
<1> HIDE DEF y
<1>7. Mixed(mixHash(Counted(y), c), y, y.e, y.re, y.rs, y.ck, Append(y.h, c))
  BY <1>6, HashedIs
<1>8. y.e = hs.e /\ y.re = hs.re /\ y.rs = c[5] /\ y.ck = hs.ck /\ y.h = hs.h /\ Kept(y, hs)
  BY <1>6 DEF Mixed
<1>9. Mixed(r.hs, hs, hs.e, hs.re, c[5], hs.ck, Append(hs.h, c))
  BY <1>4, <1>7, <1>8, MixedOn
<1>10. QED
  BY <1>4, <1>5, <1>9 DEF c

LEMMA ReadsDH ==
  ASSUME NEW hs, DOMAIN hs = Fields, NEW parts, NEW t, t \notin {"e", "s"}, NEW p, NEW q, pair(hs, t) = <<p, q>>,
         NEW r, r = Reads(hs, parts, t), r.hs # NoEnd
  PROVE  /\ Mixed(r.hs, hs, hs.e, hs.re, hs.rs, Append(hs.ck, {p, q}), hs.h) /\ r.parts = parts
         /\ p # <<>> /\ q # <<>>
<1>1. hs # NoEnd
  BY ReadsOn
<1>2. r = [hs |-> mixDH(hs, t), parts |-> parts]
  BY <1>1 DEF Reads
<1>3. r.hs = mixDH(hs, t) /\ r.parts = parts
  BY <1>2
<1>4. mixDH(hs, t) = IF <<>> \in {p, q} THEN NoEnd ELSE mixKey(hs, {p, q})
  BY DEF mixDH, NoKey, DH
<1>5. r.hs = mixKey(hs, {p, q}) /\ p # <<>> /\ q # <<>>
  BY <1>3, <1>4
<1>6. QED
  BY <1>3, <1>5, KeyIs

\* The keys of a secret, for each role.
LEMMA PairIs ==
  ASSUME NEW hs
  PROVE  /\ pair(hs, "ee") = <<hs.e, hs.re>> /\ pair(hs, "ss") = <<hs.s, hs.rs>>
         /\ hs.initiator = TRUE => pair(hs, "es") = <<hs.e, hs.rs>> /\ pair(hs, "se") = <<hs.s, hs.re>>
         /\ hs.initiator = FALSE => pair(hs, "es") = <<hs.s, hs.re>> /\ pair(hs, "se") = <<hs.e, hs.rs>>
<1>1. pair(hs, "ee") = <<hs.e, hs.re>>
  BY DEF pair
<1>2. pair(hs, "ss") = <<hs.s, hs.rs>>
  BY DEF pair
<1>3. ASSUME hs.initiator = TRUE
      PROVE  pair(hs, "es") = <<hs.e, hs.rs>> /\ pair(hs, "se") = <<hs.s, hs.re>>
  BY <1>3 DEF pair
<1>4. ASSUME hs.initiator = FALSE
      PROVE  pair(hs, "es") = <<hs.s, hs.re>> /\ pair(hs, "se") = <<hs.e, hs.rs>>
  BY <1>4 DEF pair
<1>5. QED
  BY <1>1, <1>2, <1>3, <1>4

\* The two patterns.
LEMMA MessagesAre ==
  /\ Len(messages("XX")) = 3 /\ Len(messages("IK")) = 2
  /\ messages("XX")[1] = <<"e">> /\ messages("XX")[2] = <<"e", "ee", "s", "es">> /\ messages("XX")[3] = <<"s", "se">>
  /\ messages("IK")[1] = <<"e", "es", "s", "ss">> /\ messages("IK")[2] = <<"e", "ee", "se">>
BY DEF messages

\* A message that does not end the handshake, and one that does.
LEMMA AdvanceOn ==
  ASSUME NEW hs, DOMAIN hs = Fields, NEW k, k = hs.idx + 1, k # Len(messages(hs.pattern)), NEW x, x = advance(hs)
  PROVE  /\ DOMAIN x = Fields /\ x.idx = k
         /\ x.at = hs.at /\ x.end = hs.end /\ x.pattern = hs.pattern /\ x.initiator = hs.initiator
         /\ x.s = hs.s /\ x.sent = hs.sent /\ x.got = hs.got
         /\ x.e = hs.e /\ x.re = hs.re /\ x.rs = hs.rs /\ x.ck = hs.ck /\ x.h = hs.h
<1> DEFINE next == [hs EXCEPT !.idx = @ + 1]
<1>1. /\ DOMAIN next = Fields /\ next.idx = k
      /\ next.at = hs.at /\ next.end = hs.end /\ next.pattern = hs.pattern /\ next.initiator = hs.initiator
      /\ next.s = hs.s /\ next.sent = hs.sent /\ next.got = hs.got
      /\ next.e = hs.e /\ next.re = hs.re /\ next.rs = hs.rs /\ next.ck = hs.ck /\ next.h = hs.h
  BY DEF Fields
<1> HIDE DEF next
<1>2. ~ Complete(next)
  BY <1>1 DEF Complete
<1>3. advance(hs) = next
  BY <1>2 DEF advance, next
<1>4. QED
  BY <1>1, <1>3

\* The halves an end has: its own first, then the other's.
Keyed(hs, half) == hs.send = Half(hs, half) /\ hs.recv = Half(hs, 3 - half)

\* The session a handshake ends in.
Ended(x, hs, k) ==
  /\ DOMAIN x = Fields /\ x.idx = k
  /\ x.at = "open" /\ x.end = hs.end /\ x.pattern = hs.pattern /\ x.initiator = hs.initiator
  /\ x.s = hs.s /\ x.sent = hs.sent /\ x.got = hs.got
  /\ x.rs = hs.rs /\ x.ck = hs.ck /\ x.h = hs.h
  /\ hs.initiator = TRUE => Keyed(x, 1)
  /\ hs.initiator = FALSE => Keyed(x, 2)

LEMMA AdvanceEnds ==
  ASSUME NEW hs, DOMAIN hs = Fields, NEW k, k = hs.idx + 1, k = Len(messages(hs.pattern)), hs.at # "none",
         NEW x, x = advance(hs)
  PROVE  Ended(x, hs, k)
<1> DEFINE next == [hs EXCEPT !.idx = @ + 1]
           half == IF hs.initiator THEN 1 ELSE 2
           y == [next EXCEPT !.at = "open", !.e = NoKey, !.send = Half(hs, half), !.recv = Half(hs, 3 - half)]
<1>1. /\ DOMAIN next = Fields /\ next.idx = k
      /\ next.at = hs.at /\ next.end = hs.end /\ next.pattern = hs.pattern /\ next.initiator = hs.initiator
      /\ next.s = hs.s /\ next.sent = hs.sent /\ next.got = hs.got
      /\ next.rs = hs.rs /\ next.ck = hs.ck /\ next.h = hs.h
  BY DEF Fields
<1>2. Complete(next)
  BY <1>1 DEF Complete
<1>3. advance(hs) = y
  BY <1>2 DEF advance
<1> HIDE DEF next, half
<1>4. /\ DOMAIN y = Fields /\ y.idx = next.idx /\ y.at = "open" /\ y.end = next.end /\ y.pattern = next.pattern
      /\ y.initiator = next.initiator /\ y.s = next.s /\ y.sent = next.sent /\ y.got = next.got
      /\ y.rs = next.rs /\ y.ck = next.ck /\ y.h = next.h
      /\ y.send = Half(hs, half) /\ y.recv = Half(hs, 3 - half)
  BY <1>1 DEF Fields
<1> HIDE DEF y
<1>5. Half(y, half) = Half(hs, half) /\ Half(y, 3 - half) = Half(hs, 3 - half)
  BY <1>1, <1>4 DEF Half
<1>6. hs.initiator = TRUE => Keyed(y, 1)
  <2>1. hs.initiator = TRUE => half = 1
    BY DEF half
  <2>2. QED
    BY <1>4, <1>5, <2>1 DEF Keyed
<1>7. hs.initiator = FALSE => Keyed(y, 2)
  <2>1. hs.initiator = FALSE => half = 2
    BY DEF half
  <2>2. QED
    BY <1>4, <1>5, <2>1 DEF Keyed
<1>8. QED
  BY <1>1, <1>3, <1>4, <1>6, <1>7 DEF Ended
----------------------------------------------------------------------------
\* What Mixed says, one by one.
LEMMA MixedIs ==
  ASSUME NEW x, NEW y, NEW e, NEW re, NEW rs, NEW ck, NEW h, Mixed(x, y, e, re, rs, ck, h)
  PROVE  /\ DOMAIN x = Fields /\ Kept(x, y) /\ x.e = e /\ x.re = re /\ x.rs = rs /\ x.ck = ck /\ x.h = h
         /\ x.at = y.at /\ x.end = y.end /\ x.s = y.s /\ x.initiator = y.initiator /\ x.idx = y.idx
         /\ x.pattern = y.pattern
BY DEF Mixed, Kept

\* Each token, written and read, in a message that began with b.
LEMMA WE ==
  ASSUME NEW b, NEW x, NEW e, NEW re, NEW rs, NEW ck, NEW h, Mixed(x, b, e, re, rs, ck, h),
         NEW parts, NEW w, w = Writes(x, parts, "e")
  PROVE  /\ Mixed(w.hs, b, Ephemeral(b.end), re, rs, ck, Append(h, Ephemeral(b.end)))
         /\ w.parts = Append(parts, Ephemeral(b.end))
<1>1. DOMAIN x = Fields /\ Kept(x, b) /\ x.re = re /\ x.rs = rs /\ x.ck = ck /\ x.h = h /\ x.end = b.end
  BY MixedIs
<1>2. /\ Mixed(w.hs, x, Ephemeral(x.end), x.re, x.rs, x.ck, Append(x.h, Ephemeral(x.end)))
      /\ w.parts = Append(parts, Ephemeral(x.end))
  BY <1>1, WritesE
<1>3. Mixed(w.hs, b, Ephemeral(x.end), x.re, x.rs, x.ck, Append(x.h, Ephemeral(x.end)))
  BY <1>1, <1>2, MixedOn
<1>4. QED
  BY <1>1, <1>2, <1>3

SealsKey(w, b, e, re, rs, ck, h, parts) ==
  \E c : /\ \E n : c = Sealed(ck, n, h, b.s)
         /\ Mixed(w.hs, b, e, re, rs, ck, Append(h, c)) /\ w.parts = Append(parts, c)

LEMMA WS ==
  ASSUME NEW b, NEW x, NEW e, NEW re, NEW rs, NEW ck, NEW h, Mixed(x, b, e, re, rs, ck, h), ck # <<>>,
         NEW parts, NEW w, w = Writes(x, parts, "s")
  PROVE  SealsKey(w, b, e, re, rs, ck, h, parts)
<1>1. DOMAIN x = Fields /\ Kept(x, b) /\ x.e = e /\ x.re = re /\ x.rs = rs /\ x.ck = ck /\ x.h = h /\ x.s = b.s
  BY MixedIs
<1>2. PICK n : /\ Mixed(w.hs, x, x.e, x.re, x.rs, x.ck, Append(x.h, Sealed(x.ck, n, x.h, x.s)))
               /\ w.parts = Append(parts, Sealed(x.ck, n, x.h, x.s))
  BY <1>1, WritesS
<1>3. Mixed(w.hs, b, x.e, x.re, x.rs, x.ck, Append(x.h, Sealed(x.ck, n, x.h, x.s)))
  BY <1>1, <1>2, MixedOn
<1>4. QED
  BY <1>1, <1>2, <1>3 DEF SealsKey

LEMMA WDH ==
  ASSUME NEW b, NEW x, NEW e, NEW re, NEW rs, NEW ck, NEW h, Mixed(x, b, e, re, rs, ck, h),
         NEW parts, NEW t, t \notin {"e", "s"}, NEW p, NEW q, pair(x, t) = <<p, q>>, p # <<>>, q # <<>>,
         NEW w, w = Writes(x, parts, t)
  PROVE  Mixed(w.hs, b, e, re, rs, Append(ck, {p, q}), h) /\ w.parts = parts
<1>1. DOMAIN x = Fields /\ Kept(x, b) /\ x.e = e /\ x.re = re /\ x.rs = rs /\ x.ck = ck /\ x.h = h
  BY MixedIs
<1>2. Mixed(w.hs, x, x.e, x.re, x.rs, Append(x.ck, {p, q}), x.h) /\ w.parts = parts
  <2>1. mixDH(x, t) = mixKey(x, {p, q})
    BY DEF mixDH, NoKey, DH
  <2>2. w = [hs |-> mixKey(x, {p, q}), parts |-> parts]
    BY <2>1 DEF Writes
  <2>3. w.hs = mixKey(x, {p, q}) /\ w.parts = parts
    BY <2>2
  <2>4. QED
    BY <1>1, <2>3, KeyIs
<1>3. Mixed(w.hs, b, x.e, x.re, x.rs, Append(x.ck, {p, q}), x.h)
  BY <1>1, <1>2, MixedOn
<1>4. QED
  BY <1>1, <1>2, <1>3

\* A token that is read is part of what arrives, of S.
LEMMA RE ==
  ASSUME NEW b, NEW x, NEW e, NEW re, NEW rs, NEW ck, NEW h, Mixed(x, b, e, re, rs, ck, h),
         NEW S, NEW parts \in Seq(S), NEW r, r = Reads(x, parts, "e"), r.hs # NoEnd
  PROVE  \E c \in S : /\ Mixed(r.hs, b, e, c, rs, ck, Append(h, c)) /\ c # <<>>
                      /\ r.parts \in Seq(S)
<1>1. DOMAIN x = Fields /\ Kept(x, b) /\ x.e = e /\ x.re = re /\ x.rs = rs /\ x.ck = ck /\ x.h = h
  BY MixedIs
<1>2. parts # <<>> /\ Head(parts) # <<>>
  BY ReadsOn
<1>3. Head(parts) \in S /\ Tail(parts) \in Seq(S)
  BY <1>2
<1>4. Mixed(r.hs, x, x.e, Head(parts), x.rs, x.ck, Append(x.h, Head(parts))) /\ r.parts = Tail(parts)
  BY <1>1, ReadsE
<1>5. Mixed(r.hs, b, x.e, Head(parts), x.rs, x.ck, Append(x.h, Head(parts)))
  BY <1>1, <1>4, MixedOn
<1>6. QED
  BY <1>1, <1>2, <1>3, <1>4, <1>5

LEMMA RS ==
  ASSUME NEW b, NEW x, NEW e, NEW re, NEW rs, NEW ck, NEW h, Mixed(x, b, e, re, rs, ck, h), ck # <<>>,
         NEW S, NEW parts \in Seq(S), NEW r, r = Reads(x, parts, "s"), r.hs # NoEnd
  PROVE  \E c, k : /\ c \in S /\ \E n : c = Sealed(ck, n, h, k)
                   /\ Mixed(r.hs, b, e, re, k, ck, Append(h, c)) /\ r.parts \in Seq(S)
<1>1. DOMAIN x = Fields /\ Kept(x, b) /\ x.e = e /\ x.re = re /\ x.rs = rs /\ x.ck = ck /\ x.h = h
  BY MixedIs
<1>2. parts # <<>> /\ Head(parts) # <<>>
  BY ReadsOn
<1>3. Head(parts) \in S /\ Tail(parts) \in Seq(S)
  BY <1>2
<1> DEFINE c == Head(parts)
<1>4. /\ \E n : c = Sealed(x.ck, n, x.h, c[5])
      /\ Mixed(r.hs, x, x.e, x.re, c[5], x.ck, Append(x.h, c)) /\ r.parts = Tail(parts)
  BY <1>1, ReadsS
<1> HIDE DEF c
<1>5. Mixed(r.hs, b, x.e, x.re, c[5], x.ck, Append(x.h, c))
  BY <1>1, <1>4, MixedOn
<1>6. c \in S
  BY <1>3 DEF c
<1>7. QED
  BY <1>1, <1>3, <1>4, <1>5, <1>6

LEMMA RDH ==
  ASSUME NEW b, NEW x, NEW e, NEW re, NEW rs, NEW ck, NEW h, Mixed(x, b, e, re, rs, ck, h),
         NEW parts, NEW t, t \notin {"e", "s"}, NEW p, NEW q, pair(x, t) = <<p, q>>,
         NEW r, r = Reads(x, parts, t), r.hs # NoEnd
  PROVE  Mixed(r.hs, b, e, re, rs, Append(ck, {p, q}), h) /\ r.parts = parts /\ p # <<>> /\ q # <<>>
<1>1. DOMAIN x = Fields /\ Kept(x, b) /\ x.e = e /\ x.re = re /\ x.rs = rs /\ x.ck = ck /\ x.h = h
  BY MixedIs
<1>2. Mixed(r.hs, x, x.e, x.re, x.rs, Append(x.ck, {p, q}), x.h) /\ r.parts = parts /\ p # <<>> /\ q # <<>>
  BY <1>1, ReadsDH, SMTT(30)
<1>3. Mixed(r.hs, b, x.e, x.re, x.rs, Append(x.ck, {p, q}), x.h)
  BY <1>1, <1>2, MixedOn
<1>4. QED
  BY <1>1, <1>2, <1>3

\* The payload, without a key and with one.
LEMMA WPlain ==
  ASSUME NEW b, NEW a, NEW e, NEW re, NEW rs, NEW h, Mixed(a.hs, b, e, re, rs, <<>>, h)
  PROVE  Encrypt(a.hs, <<>>) = <<>> /\ Mixed(mixHash(Counted(a.hs), <<>>), b, e, re, rs, <<>>, Append(h, <<>>))
<1> DEFINE x == a.hs
<1>1. Mixed(x, b, e, re, rs, <<>>, h)
  OBVIOUS
<1> HIDE DEF x
<1>2. DOMAIN x = Fields /\ Kept(x, b) /\ x.e = e /\ x.re = re /\ x.rs = rs /\ x.ck = <<>> /\ x.h = h
  BY <1>1, MixedIs
<1>3. Mixed(mixHash(Counted(x), <<>>), x, x.e, x.re, x.rs, x.ck, Append(x.h, <<>>))
  BY <1>2, HashedIs
<1>4. Mixed(mixHash(Counted(x), <<>>), b, x.e, x.re, x.rs, x.ck, Append(x.h, <<>>))
  BY <1>2, <1>3, MixedOn
<1>5. Encrypt(x, <<>>) = <<>>
  BY <1>2, EncryptIs
<1>6. QED
  BY <1>2, <1>4, <1>5 DEF x

LEMMA WSeals ==
  ASSUME NEW b, NEW a, NEW e, NEW re, NEW rs, NEW ck, NEW h, Mixed(a.hs, b, e, re, rs, ck, h), ck # <<>>
  PROVE  \E n : LET c == Sealed(ck, n, h, <<>>) IN
                Encrypt(a.hs, <<>>) = c /\ Mixed(mixHash(Counted(a.hs), c), b, e, re, rs, ck, Append(h, c))
<1> DEFINE x == a.hs
           c == Sealed(ck, x.n, h, <<>>)
<1>1. Mixed(x, b, e, re, rs, ck, h)
  OBVIOUS
<1> HIDE DEF x
<1>2. DOMAIN x = Fields /\ Kept(x, b) /\ x.e = e /\ x.re = re /\ x.rs = rs /\ x.ck = ck /\ x.h = h
  BY <1>1, MixedIs
<1>3. Encrypt(x, <<>>) = c
  BY <1>2, EncryptIs
<1> HIDE DEF c
<1>4. Mixed(mixHash(Counted(x), c), x, x.e, x.re, x.rs, x.ck, Append(x.h, c))
  BY <1>2, HashedIs
<1>5. Mixed(mixHash(Counted(x), c), b, x.e, x.re, x.rs, x.ck, Append(x.h, c))
  BY <1>2, <1>4, MixedOn
<1>6. QED
  BY <1>2, <1>3, <1>5 DEF x, c

LEMMA RPayload ==
  ASSUME NEW b, NEW a, NEW e, NEW re, NEW rs, NEW ck, NEW h, Mixed(a.hs, b, e, re, rs, ck, h),
         NEW S, a.parts \in Seq(S), Len(a.parts) = 1, Opens(a.hs, a.parts[1])
  PROVE  /\ a.parts[1] \in S
         /\ ck # <<>> => \E n : a.parts[1] = Sealed(ck, n, h, a.parts[1][5])
         /\ Mixed(mixHash(Counted(a.hs), a.parts[1]), b, e, re, rs, ck, Append(h, a.parts[1]))
<1> DEFINE x == a.hs
           c == a.parts[1]
<1>1. Mixed(x, b, e, re, rs, ck, h) /\ Opens(x, c) /\ c \in S
  OBVIOUS
<1> HIDE DEF x, c
<1>2. DOMAIN x = Fields /\ Kept(x, b) /\ x.e = e /\ x.re = re /\ x.rs = rs /\ x.ck = ck /\ x.h = h
  BY <1>1, MixedIs
<1>3. ck # <<>> => c = Sealed(ck, x.n, h, c[5])
  BY <1>1, <1>2 DEF Opens, HasKey
<1>4. Mixed(mixHash(Counted(x), c), x, x.e, x.re, x.rs, x.ck, Append(x.h, c))
  BY <1>2, HashedIs
<1>5. Mixed(mixHash(Counted(x), c), b, x.e, x.re, x.rs, x.ck, Append(x.h, c))
  BY <1>2, <1>4, MixedOn
<1>6. Mixed(mixHash(Counted(x), c), b, e, re, rs, ck, Append(h, c)) /\ c \in S
  BY <1>1, <1>2, <1>5
<1>7. QED
  BY <1>3, <1>6 DEF x, c

LEMMA RSealed ==
  ASSUME NEW b, NEW a, NEW e, NEW re, NEW rs, NEW ck, NEW h, Mixed(a.hs, b, e, re, rs, ck, h), ck # <<>>,
         NEW S, a.parts \in Seq(S), Len(a.parts) = 1, Opens(a.hs, a.parts[1])
  PROVE  \E c \in S : /\ c = a.parts[1] /\ \E n, k : c = Sealed(ck, n, h, k)
                      /\ Mixed(mixHash(Counted(a.hs), c), b, e, re, rs, ck, Append(h, c))
<1> DEFINE c == a.parts[1]
<1>1. /\ c \in S /\ \E n : c = Sealed(ck, n, h, c[5])
      /\ Mixed(mixHash(Counted(a.hs), c), b, e, re, rs, ck, Append(h, c))
  BY RPayload
<1> HIDE DEF c
<1>2. c = a.parts[1]
  BY DEF c
<1>3. QED
  BY <1>1, <1>2

\* A key that was derived is one.
LEMMA Nonempty ==
  /\ \A x : <<x>> # <<>>
  /\ \A x, y : <<x, y>> # <<>>
  /\ \A x, y, z : <<x, y, z>> # <<>>
  /\ \A x, y, z, u : <<x, y, z, u>> # <<>>
OBVIOUS

\* Before the first token.
LEMMA SelfMixed ==
  ASSUME NEW hs, DOMAIN hs = Fields
  PROVE  Mixed(hs, hs, hs.e, hs.re, hs.rs, hs.ck, hs.h)
BY DEF Mixed, Kept
----------------------------------------------------------------------------
-----------------------------------------------------------------------------
(* A handshake between two messages.                                       *)

\* An end's handshake before anything was said in its session.
Base(x, e, p, at, idx) ==
  /\ DOMAIN x = Fields /\ x.end = e /\ x.pattern = p /\ x.initiator = initiator(e) /\ x.s = Static(e[1])
  /\ x.at = at /\ x.idx = idx /\ x.sent = <<>> /\ x.got = <<>>

Holds(x, ke, re, rs, ck, h) == x.e = ke /\ x.re = re /\ x.rs = rs /\ x.ck = ck /\ x.h = h

\* What a message leaves: a handshake that goes on, or one that ends.
LEMMA OnBase ==
  ASSUME NEW e, NEW p, NEW i, NEW b, Base(b, e, p, "handshake", i), NEW k, k = i + 1, k # Len(messages(p)),
         NEW y, NEW ke, NEW re, NEW rs, NEW ck, NEW h, Mixed(y, b, ke, re, rs, ck, h), NEW x, x = advance(y)
  PROVE  Base(x, e, p, "handshake", k) /\ Holds(x, ke, re, rs, ck, h)
<1>1. /\ DOMAIN y = Fields /\ y.e = ke /\ y.re = re /\ y.rs = rs /\ y.ck = ck /\ y.h = h
      /\ y.at = "handshake" /\ y.end = e /\ y.pattern = p /\ y.initiator = initiator(e) /\ y.s = Static(e[1])
      /\ y.idx = i /\ y.sent = <<>> /\ y.got = <<>>
  BY DEF Base, Mixed, Kept
<1>2. /\ DOMAIN x = Fields /\ x.idx = k
      /\ x.at = y.at /\ x.end = y.end /\ x.pattern = y.pattern /\ x.initiator = y.initiator
      /\ x.s = y.s /\ x.sent = y.sent /\ x.got = y.got
      /\ x.e = y.e /\ x.re = y.re /\ x.rs = y.rs /\ x.ck = y.ck /\ x.h = y.h
  BY <1>1, AdvanceOn
<1>3. QED
  BY <1>1, <1>2 DEF Base, Holds

\* A session, just open.
Opened(x, e, p, k, rs, ck, h) ==
  /\ Base(x, e, p, "open", k) /\ x.rs = rs /\ x.ck = ck /\ x.h = h
  /\ initiator(e) => Keyed(x, 1)
  /\ ~ initiator(e) => Keyed(x, 2)

LEMMA EndsBase ==
  ASSUME NEW e, NEW p, NEW i, NEW b, Base(b, e, p, "handshake", i), NEW k, k = i + 1, k = Len(messages(p)),
         NEW y, NEW ke, NEW re, NEW rs, NEW ck, NEW h, Mixed(y, b, ke, re, rs, ck, h), NEW x, x = advance(y)
  PROVE  Opened(x, e, p, k, rs, ck, h)
<1>1. /\ DOMAIN y = Fields /\ y.e = ke /\ y.re = re /\ y.rs = rs /\ y.ck = ck /\ y.h = h
      /\ y.at = "handshake" /\ y.end = e /\ y.pattern = p /\ y.initiator = initiator(e) /\ y.s = Static(e[1])
      /\ y.idx = i /\ y.sent = <<>> /\ y.got = <<>>
  BY DEF Base, Mixed, Kept
<1>2. Ended(x, y, k)
  <2>1. k = y.idx + 1 /\ k = Len(messages(y.pattern)) /\ y.at # "none" /\ DOMAIN y = Fields /\ x = advance(y)
    BY <1>1
  <2>2. QED
    BY ONLY <2>1, AdvanceEnds
<1>3. initiator(e) \in BOOLEAN
  BY DEF initiator
<1>4. (initiator(e) => y.initiator = TRUE) /\ (~ initiator(e) => y.initiator = FALSE)
  BY <1>1, <1>3
<1>5. QED
  BY <1>1, <1>2, <1>4 DEF Base, Ended, Opened

\* The keys of a secret in a message that began with b.
LEMMA PairOf ==
  ASSUME NEW e, NEW p, NEW i, NEW b, Base(b, e, p, "handshake", i),
         NEW y, NEW ke, NEW re, NEW rs, NEW ck, NEW h, Mixed(y, b, ke, re, rs, ck, h)
  PROVE  /\ pair(y, "ee") = <<ke, re>> /\ pair(y, "ss") = <<Static(e[1]), rs>>
         /\ initiator(e) => pair(y, "es") = <<ke, rs>> /\ pair(y, "se") = <<Static(e[1]), re>>
         /\ ~ initiator(e) => pair(y, "es") = <<Static(e[1]), re>> /\ pair(y, "se") = <<ke, rs>>
<1>1. y.e = ke /\ y.re = re /\ y.rs = rs /\ y.s = Static(e[1]) /\ y.initiator = initiator(e)
  BY DEF Base, Mixed, Kept
<1>2. initiator(e) \in BOOLEAN
  BY DEF initiator
<1>3. (initiator(e) => y.initiator = TRUE) /\ (~ initiator(e) => y.initiator = FALSE)
  BY <1>1, <1>2
<1>4. QED
  BY <1>1, <1>3, PairIs

\* What newHandshake hashes.
LEMMA Joined ==
  ASSUME NEW a, NEW b
  PROVE  <<a>> \o <<>> = <<a>> /\ <<a>> \o <<b>> = <<a, b>>
<1> DEFINE S == {a, b}
<1>1. <<a>> \in Seq(S) /\ <<b>> \in Seq(S) /\ <<>> \in Seq(S) /\ <<a, b>> \in Seq(S)
  OBVIOUS
<1>2. <<a>> \o <<>> = <<a>>
  OBVIOUS
<1> DEFINE s == <<a>> \o <<b>>
           t == <<a, b>>
<1>3. s \in Seq(S) /\ Len(s) = 2 /\ s[1] = a /\ s[2] = b
  BY <1>1
<1>4. t \in Seq(S) /\ Len(t) = 2 /\ t[1] = a /\ t[2] = b
  BY <1>1
<1> HIDE DEF s, t, S
<1>5. s = t
  <2>1. \A n \in 1..Len(s) : s[n] = t[n]
    BY <1>3, <1>4
  <2>2. QED
    BY <1>3, <1>4, <2>1, SameSeq
<1>6. QED
  BY <1>2, <1>5 DEF s, t

\* newHandshake: the hash names the pattern and, in IK, the machine.
LEMMA NewIs ==
  ASSUME NEW e, NEW p \in {"XX", "IK"}, NEW hs, hs = NewHandshake(e, p)
  PROVE  /\ Base(hs, e, p, "handshake", 0) /\ hs.ck = <<>>
         /\ p = "XX" => hs.h = <<"XX">>
         /\ p = "IK" /\ initiator(e) => hs.h = <<"IK", Static("machine")>> /\ hs.rs = Static("machine")
         /\ p = "IK" /\ ~ initiator(e) => hs.h = <<"IK", Static(e[1])>>
<1>1. Base(hs, e, p, "handshake", 0) /\ hs.ck = <<>>
  BY DEF NewHandshake, Base, Fields
<1>2. hs.h = <<p>> \o (IF initiator(e) THEN IF p = "IK" THEN <<Static("machine")>> ELSE <<>>
                       ELSE IF p = "IK" THEN <<Static(e[1])>> ELSE <<>>)
  BY DEF NewHandshake
<1>3. p = "XX" => hs.h = <<"XX">>
  BY <1>2, Joined
<1>4. p = "IK" /\ initiator(e) => hs.h = <<"IK", Static("machine")>> /\ hs.rs = Static("machine")
  <2>1. p = "IK" /\ initiator(e) => hs.rs = Static("machine")
    BY DEF NewHandshake
  <2>2. QED
    BY <1>2, <2>1, Joined
<1>5. p = "IK" /\ ~ initiator(e) => hs.h = <<"IK", Static(e[1])>>
  BY <1>2, Joined
<1>6. QED
  BY <1>1, <1>3, <1>4, <1>5
----------------------------------------------------------------------------
\* The end of a message: the empty payload.
Wrote(w, a, c) == w.hs = advance(mixHash(Counted(a.hs), c)) /\ w.parts = Append(a.parts, c)

LEMMA WriteIs ==
  ASSUME NEW hs, NEW m, m = messages(hs.pattern)[hs.idx + 1], NEW a, WrittenOver(hs, m) = a,
         NEW c, c = Encrypt(a.hs, <<>>), NEW w, w = WriteMessage(hs)
  PROVE  Wrote(w, a, c)
<1>1. w = [hs |-> advance(mixHash(Counted(a.hs), c)), parts |-> Append(a.parts, c)]
  BY DEF WriteMessage
<1>2. QED
  BY <1>1 DEF Wrote

LEMMA ReadIs ==
  ASSUME NEW hs, NEW parts, NEW m, m = messages(hs.pattern)[hs.idx + 1], NEW a, ReadOver(hs, parts, m) = a,
         NEW got, got = ReadMessage(hs, parts), got # NoEnd
  PROVE  /\ a.hs # NoEnd /\ Len(a.parts) = 1 /\ Opens(a.hs, a.parts[1])
         /\ got = advance(mixHash(Counted(a.hs), a.parts[1]))
BY DEF ReadMessage
-----------------------------------------------------------------------------
(* (1) The five messages, written and read.  What is read comes of a set   *)
(* S: all that the link can carry.                                         *)

\* XX, the first: the phone's ephemeral key.
LEMMA WriteXX1 ==
  ASSUME NEW e, NEW w, w = WriteMessage(NewHandshake(e, "XX"))
  PROVE  /\ Base(w.hs, e, "XX", "handshake", 1) /\ w.hs.e = Ephemeral(e) /\ w.hs.ck = <<>>
         /\ w.hs.h = <<"XX", Ephemeral(e), <<>>>> /\ w.parts = <<Ephemeral(e), <<>>>>
<1> DEFINE hs == NewHandshake(e, "XX")
           E == Ephemeral(e)
<1>1. Base(hs, e, "XX", "handshake", 0) /\ hs.ck = <<>> /\ hs.h = <<"XX">>
  BY NewIs
<1>0. w = WriteMessage(hs)
  OBVIOUS
<1> HIDE DEF hs
<1>2. messages(hs.pattern)[hs.idx + 1] = <<"e">> /\ DOMAIN hs = Fields /\ hs.end = e
  BY <1>1, MessagesAre DEF Base
<1>3. PICK a : a = Writes(hs, <<>>, "e")
  OBVIOUS
<1>4. WrittenOver(hs, <<"e">>) = a
  <2>1. a = Writes(hs, <<>>, <<"e">>[1]) /\ Len(<<"e">>) = 1
    BY <1>3
  <2>2. QED
    BY <2>1, Written1
<1>5. Mixed(hs, hs, hs.e, hs.re, hs.rs, <<>>, <<"XX">>)
  BY <1>1, <1>2, SelfMixed
<1>6. Mixed(a.hs, hs, E, hs.re, hs.rs, <<>>, Append(<<"XX">>, E)) /\ a.parts = Append(<<>>, E)
  BY <1>2, <1>3, <1>5, WE
<1>7. Append(<<"XX">>, E) = <<"XX", E>> /\ Append(<<>>, E) = <<E>>
  BY Append1
<1>8. /\ Encrypt(a.hs, <<>>) = <<>>
      /\ Mixed(mixHash(Counted(a.hs), <<>>), hs, E, hs.re, hs.rs, <<>>, Append(<<"XX", E>>, <<>>))
  BY <1>6, <1>7, WPlain
<1>9. Append(<<"XX", E>>, <<>>) = <<"XX", E, <<>>>> /\ Append(<<E>>, <<>>) = <<E, <<>>>>
  BY Append1, Append2
<1>10. w.hs = advance(mixHash(Counted(a.hs), <<>>)) /\ w.parts = Append(a.parts, <<>>)
  <2>1. Wrote(w, a, <<>>)
    BY ONLY <1>0, <1>2, <1>4, <1>8, WriteIs
  <2>2. QED
    BY <2>1 DEF Wrote
<1>11. 1 = 0 + 1 /\ 1 # Len(messages("XX"))
  BY MessagesAre
<1>12. Base(w.hs, e, "XX", "handshake", 1) /\ Holds(w.hs, E, hs.re, hs.rs, <<>>, <<"XX", E, <<>>>>)
  <2>1. PICK H : H = <<"XX", E, <<>>>>
    OBVIOUS
  <2>2. Mixed(mixHash(Counted(a.hs), <<>>), hs, E, hs.re, hs.rs, <<>>, H)
    BY ONLY <1>8, <1>9, <2>1
  <2>3. Base(hs, e, "XX", "handshake", 0)
    BY <1>1
  <2>4. Base(w.hs, e, "XX", "handshake", 1) /\ Holds(w.hs, E, hs.re, hs.rs, <<>>, H)
    <3>1. PICK x, y, u, v : x = w.hs /\ y = mixHash(Counted(a.hs), <<>>) /\ u = hs.re /\ v = hs.rs
      OBVIOUS
    <3>2. Mixed(y, hs, E, u, v, <<>>, H) /\ x = advance(y)
      BY ONLY <1>10, <2>2, <3>1
    <3>3. Base(x, e, "XX", "handshake", 1) /\ Holds(x, E, u, v, <<>>, H)
      BY ONLY <1>11, <2>3, <3>2, OnBase
    <3>4. QED
      BY ONLY <3>1, <3>3
  <2>5. QED
    BY ONLY <2>1, <2>4
<1>13. QED
  BY <1>6, <1>7, <1>9, <1>10, <1>12 DEF Holds

LEMMA ReadXX1 ==
  ASSUME NEW e, NEW hs, Base(hs, e, "XX", "handshake", 0), hs.ck = <<>>, hs.h = <<"XX">>,
         NEW S, NEW parts \in Seq(S), NEW got, got = ReadMessage(hs, parts), got # NoEnd
  PROVE  /\ Base(got, e, "XX", "handshake", 1) /\ got.ck = <<>> /\ got.re # <<>>
         /\ \E q : got.h = <<"XX", got.re, q>>
<1>1. messages(hs.pattern)[hs.idx + 1] = <<"e">> /\ DOMAIN hs = Fields
  BY MessagesAre DEF Base
<1>2. PICK a : a = Reads(hs, parts, "e")
  OBVIOUS
<1>3. ReadOver(hs, parts, <<"e">>) = a
  <2>1. a = Reads(hs, parts, <<"e">>[1]) /\ Len(<<"e">>) = 1
    BY <1>2
  <2>2. QED
    BY <2>1, ReadOver1
<1>4. /\ a.hs # NoEnd /\ Len(a.parts) = 1 /\ Opens(a.hs, a.parts[1])
      /\ got = advance(mixHash(Counted(a.hs), a.parts[1]))
  BY <1>1, <1>3, ReadIs
<1>5. Mixed(hs, hs, hs.e, hs.re, hs.rs, <<>>, <<"XX">>)
  BY <1>1, SelfMixed
<1>6. PICK c \in S : Mixed(a.hs, hs, hs.e, c, hs.rs, <<>>, Append(<<"XX">>, c)) /\ c # <<>> /\ a.parts \in Seq(S)
  BY <1>2, <1>4, <1>5, RE
<1>7. Append(<<"XX">>, c) = <<"XX", c>>
  BY Append1
<1> DEFINE q == a.parts[1]
<1>8. Mixed(mixHash(Counted(a.hs), q), hs, hs.e, c, hs.rs, <<>>, Append(<<"XX", c>>, q))
  BY <1>4, <1>6, <1>7, RPayload
<1> HIDE DEF q
<1>9. Append(<<"XX", c>>, q) = <<"XX", c, q>>
  BY Append2
<1>10. 1 = 0 + 1 /\ 1 # Len(messages("XX"))
  BY MessagesAre
<1>11. got = advance(mixHash(Counted(a.hs), q))
  BY <1>4 DEF q
<1>12. Base(got, e, "XX", "handshake", 1) /\ Holds(got, hs.e, c, hs.rs, <<>>, <<"XX", c, q>>)
  BY <1>8, <1>9, <1>10, <1>11, OnBase
<1>13. QED
  BY <1>6, <1>12 DEF Holds
\* XX, the second: the machine's ephemeral key, its static key and the payload.
SaidXX2(e, v, a, b, w) ==
  \E c1, c2 :
    /\ Base(w.hs, e, "XX", "handshake", 2)
    /\ Holds(w.hs, Ephemeral(e), a, v, <<{Ephemeral(e), a}, {Static(e[1]), a}>>, <<"XX", a, b, Ephemeral(e), c1, c2>>)
    /\ (\E n : c1 = Sealed(<<{Ephemeral(e), a}>>, n, <<"XX", a, b, Ephemeral(e)>>, Static(e[1])))
    /\ (\E n : c2 = Sealed(<<{Ephemeral(e), a}, {Static(e[1]), a}>>, n, <<"XX", a, b, Ephemeral(e), c1>>, <<>>))
    /\ w.parts = <<Ephemeral(e), c1, c2>>

LEMMA WriteXX2 ==
  ASSUME NEW e, ~ initiator(e), NEW hs, NEW u, NEW v, NEW a, NEW b, Base(hs, e, "XX", "handshake", 1),
         Holds(hs, u, a, v, <<>>, <<"XX", a, b>>), a # <<>>,
         NEW w, w = WriteMessage(hs)
  PROVE  SaidXX2(e, v, a, b, w)
<1>1. PICK EE : EE = Ephemeral(e) /\ EE # <<>>
  BY Lengths
<1>2. PICK SS : SS = Static(e[1]) /\ SS # <<>>
  BY Lengths
<1>3. messages(hs.pattern)[hs.idx + 1] = <<"e", "ee", "s", "es">> /\ DOMAIN hs = Fields
      /\ Ephemeral(hs.end) = EE /\ hs.s = SS
  BY <1>1, <1>2, MessagesAre DEF Base
<1>4. hs.s = SS
  BY <1>3
<1>5. PICK a1 : a1 = Writes(hs, <<>>, "e")
  OBVIOUS
<1>6. PICK a2 : a2 = Writes(a1.hs, a1.parts, "ee")
  OBVIOUS
<1>7. PICK a3 : a3 = Writes(a2.hs, a2.parts, "s")
  OBVIOUS
<1>8. PICK a4 : a4 = Writes(a3.hs, a3.parts, "es")
  OBVIOUS
<1>9. WrittenOver(hs, <<"e", "ee", "s", "es">>) = a4
  <2>1. /\ <<"e", "ee", "s", "es">>[1] = "e"
        /\ <<"e", "ee", "s", "es">>[2] = "ee"
        /\ <<"e", "ee", "s", "es">>[3] = "s"
        /\ <<"e", "ee", "s", "es">>[4] = "es" /\ Len(<<"e", "ee", "s", "es">>) = 4
    OBVIOUS
  <2> DEFINE m == <<"e", "ee", "s", "es">>
  <2> HIDE DEF m
  <2>2. /\ a1 = Writes(hs, <<>>, m[1])
        /\ a2 = Writes(a1.hs, a1.parts, m[2])
        /\ a3 = Writes(a2.hs, a2.parts, m[3])
        /\ a4 = Writes(a3.hs, a3.parts, m[4]) /\ Len(m) = 4
    BY <1>5, <1>6, <1>7, <1>8, <2>1 DEF m
  <2>3. WrittenOver(hs, m) = a4
    BY ONLY <2>2, Written4
  <2>4. QED
    BY <2>3 DEF m
<1>10. PICK K0 : K0 = <<>>
  OBVIOUS
<1>11. PICK H0 : H0 = <<"XX", a, b>>
  OBVIOUS
<1>12. PICK P0 : P0 = <<>>
  OBVIOUS
<1>13. Mixed(hs, hs, u, a, v, K0, H0)
  BY <1>1, <1>2, <1>3, <1>10, <1>11, SelfMixed DEF Holds
<1>14. PICK H1 : H1 = <<"XX", a, b, EE>>
  OBVIOUS
<1>15. Append(H0, EE) = H1
  BY <1>11, <1>14, Append3
<1>16. PICK P1 : P1 = <<EE>>
  OBVIOUS
<1>17. Append(P0, EE) = P1
  BY <1>12, <1>16
<1>18. Mixed(a1.hs, hs, EE, a, v, K0, Append(H0, EE)) /\ a1.parts = Append(P0, EE)
  BY <1>5, <1>3, <1>13, <1>12, WE
<1>19. Mixed(a1.hs, hs, EE, a, v, K0, H1) /\ a1.parts = P1
  BY ONLY <1>18, <1>15, <1>17
<1>20. pair(a1.hs, "ee") = <<EE, a>>
  BY <1>2, <1>19, PairOf
<1>21. PICK K1 : K1 = <<{EE, a}>>
  OBVIOUS
<1>22. K1 # <<>>
  BY <1>21, Nonempty
<1>23. Append(K0, {EE, a}) = K1
  BY <1>10, <1>21
<1>24. "ee" \notin {"e", "s"}
  OBVIOUS
<1>25. EE # <<>> /\ a # <<>>
  BY <1>1, <1>2
<1>26. Mixed(a2.hs, hs, EE, a, v, Append(K0, {EE, a}), H1) /\ a2.parts = a1.parts
  BY ONLY <1>6, <1>19, <1>20, <1>24, <1>25, WDH, SMTT(30)
<1>27. Mixed(a2.hs, hs, EE, a, v, K1, H1) /\ a2.parts = P1
  BY ONLY <1>26, <1>23, <1>19
<1>28. PICK c1 : /\ \E n : c1 = Sealed(K1, n, H1, hs.s)
             /\ Mixed(a3.hs, hs, EE, a, v, K1, Append(H1, c1)) /\ a3.parts = Append(a2.parts, c1)
  <2>1. SealsKey(a3, hs, EE, a, v, K1, H1, a2.parts)
    BY ONLY <1>22, <1>7, <1>27, WS
  <2>2. QED
    BY ONLY <2>1 DEF SealsKey
<1>29. /\ \E n : c1 = Sealed(K1, n, H1, SS)
      /\ Mixed(a3.hs, hs, EE, a, v, K1, Append(H1, c1)) /\ a3.parts = Append(P1, c1)
  BY ONLY <1>4, <1>28, <1>27
<1>30. PICK H2 : H2 = <<"XX", a, b, EE, c1>>
  OBVIOUS
<1>31. Append(H1, c1) = H2
  BY <1>14, <1>30, Append4
<1>32. PICK P2 : P2 = <<EE, c1>>
  OBVIOUS
<1>33. Append(P1, c1) = P2
  BY <1>16, <1>32, Append1
<1>34. Mixed(a3.hs, hs, EE, a, v, K1, H2) /\ a3.parts = P2
  BY ONLY <1>29, <1>31, <1>33
<1>35. pair(a3.hs, "es") = <<SS, a>>
  BY <1>2, <1>34, PairOf
<1>36. PICK K2 : K2 = <<{EE, a}, {SS, a}>>
  OBVIOUS
<1>37. K2 # <<>>
  BY <1>36, Nonempty
<1>38. Append(K1, {SS, a}) = K2
  BY <1>21, <1>36, Append1
<1>39. "es" \notin {"e", "s"}
  OBVIOUS
<1>40. SS # <<>> /\ a # <<>>
  BY <1>1, <1>2
<1>41. Mixed(a4.hs, hs, EE, a, v, Append(K1, {SS, a}), H2) /\ a4.parts = a3.parts
  BY ONLY <1>8, <1>34, <1>35, <1>39, <1>40, WDH, SMTT(30)
<1>42. Mixed(a4.hs, hs, EE, a, v, K2, H2) /\ a4.parts = P2
  BY ONLY <1>41, <1>38, <1>34
<1>43. PICK c2 : /\ \E n : c2 = Sealed(K2, n, H2, <<>>)
             /\ Encrypt(a4.hs, <<>>) = c2 /\ Mixed(mixHash(Counted(a4.hs), c2), hs, EE, a, v, K2, Append(H2, c2))
  BY ONLY <1>37, <1>42, WSeals
<1>44. w.hs = advance(mixHash(Counted(a4.hs), c2)) /\ w.parts = Append(a4.parts, c2)
  <2>1. Wrote(w, a4, c2)
    BY <1>3, <1>9, <1>43, WriteIs
  <2>2. QED
    BY <2>1 DEF Wrote
<1>45. PICK H3 : H3 = <<"XX", a, b, EE, c1, c2>>
  OBVIOUS
<1>46. Append(H2, c2) = H3
  BY <1>30, <1>45, Append5
<1>47. PICK P3 : P3 = <<EE, c1, c2>>
  OBVIOUS
<1>48. Append(P2, c2) = P3
  BY <1>32, <1>47, Append2
<1>49. w.parts = <<EE, c1, c2>>
  BY ONLY <1>44, <1>48, <1>47, <1>42
<1>50. Mixed(mixHash(Counted(a4.hs), c2), hs, EE, a, v, K2, H3)
  BY ONLY <1>43, <1>46
<1>51. 2 = 1 + 1 /\ 2 # Len(messages("XX"))
  BY MessagesAre
<1>52. Base(hs, e, "XX", "handshake", 1)
  OBVIOUS
<1>53. Base(w.hs, e, "XX", "handshake", 2) /\ Holds(w.hs, EE, a, v, K2, H3)
  BY ONLY <1>52, <1>50, <1>44, <1>51, OnBase
<1>54. /\ Base(w.hs, e, "XX", "handshake", 2)
      /\ Holds(w.hs, Ephemeral(e), a, v, <<{Ephemeral(e), a}, {Static(e[1]), a}>>,
            <<"XX", a, b, Ephemeral(e), c1, c2>>)
  BY <1>1, <1>2, <1>36, <1>45, <1>53
<1>55. \E n : c1 = Sealed(<<{Ephemeral(e), a}>>, n, <<"XX", a, b, Ephemeral(e)>>, Static(e[1]))
  BY <1>1, <1>2, <1>29, <1>21, <1>14
<1>56. \E n : c2 = Sealed(<<{Ephemeral(e), a}, {Static(e[1]), a}>>, n, <<"XX", a, b, Ephemeral(e), c1>>, <<>>)
  BY <1>1, <1>2, <1>43, <1>36, <1>30
<1>57. w.parts = <<Ephemeral(e), c1, c2>>
  BY <1>1, <1>2, <1>49
<1>58. \E d1, d2 :
        /\ Base(w.hs, e, "XX", "handshake", 2)
        /\ Holds(w.hs, Ephemeral(e), a, v, <<{Ephemeral(e), a}, {Static(e[1]), a}>>,
              <<"XX", a, b, Ephemeral(e), d1, d2>>)
        /\ (\E n : d1 = Sealed(<<{Ephemeral(e), a}>>, n, <<"XX", a, b, Ephemeral(e)>>, Static(e[1])))
        /\ (\E n : d2 = Sealed(<<{Ephemeral(e), a}, {Static(e[1]), a}>>, n, <<"XX", a, b, Ephemeral(e), d1>>, <<>>))
        /\ w.parts = <<Ephemeral(e), d1, d2>>
  <2> WITNESS c1, c2
  <2>1. QED
    BY ONLY <1>54, <1>55, <1>56, <1>57
<1>59. QED
  BY ONLY <1>58 DEF SaidXX2

HeardXX2(e, S, got) ==
  \E c1, c2, c3, k2 :
    /\ c1 \in S /\ c2 \in S /\ c3 \in S
    /\ Base(got, e, "XX", "handshake", 2)
    /\ Holds(got, Ephemeral(e), c1, k2, <<{Ephemeral(e), c1}, {Ephemeral(e), k2}>>,
          <<"XX", Ephemeral(e), <<>>, c1, c2, c3>>)
    /\ (\E n : c2 = Sealed(<<{Ephemeral(e), c1}>>, n, <<"XX", Ephemeral(e), <<>>, c1>>, k2))
    /\ (\E n, k : c3 = Sealed(<<{Ephemeral(e), c1}, {Ephemeral(e), k2}>>, n, <<"XX", Ephemeral(e), <<>>, c1, c2>>, k))
    /\ c1 # <<>>

LEMMA ReadXX2 ==
  ASSUME NEW e, initiator(e), NEW hs, NEW u, NEW v, Base(hs, e, "XX", "handshake", 1),
         Holds(hs, Ephemeral(e), u, v, <<>>, <<"XX", Ephemeral(e), <<>>>>),
         NEW S, NEW parts \in Seq(S), NEW got, got = ReadMessage(hs, parts), got # NoEnd
  PROVE  HeardXX2(e, S, got)
<1>1. PICK EE : EE = Ephemeral(e) /\ EE # <<>>
  BY Lengths
<1>2. PICK SS : SS = Static(e[1]) /\ SS # <<>>
  BY Lengths
<1>3. messages(hs.pattern)[hs.idx + 1] = <<"e", "ee", "s", "es">> /\ DOMAIN hs = Fields
      /\ Ephemeral(hs.end) = EE /\ hs.s = SS
  BY <1>1, <1>2, MessagesAre DEF Base
<1>4. hs.s = SS
  BY <1>3
<1>5. PICK a1 : a1 = Reads(hs, parts, "e")
  OBVIOUS
<1>6. PICK a2 : a2 = Reads(a1.hs, a1.parts, "ee")
  OBVIOUS
<1>7. PICK a3 : a3 = Reads(a2.hs, a2.parts, "s")
  OBVIOUS
<1>8. PICK a4 : a4 = Reads(a3.hs, a3.parts, "es")
  OBVIOUS
<1>9. ReadOver(hs, parts, <<"e", "ee", "s", "es">>) = a4
  <2>1. /\ <<"e", "ee", "s", "es">>[1] = "e"
        /\ <<"e", "ee", "s", "es">>[2] = "ee"
        /\ <<"e", "ee", "s", "es">>[3] = "s"
        /\ <<"e", "ee", "s", "es">>[4] = "es" /\ Len(<<"e", "ee", "s", "es">>) = 4
    OBVIOUS
  <2> DEFINE m == <<"e", "ee", "s", "es">>
  <2> HIDE DEF m
  <2>2. /\ a1 = Reads(hs, parts, m[1])
        /\ a2 = Reads(a1.hs, a1.parts, m[2])
        /\ a3 = Reads(a2.hs, a2.parts, m[3])
        /\ a4 = Reads(a3.hs, a3.parts, m[4]) /\ Len(m) = 4
    BY <1>5, <1>6, <1>7, <1>8, <2>1 DEF m
  <2>3. ReadOver(hs, parts, m) = a4
    BY ONLY <2>2, ReadOver4
  <2>4. QED
    BY <2>3 DEF m
<1>10. /\ a4.hs # NoEnd /\ Len(a4.parts) = 1 /\ Opens(a4.hs, a4.parts[1])
      /\ got = advance(mixHash(Counted(a4.hs), a4.parts[1]))
  BY <1>3, <1>9, ReadIs
<1>11. a3.hs # NoEnd
  BY <1>8, <1>10, ReadsOn
<1>12. a2.hs # NoEnd
  BY <1>7, <1>11, ReadsOn
<1>13. a1.hs # NoEnd
  BY <1>6, <1>12, ReadsOn
<1>14. PICK K0 : K0 = <<>>
  OBVIOUS
<1>15. PICK H0 : H0 = <<"XX", EE, <<>>>>
  OBVIOUS
<1>16. Mixed(hs, hs, EE, u, v, K0, H0)
  BY <1>1, <1>2, <1>3, <1>14, <1>15, SelfMixed DEF Holds
<1>17. PICK c1 \in S : Mixed(a1.hs, hs, EE, c1, v, K0, Append(H0, c1)) /\ c1 # <<>> /\ a1.parts \in Seq(S)
  BY <1>5, <1>16, <1>13, RE
<1>18. PICK H1 : H1 = <<"XX", EE, <<>>, c1>>
  OBVIOUS
<1>19. Append(H0, c1) = H1
  BY <1>15, <1>18, Append3
<1>20. Mixed(a1.hs, hs, EE, c1, v, K0, H1) /\ a1.parts \in Seq(S)
  BY ONLY <1>17, <1>19
<1>21. pair(a1.hs, "ee") = <<EE, c1>>
  BY <1>2, <1>20, PairOf
<1>22. PICK K1 : K1 = <<{EE, c1}>>
  OBVIOUS
<1>23. K1 # <<>>
  BY <1>22, Nonempty
<1>24. Append(K0, {EE, c1}) = K1
  BY <1>14, <1>22
<1>25. "ee" \notin {"e", "s"}
  OBVIOUS
<1>26. /\ Mixed(a2.hs, hs, EE, c1, v, Append(K0, {EE, c1}), H1) /\ a2.parts = a1.parts
      /\ EE # <<>> /\ c1 # <<>>
  BY ONLY <1>6, <1>20, <1>21, <1>25, <1>12, RDH, SMTT(30)
<1>27. Mixed(a2.hs, hs, EE, c1, v, K1, H1) /\ a2.parts \in Seq(S)
  BY ONLY <1>26, <1>24, <1>20
<1>28. PICK c2, k2 : /\ c2 \in S /\ \E n : c2 = Sealed(K1, n, H1, k2)
                      /\ Mixed(a3.hs, hs, EE, c1, k2, K1, Append(H1, c2)) /\ a3.parts \in Seq(S)
  BY ONLY parts \in Seq(S), <1>23, <1>7, <1>27, <1>11, RS
<1>29. PICK H2 : H2 = <<"XX", EE, <<>>, c1, c2>>
  OBVIOUS
<1>30. Append(H1, c2) = H2
  BY <1>18, <1>29, Append4
<1>31. Mixed(a3.hs, hs, EE, c1, k2, K1, H2) /\ a3.parts \in Seq(S)
  BY ONLY <1>28, <1>30
<1>32. pair(a3.hs, "es") = <<EE, k2>>
  BY <1>2, <1>31, PairOf
<1>33. PICK K2 : K2 = <<{EE, c1}, {EE, k2}>>
  OBVIOUS
<1>34. K2 # <<>>
  BY <1>33, Nonempty
<1>35. Append(K1, {EE, k2}) = K2
  BY <1>22, <1>33, Append1
<1>36. "es" \notin {"e", "s"}
  OBVIOUS
<1>37. /\ Mixed(a4.hs, hs, EE, c1, k2, Append(K1, {EE, k2}), H2) /\ a4.parts = a3.parts
      /\ EE # <<>> /\ k2 # <<>>
  BY ONLY <1>8, <1>31, <1>32, <1>36, <1>10, RDH, SMTT(30)
<1>38. Mixed(a4.hs, hs, EE, c1, k2, K2, H2) /\ a4.parts \in Seq(S)
  BY ONLY <1>37, <1>35, <1>31
<1>39. PICK c3 \in S : /\ c3 = a4.parts[1] /\ \E n, k : c3 = Sealed(K2, n, H2, k)
                  /\ Mixed(mixHash(Counted(a4.hs), c3), hs, EE, c1, k2, K2, Append(H2, c3))
  BY ONLY <1>34, <1>10, <1>38, RSealed
<1>40. /\ c3 \in S /\ \E n, k : c3 = Sealed(K2, n, H2, k)
      /\ Mixed(mixHash(Counted(a4.hs), c3), hs, EE, c1, k2, K2, Append(H2, c3))
      /\ got = advance(mixHash(Counted(a4.hs), c3))
  BY ONLY <1>39, <1>10
<1>41. PICK H3 : H3 = <<"XX", EE, <<>>, c1, c2, c3>>
  OBVIOUS
<1>42. Append(H2, c3) = H3
  BY <1>29, <1>41, Append5
<1>43. Mixed(mixHash(Counted(a4.hs), c3), hs, EE, c1, k2, K2, H3)
  BY ONLY <1>40, <1>42
<1>44. 2 = 1 + 1 /\ 2 # Len(messages("XX"))
  BY MessagesAre
<1>45. Base(hs, e, "XX", "handshake", 1)
  OBVIOUS
<1>46. Base(got, e, "XX", "handshake", 2) /\ Holds(got, EE, c1, k2, K2, H3)
  BY ONLY <1>45, <1>43, <1>40, <1>44, OnBase
<1>47. /\ Base(got, e, "XX", "handshake", 2)
      /\ Holds(got, Ephemeral(e), c1, k2, <<{Ephemeral(e), c1}, {Ephemeral(e), k2}>>,
            <<"XX", Ephemeral(e), <<>>, c1, c2, c3>>)
  BY <1>1, <1>2, <1>33, <1>41, <1>46
<1>48. \E n : c2 = Sealed(<<{Ephemeral(e), c1}>>, n, <<"XX", Ephemeral(e), <<>>, c1>>, k2)
  BY <1>1, <1>2, <1>28, <1>22, <1>18
<1>49. \E n, k : c3 = Sealed(<<{Ephemeral(e), c1}, {Ephemeral(e), k2}>>, n, <<"XX", Ephemeral(e), <<>>, c1, c2>>, k)
  BY <1>1, <1>2, <1>40, <1>33, <1>29
<1>50. c1 # <<>>
  BY <1>2, <1>17, <1>26, <1>28, <1>37, <1>40
<1>51. c1 \in S /\ c2 \in S /\ c3 \in S
  BY <1>17, <1>26, <1>28, <1>37, <1>40
<1>52. \E d1, d2, d3, m2 :
        /\ d1 \in S /\ d2 \in S /\ d3 \in S
        /\ Base(got, e, "XX", "handshake", 2)
        /\ Holds(got, Ephemeral(e), d1, m2, <<{Ephemeral(e), d1}, {Ephemeral(e), m2}>>,
              <<"XX", Ephemeral(e), <<>>, d1, d2, d3>>)
        /\ (\E n : d2 = Sealed(<<{Ephemeral(e), d1}>>, n, <<"XX", Ephemeral(e), <<>>, d1>>, m2))
        /\ (\E n, k : d3 = Sealed(<<{Ephemeral(e), d1}, {Ephemeral(e), m2}>>, n,
              <<"XX", Ephemeral(e), <<>>, d1, d2>>, k))
        /\ d1 # <<>>
  <2> WITNESS c1, c2, c3, k2
  <2>1. QED
    BY ONLY <1>47, <1>48, <1>49, <1>50, <1>51
<1>53. QED
  BY ONLY <1>52 DEF HeardXX2

\* XX, the third: the phone's static key and the payload; the session is open.
SaidXX3(e, v, p, q, a, b, c, d, w) ==
  \E c1, c2 :
    /\ Base(w.hs, e, "XX", "open", 3) /\ Keyed(w.hs, 1)
    /\ w.hs.rs = v /\ w.hs.ck = <<p, q, {Static(e[1]), a}>>
    /\ w.hs.h = <<"XX", Ephemeral(e), b, a, c, d, c1, c2>>
    /\ (\E n : c1 = Sealed(<<p, q>>, n, <<"XX", Ephemeral(e), b, a, c, d>>, Static(e[1])))
    /\ (\E n : c2 = Sealed(<<p, q, {Static(e[1]), a}>>, n, <<"XX", Ephemeral(e), b, a, c, d, c1>>, <<>>))
    /\ w.parts = <<c1, c2>>

LEMMA WriteXX3 ==
  ASSUME NEW e, initiator(e), NEW hs, NEW v, NEW p, NEW q, NEW a, NEW b, NEW c, NEW d,
         Base(hs, e, "XX", "handshake", 2),
         Holds(hs, Ephemeral(e), a, v, <<p, q>>, <<"XX", Ephemeral(e), b, a, c, d>>), a # <<>>,
         NEW w, w = WriteMessage(hs)
  PROVE  SaidXX3(e, v, p, q, a, b, c, d, w)
<1>1. PICK EE : EE = Ephemeral(e) /\ EE # <<>>
  BY Lengths
<1>2. PICK SS : SS = Static(e[1]) /\ SS # <<>>
  BY Lengths
<1>3. messages(hs.pattern)[hs.idx + 1] = <<"s", "se">> /\ DOMAIN hs = Fields /\ Ephemeral(hs.end) = EE /\ hs.s = SS
  BY <1>1, <1>2, MessagesAre DEF Base
<1>4. hs.s = SS
  BY <1>3
<1>5. PICK a1 : a1 = Writes(hs, <<>>, "s")
  OBVIOUS
<1>6. PICK a2 : a2 = Writes(a1.hs, a1.parts, "se")
  OBVIOUS
<1>7. WrittenOver(hs, <<"s", "se">>) = a2
  <2>1. /\ <<"s", "se">>[1] = "s"
        /\ <<"s", "se">>[2] = "se" /\ Len(<<"s", "se">>) = 2
    OBVIOUS
  <2> DEFINE m == <<"s", "se">>
  <2> HIDE DEF m
  <2>2. /\ a1 = Writes(hs, <<>>, m[1])
        /\ a2 = Writes(a1.hs, a1.parts, m[2]) /\ Len(m) = 2
    BY <1>5, <1>6, <2>1 DEF m
  <2>3. WrittenOver(hs, m) = a2
    BY ONLY <2>2, Written2
  <2>4. QED
    BY <2>3 DEF m
<1>8. PICK K0 : K0 = <<p, q>>
  OBVIOUS
<1>9. K0 # <<>>
  BY <1>8, Nonempty
<1>10. PICK H0 : H0 = <<"XX", EE, b, a, c, d>>
  OBVIOUS
<1>11. PICK P0 : P0 = <<>>
  OBVIOUS
<1>12. Mixed(hs, hs, EE, a, v, K0, H0)
  BY <1>1, <1>2, <1>3, <1>8, <1>10, SelfMixed DEF Holds
<1>13. PICK c1 : /\ \E n : c1 = Sealed(K0, n, H0, hs.s)
             /\ Mixed(a1.hs, hs, EE, a, v, K0, Append(H0, c1)) /\ a1.parts = Append(<<>>, c1)
  <2>1. SealsKey(a1, hs, EE, a, v, K0, H0, <<>>)
    BY ONLY <1>9, <1>5, <1>12, WS
  <2>2. QED
    BY ONLY <2>1 DEF SealsKey
<1>14. /\ \E n : c1 = Sealed(K0, n, H0, SS)
      /\ Mixed(a1.hs, hs, EE, a, v, K0, Append(H0, c1)) /\ a1.parts = Append(P0, c1)
  BY ONLY <1>4, <1>13, <1>11
<1>15. PICK H1 : H1 = <<"XX", EE, b, a, c, d, c1>>
  OBVIOUS
<1>16. Append(H0, c1) = H1
  BY <1>10, <1>15, Append6
<1>17. PICK P1 : P1 = <<c1>>
  OBVIOUS
<1>18. Append(P0, c1) = P1
  BY <1>11, <1>17
<1>19. Mixed(a1.hs, hs, EE, a, v, K0, H1) /\ a1.parts = P1
  BY ONLY <1>14, <1>16, <1>18
<1>20. pair(a1.hs, "se") = <<SS, a>>
  BY <1>2, <1>19, PairOf
<1>21. PICK K1 : K1 = <<p, q, {SS, a}>>
  OBVIOUS
<1>22. K1 # <<>>
  BY <1>21, Nonempty
<1>23. Append(K0, {SS, a}) = K1
  BY <1>8, <1>21, Append2
<1>24. "se" \notin {"e", "s"}
  OBVIOUS
<1>25. SS # <<>> /\ a # <<>>
  BY <1>1, <1>2
<1>26. Mixed(a2.hs, hs, EE, a, v, Append(K0, {SS, a}), H1) /\ a2.parts = a1.parts
  BY ONLY <1>6, <1>19, <1>20, <1>24, <1>25, WDH, SMTT(30)
<1>27. Mixed(a2.hs, hs, EE, a, v, K1, H1) /\ a2.parts = P1
  BY ONLY <1>26, <1>23, <1>19
<1>28. PICK c2 : /\ \E n : c2 = Sealed(K1, n, H1, <<>>)
             /\ Encrypt(a2.hs, <<>>) = c2 /\ Mixed(mixHash(Counted(a2.hs), c2), hs, EE, a, v, K1, Append(H1, c2))
  BY ONLY <1>22, <1>27, WSeals
<1>29. w.hs = advance(mixHash(Counted(a2.hs), c2)) /\ w.parts = Append(a2.parts, c2)
  <2>1. Wrote(w, a2, c2)
    BY <1>3, <1>7, <1>28, WriteIs
  <2>2. QED
    BY <2>1 DEF Wrote
<1>30. PICK H2 : H2 = <<"XX", EE, b, a, c, d, c1, c2>>
  OBVIOUS
<1>31. Append(H1, c2) = H2
  BY <1>15, <1>30, Append7
<1>32. PICK P2 : P2 = <<c1, c2>>
  OBVIOUS
<1>33. Append(P1, c2) = P2
  BY <1>17, <1>32, Append1
<1>34. w.parts = <<c1, c2>>
  BY ONLY <1>29, <1>33, <1>32, <1>27
<1>35. Mixed(mixHash(Counted(a2.hs), c2), hs, EE, a, v, K1, H2)
  BY ONLY <1>28, <1>31
<1>36. 3 = 2 + 1 /\ 3 = Len(messages("XX"))
  BY MessagesAre
<1>37. Base(hs, e, "XX", "handshake", 2)
  OBVIOUS
<1>38. Opened(w.hs, e, "XX", 3, v, K1, H2)
  BY ONLY <1>37, <1>35, <1>29, <1>36, EndsBase
<1>39. /\ Base(w.hs, e, "XX", "open", 3) /\ Keyed(w.hs, 1)
      /\ w.hs.rs = v /\ w.hs.ck = <<p, q, {Static(e[1]), a}>>
      /\ w.hs.h = <<"XX", Ephemeral(e), b, a, c, d, c1, c2>>
  BY <1>1, <1>2, <1>21, <1>30, <1>38 DEF Opened
<1>40. \E n : c1 = Sealed(<<p, q>>, n, <<"XX", Ephemeral(e), b, a, c, d>>, Static(e[1]))
  BY <1>1, <1>2, <1>14, <1>8, <1>10
<1>41. \E n : c2 = Sealed(<<p, q, {Static(e[1]), a}>>, n, <<"XX", Ephemeral(e), b, a, c, d, c1>>, <<>>)
  BY <1>1, <1>2, <1>28, <1>21, <1>15
<1>42. w.parts = <<c1, c2>>
  BY <1>1, <1>2, <1>34
<1>43. \E d1, d2 :
        /\ Base(w.hs, e, "XX", "open", 3) /\ Keyed(w.hs, 1)
        /\ w.hs.rs = v /\ w.hs.ck = <<p, q, {Static(e[1]), a}>>
        /\ w.hs.h = <<"XX", Ephemeral(e), b, a, c, d, d1, d2>>
        /\ (\E n : d1 = Sealed(<<p, q>>, n, <<"XX", Ephemeral(e), b, a, c, d>>, Static(e[1])))
        /\ (\E n : d2 = Sealed(<<p, q, {Static(e[1]), a}>>, n, <<"XX", Ephemeral(e), b, a, c, d, d1>>, <<>>))
        /\ w.parts = <<d1, d2>>
  <2> WITNESS c1, c2
  <2>1. QED
    BY ONLY <1>39, <1>40, <1>41, <1>42
<1>44. QED
  BY ONLY <1>43 DEF SaidXX3

HeardXX3(e, p, q, a, b, c, d, S, got) ==
  \E c1, c2 :
    /\ c1 \in S /\ c2 \in S
    /\ Base(got, e, "XX", "open", 3) /\ Keyed(got, 2)
    /\ got.ck = <<p, q, {Ephemeral(e), got.rs}>>
    /\ got.h = <<"XX", a, b, Ephemeral(e), c, d, c1, c2>>
    /\ (\E n : c1 = Sealed(<<p, q>>, n, <<"XX", a, b, Ephemeral(e), c, d>>, got.rs))
    /\ (\E n, k : c2 = Sealed(<<p, q, {Ephemeral(e), got.rs}>>, n, <<"XX", a, b, Ephemeral(e), c, d, c1>>, k))

LEMMA ReadXX3 ==
  ASSUME NEW e, ~ initiator(e), NEW hs, NEW u, NEW v, NEW p, NEW q, NEW a, NEW b, NEW c, NEW d,
         Base(hs, e, "XX", "handshake", 2),
         Holds(hs, Ephemeral(e), u, v, <<p, q>>, <<"XX", a, b, Ephemeral(e), c, d>>),
         NEW S, NEW parts \in Seq(S), NEW got, got = ReadMessage(hs, parts), got # NoEnd
  PROVE  HeardXX3(e, p, q, a, b, c, d, S, got)
<1>1. PICK EE : EE = Ephemeral(e) /\ EE # <<>>
  BY Lengths
<1>2. PICK SS : SS = Static(e[1]) /\ SS # <<>>
  BY Lengths
<1>3. messages(hs.pattern)[hs.idx + 1] = <<"s", "se">> /\ DOMAIN hs = Fields /\ Ephemeral(hs.end) = EE /\ hs.s = SS
  BY <1>1, <1>2, MessagesAre DEF Base
<1>4. hs.s = SS
  BY <1>3
<1>5. PICK a1 : a1 = Reads(hs, parts, "s")
  OBVIOUS
<1>6. PICK a2 : a2 = Reads(a1.hs, a1.parts, "se")
  OBVIOUS
<1>7. ReadOver(hs, parts, <<"s", "se">>) = a2
  <2>1. /\ <<"s", "se">>[1] = "s"
        /\ <<"s", "se">>[2] = "se" /\ Len(<<"s", "se">>) = 2
    OBVIOUS
  <2> DEFINE m == <<"s", "se">>
  <2> HIDE DEF m
  <2>2. /\ a1 = Reads(hs, parts, m[1])
        /\ a2 = Reads(a1.hs, a1.parts, m[2]) /\ Len(m) = 2
    BY <1>5, <1>6, <2>1 DEF m
  <2>3. ReadOver(hs, parts, m) = a2
    BY ONLY <2>2, ReadOver2
  <2>4. QED
    BY <2>3 DEF m
<1>8. /\ a2.hs # NoEnd /\ Len(a2.parts) = 1 /\ Opens(a2.hs, a2.parts[1])
      /\ got = advance(mixHash(Counted(a2.hs), a2.parts[1]))
  BY <1>3, <1>7, ReadIs
<1>9. a1.hs # NoEnd
  BY <1>6, <1>8, ReadsOn
<1>10. PICK K0 : K0 = <<p, q>>
  OBVIOUS
<1>11. K0 # <<>>
  BY <1>10, Nonempty
<1>12. PICK H0 : H0 = <<"XX", a, b, EE, c, d>>
  OBVIOUS
<1>13. Mixed(hs, hs, EE, u, v, K0, H0)
  BY <1>1, <1>2, <1>3, <1>10, <1>12, SelfMixed DEF Holds
<1>14. PICK c1, k1 : /\ c1 \in S /\ \E n : c1 = Sealed(K0, n, H0, k1)
                      /\ Mixed(a1.hs, hs, EE, u, k1, K0, Append(H0, c1)) /\ a1.parts \in Seq(S)
  BY ONLY parts \in Seq(S), <1>11, <1>5, <1>13, <1>9, RS
<1>15. PICK H1 : H1 = <<"XX", a, b, EE, c, d, c1>>
  OBVIOUS
<1>16. Append(H0, c1) = H1
  BY <1>12, <1>15, Append6
<1>17. Mixed(a1.hs, hs, EE, u, k1, K0, H1) /\ a1.parts \in Seq(S)
  BY ONLY <1>14, <1>16
<1>18. pair(a1.hs, "se") = <<EE, k1>>
  BY <1>2, <1>17, PairOf
<1>19. PICK K1 : K1 = <<p, q, {EE, k1}>>
  OBVIOUS
<1>20. K1 # <<>>
  BY <1>19, Nonempty
<1>21. Append(K0, {EE, k1}) = K1
  BY <1>10, <1>19, Append2
<1>22. "se" \notin {"e", "s"}
  OBVIOUS
<1>23. /\ Mixed(a2.hs, hs, EE, u, k1, Append(K0, {EE, k1}), H1) /\ a2.parts = a1.parts
      /\ EE # <<>> /\ k1 # <<>>
  BY ONLY <1>6, <1>17, <1>18, <1>22, <1>8, RDH, SMTT(30)
<1>24. Mixed(a2.hs, hs, EE, u, k1, K1, H1) /\ a2.parts \in Seq(S)
  BY ONLY <1>23, <1>21, <1>17
<1>25. PICK c2 \in S : /\ c2 = a2.parts[1] /\ \E n, k : c2 = Sealed(K1, n, H1, k)
                  /\ Mixed(mixHash(Counted(a2.hs), c2), hs, EE, u, k1, K1, Append(H1, c2))
  BY ONLY <1>20, <1>8, <1>24, RSealed
<1>26. /\ c2 \in S /\ \E n, k : c2 = Sealed(K1, n, H1, k)
      /\ Mixed(mixHash(Counted(a2.hs), c2), hs, EE, u, k1, K1, Append(H1, c2))
      /\ got = advance(mixHash(Counted(a2.hs), c2))
  BY ONLY <1>25, <1>8
<1>27. PICK H2 : H2 = <<"XX", a, b, EE, c, d, c1, c2>>
  OBVIOUS
<1>28. Append(H1, c2) = H2
  BY <1>15, <1>27, Append7
<1>29. Mixed(mixHash(Counted(a2.hs), c2), hs, EE, u, k1, K1, H2)
  BY ONLY <1>26, <1>28
<1>30. 3 = 2 + 1 /\ 3 = Len(messages("XX"))
  BY MessagesAre
<1>31. Base(hs, e, "XX", "handshake", 2)
  OBVIOUS
<1>32. Opened(got, e, "XX", 3, k1, K1, H2)
  BY ONLY <1>31, <1>29, <1>26, <1>30, EndsBase
<1>33. got.rs = k1
  BY <1>32 DEF Opened
<1>34. /\ Base(got, e, "XX", "open", 3) /\ Keyed(got, 2)
      /\ got.ck = <<p, q, {Ephemeral(e), got.rs}>>
      /\ got.h = <<"XX", a, b, Ephemeral(e), c, d, c1, c2>>
  BY <1>1, <1>2, <1>19, <1>27, <1>32, <1>33 DEF Opened
<1>35. \E n : c1 = Sealed(<<p, q>>, n, <<"XX", a, b, Ephemeral(e), c, d>>, got.rs)
  BY <1>1, <1>2, <1>14, <1>10, <1>12, <1>33
<1>36. \E n, k : c2 = Sealed(<<p, q, {Ephemeral(e), got.rs}>>, n, <<"XX", a, b, Ephemeral(e), c, d, c1>>, k)
  BY <1>1, <1>2, <1>26, <1>19, <1>15, <1>33
<1>37. c1 \in S /\ c2 \in S
  BY <1>14, <1>23, <1>26
<1>38. \E d1, d2 :
        /\ d1 \in S /\ d2 \in S
        /\ Base(got, e, "XX", "open", 3) /\ Keyed(got, 2)
        /\ got.ck = <<p, q, {Ephemeral(e), got.rs}>>
        /\ got.h = <<"XX", a, b, Ephemeral(e), c, d, d1, d2>>
        /\ (\E n : d1 = Sealed(<<p, q>>, n, <<"XX", a, b, Ephemeral(e), c, d>>, got.rs))
        /\ (\E n, k : d2 = Sealed(<<p, q, {Ephemeral(e), got.rs}>>, n, <<"XX", a, b, Ephemeral(e), c, d, d1>>, k))
  <2> WITNESS c1, c2
  <2>1. QED
    BY ONLY <1>34, <1>35, <1>36, <1>37
<1>39. QED
  BY ONLY <1>38 DEF HeardXX3

\* IK, the first: the phone's keys, sealed for the machine it is enrolled at.
SaidIK1(e, u, v, w) ==
  \E c1, c2 :
    /\ Base(w.hs, e, "IK", "handshake", 1)
    /\ Holds(w.hs, Ephemeral(e), u, v, <<{Ephemeral(e), v}, {Static(e[1]), v}>>, <<"IK", v, Ephemeral(e), c1, c2>>)
    /\ (\E n : c1 = Sealed(<<{Ephemeral(e), v}>>, n, <<"IK", v, Ephemeral(e)>>, Static(e[1])))
    /\ (\E n : c2 = Sealed(<<{Ephemeral(e), v}, {Static(e[1]), v}>>, n, <<"IK", v, Ephemeral(e), c1>>, <<>>))
    /\ w.parts = <<Ephemeral(e), c1, c2>>

LEMMA WriteIK1 ==
  ASSUME NEW e, initiator(e), NEW hs, NEW t, NEW u, NEW v, Base(hs, e, "IK", "handshake", 0),
         Holds(hs, t, u, v, <<>>, <<"IK", v>>), v # <<>>,
         NEW w, w = WriteMessage(hs)
  PROVE  SaidIK1(e, u, v, w)
<1>1. PICK EE : EE = Ephemeral(e) /\ EE # <<>>
  BY Lengths
<1>2. PICK SS : SS = Static(e[1]) /\ SS # <<>>
  BY Lengths
<1>3. messages(hs.pattern)[hs.idx + 1] = <<"e", "es", "s", "ss">> /\ DOMAIN hs = Fields
      /\ Ephemeral(hs.end) = EE /\ hs.s = SS
  BY <1>1, <1>2, MessagesAre DEF Base
<1>4. hs.s = SS
  BY <1>3
<1>5. PICK a1 : a1 = Writes(hs, <<>>, "e")
  OBVIOUS
<1>6. PICK a2 : a2 = Writes(a1.hs, a1.parts, "es")
  OBVIOUS
<1>7. PICK a3 : a3 = Writes(a2.hs, a2.parts, "s")
  OBVIOUS
<1>8. PICK a4 : a4 = Writes(a3.hs, a3.parts, "ss")
  OBVIOUS
<1>9. WrittenOver(hs, <<"e", "es", "s", "ss">>) = a4
  <2>1. /\ <<"e", "es", "s", "ss">>[1] = "e"
        /\ <<"e", "es", "s", "ss">>[2] = "es"
        /\ <<"e", "es", "s", "ss">>[3] = "s"
        /\ <<"e", "es", "s", "ss">>[4] = "ss" /\ Len(<<"e", "es", "s", "ss">>) = 4
    OBVIOUS
  <2> DEFINE m == <<"e", "es", "s", "ss">>
  <2> HIDE DEF m
  <2>2. /\ a1 = Writes(hs, <<>>, m[1])
        /\ a2 = Writes(a1.hs, a1.parts, m[2])
        /\ a3 = Writes(a2.hs, a2.parts, m[3])
        /\ a4 = Writes(a3.hs, a3.parts, m[4]) /\ Len(m) = 4
    BY <1>5, <1>6, <1>7, <1>8, <2>1 DEF m
  <2>3. WrittenOver(hs, m) = a4
    BY ONLY <2>2, Written4
  <2>4. QED
    BY <2>3 DEF m
<1>10. PICK K0 : K0 = <<>>
  OBVIOUS
<1>11. PICK H0 : H0 = <<"IK", v>>
  OBVIOUS
<1>12. PICK P0 : P0 = <<>>
  OBVIOUS
<1>13. Mixed(hs, hs, t, u, v, K0, H0)
  BY <1>1, <1>2, <1>3, <1>10, <1>11, SelfMixed DEF Holds
<1>14. PICK H1 : H1 = <<"IK", v, EE>>
  OBVIOUS
<1>15. Append(H0, EE) = H1
  BY <1>11, <1>14, Append2
<1>16. PICK P1 : P1 = <<EE>>
  OBVIOUS
<1>17. Append(P0, EE) = P1
  BY <1>12, <1>16
<1>18. Mixed(a1.hs, hs, EE, u, v, K0, Append(H0, EE)) /\ a1.parts = Append(P0, EE)
  BY <1>5, <1>3, <1>13, <1>12, WE
<1>19. Mixed(a1.hs, hs, EE, u, v, K0, H1) /\ a1.parts = P1
  BY ONLY <1>18, <1>15, <1>17
<1>20. pair(a1.hs, "es") = <<EE, v>>
  BY <1>2, <1>19, PairOf
<1>21. PICK K1 : K1 = <<{EE, v}>>
  OBVIOUS
<1>22. K1 # <<>>
  BY <1>21, Nonempty
<1>23. Append(K0, {EE, v}) = K1
  BY <1>10, <1>21
<1>24. "es" \notin {"e", "s"}
  OBVIOUS
<1>25. EE # <<>> /\ v # <<>>
  BY <1>1, <1>2
<1>26. Mixed(a2.hs, hs, EE, u, v, Append(K0, {EE, v}), H1) /\ a2.parts = a1.parts
  BY ONLY <1>6, <1>19, <1>20, <1>24, <1>25, WDH, SMTT(30)
<1>27. Mixed(a2.hs, hs, EE, u, v, K1, H1) /\ a2.parts = P1
  BY ONLY <1>26, <1>23, <1>19
<1>28. PICK c1 : /\ \E n : c1 = Sealed(K1, n, H1, hs.s)
             /\ Mixed(a3.hs, hs, EE, u, v, K1, Append(H1, c1)) /\ a3.parts = Append(a2.parts, c1)
  <2>1. SealsKey(a3, hs, EE, u, v, K1, H1, a2.parts)
    BY ONLY <1>22, <1>7, <1>27, WS
  <2>2. QED
    BY ONLY <2>1 DEF SealsKey
<1>29. /\ \E n : c1 = Sealed(K1, n, H1, SS)
      /\ Mixed(a3.hs, hs, EE, u, v, K1, Append(H1, c1)) /\ a3.parts = Append(P1, c1)
  BY ONLY <1>4, <1>28, <1>27
<1>30. PICK H2 : H2 = <<"IK", v, EE, c1>>
  OBVIOUS
<1>31. Append(H1, c1) = H2
  BY <1>14, <1>30, Append3
<1>32. PICK P2 : P2 = <<EE, c1>>
  OBVIOUS
<1>33. Append(P1, c1) = P2
  BY <1>16, <1>32, Append1
<1>34. Mixed(a3.hs, hs, EE, u, v, K1, H2) /\ a3.parts = P2
  BY ONLY <1>29, <1>31, <1>33
<1>35. pair(a3.hs, "ss") = <<SS, v>>
  BY <1>2, <1>34, PairOf
<1>36. PICK K2 : K2 = <<{EE, v}, {SS, v}>>
  OBVIOUS
<1>37. K2 # <<>>
  BY <1>36, Nonempty
<1>38. Append(K1, {SS, v}) = K2
  BY <1>21, <1>36, Append1
<1>39. "ss" \notin {"e", "s"}
  OBVIOUS
<1>40. SS # <<>> /\ v # <<>>
  BY <1>1, <1>2
<1>41. Mixed(a4.hs, hs, EE, u, v, Append(K1, {SS, v}), H2) /\ a4.parts = a3.parts
  BY ONLY <1>8, <1>34, <1>35, <1>39, <1>40, WDH, SMTT(30)
<1>42. Mixed(a4.hs, hs, EE, u, v, K2, H2) /\ a4.parts = P2
  BY ONLY <1>41, <1>38, <1>34
<1>43. PICK c2 : /\ \E n : c2 = Sealed(K2, n, H2, <<>>)
             /\ Encrypt(a4.hs, <<>>) = c2 /\ Mixed(mixHash(Counted(a4.hs), c2), hs, EE, u, v, K2, Append(H2, c2))
  BY ONLY <1>37, <1>42, WSeals
<1>44. w.hs = advance(mixHash(Counted(a4.hs), c2)) /\ w.parts = Append(a4.parts, c2)
  <2>1. Wrote(w, a4, c2)
    BY <1>3, <1>9, <1>43, WriteIs
  <2>2. QED
    BY <2>1 DEF Wrote
<1>45. PICK H3 : H3 = <<"IK", v, EE, c1, c2>>
  OBVIOUS
<1>46. Append(H2, c2) = H3
  BY <1>30, <1>45, Append4
<1>47. PICK P3 : P3 = <<EE, c1, c2>>
  OBVIOUS
<1>48. Append(P2, c2) = P3
  BY <1>32, <1>47, Append2
<1>49. w.parts = <<EE, c1, c2>>
  BY ONLY <1>44, <1>48, <1>47, <1>42
<1>50. Mixed(mixHash(Counted(a4.hs), c2), hs, EE, u, v, K2, H3)
  BY ONLY <1>43, <1>46
<1>51. 1 = 0 + 1 /\ 1 # Len(messages("IK"))
  BY MessagesAre
<1>52. Base(hs, e, "IK", "handshake", 0)
  OBVIOUS
<1>53. Base(w.hs, e, "IK", "handshake", 1) /\ Holds(w.hs, EE, u, v, K2, H3)
  BY ONLY <1>52, <1>50, <1>44, <1>51, OnBase
<1>54. /\ Base(w.hs, e, "IK", "handshake", 1)
      /\ Holds(w.hs, Ephemeral(e), u, v, <<{Ephemeral(e), v}, {Static(e[1]), v}>>, <<"IK", v, Ephemeral(e), c1, c2>>)
  BY <1>1, <1>2, <1>36, <1>45, <1>53
<1>55. \E n : c1 = Sealed(<<{Ephemeral(e), v}>>, n, <<"IK", v, Ephemeral(e)>>, Static(e[1]))
  BY <1>1, <1>2, <1>29, <1>21, <1>14
<1>56. \E n : c2 = Sealed(<<{Ephemeral(e), v}, {Static(e[1]), v}>>, n, <<"IK", v, Ephemeral(e), c1>>, <<>>)
  BY <1>1, <1>2, <1>43, <1>36, <1>30
<1>57. w.parts = <<Ephemeral(e), c1, c2>>
  BY <1>1, <1>2, <1>49
<1>58. \E d1, d2 :
        /\ Base(w.hs, e, "IK", "handshake", 1)
        /\ Holds(w.hs, Ephemeral(e), u, v, <<{Ephemeral(e), v}, {Static(e[1]), v}>>,
              <<"IK", v, Ephemeral(e), d1, d2>>)
        /\ (\E n : d1 = Sealed(<<{Ephemeral(e), v}>>, n, <<"IK", v, Ephemeral(e)>>, Static(e[1])))
        /\ (\E n : d2 = Sealed(<<{Ephemeral(e), v}, {Static(e[1]), v}>>, n, <<"IK", v, Ephemeral(e), d1>>, <<>>))
        /\ w.parts = <<Ephemeral(e), d1, d2>>
  <2> WITNESS c1, c2
  <2>1. QED
    BY ONLY <1>54, <1>55, <1>56, <1>57
<1>59. QED
  BY ONLY <1>58 DEF SaidIK1

HeardIK1(e, t, S, got) ==
  \E c1, c2, c3, k2 :
    /\ c1 \in S /\ c2 \in S /\ c3 \in S
    /\ Base(got, e, "IK", "handshake", 1)
    /\ Holds(got, t, c1, k2, <<{Static(e[1]), c1}, {Static(e[1]), k2}>>, <<"IK", Static(e[1]), c1, c2, c3>>)
    /\ (\E n : c2 = Sealed(<<{Static(e[1]), c1}>>, n, <<"IK", Static(e[1]), c1>>, k2))
    /\ (\E n, k : c3 = Sealed(<<{Static(e[1]), c1}, {Static(e[1]), k2}>>, n, <<"IK", Static(e[1]), c1, c2>>, k))
    /\ c1 # <<>> /\ k2 # <<>>

LEMMA ReadIK1 ==
  ASSUME NEW e, ~ initiator(e), NEW hs, NEW t, NEW u, NEW v, Base(hs, e, "IK", "handshake", 0),
         Holds(hs, t, u, v, <<>>, <<"IK", Static(e[1])>>),
         NEW S, NEW parts \in Seq(S), NEW got, got = ReadMessage(hs, parts), got # NoEnd
  PROVE  HeardIK1(e, t, S, got)
<1>1. PICK EE : EE = Ephemeral(e) /\ EE # <<>>
  BY Lengths
<1>2. PICK SS : SS = Static(e[1]) /\ SS # <<>>
  BY Lengths
<1>3. messages(hs.pattern)[hs.idx + 1] = <<"e", "es", "s", "ss">> /\ DOMAIN hs = Fields
      /\ Ephemeral(hs.end) = EE /\ hs.s = SS
  BY <1>1, <1>2, MessagesAre DEF Base
<1>4. hs.s = SS
  BY <1>3
<1>5. PICK a1 : a1 = Reads(hs, parts, "e")
  OBVIOUS
<1>6. PICK a2 : a2 = Reads(a1.hs, a1.parts, "es")
  OBVIOUS
<1>7. PICK a3 : a3 = Reads(a2.hs, a2.parts, "s")
  OBVIOUS
<1>8. PICK a4 : a4 = Reads(a3.hs, a3.parts, "ss")
  OBVIOUS
<1>9. ReadOver(hs, parts, <<"e", "es", "s", "ss">>) = a4
  <2>1. /\ <<"e", "es", "s", "ss">>[1] = "e"
        /\ <<"e", "es", "s", "ss">>[2] = "es"
        /\ <<"e", "es", "s", "ss">>[3] = "s"
        /\ <<"e", "es", "s", "ss">>[4] = "ss" /\ Len(<<"e", "es", "s", "ss">>) = 4
    OBVIOUS
  <2> DEFINE m == <<"e", "es", "s", "ss">>
  <2> HIDE DEF m
  <2>2. /\ a1 = Reads(hs, parts, m[1])
        /\ a2 = Reads(a1.hs, a1.parts, m[2])
        /\ a3 = Reads(a2.hs, a2.parts, m[3])
        /\ a4 = Reads(a3.hs, a3.parts, m[4]) /\ Len(m) = 4
    BY <1>5, <1>6, <1>7, <1>8, <2>1 DEF m
  <2>3. ReadOver(hs, parts, m) = a4
    BY ONLY <2>2, ReadOver4
  <2>4. QED
    BY <2>3 DEF m
<1>10. /\ a4.hs # NoEnd /\ Len(a4.parts) = 1 /\ Opens(a4.hs, a4.parts[1])
      /\ got = advance(mixHash(Counted(a4.hs), a4.parts[1]))
  BY <1>3, <1>9, ReadIs
<1>11. a3.hs # NoEnd
  BY <1>8, <1>10, ReadsOn
<1>12. a2.hs # NoEnd
  BY <1>7, <1>11, ReadsOn
<1>13. a1.hs # NoEnd
  BY <1>6, <1>12, ReadsOn
<1>14. PICK K0 : K0 = <<>>
  OBVIOUS
<1>15. PICK H0 : H0 = <<"IK", SS>>
  OBVIOUS
<1>16. Mixed(hs, hs, t, u, v, K0, H0)
  BY <1>1, <1>2, <1>3, <1>14, <1>15, SelfMixed DEF Holds
<1>17. PICK c1 \in S : Mixed(a1.hs, hs, t, c1, v, K0, Append(H0, c1)) /\ c1 # <<>> /\ a1.parts \in Seq(S)
  BY <1>5, <1>16, <1>13, RE
<1>18. PICK H1 : H1 = <<"IK", SS, c1>>
  OBVIOUS
<1>19. Append(H0, c1) = H1
  BY <1>15, <1>18, Append2
<1>20. Mixed(a1.hs, hs, t, c1, v, K0, H1) /\ a1.parts \in Seq(S)
  BY ONLY <1>17, <1>19
<1>21. pair(a1.hs, "es") = <<SS, c1>>
  BY <1>2, <1>20, PairOf
<1>22. PICK K1 : K1 = <<{SS, c1}>>
  OBVIOUS
<1>23. K1 # <<>>
  BY <1>22, Nonempty
<1>24. Append(K0, {SS, c1}) = K1
  BY <1>14, <1>22
<1>25. "es" \notin {"e", "s"}
  OBVIOUS
<1>26. /\ Mixed(a2.hs, hs, t, c1, v, Append(K0, {SS, c1}), H1) /\ a2.parts = a1.parts
      /\ SS # <<>> /\ c1 # <<>>
  BY ONLY <1>6, <1>20, <1>21, <1>25, <1>12, RDH, SMTT(30)
<1>27. Mixed(a2.hs, hs, t, c1, v, K1, H1) /\ a2.parts \in Seq(S)
  BY ONLY <1>26, <1>24, <1>20
<1>28. PICK c2, k2 : /\ c2 \in S /\ \E n : c2 = Sealed(K1, n, H1, k2)
                      /\ Mixed(a3.hs, hs, t, c1, k2, K1, Append(H1, c2)) /\ a3.parts \in Seq(S)
  BY ONLY parts \in Seq(S), <1>23, <1>7, <1>27, <1>11, RS
<1>29. PICK H2 : H2 = <<"IK", SS, c1, c2>>
  OBVIOUS
<1>30. Append(H1, c2) = H2
  BY <1>18, <1>29, Append3
<1>31. Mixed(a3.hs, hs, t, c1, k2, K1, H2) /\ a3.parts \in Seq(S)
  BY ONLY <1>28, <1>30
<1>32. pair(a3.hs, "ss") = <<SS, k2>>
  BY <1>2, <1>31, PairOf
<1>33. PICK K2 : K2 = <<{SS, c1}, {SS, k2}>>
  OBVIOUS
<1>34. K2 # <<>>
  BY <1>33, Nonempty
<1>35. Append(K1, {SS, k2}) = K2
  BY <1>22, <1>33, Append1
<1>36. "ss" \notin {"e", "s"}
  OBVIOUS
<1>37. /\ Mixed(a4.hs, hs, t, c1, k2, Append(K1, {SS, k2}), H2) /\ a4.parts = a3.parts
      /\ SS # <<>> /\ k2 # <<>>
  BY ONLY <1>8, <1>31, <1>32, <1>36, <1>10, RDH, SMTT(30)
<1>38. Mixed(a4.hs, hs, t, c1, k2, K2, H2) /\ a4.parts \in Seq(S)
  BY ONLY <1>37, <1>35, <1>31
<1>39. PICK c3 \in S : /\ c3 = a4.parts[1] /\ \E n, k : c3 = Sealed(K2, n, H2, k)
                  /\ Mixed(mixHash(Counted(a4.hs), c3), hs, t, c1, k2, K2, Append(H2, c3))
  BY ONLY <1>34, <1>10, <1>38, RSealed
<1>40. /\ c3 \in S /\ \E n, k : c3 = Sealed(K2, n, H2, k)
      /\ Mixed(mixHash(Counted(a4.hs), c3), hs, t, c1, k2, K2, Append(H2, c3))
      /\ got = advance(mixHash(Counted(a4.hs), c3))
  BY ONLY <1>39, <1>10
<1>41. PICK H3 : H3 = <<"IK", SS, c1, c2, c3>>
  OBVIOUS
<1>42. Append(H2, c3) = H3
  BY <1>29, <1>41, Append4
<1>43. Mixed(mixHash(Counted(a4.hs), c3), hs, t, c1, k2, K2, H3)
  BY ONLY <1>40, <1>42
<1>44. 1 = 0 + 1 /\ 1 # Len(messages("IK"))
  BY MessagesAre
<1>45. Base(hs, e, "IK", "handshake", 0)
  OBVIOUS
<1>46. Base(got, e, "IK", "handshake", 1) /\ Holds(got, t, c1, k2, K2, H3)
  BY ONLY <1>45, <1>43, <1>40, <1>44, OnBase
<1>47. /\ Base(got, e, "IK", "handshake", 1)
      /\ Holds(got, t, c1, k2, <<{Static(e[1]), c1}, {Static(e[1]), k2}>>, <<"IK", Static(e[1]), c1, c2, c3>>)
  BY <1>1, <1>2, <1>33, <1>41, <1>46
<1>48. \E n : c2 = Sealed(<<{Static(e[1]), c1}>>, n, <<"IK", Static(e[1]), c1>>, k2)
  BY <1>1, <1>2, <1>28, <1>22, <1>18
<1>49. \E n, k : c3 = Sealed(<<{Static(e[1]), c1}, {Static(e[1]), k2}>>, n, <<"IK", Static(e[1]), c1, c2>>, k)
  BY <1>1, <1>2, <1>40, <1>33, <1>29
<1>50. c1 # <<>> /\ k2 # <<>>
  BY <1>2, <1>17, <1>26, <1>28, <1>37, <1>40
<1>51. c1 \in S /\ c2 \in S /\ c3 \in S
  BY <1>17, <1>26, <1>28, <1>37, <1>40
<1>52. \E d1, d2, d3, m2 :
        /\ d1 \in S /\ d2 \in S /\ d3 \in S
        /\ Base(got, e, "IK", "handshake", 1)
        /\ Holds(got, t, d1, m2, <<{Static(e[1]), d1}, {Static(e[1]), m2}>>, <<"IK", Static(e[1]), d1, d2, d3>>)
        /\ (\E n : d2 = Sealed(<<{Static(e[1]), d1}>>, n, <<"IK", Static(e[1]), d1>>, m2))
        /\ (\E n, k : d3 = Sealed(<<{Static(e[1]), d1}, {Static(e[1]), m2}>>, n, <<"IK", Static(e[1]), d1, d2>>, k))
        /\ d1 # <<>> /\ m2 # <<>>
  <2> WITNESS c1, c2, c3, k2
  <2>1. QED
    BY ONLY <1>47, <1>48, <1>49, <1>50, <1>51
<1>53. QED
  BY ONLY <1>52 DEF HeardIK1

\* IK, the second: the machine's ephemeral key; the session is open.
SaidIK2(e, v, p, q, a, c, d, w) ==
  \E c1 :
    /\ Base(w.hs, e, "IK", "open", 2) /\ Keyed(w.hs, 2)
    /\ w.hs.rs = v /\ w.hs.ck = <<p, q, {Ephemeral(e), a}, {Ephemeral(e), v}>>
    /\ w.hs.h = <<"IK", Static(e[1]), a, c, d, Ephemeral(e), c1>>
    /\ (\E n : c1 = Sealed(<<p, q, {Ephemeral(e), a}, {Ephemeral(e), v}>>, n,
          <<"IK", Static(e[1]), a, c, d, Ephemeral(e)>>, <<>>))
    /\ w.parts = <<Ephemeral(e), c1>>

LEMMA WriteIK2 ==
  ASSUME NEW e, ~ initiator(e), NEW hs, NEW t, NEW v, NEW p, NEW q, NEW a, NEW c, NEW d,
         Base(hs, e, "IK", "handshake", 1),
         Holds(hs, t, a, v, <<p, q>>, <<"IK", Static(e[1]), a, c, d>>), a # <<>>, v # <<>>,
         NEW w, w = WriteMessage(hs)
  PROVE  SaidIK2(e, v, p, q, a, c, d, w)
<1>1. PICK EE : EE = Ephemeral(e) /\ EE # <<>>
  BY Lengths
<1>2. PICK SS : SS = Static(e[1]) /\ SS # <<>>
  BY Lengths
<1>3. messages(hs.pattern)[hs.idx + 1] = <<"e", "ee", "se">> /\ DOMAIN hs = Fields /\ Ephemeral(hs.end) = EE
      /\ hs.s = SS
  BY <1>1, <1>2, MessagesAre DEF Base
<1>4. hs.s = SS
  BY <1>3
<1>5. PICK a1 : a1 = Writes(hs, <<>>, "e")
  OBVIOUS
<1>6. PICK a2 : a2 = Writes(a1.hs, a1.parts, "ee")
  OBVIOUS
<1>7. PICK a3 : a3 = Writes(a2.hs, a2.parts, "se")
  OBVIOUS
<1>8. WrittenOver(hs, <<"e", "ee", "se">>) = a3
  <2>1. /\ <<"e", "ee", "se">>[1] = "e"
        /\ <<"e", "ee", "se">>[2] = "ee"
        /\ <<"e", "ee", "se">>[3] = "se" /\ Len(<<"e", "ee", "se">>) = 3
    OBVIOUS
  <2> DEFINE m == <<"e", "ee", "se">>
  <2> HIDE DEF m
  <2>2. /\ a1 = Writes(hs, <<>>, m[1])
        /\ a2 = Writes(a1.hs, a1.parts, m[2])
        /\ a3 = Writes(a2.hs, a2.parts, m[3]) /\ Len(m) = 3
    BY <1>5, <1>6, <1>7, <2>1 DEF m
  <2>3. WrittenOver(hs, m) = a3
    BY ONLY <2>2, Written3
  <2>4. QED
    BY <2>3 DEF m
<1>9. PICK K0 : K0 = <<p, q>>
  OBVIOUS
<1>10. K0 # <<>>
  BY <1>9, Nonempty
<1>11. PICK H0 : H0 = <<"IK", SS, a, c, d>>
  OBVIOUS
<1>12. PICK P0 : P0 = <<>>
  OBVIOUS
<1>13. Mixed(hs, hs, t, a, v, K0, H0)
  BY <1>1, <1>2, <1>3, <1>9, <1>11, SelfMixed DEF Holds
<1>14. PICK H1 : H1 = <<"IK", SS, a, c, d, EE>>
  OBVIOUS
<1>15. Append(H0, EE) = H1
  BY <1>11, <1>14, Append5
<1>16. PICK P1 : P1 = <<EE>>
  OBVIOUS
<1>17. Append(P0, EE) = P1
  BY <1>12, <1>16
<1>18. Mixed(a1.hs, hs, EE, a, v, K0, Append(H0, EE)) /\ a1.parts = Append(P0, EE)
  BY <1>5, <1>3, <1>13, <1>12, WE
<1>19. Mixed(a1.hs, hs, EE, a, v, K0, H1) /\ a1.parts = P1
  BY ONLY <1>18, <1>15, <1>17
<1>20. pair(a1.hs, "ee") = <<EE, a>>
  BY <1>2, <1>19, PairOf
<1>21. PICK K1 : K1 = <<p, q, {EE, a}>>
  OBVIOUS
<1>22. K1 # <<>>
  BY <1>21, Nonempty
<1>23. Append(K0, {EE, a}) = K1
  BY <1>9, <1>21, Append2
<1>24. "ee" \notin {"e", "s"}
  OBVIOUS
<1>25. EE # <<>> /\ a # <<>>
  BY <1>1, <1>2
<1>26. Mixed(a2.hs, hs, EE, a, v, Append(K0, {EE, a}), H1) /\ a2.parts = a1.parts
  BY ONLY <1>6, <1>19, <1>20, <1>24, <1>25, WDH, SMTT(30)
<1>27. Mixed(a2.hs, hs, EE, a, v, K1, H1) /\ a2.parts = P1
  BY ONLY <1>26, <1>23, <1>19
<1>28. pair(a2.hs, "se") = <<EE, v>>
  BY <1>2, <1>27, PairOf
<1>29. PICK K2 : K2 = <<p, q, {EE, a}, {EE, v}>>
  OBVIOUS
<1>30. K2 # <<>>
  BY <1>29, Nonempty
<1>31. Append(K1, {EE, v}) = K2
  BY <1>21, <1>29, Append3
<1>32. "se" \notin {"e", "s"}
  OBVIOUS
<1>33. EE # <<>> /\ v # <<>>
  BY <1>1, <1>2
<1>34. Mixed(a3.hs, hs, EE, a, v, Append(K1, {EE, v}), H1) /\ a3.parts = a2.parts
  BY ONLY <1>7, <1>27, <1>28, <1>32, <1>33, WDH, SMTT(30)
<1>35. Mixed(a3.hs, hs, EE, a, v, K2, H1) /\ a3.parts = P1
  BY ONLY <1>34, <1>31, <1>27
<1>36. PICK c1 : /\ \E n : c1 = Sealed(K2, n, H1, <<>>)
             /\ Encrypt(a3.hs, <<>>) = c1 /\ Mixed(mixHash(Counted(a3.hs), c1), hs, EE, a, v, K2, Append(H1, c1))
  BY ONLY <1>30, <1>35, WSeals
<1>37. w.hs = advance(mixHash(Counted(a3.hs), c1)) /\ w.parts = Append(a3.parts, c1)
  <2>1. Wrote(w, a3, c1)
    BY <1>3, <1>8, <1>36, WriteIs
  <2>2. QED
    BY <2>1 DEF Wrote
<1>38. PICK H2 : H2 = <<"IK", SS, a, c, d, EE, c1>>
  OBVIOUS
<1>39. Append(H1, c1) = H2
  BY <1>14, <1>38, Append6
<1>40. PICK P2 : P2 = <<EE, c1>>
  OBVIOUS
<1>41. Append(P1, c1) = P2
  BY <1>16, <1>40, Append1
<1>42. w.parts = <<EE, c1>>
  BY ONLY <1>37, <1>41, <1>40, <1>35
<1>43. Mixed(mixHash(Counted(a3.hs), c1), hs, EE, a, v, K2, H2)
  BY ONLY <1>36, <1>39
<1>44. 2 = 1 + 1 /\ 2 = Len(messages("IK"))
  BY MessagesAre
<1>45. Base(hs, e, "IK", "handshake", 1)
  OBVIOUS
<1>46. Opened(w.hs, e, "IK", 2, v, K2, H2)
  BY ONLY <1>45, <1>43, <1>37, <1>44, EndsBase
<1>47. /\ Base(w.hs, e, "IK", "open", 2) /\ Keyed(w.hs, 2)
      /\ w.hs.rs = v /\ w.hs.ck = <<p, q, {Ephemeral(e), a}, {Ephemeral(e), v}>>
      /\ w.hs.h = <<"IK", Static(e[1]), a, c, d, Ephemeral(e), c1>>
  BY <1>1, <1>2, <1>29, <1>38, <1>46 DEF Opened
<1>48. \E n : c1 = Sealed(<<p, q, {Ephemeral(e), a}, {Ephemeral(e), v}>>, n,
      <<"IK", Static(e[1]), a, c, d, Ephemeral(e)>>, <<>>)
  BY <1>1, <1>2, <1>36, <1>29, <1>14
<1>49. w.parts = <<Ephemeral(e), c1>>
  BY <1>1, <1>2, <1>42
<1>50. \E d1 :
        /\ Base(w.hs, e, "IK", "open", 2) /\ Keyed(w.hs, 2)
        /\ w.hs.rs = v /\ w.hs.ck = <<p, q, {Ephemeral(e), a}, {Ephemeral(e), v}>>
        /\ w.hs.h = <<"IK", Static(e[1]), a, c, d, Ephemeral(e), d1>>
        /\ (\E n : d1 = Sealed(<<p, q, {Ephemeral(e), a}, {Ephemeral(e), v}>>, n,
              <<"IK", Static(e[1]), a, c, d, Ephemeral(e)>>, <<>>))
        /\ w.parts = <<Ephemeral(e), d1>>
  <2> WITNESS c1
  <2>1. QED
    BY ONLY <1>47, <1>48, <1>49
<1>51. QED
  BY ONLY <1>50 DEF SaidIK2

HeardIK2(e, v, p, q, c, d, S, got) ==
  \E c1, c2 :
    /\ c1 \in S /\ c2 \in S
    /\ Base(got, e, "IK", "open", 2) /\ Keyed(got, 1)
    /\ got.rs = v /\ got.ck = <<p, q, {Ephemeral(e), c1}, {Static(e[1]), c1}>>
    /\ got.h = <<"IK", v, Ephemeral(e), c, d, c1, c2>>
    /\ (\E n, k : c2 = Sealed(<<p, q, {Ephemeral(e), c1}, {Static(e[1]), c1}>>, n,
          <<"IK", v, Ephemeral(e), c, d, c1>>, k))

LEMMA ReadIK2 ==
  ASSUME NEW e, initiator(e), NEW hs, NEW u, NEW v, NEW p, NEW q, NEW c, NEW d, Base(hs, e, "IK", "handshake", 1),
         Holds(hs, Ephemeral(e), u, v, <<p, q>>, <<"IK", v, Ephemeral(e), c, d>>),
         NEW S, NEW parts \in Seq(S), NEW got, got = ReadMessage(hs, parts), got # NoEnd
  PROVE  HeardIK2(e, v, p, q, c, d, S, got)
<1>1. PICK EE : EE = Ephemeral(e) /\ EE # <<>>
  BY Lengths
<1>2. PICK SS : SS = Static(e[1]) /\ SS # <<>>
  BY Lengths
<1>3. messages(hs.pattern)[hs.idx + 1] = <<"e", "ee", "se">> /\ DOMAIN hs = Fields /\ Ephemeral(hs.end) = EE
      /\ hs.s = SS
  BY <1>1, <1>2, MessagesAre DEF Base
<1>4. hs.s = SS
  BY <1>3
<1>5. PICK a1 : a1 = Reads(hs, parts, "e")
  OBVIOUS
<1>6. PICK a2 : a2 = Reads(a1.hs, a1.parts, "ee")
  OBVIOUS
<1>7. PICK a3 : a3 = Reads(a2.hs, a2.parts, "se")
  OBVIOUS
<1>8. ReadOver(hs, parts, <<"e", "ee", "se">>) = a3
  <2>1. /\ <<"e", "ee", "se">>[1] = "e"
        /\ <<"e", "ee", "se">>[2] = "ee"
        /\ <<"e", "ee", "se">>[3] = "se" /\ Len(<<"e", "ee", "se">>) = 3
    OBVIOUS
  <2> DEFINE m == <<"e", "ee", "se">>
  <2> HIDE DEF m
  <2>2. /\ a1 = Reads(hs, parts, m[1])
        /\ a2 = Reads(a1.hs, a1.parts, m[2])
        /\ a3 = Reads(a2.hs, a2.parts, m[3]) /\ Len(m) = 3
    BY <1>5, <1>6, <1>7, <2>1 DEF m
  <2>3. ReadOver(hs, parts, m) = a3
    BY ONLY <2>2, ReadOver3
  <2>4. QED
    BY <2>3 DEF m
<1>9. /\ a3.hs # NoEnd /\ Len(a3.parts) = 1 /\ Opens(a3.hs, a3.parts[1])
      /\ got = advance(mixHash(Counted(a3.hs), a3.parts[1]))
  BY <1>3, <1>8, ReadIs
<1>10. a2.hs # NoEnd
  BY <1>7, <1>9, ReadsOn
<1>11. a1.hs # NoEnd
  BY <1>6, <1>10, ReadsOn
<1>12. PICK K0 : K0 = <<p, q>>
  OBVIOUS
<1>13. K0 # <<>>
  BY <1>12, Nonempty
<1>14. PICK H0 : H0 = <<"IK", v, EE, c, d>>
  OBVIOUS
<1>15. Mixed(hs, hs, EE, u, v, K0, H0)
  BY <1>1, <1>2, <1>3, <1>12, <1>14, SelfMixed DEF Holds
<1>16. PICK c1 \in S : Mixed(a1.hs, hs, EE, c1, v, K0, Append(H0, c1)) /\ c1 # <<>> /\ a1.parts \in Seq(S)
  BY <1>5, <1>15, <1>11, RE
<1>17. PICK H1 : H1 = <<"IK", v, EE, c, d, c1>>
  OBVIOUS
<1>18. Append(H0, c1) = H1
  BY <1>14, <1>17, Append5
<1>19. Mixed(a1.hs, hs, EE, c1, v, K0, H1) /\ a1.parts \in Seq(S)
  BY ONLY <1>16, <1>18
<1>20. pair(a1.hs, "ee") = <<EE, c1>>
  BY <1>2, <1>19, PairOf
<1>21. PICK K1 : K1 = <<p, q, {EE, c1}>>
  OBVIOUS
<1>22. K1 # <<>>
  BY <1>21, Nonempty
<1>23. Append(K0, {EE, c1}) = K1
  BY <1>12, <1>21, Append2
<1>24. "ee" \notin {"e", "s"}
  OBVIOUS
<1>25. /\ Mixed(a2.hs, hs, EE, c1, v, Append(K0, {EE, c1}), H1) /\ a2.parts = a1.parts
      /\ EE # <<>> /\ c1 # <<>>
  BY ONLY <1>6, <1>19, <1>20, <1>24, <1>10, RDH, SMTT(30)
<1>26. Mixed(a2.hs, hs, EE, c1, v, K1, H1) /\ a2.parts \in Seq(S)
  BY ONLY <1>25, <1>23, <1>19
<1>27. pair(a2.hs, "se") = <<SS, c1>>
  BY <1>2, <1>26, PairOf
<1>28. PICK K2 : K2 = <<p, q, {EE, c1}, {SS, c1}>>
  OBVIOUS
<1>29. K2 # <<>>
  BY <1>28, Nonempty
<1>30. Append(K1, {SS, c1}) = K2
  BY <1>21, <1>28, Append3
<1>31. "se" \notin {"e", "s"}
  OBVIOUS
<1>32. /\ Mixed(a3.hs, hs, EE, c1, v, Append(K1, {SS, c1}), H1) /\ a3.parts = a2.parts
      /\ SS # <<>> /\ c1 # <<>>
  BY ONLY <1>7, <1>26, <1>27, <1>31, <1>9, RDH, SMTT(30)
<1>33. Mixed(a3.hs, hs, EE, c1, v, K2, H1) /\ a3.parts \in Seq(S)
  BY ONLY <1>32, <1>30, <1>26
<1>34. PICK c2 \in S : /\ c2 = a3.parts[1] /\ \E n, k : c2 = Sealed(K2, n, H1, k)
                  /\ Mixed(mixHash(Counted(a3.hs), c2), hs, EE, c1, v, K2, Append(H1, c2))
  BY ONLY <1>29, <1>9, <1>33, RSealed
<1>35. /\ c2 \in S /\ \E n, k : c2 = Sealed(K2, n, H1, k)
      /\ Mixed(mixHash(Counted(a3.hs), c2), hs, EE, c1, v, K2, Append(H1, c2))
      /\ got = advance(mixHash(Counted(a3.hs), c2))
  BY ONLY <1>34, <1>9
<1>36. PICK H2 : H2 = <<"IK", v, EE, c, d, c1, c2>>
  OBVIOUS
<1>37. Append(H1, c2) = H2
  BY <1>17, <1>36, Append6
<1>38. Mixed(mixHash(Counted(a3.hs), c2), hs, EE, c1, v, K2, H2)
  BY ONLY <1>35, <1>37
<1>39. 2 = 1 + 1 /\ 2 = Len(messages("IK"))
  BY MessagesAre
<1>40. Base(hs, e, "IK", "handshake", 1)
  OBVIOUS
<1>41. Opened(got, e, "IK", 2, v, K2, H2)
  BY ONLY <1>40, <1>38, <1>35, <1>39, EndsBase
<1>42. /\ Base(got, e, "IK", "open", 2) /\ Keyed(got, 1)
      /\ got.rs = v /\ got.ck = <<p, q, {Ephemeral(e), c1}, {Static(e[1]), c1}>>
      /\ got.h = <<"IK", v, Ephemeral(e), c, d, c1, c2>>
  BY <1>1, <1>2, <1>28, <1>36, <1>41 DEF Opened
<1>43. \E n, k : c2 = Sealed(<<p, q, {Ephemeral(e), c1}, {Static(e[1]), c1}>>, n,
      <<"IK", v, Ephemeral(e), c, d, c1>>, k)
  BY <1>1, <1>2, <1>35, <1>28, <1>17
<1>44. c1 \in S /\ c2 \in S
  BY <1>16, <1>25, <1>32, <1>35
<1>45. \E d1, d2 :
        /\ d1 \in S /\ d2 \in S
        /\ Base(got, e, "IK", "open", 2) /\ Keyed(got, 1)
        /\ got.rs = v /\ got.ck = <<p, q, {Ephemeral(e), d1}, {Static(e[1]), d1}>>
        /\ got.h = <<"IK", v, Ephemeral(e), c, d, d1, d2>>
        /\ (\E n, k : d2 = Sealed(<<p, q, {Ephemeral(e), d1}, {Static(e[1]), d1}>>, n,
              <<"IK", v, Ephemeral(e), c, d, d1>>, k))
  <2> WITNESS c1, c2
  <2>1. QED
    BY ONLY <1>42, <1>43, <1>44
<1>46. QED
  BY ONLY <1>45 DEF HeardIK2

----------------------------------------------------------------------------
(* What a handshake hashed, and the keys it mixed, at each stage of each    *)
(* pattern: h[1] is the pattern, and a sealed part names all before it.    *)
-----------------------------------------------------------------------------
(* (2) The stages, and each message leads from one to the next.            *)

\* The keys derived in XX and in IK, from the hash: where the ephemeral keys are
\* in it, and the two static keys.
X1(h) == <<DH(h[2], h[4])>>
X2(h, sr) == <<DH(h[2], h[4]), DH(h[2], sr)>>
X3(h, sr, si) == <<DH(h[2], h[4]), DH(h[2], sr), DH(si, h[4])>>
I1(h) == <<DH(h[3], h[2])>>
I2(h, si) == <<DH(h[3], h[2]), DH(si, h[2])>>
I4(h, si) == <<DH(h[3], h[2]), DH(si, h[2]), DH(h[6], h[3]), DH(h[6], si)>>

\* What a hash of XX holds after the second message and the third, and one of IK
\* after the first and the second.
XXAnswered(h, sr) ==
  /\ \E n : h[5] = Sealed(X1(h), n, <<"XX", h[2], h[3], h[4]>>, sr)
  /\ \E n, k : h[6] = Sealed(X2(h, sr), n, <<"XX", h[2], h[3], h[4], h[5]>>, k)
XXClosed(h, sr, si) ==
  /\ h = <<"XX", h[2], h[3], h[4], h[5], h[6], h[7], h[8]>>
  /\ XXAnswered(h, sr)
  /\ \E n : h[7] = Sealed(X2(h, sr), n, <<"XX", h[2], h[3], h[4], h[5], h[6]>>, si)
  /\ \E n, k : h[8] = Sealed(X3(h, sr, si), n, <<"XX", h[2], h[3], h[4], h[5], h[6], h[7]>>, k)
IKBegun(h, si) ==
  /\ \E n : h[4] = Sealed(I1(h), n, <<"IK", h[2], h[3]>>, si)
  /\ \E n, k : h[5] = Sealed(I2(h, si), n, <<"IK", h[2], h[3], h[4]>>, k)
IKClosed(h, si) ==
  /\ h = <<"IK", h[2], h[3], h[4], h[5], h[6], h[7]>>
  /\ IKBegun(h, si)
  /\ \E n, k : h[7] = Sealed(I4(h, si), n, <<"IK", h[2], h[3], h[4], h[5], h[6]>>, k)

\* The stages of a phone (i) and a machine (r) by the messages of the pattern
\* that are behind it.
XXi1(e, hs) == hs.idx = 1 /\ hs.h = <<"XX", Ephemeral(e), <<>>>> /\ hs.ck = <<>> /\ hs.e = Ephemeral(e)
XXi3(e, hs) ==
  /\ hs.idx = 3 /\ XXClosed(hs.h, hs.rs, hs.s) /\ hs.h[2] = Ephemeral(e)
  /\ hs.ck = X3(hs.h, hs.rs, hs.s) /\ Keyed(hs, 1)
XXr0(e, hs) == hs.idx = 0 /\ hs.h = <<"XX">> /\ hs.ck = <<>>
XXr2(e, hs) ==
  /\ hs.idx = 2 /\ hs.h = <<"XX", hs.h[2], hs.h[3], hs.h[4], hs.h[5], hs.h[6]>> /\ XXAnswered(hs.h, hs.s)
  /\ hs.h[4] = Ephemeral(e) /\ hs.e = Ephemeral(e) /\ hs.ck = X2(hs.h, hs.s)
XXr3(e, hs) ==
  /\ hs.idx = 3 /\ XXClosed(hs.h, hs.s, hs.rs) /\ hs.h[4] = Ephemeral(e)
  /\ hs.ck = X3(hs.h, hs.s, hs.rs) /\ Keyed(hs, 2)
IKi1(e, hs) ==
  /\ hs.idx = 1 /\ hs.h = <<"IK", hs.rs, Ephemeral(e), hs.h[4], hs.h[5]>> /\ IKBegun(hs.h, hs.s)
  /\ hs.e = Ephemeral(e) /\ hs.ck = I2(hs.h, hs.s)
IKi2(e, hs) ==
  /\ hs.idx = 2 /\ IKClosed(hs.h, hs.s) /\ hs.h[2] = hs.rs /\ hs.h[3] = Ephemeral(e)
  /\ hs.ck = I4(hs.h, hs.s) /\ Keyed(hs, 1)
IKr0(e, hs) == hs.idx = 0 /\ hs.h = <<"IK", hs.s>> /\ hs.ck = <<>>
IKr2(e, hs) ==
  /\ hs.idx = 2 /\ IKClosed(hs.h, hs.rs) /\ hs.h[2] = hs.s /\ hs.h[6] = Ephemeral(e)
  /\ hs.ck = I4(hs.h, hs.rs) /\ Keyed(hs, 2)

\* The stages an end's handshake rests at.
Stage(e, hs) ==
  \/ hs.pattern = "XX" /\ initiator(e) /\ XXi1(e, hs)
  \/ hs.pattern = "XX" /\ initiator(e) /\ XXi3(e, hs)
  \/ hs.pattern = "XX" /\ ~ initiator(e) /\ XXr0(e, hs)
  \/ hs.pattern = "XX" /\ ~ initiator(e) /\ XXr2(e, hs)
  \/ hs.pattern = "XX" /\ ~ initiator(e) /\ XXr3(e, hs)
  \/ hs.pattern = "IK" /\ initiator(e) /\ IKi1(e, hs)
  \/ hs.pattern = "IK" /\ initiator(e) /\ IKi2(e, hs)
  \/ hs.pattern = "IK" /\ ~ initiator(e) /\ IKr0(e, hs)
  \/ hs.pattern = "IK" /\ ~ initiator(e) /\ IKr2(e, hs)

\* What an end keeps throughout, and how its session goes with its handshake.
Own(e, hs) == DOMAIN hs = Fields /\ hs.end = e /\ hs.initiator = initiator(e) /\ hs.s = Static(e[1])
Talk(hs) ==
  /\ \E S : hs.sent \in Seq(S)
  /\ \E S : hs.got \in Seq(S)
  /\ hs.at \in {"handshake", "open", "over"}
  /\ hs.at = "open" => Complete(hs)
  /\ hs.at = "handshake" => ~ Complete(hs)
  /\ ~ Complete(hs) => hs.sent = <<>> /\ hs.got = <<>>
EndOK(e, hs) == hs = NoEnd \/ (Own(e, hs) /\ Talk(hs) /\ Stage(e, hs))

\* What an end sealed: its parts of the handshake, and what it sent after it.
Shook(hs, c) ==
  \/ hs.pattern = "XX" /\ initiator(hs.end) /\ hs.idx = 3 /\ c \in {hs.h[7], hs.h[8]}
  \/ hs.pattern = "XX" /\ ~ initiator(hs.end) /\ hs.idx \in {2, 3} /\ c \in {hs.h[5], hs.h[6]}
  \/ hs.pattern = "IK" /\ initiator(hs.end) /\ hs.idx \in {1, 2} /\ c \in {hs.h[4], hs.h[5]}
  \/ hs.pattern = "IK" /\ ~ initiator(hs.end) /\ hs.idx = 2 /\ c = hs.h[7]
Told(hs, c) ==
  Complete(hs) /\ \E m \in 1..Len(hs.sent) : c = Sealed(hs.send, m - 1, <<>>, hs.sent[m])

\* Whatever is sealed of a record is of this end's handshake.
Spoken(hs, parts) ==
  /\ \E S : parts \in Seq(S)
  /\ \A i \in 1..Len(parts) : IsSealed(parts[i]) => Shook(hs, parts[i])

LEMMA SpokenPair ==
  ASSUME NEW hs, NEW a, NEW b, IsSealed(a) => Shook(hs, a), IsSealed(b) => Shook(hs, b),
         NEW parts, parts = <<a, b>>
  PROVE  Spoken(hs, parts)
<1>1. parts \in Seq({a, b}) /\ Len(parts) = 2 /\ parts[1] = a /\ parts[2] = b
  OBVIOUS
<1>2. \A i \in 1..2 : i = 1 \/ i = 2
  OBVIOUS
<1>3. QED
  BY ONLY <1>1, <1>2, IsSealed(a) => Shook(hs, a), IsSealed(b) => Shook(hs, b) DEF Spoken

LEMMA SpokenTriple ==
  ASSUME NEW hs, NEW a, NEW b, NEW c, ~ IsSealed(a), Shook(hs, b), Shook(hs, c),
         NEW parts, parts = <<a, b, c>>
  PROVE  Spoken(hs, parts)
<1>1. parts \in Seq({a, b, c}) /\ Len(parts) = 3 /\ parts[1] = a /\ parts[2] = b /\ parts[3] = c
  OBVIOUS
<1>2. \A i \in 1..3 : i = 1 \/ i = 2 \/ i = 3
  OBVIOUS
<1>3. QED
  BY ONLY <1>1, <1>2, ~ IsSealed(a), Shook(hs, b), Shook(hs, c) DEF Spoken

\* A handshake that goes on, and one that has just ended.
LEMMA BaseTalks ==
  ASSUME NEW e, NEW p, NEW x, NEW i, Base(x, e, p, "handshake", i), i # Len(messages(p))
  PROVE  Own(e, x) /\ Talk(x) /\ x.pattern = p /\ x.at = "handshake" /\ x.end = e /\ x.idx = i /\ ~ Complete(x)
<1>1. /\ x.sent = <<>> /\ x.got = <<>> /\ x.at = "handshake" /\ x.pattern = p /\ x.idx = i /\ x.end = e
      /\ DOMAIN x = Fields /\ x.initiator = initiator(e) /\ x.s = Static(e[1])
  BY DEF Base
<1>2. ~ Complete(x)
  BY <1>1 DEF Complete
<1>3. <<>> \in Seq({})
  OBVIOUS
<1>4. Talk(x)
  BY <1>1, <1>2, <1>3 DEF Talk
<1>5. QED
  BY <1>1, <1>2, <1>4 DEF Own

LEMMA BaseOpens ==
  ASSUME NEW e, NEW p, NEW x, NEW i, Base(x, e, p, "open", i), i = Len(messages(p))
  PROVE  Own(e, x) /\ Talk(x) /\ x.pattern = p /\ x.at = "open" /\ x.end = e /\ x.idx = i /\ Complete(x)
<1>1. /\ x.sent = <<>> /\ x.got = <<>> /\ x.at = "open" /\ x.pattern = p /\ x.idx = i /\ x.end = e
      /\ DOMAIN x = Fields /\ x.initiator = initiator(e) /\ x.s = Static(e[1])
  BY DEF Base
<1>2. Complete(x)
  BY <1>1 DEF Complete
<1>3. <<>> \in Seq({})
  OBVIOUS
<1>4. Talk(x)
  BY <1>1, <1>2, <1>3 DEF Talk
<1>5. QED
  BY <1>1, <1>2, <1>4 DEF Own

\* A key in the clear is not taken for a sealed part.
LEMMA EphemeralPlain ==
  ASSUME NEW e
  PROVE  ~ IsSealed(Ephemeral(e))
BY Lengths DEF IsSealed

\* A phone begins, and is at its first stage.
LEMMA StartsXX ==
  ASSUME NEW e, initiator(e), NEW w, w = WriteMessage(NewHandshake(e, "XX"))
  PROVE  EndOK(e, w.hs) /\ w.hs.at = "handshake" /\ Spoken(w.hs, w.parts)
<1>1. /\ Base(w.hs, e, "XX", "handshake", 1) /\ w.hs.e = Ephemeral(e) /\ w.hs.ck = <<>>
      /\ w.hs.h = <<"XX", Ephemeral(e), <<>>>> /\ w.parts = <<Ephemeral(e), <<>>>>
  BY WriteXX1
<1>2. Own(e, w.hs) /\ Talk(w.hs) /\ w.hs.pattern = "XX" /\ w.hs.at = "handshake" /\ w.hs.idx = 1
  BY <1>1, MessagesAre, BaseTalks
<1>3. XXi1(e, w.hs)
  BY <1>1, <1>2 DEF XXi1
<1>4. EndOK(e, w.hs)
  BY <1>2, <1>3 DEF EndOK, Stage
<1>5. Spoken(w.hs, w.parts)
  <2>1. ~ IsSealed(Ephemeral(e)) /\ ~ IsSealed(<<>>)
    BY Lengths DEF IsSealed
  <2>2. QED
    BY <1>1, <2>1, SpokenPair
<1>6. QED
  BY <1>2, <1>4, <1>5

LEMMA StartsIK ==
  ASSUME NEW e, initiator(e), NEW w, w = WriteMessage(NewHandshake(e, "IK"))
  PROVE  EndOK(e, w.hs) /\ w.hs.at = "handshake" /\ Spoken(w.hs, w.parts)
<1> DEFINE hs == NewHandshake(e, "IK")
           v == Static("machine")
           E == Ephemeral(e)
           s == Static(e[1])
<1>1. Base(hs, e, "IK", "handshake", 0) /\ hs.ck = <<>> /\ hs.h = <<"IK", v>> /\ hs.rs = v
  BY NewIs
<1>2. w = WriteMessage(hs)
  OBVIOUS
<1>3. v # <<>>
  BY Lengths
<1> HIDE DEF hs, v
<1>14. PICK u : u = hs.re
  OBVIOUS
<1>4. Holds(hs, hs.e, u, v, <<>>, <<"IK", v>>)
  BY <1>1, <1>14 DEF Holds
<1>13. SaidIK1(e, u, v, w)
  BY <1>1, <1>2, <1>3, <1>4, WriteIK1
<1>5. PICK c1, c2 :
           /\ Base(w.hs, e, "IK", "handshake", 1)
           /\ Holds(w.hs, E, u, v, <<{E, v}, {s, v}>>, <<"IK", v, E, c1, c2>>)
           /\ \E n : c1 = Sealed(<<{E, v}>>, n, <<"IK", v, E>>, s)
           /\ \E n : c2 = Sealed(<<{E, v}, {s, v}>>, n, <<"IK", v, E, c1>>, <<>>)
           /\ w.parts = <<E, c1, c2>>
  BY ONLY <1>13 DEF SaidIK1
<1>6. Own(e, w.hs) /\ Talk(w.hs) /\ w.hs.pattern = "IK" /\ w.hs.at = "handshake" /\ w.hs.idx = 1 /\ w.hs.end = e
  BY <1>5, MessagesAre, BaseTalks
<1>7. /\ w.hs.e = E /\ w.hs.rs = v /\ w.hs.ck = <<{E, v}, {s, v}>> /\ w.hs.h = <<"IK", v, E, c1, c2>>
      /\ w.hs.s = s
  BY <1>5, <1>6 DEF Holds, Own
<1>8. w.hs.h[2] = v /\ w.hs.h[3] = E /\ w.hs.h[4] = c1 /\ w.hs.h[5] = c2
  BY <1>7
<1>9. IKi1(e, w.hs)
  <2>1. I1(w.hs.h) = <<{E, v}>> /\ I2(w.hs.h, s) = <<{E, v}, {s, v}>>
    BY <1>8 DEF I1, I2, DH
  <2>2. IKBegun(w.hs.h, s)
    BY <1>5, <1>8, <2>1 DEF IKBegun
  <2>3. QED
    BY <1>6, <1>7, <1>8, <2>1, <2>2 DEF IKi1
<1>10. EndOK(e, w.hs)
  BY <1>6, <1>9 DEF EndOK, Stage
<1>11. Spoken(w.hs, w.parts)
  <2>1. ~ IsSealed(E)
    BY ONLY EphemeralPlain
  <2>2. Shook(w.hs, c1) /\ Shook(w.hs, c2)
    BY <1>6, <1>8 DEF Shook
  <2>3. w.parts = <<E, c1, c2>>
    BY <1>5
  <2>4. QED
    BY ONLY <2>1, <2>2, <2>3, SpokenTriple
<1>12. QED
  BY <1>6, <1>10, <1>11
----------------------------------------------------------------------------
\* An end that shakes hands has said nothing else.
LEMMA OwnBase ==
  ASSUME NEW e, NEW hs, Own(e, hs), Talk(hs), hs.at = "handshake"
  PROVE  Base(hs, e, hs.pattern, "handshake", hs.idx)
BY DEF Own, Talk, Base

\* A record of the handshake that is answered, and one that ends it.
Answers(e, got, w) ==
  /\ ~ Complete(got) /\ EndOK(e, w.hs) /\ w.hs # NoEnd /\ Spoken(w.hs, w.parts) /\ w.hs.got = <<>>
  /\ Complete(w.hs) => (initiator(e) /\ w.hs.pattern = "XX") \/ (~ initiator(e) /\ w.hs.pattern = "IK")
Closes(e, hs, S, got) ==
  /\ Complete(got) /\ EndOK(e, got) /\ got # NoEnd /\ got.at = "open" /\ got.pattern = hs.pattern /\ got.got = <<>>
  /\ \A c : Shook(hs, c) => Shook(got, c)
  /\ (got.pattern = "XX" => got.h[8] \in S) /\ (got.pattern = "IK" => got.h[7] \in S)

\* An end with a handshake is not NoEnd.
LEMMA NotNone == \A hs : hs.at # "none" => hs # NoEnd
BY DEF NoEnd

\* A machine answers the first of XX.
LEMMA ShakeXX0 ==
  ASSUME NEW e, ~ initiator(e), NEW hs, Own(e, hs), Talk(hs), hs.at = "handshake", hs.pattern = "XX", XXr0(e, hs),
         NEW S, NEW parts \in Seq(S), NEW got, got = ReadMessage(hs, parts), got # NoEnd,
         NEW w, w = WriteMessage(got)
  PROVE  Answers(e, got, w)
<1> DEFINE E == Ephemeral(e)
           s == Static(e[1])
<1>1. Base(hs, e, "XX", "handshake", 0) /\ hs.ck = <<>> /\ hs.h = <<"XX">>
  BY OwnBase DEF XXr0
<1>2. /\ Base(got, e, "XX", "handshake", 1) /\ got.ck = <<>> /\ got.re # <<>>
      /\ \E q : got.h = <<"XX", got.re, q>>
  BY <1>1, ReadXX1
<1>3. PICK a, b, v, u : a = got.re /\ got.h = <<"XX", a, b>> /\ v = got.rs /\ u = got.e
  BY <1>2
<1>4. Holds(got, u, a, v, <<>>, <<"XX", a, b>>) /\ a # <<>>
  BY <1>2, <1>3 DEF Holds
<1>5. SaidXX2(e, v, a, b, w)
  BY <1>2, <1>4, WriteXX2
<1>6. PICK c1, c2 :
        /\ Base(w.hs, e, "XX", "handshake", 2)
        /\ Holds(w.hs, E, a, v, <<{E, a}, {s, a}>>, <<"XX", a, b, E, c1, c2>>)
        /\ \E n : c1 = Sealed(<<{E, a}>>, n, <<"XX", a, b, E>>, s)
        /\ \E n : c2 = Sealed(<<{E, a}, {s, a}>>, n, <<"XX", a, b, E, c1>>, <<>>)
        /\ w.parts = <<E, c1, c2>>
  BY ONLY <1>5 DEF SaidXX2
<1>7. /\ Own(e, w.hs) /\ Talk(w.hs) /\ w.hs.pattern = "XX" /\ w.hs.at = "handshake" /\ w.hs.idx = 2 /\ w.hs.end = e
      /\ ~ Complete(w.hs)
  BY <1>6, MessagesAre, BaseTalks
<1>16. w.hs.got = <<>>
  BY <1>6 DEF Base
<1>8. /\ w.hs.e = E /\ w.hs.ck = <<{E, a}, {s, a}>> /\ w.hs.h = <<"XX", a, b, E, c1, c2>> /\ w.hs.s = s
  BY <1>6, <1>7 DEF Holds, Own
<1>9. PICK h : h = w.hs.h
  OBVIOUS
<1>10. h[2] = a /\ h[3] = b /\ h[4] = E /\ h[5] = c1 /\ h[6] = c2
  BY <1>8, <1>9
<1>11. XXr2(e, w.hs)
  <2>1. {E, a} = {a, E} /\ {s, a} = {a, s}
    OBVIOUS
  <2>2. X1(h) = <<{E, a}>> /\ X2(h, s) = <<{E, a}, {s, a}>>
    BY <1>10, <2>1 DEF X1, X2, DH
  <2>3. XXAnswered(h, s)
    <3>1. \E n : c1 = Sealed(<<{E, a}>>, n, <<"XX", a, b, E>>, s)
      BY <1>6
    <3>2. \E n, x : c2 = Sealed(<<{E, a}, {s, a}>>, n, <<"XX", a, b, E, c1>>, x)
      BY <1>6
    <3>3. QED
      BY ONLY <1>10, <2>2, <3>1, <3>2 DEF XXAnswered
  <2>4. QED
    BY ONLY <1>7, <1>8, <1>9, <1>10, <2>2, <2>3 DEF XXr2
<1>12. EndOK(e, w.hs)
  BY <1>7, <1>11 DEF EndOK, Stage
<1>13. Spoken(w.hs, w.parts)
  <2>1. ~ IsSealed(E)
    BY ONLY EphemeralPlain
  <2>2. Shook(w.hs, c1) /\ Shook(w.hs, c2)
    BY <1>7, <1>9, <1>10 DEF Shook
  <2>3. w.parts = <<E, c1, c2>>
    BY <1>6
  <2>4. QED
    BY ONLY <2>1, <2>2, <2>3, SpokenTriple
<1>14. ~ Complete(got)
  BY <1>2, MessagesAre, BaseTalks
<1>15. QED
  BY <1>7, <1>12, <1>13, <1>14, <1>16, NotNone DEF Answers

\* A session in which nothing was said.
OpenAt(x, e, p, i) ==
  Own(e, x) /\ Talk(x) /\ x.pattern = p /\ x.at = "open" /\ x.end = e /\ x.idx = i /\ Complete(x) /\ x.got = <<>>

LEMMA OpensAt ==
  ASSUME NEW e, NEW p, NEW x, NEW i, Base(x, e, p, "open", i), i = Len(messages(p))
  PROVE  OpenAt(x, e, p, i)
BY BaseOpens DEF OpenAt, Base

\* The hash at the end of XX, and of IK.
LEMMA XXClosedIs ==
  ASSUME NEW h, NEW a2, NEW a3, NEW a4, NEW a5, NEW a6, NEW a7, NEW a8,
         h = <<"XX", a2, a3, a4, a5, a6, a7, a8>>, NEW sr, NEW si, XXAnswered(h, sr),
         NEW k2, k2 = X2(h, sr), NEW k3, k3 = X3(h, sr, si),
         \E n : a7 = Sealed(k2, n, <<"XX", a2, a3, a4, a5, a6>>, si),
         \E n, k : a8 = Sealed(k3, n, <<"XX", a2, a3, a4, a5, a6, a7>>, k)
  PROVE  XXClosed(h, sr, si)
<1>1. h[2] = a2 /\ h[3] = a3 /\ h[4] = a4 /\ h[5] = a5 /\ h[6] = a6 /\ h[7] = a7 /\ h[8] = a8
  OBVIOUS
<1>2. h = <<"XX", h[2], h[3], h[4], h[5], h[6], h[7], h[8]>>
  BY <1>1
<1>3. \E n : h[7] = Sealed(X2(h, sr), n, <<"XX", h[2], h[3], h[4], h[5], h[6]>>, si)
  BY ONLY <1>1, k2 = X2(h, sr), \E n : a7 = Sealed(k2, n, <<"XX", a2, a3, a4, a5, a6>>, si)
<1>4. \E n, k : h[8] = Sealed(X3(h, sr, si), n, <<"XX", h[2], h[3], h[4], h[5], h[6], h[7]>>, k)
  BY ONLY <1>1, k3 = X3(h, sr, si), \E n, k : a8 = Sealed(k3, n, <<"XX", a2, a3, a4, a5, a6, a7>>, k)
<1>5. QED
  BY ONLY <1>2, <1>3, <1>4, XXAnswered(h, sr) DEF XXClosed

LEMMA IKClosedIs ==
  ASSUME NEW h, NEW a2, NEW a3, NEW a4, NEW a5, NEW a6, NEW a7,
         h = <<"IK", a2, a3, a4, a5, a6, a7>>, NEW si, IKBegun(h, si),
         NEW k4, k4 = I4(h, si),
         \E n, k : a7 = Sealed(k4, n, <<"IK", a2, a3, a4, a5, a6>>, k)
  PROVE  IKClosed(h, si)
<1>1. h[2] = a2 /\ h[3] = a3 /\ h[4] = a4 /\ h[5] = a5 /\ h[6] = a6 /\ h[7] = a7
  OBVIOUS
<1>2. h = <<"IK", h[2], h[3], h[4], h[5], h[6], h[7]>>
  BY <1>1
<1>3. \E n, k : h[7] = Sealed(I4(h, si), n, <<"IK", h[2], h[3], h[4], h[5], h[6]>>, k)
  BY ONLY <1>1, k4 = I4(h, si), \E n, k : a7 = Sealed(k4, n, <<"IK", a2, a3, a4, a5, a6>>, k)
<1>4. QED
  BY ONLY <1>2, <1>3, IKBegun(h, si) DEF IKClosed

\* A phone answers the second of XX, and its session is open.
LEMMA ShakeXX1 ==
  ASSUME NEW e, initiator(e), NEW hs, Own(e, hs), Talk(hs), hs.at = "handshake", hs.pattern = "XX", XXi1(e, hs),
         NEW S, NEW parts \in Seq(S), NEW got, got = ReadMessage(hs, parts), got # NoEnd,
         NEW w, w = WriteMessage(got)
  PROVE  Answers(e, got, w)
<1> DEFINE E == Ephemeral(e)
           s == Static(e[1])
<1>1. Base(hs, e, "XX", "handshake", 1) /\ hs.ck = <<>> /\ hs.h = <<"XX", E, <<>>>> /\ hs.e = E
  BY OwnBase DEF XXi1
<1>2. PICK u, v : Holds(hs, E, u, v, <<>>, <<"XX", E, <<>>>>)
  BY <1>1 DEF Holds
<1>3. HeardXX2(e, S, got)
  BY <1>1, <1>2, ReadXX2
<1>4. PICK a, c, d, k :
        /\ Base(got, e, "XX", "handshake", 2)
        /\ Holds(got, E, a, k, <<{E, a}, {E, k}>>, <<"XX", E, <<>>, a, c, d>>)
        /\ \E n : c = Sealed(<<{E, a}>>, n, <<"XX", E, <<>>, a>>, k)
        /\ \E n, x : d = Sealed(<<{E, a}, {E, k}>>, n, <<"XX", E, <<>>, a, c>>, x)
        /\ a # <<>>
  BY ONLY <1>3 DEF HeardXX2
<1>5. PICK p, q, b : p = {E, a} /\ q = {E, k} /\ b = <<>>
  OBVIOUS
<1>6. Holds(got, E, a, k, <<p, q>>, <<"XX", E, b, a, c, d>>)
  BY <1>4, <1>5
<1>7. SaidXX3(e, k, p, q, a, b, c, d, w)
  BY <1>4, <1>6, WriteXX3
<1>8. PICK c1, c2 :
        /\ Base(w.hs, e, "XX", "open", 3) /\ Keyed(w.hs, 1)
        /\ w.hs.rs = k /\ w.hs.ck = <<p, q, {s, a}>>
        /\ w.hs.h = <<"XX", E, b, a, c, d, c1, c2>>
        /\ \E n : c1 = Sealed(<<p, q>>, n, <<"XX", E, b, a, c, d>>, s)
        /\ \E n : c2 = Sealed(<<p, q, {s, a}>>, n, <<"XX", E, b, a, c, d, c1>>, <<>>)
        /\ w.parts = <<c1, c2>>
  BY ONLY <1>7 DEF SaidXX3
<1>9. Own(e, w.hs) /\ Talk(w.hs) /\ w.hs.pattern = "XX" /\ w.hs.at = "open" /\ w.hs.idx = 3 /\ w.hs.end = e
      /\ w.hs.got = <<>>
  <2>1. Base(w.hs, e, "XX", "open", 3)
    BY <1>8
  <2>2. 3 = Len(messages("XX"))
    BY MessagesAre
  <2>3. OpenAt(w.hs, e, "XX", 3)
    BY ONLY <2>1, <2>2, OpensAt
  <2>4. QED
    BY <2>3 DEF OpenAt
<1>10. PICK h : h = w.hs.h
  OBVIOUS
<1>11. h[2] = E /\ h[3] = b /\ h[4] = a /\ h[5] = c /\ h[6] = d /\ h[7] = c1 /\ h[8] = c2
  BY <1>8, <1>10
<1>12. w.hs.s = s
  BY <1>9 DEF Own
<1>13. XXi3(e, w.hs)
  <2>1. X1(h) = <<p>> /\ X2(h, k) = <<p, q>> /\ X3(h, k, s) = <<p, q, {s, a}>>
    BY <1>5, <1>11 DEF X1, X2, X3, DH
  <2>2. /\ \E n : c = Sealed(<<p>>, n, <<"XX", E, b, a>>, k)
        /\ \E n, x : d = Sealed(<<p, q>>, n, <<"XX", E, b, a, c>>, x)
    BY <1>4, <1>5
  <2>3. XXAnswered(h, k)
    BY <1>11, <2>1, <2>2 DEF XXAnswered
  <2>4. h = <<"XX", E, b, a, c, d, c1, c2>>
    BY <1>8, <1>10
  <2>5. \E n : c1 = Sealed(<<p, q>>, n, <<"XX", E, b, a, c, d>>, s)
    BY <1>8
  <2>6. \E n, x : c2 = Sealed(<<p, q, {s, a}>>, n, <<"XX", E, b, a, c, d, c1>>, x)
    BY <1>8
  <2>7. PICK k2, k3 : k2 = <<p, q>> /\ k3 = <<p, q, {s, a}>>
    OBVIOUS
  <2>8. /\ \E n : c1 = Sealed(k2, n, <<"XX", E, b, a, c, d>>, s)
        /\ \E n, x : c2 = Sealed(k3, n, <<"XX", E, b, a, c, d, c1>>, x)
    BY ONLY <2>5, <2>6, <2>7
  <2>9. k2 = X2(h, k) /\ k3 = X3(h, k, s)
    BY ONLY <2>1, <2>7
  <2>10. XXClosed(h, k, s)
    BY ONLY <2>3, <2>4, <2>8, <2>9, XXClosedIs
  <2>11. w.hs.ck = k3 /\ w.hs.rs = k /\ Keyed(w.hs, 1)
    BY <1>8, <2>7
  <2>12. QED
    BY ONLY <1>9, <1>10, <1>11, <1>12, <2>9, <2>10, <2>11 DEF XXi3
<1>14. EndOK(e, w.hs)
  BY <1>9, <1>13 DEF EndOK, Stage
<1>15. Spoken(w.hs, w.parts)
  <2>1. Shook(w.hs, c1) /\ Shook(w.hs, c2)
    BY <1>9, <1>10, <1>11 DEF Shook
  <2>2. w.parts = <<c1, c2>>
    BY <1>8
  <2>3. QED
    BY ONLY <2>1, <2>2, SpokenPair
<1>16. ~ Complete(got)
  BY <1>4, MessagesAre, BaseTalks
<1>17. QED
  BY <1>9, <1>14, <1>15, <1>16, NotNone DEF Answers

\* A hash that goes on keeps what it holds.
LEMMA XXAnsweredOn ==
  ASSUME NEW h, NEW g, NEW sr, XXAnswered(h, sr),
         g[2] = h[2], g[3] = h[3], g[4] = h[4], g[5] = h[5], g[6] = h[6]
  PROVE  XXAnswered(g, sr) /\ X2(g, sr) = X2(h, sr)
BY DEF XXAnswered, X1, X2

LEMMA IKBegunOn ==
  ASSUME NEW h, NEW g, NEW si, IKBegun(h, si), g[2] = h[2], g[3] = h[3], g[4] = h[4], g[5] = h[5]
  PROVE  IKBegun(g, si) /\ I2(g, si) = I2(h, si)
BY DEF IKBegun, I1, I2

\* A machine reads the last of XX.
LEMMA ShakeXX2 ==
  ASSUME NEW e, ~ initiator(e), NEW hs, Own(e, hs), Talk(hs), hs.at = "handshake", hs.pattern = "XX", XXr2(e, hs),
         NEW S, NEW parts \in Seq(S), NEW got, got = ReadMessage(hs, parts), got # NoEnd
  PROVE  Closes(e, hs, S, got)
<1> DEFINE E == Ephemeral(e)
           s == Static(e[1])
<1>1. /\ Base(hs, e, "XX", "handshake", 2) /\ hs.e = E /\ hs.s = s /\ hs.h[4] = E
      /\ hs.h = <<"XX", hs.h[2], hs.h[3], hs.h[4], hs.h[5], hs.h[6]>>
      /\ XXAnswered(hs.h, s) /\ hs.ck = X2(hs.h, s) /\ hs.end = e /\ hs.idx = 2
  BY OwnBase DEF XXr2, Own
<1>2. PICK h0, a, b, c, d : h0 = hs.h /\ a = h0[2] /\ b = h0[3] /\ c = h0[5] /\ d = h0[6]
  OBVIOUS
<1>3. PICK p, q : p = DH(a, E) /\ q = DH(a, s)
  OBVIOUS
<1>4. hs.ck = <<p, q>> /\ hs.h = <<"XX", a, b, E, c, d>>
  BY <1>1, <1>2, <1>3 DEF X2
<1>5. PICK u, v : Holds(hs, E, u, v, <<p, q>>, <<"XX", a, b, E, c, d>>)
  BY <1>1, <1>4 DEF Holds
<1>6. HeardXX3(e, p, q, a, b, c, d, S, got)
  BY <1>1, <1>5, ReadXX3
<1>21. PICK k : k = got.rs
  OBVIOUS
<1>22. \E c1, c2 :
        /\ c1 \in S /\ c2 \in S
        /\ Base(got, e, "XX", "open", 3) /\ Keyed(got, 2)
        /\ got.ck = <<p, q, {E, got.rs}>>
        /\ got.h = <<"XX", a, b, E, c, d, c1, c2>>
        /\ (\E n : c1 = Sealed(<<p, q>>, n, <<"XX", a, b, E, c, d>>, got.rs))
        /\ (\E n, x : c2 = Sealed(<<p, q, {E, got.rs}>>, n, <<"XX", a, b, E, c, d, c1>>, x))
  BY ONLY <1>6 DEF HeardXX3
<1>7. PICK c1, c2 :
        /\ c1 \in S /\ c2 \in S
        /\ Base(got, e, "XX", "open", 3) /\ Keyed(got, 2)
        /\ got.ck = <<p, q, {E, k}>>
        /\ got.h = <<"XX", a, b, E, c, d, c1, c2>>
        /\ (\E n : c1 = Sealed(<<p, q>>, n, <<"XX", a, b, E, c, d>>, k))
        /\ (\E n, x : c2 = Sealed(<<p, q, {E, k}>>, n, <<"XX", a, b, E, c, d, c1>>, x))
  BY ONLY <1>21, <1>22
<1>8. OpenAt(got, e, "XX", 3)
  <2>1. Base(got, e, "XX", "open", 3)
    BY <1>7
  <2>2. 3 = Len(messages("XX"))
    BY MessagesAre
  <2>3. QED
    BY ONLY <2>1, <2>2, OpensAt
<1>9. Own(e, got) /\ Talk(got) /\ got.pattern = "XX" /\ got.at = "open" /\ got.idx = 3 /\ got.end = e
      /\ Complete(got) /\ got.got = <<>>
  BY <1>8 DEF OpenAt
<1>10. PICK h : h = got.h
  OBVIOUS
<1>11. h = <<"XX", a, b, E, c, d, c1, c2>>
  BY <1>7, <1>10
<1>12. h[2] = a /\ h[3] = b /\ h[4] = E /\ h[5] = c /\ h[6] = d /\ h[7] = c1 /\ h[8] = c2
  BY ONLY <1>11
<1>13. h0[2] = a /\ h0[3] = b /\ h0[4] = E /\ h0[5] = c /\ h0[6] = d /\ XXAnswered(h0, s)
  BY <1>1, <1>2
<1>14. XXAnswered(h, s)
  BY ONLY <1>12, <1>13, XXAnsweredOn
<1>15. got.s = s
  BY <1>9 DEF Own
<1>16. XXr3(e, got)
  <2>1. {E, k} = DH(k, E)
    BY DEF DH
  <2>2. X2(h, s) = <<p, q>> /\ X3(h, s, k) = <<p, q, {E, k}>>
    BY ONLY <1>3, <1>12, <2>1 DEF X2, X3
  <2>3. PICK k2, k3 : k2 = <<p, q>> /\ k3 = <<p, q, {E, k}>>
    OBVIOUS
  <2>4. \E n : c1 = Sealed(<<p, q>>, n, <<"XX", a, b, E, c, d>>, k)
    BY <1>7
  <2>5. \E n, x : c2 = Sealed(<<p, q, {E, k}>>, n, <<"XX", a, b, E, c, d, c1>>, x)
    BY <1>7
  <2>6. /\ \E n : c1 = Sealed(k2, n, <<"XX", a, b, E, c, d>>, k)
        /\ \E n, x : c2 = Sealed(k3, n, <<"XX", a, b, E, c, d, c1>>, x)
    BY ONLY <2>3, <2>4, <2>5
  <2>7. k2 = X2(h, s) /\ k3 = X3(h, s, k)
    BY ONLY <2>2, <2>3
  <2>8. XXClosed(h, s, k)
    BY ONLY <1>11, <1>14, <2>6, <2>7, XXClosedIs
  <2>9. got.ck = k3 /\ got.rs = k /\ Keyed(got, 2)
    BY <1>7, <1>21, <2>3
  <2>10. QED
    BY ONLY <1>9, <1>10, <1>12, <1>15, <2>7, <2>8, <2>9 DEF XXr3
<1>17. EndOK(e, got)
  BY <1>9, <1>16 DEF EndOK, Stage
<1>18. \A x : Shook(hs, x) => Shook(got, x)
  BY ONLY <1>1, <1>2, <1>9, <1>10, <1>12, <1>13, ~ initiator(e), hs.pattern = "XX" DEF Shook
<1>19. got.h[8] \in S
  BY <1>7, <1>10, <1>12
<1>20. QED
  BY <1>9, <1>17, <1>18, <1>19 DEF Closes

\* A machine answers the first of IK, and its session is open.
LEMMA ShakeIK0 ==
  ASSUME NEW e, ~ initiator(e), NEW hs, Own(e, hs), Talk(hs), hs.at = "handshake", hs.pattern = "IK", IKr0(e, hs),
         NEW S, NEW parts \in Seq(S), NEW got, got = ReadMessage(hs, parts), got # NoEnd,
         NEW w, w = WriteMessage(got)
  PROVE  Answers(e, got, w)
<1> DEFINE E == Ephemeral(e)
           s == Static(e[1])
<1>1. Base(hs, e, "IK", "handshake", 0) /\ hs.ck = <<>> /\ hs.h = <<"IK", s>>
  BY OwnBase DEF IKr0, Own
<1>2. PICK t, u, v : Holds(hs, t, u, v, <<>>, <<"IK", s>>)
  BY <1>1 DEF Holds
<1>3. HeardIK1(e, t, S, got)
  BY <1>1, <1>2, ReadIK1
<1>4. PICK a, c, d, k :
        /\ Base(got, e, "IK", "handshake", 1)
        /\ Holds(got, t, a, k, <<{s, a}, {s, k}>>, <<"IK", s, a, c, d>>)
        /\ (\E n : c = Sealed(<<{s, a}>>, n, <<"IK", s, a>>, k))
        /\ (\E n, x : d = Sealed(<<{s, a}, {s, k}>>, n, <<"IK", s, a, c>>, x))
        /\ a # <<>> /\ k # <<>>
  BY ONLY <1>3 DEF HeardIK1
<1>5. PICK p, q : p = {s, a} /\ q = {s, k}
  OBVIOUS
<1>6. Holds(got, t, a, k, <<p, q>>, <<"IK", s, a, c, d>>)
  BY <1>4, <1>5
<1>7. SaidIK2(e, k, p, q, a, c, d, w)
  BY <1>4, <1>6, WriteIK2
<1>8. PICK c1 :
        /\ Base(w.hs, e, "IK", "open", 2) /\ Keyed(w.hs, 2)
        /\ w.hs.rs = k /\ w.hs.ck = <<p, q, {E, a}, {E, k}>>
        /\ w.hs.h = <<"IK", s, a, c, d, E, c1>>
        /\ (\E n : c1 = Sealed(<<p, q, {E, a}, {E, k}>>, n, <<"IK", s, a, c, d, E>>, <<>>))
        /\ w.parts = <<E, c1>>
  BY ONLY <1>7 DEF SaidIK2
<1>9. Own(e, w.hs) /\ Talk(w.hs) /\ w.hs.pattern = "IK" /\ w.hs.at = "open" /\ w.hs.idx = 2 /\ w.hs.end = e
      /\ w.hs.got = <<>>
  <2>1. Base(w.hs, e, "IK", "open", 2)
    BY <1>8
  <2>2. 2 = Len(messages("IK"))
    BY MessagesAre
  <2>3. OpenAt(w.hs, e, "IK", 2)
    BY ONLY <2>1, <2>2, OpensAt
  <2>4. QED
    BY <2>3 DEF OpenAt
<1>10. PICK h : h = w.hs.h
  OBVIOUS
<1>11. h = <<"IK", s, a, c, d, E, c1>>
  BY <1>8, <1>10
<1>12. h[2] = s /\ h[3] = a /\ h[4] = c /\ h[5] = d /\ h[6] = E /\ h[7] = c1
  BY ONLY <1>11
<1>13. w.hs.s = s
  BY <1>9 DEF Own
<1>14. IKr2(e, w.hs)
  <2>1. DH(a, s) = p /\ DH(k, s) = q
    BY <1>5 DEF DH
  <2>2. I1(h) = <<p>> /\ I2(h, k) = <<p, q>> /\ I4(h, k) = <<p, q, {E, a}, {E, k}>>
    BY ONLY <1>12, <2>1 DEF I1, I2, I4, DH
  <2>3. /\ \E n : c = Sealed(<<p>>, n, <<"IK", s, a>>, k)
        /\ \E n, x : d = Sealed(<<p, q>>, n, <<"IK", s, a, c>>, x)
    BY <1>4, <1>5
  <2>4. IKBegun(h, k)
    BY ONLY <1>12, <2>2, <2>3 DEF IKBegun
  <2>5. \E n, x : c1 = Sealed(<<p, q, {E, a}, {E, k}>>, n, <<"IK", s, a, c, d, E>>, x)
    BY <1>8
  <2>6. PICK k4 : k4 = <<p, q, {E, a}, {E, k}>>
    OBVIOUS
  <2>7. \E n, x : c1 = Sealed(k4, n, <<"IK", s, a, c, d, E>>, x)
    BY ONLY <2>5, <2>6
  <2>8. k4 = I4(h, k)
    BY ONLY <2>2, <2>6
  <2>9. IKClosed(h, k)
    BY ONLY <1>11, <2>4, <2>7, <2>8, IKClosedIs
  <2>10. w.hs.ck = k4 /\ w.hs.rs = k /\ Keyed(w.hs, 2)
    BY <1>8, <2>6
  <2>11. QED
    BY ONLY <1>9, <1>10, <1>12, <1>13, <2>8, <2>9, <2>10 DEF IKr2
<1>15. EndOK(e, w.hs)
  BY <1>9, <1>14 DEF EndOK, Stage
<1>16. Spoken(w.hs, w.parts)
  <2>1. ~ IsSealed(E)
    BY ONLY EphemeralPlain
  <2>2. Shook(w.hs, c1)
    BY <1>9, <1>10, <1>12 DEF Shook
  <2>3. w.parts = <<E, c1>>
    BY <1>8
  <2>4. QED
    BY ONLY <2>1, <2>2, <2>3, SpokenPair
<1>17. ~ Complete(got)
  BY <1>4, MessagesAre, BaseTalks
<1>18. QED
  BY <1>9, <1>15, <1>16, <1>17, NotNone DEF Answers

\* A phone reads the last of IK.
LEMMA ShakeIK1 ==
  ASSUME NEW e, initiator(e), NEW hs, Own(e, hs), Talk(hs), hs.at = "handshake", hs.pattern = "IK", IKi1(e, hs),
         NEW S, NEW parts \in Seq(S), NEW got, got = ReadMessage(hs, parts), got # NoEnd
  PROVE  Closes(e, hs, S, got)
<1> DEFINE E == Ephemeral(e)
           s == Static(e[1])
<1>1. /\ Base(hs, e, "IK", "handshake", 1) /\ hs.e = E /\ hs.s = s
      /\ hs.h = <<"IK", hs.rs, E, hs.h[4], hs.h[5]>>
      /\ IKBegun(hs.h, s) /\ hs.ck = I2(hs.h, s) /\ hs.end = e /\ hs.idx = 1
  BY OwnBase DEF IKi1, Own
<1>2. PICK h0, v, c, d : h0 = hs.h /\ v = hs.rs /\ c = h0[4] /\ d = h0[5]
  OBVIOUS
<1>3. h0 = <<"IK", v, E, c, d>>
  BY <1>1, <1>2
<1>4. h0[2] = v /\ h0[3] = E /\ h0[4] = c /\ h0[5] = d /\ IKBegun(h0, s)
  BY <1>1, <1>2, <1>3
<1>5. PICK p, q : p = DH(E, v) /\ q = DH(s, v)
  OBVIOUS
<1>6. hs.ck = <<p, q>>
  BY ONLY <1>1, <1>2, <1>4, <1>5 DEF I2
<1>7. PICK u : Holds(hs, E, u, v, <<p, q>>, <<"IK", v, E, c, d>>)
  BY <1>1, <1>2, <1>3, <1>6 DEF Holds
<1>8. HeardIK2(e, v, p, q, c, d, S, got)
  BY <1>1, <1>7, ReadIK2
<1>9. PICK c1, c2 :
        /\ c1 \in S /\ c2 \in S
        /\ Base(got, e, "IK", "open", 2) /\ Keyed(got, 1)
        /\ got.rs = v /\ got.ck = <<p, q, {E, c1}, {s, c1}>>
        /\ got.h = <<"IK", v, E, c, d, c1, c2>>
        /\ (\E n, k : c2 = Sealed(<<p, q, {E, c1}, {s, c1}>>, n, <<"IK", v, E, c, d, c1>>, k))
  BY ONLY <1>8 DEF HeardIK2
<1>10. OpenAt(got, e, "IK", 2)
  <2>1. Base(got, e, "IK", "open", 2)
    BY <1>9
  <2>2. 2 = Len(messages("IK"))
    BY MessagesAre
  <2>3. QED
    BY ONLY <2>1, <2>2, OpensAt
<1>11. Own(e, got) /\ Talk(got) /\ got.pattern = "IK" /\ got.at = "open" /\ got.idx = 2 /\ got.end = e
      /\ Complete(got) /\ got.got = <<>>
  BY <1>10 DEF OpenAt
<1>12. PICK h : h = got.h
  OBVIOUS
<1>13. h = <<"IK", v, E, c, d, c1, c2>>
  BY <1>9, <1>12
<1>14. h[2] = v /\ h[3] = E /\ h[4] = c /\ h[5] = d /\ h[6] = c1 /\ h[7] = c2
  BY ONLY <1>13
<1>15. IKBegun(h, s)
  BY ONLY <1>4, <1>14, IKBegunOn
<1>16. got.s = s
  BY <1>11 DEF Own
<1>17. IKi2(e, got)
  <2>1. {E, c1} = DH(c1, E) /\ {s, c1} = DH(c1, s)
    BY DEF DH
  <2>2. I4(h, s) = <<p, q, {E, c1}, {s, c1}>>
    BY ONLY <1>5, <1>14, <2>1 DEF I4
  <2>3. PICK k4 : k4 = <<p, q, {E, c1}, {s, c1}>>
    OBVIOUS
  <2>4. \E n, k : c2 = Sealed(<<p, q, {E, c1}, {s, c1}>>, n, <<"IK", v, E, c, d, c1>>, k)
    BY <1>9
  <2>5. \E n, k : c2 = Sealed(k4, n, <<"IK", v, E, c, d, c1>>, k)
    BY ONLY <2>3, <2>4
  <2>6. k4 = I4(h, s)
    BY ONLY <2>2, <2>3
  <2>7. IKClosed(h, s)
    BY ONLY <1>13, <1>15, <2>5, <2>6, IKClosedIs
  <2>8. got.ck = k4 /\ got.rs = v /\ Keyed(got, 1)
    BY <1>9, <2>3
  <2>9. QED
    BY ONLY <1>11, <1>12, <1>14, <1>16, <2>6, <2>7, <2>8 DEF IKi2
<1>18. EndOK(e, got)
  BY <1>11, <1>17 DEF EndOK, Stage
<1>19. \A x : Shook(hs, x) => Shook(got, x)
  BY ONLY <1>1, <1>2, <1>4, <1>11, <1>12, <1>14, initiator(e), hs.pattern = "IK" DEF Shook
<1>20. got.h[7] \in S
  BY <1>9, <1>12, <1>14
<1>21. QED
  BY <1>11, <1>18, <1>19, <1>20 DEF Closes

\* A machine that waits.
LEMMA AcceptOK ==
  ASSUME NEW e, ~ initiator(e), NEW p \in {"XX", "IK"}, NEW hs, hs = NewHandshake(e, p)
  PROVE  EndOK(e, hs) /\ hs.at = "handshake"
<1>1. Base(hs, e, p, "handshake", 0) /\ hs.ck = <<>>
  BY NewIs
<1>2. 0 # Len(messages(p))
  BY MessagesAre
<1>3. Own(e, hs) /\ Talk(hs) /\ hs.pattern = p /\ hs.at = "handshake" /\ hs.idx = 0
  BY ONLY <1>1, <1>2, BaseTalks
<1>4. hs.s = Static(e[1])
  BY <1>3 DEF Own
<1>5. CASE p = "XX"
  <2>1. XXr0(e, hs)
    <3>1. hs.h = <<"XX">>
      BY <1>5, NewIs
    <3>2. QED
      BY ONLY <1>1, <1>3, <3>1 DEF XXr0
  <2>2. QED
    BY <1>3, <1>5, <2>1 DEF EndOK, Stage
<1>6. CASE p = "IK"
  <2>1. IKr0(e, hs)
    <3>1. hs.h = <<"IK", Static(e[1])>>
      BY <1>6, NewIs
    <3>2. QED
      BY ONLY <1>1, <1>3, <1>4, <3>1 DEF IKr0
  <2>2. QED
    BY <1>3, <1>6, <2>1 DEF EndOK, Stage
<1>7. QED
  BY <1>5, <1>6

\* An end has sealed nothing yet.
Silent(hs) == \A c : ~ Shook(hs, c)

\* Every record of the handshake that is not refused is answered or ends it.
LEMMA ShakeIs ==
  ASSUME NEW e, NEW hs, Own(e, hs), Talk(hs), Stage(e, hs), hs.at = "handshake",
         NEW S, NEW parts \in Seq(S), NEW got, got = ReadMessage(hs, parts), got # NoEnd,
         NEW w, w = WriteMessage(got)
  PROVE  (Answers(e, got, w) /\ Silent(hs)) \/ Closes(e, hs, S, got)
<1>1. hs.end = e /\ ~ Complete(hs)
  BY DEF Own, Talk
<1>2. (hs.pattern = "XX" => hs.idx # 3) /\ (hs.pattern = "IK" => hs.idx # 2)
  BY <1>1, MessagesAre DEF Complete
<1>3. CASE hs.pattern = "XX" /\ initiator(e) /\ XXi1(e, hs)
  <2>1. Silent(hs)
    BY <1>1, <1>3 DEF Silent, Shook, XXi1
  <2>2. QED
    BY <1>3, <2>1, ShakeXX1
<1>4. CASE hs.pattern = "XX" /\ ~ initiator(e) /\ XXr0(e, hs)
  <2>1. Silent(hs)
    BY <1>1, <1>4 DEF Silent, Shook, XXr0
  <2>2. QED
    BY <1>4, <2>1, ShakeXX0
<1>5. CASE hs.pattern = "XX" /\ ~ initiator(e) /\ XXr2(e, hs)
  BY <1>5, ShakeXX2
<1>6. CASE hs.pattern = "IK" /\ initiator(e) /\ IKi1(e, hs)
  BY <1>6, ShakeIK1
<1>7. CASE hs.pattern = "IK" /\ ~ initiator(e) /\ IKr0(e, hs)
  <2>1. Silent(hs)
    BY <1>1, <1>7 DEF Silent, Shook, IKr0
  <2>2. QED
    BY <1>7, <2>1, ShakeIK0
<1>8. ~ XXi3(e, hs) \/ hs.pattern # "XX"
  BY <1>2 DEF XXi3
<1>9. ~ XXr3(e, hs) \/ hs.pattern # "XX"
  BY <1>2 DEF XXr3
<1>10. ~ IKi2(e, hs) \/ hs.pattern # "IK"
  BY <1>2 DEF IKi2
<1>11. ~ IKr2(e, hs) \/ hs.pattern # "IK"
  BY <1>2 DEF IKr2
<1>12. QED
  BY <1>3, <1>4, <1>5, <1>6, <1>7, <1>8, <1>9, <1>10, <1>11 DEF Stage
----------------------------------------------------------------------------
(* Two ends that came to the end.                                          *)
-----------------------------------------------------------------------------
(* (3) The two ends of one hash.                                           *)

\* The four stages a handshake can end at.
LEMMA DoneIs ==
  ASSUME NEW e, NEW hs, EndOK(e, hs), Complete(hs)
  PROVE  /\ Own(e, hs) /\ Talk(hs) /\ hs # NoEnd
         /\ \/ hs.pattern = "XX" /\ initiator(e) /\ XXi3(e, hs)
            \/ hs.pattern = "XX" /\ ~ initiator(e) /\ XXr3(e, hs)
            \/ hs.pattern = "IK" /\ initiator(e) /\ IKi2(e, hs)
            \/ hs.pattern = "IK" /\ ~ initiator(e) /\ IKr2(e, hs)
<1>1. hs # NoEnd /\ hs.idx = Len(messages(hs.pattern))
  BY DEF Complete, NoEnd
<1>2. Own(e, hs) /\ Talk(hs) /\ Stage(e, hs)
  BY <1>1 DEF EndOK
<1>3. (hs.pattern = "XX" => hs.idx = 3) /\ (hs.pattern = "IK" => hs.idx = 2)
  BY <1>1, MessagesAre
<1>4. hs.pattern = "XX" => ~ XXi1(e, hs) /\ ~ XXr0(e, hs) /\ ~ XXr2(e, hs)
  BY <1>3 DEF XXi1, XXr0, XXr2
<1>5. hs.pattern = "IK" => ~ IKi1(e, hs) /\ ~ IKr0(e, hs)
  BY <1>3 DEF IKi1, IKr0
<1>6. QED
  BY ONLY <1>1, <1>2, <1>4, <1>5 DEF Stage

\* Where each end's own key is, and whose keys the two ends hold.
Finished(e, hs, h) ==
  /\ hs.pattern = h[1] /\ h[1] \in {"XX", "IK"}
  /\ h[1] = "XX" /\ initiator(e) => h[2] = Ephemeral(e) /\ XXClosed(h, hs.rs, hs.s) /\ hs.ck = X3(h, hs.rs, hs.s)
  /\ h[1] = "XX" /\ ~ initiator(e) => h[4] = Ephemeral(e) /\ XXClosed(h, hs.s, hs.rs) /\ hs.ck = X3(h, hs.s, hs.rs)
  /\ h[1] = "IK" /\ initiator(e) => h[3] = Ephemeral(e) /\ IKClosed(h, hs.s) /\ h[2] = hs.rs /\ hs.ck = I4(h, hs.s)
  /\ h[1] = "IK" /\ ~ initiator(e) => h[6] = Ephemeral(e) /\ IKClosed(h, hs.rs) /\ h[2] = hs.s /\ hs.ck = I4(h, hs.rs)
  /\ Keyed(hs, IF initiator(e) THEN 1 ELSE 2)

\* An end that has finished.
LEMMA FinishedIs ==
  ASSUME NEW e, NEW hs, EndOK(e, hs), Complete(hs), NEW h, h = hs.h
  PROVE  Finished(e, hs, h)
<1>1. \/ hs.pattern = "XX" /\ initiator(e) /\ XXi3(e, hs)
      \/ hs.pattern = "XX" /\ ~ initiator(e) /\ XXr3(e, hs)
      \/ hs.pattern = "IK" /\ initiator(e) /\ IKi2(e, hs)
      \/ hs.pattern = "IK" /\ ~ initiator(e) /\ IKr2(e, hs)
  BY DoneIs
<1>2. CASE hs.pattern = "XX" /\ initiator(e) /\ XXi3(e, hs)
  <2>1. h[1] = "XX" /\ XXClosed(h, hs.rs, hs.s) /\ h[2] = Ephemeral(e) /\ hs.ck = X3(h, hs.rs, hs.s) /\ Keyed(hs, 1)
    BY <1>2 DEF XXi3, XXClosed
  <2>2. QED
    BY ONLY <1>2, <2>1 DEF Finished
<1>3. CASE hs.pattern = "XX" /\ ~ initiator(e) /\ XXr3(e, hs)
  <2>1. h[1] = "XX" /\ XXClosed(h, hs.s, hs.rs) /\ h[4] = Ephemeral(e) /\ hs.ck = X3(h, hs.s, hs.rs) /\ Keyed(hs, 2)
    BY <1>3 DEF XXr3, XXClosed
  <2>2. QED
    BY ONLY <1>3, <2>1 DEF Finished
<1>4. CASE hs.pattern = "IK" /\ initiator(e) /\ IKi2(e, hs)
  <2>1. h[1] = "IK" /\ IKClosed(h, hs.s) /\ h[2] = hs.rs /\ h[3] = Ephemeral(e) /\ hs.ck = I4(h, hs.s) /\ Keyed(hs, 1)
    BY <1>4 DEF IKi2, IKClosed
  <2>2. QED
    BY ONLY <1>4, <2>1 DEF Finished
<1>5. CASE hs.pattern = "IK" /\ ~ initiator(e) /\ IKr2(e, hs)
  <2>1. h[1] = "IK" /\ IKClosed(h, hs.rs) /\ h[2] = hs.s /\ h[6] = Ephemeral(e) /\ hs.ck = I4(h, hs.rs)
        /\ Keyed(hs, 2)
    BY <1>5 DEF IKr2, IKClosed
  <2>2. QED
    BY ONLY <1>5, <2>1 DEF Finished
<1>6. QED
  BY <1>1, <1>2, <1>3, <1>4, <1>5

\* Two of one role do not have the same hash: it names the ephemeral key.
LEMMA SameRole ==
  ASSUME NEW W, NEW N, NEW e \in W \X N, NEW f \in W \X N, NEW x, NEW y, NEW h,
         Finished(e, x, h), Finished(f, y, h), initiator(e) <=> initiator(f)
  PROVE  e = f
<1>1. Ephemeral(e) = Ephemeral(f)
  BY DEF Finished
<1>2. QED
  BY <1>1, EphemeralIs

\* The halves are taken in opposite orders (split).
LEMMA KeyedAcross ==
  ASSUME NEW x, NEW y, x.ck = y.ck, Keyed(x, 1), Keyed(y, 2)
  PROVE  x.send = y.recv /\ y.send = x.recv
<1>1. 3 - 1 = 2 /\ 3 - 2 = 1
  OBVIOUS
<1>2. QED
  BY <1>1 DEF Keyed, Half

\* The two ends of one handshake, the phone first.
Matched(x, y) ==
  /\ x.pattern = y.pattern /\ x.rs = y.s /\ y.rs = x.s
  /\ x.send = y.recv /\ y.send = x.recv

\* A phone and a machine with one hash hold each other's keys, and each opens
\* what the other seals.
LEMMA Crossed ==
  ASSUME NEW e, NEW f, NEW x, NEW y, NEW h, Finished(e, x, h), Finished(f, y, h), initiator(e), ~ initiator(f)
  PROVE  Matched(x, y)
<1>1. x.pattern = y.pattern /\ Keyed(x, 1) /\ Keyed(y, 2)
  BY DEF Finished
<1>2. CASE h[1] = "XX"
  <2>1. /\ XXClosed(h, x.rs, x.s) /\ x.ck = X3(h, x.rs, x.s)
        /\ XXClosed(h, y.s, y.rs) /\ y.ck = X3(h, y.s, y.rs)
    BY <1>2 DEF Finished
  <2>2. x.rs = y.s
    <3>1. PICK n1, n2 : /\ h[5] = Sealed(X1(h), n1, <<"XX", h[2], h[3], h[4]>>, x.rs)
                        /\ h[5] = Sealed(X1(h), n2, <<"XX", h[2], h[3], h[4]>>, y.s)
      BY <2>1 DEF XXClosed, XXAnswered
    <3>2. QED
      BY <3>1, SealedIs
  <2>3. x.s = y.rs
    <3>1. PICK n1, n2 : /\ h[7] = Sealed(X2(h, x.rs), n1, <<"XX", h[2], h[3], h[4], h[5], h[6]>>, x.s)
                        /\ h[7] = Sealed(X2(h, y.s), n2, <<"XX", h[2], h[3], h[4], h[5], h[6]>>, y.rs)
      BY <2>1 DEF XXClosed
    <3>2. QED
      BY <3>1, SealedIs
  <2>4. x.ck = y.ck
    BY <2>1, <2>2, <2>3
  <2>5. QED
    BY <1>1, <2>2, <2>3, <2>4, KeyedAcross DEF Matched
<1>3. CASE h[1] = "IK"
  <2>1. /\ IKClosed(h, x.s) /\ h[2] = x.rs /\ x.ck = I4(h, x.s)
        /\ IKClosed(h, y.rs) /\ h[2] = y.s /\ y.ck = I4(h, y.rs)
    BY <1>3 DEF Finished
  <2>2. x.s = y.rs
    <3>1. PICK n1, n2 : /\ h[4] = Sealed(I1(h), n1, <<"IK", h[2], h[3]>>, x.s)
                        /\ h[4] = Sealed(I1(h), n2, <<"IK", h[2], h[3]>>, y.rs)
      BY <2>1 DEF IKClosed, IKBegun
    <3>2. QED
      BY <3>1, SealedIs
  <2>3. x.ck = y.ck
    BY <2>1, <2>2
  <2>4. QED
    BY <1>1, <2>1, <2>2, <2>3, KeyedAcross DEF Matched
<1>4. QED
  BY <1>2, <1>3 DEF Finished
-----------------------------------------------------------------------------
(* (4) What a sealed part names, and so whose it is.                       *)

\* The lengths that tell the hashes apart.
LEMMA TupleLengths ==
  ASSUME NEW a, NEW b, NEW c, NEW d, NEW x, NEW y, NEW z
  PROVE  /\ Len(<<a>>) = 1 /\ Len(<<a, b>>) = 2 /\ Len(<<a, b, c>>) = 3 /\ Len(<<a, b, c, d>>) = 4
         /\ Len(<<a, b, c, d, x>>) = 5 /\ Len(<<a, b, c, d, x, y>>) = 6 /\ Len(<<a, b, c, d, x, y, z>>) = 7
OBVIOUS

\* What a sealed part names: all that was hashed before it.
Names(c, p, n) == Len(c[4]) = n /\ (n # 0 => c[4][1] = p)

\* What each sealed part names.
LEMMA XXNames ==
  ASSUME NEW h, NEW sr, XXAnswered(h, sr)
  PROVE  Names(h[5], "XX", 4) /\ Names(h[6], "XX", 5)
BY Lengths DEF XXAnswered, Names

LEMMA XXNamesLast ==
  ASSUME NEW h, NEW sr, NEW si, XXClosed(h, sr, si)
  PROVE  Names(h[7], "XX", 6) /\ Names(h[8], "XX", 7)
BY Lengths DEF XXClosed, Names

LEMMA IKNames ==
  ASSUME NEW h, NEW si, IKBegun(h, si)
  PROVE  Names(h[4], "IK", 3) /\ Names(h[5], "IK", 4)
BY Lengths DEF IKBegun, Names

LEMMA IKNamesLast ==
  ASSUME NEW h, NEW si, IKClosed(h, si)
  PROVE  Names(h[7], "IK", 6)
BY Lengths DEF IKClosed, Names

LEMMA ToldNames ==
  ASSUME NEW hs, NEW c, Told(hs, c)
  PROVE  Names(c, "", 0)
BY Lengths DEF Told, Names

\* The parts an end sealed in its handshake, by what they name.
ShookAs(e, hs, c) ==
  \/ hs.pattern = "XX" /\ initiator(e) /\ XXi3(e, hs) /\ c = hs.h[7] /\ Names(c, "XX", 6)
  \/ hs.pattern = "XX" /\ initiator(e) /\ XXi3(e, hs) /\ c = hs.h[8] /\ Names(c, "XX", 7)
  \/ hs.pattern = "XX" /\ (Names(c, "XX", 4) \/ Names(c, "XX", 5))
  \/ hs.pattern = "IK" /\ (Names(c, "IK", 3) \/ Names(c, "IK", 4))
  \/ hs.pattern = "IK" /\ ~ initiator(e) /\ IKr2(e, hs) /\ c = hs.h[7] /\ Names(c, "IK", 6)

\* So the parts of a handshake are told apart.
LEMMA ShookIs ==
  ASSUME NEW e, NEW hs, Own(e, hs), Stage(e, hs), NEW c, Shook(hs, c)
  PROVE  ShookAs(e, hs, c)
<1>1. hs.end = e
  BY DEF Own
<1>2. CASE hs.pattern = "XX" /\ initiator(e) /\ hs.idx = 3 /\ c \in {hs.h[7], hs.h[8]}
  <2>1. XXi3(e, hs)
    BY <1>2 DEF Stage, XXi1
  <2>2. Names(hs.h[7], "XX", 6) /\ Names(hs.h[8], "XX", 7)
    BY <2>1, XXNamesLast DEF XXi3
  <2>3. QED
    BY <1>2, <2>1, <2>2 DEF ShookAs
<1>3. CASE hs.pattern = "XX" /\ ~ initiator(e) /\ hs.idx \in {2, 3} /\ c \in {hs.h[5], hs.h[6]}
  <2>1. XXr2(e, hs) \/ XXr3(e, hs)
    BY <1>3 DEF Stage, XXr0
  <2>2. \E sr : XXAnswered(hs.h, sr)
    BY <2>1 DEF XXr2, XXr3, XXClosed
  <2>3. QED
    BY <1>3, <2>2, XXNames DEF ShookAs
<1>4. CASE hs.pattern = "IK" /\ initiator(e) /\ hs.idx \in {1, 2} /\ c \in {hs.h[4], hs.h[5]}
  <2>1. IKi1(e, hs) \/ IKi2(e, hs)
    BY <1>4 DEF Stage
  <2>2. \E si : IKBegun(hs.h, si)
    BY <2>1 DEF IKi1, IKi2, IKClosed
  <2>3. QED
    BY <1>4, <2>2, IKNames DEF ShookAs
<1>5. CASE hs.pattern = "IK" /\ ~ initiator(e) /\ hs.idx = 2 /\ c = hs.h[7]
  <2>1. IKr2(e, hs)
    BY <1>5 DEF Stage, IKr0
  <2>2. Names(hs.h[7], "IK", 6)
    BY <2>1, IKNamesLast DEF IKr2
  <2>3. QED
    BY <1>5, <2>1, <2>2 DEF ShookAs
<1>6. QED
  BY <1>1, <1>2, <1>3, <1>4, <1>5 DEF Shook

\* The last part of XX was sealed by a phone that has finished, that of IK by a
\* machine.
LEMMA LastXX ==
  ASSUME NEW f, NEW y, EndOK(f, y), y # NoEnd, NEW c, Shook(y, c) \/ Told(y, c), Names(c, "XX", 7)
  PROVE  initiator(f) /\ y.pattern = "XX" /\ XXi3(f, y) /\ c = y.h[8]
<1>1. Own(f, y) /\ Stage(f, y)
  BY DEF EndOK
<1>2. ~ Told(y, c)
  BY ToldNames DEF Names
<1>3. ShookAs(f, y, c)
  BY <1>1, <1>2, ShookIs
<1>4. ~ Names(c, "XX", 6) /\ ~ Names(c, "XX", 4) /\ ~ Names(c, "XX", 5) /\ ~ Names(c, "IK", 3)
      /\ ~ Names(c, "IK", 4) /\ ~ Names(c, "IK", 6)
  BY DEF Names
<1>5. QED
  BY ONLY <1>3, <1>4 DEF ShookAs

LEMMA LastIK ==
  ASSUME NEW f, NEW y, EndOK(f, y), y # NoEnd, NEW c, Shook(y, c) \/ Told(y, c), Names(c, "IK", 6)
  PROVE  ~ initiator(f) /\ y.pattern = "IK" /\ IKr2(f, y) /\ c = y.h[7]
<1>1. Own(f, y) /\ Stage(f, y)
  BY DEF EndOK
<1>2. ~ Told(y, c)
  BY ToldNames DEF Names
<1>3. ShookAs(f, y, c)
  BY <1>1, <1>2, ShookIs
<1>4. ~ Names(c, "XX", 6) /\ ~ Names(c, "XX", 4) /\ ~ Names(c, "XX", 5) /\ ~ Names(c, "IK", 3)
      /\ ~ Names(c, "IK", 4) /\ ~ Names(c, "XX", 7)
  BY DEF Names
<1>5. QED
  BY ONLY <1>3, <1>4 DEF ShookAs

\* Two handshakes whose last part is the same are the same.
LEMMA SameLastXX ==
  ASSUME NEW g, NEW h, NEW a, NEW b, NEW c, NEW d, XXClosed(g, a, b), XXClosed(h, c, d), g[8] = h[8]
  PROVE  g = h
<1>1. PICK n1, k1 : g[8] = Sealed(X3(g, a, b), n1, <<"XX", g[2], g[3], g[4], g[5], g[6], g[7]>>, k1)
  BY DEF XXClosed
<1>6. PICK n2, k2 : h[8] = Sealed(X3(h, c, d), n2, <<"XX", h[2], h[3], h[4], h[5], h[6], h[7]>>, k2)
  BY DEF XXClosed
<1>2. <<"XX", g[2], g[3], g[4], g[5], g[6], g[7]>> = <<"XX", h[2], h[3], h[4], h[5], h[6], h[7]>>
  <2>1. g[8][4] = <<"XX", g[2], g[3], g[4], g[5], g[6], g[7]>>
    BY ONLY <1>1, Lengths
  <2>2. h[8][4] = <<"XX", h[2], h[3], h[4], h[5], h[6], h[7]>>
    BY ONLY <1>6, Lengths
  <2>3. QED
    BY ONLY <2>1, <2>2, g[8] = h[8]
<1>3. g[2] = h[2] /\ g[3] = h[3] /\ g[4] = h[4] /\ g[5] = h[5] /\ g[6] = h[6] /\ g[7] = h[7]
  BY ONLY <1>2
<1>4. /\ g = <<"XX", g[2], g[3], g[4], g[5], g[6], g[7], g[8]>>
      /\ h = <<"XX", h[2], h[3], h[4], h[5], h[6], h[7], h[8]>>
  BY DEF XXClosed
<1>5. QED
  BY ONLY <1>3, <1>4, g[8] = h[8]

LEMMA SameLastIK ==
  ASSUME NEW g, NEW h, NEW a, NEW b, IKClosed(g, a), IKClosed(h, b), g[7] = h[7]
  PROVE  g = h
<1>1. PICK n1, k1 : g[7] = Sealed(I4(g, a), n1, <<"IK", g[2], g[3], g[4], g[5], g[6]>>, k1)
  BY DEF IKClosed
<1>6. PICK n2, k2 : h[7] = Sealed(I4(h, b), n2, <<"IK", h[2], h[3], h[4], h[5], h[6]>>, k2)
  BY DEF IKClosed
<1>2. <<"IK", g[2], g[3], g[4], g[5], g[6]>> = <<"IK", h[2], h[3], h[4], h[5], h[6]>>
  <2>1. g[7][4] = <<"IK", g[2], g[3], g[4], g[5], g[6]>>
    BY ONLY <1>1, Lengths
  <2>2. h[7][4] = <<"IK", h[2], h[3], h[4], h[5], h[6]>>
    BY ONLY <1>6, Lengths
  <2>3. QED
    BY ONLY <2>1, <2>2, g[7] = h[7]
<1>3. g[2] = h[2] /\ g[3] = h[3] /\ g[4] = h[4] /\ g[5] = h[5] /\ g[6] = h[6]
  BY ONLY <1>2
<1>4. /\ g = <<"IK", g[2], g[3], g[4], g[5], g[6], g[7]>>
      /\ h = <<"IK", h[2], h[3], h[4], h[5], h[6], h[7]>>
  BY DEF IKClosed
<1>5. QED
  BY ONLY <1>3, <1>4, g[7] = h[7]
----------------------------------------------------------------------------
(* The keys of a session.                                                  *)
-----------------------------------------------------------------------------
(* (5) The keys of a session.                                              *)

\* What is appended alike is alike.
LEMMA AppendSame ==
  ASSUME NEW S, NEW s \in Seq(S), NEW t \in Seq(S), NEW a, NEW b, Append(s, a) = Append(t, b)
  PROVE  s = t /\ a = b
<1>1. PICK T : T = S \union {a, b}
  OBVIOUS
<1>2. s \in Seq(T) /\ t \in Seq(T) /\ a \in T /\ b \in T
  BY <1>1
<1>3. PICK u, v : u = Append(s, a) /\ v = Append(t, b) /\ u = v
  OBVIOUS
<1>4. /\ Len(u) = Len(s) + 1 /\ u[Len(s) + 1] = a /\ \A i \in 1..Len(s) : u[i] = s[i]
      /\ Len(v) = Len(t) + 1 /\ v[Len(t) + 1] = b /\ \A i \in 1..Len(t) : v[i] = t[i]
      /\ Len(s) \in Nat /\ Len(t) \in Nat
  BY <1>2, <1>3
<1>5. Len(s) = Len(t)
  BY ONLY <1>3, <1>4
<1>6. a = b /\ \A i \in 1..Len(s) : s[i] = t[i]
  BY ONLY <1>3, <1>4, <1>5
<1>7. QED
  BY ONLY <1>2, <1>5, <1>6, SameSeq

\* The halves of one handshake are two keys, and no secret is a half.
LEMMA HalvesDiffer ==
  ASSUME NEW i, NEW j, {<<"half", i>>} = {<<"half", j>>}
  PROVE  i = j
<1>1. <<"half", i>> = <<"half", j>>
  OBVIOUS
<1>2. QED
  BY <1>1

LEMMA HalfIsNoKey ==
  ASSUME NEW f, NEW z, NEW i
  PROVE  {Ephemeral(f), z} # {<<"half", i>>}
<1>1. Ephemeral(f) # <<"half", i>>
  BY DEF Ephemeral
<1>2. QED
  BY <1>1

\* The keys a handshake seals with; none of them is a session's.
ShakesWith(k) == Len(k) \in {1, 2, 3} \/ (Len(k) = 4 /\ \E f, z : k[4] = {Ephemeral(f), z})
TalksWith(k) == (Len(k) = 4 /\ \E i : k[4] = {<<"half", i>>}) \/ Len(k) = 5

\* No key is of both kinds.
LEMMA KeysDiffer ==
  ASSUME NEW k, ShakesWith(k), TalksWith(k)
  PROVE  FALSE
<1>1. Len(k) = 4 /\ (\E i : k[4] = {<<"half", i>>}) /\ (\E f, z : k[4] = {Ephemeral(f), z})
  <2>1. Len(k) = 4 \/ Len(k) = 5
    BY DEF TalksWith
  <2>2. Len(k) = 1 \/ Len(k) = 2 \/ Len(k) = 3 \/ Len(k) = 4
    BY DEF ShakesWith
  <2>3. Len(k) = 4
    BY ONLY <2>1, <2>2
  <2>4. \E i : k[4] = {<<"half", i>>}
    BY <2>3 DEF TalksWith
  <2>5. \E f, z : k[4] = {Ephemeral(f), z}
    BY <2>3 DEF ShakesWith
  <2>6. QED
    BY ONLY <2>3, <2>4, <2>5
<1>2. QED
  BY ONLY <1>1, HalfIsNoKey

\* The keys the parts of a handshake are sealed with.
LEMMA XXKeys ==
  ASSUME NEW h, NEW sr, XXAnswered(h, sr)
  PROVE  ShakesWith(h[5][2]) /\ ShakesWith(h[6][2])
BY Lengths DEF XXAnswered, ShakesWith, X1, X2

LEMMA XXKeysLast ==
  ASSUME NEW h, NEW sr, NEW si, XXClosed(h, sr, si)
  PROVE  ShakesWith(h[7][2]) /\ ShakesWith(h[8][2])
BY Lengths DEF XXClosed, ShakesWith, X2, X3

LEMMA IKKeys ==
  ASSUME NEW h, NEW si, IKBegun(h, si)
  PROVE  ShakesWith(h[4][2]) /\ ShakesWith(h[5][2])
BY Lengths DEF IKBegun, ShakesWith, I1, I2

LEMMA IKKeysLast ==
  ASSUME NEW h, NEW si, IKClosed(h, si), NEW f, h[6] = Ephemeral(f)
  PROVE  ShakesWith(h[7][2])
<1>1. h[7][2] = I4(h, si)
  BY Lengths DEF IKClosed
<1>2. Len(I4(h, si)) = 4 /\ I4(h, si)[4] = {Ephemeral(f), si}
  BY DEF I4, DH
<1>3. QED
  BY <1>1, <1>2 DEF ShakesWith

LEMMA ShookKey ==
  ASSUME NEW e, NEW hs, Own(e, hs), Stage(e, hs), NEW c, Shook(hs, c)
  PROVE  ShakesWith(c[2])
<1>1. hs.end = e
  BY DEF Own
<1>2. CASE hs.pattern = "XX" /\ initiator(e) /\ hs.idx = 3 /\ c \in {hs.h[7], hs.h[8]}
  <2>1. XXi3(e, hs)
    BY <1>2 DEF Stage, XXi1
  <2>2. QED
    BY <1>2, <2>1, XXKeysLast DEF XXi3
<1>3. CASE hs.pattern = "XX" /\ ~ initiator(e) /\ hs.idx \in {2, 3} /\ c \in {hs.h[5], hs.h[6]}
  <2>1. XXr2(e, hs) \/ XXr3(e, hs)
    BY <1>3 DEF Stage, XXr0
  <2>2. \E sr : XXAnswered(hs.h, sr)
    BY <2>1 DEF XXr2, XXr3, XXClosed
  <2>3. QED
    BY <1>3, <2>2, XXKeys
<1>4. CASE hs.pattern = "IK" /\ initiator(e) /\ hs.idx \in {1, 2} /\ c \in {hs.h[4], hs.h[5]}
  <2>1. IKi1(e, hs) \/ IKi2(e, hs)
    BY <1>4 DEF Stage
  <2>2. \E si : IKBegun(hs.h, si)
    BY <2>1 DEF IKi1, IKi2, IKClosed
  <2>3. QED
    BY <1>4, <2>2, IKKeys
<1>5. CASE hs.pattern = "IK" /\ ~ initiator(e) /\ hs.idx = 2 /\ c = hs.h[7]
  <2>1. IKr2(e, hs)
    BY <1>5 DEF Stage, IKr0
  <2>2. QED
    BY <1>5, <2>1, IKKeysLast DEF IKr2
<1>6. QED
  BY <1>1, <1>2, <1>3, <1>4, <1>5 DEF Shook

\* The secrets a session's keys are made of: three of XX, four of IK.
LEMMA SecretsAre ==
  ASSUME NEW e, NEW hs, NEW h, Finished(e, hs, h)
  PROVE  /\ \E S : hs.ck \in Seq(S)
         /\ h[1] = "XX" => Len(hs.ck) = 3
         /\ h[1] = "IK" => Len(hs.ck) = 4
<1>1. CASE h[1] = "XX"
  <2>1. PICK a, b, c : hs.ck = <<a, b, c>>
    BY <1>1 DEF Finished, X3
  <2>2. hs.ck \in Seq({a, b, c}) /\ Len(hs.ck) = 3
    BY ONLY <2>1
  <2>3. QED
    BY ONLY <1>1, <2>2
<1>2. CASE h[1] = "IK"
  <2>1. PICK a, b, c, d : hs.ck = <<a, b, c, d>>
    BY <1>2 DEF Finished, I4
  <2>2. hs.ck \in Seq({a, b, c, d}) /\ Len(hs.ck) = 4
    BY ONLY <2>1
  <2>3. QED
    BY ONLY <1>2, <2>2
<1>3. QED
  BY <1>1, <1>2 DEF Finished

\* The half each end seals with, and the half it opens with.
Mine(e) == IF initiator(e) THEN 1 ELSE 2
Theirs(e) == IF initiator(e) THEN 2 ELSE 1

LEMMA HalvesAre ==
  ASSUME NEW e, NEW hs, NEW h, Finished(e, hs, h)
  PROVE  /\ hs.send = Append(hs.ck, {<<"half", Mine(e)>>})
         /\ hs.recv = Append(hs.ck, {<<"half", Theirs(e)>>})
<1>1. 3 - 1 = 2 /\ 3 - 2 = 1
  OBVIOUS
<1>2. QED
  BY <1>1 DEF Finished, Keyed, Half, Mine, Theirs

\* The key an end opens with is a session's.
LEMMA RecvIs ==
  ASSUME NEW e, NEW hs, NEW h, Finished(e, hs, h)
  PROVE  TalksWith(hs.recv)
<1>1. PICK i, x : hs.recv = Append(hs.ck, x) /\ x = {<<"half", i>>}
  BY HalvesAre
<1>2. PICK S : hs.ck \in Seq(S)
  BY SecretsAre
<1>3. PICK T : T = S \union {x}
  OBVIOUS
<1>4. hs.ck \in Seq(T) /\ x \in T
  BY <1>2, <1>3
<1>5. Len(hs.recv) = Len(hs.ck) + 1 /\ hs.recv[Len(hs.ck) + 1] = x /\ Len(hs.ck) \in Nat
  BY ONLY <1>1, <1>4
<1>6. Len(hs.ck) = 3 \/ Len(hs.ck) = 4
  BY SecretsAre DEF Finished
<1>7. CASE Len(hs.ck) = 3
  <2>1. Len(hs.recv) = 4 /\ hs.recv[4] = x
    BY ONLY <1>5, <1>7
  <2>2. hs.recv[4] = {<<"half", i>>}
    BY ONLY <1>1, <2>1
  <2>3. QED
    BY ONLY <2>1, <2>2 DEF TalksWith
<1>8. CASE Len(hs.ck) = 4
  BY ONLY <1>5, <1>8 DEF TalksWith
<1>9. QED
  BY ONLY <1>6, <1>7, <1>8

\* One end opens what another seals: the two have opposite roles, and the same
\* secrets of the same pattern.
LEMMA Shared ==
  ASSUME NEW e, NEW x, NEW g, Finished(e, x, g), NEW f, NEW y, NEW h, Finished(f, y, h), x.recv = y.send
  PROVE  x.ck = y.ck /\ g[1] = h[1] /\ (initiator(e) <=> ~ initiator(f))
<1>1. PICK S : x.ck \in Seq(S)
  BY SecretsAre
<1>2. PICK T : y.ck \in Seq(T)
  BY SecretsAre
<1>3. PICK U : U = S \union T
  OBVIOUS
<1>4. x.ck \in Seq(U) /\ y.ck \in Seq(U)
  BY ONLY <1>1, <1>2, <1>3
<1>5. Append(x.ck, {<<"half", Theirs(e)>>}) = Append(y.ck, {<<"half", Mine(f)>>})
  BY HalvesAre
<1>6. x.ck = y.ck /\ {<<"half", Theirs(e)>>} = {<<"half", Mine(f)>>}
  BY ONLY <1>4, <1>5, AppendSame
<1>7. Theirs(e) = Mine(f)
  BY ONLY <1>6, HalvesDiffer
<1>8. initiator(e) <=> ~ initiator(f)
  BY ONLY <1>7 DEF Theirs, Mine
<1>9. g[1] \in {"XX", "IK"} /\ h[1] \in {"XX", "IK"}
  BY DEF Finished
<1>10. g[1] = h[1]
  <2>1. (g[1] = "XX" => Len(x.ck) = 3) /\ (g[1] = "IK" => Len(x.ck) = 4)
    BY SecretsAre
  <2>2. (h[1] = "XX" => Len(y.ck) = 3) /\ (h[1] = "IK" => Len(y.ck) = 4)
    BY SecretsAre
  <2>3. QED
    BY ONLY <1>6, <1>9, <2>1, <2>2
<1>11. QED
  BY ONLY <1>6, <1>8, <1>10

\* The phone's and the machine's handshake with one and the same secrets have the
\* same keys.
LEMMA SameKeys ==
  ASSUME NEW W, NEW N, NEW e \in W \X N, NEW f \in W \X N, initiator(e), ~ initiator(f),
         NEW x, NEW g, Finished(e, x, g), NEW y, NEW h, Finished(f, y, h), x.ck = y.ck, g[1] = h[1]
  PROVE  /\ g[1] = "XX" => h[2] = Ephemeral(e)
         /\ g[1] = "IK" => g[6] = Ephemeral(f)
<1>1. Ephemeral(e) # Ephemeral(f)
  BY EphemeralIs
<1>2. CASE g[1] = "XX"
  <2>1. g[2] = Ephemeral(e) /\ h[4] = Ephemeral(f)
    BY <1>2 DEF Finished
  <2>2. PICK a, b, c, d : X3(g, a, b) = X3(h, c, d)
    BY <1>2 DEF Finished
  <2>3. {g[2], g[4]} = {h[2], h[4]}
    BY ONLY <2>2 DEF X3, DH
  <2>4. QED
    BY ONLY <1>1, <1>2, <2>1, <2>3
<1>3. CASE g[1] = "IK"
  <2>1. g[3] = Ephemeral(e) /\ h[6] = Ephemeral(f)
    BY <1>3 DEF Finished
  <2>2. PICK a, b : I4(g, a) = I4(h, b)
    BY <1>3 DEF Finished
  <2>3. {g[6], g[3]} = {h[6], h[3]}
    BY ONLY <2>2 DEF I4, DH
  <2>4. QED
    BY ONLY <1>1, <1>3, <2>1, <2>3
<1>4. QED
  BY <1>2, <1>3 DEF Finished
----------------------------------------------------------------------------
(* The invariant, of the ends en and the records ar.                       *)
-----------------------------------------------------------------------------
(* TalkInv, and what it says of the peer.                                  *)

\* Done and Peers, of any value of ends: what a step makes of them is said with
\* these.
DoneIn(en) == {e \in DOMAIN en : Complete(en[e])}
PeersIn(en, e) == {f \in DoneIn(en) \ {e} : en[f].h = en[e].h}

\* Every end is at a stage.
EndsOK(E, en) == DOMAIN en = E /\ \A e \in E : EndOK(e, en[e])

\* BindingIsOfTwo of any ends.
OfTwo(en) ==
  \A e \in DoneIn(en) : \A f \in PeersIn(en, e) :
    /\ PeersIn(en, e) = {f} /\ initiator(e) # initiator(f) /\ en[e].pattern = en[f].pattern
    /\ en[e].rs = en[f].s /\ en[f].rs = en[e].s
    /\ en[e].send = en[f].recv /\ en[f].send = en[e].recv

\* The ends whose peer is to have answered.
Awaits(e, hs) == (initiator(e) /\ hs.pattern = "IK") \/ (~ initiator(e) /\ hs.pattern = "XX")
Answered(en) == \A e \in DoneIn(en) : Awaits(e, en[e]) => \E f \in DoneIn(en) : f # e /\ en[f].h = en[e].h

\* The beginning of a sequence; IsPrefix of the library, index by index.
Follows(s, t) == Len(s) <= Len(t) /\ \A i \in 1..Len(s) : s[i] = t[i]
InOrderOf(en, e) ==
  en[e].got # <<>> => \E f \in DoneIn(en) : f # e /\ en[f].h = en[e].h /\ Follows(en[e].got, en[f].sent)
InOrder(en) == \A e \in DoneIn(en) : InOrderOf(en, e)

\* Every end in Done has finished at a stage.
LEMMA DoneFinished ==
  ASSUME NEW E, NEW en, EndsOK(E, en), NEW e \in DoneIn(en)
  PROVE  e \in E /\ Finished(e, en[e], en[e].h)
<1>1. e \in E /\ EndOK(e, en[e]) /\ Complete(en[e])
  BY DEF DoneIn, EndsOK
<1>2. QED
  BY <1>1, FinishedIs

\* A peer has the other role, there is one, and the two match.
LEMMA PeerOpposes ==
  ASSUME NEW W, NEW N, NEW E, E \subseteq W \X N, NEW en, EndsOK(E, en),
         NEW e \in DoneIn(en), NEW f \in DoneIn(en), f # e, en[f].h = en[e].h
  PROVE  initiator(e) <=> ~ initiator(f)
<1>1. e \in W \X N /\ f \in W \X N /\ Finished(e, en[e], en[e].h) /\ Finished(f, en[f], en[e].h)
  BY DoneFinished
<1>2. QED
  BY <1>1, SameRole

LEMMA PeerIsOne ==
  ASSUME NEW W, NEW N, NEW E, E \subseteq W \X N, NEW en, EndsOK(E, en),
         NEW e \in DoneIn(en), NEW f \in DoneIn(en), NEW g \in DoneIn(en),
         f # e, g # e, en[f].h = en[e].h, en[g].h = en[e].h
  PROVE  f = g
<1>1. (initiator(e) <=> ~ initiator(f)) /\ (initiator(e) <=> ~ initiator(g))
  BY PeerOpposes
<1>2. f \in W \X N /\ g \in W \X N /\ Finished(f, en[f], en[e].h) /\ Finished(g, en[g], en[e].h)
  BY DoneFinished
<1>3. initiator(f) <=> initiator(g)
  BY <1>1
<1>4. QED
  BY ONLY <1>2, <1>3, SameRole

LEMMA PeersMatch ==
  ASSUME NEW W, NEW N, NEW E, E \subseteq W \X N, NEW en, EndsOK(E, en),
         NEW e \in DoneIn(en), NEW f \in DoneIn(en), f # e, en[f].h = en[e].h
  PROVE  Matched(en[e], en[f])
<1>1. initiator(e) <=> ~ initiator(f)
  BY PeerOpposes
<1>2. PICK x, y, h : x = en[e] /\ y = en[f] /\ h = en[e].h
  OBVIOUS
<1>3. Finished(e, x, h) /\ Finished(f, y, h)
  BY <1>2, DoneFinished
<1>4. CASE initiator(e)
  <2>1. Matched(x, y)
    BY ONLY <1>1, <1>3, <1>4, Crossed
  <2>2. QED
    BY <1>2, <2>1
<1>5. CASE ~ initiator(e)
  <2>1. Matched(y, x)
    BY ONLY <1>1, <1>3, <1>5, Crossed
  <2>2. Matched(x, y)
    BY ONLY <2>1 DEF Matched
  <2>3. QED
    BY <1>2, <2>2
<1>6. QED
  BY <1>4, <1>5

\* BindingIsOfTwo follows of the stages alone.
LEMMA BindingHolds ==
  ASSUME NEW W, NEW N, NEW E, E \subseteq W \X N, NEW en, EndsOK(E, en)
  PROVE  OfTwo(en)
<1>1. SUFFICES ASSUME NEW e \in DoneIn(en), NEW f \in PeersIn(en, e)
               PROVE  /\ PeersIn(en, e) = {f} /\ initiator(e) # initiator(f) /\ en[e].pattern = en[f].pattern
                      /\ en[e].rs = en[f].s /\ en[f].rs = en[e].s
                      /\ en[e].send = en[f].recv /\ en[f].send = en[e].recv
  BY DEF OfTwo
<1>2. f \in DoneIn(en) /\ f # e /\ en[f].h = en[e].h
  BY DEF PeersIn
<1>3. Matched(en[e], en[f])
  BY ONLY <1>2, e \in DoneIn(en), E \subseteq W \X N, EndsOK(E, en), PeersMatch
<1>4. initiator(e) <=> ~ initiator(f)
  BY ONLY <1>2, e \in DoneIn(en), E \subseteq W \X N, EndsOK(E, en), PeerOpposes
<1>5. initiator(e) # initiator(f)
  BY <1>4 DEF initiator
<1>6. PeersIn(en, e) = {f}
  <2>1. ASSUME NEW g \in PeersIn(en, e) PROVE g = f
    <3>1. g \in DoneIn(en) /\ g # e /\ en[g].h = en[e].h
      BY DEF PeersIn
    <3>2. QED
      BY ONLY <1>2, <3>1, e \in DoneIn(en), E \subseteq W \X N, EndsOK(E, en), PeerIsOne
  <2>2. QED
    BY <2>1
<1>7. QED
  BY <1>3, <1>5, <1>6 DEF Matched

\* An end that opens what another seals is its peer.
LEMMA OpensOfPeer ==
  ASSUME NEW W, NEW N, NEW E, E \subseteq W \X N, NEW en, EndsOK(E, en), Answered(en),
         NEW e \in DoneIn(en), NEW f \in DoneIn(en), en[e].recv = en[f].send
  PROVE  f # e /\ en[f].h = en[e].h
<1>1. PICK x, y, g, h : x = en[e] /\ y = en[f] /\ g = en[e].h /\ h = en[f].h
  OBVIOUS
<1>2. Finished(e, x, g) /\ Finished(f, y, h) /\ e \in W \X N /\ f \in W \X N
  BY <1>1, DoneFinished
<1>3. x.recv = y.send
  BY <1>1
<1>4. x.ck = y.ck /\ g[1] = h[1] /\ (initiator(e) <=> ~ initiator(f))
  BY ONLY <1>2, <1>3, Shared
<1>5. x.pattern = g[1] /\ y.pattern = g[1] /\ g[1] \in {"XX", "IK"}
  BY ONLY <1>2, <1>4 DEF Finished
<1>6. PICK a, b : {a, b} = {e, f} /\ a \in DoneIn(en) /\ b \in DoneIn(en) /\ initiator(a) /\ ~ initiator(b)
  BY <1>4
<1>7. /\ a # b /\ Finished(a, en[a], en[a].h) /\ Finished(b, en[b], en[b].h) /\ a \in W \X N /\ b \in W \X N
      /\ en[a].ck = en[b].ck /\ en[a].h[1] = g[1] /\ en[b].h[1] = g[1]
  BY <1>1, <1>2, <1>4, <1>6
<1>8. /\ g[1] = "XX" => en[b].h[2] = Ephemeral(a)
      /\ g[1] = "IK" => en[a].h[6] = Ephemeral(b)
  BY ONLY <1>6, <1>7, SameKeys
<1>9. en[a].h = en[b].h
  <2>1. CASE g[1] = "XX"
    <3>1. en[b].pattern = "XX"
      BY ONLY <1>7, <2>1 DEF Finished
    <3>2. PICK c \in DoneIn(en) : c # b /\ en[c].h = en[b].h
      BY <1>6, <3>1 DEF Answered, Awaits
    <3>3. initiator(c)
      BY ONLY <1>6, <3>2, E \subseteq W \X N, EndsOK(E, en), PeerOpposes
    <3>4. Finished(c, en[c], en[b].h) /\ c \in W \X N
      BY <3>2, DoneFinished
    <3>5. en[b].h[2] = Ephemeral(c)
      BY ONLY <1>7, <2>1, <3>3, <3>4 DEF Finished
    <3>6. c = a
      BY ONLY <1>7, <1>8, <2>1, <3>4, <3>5, EphemeralIs
    <3>7. QED
      BY ONLY <3>2, <3>6
  <2>2. CASE g[1] = "IK"
    <3>1. en[a].pattern = "IK"
      BY ONLY <1>7, <2>2 DEF Finished
    <3>2. PICK c \in DoneIn(en) : c # a /\ en[c].h = en[a].h
      BY <1>6, <3>1 DEF Answered, Awaits
    <3>3. ~ initiator(c)
      BY ONLY <1>6, <3>2, E \subseteq W \X N, EndsOK(E, en), PeerOpposes
    <3>4. Finished(c, en[c], en[a].h) /\ c \in W \X N
      BY <3>2, DoneFinished
    <3>5. en[a].h[6] = Ephemeral(c)
      BY ONLY <1>7, <2>2, <3>3, <3>4 DEF Finished
    <3>6. c = b
      BY ONLY <1>7, <1>8, <2>2, <3>4, <3>5, EphemeralIs
    <3>7. QED
      BY ONLY <3>2, <3>6
  <2>3. QED
    BY ONLY <1>5, <2>1, <2>2
<1>10. QED
  BY ONLY <1>6, <1>7, <1>9
----------------------------------------------------------------------------
(* What the air carries.                                                   *)
-----------------------------------------------------------------------------
(* What the link can carry.                                                *)

\* A record; all that was sent in records; and who sealed what.
Rec(r) == \E k, p, S : r = [kind |-> k, parts |-> p] /\ p \in Seq(S)
Heard(ar) == {Junk} \union UNION {{r.parts[i] : i \in 1..Len(r.parts)} : r \in ar}
By(hs, c) == hs # NoEnd /\ (Shook(hs, c) \/ Told(hs, c))
Of(en, c) == \E f \in DOMAIN en : By(en[f], c)
AirOK(en, ar) ==
  \A r \in ar : Rec(r) /\ \A i \in 1..Len(r.parts) : IsSealed(r.parts[i]) => Of(en, r.parts[i])

\* What is sealed and arrives, an end sealed.
LEMMA HeardOf ==
  ASSUME NEW en, NEW ar, AirOK(en, ar), NEW c \in Heard(ar), IsSealed(c)
  PROVE  Of(en, c)
<1>1. ~ IsSealed(Junk)
  BY Lengths DEF IsSealed
<1>2. c # Junk
  BY <1>1
<1>3. PICK r \in ar : \E i \in 1..Len(r.parts) : c = r.parts[i]
  BY <1>2 DEF Heard
<1>4. QED
  BY <1>3 DEF AirOK

\* The parts of what arrives, damaged or cut short too, are junk or were sent.
LEMMA SeqOver ==
  ASSUME NEW S, NEW p \in Seq(S), NEW T, \A i \in 1..Len(p) : p[i] \in T
  PROVE  p \in Seq(T)
<1>1. Len(p) \in Nat /\ p \in [1..Len(p) -> S]
  OBVIOUS
<1>2. p \in [1..Len(p) -> T]
  BY <1>1
<1>3. QED
  BY <1>1, <1>2

LEMMA PartsHeard ==
  ASSUME NEW ar, NEW r \in ar, NEW p, p = r.parts, NEW S, p \in Seq(S)
  PROVE  p \in Seq(Heard(ar))
<1>1. \A i \in 1..Len(p) : p[i] \in Heard(ar)
  BY DEF Heard
<1>2. QED
  BY ONLY <1>1, p \in Seq(S), SeqOver

LEMMA ArrivesHeard ==
  ASSUME NEW en, AirOK(en, air), NEW r \in Arriving
  PROVE  r.parts \in Seq(Heard(air))
<1>1. ASSUME NEW x \in air PROVE x.parts \in Seq(Heard(air)) /\ \E k : x = [kind |-> k, parts |-> x.parts]
  <2>1. PICK k, p, S : x = [kind |-> k, parts |-> p] /\ p \in Seq(S)
    BY DEF AirOK, Rec
  <2>2. x.parts = p
    BY <2>1
  <2>3. x.parts \in Seq(Heard(air))
    BY <2>1, <2>2, PartsHeard
  <2>4. QED
    BY <2>1, <2>2, <2>3
<1>2. CASE r \in air
  BY <1>1, <1>2
<1>3. ASSUME NEW x \in air, x.parts # <<>>, r = [x EXCEPT !.parts = SubSeq(@, 1, Len(@) - 1)]
      PROVE  r.parts \in Seq(Heard(air))
  <2>1. PICK p, H : p = x.parts /\ H = Heard(air)
    OBVIOUS
  <2>2. p \in Seq(H) /\ p # <<>>
    BY <1>1, <1>3, <2>1
  <2>3. r.parts = SubSeq(p, 1, Len(p) - 1)
    BY <1>1, <1>3, <2>1
  <2>4. SubSeq(p, 1, Len(p) - 1) \in Seq(H)
    BY ONLY <2>2
  <2>5. QED
    BY <2>1, <2>3, <2>4
<1>4. ASSUME NEW x \in air, NEW i \in DOMAIN x.parts, r = [x EXCEPT !.parts[i] = Junk]
      PROVE  r.parts \in Seq(Heard(air))
  <2>1. PICK p, H : p = x.parts /\ H = Heard(air)
    OBVIOUS
  <2>2. p \in Seq(H) /\ i \in DOMAIN p /\ Junk \in H
    BY <1>1, <1>4, <2>1 DEF Heard
  <2>3. r.parts = [p EXCEPT ![i] = Junk]
    BY <1>1, <1>4, <2>1
  <2>4. [p EXCEPT ![i] = Junk] \in Seq(H)
    BY ONLY <2>2
  <2>5. QED
    BY <2>1, <2>3, <2>4
<1>5. QED
  BY <1>2, <1>3, <1>4 DEF Arriving
----------------------------------------------------------------------------
(* One end's step.                                                         *)
-----------------------------------------------------------------------------
(* What a step of one end keeps of the others.                             *)

\* An end goes on: what it sealed it has sealed, and what is finished stays.
Onward(hs, x) ==
  hs # NoEnd =>
    /\ x # NoEnd
    /\ \A c : Shook(hs, c) => Shook(x, c)
    /\ \A c : Told(hs, c) => Told(x, c)
    /\ Complete(hs) => Complete(x) /\ x.h = hs.h /\ x.pattern = hs.pattern /\ Follows(hs.sent, x.sent)

\* What was sealed stays so, and what an end now seals is of it.
LEMMA AirKept ==
  ASSUME NEW en, NEW ar, AirOK(en, ar), NEW e \in DOMAIN en, NEW x, Onward(en[e], x),
         NEW en2, en2 = [en EXCEPT ![e] = x]
  PROVE  AirOK(en2, ar)
<1>1. DOMAIN en2 = DOMAIN en /\ en2[e] = x /\ \A f \in DOMAIN en : f # e => en2[f] = en[f]
  OBVIOUS
<1>2. ASSUME NEW c, Of(en, c) PROVE Of(en2, c)
  <2>1. PICK f \in DOMAIN en : By(en[f], c)
    BY <1>2 DEF Of
  <2>2. CASE f = e
    <3>1. By(x, c)
      BY ONLY <2>1, <2>2, Onward(en[e], x) DEF By, Onward
    <3>2. QED
      BY ONLY <1>1, <2>2, <3>1, e \in DOMAIN en DEF Of
  <2>3. CASE f # e
    BY ONLY <1>1, <2>1, <2>3 DEF Of
  <2>4. QED
    BY <2>2, <2>3
<1>3. QED
  BY ONLY <1>2, AirOK(en, ar) DEF AirOK

LEMMA AirGrows ==
  ASSUME NEW en, NEW ar, AirOK(en, ar), NEW r, Rec(r),
         \A i \in 1..Len(r.parts) : IsSealed(r.parts[i]) => Of(en, r.parts[i])
  PROVE  AirOK(en, ar \union {r})
BY DEF AirOK

\* An end that has finished is one.
LEMMA CompleteSome ==
  ASSUME NEW hs, Complete(hs)
  PROVE  hs # NoEnd
BY DEF Complete, NoEnd

\* A finished end stays finished, with its hash.
StillDone(en, en2, f) == f \in DoneIn(en2) /\ en2[f].h = en[f].h /\ en2[f].pattern = en[f].pattern

LEMMA DoneGrows ==
  ASSUME NEW en, NEW e \in DOMAIN en, NEW x, Onward(en[e], x), NEW en2, en2 = [en EXCEPT ![e] = x],
         NEW f \in DoneIn(en)
  PROVE  StillDone(en, en2, f)
<1>1. f \in DOMAIN en /\ Complete(en[f]) /\ DOMAIN en2 = DOMAIN en
  BY DEF DoneIn
<1>2. CASE f # e
  <2>1. en2[f] = en[f]
    BY <1>2
  <2>2. QED
    BY ONLY <1>1, <2>1 DEF DoneIn, StillDone
<1>3. CASE f = e
  <2>1. en2[f] = x
    BY <1>3
  <2>2. Complete(x) /\ x.h = en[f].h /\ x.pattern = en[f].pattern
    BY <1>1, <1>3, CompleteSome DEF Onward
  <2>3. QED
    BY ONLY <1>1, <2>1, <2>2 DEF DoneIn, StillDone
<1>4. QED
  BY <1>2, <1>3

\* The others' peers stay.
LEMMA AnsweredKept ==
  ASSUME NEW en, Answered(en), NEW e \in DOMAIN en, NEW x, Onward(en[e], x), NEW en2, en2 = [en EXCEPT ![e] = x],
         Complete(x) /\ ~ Complete(en[e]) /\ Awaits(e, x) => \E f \in DoneIn(en) : f # e /\ en[f].h = x.h
  PROVE  Answered(en2)
<1>9. \A f \in DoneIn(en) : f \in DoneIn(en2) /\ en2[f].h = en[f].h /\ en2[f].pattern = en[f].pattern
  <2>1. ASSUME NEW f \in DoneIn(en) PROVE StillDone(en, en2, f)
    BY ONLY e \in DOMAIN en, Onward(en[e], x), en2 = [en EXCEPT ![e] = x], f \in DoneIn(en), DoneGrows
  <2>2. QED
    BY ONLY <2>1 DEF StillDone
<1>1. SUFFICES ASSUME NEW g \in DoneIn(en2), Awaits(g, en2[g])
               PROVE  \E f \in DoneIn(en2) : f # g /\ en2[f].h = en2[g].h
  BY DEF Answered
<1>2. CASE g \in DoneIn(en)
  <2>1. en2[g].h = en[g].h /\ en2[g].pattern = en[g].pattern
    BY <1>2, <1>9
  <2>2. PICK f \in DoneIn(en) : f # g /\ en[f].h = en[g].h
    BY <1>1, <1>2, <2>1 DEF Answered, Awaits
  <2>3. f \in DoneIn(en2) /\ en2[f].h = en[f].h
    BY ONLY <1>9, <2>2
  <2>4. QED
    BY ONLY <2>1, <2>2, <2>3
<1>3. CASE g \notin DoneIn(en)
  <2>1. g = e /\ Complete(x) /\ ~ Complete(en[e]) /\ en2[g] = x
    BY <1>3 DEF DoneIn
  <2>2. PICK f \in DoneIn(en) : f # e /\ en[f].h = x.h
    BY <1>1, <2>1
  <2>3. f \in DoneIn(en2) /\ en2[f].h = en[f].h
    BY ONLY <1>9, <2>2
  <2>4. QED
    BY ONLY <2>1, <2>2, <2>3
<1>4. QED
  BY <1>2, <1>3

\* The beginning of a beginning.
LEMMA FollowsOn ==
  ASSUME NEW S, NEW T, NEW U, NEW s \in Seq(S), NEW t \in Seq(T), NEW u \in Seq(U), Follows(s, t), Follows(t, u)
  PROVE  Follows(s, u)
<1>1. Len(s) \in Nat /\ Len(t) \in Nat /\ Len(u) \in Nat
  OBVIOUS
<1>2. QED
  BY ONLY <1>1, Follows(s, t), Follows(t, u) DEF Follows

\* What the others have opened is still a beginning.
LEMMA InOrderKept ==
  ASSUME NEW E, NEW en, EndsOK(E, en), InOrder(en), NEW e \in E, NEW x, EndOK(e, x), Onward(en[e], x),
         NEW en2, en2 = [en EXCEPT ![e] = x], Complete(x) => InOrderOf(en2, e)
  PROVE  InOrder(en2)
<1>8. e \in DOMAIN en
  BY DEF EndsOK
<1>9. \A f \in DoneIn(en) : f \in DoneIn(en2) /\ en2[f].h = en[f].h /\ en2[f].pattern = en[f].pattern
  <2>1. ASSUME NEW f \in DoneIn(en) PROVE StillDone(en, en2, f)
    BY ONLY <1>8, Onward(en[e], x), en2 = [en EXCEPT ![e] = x], f \in DoneIn(en), DoneGrows
  <2>2. QED
    BY ONLY <2>1 DEF StillDone
<1>1. SUFFICES ASSUME NEW g \in DoneIn(en2), g # e PROVE InOrderOf(en2, g)
  BY DEF InOrder, DoneIn
<1>2. en2[g] = en[g] /\ g \in DoneIn(en) /\ DOMAIN en = E
  BY <1>1 DEF DoneIn, EndsOK
<1>3. SUFFICES ASSUME en[g].got # <<>>
               PROVE  \E f \in DoneIn(en2) : f # g /\ en2[f].h = en2[g].h /\ Follows(en2[g].got, en2[f].sent)
  BY <1>2 DEF InOrderOf
<1>4. PICK f \in DoneIn(en) : f # g /\ en[f].h = en[g].h /\ Follows(en[g].got, en[f].sent)
  BY <1>2, <1>3 DEF InOrder, InOrderOf
<1>5. f \in DoneIn(en2) /\ en2[f].h = en[f].h
  BY ONLY <1>4, <1>9
<1>6. Follows(en[g].got, en2[f].sent)
  <2>1. CASE f # e
    <3>1. en2[f] = en[f]
      BY <1>2, <2>1 DEF DoneIn
    <3>2. QED
      BY ONLY <1>4, <3>1
  <2>2. CASE f = e
    <3>1. Complete(en[e]) /\ en2[f] = x /\ EndOK(e, en[e]) /\ EndOK(g, en[g]) /\ Complete(en[g])
      BY <1>2, <1>4, <2>2 DEF DoneIn, EndsOK
    <3>2. Complete(x) /\ Follows(en[e].sent, x.sent)
      BY ONLY <3>1, CompleteSome, Onward(en[e], x) DEF Onward
    <3>3. Talk(en[e]) /\ Talk(en[g]) /\ Talk(x)
      BY ONLY <3>1, <3>2, EndOK(e, x), DoneIs
    <3>4. PICK A : en[e].sent \in Seq(A)
      BY ONLY <3>3 DEF Talk
    <3>5. PICK B : en[g].got \in Seq(B)
      BY ONLY <3>3 DEF Talk
    <3>6. PICK C : x.sent \in Seq(C)
      BY ONLY <3>3 DEF Talk
    <3>7. Follows(en[g].got, en[e].sent)
      BY ONLY <1>4, <2>2
    <3>8. Follows(en[g].got, x.sent)
      BY ONLY <3>2, <3>4, <3>5, <3>6, <3>7, FollowsOn
    <3>9. QED
      BY ONLY <3>1, <3>8
  <2>3. QED
    BY <2>1, <2>2
<1>7. QED
  BY ONLY <1>2, <1>4, <1>5, <1>6

\* A step after the handshake, or one that gives it up.
SameShake(hs, x) ==
  /\ DOMAIN x = Fields /\ x.end = hs.end /\ x.pattern = hs.pattern /\ x.initiator = hs.initiator
  /\ x.s = hs.s /\ x.rs = hs.rs /\ x.e = hs.e /\ x.idx = hs.idx /\ x.ck = hs.ck /\ x.h = hs.h
  /\ x.send = hs.send /\ x.recv = hs.recv

\* The stage is of the handshake alone.
LEMMA SameStage ==
  ASSUME NEW e, NEW hs, Stage(e, hs), NEW x, SameShake(hs, x)
  PROVE  Stage(e, x)
<1>1. /\ x.pattern = hs.pattern /\ x.s = hs.s /\ x.rs = hs.rs /\ x.e = hs.e /\ x.idx = hs.idx /\ x.ck = hs.ck
      /\ x.h = hs.h /\ x.send = hs.send /\ x.recv = hs.recv
  BY DEF SameShake
<1>2. (Keyed(hs, 1) => Keyed(x, 1)) /\ (Keyed(hs, 2) => Keyed(x, 2))
  BY <1>1 DEF Keyed, Half
<1>3. (XXi1(e, hs) => XXi1(e, x)) /\ (XXr0(e, hs) => XXr0(e, x)) /\ (IKr0(e, hs) => IKr0(e, x))
  BY ONLY <1>1 DEF XXi1, XXr0, IKr0
<1>4. (XXi3(e, hs) => XXi3(e, x)) /\ (XXr3(e, hs) => XXr3(e, x))
  BY ONLY <1>1, <1>2 DEF XXi3, XXr3
<1>5. (XXr2(e, hs) => XXr2(e, x)) /\ (IKi1(e, hs) => IKi1(e, x))
  BY ONLY <1>1 DEF XXr2, IKi1
<1>6. (IKi2(e, hs) => IKi2(e, x)) /\ (IKr2(e, hs) => IKr2(e, x))
  BY ONLY <1>1, <1>2 DEF IKi2, IKr2
<1>7. QED
  BY ONLY <1>1, <1>3, <1>4, <1>5, <1>6, Stage(e, hs) DEF Stage

\* An end goes on within its session.
Moved(e, hs, x) ==
  EndOK(e, x) /\ Onward(hs, x) /\ x # NoEnd /\ (Complete(x) <=> Complete(hs)) /\ x.h = hs.h

LEMMA Moves ==
  ASSUME NEW e, NEW hs, EndOK(e, hs), hs # NoEnd, NEW x, SameShake(hs, x), Talk(x), Follows(hs.sent, x.sent)
  PROVE  Moved(e, hs, x)
<1>1. Own(e, hs) /\ Talk(hs) /\ Stage(e, hs)
  BY DEF EndOK
<1>2. Own(e, x)
  BY ONLY <1>1, SameShake(hs, x) DEF Own, SameShake
<1>3. Stage(e, x)
  BY ONLY <1>1, SameShake(hs, x), SameStage
<1>4. EndOK(e, x)
  BY ONLY <1>2, <1>3, Talk(x) DEF EndOK
<1>5. hs.at # "none" /\ x.at # "none"
  BY ONLY <1>1, Talk(x) DEF Talk
<1>6. x # NoEnd
  BY <1>5, NotNone
<1>7. Complete(x) <=> Complete(hs)
  BY ONLY <1>5, SameShake(hs, x) DEF Complete, SameShake
<1>8. /\ x.h = hs.h /\ x.pattern = hs.pattern /\ x.send = hs.send /\ x.end = hs.end /\ x.idx = hs.idx
  BY DEF SameShake
<1>9. \A c : Shook(hs, c) => Shook(x, c)
  BY ONLY <1>8 DEF Shook
<1>10. ASSUME NEW c, Told(hs, c) PROVE Told(x, c)
  <2>1. PICK m \in 1..Len(hs.sent) : c = Sealed(hs.send, m - 1, <<>>, hs.sent[m])
    BY <1>10 DEF Told
  <2>2. Len(hs.sent) \in Nat /\ Len(x.sent) \in Nat
    BY <1>1 DEF Talk
  <2>3. m \in 1..Len(x.sent) /\ x.sent[m] = hs.sent[m]
    BY ONLY <2>1, <2>2, Follows(hs.sent, x.sent) DEF Follows
  <2>4. c = Sealed(x.send, m - 1, <<>>, x.sent[m])
    BY ONLY <1>8, <2>1, <2>3
  <2>5. Complete(x)
    BY <1>7, <1>10 DEF Told
  <2>6. QED
    BY ONLY <2>3, <2>4, <2>5 DEF Told
<1>11. Onward(hs, x)
  BY ONLY <1>6, <1>7, <1>8, <1>9, <1>10, Follows(hs.sent, x.sent) DEF Onward
<1>12. QED
  BY ONLY <1>4, <1>6, <1>7, <1>8, <1>11 DEF Moved

\* A sequence follows itself, and its own extensions.
LEMMA FollowsSelf ==
  ASSUME NEW s, NEW S, s \in Seq(S)
  PROVE  Follows(s, s)
<1>1. Len(s) \in Nat
  OBVIOUS
<1>2. QED
  BY ONLY <1>1 DEF Follows

LEMMA FollowsAppend ==
  ASSUME NEW s, NEW S, s \in Seq(S), NEW a
  PROVE  /\ Follows(s, Append(s, a)) /\ (\E T : Append(s, a) \in Seq(T))
         /\ Len(Append(s, a)) = Len(s) + 1 /\ Append(s, a)[Len(s) + 1] = a
         /\ Len(s) + 1 \in 1..Len(Append(s, a)) /\ (Len(s) + 1) - 1 = Len(s)
<1>1. PICK T : T = S \union {a}
  OBVIOUS
<1>2. s \in Seq(T) /\ a \in T
  BY <1>1
<1>3. PICK t : t = Append(s, a)
  OBVIOUS
<1>4. /\ t \in Seq(T) /\ Len(t) = Len(s) + 1 /\ t[Len(s) + 1] = a /\ Len(s) \in Nat
      /\ \A i \in 1..Len(s) : t[i] = s[i]
  BY ONLY <1>2, <1>3
<1>5. Follows(s, t)
  BY ONLY <1>4 DEF Follows
<1>6. Len(s) + 1 \in 1..Len(t) /\ (Len(s) + 1) - 1 = Len(s)
  BY ONLY <1>4
<1>7. QED
  BY ONLY <1>3, <1>4, <1>5, <1>6

\* A session that is given up (EndsTalk).
LEMMA OverOK ==
  ASSUME NEW e, NEW hs, EndOK(e, hs), hs # NoEnd, NEW x, x = [hs EXCEPT !.at = "over"]
  PROVE  Moved(e, hs, x) /\ x.got = hs.got
<1>1. Own(e, hs) /\ Talk(hs)
  BY DEF EndOK
<1>2. DOMAIN hs = Fields
  BY <1>1 DEF Own
<1>3. SameShake(hs, x) /\ x.sent = hs.sent /\ x.got = hs.got /\ x.at = "over"
  BY <1>2 DEF SameShake, Fields
<1>4. hs.at # "none"
  BY <1>1 DEF Talk
<1>5. Complete(x) <=> Complete(hs)
  BY ONLY <1>3, <1>4 DEF SameShake, Complete
<1>6. Talk(x)
  BY ONLY <1>1, <1>3, <1>5 DEF Talk
<1>7. Follows(hs.sent, x.sent)
  BY <1>1, <1>3, FollowsSelf DEF Talk
<1>8. QED
  BY ONLY <1>3, <1>6, <1>7, EndOK(e, hs), hs # NoEnd, Moves

\* An end has sealed p.
Says(e, hs, p, x) == Moved(e, hs, x) /\ x.got = hs.got /\ Told(x, Seal(hs, p))

\* SendMsg: the counter is the number of what was sealed.
LEMMA SendOK ==
  ASSUME NEW e, NEW hs, EndOK(e, hs), hs.at = "open", NEW p, NEW x, x = [hs EXCEPT !.sent = Append(@, p)]
  PROVE  Says(e, hs, p, x)
<1>1. hs # NoEnd
  BY NotNone
<1>2. Own(e, hs) /\ Talk(hs) /\ Complete(hs)
  BY <1>1 DEF EndOK, Talk
<1>3. DOMAIN hs = Fields
  BY <1>2 DEF Own
<1>4. SameShake(hs, x) /\ x.sent = Append(hs.sent, p) /\ x.got = hs.got /\ x.at = "open"
  BY <1>3 DEF SameShake, Fields
<1>5. Complete(x)
  BY ONLY <1>2, <1>4 DEF SameShake, Complete
<1>6. PICK S : hs.sent \in Seq(S)
  BY <1>2 DEF Talk
<1>7. PICK s, t : s = hs.sent /\ t = Append(s, p) /\ x.sent = t
  BY <1>4
<1>8. /\ Follows(s, t) /\ (\E T : t \in Seq(T)) /\ t[Len(s) + 1] = p
      /\ Len(s) + 1 \in 1..Len(t) /\ (Len(s) + 1) - 1 = Len(s)
  BY ONLY <1>6, <1>7, FollowsAppend
<1>9. Talk(x)
  BY ONLY <1>2, <1>4, <1>5, <1>7, <1>8 DEF Talk
<1>10. Moved(e, hs, x)
  BY ONLY <1>1, <1>4, <1>7, <1>8, <1>9, EndOK(e, hs), Moves
<1>11. Told(x, Seal(hs, p))
  <2>1. x.send = hs.send
    BY <1>4 DEF SameShake
  <2>2. PICK m : m = Len(s) + 1
    OBVIOUS
  <2>3. m \in 1..Len(x.sent) /\ x.sent[m] = p /\ m - 1 = Len(hs.sent)
    BY ONLY <1>7, <1>8, <2>2
  <2>4. Seal(hs, p) = Sealed(x.send, m - 1, <<>>, x.sent[m])
    BY ONLY <2>1, <2>3 DEF Seal
  <2>5. QED
    BY ONLY <1>5, <2>3, <2>4 DEF Told
<1>12. QED
  BY ONLY <1>4, <1>10, <1>11 DEF Says

\* RecvMsg, where nothing opens: a phone seals an error and is over.
LEMMA RefuseOK ==
  ASSUME NEW e, NEW hs, EndOK(e, hs), hs.at = "open", NEW p, NEW x,
         x = [hs EXCEPT !.at = "over", !.sent = Append(@, p)]
  PROVE  Says(e, hs, p, x)
<1>1. hs # NoEnd
  BY NotNone
<1>3. Own(e, hs) /\ Talk(hs) /\ Complete(hs)
  BY <1>1 DEF EndOK, Talk
<1>4. DOMAIN hs = Fields
  BY <1>3 DEF Own
<1>5. SameShake(hs, x) /\ x.sent = Append(hs.sent, p) /\ x.got = hs.got /\ x.at = "over"
  BY <1>4 DEF SameShake, Fields
<1>6. Complete(x)
  BY ONLY <1>3, <1>5 DEF SameShake, Complete
<1>7. PICK S : hs.sent \in Seq(S)
  BY <1>3 DEF Talk
<1>8. PICK s, t : s = hs.sent /\ t = Append(s, p) /\ x.sent = t
  BY <1>5
<1>9. /\ Follows(s, t) /\ (\E T : t \in Seq(T)) /\ t[Len(s) + 1] = p
      /\ Len(s) + 1 \in 1..Len(t) /\ (Len(s) + 1) - 1 = Len(s)
  BY ONLY <1>7, <1>8, FollowsAppend
<1>10. Talk(x)
  BY ONLY <1>3, <1>5, <1>6, <1>8, <1>9 DEF Talk
<1>11. Moved(e, hs, x)
  BY ONLY <1>1, <1>5, <1>8, <1>9, <1>10, EndOK(e, hs), Moves
<1>12. Told(x, Seal(hs, p))
  <2>1. x.send = hs.send
    BY <1>5 DEF SameShake
  <2>2. PICK m : m = Len(s) + 1
    OBVIOUS
  <2>3. m \in 1..Len(x.sent) /\ x.sent[m] = p /\ m - 1 = Len(hs.sent)
    BY ONLY <1>8, <1>9, <2>2
  <2>4. Seal(hs, p) = Sealed(x.send, m - 1, <<>>, x.sent[m])
    BY ONLY <2>1, <2>3 DEF Seal
  <2>5. QED
    BY ONLY <1>6, <2>3, <2>4 DEF Told
<1>13. QED
  BY ONLY <1>5, <1>11, <1>12 DEF Says

\* An end has opened q.
Takes(e, hs, q, x) == Moved(e, hs, x) /\ x.got = Append(hs.got, q)

\* RecvMsg, where it opens.
LEMMA RecvOK ==
  ASSUME NEW e, NEW hs, EndOK(e, hs), hs.at = "open", NEW q, NEW at \in {"open", "over"},
         NEW x, x = [hs EXCEPT !.got = Append(@, q), !.at = at]
  PROVE  Takes(e, hs, q, x)
<1>1. hs # NoEnd
  BY NotNone
<1>2. Own(e, hs) /\ Talk(hs) /\ Complete(hs)
  BY <1>1 DEF EndOK, Talk
<1>3. DOMAIN hs = Fields
  BY <1>2 DEF Own
<1>4. SameShake(hs, x) /\ x.got = Append(hs.got, q) /\ x.sent = hs.sent /\ x.at \in {"open", "over"}
  BY <1>3 DEF SameShake, Fields
<1>5. Complete(x)
  BY ONLY <1>2, <1>4 DEF SameShake, Complete
<1>6. PICK S : hs.got \in Seq(S)
  BY <1>2 DEF Talk
<1>7. \E T : Append(hs.got, q) \in Seq(T)
  BY ONLY <1>6, FollowsAppend
<1>8. Talk(x)
  BY ONLY <1>2, <1>4, <1>5, <1>7 DEF Talk
<1>9. Follows(hs.sent, x.sent)
  BY <1>2, <1>4, FollowsSelf DEF Talk
<1>10. Moved(e, hs, x)
  BY ONLY <1>1, <1>4, <1>8, <1>9, EndOK(e, hs), Moves
<1>11. QED
  BY ONLY <1>4, <1>10 DEF Takes
----------------------------------------------------------------------------
(* The inductive invariant, and what keeps it.                             *)

\* The inductive invariant.
TalkInv(E, en, ar) == EndsOK(E, en) /\ AirOK(en, ar) /\ Answered(en) /\ InOrder(en)
-----------------------------------------------------------------------------
(* (6) Every action keeps TalkInv.                                         *)

\* One end moves, and the stages are kept.
LEMMA EndsKept ==
  ASSUME NEW E, NEW en, EndsOK(E, en), NEW e \in E, NEW x, EndOK(e, x), NEW en2, en2 = [en EXCEPT ![e] = x]
  PROVE  EndsOK(E, en2)
<1>1. DOMAIN en2 = E /\ en2[e] = x /\ \A f \in E : f # e => en2[f] = en[f]
  BY DEF EndsOK
<1>2. QED
  BY ONLY <1>1, EndsOK(E, en), EndOK(e, x) DEF EndsOK

\* A step that opens nothing keeps TalkInv, within a session and before it.
LEMMA MovedKeeps ==
  ASSUME NEW E, NEW en, NEW ar, TalkInv(E, en, ar), NEW e \in E, en[e] # NoEnd, NEW x, Moved(e, en[e], x),
         x.got = en[e].got, NEW en2, en2 = [en EXCEPT ![e] = x], NEW ar2, AirOK(en2, ar2)
  PROVE  TalkInv(E, en2, ar2)
<1>1. EndOK(e, x) /\ Onward(en[e], x) /\ (Complete(x) <=> Complete(en[e])) /\ x.h = en[e].h
  BY DEF Moved
<1>2. EndsOK(E, en) /\ Answered(en) /\ InOrder(en) /\ DOMAIN en = E
  BY DEF TalkInv, EndsOK
<1>3. EndsOK(E, en2)
  BY ONLY <1>1, <1>2, e \in E, en2 = [en EXCEPT ![e] = x], EndsKept
<1>4. Answered(en2)
  BY ONLY <1>1, <1>2, e \in E, en2 = [en EXCEPT ![e] = x], AnsweredKept
<1>5. Complete(x) => InOrderOf(en2, e)
  <2>1. SUFFICES ASSUME Complete(x), en2[e].got # <<>>
                 PROVE  \E f \in DoneIn(en2) : f # e /\ en2[f].h = en2[e].h /\ Follows(en2[e].got, en2[f].sent)
    BY DEF InOrderOf
  <2>2. en2[e] = x /\ e \in DoneIn(en)
    BY <1>1, <1>2, <2>1 DEF DoneIn
  <2>3. PICK f \in DoneIn(en) : f # e /\ en[f].h = en[e].h /\ Follows(en[e].got, en[f].sent)
    BY <1>2, <2>1, <2>2 DEF InOrder, InOrderOf
  <2>4. en2[f] = en[f] /\ f \in DoneIn(en2)
    BY <1>2, <2>3 DEF DoneIn
  <2>5. QED
    BY <1>1, <2>2, <2>3, <2>4
<1>6. InOrder(en2)
  BY ONLY <1>1, <1>2, <1>5, e \in E, en2 = [en EXCEPT ![e] = x], InOrderKept
<1>7. QED
  BY ONLY <1>3, <1>4, <1>6, AirOK(en2, ar2) DEF TalkInv

LEMMA FreshKeeps ==
  ASSUME NEW E, NEW en, NEW ar, TalkInv(E, en, ar), NEW e \in E, ~ Complete(en[e]), NEW x, EndOK(e, x),
         Onward(en[e], x), x.got = <<>>, NEW en2, en2 = [en EXCEPT ![e] = x],
         Complete(x) /\ Awaits(e, x) => \E f \in DoneIn(en) : f # e /\ en[f].h = x.h,
         NEW ar2, AirOK(en2, ar2)
  PROVE  TalkInv(E, en2, ar2)
<1>1. EndsOK(E, en) /\ Answered(en) /\ InOrder(en) /\ DOMAIN en = E
  BY DEF TalkInv, EndsOK
<1>2. EndsOK(E, en2)
  BY ONLY <1>1, EndOK(e, x), e \in E, en2 = [en EXCEPT ![e] = x], EndsKept
<1>3. Complete(x) /\ ~ Complete(en[e]) /\ Awaits(e, x) => \E f \in DoneIn(en) : f # e /\ en[f].h = x.h
  OBVIOUS
<1>4. Answered(en2)
  BY ONLY <1>1, <1>3, Onward(en[e], x), e \in E, en2 = [en EXCEPT ![e] = x], AnsweredKept
<1>5. Complete(x) => InOrderOf(en2, e)
  BY <1>1 DEF InOrderOf
<1>6. InOrder(en2)
  BY ONLY <1>1, <1>5, EndOK(e, x), Onward(en[e], x), e \in E, en2 = [en EXCEPT ![e] = x], InOrderKept
<1>7. QED
  BY ONLY <1>2, <1>4, <1>6, AirOK(en2, ar2) DEF TalkInv

\* An end that came to the end by the last message: who sealed it is its peer.
LEMMA PeerAnswers ==
  ASSUME NEW E, NEW en, NEW ar, TalkInv(E, en, ar), NEW e \in E, NEW hs, NEW got,
         Closes(e, hs, Heard(ar), got), Awaits(e, got)
  PROVE  \E f \in DoneIn(en) : f # e /\ en[f].h = got.h
<1>1. /\ Complete(got) /\ EndOK(e, got)
      /\ (got.pattern = "XX" => got.h[8] \in Heard(ar)) /\ (got.pattern = "IK" => got.h[7] \in Heard(ar))
  BY DEF Closes
<1>2. PICK h : h = got.h
  OBVIOUS
<1>3. Finished(e, got, h)
  BY <1>1, <1>2, FinishedIs
<1>4. AirOK(en, ar) /\ DOMAIN en = E /\ \A f \in E : EndOK(f, en[f])
  BY DEF TalkInv, EndsOK
<1>5. CASE ~ initiator(e) /\ got.pattern = "XX"
  <2>1. XXClosed(h, got.s, got.rs)
    BY <1>3, <1>5 DEF Finished
  <2>2. PICK c : c = h[8] /\ c \in Heard(ar)
    BY <1>1, <1>2, <1>5
  <2>3. Names(c, "XX", 7)
    BY <2>1, <2>2, XXNamesLast
  <2>4. IsSealed(c)
    BY <2>1, <2>2, Lengths DEF XXClosed, IsSealed
  <2>5. PICK f \in E : By(en[f], c)
    BY <1>4, <2>2, <2>4, HeardOf DEF Of
  <2>6. PICK y : y = en[f]
    OBVIOUS
  <2>7. EndOK(f, y) /\ y # NoEnd /\ (Shook(y, c) \/ Told(y, c))
    BY <1>4, <2>5, <2>6 DEF By
  <2>8. initiator(f) /\ y.pattern = "XX" /\ XXi3(f, y) /\ c = y.h[8]
    BY ONLY <2>3, <2>7, LastXX
  <2>9. XXClosed(y.h, y.rs, y.s) /\ y.idx = 3
    BY <2>8 DEF XXi3
  <2>10. y.h = h
    BY ONLY <2>1, <2>2, <2>8, <2>9, SameLastXX
  <2>11. Complete(y)
    BY <2>7, <2>8, <2>9, MessagesAre DEF Complete, EndOK, Talk
  <2>12. f \in DoneIn(en) /\ f # e /\ en[f].h = got.h
    BY <1>2, <1>4, <1>5, <2>6, <2>8, <2>10, <2>11 DEF DoneIn
  <2>13. QED
    BY ONLY <2>12
<1>6. CASE initiator(e) /\ got.pattern = "IK"
  <2>1. IKClosed(h, got.s)
    BY <1>3, <1>6 DEF Finished
  <2>2. PICK c : c = h[7] /\ c \in Heard(ar)
    BY <1>1, <1>2, <1>6
  <2>3. Names(c, "IK", 6)
    BY <2>1, <2>2, IKNamesLast
  <2>4. IsSealed(c)
    BY <2>1, <2>2, Lengths DEF IKClosed, IsSealed
  <2>5. PICK f \in E : By(en[f], c)
    BY <1>4, <2>2, <2>4, HeardOf DEF Of
  <2>6. PICK y : y = en[f]
    OBVIOUS
  <2>7. EndOK(f, y) /\ y # NoEnd /\ (Shook(y, c) \/ Told(y, c))
    BY <1>4, <2>5, <2>6 DEF By
  <2>8. ~ initiator(f) /\ y.pattern = "IK" /\ IKr2(f, y) /\ c = y.h[7]
    BY ONLY <2>3, <2>7, LastIK
  <2>9. IKClosed(y.h, y.rs) /\ y.idx = 2
    BY <2>8 DEF IKr2
  <2>10. y.h = h
    BY ONLY <2>1, <2>2, <2>8, <2>9, SameLastIK
  <2>11. Complete(y)
    BY <2>7, <2>8, <2>9, MessagesAre DEF Complete, EndOK, Talk
  <2>12. f \in DoneIn(en) /\ f # e /\ en[f].h = got.h
    BY <1>2, <1>4, <1>6, <2>6, <2>8, <2>10, <2>11 DEF DoneIn
  <2>13. QED
    BY ONLY <2>12
<1>7. QED
  BY <1>5, <1>6 DEF Awaits

\* An end that opens the next record: its peer sealed it next.
SealedNext(en, e, c) ==
  \E f \in DoneIn(en) : f # e /\ en[f].h = en[e].h /\ Follows(Append(en[e].got, c[5]), en[f].sent)

LEMMA RecvFollows ==
  ASSUME NEW W, NEW N, NEW E, E \subseteq W \X N, NEW en, NEW ar, TalkInv(E, en, ar),
         NEW e \in E, en[e].at = "open", NEW c \in Heard(ar), OpensWith(en[e], c)
  PROVE  SealedNext(en, e, c)
<1>1. EndsOK(E, en) /\ AirOK(en, ar) /\ Answered(en) /\ InOrder(en) /\ DOMAIN en = E
  BY DEF TalkInv, EndsOK
<1>2. EndOK(e, en[e]) /\ en[e] # NoEnd
  BY <1>1, NotNone DEF EndsOK
<1>3. Talk(en[e]) /\ Complete(en[e]) /\ e \in DoneIn(en)
  BY <1>1, <1>2 DEF EndOK, Talk, DoneIn
<1>4. Finished(e, en[e], en[e].h)
  BY <1>1, <1>3, DoneFinished
<1>5. IsSealed(c) /\ c[2] = en[e].recv /\ c[3] = Len(en[e].got)
  BY DEF OpensWith
<1>6. PICK f \in E : By(en[f], c)
  BY <1>1, <1>5, HeardOf DEF Of
<1>7. EndOK(f, en[f]) /\ en[f] # NoEnd
  BY <1>1, <1>6 DEF EndsOK, By
<1>8. ~ Shook(en[f], c)
  <2>1. SUFFICES ASSUME Shook(en[f], c) PROVE FALSE
    OBVIOUS
  <2>2. Own(f, en[f]) /\ Stage(f, en[f])
    BY <1>7 DEF EndOK
  <2>3. ShakesWith(c[2])
    BY ONLY <2>1, <2>2, ShookKey
  <2>4. TalksWith(c[2])
    BY <1>4, <1>5, RecvIs
  <2>5. QED
    BY ONLY <2>3, <2>4, KeysDiffer
<1>9. Told(en[f], c)
  BY <1>6, <1>8 DEF By
<1>10. PICK m \in 1..Len(en[f].sent) : c = Sealed(en[f].send, m - 1, <<>>, en[f].sent[m])
  BY <1>9 DEF Told
<1>11. c[2] = en[f].send /\ c[3] = m - 1 /\ c[5] = en[f].sent[m]
  BY ONLY <1>10, Lengths
<1>12. Complete(en[f]) /\ f \in DoneIn(en)
  BY <1>1, <1>9 DEF Told, DoneIn
<1>13. en[e].recv = en[f].send
  BY <1>5, <1>11
<1>14. f # e /\ en[f].h = en[e].h
  BY ONLY <1>1, <1>3, <1>12, <1>13, E \subseteq W \X N, OpensOfPeer
<1>15. PICK g, s : g = en[e].got /\ s = en[f].sent
  OBVIOUS
<1>16. PICK S : g \in Seq(S)
  BY <1>3, <1>15 DEF Talk
<1>17. Talk(en[f])
  BY <1>7 DEF EndOK
<1>18. PICK T : s \in Seq(T)
  BY <1>15, <1>17 DEF Talk
<1>19. m \in 1..Len(s) /\ m - 1 = Len(g) /\ c[5] = s[m]
  BY <1>5, <1>10, <1>11, <1>15
<1>20. Follows(g, s)
  <2>1. CASE g = <<>>
    <3>1. Len(g) = 0 /\ Len(s) \in Nat
      BY ONLY <1>18, <2>1
    <3>2. QED
      BY ONLY <3>1 DEF Follows
  <2>2. CASE g # <<>>
    <3>1. PICK k \in DoneIn(en) : k # e /\ en[k].h = en[e].h /\ Follows(g, en[k].sent)
      BY <1>1, <1>3, <1>15, <2>2 DEF InOrder, InOrderOf
    <3>2. k = f
      <4>1. EndsOK(E, en) /\ e \in DoneIn(en) /\ f \in DoneIn(en)
        BY <1>1, <1>3, <1>12
      <4>2. k \in DoneIn(en) /\ k # e /\ en[k].h = en[e].h
        BY <3>1
      <4>3. OfTwo(en)
        BY ONLY <4>1, E \subseteq W \X N, BindingHolds
      <4>4. f \in PeersIn(en, e) /\ k \in PeersIn(en, e)
        BY ONLY <1>14, <4>1, <4>2 DEF PeersIn
      <4>5. PeersIn(en, e) = {f}
        BY ONLY <4>1, <4>3, <4>4 DEF OfTwo
      <4>6. QED
        BY ONLY <4>4, <4>5
    <3>3. QED
      BY ONLY <1>15, <3>1, <3>2
  <2>3. QED
    BY <2>1, <2>2
<1>21. Follows(Append(g, c[5]), s)
  <2>1. PICK t, q : q = c[5] /\ t = Append(g, q)
    OBVIOUS
  <2>2. PICK U : U = S \union {q}
    OBVIOUS
  <2>3. g \in Seq(U) /\ q \in U
    BY ONLY <1>16, <2>2
  <2>4. /\ Len(t) = Len(g) + 1 /\ t[Len(g) + 1] = q /\ Len(g) \in Nat
        /\ \A i \in 1..Len(g) : t[i] = g[i]
    BY ONLY <2>1, <2>3
  <2>5. Len(s) \in Nat /\ m \in Nat /\ m = Len(g) + 1 /\ m <= Len(s) /\ q = s[m]
    BY ONLY <1>18, <1>19, <2>1, <2>4
  <2>6. Follows(t, s)
    BY ONLY <1>20, <2>4, <2>5 DEF Follows
  <2>7. QED
    BY ONLY <2>1, <2>6
<1>22. QED
  BY ONLY <1>12, <1>14, <1>15, <1>21 DEF SealedNext

\* A record that is sent is of the end that sends it.
LEMMA AirSpoken ==
  ASSUME NEW en, NEW ar, AirOK(en, ar), NEW e \in DOMAIN en, NEW x, Onward(en[e], x), x # NoEnd,
         NEW en2, en2 = [en EXCEPT ![e] = x], NEW kind, NEW parts, Spoken(x, parts)
  PROVE  AirOK(en2, ar \union {Sent(kind, parts)})
<1>1. AirOK(en2, ar)
  BY ONLY AirOK(en, ar), e \in DOMAIN en, Onward(en[e], x), en2 = [en EXCEPT ![e] = x], AirKept
<1>2. PICK r : r = Sent(kind, parts)
  OBVIOUS
<1>3. r.parts = parts /\ r = [kind |-> kind, parts |-> parts]
  BY <1>2 DEF Sent
<1>4. Rec(r)
  BY <1>3 DEF Rec, Spoken
<1>5. en2[e] = x /\ e \in DOMAIN en2
  OBVIOUS
<1>6. \A i \in 1..Len(r.parts) : IsSealed(r.parts[i]) => Of(en2, r.parts[i])
  BY ONLY <1>3, <1>5, x # NoEnd, Spoken(x, parts) DEF Of, By, Spoken
<1>7. QED
  BY ONLY <1>1, <1>2, <1>4, <1>6, AirGrows

LEMMA AirTold ==
  ASSUME NEW en, NEW ar, AirOK(en, ar), NEW e \in DOMAIN en, NEW x, Onward(en[e], x), x # NoEnd,
         NEW en2, en2 = [en EXCEPT ![e] = x], NEW kind, NEW c, Told(x, c)
  PROVE  AirOK(en2, ar \union {Sent(kind, <<c>>)})
<1>1. AirOK(en2, ar)
  BY ONLY AirOK(en, ar), e \in DOMAIN en, Onward(en[e], x), en2 = [en EXCEPT ![e] = x], AirKept
<1>2. PICK r, parts : r = Sent(kind, parts) /\ parts = <<c>>
  OBVIOUS
<1>3. r.parts = parts /\ r = [kind |-> kind, parts |-> parts]
  BY <1>2 DEF Sent
<1>4. parts \in Seq({c}) /\ Len(parts) = 1 /\ parts[1] = c
  BY ONLY <1>2
<1>5. Rec(r)
  BY ONLY <1>3, <1>4 DEF Rec
<1>6. en2[e] = x /\ e \in DOMAIN en2
  OBVIOUS
<1>7. Of(en2, c)
  BY ONLY <1>6, x # NoEnd, Told(x, c) DEF Of, By
<1>8. \A i \in 1..Len(r.parts) : i = 1
  BY ONLY <1>3, <1>4
<1>9. \A i \in 1..Len(r.parts) : IsSealed(r.parts[i]) => Of(en2, r.parts[i])
  BY ONLY <1>3, <1>4, <1>7, <1>8
<1>10. AirOK(en2, ar \union {r})
  BY ONLY <1>1, <1>5, <1>9, AirGrows
<1>11. QED
  BY ONLY <1>2, <1>10

\* An end that has not begun.
LEMMA NoneIs ==
  ASSUME NEW e, NEW hs, EndOK(e, hs), hs.at = "none"
  PROVE  hs = NoEnd /\ ~ Complete(hs)
BY DEF EndOK, Talk, Complete

LEMMA FromNone ==
  ASSUME NEW x
  PROVE  Onward(NoEnd, x)
BY DEF Onward

\* An end in its handshake.
LEMMA Waits ==
  ASSUME NEW e, NEW x, EndOK(e, x), x.at = "handshake"
  PROVE  x # NoEnd /\ ~ Complete(x) /\ x.got = <<>> /\ Own(e, x) /\ Talk(x) /\ Stage(e, x)
<1>1. x # NoEnd
  BY NotNone
<1>2. QED
  BY <1>1 DEF EndOK, Talk

\* StartVerifier.
LEMMA StartKeeps ==
  ASSUME NEW E, TalkInv(E, ends, air), NEW e \in E, NEW p \in {"XX", "IK"}, StartVerifier(e, p)
  PROVE  TalkInv(E, ends', air')
<1>1. EndsOK(E, ends) /\ AirOK(ends, air) /\ DOMAIN ends = E /\ EndOK(e, ends[e])
  BY DEF TalkInv, EndsOK
<1>2. PICK w, x : w = WriteMessage(NewHandshake(e, p)) /\ x = w.hs
  OBVIOUS
<1>3. /\ ends[e].at = "none" /\ initiator(e) /\ ends' = [ends EXCEPT ![e] = x]
      /\ air' = air \union {Sent(p, w.parts)}
  BY <1>2 DEF StartVerifier, Is
<1>4. EndOK(e, x) /\ x.at = "handshake" /\ Spoken(x, w.parts)
  <2>1. CASE p = "XX"
    BY <1>2, <1>3, <2>1, StartsXX
  <2>2. CASE p = "IK"
    BY <1>2, <1>3, <2>2, StartsIK
  <2>3. QED
    BY <2>1, <2>2
<1>5. ends[e] = NoEnd /\ ~ Complete(ends[e])
  BY ONLY <1>1, <1>3, NoneIs
<1>6. Onward(ends[e], x)
  BY ONLY <1>5, FromNone
<1>7. x # NoEnd /\ ~ Complete(x) /\ x.got = <<>>
  BY ONLY <1>4, Waits
<1>8. AirOK(ends', air')
  BY ONLY <1>1, <1>3, <1>4, <1>6, <1>7, e \in E, AirSpoken
<1>9. QED
  BY ONLY <1>3, <1>4, <1>5, <1>6, <1>7, <1>8, e \in E, TalkInv(E, ends, air), FreshKeeps

\* AcceptHandshake.
LEMMA AcceptKeeps ==
  ASSUME NEW E, TalkInv(E, ends, air), NEW e \in E, NEW p \in {"XX", "IK"}, AcceptHandshake(e, p)
  PROVE  TalkInv(E, ends', air')
<1>1. EndsOK(E, ends) /\ AirOK(ends, air) /\ DOMAIN ends = E /\ EndOK(e, ends[e])
  BY DEF TalkInv, EndsOK
<1>2. PICK x : x = NewHandshake(e, p)
  OBVIOUS
<1>3. ends[e].at = "none" /\ ~ initiator(e) /\ ends' = [ends EXCEPT ![e] = x] /\ air' = air
  BY <1>2 DEF AcceptHandshake, Is
<1>4. EndOK(e, x) /\ x.at = "handshake"
  BY <1>2, <1>3, AcceptOK
<1>5. ends[e] = NoEnd /\ ~ Complete(ends[e])
  BY ONLY <1>1, <1>3, NoneIs
<1>6. Onward(ends[e], x)
  BY ONLY <1>5, FromNone
<1>7. x # NoEnd /\ ~ Complete(x) /\ x.got = <<>>
  BY ONLY <1>4, Waits
<1>8. AirOK(ends', air')
  BY ONLY <1>1, <1>3, <1>6, e \in E, AirKept
<1>9. QED
  BY ONLY <1>3, <1>4, <1>5, <1>6, <1>7, <1>8, e \in E, TalkInv(E, ends, air), FreshKeeps

\* Shake and OtherKind, where the handshake is refused.
LEMMA EndsTalkKeeps ==
  ASSUME NEW E, TalkInv(E, ends, air), NEW e \in E, ends[e].at = "handshake", EndsTalk(e),
         air' = air \/ air' = air \union {Sent("plain", <<>>)}
  PROVE  TalkInv(E, ends', air')
<1>1. EndsOK(E, ends) /\ AirOK(ends, air) /\ DOMAIN ends = E /\ EndOK(e, ends[e])
  BY DEF TalkInv, EndsOK
<1>2. PICK x : x = [ends[e] EXCEPT !.at = "over"]
  OBVIOUS
<1>3. ends' = [ends EXCEPT ![e] = x]
  BY <1>2 DEF EndsTalk, Is
<1>4. ends[e] # NoEnd
  BY NotNone
<1>5. Moved(e, ends[e], x) /\ x.got = ends[e].got
  BY ONLY <1>1, <1>2, <1>4, OverOK
<1>6. Onward(ends[e], x) /\ x # NoEnd
  BY <1>5 DEF Moved
<1>7. Spoken(x, <<>>)
  <2>1. <<>> \in Seq({}) /\ \A i \in 1..Len(<<>>) : FALSE
    OBVIOUS
  <2>2. QED
    BY ONLY <2>1 DEF Spoken
<1>8. AirOK(ends', air')
  <2>1. CASE air' = air
    BY ONLY <1>1, <1>3, <1>6, <2>1, e \in E, AirKept
  <2>2. CASE air' = air \union {Sent("plain", <<>>)}
    BY ONLY <1>1, <1>3, <1>6, <1>7, <2>2, e \in E, AirSpoken
  <2>3. QED
    BY <2>1, <2>2
<1>9. QED
  BY ONLY <1>3, <1>4, <1>5, <1>8, e \in E, TalkInv(E, ends, air), MovedKeeps

\* Shake: an answer, or the end, whose sealed last part brings the peer.
LEMMA ShakeKeeps ==
  ASSUME NEW E, TalkInv(E, ends, air), NEW e \in E, NEW r \in Arriving, Shake(e, r)
  PROVE  TalkInv(E, ends', air')
<1>1. EndsOK(E, ends) /\ AirOK(ends, air) /\ DOMAIN ends = E /\ EndOK(e, ends[e])
  BY DEF TalkInv, EndsOK
<1>2. PICK hs, got, w, H, parts : /\ hs = ends[e] /\ got = ReadMessage(hs, parts) /\ w = WriteMessage(got)
                                  /\ H = Heard(air) /\ parts = r.parts
  OBVIOUS
<1>3. /\ hs.at = "handshake"
      /\ \/ got = NoEnd /\ EndsTalk(e) /\ air' = air
         \/ got # NoEnd /\ Complete(got) /\ Is(e, got) /\ air' = air
         \/ got # NoEnd /\ ~ Complete(got) /\ EndsTalk(e) /\ air' = air
         \/ got # NoEnd /\ ~ Complete(got) /\ Is(e, w.hs) /\ air' = air \union {Sent(hs.pattern, w.parts)}
  BY <1>2 DEF Shake
<1>4. EndOK(e, hs)
  BY <1>1, <1>2
<1>5. hs # NoEnd /\ ~ Complete(hs) /\ Own(e, hs) /\ Talk(hs) /\ Stage(e, hs)
  BY ONLY <1>3, <1>4, Waits
<1>6. parts \in Seq(H)
  BY ONLY <1>1, <1>2, r \in Arriving, ArrivesHeard
<1>7. CASE EndsTalk(e) /\ air' = air
  <2>1. ends[e].at = "handshake"
    BY <1>2, <1>3
  <2>2. QED
    BY ONLY <1>7, <2>1, e \in E, TalkInv(E, ends, air), EndsTalkKeeps
<1>8. \A c : ~ Told(hs, c)
  BY <1>5 DEF Told
<1>9. CASE got # NoEnd /\ Complete(got) /\ Is(e, got) /\ air' = air
  <2>1. Closes(e, hs, H, got)
    <3>1. (Answers(e, got, w) /\ Silent(hs)) \/ Closes(e, hs, H, got)
      BY ONLY <1>2, <1>3, <1>5, <1>6, <1>9, ShakeIs
    <3>2. QED
      BY <1>9, <3>1 DEF Answers
  <2>2. EndOK(e, got) /\ got.got = <<>> /\ \A c : Shook(hs, c) => Shook(got, c)
    BY <2>1 DEF Closes
  <2>3. Onward(hs, got)
    BY ONLY <1>5, <1>8, <1>9, <2>2 DEF Onward
  <2>4. ends' = [ends EXCEPT ![e] = got] /\ air' = air
    BY <1>9 DEF Is
  <2>5. Onward(ends[e], got) /\ ~ Complete(ends[e])
    BY ONLY <1>2, <1>5, <2>3
  <2>6. AirOK(ends', air')
    BY ONLY <1>1, <2>4, <2>5, e \in E, AirKept
  <2>7. Complete(got) /\ Awaits(e, got) => \E f \in DoneIn(ends) : f # e /\ ends[f].h = got.h
    BY ONLY <1>2, <2>1, e \in E, TalkInv(E, ends, air), PeerAnswers
  <2>8. QED
    BY ONLY <2>2, <2>4, <2>5, <2>6, <2>7, e \in E, TalkInv(E, ends, air), FreshKeeps
<1>10. CASE got # NoEnd /\ ~ Complete(got) /\ Is(e, w.hs) /\ air' = air \union {Sent(hs.pattern, w.parts)}
  <2>1. Answers(e, got, w) /\ Silent(hs)
    <3>1. (Answers(e, got, w) /\ Silent(hs)) \/ Closes(e, hs, H, got)
      BY ONLY <1>2, <1>3, <1>5, <1>6, <1>10, ShakeIs
    <3>2. QED
      BY <1>10, <3>1 DEF Closes
  <2>2. PICK x : x = w.hs
    OBVIOUS
  <2>3. /\ EndOK(e, x) /\ x # NoEnd /\ Spoken(x, w.parts) /\ x.got = <<>>
        /\ Complete(x) => (initiator(e) /\ x.pattern = "XX") \/ (~ initiator(e) /\ x.pattern = "IK")
    BY <2>1, <2>2 DEF Answers
  <2>4. Onward(hs, x)
    BY ONLY <1>5, <1>8, <2>1, <2>3 DEF Onward, Silent
  <2>5. ends' = [ends EXCEPT ![e] = x] /\ air' = air \union {Sent(hs.pattern, w.parts)}
    BY <1>10, <2>2 DEF Is
  <2>6. Onward(ends[e], x) /\ ~ Complete(ends[e])
    BY ONLY <1>2, <1>5, <2>4
  <2>7. AirOK(ends', air')
    BY ONLY <1>1, <2>3, <2>5, <2>6, e \in E, AirSpoken
  <2>8. ~ (Complete(x) /\ Awaits(e, x))
    BY ONLY <2>3 DEF Awaits
  <2>9. QED
    BY ONLY <2>3, <2>5, <2>6, <2>7, <2>8, e \in E, TalkInv(E, ends, air), FreshKeeps
<1>11. QED
  BY ONLY <1>3, <1>7, <1>9, <1>10

\* SendMsg.
LEMMA SendKeeps ==
  ASSUME NEW E, TalkInv(E, ends, air), NEW e \in E, SendMsg(e)
  PROVE  TalkInv(E, ends', air')
<1>1. EndsOK(E, ends) /\ AirOK(ends, air) /\ DOMAIN ends = E /\ EndOK(e, ends[e])
  BY DEF TalkInv, EndsOK
<1>10. PICK p : p = <<"message", e[1], e[2], Len(ends[e].sent)>>
  OBVIOUS
<1>2. PICK x : x = [ends[e] EXCEPT !.sent = Append(@, p)]
  OBVIOUS
<1>3. /\ ends[e].at = "open" /\ ends' = [ends EXCEPT ![e] = x]
      /\ air' = air \union {Sent("transport", <<Seal(ends[e], p)>>)}
  BY <1>2, <1>10 DEF SendMsg, Is
<1>4. Moved(e, ends[e], x) /\ x.got = ends[e].got /\ Told(x, Seal(ends[e], p))
  <2>1. EndOK(e, ends[e]) /\ ends[e].at = "open"
    BY <1>1, <1>3
  <2>2. PICK hs : hs = ends[e]
    OBVIOUS
  <2>3. EndOK(e, hs) /\ hs.at = "open" /\ x = [hs EXCEPT !.sent = Append(@, p)]
    BY ONLY <1>2, <2>1, <2>2
  <2>4. Says(e, hs, p, x)
    BY ONLY <2>3, SendOK
  <2>5. QED
    BY ONLY <2>2, <2>4 DEF Says
<1>5. Onward(ends[e], x) /\ x # NoEnd
  BY <1>4 DEF Moved
<1>6. PICK c : c = Seal(ends[e], p)
  OBVIOUS
<1>7. AirOK(ends', air \union {Sent("transport", <<c>>)})
  BY ONLY <1>1, <1>3, <1>4, <1>5, <1>6, e \in E, AirTold
<1>8. AirOK(ends', air') /\ ends[e] # NoEnd
  BY <1>3, <1>6, <1>7, NotNone
<1>9. QED
  BY ONLY <1>3, <1>4, <1>8, e \in E, TalkInv(E, ends, air), MovedKeeps

\* RecvMsg: what opened was the next of the peer.
LEMMA GotKeeps ==
  ASSUME NEW E, NEW en, NEW ar, TalkInv(E, en, ar), NEW e \in E, en[e] # NoEnd, NEW x, Moved(e, en[e], x),
         NEW f \in DoneIn(en), f # e, en[f].h = en[e].h, Follows(x.got, en[f].sent),
         NEW en2, en2 = [en EXCEPT ![e] = x]
  PROVE  TalkInv(E, en2, ar)
<1>1. EndOK(e, x) /\ Onward(en[e], x) /\ (Complete(x) <=> Complete(en[e])) /\ x.h = en[e].h
  BY DEF Moved
<1>2. EndsOK(E, en) /\ AirOK(en, ar) /\ Answered(en) /\ InOrder(en) /\ DOMAIN en = E
  BY DEF TalkInv, EndsOK
<1>3. EndsOK(E, en2)
  BY ONLY <1>1, <1>2, e \in E, en2 = [en EXCEPT ![e] = x], EndsKept
<1>4. Answered(en2)
  BY ONLY <1>1, <1>2, e \in E, en2 = [en EXCEPT ![e] = x], AnsweredKept
<1>5. AirOK(en2, ar)
  BY ONLY <1>1, <1>2, e \in E, en2 = [en EXCEPT ![e] = x], AirKept
<1>6. InOrderOf(en2, e)
  <2>1. en2[e] = x /\ en2[f] = en[f] /\ f \in DoneIn(en2)
    BY <1>2 DEF DoneIn
  <2>2. QED
    BY <1>1, <2>1 DEF InOrderOf
<1>7. InOrder(en2)
  BY ONLY <1>1, <1>2, <1>6, e \in E, en2 = [en EXCEPT ![e] = x], InOrderKept
<1>8. QED
  BY ONLY <1>3, <1>4, <1>5, <1>7 DEF TalkInv

\* RecvMsg, both ways.
LEMMA RecvKeeps ==
  ASSUME NEW W, NEW N, NEW E, E \subseteq W \X N, TalkInv(E, ends, air), NEW e \in E, NEW r \in Arriving,
         RecvMsg(e, r)
  PROVE  TalkInv(E, ends', air')
<1>1. EndsOK(E, ends) /\ AirOK(ends, air) /\ DOMAIN ends = E /\ EndOK(e, ends[e])
  BY DEF TalkInv, EndsOK
<1>2. PICK hs, c, q : hs = ends[e] /\ c = r.parts[1] /\ q = c[5]
  OBVIOUS
<1>3. hs.at = "open" /\ ends[e].at = "open"
  BY <1>2 DEF RecvMsg
<1>4. hs # NoEnd /\ ends[e] # NoEnd /\ EndOK(e, hs)
  BY <1>1, <1>2, <1>3, NotNone
<1>5. CASE /\ r.parts # <<>> /\ OpensWith(hs, c) /\ air' = air
           /\ Is(e, [hs EXCEPT !.got = Append(@, q), !.at = IF q = <<"error">> THEN "over" ELSE @])
  <2>1. PICK at : at = IF q = <<"error">> THEN "over" ELSE "open"
    OBVIOUS
  <2>2. at \in {"open", "over"}
    BY <2>1
  <2>3. PICK x : x = [hs EXCEPT !.got = Append(@, q), !.at = at]
    OBVIOUS
  <2>4. [hs EXCEPT !.got = Append(@, q), !.at = IF q = <<"error">> THEN "over" ELSE @] = x
    BY <1>3, <2>1, <2>3
  <2>5. ends' = [ends EXCEPT ![e] = x] /\ air' = air
    BY <1>5, <2>4 DEF Is
  <2>6. Moved(e, hs, x) /\ x.got = Append(hs.got, q)
    <3>1. Takes(e, hs, q, x)
      BY ONLY <1>3, <1>4, <2>2, <2>3, RecvOK
    <3>2. QED
      BY ONLY <3>1 DEF Takes
  <2>7. c \in Heard(air)
    <3>1. r.parts \in Seq(Heard(air))
      BY ONLY <1>1, r \in Arriving, ArrivesHeard
    <3>2. QED
      BY <1>2, <1>5, <3>1
  <2>8. PICK f \in DoneIn(ends) : f # e /\ ends[f].h = ends[e].h /\ Follows(Append(ends[e].got, c[5]), ends[f].sent)
    <3>1. OpensWith(ends[e], c)
      BY <1>2, <1>5
    <3>2. SealedNext(ends, e, c)
      BY ONLY <1>3, <2>7, <3>1, e \in E, E \subseteq W \X N, TalkInv(E, ends, air), RecvFollows
    <3>3. QED
      BY ONLY <3>2 DEF SealedNext
  <2>9. Moved(e, ends[e], x) /\ Follows(x.got, ends[f].sent)
    BY ONLY <1>2, <2>6, <2>8
  <2>10. f \in DoneIn(ends) /\ f # e /\ ends[f].h = ends[e].h
    BY ONLY <2>8
  <2>11. TalkInv(E, ends', air)
    BY ONLY <1>4, <2>5, <2>9, <2>10, e \in E, TalkInv(E, ends, air), GotKeeps
  <2>12. QED
    BY ONLY <2>5, <2>11
<1>6. CASE /\ Is(e, [hs EXCEPT !.at = "over", !.sent = IF initiator(e) THEN Append(@, <<"error">>) ELSE @])
           /\ air' = IF initiator(e) THEN air \union {Sent("transport", <<Seal(hs, <<"error">>)>>)} ELSE air
  <2>1. CASE initiator(e)
    <3>1. PICK p : p = <<"error">>
      OBVIOUS
    <3>2. PICK x : x = [hs EXCEPT !.at = "over", !.sent = Append(@, p)]
      OBVIOUS
    <3>3. PICK d : d = Seal(hs, p)
      OBVIOUS
    <3>4. ends' = [ends EXCEPT ![e] = x] /\ air' = air \union {Sent("transport", <<d>>)}
      BY <1>6, <2>1, <3>1, <3>2, <3>3 DEF Is
    <3>5. Says(e, hs, p, x)
      BY ONLY <1>3, <1>4, <3>2, RefuseOK
    <3>6. Moved(e, hs, x) /\ x.got = hs.got /\ Told(x, d)
      BY ONLY <3>3, <3>5 DEF Says
    <3>7. Moved(e, ends[e], x) /\ x.got = ends[e].got
      BY ONLY <1>2, <3>6
    <3>8. Onward(ends[e], x) /\ x # NoEnd
      BY ONLY <3>7 DEF Moved
    <3>9. AirOK(ends', air')
      BY ONLY <1>1, <3>4, <3>6, <3>8, e \in E, AirTold
    <3>10. QED
      BY ONLY <1>4, <3>4, <3>7, <3>9, e \in E, TalkInv(E, ends, air), MovedKeeps
  <2>2. CASE ~ initiator(e)
    <3>1. PICK x : x = [hs EXCEPT !.at = "over"]
      OBVIOUS
    <3>2. Own(e, hs)
      BY <1>4 DEF EndOK
    <3>3. [hs EXCEPT !.at = "over", !.sent = @] = x
      BY <3>1, <3>2 DEF Own, Fields
    <3>4. ends' = [ends EXCEPT ![e] = x] /\ air' = air
      BY <1>6, <2>2, <3>3 DEF Is
    <3>5. Moved(e, hs, x) /\ x.got = hs.got
      BY ONLY <1>4, <3>1, OverOK
    <3>6. Moved(e, ends[e], x) /\ x.got = ends[e].got
      BY ONLY <1>2, <3>5
    <3>7. Onward(ends[e], x) /\ x # NoEnd
      BY ONLY <3>6 DEF Moved
    <3>8. AirOK(ends', air')
      BY ONLY <1>1, <3>4, <3>7, e \in E, AirKept
    <3>9. QED
      BY ONLY <1>4, <3>4, <3>6, <3>8, e \in E, TalkInv(E, ends, air), MovedKeeps
  <2>3. QED
    BY <2>1, <2>2
<1>7. QED
  BY <1>2, <1>5, <1>6 DEF RecvMsg

\* Every step.
LEMMA NextKeeps ==
  ASSUME NEW W, NEW N, NEW E, E \subseteq W \X N, TalkInv(E, ends, air), [ChannelNext]_channelVars
  PROVE  TalkInv(E, ends', air')
<1>1. DOMAIN ends = E
  BY DEF TalkInv, EndsOK
<1>2. CASE UNCHANGED channelVars
  BY <1>2 DEF channelVars
<1>3. ASSUME NEW e \in E, NEW p \in {"XX", "IK"}, StartVerifier(e, p) \/ AcceptHandshake(e, p)
      PROVE  TalkInv(E, ends', air')
  BY <1>3, StartKeeps, AcceptKeeps
<1>4. ASSUME NEW e \in E, SendMsg(e) PROVE TalkInv(E, ends', air')
  BY <1>4, SendKeeps
<1>5. ASSUME NEW e \in E, NEW r \in Arriving, Shake(e, r) PROVE TalkInv(E, ends', air')
  BY <1>5, ShakeKeeps
<1>6. ASSUME NEW e \in E, NEW r \in Arriving, OtherKind(e, r) PROVE TalkInv(E, ends', air')
  <2>1. /\ ends[e].at = "handshake" /\ EndsTalk(e)
        /\ air' = air \/ air' = air \union {Sent("plain", <<>>)}
    BY <1>6 DEF OtherKind
  <2>2. QED
    BY ONLY <2>1, e \in E, TalkInv(E, ends, air), EndsTalkKeeps
<1>7. ASSUME NEW e \in E, NEW r \in Arriving, RecvMsg(e, r) PROVE TalkInv(E, ends', air')
  BY ONLY <1>7, E \subseteq W \X N, TalkInv(E, ends, air), RecvKeeps
<1>8. CASE ChannelNext
  BY <1>1, <1>3, <1>4, <1>5, <1>6, <1>7, <1>8 DEF ChannelNext
<1>9. QED
  BY <1>2, <1>8
-----------------------------------------------------------------------------
(* What TalkInv says.                                                      *)

\* Follows is IsPrefix.
LEMMA FollowsPrefix ==
  ASSUME NEW S, NEW s \in Seq(S), NEW T, NEW t \in Seq(T), Follows(s, t)
  PROVE  IsPrefix(s, t)
<1>1. Len(s) \in Nat /\ Len(t) \in Nat /\ Len(s) <= Len(t) /\ \A i \in 1..Len(s) : s[i] = t[i]
  BY DEF Follows
<1>2. PICK a, b : a = SubSeq(s, 1, Len(s)) /\ b = SubSeq(t, 1, Len(s))
  OBVIOUS
<1>3. PICK U : U = S \union T
  OBVIOUS
<1>4. s \in Seq(U) /\ t \in Seq(U)
  BY ONLY <1>3, s \in Seq(S), t \in Seq(T)
<1>5. a \in Seq(U) /\ b \in Seq(U) /\ Len(a) = Len(s) /\ Len(b) = Len(s)
  BY ONLY <1>1, <1>2, <1>4
<1>6. \A i \in 1..Len(s) : a[i] = s[i] /\ b[i] = t[i]
  BY ONLY <1>1, <1>2, <1>4
<1>7. a = b
  BY ONLY <1>1, <1>5, <1>6, SameSeq
<1>8. QED
  BY ONLY <1>1, <1>2, <1>7 DEF IsPrefix

\* TalkInv is as strong as what is promised.
LEMMA TalkInvSays ==
  ASSUME NEW W, NEW N, NEW E, E \subseteq W \X N, TalkInv(E, ends, air)
  PROVE  TalkIsBetweenTwo
<1>1. EndsOK(E, ends) /\ Answered(ends) /\ InOrder(ends) /\ DOMAIN ends = E
  BY DEF TalkInv, EndsOK
<1>2. Done = DoneIn(ends) /\ \A e : Peers(e) = PeersIn(ends, e)
  BY DEF Done, DoneIn, Peers, PeersIn
<1>3. BindingIsOfTwo
  <2>1. OfTwo(ends)
    BY ONLY <1>1, E \subseteq W \X N, BindingHolds
  <2>2. QED
    BY ONLY <1>2, <2>1 DEF OfTwo, BindingIsOfTwo
<1>4. AnswerIsOfThePeer
  <2>1. SUFFICES ASSUME NEW e \in DoneIn(ends), initiator(e) = (ends[e].pattern = "IK") PROVE PeersIn(ends, e) # {}
    BY <1>2 DEF AnswerIsOfThePeer
  <2>2. Finished(e, ends[e], ends[e].h)
    BY ONLY <1>1, <2>1, DoneFinished
  <2>3. ends[e].pattern = "XX" \/ ends[e].pattern = "IK"
    BY ONLY <2>2 DEF Finished
  <2>4. Awaits(e, ends[e])
    BY ONLY <2>1, <2>3 DEF Awaits, initiator
  <2>5. QED
    BY ONLY <1>1, <2>1, <2>4 DEF Answered, PeersIn
<1>5. OpensInOrder
  <2>1. SUFFICES ASSUME NEW e \in DoneIn(ends), ends[e].got # <<>>
                 PROVE  \E f \in PeersIn(ends, e) : IsPrefix(ends[e].got, ends[f].sent)
    BY <1>2 DEF OpensInOrder
  <2>2. PICK f \in DoneIn(ends) : f # e /\ ends[f].h = ends[e].h /\ Follows(ends[e].got, ends[f].sent)
    BY ONLY <1>1, <2>1 DEF InOrder, InOrderOf
  <2>3. EndOK(e, ends[e]) /\ Complete(ends[e]) /\ EndOK(f, ends[f]) /\ Complete(ends[f])
    BY <1>1, <2>2 DEF EndsOK, DoneIn
  <2>4. Talk(ends[e]) /\ Talk(ends[f])
    BY ONLY <2>3, DoneIs
  <2>5. PICK S : ends[e].got \in Seq(S)
    BY ONLY <2>4 DEF Talk
  <2>6. PICK T : ends[f].sent \in Seq(T)
    BY ONLY <2>4 DEF Talk
  <2>7. Follows(ends[e].got, ends[f].sent)
    BY ONLY <2>2
  <2>8. IsPrefix(ends[e].got, ends[f].sent)
    BY ONLY <2>5, <2>6, <2>7, FollowsPrefix
  <2>9. f \in PeersIn(ends, e)
    BY ONLY <2>2 DEF PeersIn
  <2>10. QED
    BY ONLY <2>8, <2>9
<1>6. QED
  BY ONLY <1>3, <1>4, <1>5 DEF TalkIsBetweenTwo

\* No end has begun.
LEMMA TalkBegins ==
  ASSUME NEW E, ChannelInit(E)
  PROVE  TalkInv(E, ends, air)
<1>1. DOMAIN ends = E /\ air = {} /\ \A e \in E : ends[e] = NoEnd
  BY DEF ChannelInit
<1>2. EndsOK(E, ends)
  BY ONLY <1>1 DEF EndsOK, EndOK
<1>3. AirOK(ends, air)
  BY ONLY <1>1 DEF AirOK
<1>4. ~ Complete(NoEnd)
  BY DEF Complete, NoEnd
<1>5. DoneIn(ends) = {}
  BY ONLY <1>1, <1>4 DEF DoneIn
<1>6. QED
  BY ONLY <1>2, <1>3, <1>5 DEF TalkInv, Answered, InOrder

\* TalkIsBetweenTwo holds of every state of the channel, for any set E of ends
\* of any phones, machines and others: one channel binding (core/attest
\* noise.go, split) is of one phone and one machine that hold each other's keys;
\* an end whose peer is to have answered has one; and what a session opens
\* (transport.go, RecvMsg) is what its peer sealed, in order and each once,
\* whatever the link repeats, reorders, damages or misdelivers.
THEOREM TalkKept ==
  ASSUME NEW CONSTANT W, NEW CONSTANT N, NEW CONSTANT E, E \subseteq W \X N
  PROVE  ChannelSpec(E) => []TalkIsBetweenTwo
<1>1. ChannelInit(E) => TalkInv(E, ends, air)
  BY TalkBegins
<1>2. TalkInv(E, ends, air) /\ [ChannelNext]_channelVars => TalkInv(E, ends, air)'
  BY NextKeeps
<1>3. TalkInv(E, ends, air) => TalkIsBetweenTwo
  BY TalkInvSays
<1>4. QED
  BY <1>1, <1>2, <1>3, PTL DEF ChannelSpec
-----------------------------------------------------------------------------
(* BootCode: the boot key and the one-time keyboard.                       *)

\* A challenge opens, its proof and the signature are taken, in the session and
\* with the boot key they were made for and nowhere else (bootkey.go,
\* NewBootChallenge, OpenBootChallenge, Check, VerifyBootSignature), whatever the
\* keys and sessions.
THEOREM TheCodeIsOfTheSession ==
  ASSUME NEW pinned, NEW key, NEW qd, NEW mine
  PROVE  CodeIsOf(pinned, key, qd, mine)
<1> DEFINE c == NewBootChallenge(pinned, qd)
           b == NewBootChallenge(pinned, mine)
           eph(x) == <<"ephemeral", x>>
           k(x) == <<{eph(x), pinned}, x, eph(x), pinned>>
           d(x, q) == <<{eph(x), key}, q, eph(x), key>>
<1>1. /\ c.eph = eph(qd) /\ c.sealed.k = k(qd) /\ c.sealed.ad = qd /\ c.sealed.code = <<"code", qd>>
      /\ c.secret.code = <<"code", qd>> /\ c.secret.kMac = k(qd) /\ c.secret.qd = qd
  BY DEF NewBootChallenge, bootKeys
<1>2. b.eph = eph(mine) /\ b.sealed.k = k(mine) /\ b.sealed.ad = mine
  BY DEF NewBootChallenge, bootKeys
<1>3. Derived(c, key, mine) = d(qd, mine) /\ Derived(b, key, mine) = d(mine, mine)
  BY <1>1, <1>2 DEF Derived, bootKeys
<1>4. ChallengeOpens(c, key, mine) <=> pinned = key /\ qd = mine
  BY <1>1, <1>3 DEF ChallengeOpens
<1>5. ChallengeOpens(b, key, mine) <=> pinned = key
  BY <1>2, <1>3 DEF ChallengeOpens
<1>6. ASSUME pinned = key, qd = mine
      PROVE  /\ BootChallengeOpened(c, key, mine).code = c.secret.code
             /\ ProofChecks(c.secret, BootChallengeOpened(c, key, mine).proof)
  BY <1>1, <1>3, <1>6 DEF BootChallengeOpened, ProofChecks
<1>7. ASSUME pinned = key
      PROVE  ProofChecks(c.secret, BootChallengeOpened(b, key, mine).proof) <=> qd = mine
  <2>1. BootChallengeOpened(b, key, mine).proof = bootProof(k(mine), mine)
    BY <1>3, <1>7 DEF BootChallengeOpened
  <2>2. bootProof(k(mine), mine) = bootProof(k(qd), qd) <=> qd = mine
    BY DEF bootProof
  <2>3. QED
    BY <1>1, <2>1, <2>2 DEF ProofChecks
<1>8. ASSUME NEW sig, sig = [by |-> key, over |-> BootSignatureMessage(mine, <<"quote", mine>>)]
      PROVE  VerifyBootSignature(pinned, qd, <<"quote", qd>>, sig) <=> pinned = key /\ qd = mine
  <2>1. sig.by = key /\ sig.over = <<"boot signature", mine, <<"quote", mine>>>>
    BY <1>8 DEF BootSignatureMessage
  <2>2. ASSUME VerifyBootSignature(pinned, qd, <<"quote", qd>>, sig)
        PROVE  pinned = key /\ qd = mine
    <3> DEFINE m == <<"boot signature", qd, <<"quote", qd>>>>
    <3>1. sig = [by |-> pinned, over |-> m]
      BY ONLY <2>2 DEF VerifyBootSignature, BootSignatureMessage
    <3>2. sig.by = pinned /\ sig.over = m
      BY ONLY <3>1
    <3>3. pinned = key /\ m = <<"boot signature", mine, <<"quote", mine>>>>
      BY ONLY <2>1, <3>2
    <3>4. QED
      BY ONLY <3>3
  <2>3. pinned = key /\ qd = mine => VerifyBootSignature(pinned, qd, <<"quote", qd>>, sig)
    BY <1>8 DEF VerifyBootSignature
  <2>4. QED
    BY ONLY <2>2, <2>3
<1> HIDE DEF c, b, k, d
<1>9. QED
  BY <1>4, <1>5, <1>6, <1>7, <1>8 DEF CodeIsOf, c, b

\* A boot key that the phone takes is what the template makes under the slot's
\* approvals, certified by this machine for this session; and what the machine
\* offers is taken (bootkey.go, CheckBootKey), whatever the public area claims.
THEOREM TheOfferIsOfTheSlot ==
  ASSUME NEW ak, NEW Curves, NEW Policies, NEW pub \in [attributes : Attributes, curve : Curves, policy : Policies],
         NEW c, NEW s, NEW r, NEW qd
  PROVE  OfferIsOf(ak, pub, c, s, r, qd)
<1> DEFINE o == Offer(pub, c, s, r)
           own == \E b \in {"sha256", "sha1"} : pub = BootKeyTemplate(SlotPolicyOf(s, r, b))
<1>1. o.pub = pub /\ o.certificate = c /\ o.signing = s /\ o.ref = r
  BY DEF Offer
<1> HIDE DEF o
<1>2. ASSUME CheckBootKey(ak, o, qd)
      PROVE  own /\ c.by = ak /\ c.name = pub /\ c.qd = qd
  <2>1. c.by = ak /\ c.name = pub /\ c.qd = qd
    BY <1>1, <1>2 DEF CheckBootKey
  <2>2. PICK b \in {"sha256", "sha1"} : pub.policy = SlotPolicyOf(s, r, b)
    BY <1>1, <1>2 DEF CheckBootKey, IsSlotPolicy
  <2>3. /\ pub.curve = "P-256" /\ pub.attributes.fixedTPM /\ pub.attributes.origin /\ pub.attributes.decrypt
        /\ pub.attributes.sign /\ ~ pub.attributes.restricted /\ ~ pub.attributes.userWithAuth
    BY <1>1, <1>2 DEF CheckBootKey
  <2>4. pub.attributes = [fixedTPM |-> TRUE, origin |-> TRUE, decrypt |-> TRUE, sign |-> TRUE,
                          restricted |-> FALSE, userWithAuth |-> FALSE]
    <3>1. pub.attributes \in Attributes
      OBVIOUS
    <3>2. QED
      BY <2>3, <3>1 DEF Attributes
  <2>5. pub = [attributes |-> pub.attributes, curve |-> pub.curve, policy |-> pub.policy]
    OBVIOUS
  <2>6. pub = BootKeyTemplate(SlotPolicyOf(s, r, b))
    BY <2>2, <2>3, <2>4, <2>5 DEF BootKeyTemplate
  <2>7. QED
    BY <2>1, <2>6
<1>3. ASSUME own, r # Absent, c = Certified(ak, pub, qd)
      PROVE  CheckBootKey(ak, o, qd)
  <2>1. PICK b \in {"sha256", "sha1"} : pub = BootKeyTemplate(SlotPolicyOf(s, r, b))
    BY <1>3
  <2>2. pub.policy = SlotPolicyOf(s, r, b) /\ pub.curve = "P-256"
    BY <2>1 DEF BootKeyTemplate
  <2>3. /\ pub.attributes.fixedTPM /\ pub.attributes.origin /\ pub.attributes.decrypt
        /\ pub.attributes.sign /\ ~ pub.attributes.restricted /\ ~ pub.attributes.userWithAuth
    BY <2>1 DEF BootKeyTemplate
  <2>4. c.by = ak /\ c.name = pub /\ c.qd = qd /\ c.type = "certify"
    BY <1>3 DEF Certified
  <2>5. IsSlotPolicy(pub.policy, s, r)
    BY <2>2 DEF IsSlotPolicy
  <2>6. QED
    BY <1>1, <1>3, <2>2, <2>3, <2>4, <2>5 DEF CheckBootKey
<1>4. QED
  BY <1>2, <1>3 DEF OfferIsOf, o

\* A layout: every character is shown by one key.
Layouts == Bijection(0..Letters-1, 0..Letters-1)

LEMMA LayoutShows ==
  ASSUME NEW layout \in Layouts
  PROVE  /\ DOMAIN layout = 0..Letters-1 /\ \A k \in 0..Letters-1 : layout[k] \in 0..Letters-1
         /\ \A x \in 0..Letters-1 : \E k \in 0..Letters-1 : layout[k] = x
         /\ \A k, l \in 0..Letters-1 : layout[k] = layout[l] => k = l
  BY DEF Layouts, Bijection, Injection, Surjection, IsInjective

LEMMA ShownIs ==
  ASSUME NEW layout \in Layouts, NEW x \in 0..Letters-1,
         NEW k, k = CHOOSE i \in DOMAIN layout : layout[i] = x
  PROVE  k \in 0..Letters-1 /\ layout[k] = x
  BY LayoutShows

\* A swap of Fisher-Yates leaves a layout a layout (KeyboardLayoutOf).
LEMMA SwapKeepsLayout ==
  ASSUME NEW layout \in Layouts, NEW i \in 0..Letters-1, NEW j \in 0..Letters-1
  PROVE  Swapped(layout, i, j) \in Layouts
<1> DEFINE S == 0..Letters-1
           g == Swapped(layout, i, j)
<1>1. DOMAIN g = S /\ \A k \in S : g[k] = IF k = j THEN layout[i] ELSE IF k = i THEN layout[j] ELSE layout[k]
  <2>1. g = [layout EXCEPT ![i] = layout[j], ![j] = layout[i]]
    BY DEF Swapped
  <2>2. DOMAIN layout = S
    BY LayoutShows
  <2>3. QED
    BY <2>1, <2>2
<1>2. g \in [S -> S]
  <2>1. g = [k \in S |-> g[k]]
    BY DEF Swapped, Layouts, Bijection, Injection
  <2>2. \A k \in S : g[k] \in S
    BY <1>1, LayoutShows
  <2>3. QED
    BY <2>1, <2>2
<1> HIDE DEF S, g
<1>i. i \in S /\ j \in S /\ layout \in [S -> S]
  BY DEF S, Layouts, Bijection, Injection
<1>3. \A k, l \in S : layout[k] = layout[l] => k = l
  BY LayoutShows DEF S
<1>4. \A k, l \in S : g[k] = g[l] => k = l
  BY <1>1, <1>3, <1>i
<1>5. ASSUME NEW x \in S
      PROVE  \E k \in S : g[k] = x
  <2>1. PICK k \in S : layout[k] = x
    BY LayoutShows DEF S
  <2>2. CASE k = i
    BY <1>1, <1>i, <2>1, <2>2
  <2>3. CASE k = j
    BY <1>1, <1>i, <2>1, <2>3
  <2>4. CASE k # i /\ k # j
    BY <1>1, <2>1, <2>4
  <2>5. QED
    BY <2>2, <2>3, <2>4
<1>6. g \in Injection(S, S)
  BY <1>2, <1>4 DEF Injection, IsInjective
<1>7. g \in Surjection(S, S)
  BY <1>2, <1>5 DEF Surjection
<1>8. QED
  BY <1>6, <1>7 DEF Bijection, Layouts, S, g

\* What is taken for a pepper is one that could have been set.
LEMMA TakenCouldBeSet ==
  ASSUME NEW layout \in Layouts, NEW t \in Seq(Int \X BOOLEAN), PepperTaken(t)
  PROVE  CheckKeyboardPepper(PepperOf(layout, t))
<1> DEFINE q == PepperOf(layout, t)
<1>1. DOMAIN q = DOMAIN t /\ \A i \in DOMAIN t : q[i] = <<layout[keyIndex(t[i])], FALSE>>
  BY DEF PepperOf
<1>2. Len(t) \in Nat /\ DOMAIN t = 1..Len(t)
  OBVIOUS
<1> HIDE DEF q
<1>3. Len(q) = Len(t)
  BY <1>1, <1>2
<1>4. Fits(q)
  BY <1>3 DEF PepperTaken, Fits
<1>5. ASSUME NEW i \in DOMAIN q
      PROVE  IsKey(q[i]) /\ ~ q[i][2]
  <2>1. keyIndex(t[i]) \in 0..Letters-1
    BY <1>1 DEF PepperTaken, IsKey, keyIndex
  <2>2. layout[keyIndex(t[i])] \in 0..Letters-1
    BY <2>1, LayoutShows
  <2>3. q[i][1] \in 0..Letters-1 /\ ~ q[i][2]
    <3>1. PICK x : x = layout[keyIndex(t[i])]
      OBVIOUS
    <3>2. q[i] = <<x, FALSE>>
      BY ONLY <1>1, <1>5, <3>1
    <3>3. q[i][1] = x /\ q[i][2] = FALSE
      BY ONLY <3>2
    <3>4. QED
      BY ONLY <2>2, <3>1, <3>3
  <2>4. QED
    BY <2>3 DEF IsKey
<1>6. QED
  BY <1>4, <1>5 DEF CheckKeyboardPepper, q

\* The keys the layout shows for a pepper (Keys), typed with or without Shift,
\* are taken and are that pepper (keyboard.go, Pepper), for any layout, any number
\* of keys and any lengths a pepper may have; and whatever is taken is a pepper that
\* could have been set.
THEOREM TheKeysSayThePepper ==
  ASSUME NEW layout \in Layouts, NEW p \in Seq(Int \X BOOLEAN), NEW caps \in BOOLEAN
  PROVE  KeysSay(layout, p, caps) /\ (PepperTaken(p) => CheckKeyboardPepper(PepperOf(layout, p)))
<1> SUFFICES ASSUME CheckKeyboardPepper(p)
             PROVE  LET typed == Shifted(Keys(layout, p), caps)
                    IN PepperTaken(typed) /\ PepperOf(layout, typed) = p
  BY TakenCouldBeSet DEF KeysSay
<1> DEFINE shown == Keys(layout, p)
           typed == Shifted(shown, caps)
           key(i) == CHOOSE k \in DOMAIN layout : layout[k] = p[i][1]
<1>1. /\ Len(p) \in Nat /\ DOMAIN p = 1..Len(p)
      /\ \A i \in DOMAIN p : p[i] = <<p[i][1], FALSE>> /\ p[i][1] \in 0..Letters-1
  <2>1. Len(p) \in Nat /\ DOMAIN p = 1..Len(p)
    OBVIOUS
  <2>2. ASSUME NEW i \in DOMAIN p
        PROVE  p[i] = <<p[i][1], FALSE>> /\ p[i][1] \in 0..Letters-1
    <3>1. p[i] \in Int \X BOOLEAN
      OBVIOUS
    <3>2. p[i][1] \in 0..Letters-1 /\ ~ p[i][2]
      BY DEF CheckKeyboardPepper, IsKey
    <3>3. PICK x \in Int, y \in BOOLEAN : p[i] = <<x, y>>
      BY ONLY <3>1
    <3>4. p[i][1] = x /\ p[i][2] = y
      BY ONLY <3>3
    <3>5. y = FALSE
      BY ONLY <3>2, <3>4, y \in BOOLEAN
    <3>6. QED
      BY ONLY <3>2, <3>3, <3>4, <3>5
  <2>3. QED
    BY <2>1, <2>2
<1>2. \A i \in DOMAIN p : key(i) \in 0..Letters-1 /\ layout[key(i)] = p[i][1]
  <2>1. TAKE i \in DOMAIN p
  <2>2. p[i][1] \in 0..Letters-1
    BY <1>1
  <2>3. PICK x : x = p[i][1]
    OBVIOUS
  <2>4. PICK k : k = CHOOSE l \in DOMAIN layout : layout[l] = x
    OBVIOUS
  <2>5. k \in 0..Letters-1 /\ layout[k] = x
    BY <2>2, <2>3, <2>4, ShownIs
  <2>6. QED
    BY <2>3, <2>4, <2>5
<1>3. shown = [i \in DOMAIN p |-> <<key(i), FALSE>>]
  BY DEF Keys
<1> HIDE DEF key, shown
<1>4. DOMAIN typed = DOMAIN p /\ \A i \in DOMAIN p : typed[i] = <<key(i), caps>>
  BY <1>3 DEF Shifted
<1>5. Len(typed) = Len(p)
  BY <1>1, <1>4
<1>6. PepperTaken(typed)
  <2>1. Fits(typed)
    BY <1>5 DEF CheckKeyboardPepper, Fits
  <2>2. \A i \in DOMAIN typed : IsKey(typed[i])
    BY <1>2, <1>4 DEF IsKey
  <2>3. QED
    BY <2>1, <2>2 DEF PepperTaken
<1>7. PepperOf(layout, typed) = [i \in DOMAIN p |-> <<layout[key(i)], FALSE>>]
  BY <1>4 DEF PepperOf, keyIndex
<1>8. [i \in DOMAIN p |-> <<layout[key(i)], FALSE>>] = p
  <2>1. \A i \in DOMAIN p : <<layout[key(i)], FALSE>> = p[i]
    BY <1>1, <1>2
  <2>2. p = [i \in DOMAIN p |-> p[i]]
    BY <1>1
  <2>3. QED
    BY <2>1, <2>2
<1>9. QED
  BY <1>6, <1>7, <1>8 DEF shown
================================================================================
