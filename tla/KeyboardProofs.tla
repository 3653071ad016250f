---------------------------- MODULE KeyboardProofs ----------------------------
(***************************************************************************)
(* Proofs about Keyboard for a ring of any size, a line of any length and  *)
(* any number of keys typed and bytes on their way.                        *)
(*                                                                         *)
(* None of the properties is inductive.  That the handler holds at most    *)
(* two bytes of a code back needs what the wire carries: behind "e0" or    *)
(* "f0" there is always the rest of a code (Framed).  That no code is read *)
(* twice needs the numbers of the codes that wait in the ring: they differ *)
(* from each other and, but for the slot that kernel_getkey is about to    *)
(* reset, from those of the codes read (Numbered, TakenOnce).  And that    *)
(* codes are read in order needs where they wait: from rptr to wptr, round *)
(* the end of the ring, each with the number that follows (Queued).        *)
(*                                                                         *)
(* ps2_handler is an induction over the bytes it finds, so that the parts  *)
(* of the invariant take the fields that the handler changes as arguments. *)
(***************************************************************************)
EXTENDS Keyboard, KListProofs

-------------------------------------------------------------------------------
(* The invariant.                                                          *)

CodeBytes == {Code(k) : k \in Keys}
Sendable  == {"e0", "f0", "ack"} \cup CodeBytes

\* What may come right behind one of the two prefixes of a code.
Follows(b, c) == c \in CodeBytes \/ (b = "e0" /\ c = "f0")

\* The wire, and what the handler holds back, cut codes nowhere else than
\* between two bytes of the same code.
Framed(buf, w) ==
  /\ buf \in {<<>>, <<"e0">>, <<"f0">>, <<"e0", "f0">>}
  /\ w \in Seq(Sendable)
  /\ buf # <<>> => Len(w) > 0 /\ Follows(buf[Len(buf)], w[1])
  /\ \A i \in 1 .. Len(w) :
       w[i] \in {"e0", "f0"} => i + 1 <= Len(w) /\ Follows(w[i], w[i + 1])

\* The codes that wait have numbers of their own.
Numbered(rg, rd, ar) ==
  /\ \A i \in DOMAIN taken : taken[i] \in 1 .. ar
  /\ \A s \in Slots : rd[s] =>
       /\ rg[s].at \in 1 .. ar
       /\ \A i \in DOMAIN taken : rg[s].at = taken[i] => s = rptr /\ pc = "reset"
  /\ \A s, t \in Slots : rd[s] /\ rd[t] /\ rg[s].at = rg[t].at => s = t

TakenOnce == \A i, j \in DOMAIN taken : taken[i] = taken[j] => i = j

\* The codes that the reader is done with, and how far a slot is ahead of it.
Done     == IF pc = "reset" THEN Len(taken) - 1 ELSE Len(taken)
Ahead(s) == IF s >= rptr THEN s - rptr ELSE s - rptr + N

\* The other codes wait in the slots from rptr on, in the order they came.
Queued(rg, rd, wp, ar) ==
  /\ taken = [i \in 1 .. Len(taken) |-> i]
  /\ Len(taken) <= ar /\ ar - Done <= N
  /\ pc = "clear" => ar = Len(taken)
  /\ pc # "clear" => wp = IF rptr + (ar - Done) < N THEN rptr + (ar - Done)
                          ELSE rptr + (ar - Done) - N
  /\ \A s \in Slots : rd[s] <=> Ahead(s) < ar - Done
  /\ \A s \in Slots : rd[s] => rg[s].at = Done + 1 + Ahead(s)

\* What is not said of the types in TypeOK.
Histories ==
  /\ arrived \in Nat /\ taken \in Seq(Nat) /\ kept \in BOOLEAN
  /\ (pc = "reset" => Len(taken) > 0)

KeyboardInv ==
  /\ TypeOK
  /\ Histories
  /\ Framed(keybuf, wire)
  /\ Numbered(ring, ready, arrived)
  /\ TakenOnce
  /\ kept => Queued(ring, ready, wptr, arrived)
  /\ LedShowsCaps

-------------------------------------------------------------------------------
(* One pass of the handler's loop.                                         *)

\* The names of the keys and of the bytes: no code byte is a prefix or an ACK.
LEMMA Names ==
  /\ N \in Nat \ {0} /\ Slots = 0 .. N - 1 /\ 0 \in Slots
  /\ Sendable \ {"e0", "f0", "ack"} \subseteq CodeBytes
  /\ \A b \in CodeBytes : b \notin {"e0", "f0", "ack", "zero"}
  /\ NoCode \in Codes /\ NoCode.key = "zero"
  /\ \A b \in CodeBytes \cup {"zero"}, n \in Nat : [key |-> b, at |-> n] \in Codes
<1>1. N \in Nat \ {0} /\ Slots = 0 .. N - 1 /\ 0 \in Slots
  BY KeyboardAssumption DEF Slots
<1>2. ASSUME NEW k \in Keys PROVE Code(k) \notin {"e0", "f0", "ack", "zero"}
  BY KeyboardAssumption DEF Code, Printing, Modifiers
<1> QED
  BY <1>1, <1>2 DEF Sendable, CodeBytes, NoCode, Codes

\* The slot behind the last one is the first.
LEMMA NextSlot ==
  ASSUME NEW w \in Slots
  PROVE  (w + 1) % N = (IF w + 1 = N THEN 0 ELSE w + 1) /\ (w + 1) % N \in Slots
<1>1. N \in Nat \ {0} /\ w \in 0 .. N - 1
  BY Names
<1>2. CASE w + 1 = N
  BY <1>1, <1>2, Names
<1>3. CASE w + 1 < N
  BY <1>1, <1>3, Names
<1> QED
  BY <1>1, <1>2, <1>3

\* What one run of the handler changes, and what its passes preserve.
HandlerState ==
  [ring : [Slots -> Codes], ready : [Slots -> BOOLEAN], wptr : Slots,
   keybuf : {<<>>, <<"e0">>, <<"f0">>, <<"e0", "f0">>},
   kstate : SUBSET {"CAPS", "SHIFT", "CTRL", "ALT"}, cmd : {0, 1}, led : BOOLEAN,
   arrived : Nat, kept : BOOLEAN, answers : Seq({"ack"})]

Lit(h)    == h.cmd = 0 => h.led = ("CAPS" \in h.kstate)
Kept(h)   == h.kept => Queued(h.ring, h.ready, h.wptr, h.arrived)
Handling(h) ==
  /\ h \in HandlerState
  /\ Numbered(h.ring, h.ready, h.arrived)
  /\ Kept(h)
  /\ Lit(h)

ReaderOK == rptr \in Slots /\ taken \in Seq(Nat) /\ (pc = "reset" => Len(taken) > 0)

\* A code that enters the ring has a number that no other has; and it follows
\* those that wait unless it lands on one of them.
LEMMA StoreStep ==
  ASSUME ReaderOK, NEW h, Handling(h), NEW key \in CodeBytes \cup {"zero"}
  PROVE  /\ Handling(Store(h, key))
         /\ Store(h, key).keybuf = h.keybuf
<1> DEFINE n == h.arrived + 1
           c == [key |-> key, at |-> n]
           w == (h.wptr + 1) % N
           rg == [h.ring EXCEPT ![h.wptr] = c]
           rd == [h.ready EXCEPT ![h.wptr] = TRUE]
           kp == h.kept /\ ~h.ready[h.wptr] /\ pc # "clear"
           g == Store(h, key)
<1>1. h \in HandlerState /\ Numbered(h.ring, h.ready, h.arrived) /\ Kept(h) /\ Lit(h)
  BY DEF Handling
<1>2. /\ h.ring \in [Slots -> Codes] /\ h.ready \in [Slots -> BOOLEAN] /\ h.wptr \in Slots
      /\ h.arrived \in Nat /\ h.kept \in BOOLEAN
  BY <1>1 DEF HandlerState
<1>3. c \in Codes /\ c.at = n /\ n \in Nat /\ w \in Slots
      /\ w = (IF h.wptr + 1 = N THEN 0 ELSE h.wptr + 1)
  BY <1>2, Names, NextSlot
<1>4. /\ rg \in [Slots -> Codes] /\ rd \in [Slots -> BOOLEAN] /\ kp \in BOOLEAN
      /\ \A s \in Slots : rg[s] = IF s = h.wptr THEN c ELSE h.ring[s]
      /\ \A s \in Slots : rd[s] = IF s = h.wptr THEN TRUE ELSE h.ready[s]
  BY <1>2, <1>3
<1>5. /\ g = [h EXCEPT !.ring = rg, !.ready = rd, !.wptr = w, !.arrived = n, !.kept = kp]
  BY DEF Store
<1> HIDE DEF n, w, rg, rd, kp, g, c
<1>6. /\ g \in HandlerState
      /\ g.ring = rg /\ g.ready = rd /\ g.wptr = w /\ g.arrived = n /\ g.kept = kp
      /\ g.keybuf = h.keybuf /\ g.cmd = h.cmd /\ g.led = h.led /\ g.kstate = h.kstate
  BY <1>1, <1>3, <1>4, <1>5 DEF HandlerState
<1>7. Numbered(rg, rd, n)
  <2>1. \A i \in DOMAIN taken : taken[i] \in 1 .. h.arrived
    BY <1>1 DEF Numbered
  <2>2. \A s \in Slots : h.ready[s] => h.ring[s].at \in 1 .. h.arrived
    BY <1>1 DEF Numbered
  <2>3. n = h.arrived + 1
    BY DEF n
  <2>4. \A i \in DOMAIN taken : taken[i] \in 1 .. n /\ taken[i] # n
    BY <1>2, <2>1, <2>3
  <2>5. ASSUME NEW s \in Slots, rd[s]
        PROVE  /\ rg[s].at \in 1 .. n
               /\ \A i \in DOMAIN taken : rg[s].at = taken[i] => s = rptr /\ pc = "reset"
    <3>1. CASE s = h.wptr
      BY <1>2, <1>3, <1>4, <2>3, <2>4, <3>1
    <3>2. CASE s # h.wptr
      <4>1. rg[s] = h.ring[s] /\ h.ready[s]
        BY <1>4, <2>5, <3>2
      <4> QED
        BY <1>1, <1>2, <4>1, <2>2, <2>3 DEF Numbered
    <3> QED
      BY <3>1, <3>2
  <2>6. ASSUME NEW s \in Slots, NEW t \in Slots, rd[s], rd[t], rg[s].at = rg[t].at
        PROVE  s = t
    <3>1. CASE s # h.wptr /\ t # h.wptr
      BY <1>1, <1>4, <2>6, <3>1 DEF Numbered
    <3>2. ASSUME NEW u \in Slots, u # h.wptr, rd[u] PROVE rg[u].at # n
      <4>1. rg[u] = h.ring[u] /\ h.ready[u]
        BY <1>4, <3>2
      <4>2. rg[u].at \in 1 .. h.arrived
        BY <2>2, <4>1
      <4> QED
        BY <1>2, <2>3, <4>2
    <3>3. rg[h.wptr].at = n
      BY <1>2, <1>3, <1>4
    <3> QED
      BY <2>6, <3>1, <3>2, <3>3
  <2> QED
    BY <2>4, <2>5, <2>6 DEF Numbered
<1>8. ASSUME kp PROVE Queued(rg, rd, w, n)
  <2>1. Queued(h.ring, h.ready, h.wptr, h.arrived) /\ ~h.ready[h.wptr] /\ pc # "clear"
    BY <1>1, <1>8 DEF kp, Kept
  <2> DEFINE m == h.arrived - Done
  <2>2. /\ taken = [i \in 1 .. Len(taken) |-> i]
        /\ Len(taken) <= h.arrived /\ m <= N
        /\ h.wptr = (IF rptr + m < N THEN rptr + m ELSE rptr + m - N)
        /\ \A s \in Slots : h.ready[s] <=> Ahead(s) < m
        /\ \A s \in Slots : h.ready[s] => h.ring[s].at = Done + 1 + Ahead(s)
    BY <2>1 DEF Queued
  <2>3. Len(taken) \in Nat /\ Done \in Nat /\ Done <= Len(taken) /\ m \in Nat
        /\ rptr \in Slots /\ N \in Nat \ {0} /\ Slots = 0 .. N - 1
    <3>1. Len(taken) \in Nat /\ (pc = "reset" => Len(taken) > 0)
      BY DEF ReaderOK
    <3>2. Done \in Nat /\ Done <= Len(taken)
      BY <3>1 DEF Done
    <3> QED
      BY <1>2, <2>2, <3>1, <3>2, Names DEF ReaderOK
  <2>4. n - Done = m + 1 /\ n = h.arrived + 1
    BY <1>2, <2>3 DEF n
  <2> HIDE DEF m
  <2>5. \A s \in Slots : Ahead(s) = (IF s >= rptr THEN s - rptr ELSE s - rptr + N)
    BY DEF Ahead
  <2>6. Ahead(h.wptr) = m /\ m < N
    BY <1>2, <2>1, <2>2, <2>3, <2>5
  <2>7. \A s \in Slots : Ahead(s) = m => s = h.wptr
    BY <1>2, <2>3, <2>5, <2>6
  <2>8. w = (IF rptr + (m + 1) < N THEN rptr + (m + 1) ELSE rptr + (m + 1) - N)
    BY <1>2, <1>3, <2>2, <2>3, <2>6
  <2>9. \A s \in Slots : Ahead(s) \in Int
    BY <2>3, <2>5
  <2>10. ASSUME NEW s \in Slots PROVE rd[s] <=> Ahead(s) < m + 1
    <3>1. CASE s = h.wptr
      <4>1. rd[s] /\ Ahead(s) = m
        BY <1>4, <2>6, <3>1
      <4> QED
        BY <2>3, <4>1
    <3>2. CASE s # h.wptr
      <4>1. rd[s] <=> h.ready[s]
        BY <1>4, <3>2
      <4>2. h.ready[s] <=> Ahead(s) < m
        BY <2>2
      <4>3. Ahead(s) # m /\ Ahead(s) \in Int
        BY <2>7, <2>9, <3>2
      <4> QED
        BY <2>3, <4>1, <4>2, <4>3
    <3> QED
      BY <3>1, <3>2
  <2>11. h.arrived = Done + m
    BY <1>2, <2>3 DEF m
  <2>12. ASSUME NEW s \in Slots, rd[s] PROVE rg[s].at = Done + 1 + Ahead(s)
    <3>1. CASE s = h.wptr
      <4>1. rg[s].at = n /\ Ahead(s) = m
        BY <1>3, <1>4, <2>6, <3>1
      <4> QED
        BY <2>3, <2>4, <2>11, <4>1
    <3>2. CASE s # h.wptr
      BY <1>4, <2>2, <2>12, <3>2
    <3> QED
      BY <3>1, <3>2
  <2>13. Len(taken) <= n /\ m + 1 <= N
    BY <1>2, <2>2, <2>3, <2>4, <2>6
  <2> QED
    BY <2>1, <2>2, <2>4, <2>8, <2>10, <2>12, <2>13 DEF Queued
<1> QED
  BY <1>1, <1>6, <1>7, <1>8 DEF Handling, Kept, Lit, g

\* The switch: a modifier's mask is set or cleared.  Caps lock makes an ACK due,
\* so that the LED may be late from then on.
LEMMA SwitchStep ==
  ASSUME NEW h, Handling(h), NEW code
  PROVE  /\ Handling([Switch(h, code) EXCEPT !.keybuf = <<>>])
         /\ [Switch(h, code) EXCEPT !.keybuf = <<>>].keybuf = <<>>
<1> DEFINE g == Switch(h, code)
           e == [g EXCEPT !.keybuf = <<>>]
           Modes == {"CAPS", "SHIFT", "CTRL", "ALT"}
<1>1. h \in HandlerState /\ Numbered(h.ring, h.ready, h.arrived) /\ Kept(h) /\ Lit(h)
  BY DEF Handling
<1>2. /\ h.kstate \in SUBSET Modes /\ h.answers \in Seq({"ack"}) /\ h.cmd \in {0, 1}
  BY <1>1 DEF HandlerState
<1>3. g \in HandlerState /\ Lit(g)
      /\ g.ring = h.ring /\ g.ready = h.ready /\ g.wptr = h.wptr
      /\ g.arrived = h.arrived /\ g.kept = h.kept
  <2>1. CASE code = <<"caps">>
    <3> DEFINE k == IF "CAPS" \in h.kstate THEN h.kstate \ {"CAPS"} ELSE h.kstate \cup {"CAPS"}
               a == Append(h.answers, "ack")
    <3>1. k \in SUBSET Modes /\ a \in Seq({"ack"})
      BY <1>2
    <3>2. g = [h EXCEPT !.kstate = k, !.cmd = 1, !.answers = a]
      BY <2>1 DEF Switch
    <3> HIDE DEF k, a, g
    <3>3. g \in HandlerState
      BY <1>1, <3>1, <3>2 DEF HandlerState
    <3>4. /\ g.cmd = 1 /\ g.ring = h.ring /\ g.ready = h.ready /\ g.wptr = h.wptr
          /\ g.arrived = h.arrived /\ g.kept = h.kept
      BY <1>1, <3>2 DEF HandlerState
    <3> QED
      BY <3>3, <3>4 DEF Lit
  <2>2. CASE code # <<"caps">>
    <3> DEFINE k == IF IsUp(code) THEN h.kstate \ Mask(code) ELSE h.kstate \cup Mask(code)
    <3>1. Mask(code) \in SUBSET Modes /\ "CAPS" \notin Mask(code)
      BY DEF Mask
    <3>2. k \in SUBSET Modes /\ ("CAPS" \in k <=> "CAPS" \in h.kstate)
      BY <1>2, <3>1
    <3>3. g = [h EXCEPT !.kstate = k]
      BY <2>2 DEF Switch
    <3> HIDE DEF k, g
    <3> QED
      BY <1>1, <3>2, <3>3 DEF HandlerState, Lit
  <2> QED
    BY <2>1, <2>2
<1> HIDE DEF g
<1>4. e \in HandlerState /\ e.keybuf = <<>> /\ Lit(e)
      /\ e.ring = h.ring /\ e.ready = h.ready /\ e.wptr = h.wptr
      /\ e.arrived = h.arrived /\ e.kept = h.kept
  BY <1>3 DEF HandlerState, Lit
<1> HIDE DEF e
<1>5. Handling(e) /\ e.keybuf = <<>>
  BY <1>1, <1>4 DEF Handling, Kept
<1> QED
  BY <1>5 DEF e, g

\* The answer to an ACK lights the LED.
LEMMA AckStep ==
  ASSUME NEW h, Handling(h)
  PROVE  Handling(Ack(h)) /\ Ack(h).keybuf = h.keybuf
<1> DEFINE a == Append(h.answers, "ack")
           l == "CAPS" \in h.kstate
<1>1. h \in HandlerState /\ Numbered(h.ring, h.ready, h.arrived) /\ Kept(h) /\ Lit(h)
  BY DEF Handling
<1>2. a \in Seq({"ack"}) /\ l \in BOOLEAN
  BY <1>1 DEF HandlerState
<1>3. CASE h.cmd = 1
  <2> DEFINE g == [h EXCEPT !.led = l, !.cmd = 0, !.answers = a]
  <2>1. Ack(h) = g
    BY <1>3 DEF Ack
  <2> HIDE DEF a, l
  <2>2. /\ g \in HandlerState /\ g.keybuf = h.keybuf
        /\ g.ring = h.ring /\ g.ready = h.ready /\ g.wptr = h.wptr
        /\ g.arrived = h.arrived /\ g.kept = h.kept
        /\ g.led = l /\ g.kstate = h.kstate
    BY <1>1, <1>2 DEF HandlerState
  <2> HIDE DEF g
  <2>3. Handling(g)
    BY <1>1, <2>2 DEF Handling, Kept, Lit, l
  <2> QED
    BY <2>1, <2>2, <2>3
<1>4. CASE h.cmd # 1
  BY <1>4 DEF Ack
<1> QED
  BY <1>3, <1>4

\* One byte, whatever the wire carries behind what the handler holds back.
LEMMA ByteStep ==
  ASSUME ReaderOK, NEW h, Handling(h), NEW b \in Sendable \cup {"zero"},
         h.keybuf # <<>> => Follows(h.keybuf[Len(h.keybuf)], b)
  PROVE  /\ Handling(Byte(h, b))
         /\ b = "ack" => Byte(h, b).keybuf = <<>>
         /\ Byte(h, b).keybuf # <<>> => /\ b \in {"e0", "f0"}
                                        /\ Byte(h, b).keybuf[Len(Byte(h, b).keybuf)] = b
<1>1. h.keybuf \in {<<>>, <<"e0">>, <<"f0">>, <<"e0", "f0">>}
  BY DEF Handling, HandlerState
<1>2. /\ b \in {"e0", "f0", "ack"} \/ b \in CodeBytes \cup {"zero"}
      /\ b \in CodeBytes \cup {"zero"} => b \notin {"e0", "f0", "ack"}
  BY Names
<1>3. CASE b = "ack"
  <2>1. h.keybuf = <<>>
    BY <1>2, <1>3, Names DEF Follows
  <2>2. Byte(h, b) = Ack(h)
    BY <1>3 DEF Byte
  <2> QED
    BY <2>1, <2>2, AckStep
<1>4. CASE b \in {"e0", "f0"}
  <2> DEFINE k == Append(h.keybuf, b)
             g == [h EXCEPT !.keybuf = k]
  <2>1. Byte(h, b) = g
    BY <1>4 DEF Byte
  <2>2. h.keybuf # <<>> => h.keybuf[Len(h.keybuf)] = "e0" /\ b = "f0"
    BY <1>2, <1>4 DEF Follows
  <2>3. h.keybuf \in {<<>>, <<"e0">>}
    BY <1>1, <2>2
  <2>4. k \in {<<"e0">>, <<"f0">>, <<"e0", "f0">>} /\ k[Len(k)] = b
    <3>1. CASE h.keybuf = <<>>
      <4>1. k = <<b>>
        BY <3>1
      <4> QED
        BY <1>4, <4>1
    <3>2. CASE h.keybuf = <<"e0">>
      <4>1. b = "f0"
        BY <2>2, <3>2
      <4>2. k = Append(<<"e0">>, "f0")
        BY <3>2, <4>1
      <4>3. k = <<"e0", "f0">>
        <5> DEFINE t == <<"e0", "f0">>
        <5>1. k \in Seq({"e0", "f0"}) /\ Len(k) = 2 /\ k[1] = "e0" /\ k[2] = "f0"
          BY <4>2
        <5>2. t \in Seq({"e0", "f0"}) /\ Len(t) = 2 /\ t[1] = "e0" /\ t[2] = "f0"
          OBVIOUS
        <5> HIDE DEF k, t
        <5>3. \A i \in 1 .. Len(k) : k[i] = t[i]
          <6>1. \A i \in 1 .. 2 : i = 1 \/ i = 2
            OBVIOUS
          <6> QED
            BY <5>1, <5>2, <6>1
        <5>4. k = t
          BY <5>1, <5>2, <5>3, SeqEqual
        <5> QED
          BY <5>4 DEF t
      <4> QED
        BY <4>1, <4>3
    <3> QED
      BY <2>3, <3>1, <3>2
  <2> HIDE DEF k
  <2>5. /\ g \in HandlerState /\ g.keybuf = k
        /\ g.ring = h.ring /\ g.ready = h.ready /\ g.wptr = h.wptr
        /\ g.arrived = h.arrived /\ g.kept = h.kept
        /\ g.led = h.led /\ g.kstate = h.kstate /\ g.cmd = h.cmd
    BY <2>4 DEF Handling, HandlerState
  <2> HIDE DEF g
  <2>6. Handling(g)
    BY <2>5 DEF Handling, Kept, Lit
  <2> QED
    BY <1>4, <2>1, <2>4, <2>5, <2>6
<1>5. CASE b \in CodeBytes \cup {"zero"}
  <2> DEFINE code == Append(h.keybuf, b)
             g == IF Len(code) = 1 THEN Store(h, b) ELSE h
  <2>1. Byte(h, b) = [Switch(g, code) EXCEPT !.keybuf = <<>>]
    BY <1>2, <1>5 DEF Byte
  <2>2. Handling(Store(h, b))
    BY <1>5, StoreStep
  <2> HIDE DEF code
  <2>3. Handling(g)
    BY <2>2
  <2> HIDE DEF g
  <2> QED
    BY <1>2, <1>5, <2>1, <2>3, SwitchStep
<1> QED
  BY <1>2, <1>3, <1>4, <1>5

-------------------------------------------------------------------------------
(* What the wire carries.                                                  *)

\* Behind a wire on which no code is cut, more of the kind may be sent.
LEMMA FramedConcat ==
  ASSUME NEW buf, NEW w, NEW v, Framed(buf, w), Framed(<<>>, v)
  PROVE  Framed(buf, w \o v)
<1> DEFINE u == w \o v
<1>1. w \in Seq(Sendable) /\ v \in Seq(Sendable)
  BY DEF Framed
<1>2. /\ u \in Seq(Sendable) /\ Len(u) = Len(w) + Len(v)
      /\ Len(w) \in Nat /\ Len(v) \in Nat
      /\ \A i \in 1 .. Len(w) : u[i] = w[i]
      /\ \A i \in 1 .. Len(v) : u[Len(w) + i] = v[i]
  BY <1>1
<1> HIDE DEF u
<1>3. ASSUME NEW i \in 1 .. Len(u), u[i] \in {"e0", "f0"}
      PROVE  i + 1 <= Len(u) /\ Follows(u[i], u[i + 1])
  <2>1. CASE i <= Len(w)
    <3>1. i \in 1 .. Len(w) /\ u[i] = w[i]
      BY <1>2, <2>1
    <3>2. i + 1 <= Len(w) /\ Follows(w[i], w[i + 1])
      BY <1>3, <3>1 DEF Framed
    <3>3. u[i + 1] = w[i + 1] /\ i + 1 <= Len(u)
      BY <1>2, <3>1, <3>2
    <3> QED
      BY <3>1, <3>2, <3>3
  <2>2. CASE i > Len(w)
    <3> DEFINE j == i - Len(w)
    <3>1. j \in 1 .. Len(v) /\ Len(w) + j = i
      BY <1>2, <2>2
    <3>2. u[i] = v[j]
      BY <1>2, <3>1
    <3> HIDE DEF j
    <3>3. j + 1 <= Len(v) /\ Follows(v[j], v[j + 1])
      BY <1>3, <3>1, <3>2 DEF Framed
    <3>4. j + 1 \in 1 .. Len(v) /\ Len(w) + (j + 1) = i + 1
      <4>1. j \in Nat /\ Len(w) \in Nat /\ Len(v) \in Nat /\ i \in Nat /\ j >= 1
        BY <1>2, <3>1
      <4> QED
        BY <3>1, <3>3, <4>1
    <3>5. u[i + 1] = v[j + 1] /\ i + 1 <= Len(u)
      BY <1>2, <3>4
    <3> QED
      BY <3>2, <3>3, <3>5
  <2> QED
    BY <1>2, <2>1, <2>2
<1>4. ASSUME buf # <<>> PROVE Len(u) > 0 /\ Follows(buf[Len(buf)], u[1])
  <2>1. Len(w) > 0 /\ Follows(buf[Len(buf)], w[1])
    BY <1>4 DEF Framed
  <2> QED
    BY <1>2, <2>1
<1>5. buf \in {<<>>, <<"e0">>, <<"f0">>, <<"e0", "f0">>}
  BY DEF Framed
<1> QED
  BY <1>2, <1>3, <1>4, <1>5 DEF Framed, u

\* What the keyboard sends for a key is such.
LEMMA FramedSent ==
  ASSUME NEW k \in Keys, NEW up \in BOOLEAN
  PROVE  Framed(<<>>, Sent(k, up))
<1> DEFINE s == Sent(k, up)
           c == Code(k)
<1>1. c \in CodeBytes /\ c \in Sendable /\ "e0" \in Sendable /\ "f0" \in Sendable
      /\ c \notin {"e0", "f0"}
  BY Names DEF CodeBytes, Sendable
<1>2. \/ s = <<>> \o <<>> \o <<c>>
      \/ s = <<>> \o <<"f0">> \o <<c>>
      \/ s = <<"e0">> \o <<>> \o <<c>>
      \/ s = <<"e0">> \o <<"f0">> \o <<c>>
  BY DEF Sent
<1> HIDE DEF s, c
<1>3. \/ s \in Seq(Sendable) /\ Len(s) = 1 /\ s[1] = c
      \/ s \in Seq(Sendable) /\ Len(s) = 2 /\ s[1] \in {"e0", "f0"} /\ s[2] = c
      \/ s \in Seq(Sendable) /\ Len(s) = 3 /\ s[1] = "e0" /\ s[2] = "f0" /\ s[3] = c
  <2>1. CASE s = <<>> \o <<>> \o <<c>>
    BY <1>1, <2>1
  <2>2. CASE s = <<>> \o <<"f0">> \o <<c>>
    BY <1>1, <2>2
  <2>3. CASE s = <<"e0">> \o <<>> \o <<c>>
    BY <1>1, <2>3
  <2>4. CASE s = <<"e0">> \o <<"f0">> \o <<c>>
    BY <1>1, <2>4
  <2> QED
    BY <1>2, <2>1, <2>2, <2>3, <2>4
<1>4. ASSUME NEW i \in 1 .. Len(s), s[i] \in {"e0", "f0"}
      PROVE  i + 1 <= Len(s) /\ Follows(s[i], s[i + 1])
  <2>1. CASE Len(s) = 1 /\ s[1] = c
    BY <1>1, <1>4, <2>1
  <2>2. CASE Len(s) = 2 /\ s[2] = c
    <3>1. i = 1
      BY <1>1, <1>4, <2>2
    <3> QED
      BY <1>1, <2>2, <3>1 DEF Follows
  <2>3. CASE Len(s) = 3 /\ s[1] = "e0" /\ s[2] = "f0" /\ s[3] = c
    <3>1. i = 1 \/ i = 2
      BY <1>1, <1>4, <2>3
    <3> QED
      BY <1>1, <2>3, <3>1 DEF Follows
  <2> QED
    BY <1>3, <2>1, <2>2, <2>3
<1> QED
  BY <1>3, <1>4 DEF Framed, s

\* And so are the answers to ACKs.
LEMMA FramedAnswers ==
  ASSUME NEW a \in Seq({"ack"})
  PROVE  Framed(<<>>, a)
<1>1. a \in Seq(Sendable) /\ \A i \in 1 .. Len(a) : a[i] = "ack"
  BY DEF Sendable
<1> QED
  BY <1>1 DEF Framed

\* What is left of the wire begins where the handler stopped.
LEMMA FramedRest ==
  ASSUME NEW w, NEW n \in 1 .. Len(w), NEW held_back, Framed(held_back, w),
         NEW buf \in {<<>>, <<"e0">>, <<"f0">>, <<"e0", "f0">>},
         buf # <<>> => n < Len(w) /\ Follows(buf[Len(buf)], w[n + 1])
  PROVE  Framed(buf, SubSeq(w, n + 1, Len(w)))
<1> DEFINE r == SubSeq(w, n + 1, Len(w))
<1>1. w \in Seq(Sendable) /\ Len(w) \in Nat
      /\ \A i \in 1 .. Len(w) :
           w[i] \in {"e0", "f0"} => i + 1 <= Len(w) /\ Follows(w[i], w[i + 1])
  BY DEF Framed
<1>2. /\ r \in Seq(Sendable) /\ Len(r) = Len(w) - n
      /\ \A i \in 1 .. Len(w) - n : r[i] = w[n + i]
  BY <1>1
<1> HIDE DEF r
<1>3. ASSUME NEW i \in 1 .. Len(r), r[i] \in {"e0", "f0"}
      PROVE  i + 1 <= Len(r) /\ Follows(r[i], r[i + 1])
  <2>1. n + i \in 1 .. Len(w) /\ r[i] = w[n + i]
    BY <1>1, <1>2
  <2>2. n + i + 1 <= Len(w) /\ Follows(w[n + i], w[n + i + 1])
    BY <1>1, <1>3, <2>1
  <2>3. i + 1 \in 1 .. Len(w) - n /\ n + (i + 1) = n + i + 1
    BY <1>1, <2>1, <2>2
  <2>4. r[i + 1] = w[n + i + 1] /\ i + 1 <= Len(r)
    BY <1>2, <2>3
  <2> QED
    BY <2>1, <2>2, <2>4
<1>4. buf # <<>> => Len(r) > 0 /\ Follows(buf[Len(buf)], r[1])
  BY <1>1, <1>2
<1> QED
  BY <1>2, <1>3, <1>4 DEF Framed, r

-------------------------------------------------------------------------------
(* ps2_handler.                                                            *)

\* The state before the loop.
BeforeLoop ==
  [ring |-> ring, ready |-> ready, wptr |-> wptr, keybuf |-> keybuf,
   kstate |-> kstate, cmd |-> cmd, led |-> led, arrived |-> arrived,
   kept |-> kept, answers |-> <<>>]

\* The recursive function of Handled as a fixed point.
LoopStep(f, bytes, start, n) ==
  [i \in 0 .. n |-> IF i = 0 THEN start ELSE Byte(f[i - 1], bytes[i])]

\* That function exists.
LEMMA LoopExists ==
  ASSUME NEW bytes, NEW start, NEW n \in Nat
  PROVE  \E f : f = LoopStep(f, bytes, start, n)
<1> DEFINE Rec(f, m) == f = LoopStep(f, bytes, start, m)
           Good == {m \in Nat : \E f : Rec(f, m)}
<1>1. 0 \in Good
  <2> DEFINE f0 == [i \in 0 .. 0 |-> start]
  <2>1. Rec(f0, 0)
    BY DEF LoopStep
  <2> QED
    BY <2>1
<1>2. ASSUME NEW m \in Nat, m \in Good PROVE m + 1 \in Good
  <2>1. PICK f : Rec(f, m)
    BY <1>2
  <2>9. \A i \in 0 .. m : f[i] = IF i = 0 THEN start ELSE Byte(f[i - 1], bytes[i])
    BY <2>1, Zenon DEF LoopStep
  <2> DEFINE last == Byte(f[m], bytes[m + 1])
             g == [i \in 0 .. m + 1 |-> IF i <= m THEN f[i] ELSE last]
  <2>2. \A i \in 0 .. m : g[i] = f[i]
    OBVIOUS
  <2>3. \A i \in 0 .. m + 1 : g[i] = IF i = 0 THEN start ELSE Byte(g[i - 1], bytes[i])
    <3> TAKE i \in 0 .. m + 1
    <3>1. CASE i = 0
      BY <3>1, <2>9
    <3>2. CASE i \in 1 .. m
      <4>1. g[i] = f[i] /\ g[i - 1] = f[i - 1]
        BY <3>2, <2>2
      <4>2. f[i] = Byte(f[i - 1], bytes[i])
        BY <3>2, <2>9
      <4> QED
        BY <4>1, <4>2, <3>2
    <3>3. CASE i = m + 1
      BY <3>3, <2>2
    <3> QED
      BY <3>1, <3>2, <3>3
  <2>4. Rec(g, m + 1)
    BY <2>3 DEF LoopStep
  <2> HIDE DEF Rec, g
  <2>5. m + 1 \in Nat
    OBVIOUS
  <2> QED
    BY <2>4, <2>5
<1>3. Nat \subseteq Good
  <2> HIDE DEF Good
  <2> QED
    BY <1>1, <1>2, NatSetInduction
<1> QED
  BY <1>3

\* The bytes the handler reads: the first n of the wire, and a zero behind an ACK.
LEMMA BytesOf ==
  ASSUME NEW w \in Seq(Sendable), NEW n \in 1 .. Len(w)
  PROVE  LET bytes == BytesRead(SubSeq(w, 1, n))
         IN  /\ Len(bytes) \in {n, n + 1}
             /\ \A i \in 1 .. n : bytes[i] = w[i]
             /\ Len(bytes) = n + 1 => w[n] = "ack" /\ bytes[n + 1] = "zero"
<1> DEFINE p == SubSeq(w, 1, n)
<1>1. /\ p \in Seq(Sendable) /\ Len(p) = n /\ n \in Nat \ {0}
      /\ \A i \in 1 .. n : p[i] = w[i]
  OBVIOUS
<1> HIDE DEF p
<1>2. Last(p) = w[n] /\ n # n + 1
  BY <1>1 DEF Last
<1>3. CASE w[n] = "ack"
  <2> DEFINE q == Append(p, "zero")
  <2>1. BytesRead(p) = q
    BY <1>2, <1>3 DEF BytesRead
  <2>2. Len(q) = n + 1 /\ q[n + 1] = "zero" /\ \A i \in 1 .. n : q[i] = p[i]
    BY <1>1
  <2> HIDE DEF q
  <2> QED
    BY <1>1, <1>3, <2>1, <2>2 DEF p
<1>4. CASE w[n] # "ack"
  <2>1. BytesRead(p) = p
    BY <1>2, <1>4 DEF BytesRead
  <2> QED
    BY <1>1, <1>2, <2>1 DEF p
<1> QED
  BY <1>3, <1>4

\* The invariant holds of the reader, and of the handler before its loop.
LEMMA LoopStarts ==
  ASSUME KeyboardInv
  PROVE  ReaderOK /\ Handling(BeforeLoop) /\ BeforeLoop.keybuf = keybuf
<1> DEFINE h == BeforeLoop
<1>1. ReaderOK
  BY DEF KeyboardInv, TypeOK, Histories, ReaderOK
<1>2. /\ h.ring = ring /\ h.ready = ready /\ h.wptr = wptr /\ h.keybuf = keybuf
      /\ h.kstate = kstate /\ h.cmd = cmd /\ h.led = led /\ h.arrived = arrived
      /\ h.kept = kept
  BY DEF BeforeLoop
<1>3. h \in HandlerState
  BY DEF KeyboardInv, TypeOK, Histories, Framed, BeforeLoop, HandlerState
<1> HIDE DEF h
<1> QED
  BY <1>1, <1>2, <1>3 DEF KeyboardInv, LedShowsCaps, Handling, Kept, Lit, h

\* The whole loop: an induction over the bytes that it reads.
LEMMA HandlerRun ==
  ASSUME KeyboardInv, NEW n \in 1 .. Len(wire)
  PROVE  LET h == Handled(BytesRead(SubSeq(wire, 1, n)))
         IN  /\ Handling(h)
             /\ Framed(h.keybuf, SubSeq(wire, n + 1, Len(wire)) \o h.answers)
<1> DEFINE bytes == BytesRead(SubSeq(wire, 1, n))
           after[i \in 0 .. Len(bytes)] ==
             IF i = 0 THEN BeforeLoop ELSE Byte(after[i - 1], bytes[i])
           Held(h, i) ==
             h.keybuf # <<>> =>
               i <= n /\ i < Len(wire) /\ Follows(h.keybuf[Len(h.keybuf)], wire[i + 1])
           Fine(i) == /\ Handling(after[i])
                      /\ Held(after[i], i)
                      /\ i \in 1 .. n /\ wire[i] = "ack" => after[i].keybuf = <<>>
           Good == {i \in Nat : i <= Len(bytes) => Fine(i)}
<1>1. Framed(keybuf, wire) /\ wire \in Seq(Sendable) /\ Len(wire) \in Nat
  BY DEF KeyboardInv, Framed
<1>2. /\ Len(bytes) \in {n, n + 1} /\ Len(bytes) \in Nat
      /\ \A i \in 1 .. n : bytes[i] = wire[i]
      /\ Len(bytes) = n + 1 => wire[n] = "ack" /\ bytes[n + 1] = "zero"
  BY <1>1, BytesOf
<1> HIDE DEF bytes
<1>3. \A i \in 0 .. Len(bytes) :
        after[i] = IF i = 0 THEN BeforeLoop ELSE Byte(after[i - 1], bytes[i])
  <2>1. \E f : f = LoopStep(f, bytes, BeforeLoop, Len(bytes))
    BY <1>2, LoopExists
  <2>2. after = LoopStep(after, bytes, BeforeLoop, Len(bytes))
    BY <2>1, Zenon DEF LoopStep
  <2> QED
    BY <2>2, Zenon DEF LoopStep
<1>4. Handled(bytes) = after[Len(bytes)]
  BY DEF Handled, BeforeLoop
<1> HIDE DEF after
<1>5. ReaderOK /\ Handling(BeforeLoop) /\ BeforeLoop.keybuf = keybuf
  BY LoopStarts
<1>6. 0 \in Good
  <2>1. after[0] = BeforeLoop
    BY <1>2, <1>3
  <2>2. keybuf # <<>> => Len(wire) > 0 /\ Follows(keybuf[Len(keybuf)], wire[1])
    BY <1>1 DEF Framed
  <2>3. Held(BeforeLoop, 0)
    BY <1>1, <1>5, <2>2
  <2> QED
    BY <1>5, <2>1, <2>3
<1>7. ASSUME NEW i \in Nat, i \in Good PROVE i + 1 \in Good
  <2> SUFFICES ASSUME i + 1 <= Len(bytes) PROVE Fine(i + 1)
    OBVIOUS
  <2> DEFINE h == after[i]
             b == bytes[i + 1]
             g == Byte(h, b)
  <2>1. Handling(h) /\ Held(h, i) /\ (i \in 1 .. n /\ wire[i] = "ack" => h.keybuf = <<>>)
    BY <1>2, <1>7
  <2>2. after[i + 1] = g
    BY <1>2, <1>3
  <2>3. CASE i + 1 <= n
    <3>1. b = wire[i + 1] /\ b \in Sendable /\ i + 1 \in 1 .. Len(wire) /\ i + 1 \in 1 .. n
      BY <1>1, <1>2, <2>3
    <3>2. h.keybuf # <<>> => Follows(h.keybuf[Len(h.keybuf)], b)
      BY <2>1, <3>1
    <3> HIDE DEF h, b
    <3>3. /\ Handling(g)
          /\ b = "ack" => g.keybuf = <<>>
          /\ g.keybuf # <<>> => b \in {"e0", "f0"} /\ g.keybuf[Len(g.keybuf)] = b
      BY <1>5, <2>1, <3>1, <3>2, ByteStep
    <3>4. b \in {"e0", "f0"} => (i + 1) + 1 <= Len(wire) /\ Follows(b, wire[(i + 1) + 1])
      BY <1>1, <3>1 DEF Framed
    <3> HIDE DEF g
    <3>5. Held(g, i + 1)
      BY <1>1, <2>3, <3>3, <3>4
    <3> QED
      BY <2>2, <3>1, <3>3, <3>5
  <2>4. CASE i = n
    <3>1. b = "zero" /\ h.keybuf = <<>>
      BY <1>2, <2>1, <2>4
    <3> HIDE DEF h, b
    <3>2. Handling(g) /\ (g.keybuf # <<>> => b \in {"e0", "f0"})
      BY <1>5, <2>1, <3>1, ByteStep
    <3> HIDE DEF g
    <3>3. g.keybuf = <<>> /\ i + 1 \notin 1 .. n
      BY <2>4, <3>1, <3>2
    <3> QED
      BY <2>2, <3>2, <3>3
  <2> QED
    BY <1>2, <2>3, <2>4
<1>8. Fine(Len(bytes))
  <2>1. Nat \subseteq Good
    <3> HIDE DEF Good
    <3> QED
      BY <1>6, <1>7, NatSetInduction
  <2> QED
    BY <1>2, <2>1
<1> DEFINE h == after[Len(bytes)]
           rest == SubSeq(wire, n + 1, Len(wire))
<1>9. h.keybuf # <<>> => n < Len(wire) /\ Follows(h.keybuf[Len(h.keybuf)], wire[n + 1])
  <2>1. h.keybuf # <<>> => Len(bytes) = n
    BY <1>2, <1>8
  <2> QED
    BY <1>8, <2>1
<1>10. Handling(h) /\ h.keybuf \in {<<>>, <<"e0">>, <<"f0">>, <<"e0", "f0">>}
       /\ h.answers \in Seq({"ack"})
  BY <1>8 DEF Handling, HandlerState
<1>11. Handled(bytes) = h
  BY <1>4
<1> HIDE DEF h
<1>12. Framed(h.keybuf, rest)
  BY <1>1, <1>9, <1>10, FramedRest
<1> HIDE DEF rest
<1>13. Framed(h.keybuf, rest \o h.answers)
  BY <1>10, <1>12, FramedAnswers, FramedConcat
<1> QED
  BY <1>10, <1>11, <1>13 DEF bytes, rest

-------------------------------------------------------------------------------
(* The steps.                                                              *)

\* What a step that leaves the ring, its reader and the driver alone preserves.
LEMMA RingUntouched ==
  ASSUME KeyboardInv,
         UNCHANGED <<pc, temp, slot, rptr, shell, line, taken, keybuf, kstate, cmd, led,
                     ring, ready, wptr, arrived, kept>>
  PROVE  /\ Histories' /\ Numbered(ring, ready, arrived)' /\ TakenOnce'
         /\ (kept => Queued(ring, ready, wptr, arrived))' /\ LedShowsCaps'
BY DEF KeyboardInv, Histories, Numbered, TakenOnce, Queued, Done, Ahead, LedShowsCaps

\* At most two bytes are held back.
LEMMA HeldBack ==
  ASSUME NEW buf \in {<<>>, <<"e0">>, <<"f0">>, <<"e0", "f0">>}
  PROVE  buf \in Seq({"e0", "f0"}) /\ Len(buf) < 3
<1>1. CASE buf = <<>>
  BY <1>1
<1>2. CASE buf = <<"e0">>
  BY <1>2
<1>3. CASE buf = <<"f0">>
  BY <1>3
<1>4. CASE buf = <<"e0", "f0">>
  BY <1>4
<1> QED
  BY <1>1, <1>2, <1>3, <1>4

\* A key goes down or up: only the wire gets longer.
LEMMA KeyStep ==
  ASSUME KeyboardInv, NEW k \in Keys, Press(k) \/ Release(k)
  PROVE  KeyboardInv'
<1>1. PICK up \in BOOLEAN : wire' = wire \o Sent(k, up)
  BY DEF Press, Release
<1>2. Framed(keybuf, wire')
  BY <1>1, FramedSent, FramedConcat DEF KeyboardInv
<1>3. /\ UNCHANGED <<pc, temp, slot, rptr, shell, line, taken, keybuf, kstate, cmd, led,
                     ring, ready, wptr, arrived, kept>>
      /\ held' \subseteq Modifiers
  BY DEF Press, Release, reader, driver, KeyboardInv, TypeOK
<1>4. Framed(keybuf, wire)'
  BY <1>2, <1>3 DEF Framed
<1>5. TypeOK'
  <2>1. wire' \in Seq({"e0", "f0", "ack"} \cup {Code(kk) : kk \in Keys})
    BY <1>2 DEF Framed, Sendable, CodeBytes
  <2> QED
    BY <1>3, <2>1 DEF KeyboardInv, TypeOK
<1> QED
  BY <1>3, <1>4, <1>5, RingUntouched DEF KeyboardInv

\* ps2_handler with what its loop makes of the state.
LEMMA HandlerStep ==
  ASSUME KeyboardInv, NEW n \in 1 .. Len(wire), ps2_handler(n)
  PROVE  KeyboardInv'
<1> DEFINE h == Handled(BytesRead(SubSeq(wire, 1, n)))
<1>1. /\ Handling(h)
      /\ Framed(h.keybuf, SubSeq(wire, n + 1, Len(wire)) \o h.answers)
  BY HandlerRun
<1>2. /\ ring' = h.ring /\ ready' = h.ready /\ wptr' = h.wptr
      /\ keybuf' = h.keybuf /\ kstate' = h.kstate /\ cmd' = h.cmd
      /\ led' = h.led /\ arrived' = h.arrived /\ kept' = h.kept
      /\ wire' = SubSeq(wire, n + 1, Len(wire)) \o h.answers
      /\ UNCHANGED <<held, events, pc, temp, slot, rptr, shell, line, taken>>
  BY DEF ps2_handler, reader
<1> HIDE DEF h
<1>3. /\ ring' \in [Slots -> Codes] /\ ready' \in [Slots -> BOOLEAN] /\ wptr' \in Slots
      /\ keybuf' \in {<<>>, <<"e0">>, <<"f0">>, <<"e0", "f0">>}
      /\ kstate' \in SUBSET {"CAPS", "SHIFT", "CTRL", "ALT"} /\ cmd' \in {0, 1}
      /\ led' \in BOOLEAN /\ arrived' \in Nat /\ kept' \in BOOLEAN
  BY <1>1, <1>2 DEF Handling, HandlerState
<1>4. Framed(keybuf, wire)'
  BY <1>1, <1>2 DEF Framed
<1>5. TypeOK'
  <2>1. wire' \in Seq({"e0", "f0", "ack"} \cup {Code(k) : k \in Keys})
    BY <1>4 DEF Framed, Sendable, CodeBytes
  <2>2. keybuf' \in Seq({"e0", "f0"}) /\ Len(keybuf') < 3
    BY <1>3, HeldBack
  <2> QED
    BY <1>2, <1>3, <2>1, <2>2 DEF KeyboardInv, TypeOK
<1>6. Histories' /\ TakenOnce'
  BY <1>2, <1>3 DEF KeyboardInv, Histories, TakenOnce
<1>7. Numbered(ring, ready, arrived)'
  BY <1>1, <1>2 DEF Handling, Numbered
<1>8. (kept => Queued(ring, ready, wptr, arrived))'
  BY <1>1, <1>2 DEF Handling, Kept, Queued, Done, Ahead
<1>9. LedShowsCaps'
  BY <1>1, <1>2 DEF Handling, Lit, LedShowsCaps
<1> QED
  BY <1>4, <1>5, <1>6, <1>7, <1>8, <1>9 DEF KeyboardInv

\* kernel_getkey finds a code: it is the next one, and was not read before.
LEMMA GetkeyTestStep ==
  ASSUME KeyboardInv, GetkeyTest
  PROVE  KeyboardInv'
<1> DEFINE a == ring[rptr].at
           t == Append(taken, a)
<1>1. /\ pc = "getkey" /\ ready[rptr] /\ temp' = ring[rptr] /\ pc' = "reset" /\ taken' = t
      /\ UNCHANGED <<wire, held, led, events, keybuf, kstate, cmd, ring, ready, wptr, rptr,
                     slot, shell, line, arrived, kept>>
  BY DEF GetkeyTest, device, driver
<1>2. /\ TypeOK /\ Histories /\ TakenOnce /\ Numbered(ring, ready, arrived)
      /\ Framed(keybuf, wire) /\ LedShowsCaps
      /\ kept => Queued(ring, ready, wptr, arrived)
  BY DEF KeyboardInv
<1>3. rptr \in Slots /\ ring \in [Slots -> Codes] /\ taken \in Seq(Nat) /\ arrived \in Nat
  BY <1>2 DEF TypeOK, Histories
<1>4. /\ a \in 1 .. arrived /\ a \in Nat
      /\ \A i \in DOMAIN taken : taken[i] \in 1 .. arrived /\ a # taken[i]
  BY <1>1, <1>2, <1>3 DEF Numbered
<1>5. /\ t \in Seq(Nat) /\ Len(t) = Len(taken) + 1 /\ Len(taken) \in Nat
      /\ t[Len(taken) + 1] = a /\ \A i \in DOMAIN taken : t[i] = taken[i]
      /\ DOMAIN taken = 1 .. Len(taken) /\ DOMAIN t = 1 .. Len(taken) + 1
  BY <1>3, <1>4
<1> HIDE DEF t
<1>6. \A i \in DOMAIN t : i \in DOMAIN taken \/ i = Len(taken) + 1
  BY <1>5
<1>7. TypeOK'
  BY <1>1, <1>2, <1>3 DEF TypeOK
<1>8. Histories'
  BY <1>1, <1>2, <1>5 DEF Histories
<1>9. Framed(keybuf, wire)' /\ LedShowsCaps'
  BY <1>1, <1>2 DEF Framed, LedShowsCaps
<1>10. Numbered(ring, ready, arrived)'
  <2>1. \A i \in DOMAIN t : t[i] \in 1 .. arrived
    BY <1>4, <1>5, <1>6
  <2>2. ASSUME NEW s \in Slots, ready[s], NEW i \in DOMAIN t, ring[s].at = t[i]
        PROVE  s = rptr
    <3>1. CASE i \in DOMAIN taken
      BY <1>1, <1>2, <1>5, <2>2, <3>1 DEF Numbered
    <3>2. CASE i = Len(taken) + 1
      BY <1>1, <1>2, <1>3, <1>5, <2>2, <3>2 DEF Numbered
    <3> QED
      BY <1>6, <3>1, <3>2
  <2>3. \A s \in Slots : ready[s] => ring[s].at \in 1 .. arrived
    BY <1>2 DEF Numbered
  <2>4. \A s, u \in Slots : ready[s] /\ ready[u] /\ ring[s].at = ring[u].at => s = u
    BY <1>2 DEF Numbered
  <2> QED
    BY <1>1, <2>1, <2>2, <2>3, <2>4 DEF Numbered
<1>11. TakenOnce'
  <2>1. ASSUME NEW i \in DOMAIN t, NEW j \in DOMAIN t, t[i] = t[j] PROVE i = j
    BY <1>2, <1>4, <1>5, <1>6, <2>1 DEF TakenOnce
  <2> QED
    BY <1>1, <2>1 DEF TakenOnce
<1>12. ASSUME kept PROVE Queued(ring, ready, wptr, arrived)'
  <2>1. Queued(ring, ready, wptr, arrived) /\ Done = Len(taken) /\ Done' = Len(taken)
    BY <1>1, <1>2, <1>5, <1>12 DEF Done
  <2>2. N \in Nat \ {0} /\ Slots = 0 .. N - 1 /\ Ahead(rptr) = 0
    BY <1>3, Names DEF Ahead
  <2>3. a = Len(taken) + 1
    BY <1>1, <1>3, <1>5, <2>1, <2>2 DEF Queued
  <2>4. \A i \in 1 .. Len(taken) : taken[i] = i
    BY <2>1 DEF Queued
  <2>5. t = [i \in 1 .. Len(t) |-> i]
    <3> DEFINE u == [i \in 1 .. Len(t) |-> i]
    <3>1. u \in Seq(Nat) /\ Len(u) = Len(t)
      BY <1>5
    <3>2. \A i \in 1 .. Len(t) : t[i] = u[i]
      BY <1>5, <1>6, <2>3, <2>4
    <3> HIDE DEF u
    <3>3. t = u
      BY <1>5, <3>1, <3>2, SeqEqual
    <3> QED
      BY <3>3 DEF u
  <2>6. Len(t) <= arrived
    BY <1>4, <1>5, <2>3
  <2>7. \A s \in Slots : Ahead(s)' = Ahead(s)
    BY <1>1 DEF Ahead
  <2>8. /\ wptr = IF rptr + (arrived - Len(taken)) < N THEN rptr + (arrived - Len(taken))
                  ELSE rptr + (arrived - Len(taken)) - N
        /\ arrived - Len(taken) <= N
        /\ \A s \in Slots : ready[s] <=> Ahead(s) < arrived - Len(taken)
        /\ \A s \in Slots : ready[s] => ring[s].at = Len(taken) + 1 + Ahead(s)
    BY <1>1, <2>1 DEF Queued
  <2> QED
    BY <1>1, <2>1, <2>5, <2>6, <2>7, <2>8 DEF Queued
<1> QED
  BY <1>1, <1>7, <1>8, <1>9, <1>10, <1>11, <1>12 DEF KeyboardInv

\* What kernel_getkey and init_buffer leave alone.
LEMMA ReaderStep ==
  ASSUME KeyboardInv, UNCHANGED <<device, driver>>
  PROVE  Framed(keybuf, wire)' /\ LedShowsCaps'
BY DEF KeyboardInv, Framed, LedShowsCaps, device, driver

\* kernel_getkey resets the slot and moves on: the code it read no longer waits.
LEMMA GetkeyResetStep ==
  ASSUME KeyboardInv, GetkeyReset
  PROVE  KeyboardInv'
<1> DEFINE rd == [ready EXCEPT ![rptr] = FALSE]
<1>1. /\ pc = "reset" /\ ready' = rd
      /\ kept' = (kept /\ (rptr + 1 = N => \A i \in Slots \ {rptr} : ~ready[i]))
      /\ UNCHANGED <<wire, held, led, events, keybuf, kstate, cmd, ring, wptr, temp,
                     shell, line, arrived, taken>>
  BY DEF GetkeyReset, device, driver
<1>2. /\ TypeOK /\ Histories /\ TakenOnce /\ Numbered(ring, ready, arrived)
      /\ kept => Queued(ring, ready, wptr, arrived)
  BY DEF KeyboardInv
<1>3. rptr \in Slots /\ ready \in [Slots -> BOOLEAN] /\ kept \in BOOLEAN
      /\ N \in Nat \ {0} /\ Slots = 0 .. N - 1
  BY <1>2, Names DEF TypeOK, Histories
<1>4. /\ rd \in [Slots -> BOOLEAN]
      /\ \A s \in Slots : rd[s] <=> s # rptr /\ ready[s]
  BY <1>3
<1> HIDE DEF rd
<1>5. \/ rptr + 1 = N /\ pc' = "clear" /\ rptr' = rptr /\ slot' = 0
      \/ rptr + 1 # N /\ pc' = "translate" /\ rptr' = rptr + 1 /\ slot' = slot
  BY DEF GetkeyReset
<1>6. TypeOK'
  <2>1. rptr' \in Slots /\ slot' \in 0 .. N /\ pc' \in {"clear", "translate"}
    BY <1>2, <1>3, <1>5 DEF TypeOK
  <2> QED
    BY <1>1, <1>2, <1>4, <2>1 DEF TypeOK
<1>7. Histories' /\ TakenOnce'
  <2>1. kept' \in BOOLEAN
    BY <1>1, <1>3
  <2> QED
    BY <1>1, <1>2, <1>5, <2>1 DEF Histories, TakenOnce
<1>8. Numbered(ring, ready, arrived)'
  <2>1. \A s \in Slots : rd[s] =>
          /\ ring[s].at \in 1 .. arrived
          /\ \A i \in DOMAIN taken : ring[s].at # taken[i]
    BY <1>2, <1>4 DEF Numbered
  <2>2. \A s, t \in Slots : rd[s] /\ rd[t] /\ ring[s].at = ring[t].at => s = t
    BY <1>2, <1>4 DEF Numbered
  <2>3. \A i \in DOMAIN taken : taken[i] \in 1 .. arrived
    BY <1>2 DEF Numbered
  <2> QED
    BY <1>1, <2>1, <2>2, <2>3 DEF Numbered
<1>9. ASSUME kept' PROVE Queued(ring, ready, wptr, arrived)'
  <2>1. kept /\ Queued(ring, ready, wptr, arrived)
        /\ (rptr + 1 = N => \A i \in Slots \ {rptr} : ~ready[i])
    BY <1>1, <1>2, <1>3, <1>9
  <2> DEFINE r == Len(taken) - 1
             m == arrived - r
  <2>2. /\ taken \in Seq(Nat) /\ Len(taken) \in Nat \ {0} /\ arrived \in Nat
    BY <1>1, <1>2 DEF Histories
  <2>3. r \in Nat /\ Done = r /\ Done' = r + 1
    BY <1>1, <1>5, <2>2 DEF Done
  <2>4. /\ taken = [i \in 1 .. Len(taken) |-> i]
        /\ Len(taken) <= arrived /\ m <= N /\ m \in Nat \ {0}
        /\ wptr = IF rptr + m < N THEN rptr + m ELSE rptr + m - N
        /\ \A s \in Slots : ready[s] <=> Ahead(s) < m
        /\ \A s \in Slots : ready[s] => ring[s].at = r + 1 + Ahead(s)
    <3>1. /\ taken = [i \in 1 .. Len(taken) |-> i]
          /\ Len(taken) <= arrived /\ arrived - Done <= N
          /\ wptr = IF rptr + (arrived - Done) < N THEN rptr + (arrived - Done)
                    ELSE rptr + (arrived - Done) - N
          /\ \A s \in Slots : ready[s] <=> Ahead(s) < arrived - Done
          /\ \A s \in Slots : ready[s] => ring[s].at = Done + 1 + Ahead(s)
      BY <1>1, <2>1 DEF Queued
    <3>2. m \in Nat \ {0} /\ m = arrived - Done
      BY <2>2, <2>3, <3>1
    <3> HIDE DEF r, m
    <3> QED
      BY <2>3, <3>1, <3>2
  <2>5. arrived - (r + 1) = m - 1 /\ Len(taken) = r + 1 /\ arrived = r + m
    BY <2>2
  <2> HIDE DEF r, m
  <2>6. \A s \in Slots : Ahead(s) = IF s >= rptr THEN s - rptr ELSE s - rptr + N
    BY DEF Ahead
  <2>7. CASE rptr + 1 = N
    <3>1. m = 1
      <4>1. CASE N = 1
        BY <2>4, <4>1
      <4>2. CASE N > 1
        <5>1. 0 \in Slots \ {rptr} /\ Ahead(0) = 1
          BY <1>3, <2>6, <2>7, <4>2
        <5>2. ~(1 < m)
          BY <2>1, <2>4, <2>7, <5>1
        <5> QED
          BY <2>4, <5>2
      <4> QED
        BY <1>3, <4>1, <4>2
    <3>2. arrived = Len(taken)
      BY <2>5, <3>1
    <3>3. \A s \in Slots : ~rd[s] /\ ~(Ahead(s) < 0)
      <4> TAKE s \in Slots
      <4>1. ~rd[s]
        BY <1>4, <2>1, <2>7
      <4>2. ~(Ahead(s) < 0)
        BY <1>3, <2>6
      <4> QED
        BY <4>1, <4>2
    <3>4. \A s \in Slots : Ahead(s)' = Ahead(s)
      BY <1>5, <2>7 DEF Ahead
    <3>5. pc' = "clear" /\ rptr' = rptr
      BY <1>5, <2>7
    <3>6. arrived - (r + 1) = 0
      BY <2>5, <3>1
    <3> QED
      BY <1>1, <1>3, <2>2, <2>3, <2>4, <3>2, <3>3, <3>4, <3>5, <3>6 DEF Queued
  <2>8. CASE rptr + 1 # N
    <3>1. pc' = "translate" /\ rptr' = rptr + 1
      BY <1>5, <2>8
    <3>2. ASSUME NEW s \in Slots, s # rptr PROVE Ahead(s)' = Ahead(s) - 1
      <4>1. Ahead(s)' = IF s >= rptr + 1 THEN s - (rptr + 1) ELSE s - (rptr + 1) + N
        BY <3>1 DEF Ahead
      <4> QED
        BY <1>3, <2>6, <3>2, <4>1
    <3>3. ASSUME NEW s \in Slots, s = rptr PROVE Ahead(s)' = N - 1
      <4>1. Ahead(s)' = IF s >= rptr + 1 THEN s - (rptr + 1) ELSE s - (rptr + 1) + N
        BY <3>1 DEF Ahead
      <4> QED
        BY <1>3, <3>3, <4>1
    <3>4. ASSUME NEW s \in Slots PROVE rd[s] <=> Ahead(s)' < m - 1
      <4>1. CASE s = rptr
        BY <1>3, <1>4, <2>4, <3>3, <4>1
      <4>2. CASE s # rptr
        <5>1. Ahead(s) \in Int
          BY <1>3, <2>6
        <5> QED
          BY <1>4, <2>4, <3>2, <4>2, <5>1
      <4> QED
        BY <4>1, <4>2
    <3>5. ASSUME NEW s \in Slots, rd[s] PROVE ring[s].at = (r + 1) + 1 + Ahead(s)'
      <4>1. s # rptr /\ ring[s].at = r + 1 + Ahead(s) /\ Ahead(s) \in Int
        BY <1>3, <1>4, <2>4, <2>6, <3>5
      <4> QED
        BY <2>3, <3>2, <4>1
    <3>6. wptr = IF (rptr + 1) + (m - 1) < N THEN (rptr + 1) + (m - 1)
                 ELSE (rptr + 1) + (m - 1) - N
      BY <1>3, <2>4
    <3> QED
      BY <1>1, <1>3, <2>3, <2>4, <2>5, <3>1, <3>4, <3>5, <3>6 DEF Queued
  <2> QED
    BY <2>7, <2>8
<1> QED
  BY <1>1, <1>6, <1>7, <1>8, <1>9, ReaderStep DEF KeyboardInv, device, driver

\* init_buffer clears a slot; while it does, nothing that waits counts.
LEMMA InitBufferSlotStep ==
  ASSUME KeyboardInv, InitBufferSlot
  PROVE  KeyboardInv'
<1> DEFINE rg == [ring EXCEPT ![slot] = NoCode]
           rd == [ready EXCEPT ![slot] = FALSE]
<1>1. /\ pc = "clear" /\ slot \in Slots /\ ring' = rg /\ ready' = rd /\ slot' = slot + 1
      /\ UNCHANGED <<wire, held, led, events, keybuf, kstate, cmd, wptr, rptr, pc, temp,
                     shell, line, arrived, taken, kept>>
  BY DEF InitBufferSlot, device, driver
<1>2. /\ TypeOK /\ Histories /\ TakenOnce /\ Numbered(ring, ready, arrived)
      /\ kept => Queued(ring, ready, wptr, arrived)
  BY DEF KeyboardInv
<1>3. /\ ring \in [Slots -> Codes] /\ ready \in [Slots -> BOOLEAN] /\ NoCode \in Codes
      /\ N \in Nat \ {0} /\ Slots = 0 .. N - 1
  BY <1>2, Names DEF TypeOK
<1>4. /\ rg \in [Slots -> Codes] /\ rd \in [Slots -> BOOLEAN]
      /\ \A s \in Slots : rd[s] => ready[s] /\ rg[s] = ring[s]
      /\ slot' \in 0 .. N
  BY <1>1, <1>3
<1> HIDE DEF rg, rd
<1>5. TypeOK'
  BY <1>1, <1>2, <1>4 DEF TypeOK
<1>6. Histories' /\ TakenOnce'
  BY <1>1, <1>2 DEF Histories, TakenOnce
<1>7. Numbered(ring, ready, arrived)'
  BY <1>1, <1>2, <1>4 DEF Numbered
<1>8. ASSUME kept' PROVE Queued(ring, ready, wptr, arrived)'
  <2>1. Queued(ring, ready, wptr, arrived)
    BY <1>1, <1>2, <1>8
  <2>2. arrived = Len(taken) /\ Done = Len(taken) /\ Done' = Len(taken) /\ Len(taken) \in Nat
    BY <1>1, <1>2, <2>1 DEF Queued, Done, Histories
  <2>3. \A s \in Slots : Ahead(s)' = Ahead(s) /\ ~(Ahead(s) < 0)
    <3>1. rptr \in Slots
      BY <1>2 DEF TypeOK
    <3> QED
      BY <1>1, <1>3, <3>1 DEF Ahead
  <2>4. arrived - Done = 0
    BY <2>2
  <2>5. \A s \in Slots : ~ready[s]
    BY <2>1, <2>3, <2>4 DEF Queued
  <2>6. \A s \in Slots : ~rd[s]
    BY <1>4, <2>5
  <2>7. /\ taken = [i \in 1 .. Len(taken) |-> i]
        /\ Len(taken) <= arrived /\ arrived - Len(taken) <= N
    BY <2>1, <2>2 DEF Queued
  <2> QED
    BY <1>1, <2>2, <2>3, <2>4, <2>6, <2>7 DEF Queued
<1> QED
  BY <1>1, <1>5, <1>6, <1>7, <1>8, ReaderStep DEF KeyboardInv, device, driver

\* Both pointers start again at the first slot, where the next code will wait.
LEMMA InitBufferPointersStep ==
  ASSUME KeyboardInv, InitBufferPointers
  PROVE  KeyboardInv'
<1>1. /\ pc = "clear" /\ wptr' = 0 /\ rptr' = 0 /\ slot' = 0 /\ pc' = "translate"
      /\ UNCHANGED <<wire, held, led, events, keybuf, kstate, cmd, ring, ready, temp,
                     shell, line, arrived, taken, kept>>
  BY DEF InitBufferPointers, device, driver
<1>2. /\ TypeOK /\ Histories /\ TakenOnce /\ Numbered(ring, ready, arrived)
      /\ kept => Queued(ring, ready, wptr, arrived)
  BY DEF KeyboardInv
<1>3. N \in Nat \ {0} /\ Slots = 0 .. N - 1 /\ 0 \in Slots /\ 0 \in 0 .. N
  BY Names
<1>4. TypeOK'
  BY <1>1, <1>2, <1>3 DEF TypeOK
<1>5. Histories' /\ TakenOnce'
  BY <1>1, <1>2 DEF Histories, TakenOnce
<1>6. Numbered(ring, ready, arrived)'
  BY <1>1, <1>2 DEF Numbered
<1>7. ASSUME kept' PROVE Queued(ring, ready, wptr, arrived)'
  <2>1. Queued(ring, ready, wptr, arrived)
    BY <1>1, <1>2, <1>7
  <2>2. arrived = Len(taken) /\ Done = Len(taken) /\ Done' = Len(taken) /\ Len(taken) \in Nat
    BY <1>1, <1>2, <2>1 DEF Queued, Done, Histories
  <2>3. arrived - Done = 0
    BY <2>2
  <2>4. \A s \in Slots : ~(Ahead(s) < 0) /\ Ahead(s)' = s
    <3>1. rptr \in Slots
      BY <1>2 DEF TypeOK
    <3> QED
      BY <1>1, <1>3, <3>1 DEF Ahead
  <2>5. \A s \in Slots : ~ready[s]
    BY <2>1, <2>3, <2>4 DEF Queued
  <2>6. \A s \in Slots : ~(s < 0)
    BY <1>3
  <2>7. /\ taken = [i \in 1 .. Len(taken) |-> i]
        /\ Len(taken) <= arrived /\ arrived - Len(taken) <= N
    BY <2>1, <2>2 DEF Queued
  <2>8. 0 = IF 0 + 0 < N THEN 0 + 0 ELSE 0 + 0 - N
    BY <1>3
  <2> QED
    BY <1>1, <2>2, <2>3, <2>4, <2>5, <2>6, <2>7, <2>8 DEF Queued
<1> QED
  BY <1>1, <1>4, <1>5, <1>6, <1>7, ReaderStep DEF KeyboardInv, device, driver

\* A character goes into the shell's line only if there is room for it.
LEMMA TranslateStep ==
  ASSUME KeyboardInv, Translate
  PROVE  KeyboardInv'
<1>1. /\ pc = "translate" /\ pc' = "getkey" /\ temp' = NoCode
      /\ UNCHANGED <<wire, held, led, events, keybuf, kstate, cmd, ring, ready, wptr, rptr,
                     slot, arrived, taken, kept>>
  BY DEF Translate, device, driver
<1>2. /\ TypeOK /\ Histories /\ TakenOnce /\ Numbered(ring, ready, arrived)
      /\ kept => Queued(ring, ready, wptr, arrived)
  BY DEF KeyboardInv
<1>3. shell' \in {"press", "line"} /\ line' \in Seq(Printing \X BOOLEAN) /\ Len(line') <= LineMax
  <2> DEFINE L == Printing \X BOOLEAN
  <2>1. /\ line \in Seq(L) /\ Len(line) <= LineMax /\ shell \in {"press", "line"}
        /\ LineMax \in Nat /\ Len(line) \in Nat
    BY <1>2, KeyboardAssumption DEF TypeOK
  <2>2. CASE temp.key \in Modifiers \cup {"zero"}
    BY <2>1, <2>2 DEF Translate
  <2>3. CASE temp.key \notin Modifiers \cup {"zero"}
    <3> DEFINE c == ToAscii(temp.key)
    <3>1. line' = Shell(c) /\ shell' = "line"
      BY <2>3 DEF Translate
    <3>2. temp.key \in Printing \cup {"enter", "backspace"}
      <4>1. temp.key \in Keys \cup {Code(k) : k \in Keys} \cup {"zero"}
        BY <1>2 DEF TypeOK, Codes
      <4>2. \A k \in Keys : Code(k) = k \/ Code(k) \in Modifiers
        BY DEF Code, Modifiers
      <4> QED
        BY <2>3, <4>1, <4>2, KeyboardAssumption
    <3>3. \/ c[1] \in {"newline", "erase"}
          \/ c \in L /\ c[1] \notin {"newline", "erase"}
      BY <3>2 DEF ToAscii, Printing
    <3> HIDE DEF c, L
    <3>4. Shell(c) \in Seq(L) /\ Len(Shell(c)) <= LineMax
      <4>1. <<>> \in Seq(L) /\ Len(<<>>) = 0
        OBVIOUS
      <4>2. line # <<>> => Front(line) \in Seq(L) /\ Len(Front(line)) = Len(line) - 1
        <5> SUFFICES ASSUME line # <<>>
                     PROVE  Front(line) \in Seq(L) /\ Len(Front(line)) = Len(line) - 1
          OBVIOUS
        <5>1. Len(line) > 0
          BY <2>1, EmptySeq
        <5> DEFINE m == Len(line) - 1
        <5>2. m \in Nat /\ 1 \in Int /\ m \in Int /\ Front(line) = SubSeq(line, 1, m)
          BY <2>1, <5>1 DEF Front
        <5>3. \A i \in 1 .. m : line[i] \in L
          <6> TAKE i \in 1 .. m
          <6>1. i \in 1 .. Len(line)
            BY <2>1
          <6> QED
            BY <2>1, <6>1
        <5> HIDE DEF m
        <5>4. SubSeq(line, 1, m) \in Seq(L) /\ Len(SubSeq(line, 1, m)) = m
          <6>1. /\ SubSeq(line, 1, m) \in Seq(L)
                /\ Len(SubSeq(line, 1, m)) = IF 1 <= m THEN m - 1 + 1 ELSE 0
            BY <5>2, <5>3, SubSeqProperties
          <6> QED
            BY <5>2, <6>1
        <5> QED
          BY <5>2, <5>4 DEF m
      <4>3. c \in L /\ Len(line) < LineMax =>
              Append(line, c) \in Seq(L) /\ Len(Append(line, c)) = Len(line) + 1
        BY <2>1
      <4>4. CASE shell = "press" \/ c[1] = "newline"
        BY <2>1, <4>1, <4>4 DEF Shell
      <4>5. CASE shell # "press" /\ c[1] = "erase"
        <5>1. Shell(c) = IF line = <<>> THEN <<>> ELSE Front(line)
          BY <4>5 DEF Shell
        <5> QED
          BY <2>1, <4>1, <4>2, <5>1
      <4>6. CASE shell # "press" /\ c[1] \notin {"newline", "erase"}
        <5>1. Shell(c) = IF Len(line) < LineMax THEN Append(line, c) ELSE line
          BY <4>6 DEF Shell
        <5> QED
          BY <2>1, <3>3, <4>3, <4>6, <5>1
      <4> QED
        BY <4>4, <4>5, <4>6
    <3> QED
      BY <3>1, <3>4 DEF L
  <2> QED
    BY <2>2, <2>3
<1>4. TypeOK'
  BY <1>1, <1>2, <1>3, Names DEF TypeOK
<1>5. Histories' /\ TakenOnce'
  BY <1>1, <1>2 DEF Histories, TakenOnce
<1>6. Numbered(ring, ready, arrived)'
  BY <1>1, <1>2 DEF Numbered
<1>7. (kept => Queued(ring, ready, wptr, arrived))'
  BY <1>1, <1>2 DEF Queued, Done, Ahead
<1> QED
  BY <1>1, <1>4, <1>5, <1>6, <1>7, ReaderStep DEF KeyboardInv, device, driver

-------------------------------------------------------------------------------
(* The theorems.                                                           *)

\* Before the first key.
LEMMA KeyboardStarts == Init => KeyboardInv
<1> SUFFICES ASSUME Init PROVE KeyboardInv
  OBVIOUS
<1>1. N \in Nat \ {0} /\ Slots = 0 .. N - 1 /\ 0 \in Slots /\ NoCode \in Codes
      /\ LineMax \in Nat /\ 0 \in 0 .. N
  BY Names, KeyboardAssumption
<1>2. /\ <<>> \in Seq({"e0", "f0", "ack"} \cup {Code(k) : k \in Keys})
      /\ <<>> \in Seq({"e0", "f0"}) /\ <<>> \in Seq(Printing \X BOOLEAN)
      /\ <<>> \in Seq(Sendable) /\ <<>> \in Seq(Nat) /\ Len(<<>>) = 0
  OBVIOUS
<1>3. /\ ring = [i \in Slots |-> NoCode] /\ ready = [i \in Slots |-> FALSE]
      /\ wire = <<>> /\ held = {} /\ led = FALSE /\ wptr = 0 /\ rptr = 0
      /\ keybuf = <<>> /\ kstate = {} /\ cmd = 0 /\ pc = "getkey" /\ temp = NoCode
      /\ slot = 0 /\ shell = "press" /\ line = <<>> /\ arrived = 0 /\ taken = <<>> /\ kept = TRUE
  BY DEF Init
<1>4. TypeOK
  BY <1>1, <1>2, <1>3 DEF TypeOK
<1>5. Histories /\ TakenOnce /\ LedShowsCaps /\ Framed(keybuf, wire)
      /\ Numbered(ring, ready, arrived)
  <2>1. \A s \in Slots : ~ready[s]
    BY <1>3
  <2>2. DOMAIN taken = {} /\ 1 .. Len(wire) = {}
    BY <1>2, <1>3
  <2>3. Histories
    BY <1>2, <1>3 DEF Histories
  <2>4. TakenOnce /\ Numbered(ring, ready, arrived)
    BY <2>1, <2>2 DEF TakenOnce, Numbered
  <2>5. LedShowsCaps
    <3>1. ("CAPS" \in kstate) = FALSE /\ led = FALSE
      BY <1>3
    <3> QED
      BY <3>1, Zenon DEF LedShowsCaps
  <2>6. Framed(keybuf, wire)
    BY <1>2, <1>3, <2>2 DEF Framed
  <2> QED
    BY <2>3, <2>4, <2>5, <2>6
<1>6. Queued(ring, ready, wptr, arrived)
  <2>1. Done = 0 /\ arrived - Done = 0 /\ Len(taken) = 0
    <3>1. pc # "reset" /\ Len(taken) = 0 /\ arrived = 0
      BY <1>3
    <3>2. Done = Len(taken)
      BY <3>1, Zenon DEF Done
    <3>3. Done = 0
      BY <3>1, <3>2
    <3> QED
      BY <3>1, <3>3
  <2>2. \A s \in Slots : Ahead(s) = s /\ ~(s < 0)
    BY <1>1, <1>3 DEF Ahead
  <2>3. taken = [i \in 1 .. Len(taken) |-> i]
    BY <1>3, <2>1
  <2>4. wptr = IF rptr + 0 < N THEN rptr + 0 ELSE rptr + 0 - N
    BY <1>1, <1>3
  <2> QED
    BY <1>1, <1>3, <2>1, <2>2, <2>3, <2>4 DEF Queued
<1> QED
  BY <1>4, <1>5, <1>6 DEF KeyboardInv

\* Every step, and a step of something else.
LEMMA KeyboardNext == KeyboardInv /\ [Next]_vars => KeyboardInv'
<1> SUFFICES ASSUME KeyboardInv, [Next]_vars PROVE KeyboardInv'
  OBVIOUS
<1>1. ASSUME NEW k \in Keys, Press(k) \/ Release(k) PROVE KeyboardInv'
  BY <1>1, KeyStep
<1>2. ASSUME NEW n \in 1 .. Len(wire), ps2_handler(n) PROVE KeyboardInv'
  BY <1>2, HandlerStep
<1>3. CASE GetkeyTest
  BY <1>3, GetkeyTestStep
<1>4. CASE GetkeyReset
  BY <1>4, GetkeyResetStep
<1>5. CASE InitBufferSlot
  BY <1>5, InitBufferSlotStep
<1>6. CASE InitBufferPointers
  BY <1>6, InitBufferPointersStep
<1>7. CASE Translate
  BY <1>7, TranslateStep
<1>8. CASE UNCHANGED vars
  <2>1. UNCHANGED <<wire, held, led, events, keybuf, kstate, cmd, pc, temp, slot, rptr, shell,
                    line, taken, ring, ready, wptr, arrived, kept>>
    BY <1>8 DEF vars, device, driver, reader
  <2>2. TypeOK' /\ Framed(keybuf, wire)'
    BY <2>1 DEF KeyboardInv, TypeOK, Framed
  <2> QED
    BY <2>1, <2>2, RingUntouched DEF KeyboardInv
<1> QED
  BY <1>1, <1>2, <1>3, <1>4, <1>5, <1>6, <1>7, <1>8 DEF Next

\* The invariant holds of every behaviour of the keyboard, its handler and the
\* shell that reads it.
THEOREM KeyboardInvariance == Spec => []KeyboardInv
<1> QED
  BY KeyboardStarts, KeyboardNext, PTL DEF Spec

\* The pointers of init_buffer, ps2_handler and kernel_getkey stay in the ring,
\* key_buffer holds at most two bytes, and the shell's line stays in its buffer.
THEOREM KeyboardTypes == Spec => []TypeOK
<1>1. KeyboardInv => TypeOK
  BY DEF KeyboardInv
<1> QED
  BY <1>1, KeyboardInvariance, PTL

\* The slots less than m ahead of the reader are m slots.
LEMMA AheadCount ==
  ASSUME rptr \in Slots, NEW m \in 0 .. N
  PROVE  Cardinality({s \in Slots : Ahead(s) < m}) = m
<1> DEFINE W == {s \in Slots : Ahead(s) < m}
<1>1. N \in Nat \ {0} /\ Slots = 0 .. N - 1 /\ m \in Nat /\ rptr \in Nat /\ m <= N /\ rptr < N
  BY Names
<1>2. \A s \in Slots : Ahead(s) = IF s >= rptr THEN s - rptr ELSE s - rptr + N
  BY DEF Ahead
<1>3. CASE rptr + m <= N
  <2> DEFINE b == rptr + m - 1
  <2>1. W = rptr .. b
    BY <1>1, <1>2, <1>3
  <2>2. b \in Int /\ rptr \in Int /\ (IF rptr > b THEN 0 ELSE b - rptr + 1) = m
    BY <1>1
  <2> HIDE DEF b
  <2>3. Cardinality(rptr .. b) = m
    BY <2>2, FS_Interval
  <2> QED
    BY <2>1, <2>3
<1>4. CASE rptr + m > N
  <2> DEFINE b == N - 1
             c == rptr + m - N - 1
             B == rptr .. b
             C == 0 .. c
  <2>1. W = B \cup C /\ B \cap C = {}
    BY <1>1, <1>2, <1>4
  <2>2. /\ b \in Int /\ c \in Int /\ rptr \in Int /\ 0 \in Int
        /\ (IF rptr > b THEN 0 ELSE b - rptr + 1) = N - rptr
        /\ (IF 0 > c THEN 0 ELSE c - 0 + 1) = rptr + m - N
    BY <1>1, <1>4
  <2> HIDE DEF b, c
  <2>3. IsFiniteSet(B) /\ Cardinality(B) = N - rptr
    BY <2>2, FS_Interval
  <2>4. IsFiniteSet(C) /\ Cardinality(C) = rptr + m - N
    BY <2>2, FS_Interval
  <2> HIDE DEF B, C, W
  <2>5. Cardinality(B \cup C) = Cardinality(B) + Cardinality(C) - Cardinality(B \cap C)
    BY <2>3, <2>4, FS_Union
  <2>6. Cardinality(B \cap C) = 0
    BY <2>1, FS_EmptySet
  <2>7. Cardinality(W) = m
    BY <1>1, <2>1, <2>3, <2>4, <2>5, <2>6
  <2> QED
    BY <2>7 DEF W
<1> QED
  BY <1>1, <1>3, <1>4

\* No code is read twice, and as long as none was lost in one of the three known
\* ways kernel_getkey returns them in the order ps2_handler stored them.
THEOREM KeyboardKeysAsTyped == Spec => []KeysAsTyped
<1>1. ASSUME KeyboardInv PROVE KeysAsTyped
  <2>1. /\ TakenOnce /\ rptr \in Slots /\ arrived \in Nat /\ Len(taken) \in Nat
        /\ (pc = "reset" => Len(taken) > 0)
    BY <1>1 DEF KeyboardInv, TypeOK, Histories
  <2>2. ASSUME kept
        PROVE  /\ taken = [i \in 1 .. Len(taken) |-> i]
               /\ Cardinality({i \in Slots : ready[i]})
                    = arrived - Len(taken) + (IF pc = "reset" THEN 1 ELSE 0)
    <3> DEFINE m == arrived - Done
    <3>1. Queued(ring, ready, wptr, arrived)
      BY <1>1, <2>2 DEF KeyboardInv
    <3>2. /\ taken = [i \in 1 .. Len(taken) |-> i] /\ Len(taken) <= arrived /\ m <= N
          /\ \A s \in Slots : ready[s] <=> Ahead(s) < m
      BY <3>1 DEF Queued
    <3>3. m = arrived - Len(taken) + (IF pc = "reset" THEN 1 ELSE 0) /\ m \in 0 .. N
      BY <2>1, <3>2, Names DEF Done
    <3> HIDE DEF m
    <3>4. {i \in Slots : ready[i]} = {s \in Slots : Ahead(s) < m}
      BY <3>2
    <3> QED
      BY <2>1, <3>2, <3>3, <3>4, AheadCount
  <2> QED
    BY <2>1, <2>2 DEF KeysAsTyped, TakenOnce
<1> QED
  BY <1>1, KeyboardInvariance, PTL

\* However presses of caps lock and ACKs overlap, the LED ps2_handler sets shows
\* its state whenever no answer is due.
THEOREM KeyboardLed == Spec => []LedShowsCaps
<1>1. KeyboardInv => LedShowsCaps
  BY DEF KeyboardInv
<1> QED
  BY <1>1, KeyboardInvariance, PTL
===============================================================================
