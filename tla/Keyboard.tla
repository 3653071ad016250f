------------------------------ MODULE Keyboard ------------------------------
(***************************************************************************)
(* The PS/2 keyboard and its only reader, the shell's line.  ps2_handler   *)
(* runs with interrupts off and puts the keys into a ring; kernel_getkey   *)
(* takes them out with interrupts on, and clears the whole ring each time  *)
(* it has read the last slot.  Neither looks at the other's pointer.       *)
(***************************************************************************)
EXTENDS Integers, Sequences, FiniteSets, SequencesExt

CONSTANTS
  N,         \* slots of the ring, 32 in the code
  LineMax,   \* characters a command line takes, 63 in the code
  Keys,      \* the keys that are typed
  MaxEvents, \* bound: presses and releases
  MaxWire    \* bound: bytes on their way when a key is pressed or released

Modifiers == {"shift", "rshift", "ctrl", "rctrl", "alt", "ralt", "caps"}
Extended  == {"rctrl", "ralt"}
Printing  == {"a", "b"}

ASSUME KeyboardAssumption ==
  /\ N \in Nat \ {0} /\ LineMax \in Nat /\ MaxEvents \in Nat /\ MaxWire \in Nat
  /\ Keys \subseteq Printing \cup Modifiers \cup {"enter", "backspace"}

VARIABLES
  wire,      \* bytes the keyboard has sent and the handler has not read
  held,      \* the modifier keys that are down
  led,       \* the caps lock LED
  ring,      \* N slots [key, at]: a scan code and the number of its arrival
  ready, wptr, rptr,
  keybuf,    \* key_buffer: the bytes of the code that is being received
  kstate,    \* keyboard_state: a set of masks
  cmd,       \* keyboard_cmd_state
  pc, temp,  \* the reader: where it is, and the slot it has read
  slot,      \* the slot init_buffer clears next
  shell,     \* "press": before the first key;  "line": in the loop of menu
  line,      \* buf[0 .. buf_index - 1]
  events,    \* presses and releases so far
  arrived,   \* history: codes put into the ring so far
  taken,     \* history: the arrival numbers of the codes read
  kept       \* history: no code was lost in one of the three known ways

device == <<wire, held, led, events>>
driver == <<keybuf, kstate, cmd>>
reader == <<pc, temp, slot, rptr, shell, line, taken>>
vars   == <<device, driver, reader, ring, ready, wptr, arrived, kept>>

Slots  == 0 .. N - 1
NoCode == [key |-> "zero", at |-> 0]

\* init_buffer, before any interrupt; the shell waits for a first key.
Init ==
  /\ wire = <<>> /\ held = {} /\ led = FALSE /\ events = 0
  /\ ring = [i \in Slots |-> NoCode] /\ ready = [i \in Slots |-> FALSE]
  /\ wptr = 0 /\ rptr = 0
  /\ keybuf = <<>> /\ kstate = {} /\ cmd = 0
  /\ pc = "getkey" /\ temp = NoCode /\ slot = 0
  /\ shell = "press" /\ line = <<>>
  /\ arrived = 0 /\ taken = <<>> /\ kept = TRUE

(***************************************************************************)
(* The keyboard.  A code is its key's name, after "f0" for a release and   *)
(* "e0" for the keys on the right; the right shift key has a code of its   *)
(* own.  What is sent between an "f0" and its code is never an ACK.        *)
(***************************************************************************)
Code(k) == CASE k = "rctrl" -> "ctrl" [] k = "ralt" -> "alt" [] OTHER -> k
Sent(k, up) == (IF k \in Extended THEN <<"e0">> ELSE <<>>)
               \o (IF up THEN <<"f0">> ELSE <<>>) \o <<Code(k)>>

\* A key that is held may repeat.  (The handler drops the releases of other
\* keys than modifiers.)
Press(k) ==
  /\ events < MaxEvents /\ Len(wire) <= MaxWire
  /\ wire' = wire \o Sent(k, FALSE)
  /\ held' = held \cup ({k} \cap (Modifiers \ {"caps"}))
  /\ events' = events + 1
  /\ UNCHANGED <<led, driver, reader, ring, ready, wptr, arrived, kept>>

Release(k) ==
  /\ events < MaxEvents /\ Len(wire) <= MaxWire
  /\ k \in held
  /\ wire' = wire \o Sent(k, TRUE)
  /\ held' = held \ {k}
  /\ events' = events + 1
  /\ UNCHANGED <<led, driver, reader, ring, ready, wptr, arrived, kept>>

(***************************************************************************)
(* ps2_handler.  h holds what one run of it changes.                       *)
(***************************************************************************)
\* Slot wptr gets the code whether or not it was read.
Store(h, key) ==
  LET n == h.arrived + 1
  IN  [h EXCEPT !.ring[h.wptr] = [key |-> key, at |-> n],
                !.ready[h.wptr] = TRUE,
                !.wptr = (h.wptr + 1) % N,
                !.arrived = n,
                !.kept = @ /\ ~h.ready[h.wptr] /\ pc # "clear"]

\* The mask of the code a modifier key sends, and whether that is a release.
Mask(code) ==
  CASE code \in {<<"shift">>, <<"rshift">>, <<"f0", "shift">>, <<"f0", "rshift">>} -> {"SHIFT"}
    [] code \in {<<"ctrl">>, <<"e0", "ctrl">>, <<"f0", "ctrl">>, <<"e0", "f0", "ctrl">>} -> {"CTRL"}
    [] code \in {<<"alt">>, <<"e0", "alt">>, <<"f0", "alt">>, <<"e0", "f0", "alt">>} -> {"ALT"}
    [] OTHER -> {}
IsUp(code) == \E i \in DOMAIN code : code[i] = "f0"

\* Mutant: keyboard_cmd_state is not set.
SwitchUnasked(h, code) ==
  IF code = <<"caps">>
  THEN [h EXCEPT !.kstate = IF "CAPS" \in @ THEN @ \ {"CAPS"} ELSE @ \cup {"CAPS"},
                 !.answers = Append(@, "ack")]
  ELSE [h EXCEPT !.kstate = IF IsUp(code) THEN @ \ Mask(code) ELSE @ \cup Mask(code)]

\* The switch over key_buffer.  Caps lock asks the keyboard for an ACK.
Switch(h, code) ==
  IF code = <<"caps">>
  THEN [h EXCEPT !.kstate = IF "CAPS" \in @ THEN @ \ {"CAPS"} ELSE @ \cup {"CAPS"},
                 !.cmd = 1,
                 !.answers = Append(@, "ack")]
  ELSE [h EXCEPT !.kstate = IF IsUp(code) THEN @ \ Mask(code) ELSE @ \cup Mask(code)]

\* The first ACK is answered with the state of the LED, which the keyboard
\* takes and acknowledges once more.
Ack(h) ==
  IF h.cmd = 1
  THEN [h EXCEPT !.led = "CAPS" \in h.kstate, !.cmd = 0, !.answers = Append(@, "ack")]
  ELSE h

\* One pass of the loop.  A byte below 0x80 ends a code; only a code of one
\* byte goes into the ring.
Byte(h, b) ==
  IF b = "ack" THEN Ack(h)
  ELSE LET code == Append(h.keybuf, b)
       IN  IF b \in {"e0", "f0"}
           THEN [h EXCEPT !.keybuf = code]
           ELSE [Switch(IF Len(code) = 1 THEN Store(h, b) ELSE h, code)
                   EXCEPT !.keybuf = <<>>]

\* After an ACK the control register is not read again, so that the loop
\* reads one byte more even if there is none; an empty FIFO is taken to
\* read as zero.
BytesRead(bytes) == IF Last(bytes) = "ack" THEN Append(bytes, "zero") ELSE bytes

\* The loop: what it has made of the state after every byte.
Handled(bytes) ==
  LET start == [ring |-> ring, ready |-> ready, wptr |-> wptr, keybuf |-> keybuf,
                kstate |-> kstate, cmd |-> cmd, led |-> led, arrived |-> arrived,
                kept |-> kept, answers |-> <<>>]
      after[i \in 0 .. Len(bytes)] == IF i = 0 THEN start ELSE Byte(after[i - 1], bytes[i])
  IN  after[Len(bytes)]

\* The handler finds the first n bytes of what was sent.  (With an error
\* flagged in the control register it returns at once.)
ps2_handler(n) ==
  \E h \in {Handled(BytesRead(SubSeq(wire, 1, n)))} :
    /\ ring' = h.ring /\ ready' = h.ready /\ wptr' = h.wptr
    /\ keybuf' = h.keybuf /\ kstate' = h.kstate /\ cmd' = h.cmd
    /\ led' = h.led /\ arrived' = h.arrived /\ kept' = h.kept
    /\ wire' = SubSeq(wire, n + 1, Len(wire)) \o h.answers
    /\ UNCHANGED <<held, events, reader>>

(***************************************************************************)
(* kernel_getkey and kernel_getchar, with an interrupt between any two     *)
(* steps.  What no handler can see is one step with what follows it.       *)
(***************************************************************************)
\* With the slot not ready the caller polls: nothing changes.
GetkeyTest ==
  /\ pc = "getkey"
  /\ ready[rptr]
  /\ temp' = ring[rptr]
  /\ pc' = "reset"
  /\ taken' = Append(taken, ring[rptr].at)
  /\ UNCHANGED <<device, driver, ring, ready, wptr, rptr, slot, shell, line, arrived, kept>>

\* Mutant: the slot stays ready.
GetkeyUnreset ==
  /\ pc = "reset"
  /\ ready' = ready
  /\ kept' = (kept /\ (rptr + 1 = N => \A i \in Slots \ {rptr} : ~ready[i]))
  /\ IF rptr + 1 = N
     THEN pc' = "clear" /\ rptr' = rptr /\ slot' = 0
     ELSE pc' = "translate" /\ rptr' = rptr + 1 /\ slot' = slot
  /\ UNCHANGED <<device, driver, ring, wptr, temp, shell, line, arrived, taken>>

\* ready[buffer_rptr] = 0, and the pointer moves on.
GetkeyReset ==
  /\ pc = "reset"
  /\ ready' = [ready EXCEPT ![rptr] = FALSE]
  /\ kept' = (kept /\ (rptr + 1 = N => \A i \in Slots \ {rptr} : ~ready[i]))
  /\ IF rptr + 1 = N
     THEN pc' = "clear" /\ rptr' = rptr /\ slot' = 0
     ELSE pc' = "translate" /\ rptr' = rptr + 1 /\ slot' = slot
  /\ UNCHANGED <<device, driver, ring, wptr, temp, shell, line, arrived, taken>>

\* init_buffer: a slot after the other, then both pointers.
InitBufferSlot ==
  /\ pc = "clear"
  /\ slot \in Slots
  /\ ring' = [ring EXCEPT ![slot] = NoCode]
  /\ ready' = [ready EXCEPT ![slot] = FALSE]
  /\ slot' = slot + 1
  /\ UNCHANGED <<device, driver, wptr, rptr, pc, temp, shell, line, arrived, taken, kept>>

InitBufferPointers ==
  /\ pc = "clear"
  /\ slot = N
  /\ wptr' = 0 /\ rptr' = 0 /\ slot' = 0
  /\ pc' = "translate"
  /\ UNCHANGED <<device, driver, ring, ready, temp, shell, line, arrived, taken, kept>>

\* kernel_scantoascii uses the state of the modifiers at this moment.
ToAscii(key) ==
  CASE key = "enter" -> <<"newline", FALSE>>
    [] key = "backspace" -> <<"erase", FALSE>>
    [] OTHER -> <<key, ("CAPS" \in kstate) # ("SHIFT" \in kstate)>>

\* Mutant: the line is as long as it is.
ShellAll(c) ==
  IF shell = "press" \/ c[1] = "newline" THEN <<>>
  ELSE IF c[1] = "erase" THEN IF line = <<>> THEN <<>> ELSE Front(line)
  ELSE Append(line, c)

\* menu: what the shell does with a character.  The command of a line is not
\* part of this module: it takes no key.
Shell(c) ==
  IF shell = "press" \/ c[1] = "newline" THEN <<>>
  ELSE IF c[1] = "erase" THEN IF line = <<>> THEN <<>> ELSE Front(line)
  ELSE IF Len(line) < LineMax THEN Append(line, c) ELSE line

\* The codes of modifiers, and zero, have no character: the caller polls on.
Translate ==
  /\ pc = "translate"
  /\ pc' = "getkey"
  /\ temp' = NoCode
  /\ IF temp.key \in Modifiers \cup {"zero"}
     THEN UNCHANGED <<line, shell>>
     ELSE line' = Shell(ToAscii(temp.key)) /\ shell' = "line"
  /\ UNCHANGED <<device, driver, ring, ready, wptr, rptr, slot, arrived, taken, kept>>

Next ==
  \/ \E k \in Keys : Press(k) \/ Release(k)
  \/ \E n \in 1 .. Len(wire) : ps2_handler(n)
  \/ GetkeyTest \/ GetkeyReset \/ InitBufferSlot \/ InitBufferPointers \/ Translate

Spec == Init /\ [][Next]_vars

-----------------------------------------------------------------------------
Codes == [key : Keys \cup {Code(k) : k \in Keys} \cup {"zero"}, at : Nat]

\* The state has its type: the pointers stay in the ring and the line in its
\* buffer, at any interleaving of ps2_handler with kernel_getkey.
TypeOK ==
  /\ wire \in Seq({"e0", "f0", "ack"} \cup {Code(k) : k \in Keys})
  /\ held \subseteq Modifiers /\ led \in BOOLEAN
  /\ ring \in [Slots -> Codes] /\ ready \in [Slots -> BOOLEAN]
  /\ wptr \in Slots /\ rptr \in Slots /\ slot \in 0 .. N
  /\ keybuf \in Seq({"e0", "f0"}) /\ Len(keybuf) < 3
  /\ kstate \subseteq {"CAPS", "SHIFT", "CTRL", "ALT"} /\ cmd \in {0, 1}
  /\ pc \in {"getkey", "reset", "clear", "translate"} /\ temp \in Codes
  /\ shell \in {"press", "line"}
  /\ line \in Seq(Printing \X BOOLEAN) /\ Len(line) <= LineMax

\* No code is read twice, however slow the reader.  And as long as no code
\* arrived at a slot that was not read yet, or between the two steps of a
\* clearing, and none was waiting when the ring was cleared, the codes are
\* read in the order they were sent and every other one still waits.
KeysAsTyped ==
  /\ \A i, j \in DOMAIN taken : taken[i] = taken[j] => i = j
  /\ kept => /\ taken = [i \in 1 .. Len(taken) |-> i]
             /\ Cardinality({i \in Slots : ready[i]})
                  = arrived - Len(taken) + (IF pc = "reset" THEN 1 ELSE 0)

\* The LED shows the state of caps lock whenever no answer of the keyboard
\* is due, however the presses of the key and the ACKs overlap.
LedShowsCaps == cmd = 0 => led = ("CAPS" \in kstate)
=============================================================================
