------------------------------ MODULE Keyboard ------------------------------
(***************************************************************************)
(* src/src/kernel/keyboard.c: from the bytes of the keyboard controller to *)
(* inputs with modifiers.  One key stands for each way keyScanned treats a *)
(* code; bytes are a code and whether it is the release (bit 7).  The user *)
(* and the controller are the environment; what the user meant is kept in  *)
(* history variables.                                                      *)
(***************************************************************************)
EXTENDS Integers, Sequences

CONSTANTS Keys,        \* the keys there are
          MaxPresses,  \* bound: presses and repeats
          MaxBytes     \* bound: bytes on their way

\* Where a key is found: [code, esc (sent after e0), kind].
Key == [shiftL |-> [code |-> "2a", esc |-> FALSE, kind |-> "shift"],
        shiftR |-> [code |-> "36", esc |-> FALSE, kind |-> "shift"],
        ctrlL  |-> [code |-> "1d", esc |-> FALSE, kind |-> "ctrl"],
        ctrlR  |-> [code |-> "1d", esc |-> TRUE,  kind |-> "ctrl"],
        altL   |-> [code |-> "38", esc |-> FALSE, kind |-> "alt"],
        altR   |-> [code |-> "38", esc |-> TRUE,  kind |-> "alt"],
        caps   |-> [code |-> "3a", esc |-> FALSE, kind |-> "caps"],
        a      |-> [code |-> "1e", esc |-> FALSE, kind |-> "char"],
        one    |-> [code |-> "02", esc |-> FALSE, kind |-> "char"],
        eight  |-> [code |-> "48", esc |-> FALSE, kind |-> "char"],
        up     |-> [code |-> "48", esc |-> TRUE,  kind |-> "char"]]

ASSUME KeyboardAssumption ==
    Keys \subseteq DOMAIN Key /\ {MaxPresses, MaxBytes} \subseteq Nat

Byte(c, up) == [code |-> c, up |-> up]
E0  == Byte("e0", FALSE)
Ack == Byte("fa", FALSE)

VARIABLES
    shift_down, ctrl_down, alt_down, caps_lock_on, last_e0,
    wire,       \* bytes irq1 has not read
    kbd_buf,    \* bytes irq1 has read and process_keys has not handled
    held,       \* the keys held down
    latest,     \* the key the keyboard repeats, "none"
    presses,
    capsMeant,  \* history: how often Caps Lock was pressed, modulo 2
    due,        \* history: inputs meant and not delivered yet
    wrong,      \* history: an input was delivered that was not due
    lost,       \* history: kbd_cmd took a scan code for the answer
    mixed       \* history: two keys of one modifier were held, or Caps
                \* Lock for so long that it was repeated

kbdVars == <<shift_down, ctrl_down, alt_down, caps_lock_on, last_e0, wire, kbd_buf,
             held, latest, presses, capsMeant, due, wrong, lost, mixed>>

flagVars == <<shift_down, ctrl_down, alt_down, caps_lock_on, last_e0>>

----------------------------------------------------------------------------
(* What the user does.                                                      *)

Holding(kind) == \E k \in held : Key[k].kind = kind

Input(key, shift, ctrl, alt) == [key |-> key, shift |-> shift, ctrl |-> ctrl, alt |-> alt]

Symbol(code, upper) ==
    CASE code = "1e" -> IF upper THEN "A" ELSE "a"
      [] code = "02" -> IF upper THEN "!" ELSE "1"
      [] code = "48" -> "8"

Meant(k) ==
    LET shift == Holding("shift")
        upper == IF k = "a" THEN shift # capsMeant ELSE shift
    IN  Input(IF k = "up" THEN "up" ELSE Symbol(Key[k].code, upper),
              shift, Holding("ctrl"), Holding("alt"))

\* The shifts a keyboard pretends around an escaped key, to undo Num Lock.
Fakes(k) ==
    IF Key[k].esc /\ Key[k].kind = "char"
    THEN {<<>>} \cup {<<E0, Byte("2a", up)>> : up \in BOOLEAN} ELSE {<<>>}

Bytes(k, up) == (IF Key[k].esc THEN <<E0>> ELSE <<>>) \o <<Byte(Key[k].code, up)>>

Sent(bytes) ==
    /\ wire' = wire \o bytes
    /\ Len(wire') + Len(kbd_buf) <= MaxBytes

Press(k) ==
    /\ k \in held => k = latest                   \* then it is a repeat
    /\ presses < MaxPresses
    /\ presses' = presses + 1
    /\ \E fake \in Fakes(k) : Sent(fake \o Bytes(k, FALSE))
    /\ held' = held \cup {k}
    /\ latest' = k
    /\ capsMeant' = IF k = "caps" THEN ~capsMeant ELSE capsMeant
    /\ due' = IF Key[k].kind = "char" THEN Append(due, Meant(k)) ELSE due
    /\ mixed' = \/ mixed
                \/ k = "caps" /\ k \in held
                \/ Key[k].kind # "char" /\ \E j \in held : Key[j].kind = Key[k].kind /\ j # k
    /\ UNCHANGED <<flagVars, kbd_buf, wrong, lost>>

Release(k) ==
    /\ k \in held
    /\ \E fake \in Fakes(k) : Sent(Bytes(k, TRUE) \o fake)
    /\ held' = held \ {k}
    /\ latest' = IF latest = k THEN "none" ELSE latest
    /\ UNCHANGED <<flagVars, kbd_buf, presses, capsMeant, due, wrong, lost, mixed>>

----------------------------------------------------------------------------
(* The kernel.                                                              *)

\* irq1_kbd.
Irq1 ==
    /\ wire # <<>>
    /\ kbd_buf' = Append(kbd_buf, Head(wire))
    /\ wire' = Tail(wire)
    /\ UNCHANGED <<flagVars, held, latest, presses, capsMeant, due, wrong, lost, mixed>>

\* kbd_cmd, with interrupts off: up to three times two bytes are sent, each
\* of which the keyboard acknowledges, and one byte is read for an answer.
Answer(n) == IF n <= Len(wire) THEN wire[n] ELSE Ack

Tries == CHOOSE n \in 1..3 :
    /\ n = 3 \/ Answer(n) = Ack
    /\ \A m \in 1..(n - 1) : Answer(m) # Ack

KbdCmd ==
    /\ wire' = SubSeq(wire \o [n \in 1..(2 * Tries) |-> Ack], Tries + 1, Len(wire) + 2 * Tries)
    /\ lost' = (lost \/ \E n \in 1..Tries : Answer(n) # Ack)

\* gotInput: every listener gets the input; the console is the only one.
GotInput(key) ==
    LET i == Input(key, shift_down, ctrl_down, alt_down)
    IN  /\ wrong' = (wrong \/ due = <<>> \/ Head(due) # i)
        /\ due' = IF due = <<>> THEN due ELSE Tail(due)

NoInput == UNCHANGED <<due, wrong>>
NoCmd   == UNCHANGED <<wire, lost>>

\* Mutant: fake shifts are taken for shifts.
NoFakeShift(b) == FALSE

FakeShift(b) == b.code \in {"2a", "36"}

\* The codes that mean something else after e0: 48 for all the keys next to
\* the keypad, whose release is not among them.
EscHandled(b) == b = Byte("48", FALSE)

\* Mutant: the switch on an escaped key leaves the flag on.
ScanEscapedKept(b) ==
    /\ IF EscHandled(b) THEN GotInput("up") ELSE NoInput
    /\ UNCHANGED flagVars
    /\ NoCmd

\* keyScanned when e0 came before and it returns early.
ScanEscaped(b) ==
    /\ IF EscHandled(b) THEN GotInput("up") ELSE NoInput
    /\ last_e0' = (b = E0)
    /\ UNCHANGED <<shift_down, ctrl_down, alt_down, caps_lock_on>>
    /\ NoCmd

\* The second switch of keyScanned.
ScanPlain(b) ==
    /\ shift_down' = IF b.code \in {"2a", "36"} THEN ~b.up ELSE shift_down
    /\ ctrl_down' = IF b.code = "1d" THEN ~b.up ELSE ctrl_down
    /\ alt_down' = IF b.code = "38" THEN ~b.up ELSE alt_down
    /\ caps_lock_on' = IF b = Byte("3a", FALSE) THEN ~caps_lock_on ELSE caps_lock_on
    /\ IF b = Byte("3a", FALSE) THEN KbdCmd ELSE NoCmd
    /\ IF b.code \in {"1e", "02", "48"} /\ ~b.up
       THEN GotInput(Symbol(b.code, IF b.code = "1e" THEN shift_down # caps_lock_on
                                    ELSE shift_down))
       ELSE NoInput
    /\ last_e0' = (b = E0)

\* One call of keyScanned by process_keys.
KeyScanned ==
    /\ kbd_buf # <<>>
    /\ kbd_buf' = Tail(kbd_buf)
    /\ LET b == Head(kbd_buf)
       IN  IF last_e0 /\ (b = E0 \/ FakeShift(b) \/ EscHandled(b))
           THEN ScanEscaped(b) ELSE ScanPlain(b)
    /\ UNCHANGED <<held, latest, presses, capsMeant, mixed>>

----------------------------------------------------------------------------
\* init_keyboard has read one of two acknowledgements.
KbdInit ==
    /\ shift_down = FALSE /\ ctrl_down = FALSE /\ alt_down = FALSE
    /\ caps_lock_on = FALSE /\ last_e0 = FALSE
    /\ wire = <<Ack>> /\ kbd_buf = <<>>
    /\ held = {} /\ latest = "none" /\ presses = 0
    /\ capsMeant = FALSE /\ due = <<>>
    /\ wrong = FALSE /\ lost = FALSE /\ mixed = FALSE

KbdNext ==
    \/ \E k \in Keys : Press(k) \/ Release(k)
    \/ Irq1
    \/ KeyScanned

KbdSpec == KbdInit /\ [][KbdNext]_kbdVars

----------------------------------------------------------------------------
(* Properties                                                               *)

Quiet == wire = <<>> /\ kbd_buf = <<>>

\* A modifier is never stuck: when all bytes have been handled and kbd_cmd
\* has swallowed none, a flag that is set has a key that is held, fake
\* shifts, repeats and late acknowledgements notwithstanding.
NoStuckModifier ==
    Quiet /\ ~lost =>
        /\ shift_down => Holding("shift")
        /\ ctrl_down => Holding("ctrl")
        /\ alt_down => Holding("alt")

\* The console gets the inputs that were meant, in order, with the modifiers
\* that were held when the key went down, and in the end all of them.  One
\* flag stands for both shift keys, so two of them at a time are excluded.
AsTyped ==
    ~lost /\ ~mixed => ~wrong /\ (Quiet => due = <<>>)
=============================================================================
