------------------------------ MODULE Keyboard ------------------------------
(***************************************************************************)
(* kernel/src/keyboard.c: handle_key decodes one byte per interrupt and    *)
(* keeps what it needs between bytes in previous_key and modifiers.  The   *)
(* keyboard itself (external) sends a sequence of bytes when a key goes    *)
(* down or up, into a buffer that the interrupts empty in order.           *)
(*                                                                         *)
(* A byte is [code, up]: the code of the key and the bit that says that it *)
(* goes up; the prefix 0xE0 is a byte of its own.                          *)
(***************************************************************************)
EXTENDS Integers, Sequences

CONSTANTS
    Keys,         \* the keys that are used
    KeyBuffer     \* bytes that the keyboard holds

VARIABLES
    modifiers, previous_key, current_tty,   \* the state of handle_key
    keysDown,     \* the keys that are held
    keyBytes,     \* sent and not yet handled
    keyLost,      \* history: a byte was sent into a full buffer
    chosenTty     \* history: the digit last pressed with Ctrl and without Shift

keyboardVars == <<modifiers, previous_key, current_tty, keysDown, keyBytes, keyLost, chosenTty>>

\* 0xE0 is the prefix and no key's code.
ASSUME KeyboardAssumption == "E0" \notin Keys /\ KeyBuffer \in Nat

Down(code) == [code |-> code, up |-> FALSE]
Up(code) == [code |-> code, up |-> TRUE]
E0 == [code |-> "E0", up |-> TRUE]
E1 == [code |-> "E1", up |-> TRUE]

(* The bytes of each key.  The keys on the right send the codes of those on
   the left behind the prefix; Print Screen also sends a shift that nobody
   has pressed; Pause, which has no release, sends a Ctrl. *)
Prefixed == [RightAlt |-> "Alt", RightCtrl |-> "Ctrl", Left |-> "Left_Arrow"]

Press(k) ==
    IF k = "PrintScreen" THEN <<E0, Down("LeftShift"), E0, Down("37")>>
    ELSE IF k \in DOMAIN Prefixed THEN <<E0, Down(Prefixed[k])>>
    ELSE <<Down(k)>>

Release(k) ==
    IF k = "PrintScreen" THEN <<E0, Up("37"), E0, Up("LeftShift")>>
    ELSE IF k \in DOMAIN Prefixed THEN <<E0, Up(Prefixed[k])>>
    ELSE <<Up(k)>>

PausePressed == <<E1, Down("Ctrl"), Down("45"), E1, Up("Ctrl"), Up("45")>>

-----------------------------------------------------------------------------
KeyboardInit ==
    /\ modifiers = {} /\ previous_key = "none" /\ current_tty = "1"
    /\ keysDown = {} /\ keyBytes = <<>> /\ keyLost = FALSE /\ chosenTty = "1"

\* As much as there is room for.  The run ends with the first lost byte.
Send(bytes) ==
    LET room == KeyBuffer - Len(keyBytes)
        n == IF Len(bytes) <= room THEN Len(bytes) ELSE room
    IN  /\ ~keyLost
        /\ keyBytes' = keyBytes \o SubSeq(bytes, 1, n)
        /\ keyLost' = (n < Len(bytes))
        /\ UNCHANGED <<modifiers, previous_key, current_tty>>

Digits == {"1", "2"}
Shifts == {"LeftShift", "RightShift"}

KeyPressed(k) ==
    /\ k \notin keysDown /\ keysDown' = keysDown \cup {k}
    /\ Send(Press(k))
    /\ chosenTty' = IF k \in Digits /\ "Ctrl" \in keysDown /\ keysDown \cap Shifts = {}
                    THEN k ELSE chosenTty

KeyReleased(k) ==
    /\ k \in keysDown /\ keysDown' = keysDown \ {k}
    /\ Send(Release(k))
    /\ UNCHANGED chosenTty

\* With a Ctrl held, the key sends a prefixed code instead.
KeyPause ==
    /\ keysDown \cap {"Ctrl", "RightCtrl"} = {}
    /\ Send(PausePressed)
    /\ UNCHANGED <<keysDown, chosenTty>>

-----------------------------------------------------------------------------
Modifiers == {"LeftShift", "RightShift", "Alt", "Ctrl"}

\* Mutant: the prefix is forgotten only by the arrow keys.
PrefixStays(byte) ==
    IF previous_key = "E0" /\ byte.code = "Left_Arrow" THEN "none" ELSE previous_key

\* previous_key after a byte that is not taken for the prefix.
PrefixAfter(byte) == "none"

\* The first branch of handle_key: the prefix is only remembered.
HandlePrefix ==
    /\ keyBytes # <<>> /\ Head(keyBytes) = E0 /\ previous_key = "none"
    /\ previous_key' = "E0"
    /\ keyBytes' = Tail(keyBytes)
    /\ UNCHANGED <<modifiers, current_tty, keysDown, keyLost, chosenTty>>

\* The rest: a code behind the prefix changes no modifier; Translate knows
\* only keys that go down, and makes a digit no digit when Shift is held.
\* The terminal of the digit is shown when Ctrl is held.
HandleKey ==
    LET byte == Head(keyBytes)
        held == modifiers \ {"KeyUp", "KeyDown"}
    IN  /\ keyBytes # <<>> /\ ~(byte = E0 /\ previous_key = "none")
        /\ modifiers' = {IF byte.up THEN "KeyUp" ELSE "KeyDown"} \cup
             (IF previous_key = "E0" \/ byte.code \notin Modifiers THEN held
              ELSE IF byte.up THEN held \ {byte.code} ELSE held \cup {byte.code})
        /\ previous_key' = PrefixAfter(byte)
        /\ current_tty' = IF /\ ~byte.up /\ byte.code \in Digits
                             /\ modifiers' \cap Shifts = {} /\ "Ctrl" \in modifiers'
                          THEN byte.code ELSE current_tty
        /\ keyBytes' = Tail(keyBytes)
        /\ UNCHANGED <<keysDown, keyLost, chosenTty>>

KeyboardNext ==
    \/ \E k \in Keys : KeyPressed(k) \/ KeyReleased(k)
    \/ KeyPause \/ HandlePrefix \/ HandleKey

KeyboardSpec == KeyboardInit /\ [][KeyboardNext]_keyboardVars

-----------------------------------------------------------------------------
(***************************************************************************)
(* The modifiers are the keys: when every byte has been handled and none   *)
(* was lost, handle_key believes exactly those modifier keys held that     *)
(* are, it does not wait behind a prefix, and the terminal shown is the    *)
(* one chosen last, however keys went down and up in between, the shift    *)
(* and the Ctrl that Print Screen and Pause send included.                 *)
(***************************************************************************)
ModifiersMatch ==
    (keyBytes = <<>> /\ ~keyLost) =>
        /\ modifiers \cap Modifiers = keysDown \cap Modifiers
        /\ previous_key = "none"
        /\ current_tty = chosenTty
=============================================================================
