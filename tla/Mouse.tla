------------------------------- MODULE Mouse --------------------------------
(***************************************************************************)
(* kernel/src/mouse.c: INIT_PS2_MOUSE sends the mouse two commands with    *)
(* interrupts off, each of which it answers with a byte, and reads twice;  *)
(* HANDLE_PS2_MOUSE then makes a packet of every three bytes.              *)
(*                                                                         *)
(* PS2_WAIT_READ does not wait: (!status)&1 is zero for every status but   *)
(* zero.  Either read may come before the answer and then takes whatever   *)
(* the port still shows; the answer stays behind for the first interrupt,  *)
(* and the handler throws exactly one byte away (skip).                    *)
(***************************************************************************)
EXTENDS Integers, Sequences

CONSTANTS
    Width,         \* display_width
    Moves,         \* the movements of a packet; Overflow is one
    Overflow,
    MouseBuffer,   \* bytes that the mouse holds
    MaxPackets     \* bound on the packets sent

VARIABLES
    mousePc,       \* the next step of INIT_PS2_MOUSE, or "on"
    answers,       \* answers that the mouse has still to send
    mouseBytes,    \* sent and not yet read: [packet, part, move], or Answer
    skip, fragments, mouse_x,   \* the state of HANDLE_PS2_MOUSE
    packets,       \* packets sent
    leftOver,      \* history: answers that INIT_PS2_MOUSE did not read
    mouseLost,     \* history: a packet was dropped by a full buffer
    decoded,       \* history: the packets last taken for one, part by part
    pointer        \* history: where the mouse really is

handlerVars == <<skip, fragments, mouse_x, decoded>>
mouseVars == <<mousePc, answers, mouseBytes, handlerVars, packets, leftOver, mouseLost, pointer>>

ASSUME MouseAssumption == Width \in Nat \ {0} /\ Moves \subseteq Int \cup {Overflow}

Clamp(x) == IF x < 0 THEN 0 ELSE IF x > Width - 1 THEN Width - 1 ELSE x
Answer == [packet |-> 0, part |-> 0, move |-> 0]
Moved(x, move) == IF move = Overflow THEN x ELSE Clamp(x + move)

-----------------------------------------------------------------------------
MouseInit ==
    /\ mousePc = "F6" /\ answers = 0 /\ mouseBytes = <<>>
    /\ skip = 1 /\ fragments = <<>> /\ mouse_x = 0 /\ decoded = <<>>
    /\ packets = 0 /\ leftOver = 0 /\ mouseLost = FALSE /\ pointer = 0

\* PS2_WRITE_PORT_2 of a command.
InitWrite ==
    /\ mousePc \in {"F6", "F4"}
    /\ mousePc' = IF mousePc = "F6" THEN "read_F6" ELSE "read_F4"
    /\ answers' = answers + 1
    /\ UNCHANGED <<mouseBytes, handlerVars, packets, leftOver, mouseLost, pointer>>

\* PS2_WAIT_READ: the byte that is there, or an old one.
InitRead ==
    /\ mousePc \in {"read_F6", "read_F4"}
    /\ mouseBytes' = IF mouseBytes = <<>> THEN <<>> ELSE Tail(mouseBytes)
    /\ mousePc' = IF mousePc = "read_F6" THEN "F4" ELSE "on"
    /\ leftOver' = IF mousePc = "read_F4" THEN answers + Len(mouseBytes') ELSE leftOver
    /\ UNCHANGED <<answers, handlerVars, packets, mouseLost, pointer>>

MouseAnswers ==
    /\ answers > 0
    /\ answers' = answers - 1 /\ mouseBytes' = Append(mouseBytes, Answer)
    /\ UNCHANGED <<mousePc, handlerVars, packets, leftOver, mouseLost, pointer>>

\* A movement, once the last command has been answered.
MouseMoves(move) ==
    LET packet == [i \in 1 .. 3 |-> [packet |-> packets + 1, part |-> i, move |-> move]]
        fits == Len(mouseBytes) + 3 <= MouseBuffer
    IN  /\ mousePc = "on" /\ answers = 0 /\ packets < MaxPackets
        /\ packets' = packets + 1
        /\ mouseBytes' = IF fits THEN mouseBytes \o packet ELSE mouseBytes
        /\ mouseLost' = (mouseLost \/ ~fits)
        /\ pointer' = Moved(pointer, move)
        /\ UNCHANGED <<mousePc, answers, handlerVars, leftOver>>

\* Mutant: the counter starts the next packet one byte late.
PacketOfFour == 4
PacketOfThree == 3

\* HANDLE_PS2_MOUSE.  An overflow is announced by the first byte, the
\* movement is in the second; bytes in the wrong place can mean any movement.
HANDLE_PS2_MOUSE ==
    LET byte == Head(mouseBytes)
        all == Append(fragments, byte)
    IN  /\ mousePc = "on" /\ mouseBytes # <<>>
        /\ mouseBytes' = Tail(mouseBytes)
        /\ \/ /\ skip > 0 /\ skip' = skip - 1
              /\ UNCHANGED <<fragments, mouse_x, decoded>>
           \/ /\ skip = 0 /\ Len(all) < PacketOfThree /\ fragments' = all
              /\ UNCHANGED <<skip, mouse_x, decoded>>
           \/ /\ skip = 0 /\ Len(all) = PacketOfThree /\ fragments' = <<>>
              /\ decoded' = all
              /\ mouse_x' \in IF all[1].part = 1 /\ all[2].part = 2
                              THEN {Moved(mouse_x, all[2].move)} ELSE 0 .. (Width - 1)
              /\ UNCHANGED skip
        /\ UNCHANGED <<mousePc, answers, packets, leftOver, mouseLost, pointer>>

MouseNext ==
    \/ InitWrite \/ InitRead \/ MouseAnswers
    \/ (\E move \in Moves : MouseMoves(move)) \/ HANDLE_PS2_MOUSE

MouseSpec == MouseInit /\ [][MouseNext]_mouseVars

-----------------------------------------------------------------------------
(***************************************************************************)
(* If INIT_PS2_MOUSE leaves exactly one answer unread, which is what the   *)
(* handler allows for, every three bytes it takes for a packet are one,    *)
(* and once all bytes are handled, with no packet dropped, the pointer is  *)
(* where the mouse is.  Nothing resynchronises the handler in the other    *)
(* cases: with no answer left, or two, no packet is ever decoded right.    *)
(***************************************************************************)
PacketsAligned ==
    mousePc = "on" =>
        /\ leftOver = 1 /\ decoded # <<>> =>
             \A i \in 1 .. 3 : decoded[i] = [decoded[1] EXCEPT !.part = i]
        /\ leftOver # 1 /\ decoded # <<>> => decoded[1].part # 1
        /\ leftOver = 1 /\ mouseBytes = <<>> /\ answers = 0 /\ ~mouseLost => mouse_x = pointer
=============================================================================
