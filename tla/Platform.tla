------------------------------ MODULE Platform ------------------------------
(***************************************************************************)
(* The parts that talk to the machine: boot loader, clocks, keyboard,      *)
(* mouse, console and disk.  They share no variable, so that every order   *)
(* of their steps is made of orders within each; a behaviour of this       *)
(* module follows one of them, and what it shows of that part holds        *)
(* whatever the others do.                                                 *)
(***************************************************************************)
EXTENDS Boot, Clock, Keyboard, Mouse, Console, Ata

VARIABLE part   \* the part that is followed

PlatformInit ==
    /\ BootInit /\ ClockInit /\ KeyboardInit /\ MouseInit /\ ConsoleInit /\ AtaInit
    /\ part \in {"boot", "clock", "keyboard", "mouse", "console", "disk"}

BootStep ==
    /\ part = "boot" /\ BootNext
    /\ UNCHANGED <<part, clockVars, keyboardVars, mouseVars, consoleVars, ataVars>>

ClockStep ==
    /\ part = "clock" /\ ClockNext
    /\ UNCHANGED <<part, bootVars, keyboardVars, mouseVars, consoleVars, ataVars>>

KeyboardStep ==
    /\ part = "keyboard" /\ KeyboardNext
    /\ UNCHANGED <<part, bootVars, clockVars, mouseVars, consoleVars, ataVars>>

MouseStep ==
    /\ part = "mouse" /\ MouseNext
    /\ UNCHANGED <<part, bootVars, clockVars, keyboardVars, consoleVars, ataVars>>

ConsoleStep ==
    /\ part = "console" /\ ConsoleNext
    /\ UNCHANGED <<part, bootVars, clockVars, keyboardVars, mouseVars, ataVars>>

AtaStep ==
    /\ part = "disk" /\ AtaNext
    /\ UNCHANGED <<part, bootVars, clockVars, keyboardVars, mouseVars, consoleVars>>

PlatformNext == BootStep \/ ClockStep \/ KeyboardStep \/ MouseStep \/ ConsoleStep \/ AtaStep

platformVars == <<part, bootVars, clockVars, keyboardVars, mouseVars, consoleVars, ataVars>>

PlatformSpec == PlatformInit /\ [][PlatformNext]_platformVars
=============================================================================
