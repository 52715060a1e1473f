----------------------------- MODULE MCVfsTree ------------------------------
(***************************************************************************)
(* Disks with nothing in the kernel's way, with directories of the same    *)
(* names in either case, with files in place of them, and one directory    *)
(* deeper than the population goes.                                        *)
(***************************************************************************)
EXTENDS VfsTree

NameOrder == <<"", ".", "..", "0", "A", "DEV", "TTY1", "a", "dev", "proc", "tty1", "tty_in", "tty_out">>

LowerCase == [n \in {NameOrder[i] : i \in 1 .. Len(NameOrder)} |->
                CASE n = "A" -> "a" [] n = "DEV" -> "dev" [] n = "TTY1" -> "tty1" [] OTHER -> n]

Disk(dirs, files) == [p \in dirs \cup files |-> IF p \in dirs THEN "dir" ELSE "file"]

SomeDisks == {
    Disk({<<"a">>, <<"a", ".">>, <<"a", "..">>}, {<<"0">>, <<"a", "DEV">>}),
    Disk({<<"a">>, <<"a", "A">>, <<"a", "A", "0">>}, {<<"a", "A", "0", "0">>}),
    Disk({}, {<<"DEV">>}),
    Disk({}, {<<"dev">>, <<"A">>}),
    Disk({<<"DEV">>}, {<<"DEV", "TTY1">>}),
    Disk({<<"DEV">>, <<"DEV", "TTY1">>}, {<<"proc">>, <<"DEV", "TTY1", "tty_in">>}),
    Disk({<<"dev">>, <<"proc">>, <<"proc", "0">>}, {<<"dev", "tty1">>, <<"proc", "0", "0">>}) }

OneTty == <<"tty1">>

SomePaths == {<<"a">>, <<"A">>, <<"..">>, <<"a", "">>, <<"dev", "tty1">>, <<"..", "0">>,
              <<"tty_in", "a">>, <<".", "A", "a">>}
=============================================================================
