------------------------------- MODULE MCBoot -------------------------------
(* Instances of Boot for TLC. *)
EXTENDS Boot

\* Device trees of two nodes, with the placeholder first, second, or missing.
\* The size they state (total) is theirs, cut short, zero, reaches into what
\* PSRAM held behind them, or lies beyond the window (Window = 3).
AnyPairs == {"memory", "clint", "hole", "mapping"}
Blobs == {<<"memory", "hole">>, <<"hole", "clint">>, <<"memory", "clint">>}

AnyBoard(Rootfs) ==
  [ kernel : {"absent", "ok"}, dtb : {"nommap", "ok"}, rootfs : Rootfs,
    cmdline : {"old", "own"}, blob : Blobs, behind : {<<"clint">>, <<"hole">>}, total : 0..4,
    card : BOOLEAN, bounce : BOOLEAN, task : {TRUE}, pmp : BOOLEAN ]

AllBoards == AnyBoard({"absent", "nommap", "outside", "ok"})

\* Boards with at most the one placeholder of the device tree itself.
CleanBoards == {b \in AllBoards : b.behind = <<"clint">>}
=============================================================================
