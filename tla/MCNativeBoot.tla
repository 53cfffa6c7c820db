---------------------------- MODULE MCNativeBoot ----------------------------
(* Instances of NativeBoot for TLC. *)
EXTENDS NativeBoot

Kernel == [i \in 1..5 |-> <<"kernel", i>>]
Hole1 == <<"placeholder", 0>>
Hole2 == <<"placeholder", 1>>
Cell(i) == <<"tree", i>>

\* The placeholder behind the header, across a page, twice, torn, or not there; a
\* total size within the tree's, with or without it, may cut it off.
Trees ==
  {<<Cell(1), Cell(2), Hole1, Hole2>>, <<Cell(1), Cell(2), Cell(3), Hole1, Hole2>>,
   <<Cell(1), Cell(2), Hole1, Cell(4), Hole2>>,
   <<Cell(1), Cell(2), Hole1, Hole2, Hole1, Hole2>>,
   <<Cell(1), Cell(2), Hole1, Hole1, Hole2>>}

Plain == [kernel |-> Kernel, isImage |-> TRUE, imageSize |-> 3,
          tree |-> <<Cell(1), Cell(2), Hole1, Hole2>>, isTree |-> TRUE, total |-> 4,
          hasRootfs |-> TRUE]

MCBoards ==
  {[Plain EXCEPT !.imageSize = s] : s \in 0..6}
    \cup {[Plain EXCEPT !.tree = t, !.total = k] : t \in Trees, k \in 3..7}
    \cup {[Plain EXCEPT !.kernel = <<>>], [Plain EXCEPT !.tree = <<>>],
          [Plain EXCEPT !.isImage = FALSE], [Plain EXCEPT !.isTree = FALSE],
          [Plain EXCEPT !.hasRootfs = FALSE]}

MCOthers == {"someone's"}
=============================================================================
