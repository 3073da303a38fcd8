----------------------------- MODULE MCProcesses ----------------------------
(* Processes with tables of 8 entries: frames 2 to 14 are the image (its     *)
(* nine tables first), frame 20 is no memory, frame 56 is where the boot     *)
(* animation's window begins in the direct map.                             *)
EXTENDS Processes

MCImage    == 2 .. 14
MCServices == <<"shell", "mouse">>
MCPrograms ==
  [hello |-> <<[v |-> CodeBase, n |-> 2, valid |-> TRUE],
               [v |-> CodeBase + 3, n |-> 1, valid |-> TRUE],
               [v |-> CodeBase + 4, n |-> 0, valid |-> TRUE]>>,
   bad   |-> <<[v |-> CodeBase, n |-> 1, valid |-> TRUE],
               [v |-> CodeBase + 1, n |-> 1, valid |-> FALSE]>>]
=============================================================================
