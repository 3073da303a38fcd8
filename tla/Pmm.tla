-------------------------------- MODULE Pmm ---------------------------------
(***************************************************************************)
(* The page frame allocator of kernel/pmm.cpp: one bit per frame, and a    *)
(* counter.  Frames are numbers; frame 0 is also what "no frame" looks     *)
(* like, which is why it is never given away.                              *)
(*                                                                         *)
(* The operators take the memory m (a record) to the memory after one      *)
(* function of pmm.cpp, with the frame that function returns in m.got.     *)
(***************************************************************************)
EXTENDS Integers, FiniteSets, FiniteSetsExt

CONSTANTS Image,    \* the frames of the kernel image and of the bitmap
          Holes,    \* frames that the memory map does not call usable
          TableTop  \* PAGETABLE_MAX_PHYS: page tables lie below this frame

ASSUME PmmAssumption ==
  /\ Image \subseteq Nat \ {0} /\ IsFiniteSet(Image)
  /\ Holes \subseteq Nat
  /\ TableTop \in Nat

None == 0

\* What may ever be handed out of ram frames: g_managed_frames of them.
Managed(ram) == (0 .. ram - 1) \ (Holes \cup {0})

\* pmm::init: everything is taken, then the usable regions are cleared, then
\* the image is taken again, and counted.
PmmInit(ram) ==
  [ram   |-> ram,
   taken |-> ((0 .. ram - 1) \ Managed(ram)) \cup (Image \cap (0 .. ram - 1)),
   used  |-> Cardinality(Image \cap Managed(ram))]

Free(m) == (0 .. m.ram - 1) \ m.taken

\* set_bit for n frames from f on.
Occupy(m, f, n) ==
  [m EXCEPT !.taken = @ \cup (f .. f + n - 1), !.used = @ + n, !.got = f]

TakeLowest(m, S) ==
  IF S = {} THEN [m EXCEPT !.got = None] ELSE Occupy(m, Min(S), 1)

AllocFrame(m) == TakeLowest(m, Free(m))

AllocFrameBelow(m, top) == TakeLowest(m, {f \in Free(m) : f < top})

\* Mutant for OneOwner: run_len is not reset at a frame that is taken.
AllocFrames_NoReset(m, n) ==
  IF n = 0 \/ Cardinality(Free(m)) < n THEN [m EXCEPT !.got = None]
                                       ELSE Occupy(m, Min(Free(m)), n)

\* The first n frames in a row.
AllocFrames(m, n) ==
  LET starts == {f \in Free(m) : (f .. f + n - 1) \subseteq Free(m)}
  IN IF n = 0 \/ starts = {} THEN [m EXCEPT !.got = None]
                             ELSE Occupy(m, Min(starts), n)

\* Mutant for CountedFrames: the counter is forgotten.
FreeFrames_Uncounted(m, f, n) == [m EXCEPT !.taken = @ \ ((f .. f + n - 1) \ {0})]

\* Frame 0, frames beyond the bitmap and free frames are ignored.
FreeFrames(m, f, n) ==
  LET gone == ((f .. f + n - 1) \ {0}) \cap m.taken
  IN [m EXCEPT !.taken = @ \ gone, !.used = @ - Cardinality(gone)]

FreeFrame(m, f) == FreeFrames(m, f, 1)
=============================================================================
