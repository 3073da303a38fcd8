-------------------------------- MODULE Alloc -------------------------------
(***************************************************************************)
(* What an allocator promises, whatever its data structure: a region it    *)
(* hands out is as long as was asked for, lies inside the memory it        *)
(* manages, and overlaps no region that is still in use; regions in use    *)
(* never move.  Heap.tla, which models kernel/heap.cpp, implements it.     *)
(***************************************************************************)
EXTENDS Naturals

CONSTANT Limit        \* the memory is 0 .. Limit - 1

VARIABLE inUse        \* the regions in use: start -> length

Starts == DOMAIN inUse

\* Region [s, s + n) is inside the memory and overlaps no region in use but,
\* perhaps, the one that starts at "but".
Fits(s, n, but) ==
  /\ s + n <= Limit
  /\ \A t \in Starts \ {but} : s + n <= t \/ t + inUse[t] <= s

Init == inUse = [s \in {} |-> 0]

With(s, n) == [t \in Starts \cup {s} |-> IF t = s THEN n ELSE inUse[t]]
Without(s) == [t \in Starts \ {s} |-> inUse[t]]

Give(s, n) == s \notin Starts /\ Fits(s, n, s) /\ inUse' = With(s, n)

TakeBack(s) == s \in Starts /\ inUse' = Without(s)

Resize(s, n) == s \in Starts /\ Fits(s, n, s) /\ inUse' = With(s, n)

\* A region is given up for another, where both may overlap no third one.
Move(s, t, n) ==
  /\ s \in Starts /\ t \notin Starts
  /\ Fits(t, n, t)
  /\ inUse' = [x \in (Starts \ {s}) \cup {t} |-> IF x = t THEN n ELSE inUse[x]]

Next ==
  \E s \in 0 .. Limit, n \in 1 .. Limit :
    \/ Give(s, n) \/ TakeBack(s) \/ Resize(s, n)
    \/ \E t \in 0 .. Limit : Move(s, t, n)

Spec == Init /\ [][Next]_inUse
=============================================================================
