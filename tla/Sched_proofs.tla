---------------------------- MODULE Sched_proofs ----------------------------
(***************************************************************************)
(* Proofs about Sched.tla, for any number of threads, any priorities, any  *)
(* length of a slice and of a sleep: the dispatch always finds a thread,   *)
(* no other thread than the current one is RUNNING, no wakeup reaches a    *)
(* sleeper, and a READY thread of higher priority waits for less than a    *)
(* slice.                                                                  *)
(***************************************************************************)
EXTENDS Sched, WellFoundedInduction, TLAPS

----------------------------------------------------------------------------
(* Sets of natural numbers have a least element.                           *)

Less == {ss \in Nat \X Nat : ss[1] < ss[2]}

LEMMA LessWellFounded == IsWellFoundedOn(Less, Nat)
BY NatLessThanWellFounded DEF Less, OpToRel

LEMMA LeastNatural ==
  ASSUME NEW T, T \subseteq Nat, T # {}
  PROVE  \E m \in T : \A n \in T : m <= n
<1>1. PICK m \in T : \A n \in T : ~(<<n, m>> \in Less)
  BY LessWellFounded, WFMin, Zenon
<1>2. ASSUME NEW n \in T PROVE m <= n
  <2>1. m \in Nat /\ n \in Nat
    OBVIOUS
  <2>2. n < m => <<n, m>> \in Less
    <3>1. <<n, m>> \in Nat \X Nat
      BY <2>1
    <3>2. <<n, m>>[1] = n /\ <<n, m>>[2] = m
      OBVIOUS
    <3>3. QED
      BY <3>1, <3>2 DEF Less
  <2>3. QED
    BY <1>1, <2>1, <2>2
<1>3. QED
  BY <1>2

----------------------------------------------------------------------------
(* pick_next.                                                              *)

LEMMA SlotsAreNat == Main \in Slots /\ Idle \in Slots /\ Slots \subseteq Nat
BY SchedAssumption DEF Slots, Main, Idle

\* Going round from slot c, no two slots are equally far.
LEMMA DistanceIsNat ==
  ASSUME NEW c \in Slots, NEW i \in Slots
  PROVE  Distance(c, i) \in 0 .. MaxThreads - 1
BY SchedAssumption DEF Distance, Slots

LEMMA DistanceInjective ==
  ASSUME NEW c \in Slots, NEW i \in Slots, NEW j \in Slots,
         Distance(c, i) = Distance(c, j)
  PROVE  i = j
<1>1. ASSUME NEW k \in Slots
      PROVE  Distance(c, k) = IF k > c THEN k - c - 1 ELSE k - c - 1 + MaxThreads
  BY SchedAssumption DEF Distance, Slots
<1>2. QED
  BY <1>1, SchedAssumption DEF Slots

\* Whom pick_next takes is a candidate, and nobody outranks it.
LEMMA PickIsBest ==
  ASSUME NEW st, NEW c \in Slots, NEW a \in BOOLEAN, NEW i \in PickNext(st, c, a)
  PROVE  /\ i \in Candidates(st, a)
         /\ \A j \in Candidates(st, a) : Priority[j] <= Priority[i]
<1>1. i \in Candidates(st, a)
  BY DEF PickNext
<1>2. ASSUME NEW j \in Candidates(st, a)
      PROVE  Priority[j] <= Priority[i]
  <2>1. i \in Slots /\ j \in Slots
    BY <1>1 DEF Candidates
  <2>2. Priority[i] \in Int /\ Priority[j] \in Int
    BY <2>1, SchedAssumption
  <2>3. j = i \/ Priority[i] > Priority[j] \/ Priority[i] = Priority[j]
    BY DEF PickNext
  <2>4. QED
    BY <2>2, <2>3
<1>3. QED
  BY <1>1, <1>2

\* pick_next takes somebody whenever there is a candidate.
LEMMA PickFinds ==
  ASSUME NEW st, NEW c \in Slots, NEW a \in BOOLEAN, Candidates(st, a) # {}
  PROVE  PickNext(st, c, a) # {}
<1> DEFINE ready == Candidates(st, a)
           gaps  == {255 - Priority[i] : i \in ready}
<1>1. ready \subseteq Slots
  BY DEF Candidates
<1>2. PICK g \in gaps : \A h \in gaps : g <= h
  <2>1. gaps \subseteq Nat /\ gaps # {}
    BY <1>1, SchedAssumption
  <2>2. QED
    BY <2>1, LeastNatural
<1> DEFINE best  == {i \in ready : 255 - Priority[i] = g}
           dists == {Distance(c, i) : i \in best}
<1>3. PICK d \in dists : \A e \in dists : d <= e
  <2>1. dists \subseteq Nat /\ dists # {}
    BY <1>1, DistanceIsNat
  <2>2. QED
    BY <2>1, LeastNatural
<1>4. PICK i \in best : Distance(c, i) = d
  OBVIOUS
<1>5. ASSUME NEW j \in ready \ {i}
      PROVE  \/ Priority[i] > Priority[j]
             \/ Priority[i] = Priority[j] /\ Distance(c, i) < Distance(c, j)
  <2>1. g <= 255 - Priority[j] /\ g = 255 - Priority[i]
    BY <1>2, <1>4
  <2>2. Priority[i] \in Nat /\ Priority[j] \in Nat
    BY <1>1, SchedAssumption
  <2>3. CASE j \in best
    <3>1. d <= Distance(c, j)
      BY <1>3, <2>3
    <3>2. Distance(c, i) # Distance(c, j)
      BY <1>1, DistanceInjective
    <3>3. Distance(c, i) \in Nat /\ Distance(c, j) \in Nat
      BY <1>1, DistanceIsNat
    <3>4. QED
      BY <1>4, <2>1, <2>2, <2>3, <3>1, <3>2, <3>3
  <2>4. CASE j \notin best
    BY <2>1, <2>2, <2>4
  <2>5. QED
    BY <2>3, <2>4
<1>6. QED
  BY <1>4, <1>5 DEF PickNext

----------------------------------------------------------------------------
(* do_switch and on_interrupt.                                             *)

\* What a kernel entry hands to the dispatch: only the current thread may be
\* RUNNING, only a restart made it READY, and kmain can run.
Handed(st) ==
  /\ st \in [Slots -> States]
  /\ \A i \in Slots : st[i] = "RUNNING" => i = current
  /\ st[current] = "READY" => current \in Watched
  /\ st[Main] \in Runnable

\* What the dispatch makes of it.
Settled(st) ==
  /\ state' \in [Slots -> States]
  /\ current' \in Slots
  /\ OneRunning'
  /\ \A i \in Slots : IF st[i] \in Runnable THEN state'[i] \in Runnable
                       ELSE state'[i] = st[i]

\* The current slot comes last, going round.
LEMMA CurrentIsLast ==
  ASSUME NEW c \in Slots, NEW i \in Slots, Distance(c, c) < Distance(c, i)
  PROVE  FALSE
<1>1. Distance(c, c) = MaxThreads - 1
  BY SchedAssumption DEF Distance, Slots
<1>2. QED
  BY <1>1, DistanceIsNat, SchedAssumption

\* do_switch leaves nobody READY who has a higher priority than the thread
\* it lets run.
LEMMA SwitchSettles ==
  ASSUME NEW st, Handed(st), current \in Slots, DoSwitch(st)
  PROVE  Settled(st) /\ slice' = SliceTicks /\ ~Outranked'
<1> DEFINE st1    == Requeue(st)
           allow  == st[current] # "RUNNING"
           picked == PickNext(st1, current, allow)
<1>1. slice' = SliceTicks
  BY DEF DoSwitch
<1>2. /\ st1 \in [Slots -> States]
      /\ \A i \in Slots : st1[i] # "RUNNING"
      /\ \A i \in Slots : st1[i] = IF i = current /\ st[i] = "RUNNING"
                                    THEN "READY" ELSE st[i]
  BY DEF Handed, Requeue, States
<1>3. picked \subseteq Candidates(st1, allow)
  BY DEF PickNext
<1>4. ASSUME NEW next \in picked \ {current},
             state' = [st1 EXCEPT ![next] = "RUNNING"], current' = next
      PROVE  Settled(st) /\ ~Outranked'
  <2>1. next \in Slots /\ st1[next] = "READY"
    BY <1>3, <1>4 DEF Candidates
  <2>2. Settled(st)
    BY <1>2, <1>4, <2>1 DEF Settled, OneRunning, Runnable, States
  <2>3. ASSUME NEW i \in Slots, state'[i] = "READY", Priority[i] > Priority[next]
        PROVE  FALSE
    <3>1. st1[i] = "READY"
      BY <1>2, <1>4, <2>1, <2>3
    <3>2. Priority[i] \in Nat /\ Priority[next] \in Nat
      BY <2>1, SchedAssumption
    <3>3. i \in Candidates(st1, allow)
      BY <2>3, <3>1, <3>2 DEF Candidates, PrioIdle
    <3>4. Priority[i] <= Priority[next]
      BY <1>4, <3>3, PickIsBest
    <3>5. QED
      BY <2>3, <3>2, <3>4
  <2>4. QED
    BY <1>4, <2>2, <2>3 DEF Outranked
<1>5. ASSUME picked \ {current} = {}, state' = st, current' = current
      PROVE  Settled(st) /\ ~Outranked'
  <2>1. st[current] # "RUNNING" => current \in picked
    <3>1. SUFFICES ASSUME st[current] # "RUNNING" PROVE current \in picked
      OBVIOUS
    <3>2. Main \in Candidates(st1, allow)
      BY <1>2, <3>1, SlotsAreNat DEF Candidates, Handed, Runnable
    <3>3. QED
      BY <1>5, <3>2, PickFinds
  <2>2. ASSUME st[current] # "RUNNING"
        PROVE  /\ st[current] = "READY" /\ current \in Watched
               /\ \A i \in Slots \ {current} :
                    st[i] = "READY" => Priority[i] < Priority[current]
    <3>1. current \in picked /\ current \in Candidates(st1, allow)
      BY <1>3, <2>1, <2>2
    <3>2. st[current] = "READY"
      BY <1>2, <3>1, <2>2 DEF Candidates
    <3>3. ASSUME NEW i \in Slots \ {current}, st[i] = "READY"
          PROVE  Priority[i] < Priority[current]
      <4>1. i \in Candidates(st1, allow)
        BY <1>2, <2>2, <3>3 DEF Candidates
      <4>2. \/ Priority[current] > Priority[i]
            \/ Distance(current, current) < Distance(current, i)
        BY <3>1, <4>1 DEF PickNext
      <4>3. QED
        BY <4>2, CurrentIsLast, SchedAssumption
    <3>4. QED
      BY <3>2, <3>3 DEF Handed
  <2>3. OneRunning'
    BY <1>5, <2>2 DEF OneRunning, Handed
  <2>4. Settled(st)
    BY <1>5, <2>3 DEF Settled, Handed, Runnable
  <2>5. ASSUME NEW i \in Slots, st[i] = "READY", Priority[i] > Priority[current]
        PROVE  FALSE
    <3>1. Priority[i] \in Nat /\ Priority[current] \in Nat
      BY SchedAssumption
    <3>2. i \in Candidates(st1, allow)
      BY <1>2, <2>5, <3>1 DEF Candidates, PrioIdle
    <3>3. picked # {}
      BY <3>2, PickFinds
    <3>4. current \in picked
      BY <1>5, <3>3
    <3>5. Priority[i] <= Priority[current]
      BY <3>2, <3>4, PickIsBest
    <3>6. QED
      BY <2>5, <3>1, <3>5
  <2>6. QED
    BY <1>5, <2>4, <2>5 DEF Outranked
<1>6. QED
  BY <1>1, <1>4, <1>5 DEF DoSwitch

\* on_interrupt either goes back to the current thread, with the slice it
\* was left, or switches.
LEMMA DispatchSettles ==
  ASSUME NEW st, NEW left, NEW need \in BOOLEAN,
         Handed(st), current \in Slots, Dispatch(st, left, need)
  PROVE  /\ Settled(st)
         /\ \/ ~need /\ slice' = left /\ current' = current
            \/ slice' = SliceTicks /\ ~Outranked'
<1>1. CASE need \/ st[current] # "RUNNING"
  BY <1>1, SwitchSettles DEF Dispatch
<1>2. CASE ~need /\ st[current] = "RUNNING"
  BY <1>2 DEF Dispatch, Settled, OneRunning, Handed, Runnable
<1>3. QED
  BY <1>1, <1>2

----------------------------------------------------------------------------
(* SInv of Sched.tla is inductive.  kmain is always there to run, so the   *)
(* dispatch never comes back to a thread that cannot; a thread with an     *)
(* ipc_state neither runs nor sleeps, so whoever is woken by it has no     *)
(* alarm; and the ticks a READY thread was passed over fit, with what is   *)
(* left of the slice, into one slice.                                      *)

\* What every kernel entry has to show of the states it hands over, of the
\* alarms, of who waits and of the restart list it leaves.
Sound(st) ==
  /\ Handed(st)
  /\ asleep' \in [Slots -> 0 .. MaxSleep]
  /\ pending' \subseteq Watched
  /\ \A i \in Slots : asleep'[i] > 0 => st[i] \in {"BLOCKED", "DEAD"}
  /\ waiting' \subseteq User
  /\ \A i \in waiting' : st[i] \in {"BLOCKED", "DEAD"} /\ asleep'[i] = 0

LEMMA DispatchKeeps ==
  ASSUME SInv, NEW st, NEW left \in 1 .. SliceTicks, NEW need \in BOOLEAN,
         Sound(st), Dispatch(st, left, need),
         lag' \in Nat, ~Outranked' => lag' = 0,
         ~need => lag' + left <= SliceTicks
  PROVE  SInv'
<1>1. current \in Slots
  BY DEF SInv, TypeOK
<1>2. Handed(st)
  BY DEF Sound
<1>3. Settled(st)
  BY <1>1, <1>2, DispatchSettles
<1>4. \/ ~need /\ slice' = left
      \/ slice' = SliceTicks /\ lag' = 0
  BY <1>1, <1>2, DispatchSettles
<1>5. slice' \in 1 .. SliceTicks /\ lag' + slice' <= SliceTicks
  <2>1. SliceTicks \in Nat /\ 1 <= SliceTicks
    BY SchedAssumption
  <2>2. CASE ~need /\ slice' = left
    BY <2>2
  <2>3. CASE slice' = SliceTicks /\ lag' = 0
    BY <2>1, <2>3
  <2>4. QED
    BY <1>4, <2>2, <2>3
<1>6. TypeOK'
  BY <1>3, <1>5 DEF TypeOK, Settled, Sound
<1>7. OneRunning'
  BY <1>3 DEF Settled
<1>8. SleepersRest'
  BY <1>3 DEF SleepersRest, Settled, Sound, Runnable
<1>9. state'[Main] \in Runnable
  BY <1>2, <1>3, SlotsAreNat DEF Settled, Handed
<1>10. \A i \in waiting' : state'[i] \in {"BLOCKED", "DEAD"} /\ asleep'[i] = 0
  <2>1. \A i \in waiting' : i \in Slots
    BY DEF Sound, User, Slots
  <2>2. QED
    BY <1>3, <2>1 DEF Settled, Sound, Runnable
<1>11. QED
  BY <1>5, <1>6, <1>7, <1>8, <1>9, <1>10 DEF SInv

\* Every kernel entry but the tick leaves the slice alone.
LEMMA EntryKeeps ==
  ASSUME SInv, NEW st, NEW need \in BOOLEAN,
         Sound(st), \E left : left = slice /\ Dispatch(st, left, need), LagElse
  PROVE  SInv'
<1>1. PICK left : left = slice /\ Dispatch(st, left, need)
  OBVIOUS
<1>2. left \in 1 .. SliceTicks /\ lag \in Nat /\ lag + left <= SliceTicks
  BY <1>1 DEF SInv, TypeOK
<1>3. /\ lag' \in Nat
      /\ ~Outranked' => lag' = 0
      /\ lag' + left <= SliceTicks
  BY <1>2, SchedAssumption DEF LagElse
<1>4. QED
  BY <1>1, <1>2, <1>3, DispatchKeeps

LEMMA SInvInit == Init => SInv
<1> SUFFICES ASSUME Init PROVE SInv
  OBVIOUS
<1>1. TypeOK
  BY SchedAssumption, SlotsAreNat DEF Init, TypeOK, States
<1>2. OneRunning /\ SleepersRest
  BY SlotsAreNat DEF Init, OneRunning, SleepersRest
<1>3. QED
  BY <1>1, <1>2, SchedAssumption, SlotsAreNat DEF Init, SInv, Runnable

\* One more tick passed over, one less in the slice.
LEMMA OneTick ==
  ASSUME NEW old \in Nat, NEW new \in Nat, NEW left \in Nat, NEW total \in Nat,
         1 <= left, old + left <= total, new <= old + 1
  PROVE  new + (left - 1) <= total
OBVIOUS

\* A tick takes one from the slice; only then may lag grow, by one.
LEMMA TickKeeps ==
  ASSUME SInv, Tick
  PROVE  SInv'
<1> DEFINE running == state[current] = "RUNNING"
           passed  == IF running /\ slice > 0 THEN slice - 1 ELSE slice
<1>1. PICK R, st, left, need :
        /\ R \in SUBSET pending
        /\ left = IF passed = 0 THEN SliceTicks ELSE passed
        /\ need = (running /\ passed = 0)
        /\ st = [i \in Slots |-> IF i \in R \cup Waking THEN "READY" ELSE state[i]]
        /\ CountDown(R)
        /\ waiting' = waiting \ R
        /\ pending' = pending \ R
        /\ Dispatch(st, left, need)
        /\ LagAtTick
  BY DEF Tick, Expired
<1>2. /\ slice \in Nat /\ 1 <= slice /\ slice <= SliceTicks
      /\ lag \in Nat /\ SliceTicks \in Nat
      /\ lag + slice <= SliceTicks
  BY SchedAssumption DEF SInv, TypeOK
<1>3. left \in 1 .. SliceTicks /\ left \in Nat /\ need \in BOOLEAN
  BY <1>1, <1>2
<1>4. /\ lag' \in Nat /\ lag' <= lag + 1
      /\ ~Outranked' => lag' = 0
  BY <1>1, <1>2 DEF LagAtTick
<1>5. /\ \A i \in R : i \in User /\ i \in Watched
      /\ \A i \in Slots : asleep'[i] = IF i \in R THEN 0
                                       ELSE IF asleep[i] > 0 /\ state[i] = "BLOCKED"
                                       THEN asleep[i] - 1 ELSE asleep[i]
      /\ state \in [Slots -> States] /\ current \in Slots
      /\ asleep \in [Slots -> 0 .. MaxSleep]
      /\ \A i \in waiting : i \in Slots
  BY <1>1, SchedAssumption DEF SInv, TypeOK, CountDown, User, Slots
<1>6. Sound(st)
  <2>1. Handed(st)
    <3>1. st \in [Slots -> States]
      BY <1>1, <1>5 DEF States
    <3>2. \A i \in Slots : st[i] = "RUNNING" => i = current
      BY <1>1, <1>5 DEF SInv, OneRunning
    <3>3. st[current] = "READY" => current \in Watched
      <4>1. current \notin Waking
        BY DEF Waking, SInv, OneRunning
      <4>2. QED
        BY <1>1, <1>5, <4>1 DEF SInv, OneRunning
    <3>4. st[Main] \in Runnable
      BY <1>1, SlotsAreNat DEF SInv, Runnable
    <3>5. QED
      BY <3>1, <3>2, <3>3, <3>4 DEF Handed
  <2>2. asleep' \in [Slots -> 0 .. MaxSleep]
    BY <1>1, <1>5, SchedAssumption DEF CountDown
  <2>3. pending' \subseteq Watched /\ waiting' \subseteq User
    BY <1>1 DEF SInv, TypeOK
  <2>4. ASSUME NEW i \in Slots, asleep'[i] > 0
        PROVE  st[i] \in {"BLOCKED", "DEAD"}
    <3>1. i \notin R /\ asleep[i] \in Nat /\ asleep[i] > 0
      BY <1>5, <2>4
    <3>2. state[i] \in {"BLOCKED", "DEAD"}
      BY <3>1 DEF SInv, SleepersRest
    <3>3. i \notin Waking
      BY <1>5, <2>4, <3>1 DEF Waking
    <3>4. QED
      BY <1>1, <3>1, <3>2, <3>3
  <2>5. ASSUME NEW i \in waiting'
        PROVE  st[i] \in {"BLOCKED", "DEAD"} /\ asleep'[i] = 0
    <3>1. i \in waiting /\ i \notin R /\ i \in Slots
      BY <1>1, <1>5, <2>5
    <3>2. state[i] \in {"BLOCKED", "DEAD"} /\ asleep[i] = 0
      BY <3>1 DEF SInv
    <3>3. i \notin Waking
      BY <3>2 DEF Waking
    <3>4. QED
      BY <1>1, <1>5, <3>1, <3>2, <3>3
  <2>6. QED
    BY <2>1, <2>2, <2>3, <2>4, <2>5 DEF Sound
<1>7. CASE running
  <2>1. ASSUME ~need PROVE lag' + left <= SliceTicks
    <3> HIDE DEF running, passed
    <3>1. passed # 0
      BY <1>1, <1>7, <2>1, Zenon
    <3>2. left = slice - 1
      <4>1. passed = slice - 1
        BY <1>2, <1>7 DEF passed
      <4>2. left = passed
        BY <1>1, <3>1
      <4>3. QED
        BY <4>1, <4>2
    <3>3. lag' + (slice - 1) <= SliceTicks
      BY <1>2, <1>4, OneTick
    <3>4. QED
      BY <3>2, <3>3
  <2>2. QED
    BY <1>1, <1>3, <1>4, <1>6, <2>1, DispatchKeeps
<1>8. CASE ~running
  <2>1. st[current] # "RUNNING"
    BY <1>1, <1>5, <1>8
  <2>2. Dispatch(st, left, TRUE)
    BY <1>1, <2>1 DEF Dispatch
  <2>3. QED
    BY <1>3, <1>4, <1>6, <2>2, DispatchKeeps
<1>9. QED
  BY <1>7, <1>8

LEMMA SInvStep == SInv /\ [Next]_vars => SInv'
<1> SUFFICES ASSUME SInv, [Next]_vars PROVE SInv'
  OBVIOUS
<1>0. /\ state \in [Slots -> States]
      /\ current \in Slots
      /\ slice \in 1 .. SliceTicks
      /\ asleep \in [Slots -> 0 .. MaxSleep]
      /\ pending \subseteq Watched
      /\ waiting \subseteq User
      /\ \A i \in Slots : state[i] = "RUNNING" => i = current
      /\ state[current] # "RUNNING" => state[current] = "READY" /\ current \in Watched
      /\ \A i \in Slots : asleep[i] > 0 => state[i] \in {"BLOCKED", "DEAD"}
      /\ state[Main] \in Runnable
      /\ \A i \in waiting : state[i] \in {"BLOCKED", "DEAD"} /\ asleep[i] = 0
  BY DEF SInv, TypeOK, OneRunning, SleepersRest
<1>a. /\ \A i \in User : i \in Slots /\ i # Main
      /\ Watched \subseteq User
      /\ Main \in Slots
  BY SlotsAreNat, SchedAssumption DEF User, Slots, Main
<1>1. CASE Tick
  BY <1>1, TickKeeps
<1>2. ASSUME NEW w \in User, Wake(w)
      PROVE  SInv'
  <2>1. PICK st : /\ st = [state EXCEPT ![w] = "READY"]
                  /\ \E left : left = slice /\ Dispatch(st, left, FALSE)
    BY <1>2 DEF Wake
  <2>2. Sound(st)
    BY <1>0, <1>a, <1>2, <2>1 DEF Wake, Woken, Sound, Handed, States, Runnable
  <2>3. QED
    BY <1>2, <2>1, <2>2, EntryKeeps DEF Wake
<1>3. ASSUME NEW W \in SUBSET User, Wait(W)
      PROVE  SInv'
  <2>1. PICK st : /\ st = [i \in Slots |-> IF i = current THEN "BLOCKED"
                                           ELSE IF i \in W THEN "READY" ELSE state[i]]
                  /\ \E left : left = slice /\ Dispatch(st, left, FALSE)
    BY <1>3 DEF Wait
  <2>2. Sound(st)
    BY <1>0, <1>a, <1>3, <2>1 DEF Wait, Woken, Sound, Handed, States, Runnable
  <2>3. QED
    BY <1>3, <2>1, <2>2, EntryKeeps DEF Wait
<1>4. ASSUME NEW ticks \in 1 .. MaxSleep, Sleep(ticks)
      PROVE  SInv'
  <2>1. PICK st : /\ st = [state EXCEPT ![current] = "BLOCKED"]
                  /\ \E left : left = slice /\ Dispatch(st, left, TRUE)
    BY <1>4 DEF Sleep
  <2>2. Sound(st)
    BY <1>0, <1>a, <1>4, <2>1, SchedAssumption
    DEF Sleep, Sound, Handed, States, Runnable
  <2>3. QED
    BY <1>4, <2>1, <2>2, EntryKeeps DEF Sleep
<1>b. CASE WaitAgain
  <2>1. PICK st : /\ st = [state EXCEPT ![current] = "BLOCKED"]
                  /\ \E left : left = slice /\ Dispatch(st, left, FALSE)
    BY <1>b DEF WaitAgain
  <2>2. Sound(st)
    BY <1>0, <1>a, <1>b, <2>1 DEF WaitAgain, Sound, Handed, States, Runnable
  <2>3. QED
    BY <1>b, <2>1, <2>2, EntryKeeps DEF WaitAgain
<1>5. CASE Yield
  <2>1. PICK st : st = state /\ \E left : left = slice /\ Dispatch(st, left, TRUE)
    BY <1>5 DEF Yield
  <2>2. Sound(st)
    BY <1>0, <1>5, <2>1 DEF Yield, Sound, Handed, Runnable
  <2>3. QED
    BY <1>5, <2>1, <2>2, EntryKeeps DEF Yield
<1>6. CASE Exit
  <2>1. PICK st : /\ st = [state EXCEPT ![current] = "DEAD"]
                  /\ \E left : left = slice /\ Dispatch(st, left, TRUE)
    BY <1>6 DEF Exit
  <2>2. Sound(st)
    BY <1>0, <1>a, <1>6, <2>1 DEF Exit, Sound, Handed, States, Runnable
  <2>3. QED
    BY <1>6, <2>1, <2>2, EntryKeeps DEF Exit
<1>7. ASSUME NEW t \in User, Kill(t)
      PROVE  SInv'
  <2>1. PICK st : /\ st = [state EXCEPT ![t] = "DEAD"]
                  /\ \E left : left = slice /\ Dispatch(st, left, FALSE)
    BY <1>7 DEF Kill
  <2>2. pending' \subseteq Watched /\ pending' \subseteq pending \cup {t}
    BY <1>0, <1>7 DEF Kill, NotifyDead
  <2>3. Sound(st)
    BY <1>0, <1>a, <1>7, <2>1, <2>2 DEF Kill, Sound, Handed, States, Runnable
  <2>4. QED
    BY <1>7, <2>1, <2>3, EntryKeeps DEF Kill
<1>8. CASE Spawn
  <2>1. PICK st, slot :
          /\ slot \in User
          /\ state[slot] = "UNUSED"
          /\ st = [state EXCEPT ![slot] = "READY"]
          /\ \E left : left = slice /\ Dispatch(st, left, FALSE)
    BY <1>8 DEF Spawn
  <2>2. Sound(st)
    BY <1>0, <1>a, <1>8, <2>1 DEF Spawn, Sound, Handed, States, Runnable
  <2>3. QED
    BY <1>8, <2>1, <2>2, EntryKeeps DEF Spawn
<1>9. CASE UNCHANGED vars
  BY <1>9 DEF vars, SInv, TypeOK, OneRunning, SleepersRest
<1>10. QED
  BY <1>1, <1>2, <1>3, <1>4, <1>b, <1>5, <1>6, <1>7, <1>8, <1>9 DEF Next

LEMMA SInvAlways == Spec => []SInv
BY SInvInit, SInvStep, PTL DEF Spec

----------------------------------------------------------------------------
(* The theorems.                                                           *)

\* The variables of the scheduler stay in their ranges.
THEOREM TypeCorrect == Spec => []TypeOK
<1>1. SInv => TypeOK
  BY DEF SInv
<1>2. QED
  BY <1>1, SInvAlways, PTL

\* The CPU is never left to a thread that is BLOCKED or DEAD, nor are two
\* threads RUNNING, whatever the interrupts and the system calls do; one that
\* was restarted while it ran gives way to the others of its rank.
THEOREM OneRunningHolds == Spec => []OneRunning
<1>1. SInv => OneRunning
  BY DEF SInv
<1>2. QED
  BY <1>1, SInvAlways, PTL

\* A READY thread waits for one of lower priority less than a whole slice,
\* however many threads there are and whatever wakes them.
THEOREM InversionBoundedHolds == Spec => []InversionBounded
<1>1. SInv => InversionBounded
  BY SchedAssumption DEF SInv, TypeOK, InversionBounded
<1>2. QED
  BY <1>1, SInvAlways, PTL

\* No request, answer or interrupt makes a sleeper run before its time, also
\* when threads are killed and restarted as they wait or sleep.
THEOREM SleepersRestHolds == Spec => []SleepersRest
<1>1. SInv => SleepersRest
  BY DEF SInv
<1>2. QED
  BY <1>1, SInvAlways, PTL

\* At every moment thread 0 can run, a thread with an ipc_state neither runs
\* nor sleeps, and the wait behind a lower priority fits into what is left of
\* the slice.
THEOREM SInvCorrect == Spec => []SInv
BY SInvAlways
=============================================================================
