----------------------------- MODULE KLog_proofs -----------------------------
(***************************************************************************)
(* Proofs about KLog.tla, for any capacity, period and tick frequency:     *)
(* what the batch in memory holds.                                         *)
(***************************************************************************)
EXTENDS KLog, SequenceTheorems, TLAPS

\* The clock in milliseconds never runs backwards, though it is rounded.
LEMMA UptimeMonotone ==
  ASSUME NEW s \in Nat, NEW t \in Nat, s <= t
  PROVE  UptimeMs(s) \in Nat /\ UptimeMs(t) \in Nat /\ UptimeMs(s) <= UptimeMs(t)
<1> DEFINE a == s * 1000
           b == t * 1000
           q == a \div Frequency
           r == b \div Frequency
<1>1. Frequency \in Nat /\ Frequency > 0 /\ a \in Nat /\ b \in Nat /\ a <= b
  BY KLogAssumption
<1> HIDE DEF a, b
<1>2. q \in Nat /\ r \in Nat /\ Frequency * q <= a /\ b < Frequency * (r + 1)
  BY <1>1
<1> HIDE DEF q, r
<1>3. ~(r + 1 <= q)
  <2>1. r + 1 <= q => Frequency * (r + 1) <= Frequency * q
    BY <1>1, <1>2
  <2>2. Frequency * (r + 1) \in Nat /\ Frequency * q \in Nat
    BY <1>1, <1>2
  <2>3. QED
    BY <1>1, <1>2, <2>1, <2>2
<1>4. q <= r
  BY <1>2, <1>3
<1>5. QED
  BY <1>2, <1>4 DEF UptimeMs, q, r, a, b

LEMMA KLogInit == Init => KLogIInv
<1> SUFFICES ASSUME Init PROVE KLogIInv
  OBVIOUS
<1>1. UptimeMs(0) = 0
  BY KLogAssumption DEF UptimeMs
<1>2. <<>> \in Seq(Records) /\ Len(<<>>) = 0
  OBVIOUS
<1>3. QED
  BY <1>1, <1>2, KLogAssumption DEF Init, KLogIInv

\* A record is stamped with the tick of its step.
LEMMA EntryType ==
  ASSUME ticks \in Nat, NEW e \in Events
  PROVE  Entry(ticks, e) \in Records /\ Entry(ticks, e).tick = ticks
<1>1. ticks \in 0..ticks
  OBVIOUS
<1>2. QED
  BY <1>1 DEF Entry, Records

\* What is in the batch has a tick, and so a time.
LEMMA BatchType ==
  ASSUME KLogIInv, NEW i \in 1..count
  PROVE  buf[i].tick \in Nat /\ UptimeMs(buf[i].tick) \in Nat
<1>1. i \in 1..Len(made) /\ buf[i] = made[i] /\ made \in Seq(Records)
  BY KLogAssumption DEF KLogIInv
<1>2. buf[i] \in Records
  BY <1>1, ElementOfSeq
<1>3. PICK t \in 0..ticks, e \in Events : buf[i] = Entry(t, e)
  BY <1>2 DEF Records
<1>4. buf[i].tick = t /\ t \in Nat
  BY <1>3 DEF Entry, KLogIInv
<1>5. QED
  BY <1>4, UptimeMonotone

LEMMA RecordStep ==
  ASSUME KLogIInv, Record
  PROVE  KLogIInv'
<1>1. PICK e \in Events :
        /\ made' = Append(made, Entry(ticks, e))
        /\ IF count >= Capacity
           THEN dropped' = dropped + 1 /\ UNCHANGED <<buf, count>>
           ELSE /\ buf' = [i \in DOMAIN buf \cup {count + 1} |->
                             IF i = count + 1 THEN Entry(ticks, e) ELSE buf[i]]
                /\ count' = count + 1
                /\ UNCHANGED dropped
  BY DEF Record
<1>2. ticks' = ticks /\ last' = last
  BY DEF Record
<1> DEFINE n == Entry(ticks, e)
<1>3. n \in Records /\ n.tick = ticks
  BY EntryType DEF KLogIInv
<1>4. made \in Seq(Records) /\ Len(made) \in Nat
  BY DEF KLogIInv
<1> HIDE DEF n
<1>5. /\ made' \in Seq(Records) /\ Len(made') = Len(made) + 1
      /\ \A i \in 1..Len(made) : made'[i] = made[i]
      /\ made'[Len(made) + 1] = n
  BY <1>1, <1>3, <1>4, AppendProperties DEF n
<1>6. Records' = Records
  BY <1>2 DEF Records
<1>7. CASE count >= Capacity
  <2>1. /\ count' = Capacity /\ count = Capacity /\ buf' = buf /\ dropped \in Nat
        /\ dropped' = dropped + 1 /\ Len(made) = count + dropped
    BY <1>1, <1>7, KLogAssumption DEF KLogIInv
  <2>2. ASSUME NEW i \in 1..count'
        PROVE  i \in DOMAIN buf' /\ buf'[i] = made'[i] /\ last' <= UptimeMs(buf'[i].tick)
    <3>1. i \in 1..count /\ i \in 1..Len(made)
      BY <2>1, KLogAssumption
    <3>2. QED
      BY <1>2, <1>5, <2>1, <3>1 DEF KLogIInv
  <2>3. UptimeMs(ticks)' = UptimeMs(ticks)
    BY <1>2 DEF UptimeMs
  <2>4. count' + dropped' = Len(made') /\ count' \in 0..Capacity /\ dropped' \in Nat
    BY <1>5, <2>1, KLogAssumption
  <2>5. QED
    BY <1>2, <1>5, <1>6, <2>1, <2>2, <2>3, <2>4 DEF KLogIInv
<1>8. CASE ~(count >= Capacity)
  <2>1. /\ count \in Nat /\ dropped = 0 /\ Len(made) = count /\ count < Capacity
        /\ count' = count + 1 /\ dropped' = 0
    BY <1>1, <1>8, KLogAssumption DEF KLogIInv
  <2>2. ASSUME NEW i \in 1..count'
        PROVE  i \in DOMAIN buf' /\ buf'[i] = made'[i] /\ last' <= UptimeMs(buf'[i].tick)
    <3>1. CASE i = count + 1
      <4>1. i \in DOMAIN buf' /\ buf'[i] = n
        BY <1>1, <1>8, <3>1 DEF n
      <4>2. made'[i] = n /\ last <= UptimeMs(n.tick)
        BY <1>3, <1>5, <2>1, <3>1 DEF KLogIInv
      <4>3. QED
        BY <1>2, <4>1, <4>2
    <3>2. CASE i # count + 1
      <4>1. i \in 1..count
        BY <2>1, <3>2
      <4>2. i \in DOMAIN buf' /\ buf'[i] = buf[i]
        BY <1>1, <1>8, <3>2, <4>1 DEF KLogIInv
      <4>3. made'[i] = made[i]
        BY <1>5, <2>1, <4>1
      <4>4. QED
        BY <1>2, <4>1, <4>2, <4>3 DEF KLogIInv
    <3>3. QED
      BY <3>1, <3>2
  <2>3. QED
    BY <1>2, <1>5, <1>6, <2>1, <2>2, KLogAssumption DEF KLogIInv, UptimeMs
<1>9. QED
  BY <1>7, <1>8

\* An emptied batch, from whatever period on.
LEMMA ClearStep ==
  ASSUME KLogIInv, ClearBatch, ticks' \in Nat,
         last' \in Nat, last' <= UptimeMs(ticks'), UptimeMs(ticks') - last' < Interval
  PROVE  KLogIInv'
<1>1. made' = <<>> /\ count' = 0 /\ dropped' = 0
  BY DEF ClearBatch
<1>2. made' \in Seq(Records') /\ Len(made') = 0
  BY <1>1
<1>3. count' \in 0..Capacity /\ dropped' \in Nat /\ count' + dropped' = Len(made')
  BY <1>1, <1>2, KLogAssumption
<1>4. \A i \in 1..count' : FALSE
  BY <1>1
<1>5. ~(dropped' > 0)
  BY <1>1
<1>6. UptimeMs(ticks)' = UptimeMs(ticks')
  BY DEF UptimeMs
<1>7. QED
  BY <1>2, <1>3, <1>4, <1>5, <1>6 DEF KLogIInv

LEMMA TickStep ==
  ASSUME KLogIInv, Tick
  PROVE  KLogIInv'
<1> DEFINE now == UptimeMs(ticks')
<1>1. ticks \in Nat /\ ticks' = ticks + 1 /\ ticks' \in Nat /\ buf' = buf
  BY DEF Tick, KLogIInv
<1>2. now \in Nat /\ UptimeMs(ticks) \in Nat /\ UptimeMs(ticks) <= now
  BY <1>1, UptimeMonotone
<1>3. last \in Nat /\ last <= UptimeMs(ticks)
  BY DEF KLogIInv
<1>4. IF now - last < Interval
      THEN UNCHANGED <<count, dropped, last, made>>
      ELSE last' = now /\ ClearBatch
  BY DEF Tick, PeriodicFlush, FlushNow
<1> HIDE DEF now
<1>5. CASE now - last < Interval
  <2>1. Records \subseteq Records'
    BY <1>1 DEF Records
  <2>2. made' \in Seq(Records')
    <3>1. made \in Seq(Records) /\ made' = made
      BY <1>4, <1>5 DEF KLogIInv
    <3>2. QED
      BY <2>1, <3>1
  <2>3. QED
    BY <1>1, <1>2, <1>3, <1>4, <1>5, <2>2 DEF KLogIInv, UptimeMs, now
<1>6. CASE ~(now - last < Interval)
  BY <1>1, <1>2, <1>4, <1>6, ClearStep, KLogAssumption DEF now
<1>7. QED
  BY <1>5, <1>6

LEMMA KLogStep == KLogIInv /\ [Next]_vars => KLogIInv'
<1> SUFFICES ASSUME KLogIInv, [Next]_vars PROVE KLogIInv'
  OBVIOUS
<1>1. ASSUME UNCHANGED <<ticks, buf, count, dropped, last, made>> PROVE KLogIInv'
  BY <1>1 DEF KLogIInv, Records, UptimeMs
<1>2. CASE UNCHANGED vars \/ KPrintf
  BY <1>1, <1>2 DEF vars, KPrintf
<1>3. CASE LogProgram
  <2>1. UNCHANGED <<ticks, buf, last>>
    BY <1>3 DEF LogProgram
  <2>2. UNCHANGED <<count, dropped, made>> \/ ClearBatch
    BY <1>3 DEF LogProgram, LogControl, FlushNow
  <2>3. ClearBatch => KLogIInv'
    BY <2>1, ClearStep DEF KLogIInv, UptimeMs
  <2>4. QED
    BY <1>1, <2>1, <2>2, <2>3
<1>4. QED
  BY <1>2, <1>3, RecordStep, TickStep DEF Next

\* KLogIInv is an invariant: the batch in memory is the first records since
\* the last clear, all of the running period.
THEOREM KLogInvCorrect == Spec => []KLogIInv
<1>1. QED
  BY KLogInit, KLogStep, PTL DEF Spec

\* Memory only ever holds the records of the last period, for any capacity,
\* period and frequency of the timer, whatever is flushed by hand.
THEOREM MemoryRecentHolds == Spec => []MemoryRecent
<1>1. KLogIInv => MemoryRecent
  <2> SUFFICES ASSUME KLogIInv, NEW i \in 1..count
               PROVE  UptimeMs(ticks) - UptimeMs(buf[i].tick) < Interval
    BY KLogAssumption DEF KLogIInv, MemoryRecent
  <2>1. last <= UptimeMs(buf[i].tick) /\ UptimeMs(ticks) - last < Interval /\ last \in Nat
    BY DEF KLogIInv
  <2>2. UptimeMs(ticks) \in Nat /\ UptimeMs(buf[i].tick) \in Nat /\ Interval \in Nat
    <3>1. ticks \in Nat /\ ticks <= ticks
      BY DEF KLogIInv
    <3>2. QED
      BY <3>1, BatchType, UptimeMonotone, KLogAssumption
  <2>3. QED
    BY <2>1, <2>2
<1>2. QED
  BY <1>1, KLogInvCorrect, PTL
=============================================================================
