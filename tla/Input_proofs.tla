---------------------------- MODULE Input_proofs ----------------------------
(***************************************************************************)
(* Proofs about Input.tla, for any set of keys, any size of the ring and   *)
(* whatever the user does: the inductive invariant InputIInv, and what it  *)
(* implies about who reads which byte and what becomes of a key press.     *)
(***************************************************************************)
EXTENDS Input, FiniteSetTheorems, SequenceTheorems, TLAPS

----------------------------------------------------------------------------
(* Ranges.                                                                 *)

LEMMA ByteTypes ==
  /\ \A s \in Sources : Bytes(s) \subseteq AnyByte
  /\ \A b \in AnyByte : b.from \in Sources /\ b \in Bytes(b.from)
  /\ \A s \in Sources : \A b \in Bytes(s) : b.from = s
BY DEF AnyByte, Bytes, Sources

LEMMA CodesType ==
  ASSUME NEW k \in Keys \cup {ExtKey}, NEW what \in {"make", "break"}, NEW n \in Nat
  PROVE  /\ Codes(k, what, n) \in Seq(Bytes("kbd"))
         /\ Len(Codes(k, what, n)) = IF k = ExtKey THEN 2 ELSE 1
         /\ Byte("kbd", what, k, n) \in Bytes("kbd")
         /\ Byte("kbd", "e0", k, n) \in Bytes("kbd")
<1> DEFINE e == Byte("kbd", "e0", k, n)
           b == Byte("kbd", what, k, n)
<1>1. e \in Bytes("kbd") /\ b \in Bytes("kbd")
  BY DEF Byte, Bytes
<1>2. Codes(k, what, n) = IF k = ExtKey THEN <<e, b>> ELSE <<b>>
  BY DEF Codes
<1> HIDE DEF e, b
<1>3. /\ <<e, b>> \in Seq(Bytes("kbd")) /\ Len(<<e, b>>) = 2
      /\ <<b>> \in Seq(Bytes("kbd")) /\ Len(<<b>>) = 1
  BY <1>1
<1>4. QED
  BY <1>1, <1>2, <1>3 DEF e, b

LEMMA SeqSteps ==
  ASSUME NEW S, NEW s \in Seq(S)
  PROVE  /\ \A t \in Seq(S) : s \o t \in Seq(S)
         /\ \A e \in S : Append(s, e) \in Seq(S) /\ Len(Append(s, e)) = Len(s) + 1
         /\ s # <<>> => /\ Head(s) \in S /\ Tail(s) \in Seq(S)
                        /\ Len(Tail(s)) = Len(s) - 1 /\ Len(s) > 0
         /\ Len(s) \in Nat
OBVIOUS

LEMMA InputTypeInit == Init => InputTypeOK
<1> SUFFICES ASSUME Init PROVE InputTypeOK
  OBVIOUS
<1>1. \A S : <<>> \in Seq(S) /\ Len(<<>>) = 0
  OBVIOUS
<1>2. kbd \in KbdStates /\ Len(kbd.ring) < KBQ_CAP
  BY <1>1, InputAssumption DEF Init, KbdStates
<1>3. /\ DOMAIN pc = {"keyboard", "mouse", "shell"}
      /\ pc["keyboard"] = "drain" /\ pc["mouse"] = "config" /\ pc["shell"] = "ask"
  BY DEF Init
<1>4. DOMAIN queue = Sources /\ \A s \in Sources : queue[s] \in Seq(Bytes(s))
  BY <1>1 DEF Init
<1>5. packet \in Seq(AnyByte) /\ moved \in Seq(Seq(AnyByte)) /\ got \in Seq(Nat)
  BY <1>1 DEF Init
<1>6. /\ strokes \in 0..MaxKeys /\ typed \in 0..strokes /\ moves \in 0..MaxMoves
      /\ strokes <= MaxEarly
      /\ down \in [Keys \cup {ExtKey} -> 0..strokes]
  BY InputAssumption DEF Init
<1>7. /\ rolled \in BOOLEAN /\ asked \in BOOLEAN /\ mixed \in BOOLEAN
      /\ woken \in [{"keyboard", "mouse"} -> BOOLEAN] /\ out = <<>> /\ last = None
      /\ Len(packet) < 3
  <2>1. /\ rolled \in BOOLEAN /\ asked \in BOOLEAN /\ mixed \in BOOLEAN
        /\ out = <<>> /\ last = None
    BY Zenon DEF Init
  <2>2. woken \in [{"keyboard", "mouse"} -> BOOLEAN]
    BY Zenon DEF Init
  <2>3. Len(packet) < 3
    BY DEF Init
  <2>4. QED
    BY <2>1, <2>2, <2>3
<1>8. QED
  BY <1>2, <1>3, <1>4, <1>5, <1>6, <1>7 DEF InputTypeOK, Registered

\* What the user does with a key leaves the rest as it is.
LEMMA StrikeType ==
  ASSUME InputTypeOK, NEW k \in Keys \cup {ExtKey}, NEW what \in {"make", "break"},
         NEW n \in Nat, Strike(k, what, n)
  PROVE  /\ strokes' \in 0..MaxKeys /\ strokes' = strokes + 1
         /\ DOMAIN queue' = Sources /\ \A s \in Sources : queue'[s] \in Seq(Bytes(s))
         /\ ~Registered("mouse") => strokes' <= MaxEarly
<1>1. /\ strokes' = strokes + 1 /\ strokes' \in 0..MaxKeys
      /\ ~Registered("mouse") => strokes' <= MaxEarly
  BY InputAssumption DEF Strike, InputTypeOK
<1>2. queue["kbd"] \o Codes(k, what, n) \in Seq(Bytes("kbd"))
  <2>1. queue["kbd"] \in Seq(Bytes("kbd"))
    BY DEF InputTypeOK, Sources
  <2>2. Codes(k, what, n) \in Seq(Bytes("kbd"))
    BY CodesType
  <2>3. QED
    BY <2>1, <2>2, SeqSteps
<1>3. QED
  BY <1>1, <1>2 DEF Strike, InputTypeOK, Sources

LEMMA ScanType ==
  ASSUME NEW q \in KbdStates, NEW b \in AnyByte, Len(q.ring) < KBQ_CAP
  PROVE  /\ Scan(q, b) \in KbdStates /\ Len(Scan(q, b).ring) < KBQ_CAP
         /\ Scan(q, b).state = CASE b.what = "e0" -> q.state
                                 [] b.what = "break" -> None
                                 [] b.what \notin {"e0", "break"} -> b.key
         /\ Scan(q, b).ext = (b.what = "e0")
         /\ LET pushed == /\ b.what \notin {"e0", "break"} /\ q.state # b.key
                          /\ ~q.ext /\ b.key \in Keys
            IN /\ ~pushed => Scan(q, b).ring = q.ring /\ Scan(q, b).dropped = q.dropped
               /\ pushed =>
                    \/ /\ Scan(q, b).ring = Append(q.ring, b.n)
                       /\ Scan(q, b).dropped = q.dropped
                    \/ Scan(q, b).ring = q.ring /\ Scan(q, b).dropped = TRUE
<1>1. b.key \in Keys \cup {ExtKey, None, "ack", "cfg"} /\ b.n \in Nat
  BY DEF AnyByte, Bytes, Sources
<1>2. CASE b.what = "e0"
  BY <1>1, <1>2 DEF Scan, KbdStates
<1>3. CASE b.what = "break"
  BY <1>1, <1>3 DEF Scan, KbdStates, None
<1>4. CASE b.what \notin {"e0", "break"} /\ q.state = b.key
  BY <1>1, <1>4 DEF Scan, KbdStates
<1>5. CASE /\ b.what \notin {"e0", "break"} /\ q.state # b.key
           /\ q.ext \/ b.key \notin Keys
  BY <1>1, <1>5 DEF Scan, KbdStates
<1>6. CASE /\ b.what \notin {"e0", "break"} /\ q.state # b.key
           /\ ~q.ext /\ b.key \in Keys
  <2> DEFINE p == [q EXCEPT !.state = b.key, !.ext = FALSE]
  <2>1. Scan(q, b) = Push(p, b.n)
    BY <1>6 DEF Scan
  <2>2. /\ p.state = b.key /\ p.ext = FALSE /\ p.ring = q.ring /\ p.dropped = q.dropped
        /\ p \in KbdStates
    BY <1>1 DEF KbdStates
  <2> HIDE DEF p
  <2>3. CASE Len(p.ring) = KBQ_CAP - 1
    BY <1>6, <2>1, <2>2, <2>3 DEF Push, KbdStates
  <2>4. CASE Len(p.ring) # KBQ_CAP - 1
    <3>1. /\ Append(p.ring, b.n) \in Seq(Nat) /\ Len(p.ring) \in Nat
          /\ Len(Append(p.ring, b.n)) = Len(p.ring) + 1
      BY <1>1, <2>2, SeqSteps DEF KbdStates
    <3>2. Len(Append(p.ring, b.n)) < KBQ_CAP
      BY <3>1, <2>2, <2>4, InputAssumption
    <3>3. Push(p, b.n) = [p EXCEPT !.ring = Append(@, b.n)]
      BY <2>4 DEF Push
    <3>4. /\ Scan(q, b).state = b.key /\ Scan(q, b).ext = FALSE
          /\ Scan(q, b).ring = Append(q.ring, b.n) /\ Scan(q, b).dropped = q.dropped
          /\ Scan(q, b) \in KbdStates
      <4> DEFINE r == Append(p.ring, b.n)
      <4>1. Scan(q, b) = [p EXCEPT !.ring = r] /\ r = Append(q.ring, b.n)
        BY <2>1, <2>2, <3>3
      <4>2. r \in Seq(Nat)
        BY <3>1
      <4> HIDE DEF r
      <4>3. QED
        BY <4>1, <4>2, <2>2 DEF KbdStates
    <3>5. QED
      BY <3>1, <3>2, <3>4, <2>2, <1>6
  <2>5. QED
    BY <2>3, <2>4
<1>7. QED
  BY <1>1, <1>2, <1>3, <1>4, <1>5, <1>6

\* Each action keeps every variable in its range.
LEMMA UserType ==
  ASSUME InputTypeOK, UserStep
  PROVE  InputTypeOK'
<1>1. ASSUME NEW k \in Keys \cup {ExtKey}, Press(k)
      PROVE  InputTypeOK'
  <2>1. Strike(k, "make", strokes + 1)
    BY <1>1 DEF Press
  <2>2. /\ strokes' \in 0..MaxKeys /\ strokes' = strokes + 1
        /\ DOMAIN queue' = Sources /\ \A s \in Sources : queue'[s] \in Seq(Bytes(s))
        /\ ~Registered("mouse") => strokes' <= MaxEarly
    BY <2>1, StrikeType DEF InputTypeOK
  <2>3. /\ down' \in [Keys \cup {ExtKey} -> 0..strokes']
        /\ last' \in Keys \cup {ExtKey, None} /\ (last' # None => down'[last'] # 0)
        /\ typed' \in 0..strokes' /\ rolled' = rolled
    BY <1>1, <2>2 DEF Press, InputTypeOK
  <2>4. QED
    BY <2>1, <2>2, <2>3 DEF Strike, InputTypeOK, Registered
<1>2. ASSUME NEW k \in Keys \cup {ExtKey}, Release(k)
      PROVE  InputTypeOK'
  <2>1. Strike(k, "break", 0)
    BY <1>2 DEF Release
  <2>2. /\ strokes' \in 0..MaxKeys /\ strokes' = strokes + 1
        /\ DOMAIN queue' = Sources /\ \A s \in Sources : queue'[s] \in Seq(Bytes(s))
        /\ ~Registered("mouse") => strokes' <= MaxEarly
    BY <2>1, StrikeType
  <2>3. /\ down' \in [Keys \cup {ExtKey} -> 0..strokes']
        /\ last' \in Keys \cup {ExtKey, None} /\ (last' # None => down'[last'] # 0)
        /\ typed' \in 0..strokes' /\ rolled' \in BOOLEAN
    BY <1>2, <2>2 DEF Release, InputTypeOK
  <2>4. QED
    BY <2>1, <2>2, <2>3 DEF Strike, InputTypeOK, Registered
<1>3. CASE Repeat
  <2>1. Strike(last, "make", down[last]) /\ last \in Keys \cup {ExtKey}
        /\ down[last] \in Nat
    BY <1>3 DEF Repeat, InputTypeOK
  <2>2. /\ strokes' \in 0..MaxKeys /\ strokes' = strokes + 1
        /\ DOMAIN queue' = Sources /\ \A s \in Sources : queue'[s] \in Seq(Bytes(s))
        /\ ~Registered("mouse") => strokes' <= MaxEarly
    BY <2>1, StrikeType
  <2>3. /\ down' \in [Keys \cup {ExtKey} -> 0..strokes']
        /\ last' \in Keys \cup {ExtKey, None} /\ (last' # None => down'[last'] # 0)
        /\ typed' \in 0..strokes' /\ rolled' = rolled
    BY <1>3, <2>2 DEF Repeat, InputTypeOK
  <2>4. QED
    BY <2>1, <2>2, <2>3 DEF Strike, InputTypeOK, Registered
<1>4. CASE MoveMouse
  <2> DEFINE w == <<"b0", "dx", "dy">>
             t == [i \in 1..3 |-> Byte("mouse", w[i], None, moves + 1)]
  <2>1. moves' \in 0..MaxMoves
    BY <1>4, InputAssumption DEF MoveMouse, InputTypeOK
  <2>2. t \in Seq(Bytes("mouse"))
    <3>1. \A i \in 1..3 : Byte("mouse", w[i], None, moves + 1) \in Bytes("mouse")
      BY DEF Byte, Bytes, InputTypeOK
    <3>2. QED
      BY <3>1
  <2> HIDE DEF t
  <2>3. queue["mouse"] \in Seq(Bytes("mouse"))
    BY DEF InputTypeOK, Sources
  <2>4. queue["mouse"] \o t \in Seq(Bytes("mouse"))
    BY <2>2, <2>3, SeqSteps
  <2>5. queue' = [queue EXCEPT !["mouse"] = @ \o t]
    BY <1>4 DEF MoveMouse, t
  <2>6. DOMAIN queue' = Sources /\ \A s \in Sources : queue'[s] \in Seq(Bytes(s))
    BY <2>4, <2>5 DEF InputTypeOK, Sources
  <2>7. QED
    BY <1>4, <2>1, <2>6 DEF MoveMouse, InputTypeOK, Registered
<1>5. QED
  BY <1>1, <1>2, <1>3, <1>4 DEF UserStep

LEMMA LoadType ==
  ASSUME InputTypeOK, NEW s \in Sources, Load(s)
  PROVE  InputTypeOK'
<1>1. queue[s] \in Seq(Bytes(s)) /\ queue[s] # <<>>
  BY DEF Load, InputTypeOK
<1>2. Head(queue[s]) \in AnyByte /\ Tail(queue[s]) \in Seq(Bytes(s))
  BY <1>1, SeqSteps, ByteTypes
<1>3. /\ DOMAIN queue' = Sources /\ \A z \in Sources : queue'[z] \in Seq(Bytes(z))
      /\ \E b \in AnyByte : out' = <<b>>
  BY <1>2 DEF Load, InputTypeOK
<1>4. /\ DOMAIN pc' = {"keyboard", "mouse", "shell"} /\ pc'["shell"] = pc["shell"]
      /\ pc'["keyboard"] \in {pc["keyboard"], "recv"}
      /\ pc'["mouse"] \in {pc["mouse"], "recv"}
      /\ Registered("mouse") => Registered("mouse")'
      /\ woken' \in [{"keyboard", "mouse"} -> BOOLEAN]
  BY DEF Load, DeliverIrq, Driver, Goto, Registered, InputTypeOK
<1>5. QED
  BY <1>3, <1>4 DEF Load, user, InputTypeOK

LEMMA KeyboardType ==
  ASSUME InputTypeOK, KbdStep \/ AskKey
  PROVE  InputTypeOK'
<1>1. CASE KbdStatus
  BY <1>1 DEF KbdStatus, Goto, user, InputTypeOK, Registered
<1>2. CASE KbdRead
  <2>1. kbd' \in KbdStates /\ Len(kbd'.ring) < KBQ_CAP /\ mixed' \in BOOLEAN
    <3>1. CASE out = <<>>
      BY <1>2, <3>1 DEF KbdRead, InputTypeOK
    <3>2. CASE out # <<>>
      <4>1. PICK b \in AnyByte : out = <<b>>
        BY <3>2 DEF InputTypeOK
      <4>2. kbd' = Scan(kbd, b) /\ mixed' = (mixed \/ b.from = "ctl")
        BY <1>2, <4>1 DEF KbdRead
      <4>3. QED
        BY <4>2, ScanType DEF InputTypeOK
    <3>3. QED
      BY <3>1, <3>2
  <2>2. QED
    BY <1>2, <2>1 DEF KbdRead, Goto, user, InputTypeOK, Registered
<1>3. CASE KbdRecv
  BY <1>3 DEF KbdRecv, Goto, user, InputTypeOK, Registered
<1>4. CASE KbdReply
  <2>1. kbd.ring \in Seq(Nat) /\ got \in Seq(Nat)
    BY DEF InputTypeOK, KbdStates
  <2>2. kbd' \in KbdStates /\ Len(kbd'.ring) < KBQ_CAP /\ got' \in Seq(Nat)
    <3>1. CASE kbd.ring = <<>>
      BY <1>4, <3>1 DEF KbdReply, InputTypeOK
    <3>2. CASE kbd.ring # <<>>
      <4> DEFINE r == Tail(kbd.ring)
      <4>1. /\ Head(kbd.ring) \in Nat /\ r \in Seq(Nat) /\ Len(r) = Len(kbd.ring) - 1
            /\ Len(kbd.ring) \in Nat
        BY <2>1, <3>2, SeqSteps
      <4>2. got' = Append(got, Head(kbd.ring)) /\ kbd' = [kbd EXCEPT !.ring = r]
        BY <1>4, <3>2 DEF KbdReply
      <4> HIDE DEF r
      <4>3. got' \in Seq(Nat)
        BY <2>1, <4>1, <4>2, SeqSteps
      <4>4. kbd' \in KbdStates /\ kbd'.ring = r
        BY <4>1, <4>2 DEF KbdStates, InputTypeOK
      <4>5. QED
        BY <4>1, <4>3, <4>4, InputAssumption DEF InputTypeOK
    <3>3. QED
      BY <3>1, <3>2
  <2>3. QED
    BY <1>4, <2>2 DEF KbdReply, user, InputTypeOK, Registered
<1>5. CASE AskKey
  BY <1>5 DEF AskKey, user, InputTypeOK, Registered
<1>6. QED
  BY <1>1, <1>2, <1>3, <1>4, <1>5 DEF KbdStep

LEMMA MouseType ==
  ASSUME InputTypeOK, MouseStep
  PROVE  InputTypeOK'
<1>1. ASSUME NEW from, NEW to \in {"getcfg", "ackf6", "ackf4"},
             NEW src \in {"ctl", "mouse"}, NEW what \in {"cfg", "ack"},
             what = "cfg" <=> src = "ctl", ~Registered("mouse"),
             SendCommand(from, to, src, what)
      PROVE  InputTypeOK'
  <2>1. Byte(src, what, what, 0) \in Bytes(src) /\ src \in Sources
    BY <1>1 DEF Byte, Bytes, Sources
  <2>2. queue[src] \in Seq(Bytes(src))
    BY <2>1 DEF InputTypeOK
  <2>3. Append(queue[src], Byte(src, what, what, 0)) \in Seq(Bytes(src))
    BY <2>1, <2>2, SeqSteps
  <2>4. DOMAIN queue' = Sources /\ \A s \in Sources : queue'[s] \in Seq(Bytes(s))
    BY <1>1, <2>3 DEF SendCommand, InputTypeOK
  <2>5. QED
    BY <1>1, <2>4 DEF SendCommand, Goto, user, InputTypeOK, Registered
<1>2. ASSUME NEW from, NEW to \in {"f6", "f4", "drain"}, NEW src, NEW what,
             ~Registered("mouse"), ReadAnswer(from, to, src, what)
      PROVE  InputTypeOK'
  BY <1>2 DEF ReadAnswer, Goto, user, InputTypeOK, Registered
<1>3. CASE MouseSetup
  <2>1. ~Registered("mouse")
    BY <1>3 DEF MouseSetup, SendCommand, ReadAnswer, Registered
  <2>2. QED
    BY <1>1, <1>2, <1>3, <2>1 DEF MouseSetup
<1>4. CASE MouseStatus
  BY <1>4 DEF MouseStatus, Goto, user, InputTypeOK, Registered
<1>5. CASE MouseRead
  <2> DEFINE p == IF out = <<>> \/ (packet = <<>> /\ ~Begins(Head(out))) THEN packet
                  ELSE Append(packet, Head(out))
  <2>1. p \in Seq(AnyByte) /\ Len(p) \in Nat /\ Len(p) <= 3
    <3>1. packet \in Seq(AnyByte) /\ Len(packet) \in Nat /\ Len(packet) <= 2
      <4>1. packet \in Seq(AnyByte) /\ Len(packet) < 3
        BY DEF InputTypeOK
      <4>2. Len(packet) \in Nat
        BY <4>1
      <4>3. QED
        BY <4>1, <4>2
    <3>2. CASE out = <<>>
      BY <3>1, <3>2
    <3>3. CASE out # <<>>
      <4>1. Head(out) \in AnyByte
        BY <3>3 DEF InputTypeOK
      <4>2. /\ Append(packet, Head(out)) \in Seq(AnyByte)
            /\ Len(Append(packet, Head(out))) = Len(packet) + 1
        BY <3>1, <4>1, SeqSteps
      <4>3. p = packet \/ p = Append(packet, Head(out))
        OBVIOUS
      <4> HIDE DEF p
      <4>4. QED
        BY <3>1, <4>2, <4>3
    <3>4. QED
      BY <3>2, <3>3
  <2>2. IF Len(p) = 3 THEN packet' = <<>> /\ moved' = Append(moved, p)
        ELSE packet' = p /\ moved' = moved
    BY <1>5 DEF MouseRead
  <2> HIDE DEF p
  <2>3. packet' \in Seq(AnyByte) /\ Len(packet') < 3
    <3>1. <<>> \in Seq(AnyByte) /\ Len(<<>>) = 0
      OBVIOUS
    <3>2. CASE Len(p) = 3
      BY <2>2, <3>1, <3>2
    <3>3. CASE Len(p) # 3
      <4>1. packet' = p
        BY <2>2, <3>3, Zenon
      <4>2. Len(p) \in Nat /\ Len(p) < 3
        <5>1. \A n \in Nat : n <= 3 /\ n # 3 => n < 3
          OBVIOUS
        <5>2. QED
          BY <2>1, <3>3, <5>1, Zenon
      <4>3. QED
        BY <2>1, <4>1, <4>2, Zenon
    <3>4. QED
      BY <3>2, <3>3
  <2>4. moved' \in Seq(Seq(AnyByte))
    <3>1. moved \in Seq(Seq(AnyByte))
      BY DEF InputTypeOK
    <3>2. Append(moved, p) \in Seq(Seq(AnyByte))
      BY <2>1, <3>1, SeqSteps
    <3>3. QED
      BY <2>2, <3>1, <3>2
  <2>5. QED
    BY <1>5, <2>3, <2>4 DEF MouseRead, Goto, user, InputTypeOK, Registered
<1>6. CASE MouseRecv
  BY <1>6 DEF MouseRecv, Goto, user, InputTypeOK, Registered
<1>7. QED
  BY <1>3, <1>4, <1>5, <1>6 DEF MouseStep

LEMMA InputTypeStep == InputTypeOK /\ [Next]_vars => InputTypeOK'
<1> SUFFICES ASSUME InputTypeOK, [Next]_vars PROVE InputTypeOK'
  OBVIOUS
<1>1. CASE UNCHANGED vars
  BY <1>1 DEF vars, user, InputTypeOK, Registered
<1>2. CASE Next
  BY <1>2, UserType, LoadType, KeyboardType, MouseType DEF Next, Controller
<1>3. QED
  BY <1>1, <1>2

----------------------------------------------------------------------------
(* Where the services are, and who finds which byte.                       *)

LEMMA UserKeeps ==
  UserStep => UNCHANGED <<out, woken, pc, asked, kbd, packet, moved, got, mixed>>
<1>1. ASSUME NEW k, NEW what, NEW n, Strike(k, what, n)
      PROVE  UNCHANGED <<out, woken, pc, asked, kbd, packet, moved, got, mixed>>
  BY <1>1 DEF Strike
<1>2. MoveMouse => UNCHANGED <<out, woken, pc, asked, kbd, packet, moved, got, mixed>>
  BY DEF MoveMouse
<1>3. QED
  BY <1>1, <1>2, Zenon DEF UserStep, Press, Release, Repeat

LEMMA CallPlacesStep ==
  ASSUME InputTypeOK, CallPlaces, [Next]_vars
  PROVE  CallPlaces'
<1>1. CASE UNCHANGED vars
  BY <1>1 DEF vars, user, CallPlaces
<1>2. CASE UserStep
  BY <1>2, UserKeeps DEF CallPlaces
<1>3. CASE Controller
  BY <1>3 DEF Controller, Load, DeliverIrq, Driver, Goto, CallPlaces, InputTypeOK, Sources
<1>4. CASE KbdStep
  BY <1>4 DEF KbdStep, KbdStatus, KbdRead, KbdRecv, KbdReply, Goto, CallPlaces, InputTypeOK
<1>5. CASE AskKey
  BY <1>5 DEF AskKey, CallPlaces, InputTypeOK
<1>6. CASE MouseStep
  BY <1>6 DEF MouseStep, MouseSetup, SendCommand, ReadAnswer, MouseStatus, MouseRead,
              MouseRecv, Goto, CallPlaces, InputTypeOK
<1>7. QED
  BY <1>1, <1>2, <1>3, <1>4, <1>5, <1>6 DEF Next

\* Bytes once mixed up stay so.
LEMMA MixedStays ==
  ASSUME InputTypeOK, [Next]_vars, mixed
  PROVE  mixed'
BY UserKeeps DEF Next, Controller, Load, KbdStep, KbdStatus, KbdRead, KbdRecv, KbdReply, AskKey, MouseStep, MouseSetup,
       SendCommand, ReadAnswer, MouseStatus, MouseRead, MouseRecv, vars, InputTypeOK

LEMMA ReaderHasByteStep ==
  ASSUME InputTypeOK, ReaderHasByte, ~mixed, [Next]_vars, ~mixed'
  PROVE  ReaderHasByte'
<1>1. CASE UNCHANGED vars
  BY <1>1 DEF vars, user, ReaderHasByte
<1>2. CASE UserStep
  BY <1>2, UserKeeps DEF ReaderHasByte
<1>3. CASE Controller
  BY <1>3 DEF Controller, Load, DeliverIrq, Driver, Goto, ReaderHasByte, InputTypeOK
<1>4. CASE KbdStep
  BY <1>4 DEF KbdStep, KbdStatus, KbdRead, KbdRecv, KbdReply, Goto, ReaderHasByte,
              InputTypeOK
<1>5. CASE AskKey
  BY <1>5 DEF AskKey, ReaderHasByte, InputTypeOK
<1>6. CASE MouseStep
  <2>1. CASE MouseSetup
    BY <2>1 DEF MouseSetup, SendCommand, ReadAnswer, Goto, ReaderHasByte, InputTypeOK
  <2>2. CASE MouseStatus \/ MouseRead \/ MouseRecv
    BY <2>2 DEF MouseStatus, MouseRead, MouseRecv, Goto, ReaderHasByte, InputTypeOK
  <2>3. QED
    BY <1>6, <2>1, <2>2 DEF MouseStep
<1>7. QED
  BY <1>1, <1>2, <1>3, <1>4, <1>5, <1>6 DEF Next

----------------------------------------------------------------------------
(* What a device has sent and nobody has read: the controller moves it, a  *)
(* reader takes its head, a device adds to its end.                        *)

LEMMA SeqEnds ==
  ASSUME NEW S, NEW q \in Seq(S)
  PROVE  /\ <<>> \o q = q /\ q \o <<>> = q
         /\ q # <<>> => <<Head(q)>> \o Tail(q) = q /\ Head(q) = q[1]
         /\ \A b \in S : /\ <<b>> \o q \in Seq(S) /\ <<b>> \o q # <<>>
                         /\ Head(<<b>> \o q) = b /\ Tail(<<b>> \o q) = q
<1>1. <<>> \o q = q /\ q \o <<>> = q
  BY ConcatEmptySeq
<1>2. ASSUME q # <<>>
      PROVE  <<Head(q)>> \o Tail(q) = q /\ Head(q) = q[1]
  <2>1. /\ Head(q) \in S /\ Tail(q) \in Seq(S) /\ Len(Tail(q)) = Len(q) - 1
        /\ \A i \in 1..Len(Tail(q)) : Tail(q)[i] = q[i + 1]
        /\ Len(q) \in Nat \ {0} /\ Head(q) = q[1]
    BY <1>2, HeadTailProperties, EmptySeq
  <2> DEFINE h == <<Head(q)>>
             t == Tail(q)
  <2>2. h \in Seq(S) /\ Len(h) = 1 /\ h[1] = q[1]
    BY <2>1
  <2>3. t \in Seq(S) /\ Len(t) = Len(q) - 1 /\ \A i \in 1..Len(t) : t[i] = q[i + 1]
    BY <2>1
  <2> HIDE DEF h, t
  <2>4. /\ h \o t \in Seq(S) /\ Len(h \o t) = Len(h) + Len(t)
        /\ \A i \in 1..(Len(h) + Len(t)) :
             (h \o t)[i] = IF i <= Len(h) THEN h[i] ELSE t[i - Len(h)]
    <3>1. h \in Seq(S) /\ t \in Seq(S)
      BY <2>2, <2>3, Zenon
    <3>2. QED
      BY <3>1, ConcatProperties, Zenon
  <2> DEFINE r == h \o t
  <2>5. /\ r \in Seq(S) /\ Len(r) = Len(h) + Len(t)
        /\ \A i \in 1..(Len(h) + Len(t)) : r[i] = IF i <= Len(h) THEN h[i] ELSE t[i - Len(h)]
    BY <2>4, Zenon
  <2> HIDE DEF r
  <2>6. r = q
    <3>1. Len(r) = Len(q)
      BY <2>1, <2>2, <2>3, <2>5
    <3>2. ASSUME NEW i \in 1..Len(r) PROVE r[i] = q[i]
      BY <2>1, <2>2, <2>3, <2>5, <3>1
    <3>3. QED
      BY <2>5, <3>1, <3>2, SeqEqual, Zenon
  <2>7. QED
    BY <2>1, <2>6 DEF h, t, r
<1>3. ASSUME NEW b \in S
      PROVE  /\ <<b>> \o q \in Seq(S) /\ <<b>> \o q # <<>>
             /\ Head(<<b>> \o q) = b /\ Tail(<<b>> \o q) = q
  <2> DEFINE h == <<b>>
             r == h \o q
  <2>1. h \in Seq(S) /\ Len(h) = 1 /\ h[1] = b
    OBVIOUS
  <2> HIDE DEF h
  <2>2. /\ r \in Seq(S) /\ Len(r) = 1 + Len(q) /\ Len(q) \in Nat
        /\ r[1] = b /\ \A i \in 2..(Len(q) + 1) : r[i] = q[i - 1]
    BY <2>1, ConcatProperties
  <2> HIDE DEF r
  <2>4. r # <<>>
    BY <2>2
  <2>5. /\ Tail(r) \in Seq(S) /\ Len(Tail(r)) = Len(r) - 1
        /\ \A i \in 1..Len(Tail(r)) : Tail(r)[i] = r[i + 1]
        /\ Head(r) = r[1]
    BY <2>2, <2>4, HeadTailProperties
  <2>6. Len(Tail(r)) = Len(q) /\ \A i \in 1..Len(q) : Tail(r)[i] = q[i]
    BY <2>2, <2>5
  <2>7. Tail(r) = q
    BY <2>5, <2>6, SeqEqual
  <2>8. QED
    BY <2>2, <2>4, <2>5, <2>7 DEF r, h
<1>4. QED
  BY <1>1, <1>2, <1>3

LEMMA SeqPrepend ==
  ASSUME NEW S, NEW q \in Seq(S), NEW t \in Seq(S), NEW b \in S
  PROVE  (<<b>> \o q) \o t = <<b>> \o (q \o t)
<1>1. <<b>> \in Seq(S)
  OBVIOUS
<1>2. QED
  BY <1>1, ConcatAssociative

LEMMA SeqAppend ==
  ASSUME NEW S, NEW s \in Seq(S), NEW t \in Seq(S), NEW e \in S
  PROVE  s \o Append(t, e) = Append(s \o t, e)
<1>1. <<e>> \in Seq(S) /\ s \o t \in Seq(S)
  BY SeqSteps
<1>2. Append(t, e) = t \o <<e>> /\ Append(s \o t, e) = (s \o t) \o <<e>>
  BY <1>1, AppendIsConcat
<1>3. (s \o t) \o <<e>> = s \o (t \o <<e>>)
  BY <1>1, ConcatAssociative
<1>4. QED
  BY <1>2, <1>3

LEMMA OutByte ==
  ASSUME InputTypeOK, out # <<>>
  PROVE  \E b \in AnyByte : /\ out = <<b>> /\ Head(out) = b /\ b.from \in Sources
                            /\ b \in Bytes(b.from)
BY ByteTypes DEF InputTypeOK

LEMMA StreamType ==
  ASSUME InputTypeOK, NEW s \in Sources
  PROVE  /\ Stream(s) \in Seq(Bytes(s)) /\ queue[s] \in Seq(Bytes(s))
         /\ out = <<>> => Stream(s) = queue[s]
<1>1. queue[s] \in Seq(Bytes(s))
  BY DEF InputTypeOK
<1>2. CASE out # <<>> /\ Head(out).from = s
  <2>1. PICK b \in Bytes(s) : out = <<b>>
    BY <1>2, OutByte
  <2>2. Stream(s) = <<b>> \o queue[s]
    BY <1>2, <2>1 DEF Stream
  <2>3. QED
    BY <1>1, <1>2, <2>2, SeqEnds
<1>3. CASE ~(out # <<>> /\ Head(out).from = s)
  <2>1. Stream(s) = <<>> \o queue[s]
    BY <1>3 DEF Stream
  <2>2. QED
    BY <1>1, <1>3, <2>1, SeqEnds
<1>4. QED
  BY <1>2, <1>3

LEMMA StreamLoad ==
  ASSUME InputTypeOK, InputTypeOK', NEW s \in Sources, Load(s)
  PROVE  \A z \in Sources : Stream(z)' = Stream(z)
<1> TAKE z \in Sources
<1>1. Stream(z) = queue[z] /\ queue[z] \in Seq(Bytes(z))
  BY StreamType DEF Load
<1>2. CASE z = s
  <2>1. /\ out' = <<Head(queue[s])>> /\ queue'[s] = Tail(queue[s]) /\ queue[s] # <<>>
    BY DEF Load, InputTypeOK
  <2>2. Head(queue[s]) \in Bytes(s) /\ Head(queue[s]).from = s
    BY <1>1, <1>2, <2>1, SeqSteps, ByteTypes
  <2>3. out' # <<>> /\ Head(out').from = s
    BY <2>1, <2>2
  <2>4. Stream(s)' = <<Head(queue[s])>> \o Tail(queue[s])
    BY <2>1, <2>3 DEF Stream
  <2>5. QED
    BY <1>1, <1>2, <2>1, <2>4, SeqEnds
<1>3. CASE z # s
  <2>1. /\ out' = <<Head(queue[s])>> /\ queue'[z] = queue[z] /\ queue[s] # <<>>
        /\ queue[s] \in Seq(Bytes(s))
    BY <1>3 DEF Load, InputTypeOK
  <2>2. Head(queue[s]) \in Bytes(s) /\ Head(queue[s]).from = s
    BY <2>1, SeqSteps, ByteTypes
  <2>3. Head(out').from = s
    BY <2>1, <2>2
  <2>4. Stream(z)' = <<>> \o queue[z]
    BY <1>3, <2>1, <2>3 DEF Stream
  <2>5. QED
    BY <1>1, <2>4, SeqEnds
<1>4. QED
  BY <1>2, <1>3

LEMMA StreamRead ==
  ASSUME InputTypeOK, InputTypeOK', NEW b \in AnyByte, out = <<b>>,
         out' = <<>>, queue' = queue
  PROVE  /\ Stream(b.from) # <<>> /\ Head(Stream(b.from)) = b /\ Stream(b.from)[1] = b
         /\ Stream(b.from)' = Tail(Stream(b.from))
         /\ \A z \in Sources \ {b.from} : Stream(z)' = Stream(z)
<1>1. b.from \in Sources /\ b \in Bytes(b.from)
  BY ByteTypes
<1>2. \A z \in Sources : Stream(z)' = <<>> \o queue[z] /\ queue[z] \in Seq(Bytes(z))
  BY DEF Stream, InputTypeOK
<1>3. \A z \in Sources : Stream(z)' = queue[z]
  BY <1>2, SeqEnds
<1>4. Stream(b.from) = <<b>> \o queue[b.from]
  BY DEF Stream
<1>5. \A z \in Sources \ {b.from} : Stream(z) = <<>> \o queue[z]
  <2>1. Head(out) = b
    OBVIOUS
  <2>2. QED
    BY <2>1 DEF Stream
<1>6. QED
  BY <1>1, <1>2, <1>3, <1>4, <1>5, SeqEnds

LEMMA StreamSend ==
  ASSUME InputTypeOK, InputTypeOK', NEW src \in Sources, NEW t \in Seq(Bytes(src)),
         out' = out, queue' = [queue EXCEPT ![src] = @ \o t]
  PROVE  /\ Stream(src)' = Stream(src) \o t
         /\ \A z \in Sources \ {src} : Stream(z)' = Stream(z)
<1>1. \A z \in Sources \ {src} : Stream(z)' = Stream(z)
  BY DEF Stream, InputTypeOK
<1>2. queue'[src] = queue[src] \o t /\ queue[src] \in Seq(Bytes(src))
  BY DEF InputTypeOK
<1>3. CASE out # <<>> /\ Head(out).from = src
  <2>1. PICK b \in Bytes(src) : out = <<b>>
    BY <1>3, OutByte
  <2>2. Stream(src) = <<b>> \o queue[src] /\ Stream(src)' = <<b>> \o (queue[src] \o t)
    BY <1>2, <1>3, <2>1 DEF Stream
  <2>3. (<<b>> \o queue[src]) \o t = <<b>> \o (queue[src] \o t)
    BY <1>2, SeqPrepend
  <2>4. QED
    BY <1>1, <2>2, <2>3
<1>4. CASE ~(out # <<>> /\ Head(out).from = src)
  <2>1. Stream(src) = <<>> \o queue[src] /\ Stream(src)' = <<>> \o (queue[src] \o t)
    BY <1>2, <1>4 DEF Stream
  <2>2. queue[src] \o t \in Seq(Bytes(src))
    BY <1>2, SeqSteps
  <2>3. QED
    BY <1>1, <1>2, <2>1, <2>2, SeqEnds
<1>5. QED
  BY <1>3, <1>4

----------------------------------------------------------------------------
(* What becomes of the presses: nothing changes while no key is struck and *)
(* the keyboard service reads nothing.                                     *)

LEMMA StruckFacts ==
  ASSUME InputTypeOK
  PROVE  /\ Struck \in Seq(Bytes("kbd")) /\ Len(Struck) \in Nat
         /\ \A i \in 1..Len(Struck) : /\ Struck[i].what \in {"e0", "make", "break"}
                                      /\ Struck[i].key \in Keys \cup {ExtKey}
                                      /\ Struck[i].n \in Nat
         /\ Line \in Seq(Nat) /\ Len(Line) \in Nat
         /\ \A x \in 1..Len(Line) : Line[x] \in Nat
         /\ Struck = <<>> <=> Len(Struck) = 0
<1>1. Struck \in Seq(Bytes("kbd"))
  BY StreamType DEF Struck, Sources
<1>2. \A i \in 1..Len(Struck) : Struck[i] \in Bytes("kbd")
  BY <1>1, ElementOfSeq
<1>3. \A b \in Bytes("kbd") : /\ b.what \in {"e0", "make", "break"}
                              /\ b.key \in Keys \cup {ExtKey} /\ b.n \in Nat
  BY DEF Bytes
<1>4. got \in Seq(Nat) /\ kbd.ring \in Seq(Nat)
  BY DEF InputTypeOK, KbdStates
<1>5. Line \in Seq(Nat)
  BY <1>4, SeqSteps DEF Line
<1>6. \A x \in 1..Len(Line) : Line[x] \in Nat
  BY <1>5, ElementOfSeq
<1>7. Len(Struck) \in Nat /\ Len(Line) \in Nat
  BY <1>1, <1>5, LenProperties
<1>8. Struck = <<>> <=> Len(Struck) = 0
  BY <1>1, EmptySeq
<1>9. QED
  BY <1>1, <1>2, <1>3, <1>5, <1>6, <1>7, <1>8

LEMMA FinalFacts ==
  /\ Struck = <<>> => Final = kbd.state
  /\ Struck # <<>> /\ Struck[Len(Struck)].what = "make" => Final = Struck[Len(Struck)].key
  /\ Struck # <<>> /\ Struck[Len(Struck)].what # "make" => Final = None
BY DEF Final

LEMMA KeyLineKept ==
  ASSUME KeyLine, Struck' = Struck, Line' = Line,
         kbd'.state = kbd.state, kbd'.ext = kbd.ext, kbd'.dropped = kbd.dropped,
         UNCHANGED <<down, last, strokes, typed, rolled>>
  PROVE  KeyLine'
<1>1. Presses' = Presses /\ Shown' = Shown
  BY DEF Presses, Shown
<1>2. Known' = Known
  BY <1>1 DEF Known
<1>3. Final' = Final /\ \A i : Again(i)' = Again(i)
  BY DEF Final, Again
<1>4. PrefixesPaired'
  BY DEF KeyLine, PrefixesPaired
<1>5. RepeatsShown'
  BY <1>1, <1>3 DEF KeyLine, RepeatsShown
<1>6. PressesKnown'
  BY <1>2 DEF KeyLine, PressesKnown
<1>7. ~rolled' => PressesOrdered'
  BY <1>1, <1>2, <1>3 DEF KeyLine, PressesOrdered
<1>8. QED
  BY <1>4, <1>5, <1>6, <1>7 DEF KeyLine

\* A byte of the keyboard is read: the head of what was struck goes, and is
\* shown if it is a press that is taken.
LEMMA ReadHead ==
  ASSUME InputTypeOK, InputTypeOK', KeyLine, NEW b \in AnyByte, b.from = "kbd",
         out = <<b>>, KbdRead
  PROVE  /\ Len(Struck) >= 1 /\ b = Struck[1]
         /\ Struck # <<>> /\ (Struck' = <<>> <=> Len(Struck) = 1)
         /\ Len(Struck') = Len(Struck) - 1
         /\ \A i \in 1..(Len(Struck) - 1) : Struck'[i] = Struck[i + 1]
         /\ kbd'.state = CASE b.what = "e0" -> kbd.state
                           [] b.what = "break" -> None
                           [] b.what \notin {"e0", "break"} -> b.key
         /\ kbd'.ext = (b.what = "e0")
         /\ IF 1 \in Presses /\ ~Again(1)
            THEN \/ Line' = Append(Line, b.n) /\ kbd'.dropped = kbd.dropped
                 \/ Line' = Line /\ kbd'.dropped = TRUE
            ELSE Line' = Line /\ kbd'.dropped = kbd.dropped
<1>1. out' = <<>> /\ queue' = queue /\ got' = got /\ kbd' = Scan(kbd, b)
  BY DEF KbdRead
<1>2. Struck # <<>> /\ Struck[1] = b /\ Struck' = Tail(Struck)
  BY <1>1, StreamRead DEF Struck
<1>3. /\ Len(Struck) >= 1 /\ Len(Struck') = Len(Struck) - 1
      /\ (Struck' = <<>> <=> Len(Struck) = 1)
      /\ \A i \in 1..(Len(Struck) - 1) : Struck'[i] = Struck[i + 1]
  <2>1. Struck \in Seq(Bytes("kbd")) /\ Len(Struck) \in Nat /\ Len(Struck) # 0
    BY <1>2, StruckFacts
  <2>2. /\ Len(Tail(Struck)) = Len(Struck) - 1
        /\ \A i \in 1..Len(Tail(Struck)) : Tail(Struck)[i] = Struck[i + 1]
        /\ (Tail(Struck) = <<>> <=> Len(Tail(Struck)) = 0)
    BY <1>2, <2>1, HeadTailProperties, EmptySeq
  <2>3. QED
    BY <1>2, <2>1, <2>2
<1>4. 1 \in Presses <=> b.what = "make" /\ b.key \in Keys
  BY <1>2, <1>3, StruckFacts DEF Presses
<1>5. Again(1) <=> kbd.state = b.key
  BY <1>2 DEF Again
<1>6. b.what \in {"e0", "make", "break"}
  BY <1>2, <1>3, StruckFacts
<1>7. b.key \in Keys => ~kbd.ext
  BY <1>2, InputAssumption DEF KeyLine, PrefixesPaired
<1> DEFINE pushed == /\ b.what \notin {"e0", "break"} /\ kbd.state # b.key
                     /\ ~kbd.ext /\ b.key \in Keys
<1>8. pushed <=> 1 \in Presses /\ ~Again(1)
  BY <1>4, <1>5, <1>6, <1>7
<1>9. kbd \in KbdStates /\ Len(kbd.ring) < KBQ_CAP
  BY DEF InputTypeOK
<1>10. /\ kbd'.state = CASE b.what = "e0" -> kbd.state
                         [] b.what = "break" -> None
                         [] b.what \notin {"e0", "break"} -> b.key
       /\ kbd'.ext = (b.what = "e0")
       /\ ~pushed => kbd'.ring = kbd.ring /\ kbd'.dropped = kbd.dropped
       /\ pushed => \/ kbd'.ring = Append(kbd.ring, b.n) /\ kbd'.dropped = kbd.dropped
                    \/ kbd'.ring = kbd.ring /\ kbd'.dropped = TRUE
  BY <1>1, <1>9, ScanType
<1> HIDE DEF pushed
<1>11. kbd'.ring = kbd.ring => Line' = Line
  BY <1>1 DEF Line
<1>12. kbd'.ring = Append(kbd.ring, b.n) => Line' = Append(Line, b.n)
  <2> SUFFICES ASSUME kbd'.ring = Append(kbd.ring, b.n) PROVE Line' = Append(Line, b.n)
    OBVIOUS
  <2>1. got \in Seq(Nat) /\ kbd.ring \in Seq(Nat)
    BY DEF InputTypeOK, KbdStates
  <2>2. b.n \in Nat
    BY <1>2, <1>3, StruckFacts
  <2>3. got \o Append(kbd.ring, b.n) = Append(got \o kbd.ring, b.n)
    BY <2>1, <2>2, SeqAppend
  <2>4. QED
    BY <1>1, <2>3 DEF Line
<1>13. QED
  BY <1>2, <1>3, <1>8, <1>10, <1>11, <1>12

LEMMA ReadKeyLine ==
  ASSUME InputTypeOK, InputTypeOK', KeyLine, NEW b \in AnyByte, b.from = "kbd",
         out = <<b>>, KbdRead
  PROVE  KeyLine'
<1> DEFINE S == Struck
           N == Len(S)
           st == kbd.state
           L == Line
<1>1. /\ N \in Nat /\ N >= 1 /\ b = S[1] /\ Len(S') = N - 1
      /\ \A i \in 1..(N - 1) : S'[i] = S[i + 1]
      /\ S # <<>> /\ (S' = <<>> <=> N = 1)
  BY ReadHead, StruckFacts
<1>2. /\ b.what = "e0" => st' = st
      /\ b.what = "break" => st' = None
      /\ b.what = "make" => st' = b.key
      /\ kbd'.ext = (b.what = "e0")
  BY ReadHead
<1>3. IF 1 \in Presses /\ ~Again(1)
      THEN \/ L' = Append(L, b.n) /\ kbd'.dropped = kbd.dropped
           \/ L' = L /\ kbd'.dropped = TRUE
      ELSE L' = L /\ kbd'.dropped = kbd.dropped
  BY ReadHead, Zenon
<1>4. /\ \A i \in 1..N : S[i].what \in {"e0", "make", "break"} /\ S[i].n \in Nat
                         /\ S[i].key \in Keys \cup {ExtKey}
      /\ L \in Seq(Nat) /\ Len(L) \in Nat /\ \A x \in 1..Len(L) : L[x] \in Nat
  BY StruckFacts
<1>5. UNCHANGED <<down, last, strokes, typed, rolled>>
  BY DEF KbdRead, user
<1>6. Presses = {i \in 1..N : S[i].what = "make" /\ S[i].key \in Keys}
  BY DEF Presses
<1>7. Presses' = {i \in 1..(N - 1) : S[i + 1].what = "make" /\ S[i + 1].key \in Keys}
  BY <1>1 DEF Presses
<1>8. \A i \in Presses' : i \in 1..(N - 1) /\ i + 1 \in Presses /\ S'[i] = S[i + 1]
  BY <1>1, <1>6, <1>7
<1>9. b.what = "e0" => N > 1 /\ S[2].key = ExtKey
  BY <1>1 DEF KeyLine, PrefixesPaired
<1>10. None \notin Keys /\ None # ExtKey /\ ExtKey \notin Keys
  BY InputAssumption DEF None
\* What counts as a repetition does not depend on how far the service is.
<1>11. ASSUME NEW i \in Presses'
       PROVE  Again(i)' <=> Again(i + 1)
  <2>1. CASE i = 1
    <3>1. Again(i)' <=> st' = S[2].key
      BY <1>1, <1>8, <2>1 DEF Again
    <3>2. Again(i + 1) <=> S[1].what = "make" /\ S[1].key = S[2].key
      BY <2>1 DEF Again
    <3>3. S[2].key \in Keys
      BY <1>6, <1>8, <2>1
    <3>4. S[1].what \in {"e0", "make", "break"}
      BY <1>1, <1>4
    <3>5. QED
      BY <1>1, <1>2, <1>9, <1>10, <3>1, <3>2, <3>3, <3>4
  <2>2. CASE i # 1
    <3>1. i \in 2..(N - 1) /\ i - 1 \in 1..(N - 1) /\ S'[i - 1] = S[i] /\ S'[i] = S[i + 1]
      BY <1>1, <1>8, <2>2
    <3>2. Again(i)' <=> S'[i - 1].what = "make" /\ S'[i - 1].key = S'[i].key
      BY <2>2 DEF Again
    <3>3. Again(i + 1) <=> S[i].what = "make" /\ S[i].key = S[i + 1].key
      BY <3>1 DEF Again
    <3>4. QED
      BY <3>1, <3>2, <3>3
  <2>3. QED
    BY <2>1, <2>2
<1>12. Final' = Final
  <2>1. CASE N = 1
    <3>1. Final' = st'
      BY <1>1, <2>1 DEF Final
    <3>2. /\ S[1].what = "make" => Final = S[1].key
          /\ S[1].what # "make" => Final = None
      BY <1>1, <2>1, FinalFacts
    <3>3. S[1].what \in {"make", "break"}
      BY <1>1, <1>4, <1>9, <2>1
    <3>4. QED
      BY <1>1, <1>2, <3>1, <3>2, <3>3
  <2>2. CASE N # 1
    <3>1. S'[Len(S')] = S[N] /\ S' # <<>> /\ S # <<>>
      BY <1>1, <2>2
    <3>2. QED
      BY <3>1 DEF Final
  <2>3. QED
    BY <2>1, <2>2
<1>13. RepeatsShown /\ PressesKnown /\ PrefixesPaired
  BY DEF KeyLine
<1>14. kbd.dropped => kbd'.dropped
  BY <1>3
<1>15. /\ Shown \subseteq Shown' /\ Shown' \subseteq Shown \cup {b.n}
       /\ Shown' # Shown => 1 \in Presses
       /\ 1 \in Presses => b.n \in Shown' \/ kbd'.dropped
  <2>1. CASE L' = L
    <3>1. Shown' = Shown
      BY <2>1 DEF Shown
    <3>2. 1 \in Presses => b.n \in Shown \/ kbd'.dropped
      <4>1. CASE 1 \in Presses /\ Again(1)
        BY <1>1, <1>13, <1>14, <4>1 DEF RepeatsShown
      <4>2. CASE 1 \in Presses /\ ~Again(1)
        <5>1. L' # Append(L, b.n)
          <6>1. Len(Append(L, b.n)) = Len(L) + 1
            BY <1>1, <1>4, SeqSteps
          <6>2. QED
            BY <1>4, <2>1, <6>1
        <5>2. QED
          BY <1>3, <4>2, <5>1
      <4>3. QED
        BY <4>1, <4>2
    <3>3. QED
      BY <3>1, <3>2
  <2>2. CASE L' = Append(L, b.n) /\ 1 \in Presses
    <3>1. /\ Len(L') = Len(L) + 1 /\ L'[Len(L) + 1] = b.n
          /\ \A x \in 1..Len(L) : L'[x] = L[x]
      BY <1>1, <1>4, <2>2, AppendProperties
    <3>2. QED
      BY <1>4, <2>2, <3>1 DEF Shown
  <2>3. QED
    BY <1>3, <2>1, <2>2
<1>16. Known' \subseteq Known /\ (~kbd'.dropped => Known' = Known)
  <2>1. Known = Shown \cup {S[i].n : i \in Presses}
    BY DEF Known
  <2>2. Known' = Shown' \cup {S'[i].n : i \in Presses'}
    BY DEF Known
  <2>3. \A i \in Presses' : S'[i].n \in {S[j].n : j \in Presses}
    BY <1>8
  <2>4. 1 \in Presses => b.n \in {S[j].n : j \in Presses}
    BY <1>1
  <2>5. Known' \subseteq Known
    BY <1>15, <2>1, <2>2, <2>3, <2>4
  <2>6. ASSUME NEW i \in Presses, i # 1 PROVE S[i].n \in {S'[j].n : j \in Presses'}
    <3>1. i - 1 \in Presses' /\ S'[i - 1] = S[i]
      BY <1>1, <1>6, <1>7, <2>6
    <3>2. QED
      BY <3>1
  <2>7. ASSUME ~kbd'.dropped PROVE Known \subseteq Known'
    BY <1>1, <1>15, <2>1, <2>2, <2>6, <2>7
  <2>8. QED
    BY <2>5, <2>7
<1>17. PrefixesPaired'
  <2>1. kbd'.ext => S' # <<>> /\ S'[1].key = ExtKey
    <3>1. kbd'.ext => b.what = "e0"
      BY <1>2, Zenon
    <3>2. N > 1 => S' # <<>> /\ S'[1] = S[2]
      BY <1>1
    <3>3. QED
      BY <1>9, <3>1, <3>2
  <2>2. ASSUME NEW i \in 1..Len(S'), S'[i].what = "e0"
        PROVE  i < Len(S') /\ S'[i + 1].key = ExtKey /\ S'[i + 1].what # "e0"
    <3>1. i + 1 \in 1..N /\ S'[i] = S[i + 1]
      BY <1>1
    <3>2. i + 1 < N /\ S[i + 2].key = ExtKey /\ S[i + 2].what # "e0"
      BY <1>1, <1>13, <2>2, <3>1 DEF PrefixesPaired
    <3>3. i + 1 \in 1..(N - 1) /\ S'[i + 1] = S[i + 2]
      BY <1>1, <3>2
    <3>4. QED
      BY <1>1, <3>2, <3>3
  <2>3. QED
    BY <2>1, <2>2 DEF PrefixesPaired
<1>18. RepeatsShown'
  <2>1. ASSUME NEW i \in Presses', Again(i)'
        PROVE  IF i = 1 THEN S'[1].n \in Shown' \/ kbd'.dropped ELSE S'[i].n = S'[i - 1].n
    <3>1. Again(i + 1) /\ i + 1 \in Presses /\ i + 1 # 1 /\ S'[i] = S[i + 1] /\ i \in 1..(N - 1)
      BY <1>1, <1>8, <1>11, <2>1
    <3>2. S[i + 1].n = S[i].n
      BY <1>1, <1>13, <3>1 DEF RepeatsShown
    <3>3. CASE i = 1
      <4>1. S[1].what = "make" /\ S[1].key = S[2].key /\ S[2].key \in Keys
        BY <1>6, <3>1, <3>3 DEF Again
      <4>2. 1 \in Presses
        BY <1>1, <1>6, <4>1
      <4>3. S'[1].n = b.n
        BY <1>1, <3>1, <3>2, <3>3
      <4>4. QED
        BY <1>15, <3>3, <4>2, <4>3
    <3>4. CASE i # 1
      <4>1. S'[i - 1] = S[i]
        BY <1>1, <3>1, <3>4
      <4>2. QED
        BY <3>1, <3>2, <3>4, <4>1
    <3>5. QED
      BY <3>3, <3>4
  <2>2. ASSUME NEW k \in Keys, Final' = k
        PROVE  /\ down'[k] # 0
               /\ IF S' = <<>> THEN down'[k] \in Shown' \/ kbd'.dropped
                  ELSE S'[Len(S')].n = down'[k]
    <3>1. down[k] # 0 /\ S[N].n = down[k] /\ down' = down
      BY <1>1, <1>5, <1>12, <1>13, <2>2 DEF RepeatsShown
    <3>2. CASE N = 1
      <4>1. S[1].what = "make" /\ S[1].key = k
        BY <1>1, <1>10, <1>12, <2>2, <3>2, FinalFacts
      <4>2. 1 \in Presses
        BY <1>1, <1>6, <4>1
      <4>3. QED
        BY <1>1, <1>15, <3>1, <3>2, <4>2
    <3>3. CASE N # 1
      BY <1>1, <3>1, <3>3
    <3>4. QED
      BY <3>2, <3>3
  <2>3. QED
    BY <2>1, <2>2 DEF RepeatsShown
<1>19. PressesKnown'
  BY <1>5, <1>13, <1>14, <1>16 DEF PressesKnown
<1>20. ASSUME ~rolled' PROVE PressesOrdered'
  <2>1. PressesOrdered
    BY <1>5, <1>20 DEF KeyLine
  <2>2. \A i, j \in Presses' :
          i < j => S'[i].n <= S'[j].n /\ (S'[i].n = S'[j].n => Again(j)')
    <3> TAKE i, j \in Presses'
    <3>1. i + 1 \in Presses /\ j + 1 \in Presses /\ S'[i] = S[i + 1] /\ S'[j] = S[j + 1]
          /\ i \in Int /\ j \in Int /\ (Again(j)' <=> Again(j + 1))
      BY <1>8, <1>11
    <3>2. i < j => i + 1 < j + 1
      BY <3>1
    <3>3. QED
      BY <2>1, <3>1, <3>2 DEF PressesOrdered
  <2>3. last' \in Keys => Final' = last' /\ \A n \in Known' : n <= down'[last']
    BY <1>5, <1>12, <1>16, <2>1 DEF PressesOrdered
  <2>4. \A x \in 1..Len(L), i \in Presses' :
          L[x] <= S'[i].n /\ (L[x] = S'[i].n => Again(i)')
    BY <1>8, <1>11, <2>1 DEF PressesOrdered
  <2>5. CASE L' = L
    BY <2>1, <2>2, <2>3, <2>4, <2>5 DEF PressesOrdered
  <2>6. CASE L' = Append(L, b.n) /\ 1 \in Presses /\ ~Again(1)
    <3>1. /\ Len(L') = Len(L) + 1 /\ L'[Len(L) + 1] = b.n
          /\ \A x \in 1..Len(L) : L'[x] = L[x]
      BY <1>1, <1>4, <2>6, AppendProperties
    <3>2. \A x \in 1..Len(L) : L[x] < b.n
      BY <1>1, <1>4, <2>1, <2>6 DEF PressesOrdered
    <3>3. \A x, y \in 1..Len(L') : x < y => L'[x] < L'[y]
      <4> TAKE x, y \in 1..Len(L')
      <4> HAVE x < y
      <4>1. x \in 1..Len(L) /\ L'[x] = L[x]
        BY <1>4, <3>1
      <4>2. CASE y = Len(L) + 1
        BY <3>1, <3>2, <4>1, <4>2
      <4>3. CASE y # Len(L) + 1
        BY <1>4, <2>1, <3>1, <4>1, <4>3 DEF PressesOrdered
      <4>4. QED
        BY <4>2, <4>3
    <3>4. \A i \in Presses' : b.n <= S'[i].n /\ (b.n = S'[i].n => Again(i)')
      <4> TAKE i \in Presses'
      <4>1. i + 1 \in Presses /\ 1 < i + 1 /\ S'[i] = S[i + 1] /\ (Again(i)' <=> Again(i + 1))
        BY <1>8, <1>11
      <4>2. QED
        BY <1>1, <2>1, <2>6, <4>1 DEF PressesOrdered
    <3>5. \A x \in 1..Len(L'), i \in Presses' :
            L'[x] <= S'[i].n /\ (L'[x] = S'[i].n => Again(i)')
      BY <1>4, <2>4, <3>1, <3>4
    <3>6. QED
      BY <2>2, <2>3, <3>3, <3>5 DEF PressesOrdered
  <2>7. QED
    BY <1>3, <2>5, <2>6
<1>21. QED
  BY <1>17, <1>18, <1>19, <1>20 DEF KeyLine

\* A key is struck: one byte more, or two for the key with the prefix.
LEMMA StruckAdds ==
  ASSUME InputTypeOK, InputTypeOK', NEW k \in Keys \cup {ExtKey},
         NEW what \in {"make", "break"}, NEW n \in Nat, Strike(k, what, n)
  PROVE  /\ Len(Struck') = Len(Struck) + (IF k = ExtKey THEN 2 ELSE 1)
         /\ Struck' # <<>>
         /\ \A i \in 1..Len(Struck) : Struck'[i] = Struck[i]
         /\ Struck'[Len(Struck')] = Byte("kbd", what, k, n)
         /\ k = ExtKey => Struck'[Len(Struck) + 1] = Byte("kbd", "e0", k, n)
<1> DEFINE t == Codes(k, what, n)
           S == Struck
<1>1. t \in Seq(Bytes("kbd")) /\ Len(t) = IF k = ExtKey THEN 2 ELSE 1
  BY CodesType
<1>2. /\ t[Len(t)] = Byte("kbd", what, k, n)
      /\ k = ExtKey => t[1] = Byte("kbd", "e0", k, n)
  <2> DEFINE b == Byte("kbd", what, k, n)
             e == Byte("kbd", "e0", k, n)
  <2>1. t = IF k = ExtKey THEN <<e, b>> ELSE <<b>>
    BY DEF Codes
  <2> HIDE DEF b, e
  <2>2. QED
    BY <2>1 DEF b, e
<1>3. out' = out /\ queue' = [queue EXCEPT !["kbd"] = @ \o t]
  BY DEF Strike
<1> HIDE DEF t
<1>4. S' = S \o t
  BY <1>1, <1>3, StreamSend DEF Struck, Sources
<1>5. S \in Seq(Bytes("kbd")) /\ Len(S) \in Nat
  BY StruckFacts
<1> HIDE DEF S
<1>6. /\ Len(S') = Len(S) + Len(t)
      /\ \A i \in 1..(Len(S) + Len(t)) : S'[i] = IF i <= Len(S) THEN S[i] ELSE t[i - Len(S)]
  BY <1>1, <1>4, <1>5, ConcatProperties
<1>7. /\ \A i \in 1..Len(S) : S'[i] = S[i]
      /\ S'[Len(S')] = t[Len(t)] /\ S'[Len(S) + 1] = t[1]
  BY <1>1, <1>5, <1>6
<1>8. S' # <<>>
  <2>1. Len(S') > 0
    BY <1>1, <1>5, <1>6
  <2>2. QED
    BY <2>1
<1>9. QED
  BY <1>1, <1>2, <1>6, <1>7, <1>8 DEF S

LEMMA StruckGrows ==
  ASSUME InputTypeOK, InputTypeOK', KeyLine, NEW k \in Keys \cup {ExtKey},
         NEW what \in {"make", "break"}, NEW n \in Nat, Strike(k, what, n)
  PROVE  /\ Line' = Line /\ Shown' = Shown /\ kbd' = kbd /\ strokes' = strokes + 1
         /\ \A i \in Presses : /\ i \in 1..Len(Struck) /\ (Again(i)' <=> Again(i))
                               /\ Struck'[i] = Struck[i]
                               /\ i # 1 => Struck'[i - 1] = Struck[i - 1]
         /\ IF what = "make" /\ k \in Keys
            THEN /\ Presses' = Presses \cup {Len(Struck) + 1}
                 /\ Known' = Known \cup {n}
                 /\ \A j : j = Len(Struck) + 1 => (Again(j)' <=> Final = k)
                 /\ Struck'[Len(Struck) + 1].n = n
                 /\ Len(Struck) # 0 => Struck'[Len(Struck)] = Struck[Len(Struck)]
            ELSE Presses' = Presses /\ Known' = Known
         /\ Final' = (IF what = "make" THEN k ELSE None)
         /\ Struck' # <<>> /\ Struck'[Len(Struck')].n = n
         /\ PrefixesPaired'
<1> DEFINE S == Struck
           N == Len(S)
           M == Len(S')
           press == what = "make" /\ k \in Keys
<1>1. /\ N \in Nat /\ (S = <<>> <=> N = 0)
      /\ \A i \in 1..N : S[i].what \in {"e0", "make", "break"} /\ S[i].key \in Keys \cup {ExtKey}
  BY StruckFacts
<1>2. /\ M = N + (IF k = ExtKey THEN 2 ELSE 1) /\ S' # <<>>
      /\ \A i \in 1..N : S'[i] = S[i]
      /\ S'[M].what = what /\ S'[M].key = k /\ S'[M].n = n
      /\ k = ExtKey => S'[N + 1].what = "e0" /\ S'[N + 1].key = ExtKey
  <2>1. /\ M = N + (IF k = ExtKey THEN 2 ELSE 1) /\ S' # <<>>
        /\ \A i \in 1..N : S'[i] = S[i]
        /\ S'[M] = Byte("kbd", what, k, n)
        /\ k = ExtKey => S'[N + 1] = Byte("kbd", "e0", k, n)
    BY StruckAdds
  <2>2. QED
    BY <2>1 DEF Byte
<1>3. None \notin Keys /\ None # ExtKey /\ ExtKey \notin Keys
  BY InputAssumption DEF None
<1>4. /\ kbd' = kbd /\ got' = got /\ strokes' = strokes + 1
  BY DEF Strike
<1>5. Line' = Line /\ Shown' = Shown
  BY <1>4 DEF Line, Shown
<1>6. /\ Presses = {i \in 1..N : S[i].what = "make" /\ S[i].key \in Keys}
      /\ Presses' = {i \in 1..M : S'[i].what = "make" /\ S'[i].key \in Keys}
  BY DEF Presses
<1>7. k \in Keys => M = N + 1
  BY <1>2, <1>3
<1>8. Presses' = Presses \cup (IF press THEN {N + 1} ELSE {})
  <2>1. \A i \in 1..N : i \in Presses' <=> i \in Presses
    BY <1>1, <1>2, <1>6
  <2>2. \A i \in 1..M : i \in 1..N \/ i = M \/ (k = ExtKey /\ i = N + 1)
    BY <1>1, <1>2
  <2>3. M \in Presses' <=> press
    BY <1>1, <1>2, <1>6
  <2>4. k = ExtKey => N + 1 \notin Presses'
    BY <1>2, <1>6
  <2>5. press => M = N + 1
    BY <1>7
  <2>6. \A i \in Presses' : i \in Presses \/ (press /\ i = N + 1)
    BY <1>6, <2>1, <2>2, <2>3, <2>4, <2>5
  <2>7. \A i \in Presses : i \in Presses'
    BY <1>6, <2>1
  <2>8. QED
    BY <2>3, <2>5, <2>6, <2>7
<1>9. ASSUME NEW i \in Presses
      PROVE  /\ i \in 1..N /\ (Again(i)' <=> Again(i)) /\ S'[i] = S[i]
             /\ i # 1 => S'[i - 1] = S[i - 1]
  <2>1. i \in 1..N /\ S'[i] = S[i] /\ (i # 1 => i - 1 \in 1..N /\ S'[i - 1] = S[i - 1])
    BY <1>1, <1>2, <1>6
  <2>2. Again(i)' <=> Again(i)
    <3>1. Again(i)' <=> IF i = 1 THEN kbd'.state = S'[1].key
                        ELSE S'[i - 1].what = "make" /\ S'[i - 1].key = S'[i].key
      BY DEF Again
    <3>2. Again(i) <=> IF i = 1 THEN kbd.state = S[1].key
                       ELSE S[i - 1].what = "make" /\ S[i - 1].key = S[i].key
      BY DEF Again
    <3>3. QED
      BY <1>4, <2>1, <3>1, <3>2
  <2>3. QED
    BY <2>1, <2>2
<1>10. press => /\ \A j : j = N + 1 => (Again(j)' <=> Final = k)
                /\ S'[N + 1].n = n
                /\ N # 0 => S'[N] = S[N]
  <2> SUFFICES ASSUME press
               PROVE  /\ \A j : j = N + 1 => (Again(j)' <=> Final = k)
                      /\ S'[N + 1].n = n
                      /\ N # 0 => S'[N] = S[N]
    OBVIOUS
  <2>1. M = N + 1 /\ S'[N + 1].key = k /\ S'[N + 1].n = n
    BY <1>2, <1>7
  <2>2. N # 0 => S'[N] = S[N]
    BY <1>1, <1>2
  <2>3. ASSUME NEW j, j = N + 1
        PROVE  Again(j)' <=> Final = k
    <3>1. Again(j)' <=> IF j = 1 THEN kbd'.state = S'[1].key
                        ELSE S'[j - 1].what = "make" /\ S'[j - 1].key = S'[j].key
      BY DEF Again
    <3>2. CASE N = 0
      <4>1. Final = kbd.state
        BY <1>1, <3>2, FinalFacts
      <4>2. QED
        BY <1>4, <2>1, <2>3, <3>1, <3>2, <4>1
    <3>3. CASE N # 0
      <4>1. j # 1 /\ j - 1 = N
        BY <1>1, <2>3, <3>3
      <4>2. Again(j)' <=> S[N].what = "make" /\ S[N].key = k
        BY <2>1, <2>2, <2>3, <3>1, <3>3, <4>1
      <4>3. /\ S[N].what = "make" => Final = S[N].key
            /\ S[N].what # "make" => Final = None
        BY <1>1, <3>3, FinalFacts
      <4>4. QED
        BY <1>3, <4>2, <4>3
    <3>4. QED
      BY <3>2, <3>3
  <2>4. QED
    BY <2>1, <2>2, <2>3
<1>11. Final' = IF what = "make" THEN k ELSE None
  BY <1>2 DEF Final
<1>12. Known' = Known \cup (IF press THEN {n} ELSE {})
  <2>1. Known = Shown \cup {S[i].n : i \in Presses}
    BY DEF Known
  <2>2. Known' = Shown' \cup {S'[i].n : i \in Presses'}
    BY DEF Known
  <2>3. {S'[i].n : i \in Presses'} = {S[i].n : i \in Presses} \cup (IF press THEN {n} ELSE {})
    <3>1. {S'[i].n : i \in Presses} = {S[i].n : i \in Presses}
      <4>1. \A i \in Presses : S'[i].n = S[i].n
        BY <1>9
      <4>2. QED
        BY <4>1
    <3>2. CASE press
      <4>1. Presses' = Presses \cup {N + 1} /\ S'[N + 1].n = n
        BY <1>8, <1>10, <3>2
      <4>2. QED
        BY <3>1, <3>2, <4>1
    <3>3. CASE ~press
      <4>1. Presses' = Presses
        BY <1>8, <3>3
      <4>2. QED
        BY <3>1, <3>3, <4>1
    <3>4. QED
      BY <3>2, <3>3
  <2>4. QED
    BY <1>5, <2>1, <2>2, <2>3
<1>13. PrefixesPaired'
  <2>1. PrefixesPaired
    BY DEF KeyLine
  <2>2. kbd'.ext => S' # <<>> /\ S'[1].key = ExtKey
    BY <1>1, <1>2, <1>4, <2>1 DEF PrefixesPaired
  <2>3. ASSUME NEW i \in 1..M, S'[i].what = "e0"
        PROVE  i < M /\ S'[i + 1].key = ExtKey /\ S'[i + 1].what # "e0"
    <3>1. CASE i \in 1..N
      <4>1. i < N /\ S[i + 1].key = ExtKey /\ S[i + 1].what # "e0"
        BY <1>2, <2>1, <2>3, <3>1 DEF PrefixesPaired
      <4>2. i + 1 \in 1..N
        BY <1>1, <3>1, <4>1
      <4>3. QED
        BY <1>1, <1>2, <4>1, <4>2
    <3>2. CASE i \notin 1..N
      <4>1. k = ExtKey /\ i = N + 1 /\ M = N + 2
        BY <1>1, <1>2, <2>3, <3>2
      <4>2. i + 1 = M
        BY <1>1, <4>1
      <4>3. QED
        BY <1>1, <1>2, <4>1, <4>2
    <3>3. QED
      BY <3>1, <3>2
  <2>4. QED
    BY <2>2, <2>3 DEF PrefixesPaired
<1>14. \A i \in Presses : /\ i \in 1..Len(S) /\ (Again(i)' <=> Again(i)) /\ S'[i] = S[i]
                          /\ i # 1 => S'[i - 1] = S[i - 1]
  BY <1>9
<1>15. S' # <<>> /\ S'[Len(S')].n = n
  BY <1>2
<1>16. IF press
       THEN /\ Presses' = Presses \cup {Len(S) + 1}
            /\ Known' = Known \cup {n}
            /\ \A j : j = Len(S) + 1 => (Again(j)' <=> Final = k)
            /\ S'[Len(S) + 1].n = n
            /\ Len(S) # 0 => S'[Len(S)] = S[Len(S)]
       ELSE Presses' = Presses /\ Known' = Known
  <2>1. CASE press
    BY <1>8, <1>10, <1>12, <2>1, Zenon
  <2>2. CASE ~press
    <3>1. Presses' = Presses \cup {} /\ Known' = Known \cup {}
      BY <1>8, <1>12, <2>2, Zenon
    <3>2. QED
      BY <2>2, <3>1
  <2>3. QED
    BY <2>1, <2>2, Zenon
<1>17. QED
  BY <1>4, <1>5, <1>11, <1>13, <1>14, <1>15, <1>16, Zenon

\* The new byte is taken for a repetition only if it is one.
LEMMA PressesGrow ==
  ASSUME InputTypeOK, InputTypeOK', KeyLine, NEW k \in Keys \cup {ExtKey},
         NEW what \in {"make", "break"}, NEW n \in Nat, Strike(k, what, n)
  PROVE  /\ \A i \in Presses : i \in Presses' /\ (Again(i)' <=> Again(i)) /\ Struck'[i] = Struck[i]
         /\ \A i \in Presses' \ Presses :
              /\ i = Len(Struck) + 1 /\ what = "make" /\ k \in Keys
              /\ (Again(i)' <=> Final = k) /\ Struck'[i].n = n
         /\ what = "make" /\ k \in Keys => Known' = Known \cup {n}
         /\ ~(what = "make" /\ k \in Keys) => Known' = Known
<1>1. CASE what = "make" /\ k \in Keys
  <2>1. /\ Presses' = Presses \cup {Len(Struck) + 1}
        /\ Known' = Known \cup {n}
        /\ \A j : j = Len(Struck) + 1 => (Again(j)' <=> Final = k)
        /\ Struck'[Len(Struck) + 1].n = n
        /\ \A i \in Presses : (Again(i)' <=> Again(i)) /\ Struck'[i] = Struck[i]
    BY <1>1, StruckGrows
  <2>2. QED
    BY <1>1, <2>1
<1>2. CASE ~(what = "make" /\ k \in Keys)
  <2>1. /\ Presses' = Presses /\ Known' = Known
        /\ \A i \in Presses : (Again(i)' <=> Again(i)) /\ Struck'[i] = Struck[i]
    BY <1>2, StruckGrows, Zenon
  <2>2. QED
    BY <1>2, <2>1
<1>3. QED
  BY <1>1, <1>2

LEMMA RepeatsKept ==
  ASSUME InputTypeOK, InputTypeOK', KeyLine, NEW k \in Keys \cup {ExtKey},
         NEW what \in {"make", "break"}, NEW n \in Nat, Strike(k, what, n),
         what = "make" /\ k \in Keys /\ Final = k =>
           IF Struck = <<>> THEN n \in Shown \/ kbd.dropped ELSE Struck[Len(Struck)].n = n,
         what = "make" /\ k \in Keys => down'[k] # 0 /\ down'[k] = n
  PROVE  RepeatsShown'
<1> DEFINE S == Struck
           N == Len(S)
<1>1. ASSUME NEW i \in Presses', Again(i)'
      PROVE  IF i = 1 THEN S'[1].n \in Shown' \/ kbd'.dropped ELSE S'[i].n = S'[i - 1].n
  <2>1. CASE i \in Presses
    <3>1. /\ i \in 1..N /\ Again(i) /\ S'[i] = S[i] /\ (i # 1 => S'[i - 1] = S[i - 1])
          /\ Shown' = Shown /\ kbd' = kbd
      BY <1>1, <2>1, StruckGrows, Zenon
    <3>2. IF i = 1 THEN S[1].n \in Shown \/ kbd.dropped ELSE S[i].n = S[i - 1].n
      BY <2>1, <3>1 DEF KeyLine, RepeatsShown
    <3>3. QED
      BY <3>1, <3>2
  <2>2. CASE i \notin Presses
    <3>1. what = "make" /\ k \in Keys /\ i = N + 1
      BY <2>2, StruckGrows
    <3>2. /\ Final = k /\ S'[i].n = n /\ Shown' = Shown /\ kbd' = kbd
          /\ N # 0 => S'[N] = S[N]
      BY <1>1, <3>1, StruckGrows
    <3>3. N \in Nat /\ (S = <<>> <=> N = 0)
      BY StruckFacts
    <3>4. CASE N = 0
      BY <3>1, <3>2, <3>3, <3>4
    <3>5. CASE N # 0
      <4>1. i # 1 /\ i - 1 = N
        BY <3>1, <3>3, <3>5
      <4>2. QED
        BY <3>1, <3>2, <3>3, <3>5, <4>1
    <3>6. QED
      BY <3>4, <3>5
  <2>3. QED
    BY <2>1, <2>2
<1>2. ASSUME NEW j \in Keys, Final' = j
      PROVE  /\ down'[j] # 0
             /\ IF S' = <<>> THEN down'[j] \in Shown' \/ kbd'.dropped
                ELSE S'[Len(S')].n = down'[j]
  <2>1. what = "make" /\ j = k
    BY <1>2, StruckGrows, InputAssumption DEF None
  <2>2. S' # <<>> /\ S'[Len(S')].n = n
    BY StruckGrows
  <2>3. QED
    BY <2>1, <2>2
<1>3. QED
  BY <1>1, <1>2 DEF RepeatsShown

LEMMA KnownFinite ==
  ASSUME InputTypeOK, PressesKnown
  PROVE  /\ IsFiniteSet(Known) /\ Cardinality(Known) \in Nat
         /\ \A n \in Nat : /\ IsFiniteSet(Known \cup {n})
                           /\ Cardinality(Known \cup {n}) \in Nat
                           /\ Cardinality(Known \cup {n}) =
                                IF n \in Known THEN Cardinality(Known) ELSE Cardinality(Known) + 1
<1>1. IsFiniteSet(1..strokes)
  BY FS_Interval DEF InputTypeOK
<1>2. IsFiniteSet(Known)
  BY <1>1, FS_Subset DEF PressesKnown
<1>3. Cardinality(Known) \in Nat
  BY <1>2, FS_CardinalityType
<1>4. \A n \in Nat : /\ IsFiniteSet(Known \cup {n})
                     /\ Cardinality(Known \cup {n}) =
                          IF n \in Known THEN Cardinality(Known) ELSE Cardinality(Known) + 1
  BY <1>2, FS_AddElement
<1>5. QED
  BY <1>2, <1>3, <1>4

LEMMA KnownNumbers ==
  /\ \A x \in 1..Len(Line) : Line[x] \in Known
  /\ \A i \in Presses : Struck[i].n \in Known /\ i \in 1..Len(Struck)
BY DEF Known, Shown, Presses

LEMMA PressKeyLine ==
  ASSUME InputTypeOK, InputTypeOK', KeyLine, NEW k \in Keys \cup {ExtKey}, Press(k)
  PROVE  KeyLine'
<1> DEFINE n == strokes + 1
           N == Len(Struck)
<1>1. /\ Strike(k, "make", n) /\ n \in Nat /\ strokes \in Nat /\ n = strokes + 1
      /\ down[k] = 0 /\ down'[k] = n /\ last' = k /\ rolled' = rolled
      /\ typed' = IF k = ExtKey THEN typed ELSE typed + 1
      /\ typed \in Nat /\ N \in Nat
  BY StruckFacts DEF Press, InputTypeOK
<1>2. /\ Line' = Line /\ Shown' = Shown /\ kbd' = kbd /\ strokes' = n
      /\ \A i \in Presses : (Again(i)' <=> Again(i)) /\ Struck'[i] = Struck[i]
      /\ k \in Keys => /\ Presses' = Presses \cup {N + 1} /\ Known' = Known \cup {n}
                       /\ Struck'[N + 1].n = n
      /\ k \notin Keys => Presses' = Presses /\ Known' = Known
      /\ Final' = k /\ PrefixesPaired'
  BY <1>1, StruckGrows
<1> HIDE DEF n
<1>3. RepeatsShown /\ PressesKnown
  BY DEF KeyLine
<1>4. k \in Keys => Final # k
  BY <1>1, <1>3 DEF RepeatsShown
<1>5. RepeatsShown'
  BY <1>1, <1>4, RepeatsKept
<1>6. /\ Known \subseteq 1..strokes /\ n \notin Known
      /\ \A m \in Known : m \in Nat /\ m < n
  <2>1. Known \subseteq 1..strokes
    BY <1>3 DEF PressesKnown
  <2>2. \A m \in 1..strokes : m \in Nat /\ m < n
    BY <1>1
  <2>3. ~(n < n)
    BY <1>1
  <2>4. QED
    BY <2>1, <2>2, <2>3
<1>7. PressesKnown'
  <2>1. Known' \subseteq 1..n
    <3>1. n \in 1..n /\ 1..strokes \subseteq 1..n
      BY <1>1
    <3>2. Known' = Known \/ Known' = Known \cup {n}
      BY <1>2
    <3>3. QED
      BY <1>6, <3>1, <3>2
  <2>2. ~kbd'.dropped => typed' <= Cardinality(Known')
    <3>1. Cardinality(Known) \in Nat /\ Cardinality(Known \cup {n}) = Cardinality(Known) + 1
      BY <1>1, <1>3, <1>6, KnownFinite
    <3>2. ~kbd.dropped => typed <= Cardinality(Known)
      BY <1>3 DEF PressesKnown
    <3>3. k \in Keys => k # ExtKey
      BY InputAssumption
    <3>4. CASE k \in Keys
      <4>1. typed' = typed + 1 /\ Known' = Known \cup {n} /\ kbd' = kbd
        BY <1>1, <1>2, <3>3, <3>4
      <4>2. Cardinality(Known') = Cardinality(Known) + 1
        BY <3>1, <4>1
      <4>3. QED
        BY <1>1, <3>1, <3>2, <4>1, <4>2
    <3>5. CASE k \notin Keys
      BY <1>1, <1>2, <3>2, <3>5
    <3>6. QED
      BY <3>4, <3>5
  <2>3. QED
    BY <1>2, <2>1, <2>2 DEF PressesKnown
<1>8. ASSUME ~rolled' PROVE PressesOrdered'
  <2>1. PressesOrdered
    BY <1>1, <1>8 DEF KeyLine
  <2>2. \A x, y \in 1..Len(Line') : x < y => Line'[x] < Line'[y]
    BY <1>2, <2>1 DEF PressesOrdered
  <2>3. \A x \in 1..Len(Line'), i \in Presses' :
          Line'[x] <= Struck'[i].n /\ (Line'[x] = Struck'[i].n => Again(i)')
    <3> TAKE x \in 1..Len(Line'), i \in Presses'
    <3>1. CASE i \in Presses
      BY <1>2, <2>1, <3>1 DEF PressesOrdered
    <3>2. CASE i \notin Presses
      <4>1. Struck'[i].n = n /\ Line' = Line
        BY <1>2, <3>2
      <4>2. Line[x] \in Known
        BY <4>1, KnownNumbers
      <4>3. Line[x] \in Nat /\ Line[x] < n
        BY <1>6, <4>2
      <4>4. QED
        BY <1>1, <4>1, <4>3
    <3>3. QED
      BY <3>1, <3>2
  <2>4. \A i, j \in Presses' : i < j =>
          Struck'[i].n <= Struck'[j].n /\ (Struck'[i].n = Struck'[j].n => Again(j)')
    <3> TAKE i, j \in Presses'
    <3> HAVE i < j
    <3>1. CASE j \in Presses
      <4>1. i \in Presses
        BY <1>1, <1>2, <3>1, KnownNumbers
      <4>2. QED
        BY <1>2, <2>1, <3>1, <4>1 DEF PressesOrdered
    <3>2. CASE j \notin Presses
      <4>1. Struck'[j].n = n /\ j = N + 1
        BY <1>2, <3>2
      <4>2. i \in Presses
        BY <1>1, <1>2, <4>1
      <4>3. Struck'[i].n \in Known
        BY <1>2, <4>2, KnownNumbers
      <4>4. Struck'[i].n \in Nat /\ Struck'[i].n < n
        BY <1>6, <4>3
      <4>5. QED
        BY <1>1, <4>1, <4>4
    <3>3. QED
      BY <3>1, <3>2
  <2>5. last' \in Keys => Final' = last' /\ \A m \in Known' : m <= down'[last']
    <3>1. \A m \in Known' : m \in Known \/ m = n
      BY <1>2
    <3>2. ASSUME NEW m \in Known' PROVE m <= n
      <4>1. CASE m = n
        BY <1>1, <4>1
      <4>2. CASE m \in Known
        <5>1. m \in Nat /\ m < n
          BY <1>6, <4>2
        <5>2. QED
          BY <1>1, <5>1
      <4>3. QED
        BY <3>1, <4>1, <4>2
    <3>3. QED
      BY <1>1, <1>2, <3>2
  <2>6. QED
    BY <2>2, <2>3, <2>4, <2>5 DEF PressesOrdered
<1>9. QED
  BY <1>2, <1>5, <1>7, <1>8 DEF KeyLine

LEMMA ReleaseKeyLine ==
  ASSUME InputTypeOK, InputTypeOK', KeyLine, NEW k \in Keys \cup {ExtKey}, Release(k)
  PROVE  KeyLine'
<1>1. /\ Strike(k, "break", 0) /\ strokes \in Nat /\ typed' = typed
      /\ last' = IF last = k THEN None ELSE last
      /\ rolled' = (rolled \/ \E j \in DOMAIN down \ {k} : down[j] # 0)
  BY DEF Release, InputTypeOK
<1>2. /\ Line' = Line /\ Shown' = Shown /\ kbd' = kbd /\ strokes' = strokes + 1
      /\ \A i \in Presses : (Again(i)' <=> Again(i)) /\ Struck'[i] = Struck[i]
      /\ Presses' = Presses /\ Known' = Known
      /\ Final' = None /\ PrefixesPaired'
  BY <1>1, StruckGrows
<1>3. RepeatsShown'
  BY <1>1, RepeatsKept
<1>4. PressesKnown'
  <2>1. PressesKnown
    BY DEF KeyLine
  <2>2. Known' \subseteq 1..strokes'
    BY <1>1, <1>2, <2>1 DEF PressesKnown
  <2>3. QED
    BY <1>1, <1>2, <2>1, <2>2 DEF PressesKnown
<1>5. ASSUME ~rolled' PROVE PressesOrdered'
  <2>1. PressesOrdered
    BY <1>1, <1>5 DEF KeyLine
  <2>2. last' \notin Keys
    <3>1. last # None /\ last # k => down[last] # 0 /\ last \in DOMAIN down \ {k}
      BY DEF InputTypeOK
    <3>2. None \notin Keys
      BY InputAssumption DEF None
    <3>3. QED
      BY <1>1, <1>5, <3>1, <3>2
  <2>3. QED
    BY <1>2, <2>1, <2>2 DEF PressesOrdered
<1>6. QED
  BY <1>2, <1>3, <1>4, <1>5 DEF KeyLine

LEMMA RepeatKeyLine ==
  ASSUME InputTypeOK, InputTypeOK', KeyLine, Repeat
  PROVE  KeyLine'
<1> DEFINE N == Len(Struck)
<1>1. PICK k \in Keys \cup {ExtKey} : k = last
  BY DEF Repeat, InputTypeOK
<1>2. PICK n \in Nat : n = down[k]
  BY <1>1 DEF InputTypeOK
<1>3. /\ Strike(k, "make", n) /\ n # 0 /\ n <= strokes /\ strokes \in Nat
      /\ UNCHANGED <<down, last, typed, rolled>> /\ typed \in Nat /\ N \in Nat
  BY <1>1, <1>2, StruckFacts DEF Repeat, InputTypeOK
<1>4. /\ Line' = Line /\ Shown' = Shown /\ kbd' = kbd /\ strokes' = strokes + 1
      /\ Final' = k /\ PrefixesPaired'
  BY <1>3, StruckGrows
<1>5. RepeatsShown /\ PressesKnown
  BY DEF KeyLine
<1>6. RepeatsShown'
  <2>1. k \in Keys /\ Final = k =>
          IF Struck = <<>> THEN n \in Shown \/ kbd.dropped ELSE Struck[Len(Struck)].n = n
    BY <1>2, <1>5 DEF RepeatsShown
  <2>2. down'[k] = n /\ down'[k] # 0
    BY <1>2, <1>3
  <2>3. QED
    BY <1>3, <2>1, <2>2, RepeatsKept
<1>7. Known' = Known \/ (k \in Keys /\ Known' = Known \cup {n})
  BY <1>3, PressesGrow
<1>8. PressesKnown'
  <2>1. Known' \subseteq 1..strokes'
    <3>1. n \in 1..strokes' /\ 1..strokes \subseteq 1..strokes'
      BY <1>3, <1>4
    <3>2. Known \subseteq 1..strokes
      BY <1>5 DEF PressesKnown
    <3>3. QED
      BY <1>7, <3>1, <3>2
  <2>2. ~kbd'.dropped => typed' <= Cardinality(Known')
    <3>1. ~kbd.dropped => typed <= Cardinality(Known)
      BY <1>5 DEF PressesKnown
    <3>2. /\ Cardinality(Known) \in Nat /\ Cardinality(Known \cup {n}) \in Nat
          /\ Cardinality(Known \cup {n}) >= Cardinality(Known)
      BY <1>5, KnownFinite
    <3>3. Cardinality(Known') \in Nat /\ Cardinality(Known') >= Cardinality(Known)
      BY <1>7, <3>2
    <3>4. QED
      BY <1>3, <1>4, <3>1, <3>2, <3>3
  <2>3. QED
    BY <2>1, <2>2 DEF PressesKnown
<1>9. ASSUME ~rolled' PROVE PressesOrdered'
  <2>1. PressesOrdered
    BY <1>3, <1>9 DEF KeyLine
  <2>2. k \in Keys => Final = k /\ \A m \in Known : m <= n
    BY <1>1, <1>2, <2>1 DEF PressesOrdered
  <2>3. \A x, y \in 1..Len(Line') : x < y => Line'[x] < Line'[y]
    BY <1>4, <2>1 DEF PressesOrdered
  <2>4. \A x \in 1..Len(Line'), i \in Presses' :
          Line'[x] <= Struck'[i].n /\ (Line'[x] = Struck'[i].n => Again(i)')
    <3> TAKE x \in 1..Len(Line'), i \in Presses'
    <3>1. CASE i \in Presses
      <4>1. (Again(i)' <=> Again(i)) /\ Struck'[i] = Struck[i]
        BY <1>3, <3>1, PressesGrow
      <4>2. QED
        BY <1>4, <2>1, <3>1, <4>1 DEF PressesOrdered
    <3>2. CASE i \notin Presses
      <4>1. k \in Keys /\ (Again(i)' <=> Final = k) /\ Struck'[i].n = n
        BY <1>3, <3>2, PressesGrow
      <4>2. Line'[x] \in Known
        BY <1>4, KnownNumbers
      <4>3. QED
        BY <2>2, <4>1, <4>2
    <3>3. QED
      BY <3>1, <3>2
  <2>5. \A i, j \in Presses' : i < j =>
          Struck'[i].n <= Struck'[j].n /\ (Struck'[i].n = Struck'[j].n => Again(j)')
    <3> TAKE i, j \in Presses'
    <3> HAVE i < j
    <3>1. CASE j \in Presses
      <4>1. i \in Presses
        <5>1. j \in 1..N
          BY <3>1, KnownNumbers
        <5>2. i # N + 1
          BY <1>3, <5>1
        <5>3. QED
          BY <1>3, <5>2, PressesGrow
      <4>2. /\ (Again(j)' <=> Again(j)) /\ Struck'[j] = Struck[j] /\ Struck'[i] = Struck[i]
        BY <1>3, <3>1, <4>1, PressesGrow
      <4>3. QED
        BY <2>1, <3>1, <4>1, <4>2 DEF PressesOrdered
    <3>2. CASE j \notin Presses
      <4>1. j = N + 1 /\ k \in Keys /\ (Again(j)' <=> Final = k) /\ Struck'[j].n = n
        BY <1>3, <3>2, PressesGrow
      <4>2. i # N + 1
        BY <1>3, <4>1
      <4>3. i \in Presses
        BY <1>3, <4>2, PressesGrow
      <4>4. Struck'[i] = Struck[i] /\ Struck[i].n \in Known
        BY <1>3, <4>3, PressesGrow, KnownNumbers
      <4>5. QED
        BY <2>2, <4>1, <4>4
    <3>3. QED
      BY <3>1, <3>2
  <2>6. last' \in Keys => Final' = last' /\ \A m \in Known' : m <= down'[last']
    <3> SUFFICES ASSUME last' \in Keys, NEW m \in Known'
                 PROVE  Final' = last' /\ m <= n
      BY <1>1, <1>2, <1>3, <1>4
    <3>1. k \in Keys /\ last' = k
      BY <1>1, <1>3
    <3>2. m \in Known \/ m = n
      BY <1>7
    <3>3. QED
      BY <1>4, <2>2, <3>1, <3>2
  <2>7. QED
    BY <2>3, <2>4, <2>5, <2>6 DEF PressesOrdered
<1>10. QED
  BY <1>4, <1>6, <1>8, <1>9 DEF KeyLine

----------------------------------------------------------------------------
(* The mouse: the answers while it is set up, whole movements afterwards.  *)

LEMMA MovementsEmpty == Movements(<<>>)
<1>1. 0 \in Nat /\ Len(<<>>) = 3 * 0 /\ \A j \in 0..(0 - 1) : FALSE
  OBVIOUS
<1>2. QED
  BY <1>1 DEF Movements

LEMMA MovementsAdd ==
  ASSUME NEW S, NEW s \in Seq(S), NEW t \in Seq(S), Movements(s), Len(t) = 3,
         t[1].what = "b0", t[2].what = "dx", t[3].what = "dy", t[1].n = t[3].n
  PROVE  Movements(s \o t)
<1>1. PICK k \in Nat :
        /\ Len(s) = 3 * k
        /\ \A j \in 0..(k - 1) :
             /\ s[3 * j + 1].what = "b0" /\ s[3 * j + 2].what = "dx" /\ s[3 * j + 3].what = "dy"
             /\ s[3 * j + 1].n = s[3 * j + 3].n
  BY DEF Movements
<1> DEFINE r == s \o t
<1>2. /\ Len(r) = Len(s) + Len(t)
      /\ \A i \in 1..(Len(s) + Len(t)) : r[i] = IF i <= Len(s) THEN s[i] ELSE t[i - Len(s)]
  BY ConcatProperties
<1> HIDE DEF r
<1>3. Len(r) = 3 * (k + 1)
  BY <1>1, <1>2
<1>4. \A i \in 1..(3 * k + 3) : r[i] = IF i <= 3 * k THEN s[i] ELSE t[i - 3 * k]
  BY <1>1, <1>2
<1>5. ASSUME NEW j \in 0..k
      PROVE  /\ r[3 * j + 1].what = "b0" /\ r[3 * j + 2].what = "dx" /\ r[3 * j + 3].what = "dy"
             /\ r[3 * j + 1].n = r[3 * j + 3].n
  <2>1. CASE j = k
    <3>1. r[3 * j + 1] = t[1] /\ r[3 * j + 2] = t[2] /\ r[3 * j + 3] = t[3]
      BY <1>4, <2>1
    <3>2. QED
      BY <3>1
  <2>2. CASE j # k
    <3>1. j \in 0..(k - 1)
      BY <2>2
    <3>2. /\ r[3 * j + 1] = s[3 * j + 1] /\ r[3 * j + 2] = s[3 * j + 2]
          /\ r[3 * j + 3] = s[3 * j + 3]
      BY <1>4, <3>1
    <3>3. QED
      BY <1>1, <3>1, <3>2
  <2>3. QED
    BY <2>1, <2>2
<1>6. k + 1 \in Nat /\ (k + 1) - 1 = k
  OBVIOUS
<1>7. Movements(r)
  BY <1>3, <1>5, <1>6 DEF Movements
<1>8. QED
  BY <1>7 DEF r

\* The first three bytes are one movement, and whole ones follow it.
LEMMA MovementsFirst ==
  ASSUME NEW S, NEW p \in Seq(S), NEW r \in Seq(S), Movements(p \o r)
  PROVE  /\ Len(p) = 3 => Whole(p) /\ Movements(r)
         /\ p = <<>> /\ r # <<>> => r[1].what = "b0"
<1> DEFINE s == p \o r
<1>1. /\ Len(s) = Len(p) + Len(r) /\ Len(p) \in Nat /\ Len(r) \in Nat
      /\ \A i \in 1..(Len(p) + Len(r)) : s[i] = IF i <= Len(p) THEN p[i] ELSE r[i - Len(p)]
  BY ConcatProperties, LenProperties
<1>2. Movements(s)
  OBVIOUS
<1> HIDE DEF s
<1>3. PICK k \in Nat :
        /\ Len(s) = 3 * k
        /\ \A j \in 0..(k - 1) :
             /\ s[3 * j + 1].what = "b0" /\ s[3 * j + 2].what = "dx" /\ s[3 * j + 3].what = "dy"
             /\ s[3 * j + 1].n = s[3 * j + 3].n
  BY <1>2 DEF Movements
<1>4. ASSUME k >= 1
      PROVE  s[1].what = "b0" /\ s[2].what = "dx" /\ s[3].what = "dy" /\ s[1].n = s[3].n
  <2>1. 0 \in 0..(k - 1)
    BY <1>4
  <2>2. 3 * 0 + 1 = 1 /\ 3 * 0 + 2 = 2 /\ 3 * 0 + 3 = 3
    OBVIOUS
  <2>3. QED
    BY <1>3, <2>1, <2>2
<1>5. ASSUME Len(p) = 3 PROVE Whole(p) /\ Movements(r)
  <2>1. k >= 1 /\ Len(r) = 3 * (k - 1)
    BY <1>1, <1>3, <1>5
  <2>2. s[1] = p[1] /\ s[2] = p[2] /\ s[3] = p[3]
    BY <1>1, <1>5
  <2>3. /\ p[1].what = "b0" /\ p[2].what = "dx" /\ p[3].what = "dy" /\ p[1].n = p[3].n
    BY <1>4, <2>1, <2>2
  <2>4. Whole(p)
    BY <2>3 DEF Whole
  <2>5. ASSUME NEW j \in 0..(k - 2)
        PROVE  /\ r[3 * j + 1].what = "b0" /\ r[3 * j + 2].what = "dx"
               /\ r[3 * j + 3].what = "dy" /\ r[3 * j + 1].n = r[3 * j + 3].n
    <3>1. j + 1 \in 0..(k - 1)
      OBVIOUS
    <3>2. /\ 3 * (j + 1) + 1 = 3 * j + 4 /\ 3 * (j + 1) + 2 = 3 * j + 5
          /\ 3 * (j + 1) + 3 = 3 * j + 6
      OBVIOUS
    <3>3. /\ s[3 * j + 4].what = "b0" /\ s[3 * j + 5].what = "dx"
          /\ s[3 * j + 6].what = "dy" /\ s[3 * j + 4].n = s[3 * j + 6].n
      BY <1>3, <3>1, <3>2
    <3>4. /\ s[3 * j + 4] = r[3 * j + 1] /\ s[3 * j + 5] = r[3 * j + 2]
          /\ s[3 * j + 6] = r[3 * j + 3]
      <4>1. /\ 3 * j + 4 \in 1..(3 * k) /\ ~(3 * j + 4 <= 3) /\ (3 * j + 4) - 3 = 3 * j + 1
            /\ 3 * j + 5 \in 1..(3 * k) /\ ~(3 * j + 5 <= 3) /\ (3 * j + 5) - 3 = 3 * j + 2
            /\ 3 * j + 6 \in 1..(3 * k) /\ ~(3 * j + 6 <= 3) /\ (3 * j + 6) - 3 = 3 * j + 3
        BY <2>1
      <4>2. \A i \in 1..(3 * k) : s[i] = IF i <= 3 THEN p[i] ELSE r[i - 3]
        BY <1>1, <1>3, <1>5
      <4>3. QED
        BY <4>1, <4>2
    <3>5. QED
      BY <3>3, <3>4
  <2>6. k - 1 \in Nat /\ (k - 1) - 1 = k - 2
    BY <2>1
  <2>7. Movements(r)
    BY <2>1, <2>5, <2>6 DEF Movements
  <2>8. QED
    BY <2>4, <2>7
<1>6. ASSUME p = <<>>, r # <<>> PROVE r[1].what = "b0"
  <2>1. Len(p) = 0 /\ Len(r) >= 1
    BY <1>1, <1>6, EmptySeq
  <2>2. k >= 1 /\ s[1] = r[1]
    BY <1>1, <1>3, <2>1
  <2>3. QED
    BY <1>4, <2>2
<1>7. QED
  BY <1>5, <1>6

LEMMA MoveBytes ==
  ASSUME InputTypeOK, MoveMouse
  PROVE  \E t \in Seq(Bytes("mouse")) :
           /\ queue' = [queue EXCEPT !["mouse"] = @ \o t] /\ Len(t) = 3
           /\ t[1].what = "b0" /\ t[2].what = "dx" /\ t[3].what = "dy" /\ t[1].n = t[3].n
<1> DEFINE w == <<"b0", "dx", "dy">>
           t == [i \in 1..3 |-> Byte("mouse", w[i], None, moves + 1)]
<1>1. \A i \in 1..3 : Byte("mouse", w[i], None, moves + 1) \in Bytes("mouse")
  BY DEF Byte, Bytes, InputTypeOK
<1>2. t \in Seq(Bytes("mouse")) /\ Len(t) = 3
  BY <1>1
<1>3. t[1].what = "b0" /\ t[2].what = "dx" /\ t[3].what = "dy" /\ t[1].n = t[3].n
  BY DEF Byte
<1>4. queue' = [queue EXCEPT !["mouse"] = @ \o t]
  BY DEF MoveMouse
<1> HIDE DEF t
<1>5. QED
  BY <1>2, <1>3, <1>4

\* A command of the set-up is answered by one byte, and the answer is read
\* by the one it is for unless bytes are mixed up.
LEMMA SetupStreams ==
  ASSUME InputTypeOK, InputTypeOK', ~mixed, ~mixed', NEW from, NEW to,
         NEW src \in {"ctl", "mouse"}, NEW what \in {"cfg", "ack"},
         what = "cfg" <=> src = "ctl"
  PROVE  /\ SendCommand(from, to, src, what) =>
              /\ Stream(src)' = Stream(src) \o <<Byte(src, what, what, 0)>>
              /\ \A z \in Sources \ {src} : Stream(z)' = Stream(z)
         /\ ReadAnswer(from, to, src, what) =>
              /\ Stream(src) # <<>> /\ Stream(src)' = Tail(Stream(src))
              /\ \A z \in Sources \ {src} : Stream(z)' = Stream(z)
<1> DEFINE b == Byte(src, what, what, 0)
<1>1. b \in Bytes(src) /\ src \in Sources /\ b.from = src
  BY DEF Byte, Bytes, Sources
<1>2. b \in AnyByte /\ <<b>> \in Seq(Bytes(src))
  BY <1>1, ByteTypes
<1>3. SendCommand(from, to, src, what) =>
        out' = out /\ queue' = [queue EXCEPT ![src] = Append(@, b)]
  BY DEF SendCommand
<1>4. ReadAnswer(from, to, src, what) => out = <<b>> /\ out' = <<>> /\ queue' = queue
  BY DEF ReadAnswer
<1> HIDE DEF b
<1>5. ASSUME SendCommand(from, to, src, what)
      PROVE  /\ Stream(src)' = Stream(src) \o <<b>>
             /\ \A z \in Sources \ {src} : Stream(z)' = Stream(z)
  <2>1. queue[src] \in Seq(Bytes(src))
    BY <1>1 DEF InputTypeOK
  <2>2. Append(queue[src], b) = queue[src] \o <<b>>
    BY <1>1, <2>1, AppendIsConcat
  <2>3. out' = out /\ queue' = [queue EXCEPT ![src] = @ \o <<b>>]
    BY <1>3, <1>5, <2>2
  <2>4. QED
    BY <1>1, <1>2, <2>3, StreamSend
<1>6. ASSUME ReadAnswer(from, to, src, what)
      PROVE  /\ Stream(src) # <<>> /\ Stream(src)' = Tail(Stream(src))
             /\ \A z \in Sources \ {src} : Stream(z)' = Stream(z)
  BY <1>1, <1>2, <1>4, <1>6, StreamRead
<1>7. QED
  BY <1>5, <1>6 DEF b

\* The keyboard service reads a byte of the keyboard, the mouse service one
\* of the mouse.
LEMMA ReadsOwn ==
  ASSUME InputTypeOK, ReaderHasByte, ~mixed, ~mixed'
  PROVE  /\ KbdRead => \E b \in AnyByte : out = <<b>> /\ b.from = "kbd"
         /\ MouseRead => \E b \in AnyByte : out = <<b>> /\ b.from = "mouse"
<1>1. ASSUME KbdRead PROVE \E b \in AnyByte : out = <<b>> /\ b.from = "kbd"
  <2>1. PICK b \in AnyByte : out = <<b>> /\ Head(out) = b /\ b.from \in Sources
    BY <1>1, OutByte DEF KbdRead, ReaderHasByte
  <2>2. b.from # "mouse" /\ b.from # "ctl"
    BY <1>1, <2>1 DEF KbdRead, ReaderHasByte, Aux
  <2>3. QED
    BY <2>1, <2>2 DEF Sources
<1>2. ASSUME MouseRead PROVE \E b \in AnyByte : out = <<b>> /\ b.from = "mouse"
  <2>1. PICK b \in AnyByte : out = <<b>> /\ Head(out) = b /\ b.from \in Sources
    BY <1>2, OutByte DEF MouseRead, ReaderHasByte
  <2>2. b.from = "mouse"
    BY <1>2, <2>1 DEF MouseRead, ReaderHasByte, Aux
  <2>3. QED
    BY <2>1, <2>2
<1>3. QED
  BY <1>1, <1>2

LEMMA StreamsKept ==
  ASSUME queue' = queue, out' = out
  PROVE  \A z : Stream(z)' = Stream(z)
BY DEF Stream

LEMMA KeyLineStep ==
  ASSUME InputTypeOK, InputTypeOK', ReaderHasByte, KeyLine, ~mixed, ~mixed', [Next]_vars
  PROVE  KeyLine'
<1>1. ASSUME Struck' = Struck, UNCHANGED <<kbd, got, down, last, strokes, typed, rolled>>
      PROVE  KeyLine'
  <2>1. Line' = Line
    BY <1>1 DEF Line
  <2>2. QED
    BY <1>1, <2>1, KeyLineKept
<1>2. ASSUME UNCHANGED <<out, queue, kbd, got, down, last, strokes, typed, rolled>>
      PROVE  KeyLine'
  <2>1. Struck' = Struck
    BY <1>2, StreamsKept DEF Struck
  <2>2. QED
    BY <1>1, <1>2, <2>1
<1>3. CASE UNCHANGED vars
  BY <1>2, <1>3 DEF vars, user
<1>4. CASE UserStep
  <2>1. CASE MoveMouse
    <3>1. PICK t \in Seq(Bytes("mouse")) : queue' = [queue EXCEPT !["mouse"] = @ \o t]
      BY <2>1, MoveBytes
    <3>2. out' = out /\ UNCHANGED <<kbd, got, down, last, strokes, typed, rolled>>
      BY <2>1 DEF MoveMouse
    <3>3. Struck' = Struck
      BY <3>1, <3>2, StreamSend DEF Struck, Sources
    <3>4. QED
      BY <1>1, <3>2, <3>3
  <2>2. QED
    BY <1>4, <2>1, PressKeyLine, ReleaseKeyLine, RepeatKeyLine DEF UserStep
<1>5. CASE Controller
  <2>1. PICK s \in Sources : Load(s)
    BY <1>5 DEF Controller
  <2>2. Struck' = Struck
    BY <2>1, StreamLoad DEF Struck, Sources
  <2>3. UNCHANGED <<kbd, got, down, last, strokes, typed, rolled>>
    BY <2>1 DEF Load, user
  <2>4. QED
    BY <1>1, <2>2, <2>3
<1>6. CASE KbdStatus \/ KbdRecv \/ AskKey \/ MouseStatus \/ MouseRecv
  BY <1>2, <1>6 DEF KbdStatus, KbdRecv, AskKey, MouseStatus, MouseRecv, user
<1>7. CASE KbdRead
  BY <1>7, ReadsOwn, ReadKeyLine
<1>8. CASE KbdReply
  <2>1. Struck' = Struck /\ UNCHANGED <<down, last, strokes, typed, rolled>>
    BY <1>8, StreamsKept DEF KbdReply, Struck, user
  <2>2. /\ Line' = Line
        /\ kbd'.state = kbd.state /\ kbd'.ext = kbd.ext /\ kbd'.dropped = kbd.dropped
    <3>1. kbd \in KbdStates /\ got \in Seq(Nat) /\ kbd.ring \in Seq(Nat)
      BY DEF InputTypeOK, KbdStates
    <3>2. CASE kbd.ring = <<>>
      BY <1>8, <3>2 DEF KbdReply, Line
    <3>3. CASE kbd.ring # <<>>
      <4> DEFINE h == Head(kbd.ring)
                 r == Tail(kbd.ring)
      <4>1. got' = Append(got, h) /\ kbd' = [kbd EXCEPT !.ring = r]
        BY <1>8, <3>3 DEF KbdReply
      <4>2. h \in Nat /\ r \in Seq(Nat) /\ <<h>> \o r = kbd.ring
        BY <3>1, <3>3, SeqSteps, SeqEnds
      <4> HIDE DEF h, r
      <4>3. /\ kbd'.ring = r /\ kbd'.state = kbd.state /\ kbd'.ext = kbd.ext
            /\ kbd'.dropped = kbd.dropped
        BY <3>1, <4>1 DEF KbdStates
      <4>4. Append(got, h) = got \o <<h>>
        BY <3>1, <4>2, AppendIsConcat
      <4>5. (got \o <<h>>) \o r = got \o (<<h>> \o r)
        <5>1. <<h>> \in Seq(Nat)
          BY <4>2
        <5>2. QED
          BY <3>1, <4>2, <5>1, ConcatAssociative
      <4>6. Line' = Line
        BY <4>1, <4>2, <4>3, <4>4, <4>5 DEF Line
      <4>7. QED
        BY <4>3, <4>6
    <3>4. QED
      BY <3>2, <3>3
  <2>3. QED
    BY <2>1, <2>2, KeyLineKept
<1>9. CASE MouseSetup
  <2>1. UNCHANGED <<kbd, got, down, last, strokes, typed, rolled>>
    BY <1>9 DEF MouseSetup, SendCommand, ReadAnswer, user
  <2>2. ASSUME NEW from, NEW to, NEW src \in {"ctl", "mouse"}, NEW what \in {"cfg", "ack"},
               what = "cfg" <=> src = "ctl",
               SendCommand(from, to, src, what) \/ ReadAnswer(from, to, src, what)
        PROVE  Struck' = Struck
    BY <2>2, SetupStreams DEF Struck, Sources
  <2>3. Struck' = Struck
    BY <1>9, <2>2 DEF MouseSetup
  <2>4. QED
    BY <1>1, <2>1, <2>3
<1>10. CASE MouseRead
  <2>1. PICK b \in AnyByte : out = <<b>> /\ b.from = "mouse"
    BY <1>10, ReadsOwn
  <2>2. /\ out' = <<>> /\ queue' = queue
        /\ UNCHANGED <<kbd, got, down, last, strokes, typed, rolled>>
    BY <1>10 DEF MouseRead, user
  <2>3. Struck' = Struck
    BY <2>1, <2>2, StreamRead DEF Struck, Sources
  <2>4. QED
    BY <1>1, <2>2, <2>3
<1>11. QED
  BY <1>3, <1>4, <1>5, <1>6, <1>7, <1>8, <1>9, <1>10 DEF Next, KbdStep, MouseStep

LEMMA MouseSendsKept ==
  ASSUME MouseSends, Stream("ctl")' = Stream("ctl"), Stream("mouse")' = Stream("mouse"),
         packet' = packet, moved' = moved,
         pc'["mouse"] = pc["mouse"] \/ (Registered("mouse") /\ Registered("mouse")')
  PROVE  MouseSends'
<1>1. CASE pc'["mouse"] = pc["mouse"]
  BY <1>1 DEF MouseSends, Registered
<1>2. CASE Registered("mouse") /\ Registered("mouse")'
  BY <1>2 DEF MouseSends, Registered
<1>3. QED
  BY <1>1, <1>2

LEMMA StrikeKeeps ==
  ASSUME InputTypeOK, InputTypeOK',
         NEW k \in Keys \cup {ExtKey}, NEW what \in {"make", "break"}, NEW n \in Nat,
         Strike(k, what, n)
  PROVE  \A z \in Sources \ {"kbd"} : Stream(z)' = Stream(z)
<1>1. Codes(k, what, n) \in Seq(Bytes("kbd"))
  BY CodesType
<1>2. out' = out /\ queue' = [queue EXCEPT !["kbd"] = @ \o Codes(k, what, n)]
  BY DEF Strike
<1>3. QED
  BY <1>1, <1>2, StreamSend DEF Sources

LEMMA MoveSends ==
  ASSUME InputTypeOK, InputTypeOK', MouseSends, MoveMouse
  PROVE  MouseSends'
<1>1. PICK t \in Seq(Bytes("mouse")) :
        /\ queue' = [queue EXCEPT !["mouse"] = @ \o t] /\ Len(t) = 3
        /\ t[1].what = "b0" /\ t[2].what = "dx" /\ t[3].what = "dy" /\ t[1].n = t[3].n
  BY MoveBytes
<1>2. /\ UNCHANGED <<out, packet, moved, pc>>
      /\ Registered("mouse") \/ pc["mouse"] = "ackf4"
  BY DEF MoveMouse
<1> DEFINE M == Stream("mouse")
<1>3. M' = M \o t /\ Stream("ctl")' = Stream("ctl")
  BY <1>1, <1>2, StreamSend DEF Sources
<1>4. M \in Seq(AnyByte) /\ t \in Seq(AnyByte) /\ packet \in Seq(AnyByte)
  <2>1. M \in Seq(Bytes("mouse")) /\ Bytes("mouse") \subseteq AnyByte
    BY StreamType, ByteTypes DEF Sources
  <2>2. QED
    BY <2>1 DEF InputTypeOK
<1> HIDE DEF M
<1>5. CASE Registered("mouse")
  <2>1. Movements(packet \o M)
    BY <1>5 DEF MouseSends, M
  <2>2. packet \o M \in Seq(AnyByte)
    BY <1>4, SeqSteps
  <2>3. Movements((packet \o M) \o t)
    BY <1>1, <1>4, <2>1, <2>2, MovementsAdd
  <2>4. (packet \o M) \o t = packet \o (M \o t)
    BY <1>4, ConcatAssociative
  <2>5. Movements(packet' \o Stream("mouse")')
    BY <1>2, <1>3, <2>3, <2>4 DEF M
  <2>6. QED
    BY <1>2, <1>3, <1>5, <2>5 DEF MouseSends, Registered
<1>6. CASE pc["mouse"] = "ackf4"
  <2>1. /\ M # <<>> /\ Head(M) = Byte("mouse", "ack", "ack", 0) /\ Movements(Tail(M))
        /\ packet = <<>>
    BY <1>6 DEF MouseSends, M, Registered
  <2> DEFINE h == Head(M)
             q == Tail(M)
  <2>2. h \in AnyByte /\ q \in Seq(AnyByte) /\ <<h>> \o q = M
    BY <1>4, <2>1, SeqSteps, SeqEnds
  <2>3. h = Byte("mouse", "ack", "ack", 0) /\ Movements(q)
    BY <2>1
  <2> HIDE DEF h, q
  <2>4. M' = <<h>> \o (q \o t) /\ q \o t \in Seq(AnyByte)
    <3>1. (<<h>> \o q) \o t = <<h>> \o (q \o t)
      BY <1>4, <2>2, SeqPrepend
    <3>2. q \o t \in Seq(AnyByte)
      BY <1>4, <2>2, SeqSteps
    <3>3. QED
      BY <1>3, <2>2, <3>1, <3>2
  <2>5. Movements(q \o t)
    BY <1>1, <1>4, <2>2, <2>3, MovementsAdd
  <2>6. M' # <<>> /\ Head(M') = h /\ Tail(M') = q \o t
    BY <2>2, <2>4, SeqEnds
  <2>7. /\ Stream("mouse")' # <<>> /\ Movements(Tail(Stream("mouse")'))
        /\ Head(Stream("mouse")') = Byte("mouse", "ack", "ack", 0)
    BY <2>3, <2>5, <2>6 DEF M
  <2>8. QED
    BY <1>2, <1>3, <1>6, <2>1, <2>7 DEF MouseSends, Registered
<1>7. QED
  BY <1>2, <1>5, <1>6

LEMMA MouseStreamNext ==
  InputTypeOK' => (Stream("mouse") \in Seq(Bytes("mouse")))'
<1>1. InputTypeOK => Stream("mouse") \in Seq(Bytes("mouse"))
  BY StreamType DEF Sources
<1>2. QED
  BY <1>1, PTL

LEMMA SetupSends ==
  ASSUME InputTypeOK, InputTypeOK', MouseSends, ~mixed, ~mixed', MouseSetup
  PROVE  MouseSends'
<1> DEFINE M == Stream("mouse")
           C == Stream("ctl")
           ack == Byte("mouse", "ack", "ack", 0)
           cfg == Byte("ctl", "cfg", "cfg", 0)
<1>1. M \in Seq(Bytes("mouse")) /\ C \in Seq(Bytes("ctl"))
  BY StreamType DEF Sources
<1>2. <<>> \o <<ack>> = <<ack>> /\ <<>> \o <<cfg>> = <<cfg>>
  <2>1. \A b : <<b>> \in Seq({b})
    OBVIOUS
  <2>2. QED
    BY <2>1, SeqEnds
<1>3. \A b : /\ Head(<<b>>) = b /\ Tail(<<b>>) = <<>> /\ Len(<<b>>) = 1 /\ <<b>> # <<>>
  OBVIOUS
<1>4. packet' = packet /\ moved' = moved
  BY DEF MouseSetup, SendCommand, ReadAnswer
<1>5. "ctl" \in Sources /\ "mouse" \in Sources
  BY DEF Sources
<1>6. /\ C = IF pc["mouse"] = "getcfg" THEN <<cfg>> ELSE <<>>
      /\ pc["mouse"] \in {"config", "getcfg", "f6", "f4"} => M = <<>>
      /\ pc["mouse"] \in {"ackf6", "ackf4"} =>
           M # <<>> /\ Head(M) = ack /\ Movements(Tail(M))
      /\ pc["mouse"] = "ackf6" => Len(M) = 1
      /\ packet = <<>> /\ \A i \in 1..Len(moved) : Whole(moved[i])
  BY DEF MouseSends, MouseSetup, SendCommand, ReadAnswer, Registered
<1> HIDE DEF ack, cfg
<1>7. SUFFICES
        /\ Stream("ctl")' = IF pc'["mouse"] = "getcfg" THEN <<cfg>> ELSE <<>>
        /\ pc'["mouse"] \in {"config", "getcfg", "f6", "f4"} => Stream("mouse")' = <<>>
        /\ pc'["mouse"] \in {"ackf6", "ackf4"} =>
             /\ Stream("mouse")' # <<>> /\ Head(Stream("mouse")') = ack
             /\ Movements(Tail(Stream("mouse")'))
             /\ pc'["mouse"] = "ackf6" => Len(Stream("mouse")') = 1
        /\ pc'["mouse"] = "drain" => Movements(Stream("mouse")')
        /\ pc'["mouse"] \in {"getcfg", "f6", "ackf6", "f4", "ackf4", "drain"}
  <2>1. Stream("mouse")' \in Seq(Bytes("mouse")) /\ packet' = <<>>
    BY <1>4, <1>6, MouseStreamNext
  <2>2. packet' \o Stream("mouse")' = Stream("mouse")'
    BY <2>1, SeqEnds
  <2>3. QED
    BY <1>4, <1>6, <1>7, <2>1, <2>2 DEF MouseSends, Registered, ack, cfg
<1>8. CASE SendCommand("config", "getcfg", "ctl", "cfg")
  <2>1. pc["mouse"] = "config" /\ pc'["mouse"] = "getcfg"
    BY <1>8 DEF SendCommand, Goto, InputTypeOK
  <2>2. C' = C \o <<cfg>> /\ M' = M
    BY <1>5, <1>8, SetupStreams DEF cfg
  <2>3. QED
    BY <1>2, <1>6, <2>1, <2>2
<1>9. CASE ReadAnswer("getcfg", "f6", "ctl", "cfg")
  <2>1. pc["mouse"] = "getcfg" /\ pc'["mouse"] = "f6"
    BY <1>9 DEF ReadAnswer, Goto, InputTypeOK
  <2>2. C' = Tail(C) /\ M' = M
    BY <1>5, <1>9, SetupStreams
  <2>3. QED
    BY <1>3, <1>6, <2>1, <2>2
<1>10. CASE SendCommand("f6", "ackf6", "mouse", "ack")
  <2>1. pc["mouse"] = "f6" /\ pc'["mouse"] = "ackf6"
    BY <1>10 DEF SendCommand, Goto, InputTypeOK
  <2>2. M' = M \o <<ack>> /\ C' = C
    BY <1>5, <1>10, SetupStreams DEF ack
  <2>3. QED
    BY <1>2, <1>3, <1>6, <2>1, <2>2, MovementsEmpty
<1>11. CASE ReadAnswer("ackf6", "f4", "mouse", "ack")
  <2>1. pc["mouse"] = "ackf6" /\ pc'["mouse"] = "f4"
    BY <1>11 DEF ReadAnswer, Goto, InputTypeOK
  <2>2. M' = Tail(M) /\ M # <<>> /\ C' = C
    BY <1>5, <1>11, SetupStreams
  <2>3. Tail(M) = <<>>
    <3>1. Len(Tail(M)) = 0 /\ Tail(M) \in Seq(Bytes("mouse"))
      BY <1>1, <1>6, <2>1, <2>2, SeqSteps
    <3>2. QED
      BY <3>1, EmptySeq
  <2>4. QED
    BY <1>6, <2>1, <2>2, <2>3
<1>12. CASE SendCommand("f4", "ackf4", "mouse", "ack")
  <2>1. pc["mouse"] = "f4" /\ pc'["mouse"] = "ackf4"
    BY <1>12 DEF SendCommand, Goto, InputTypeOK
  <2>2. M' = M \o <<ack>> /\ C' = C
    BY <1>5, <1>12, SetupStreams DEF ack
  <2>3. QED
    BY <1>2, <1>3, <1>6, <2>1, <2>2, MovementsEmpty
<1>13. CASE ReadAnswer("ackf4", "drain", "mouse", "ack")
  <2>1. pc["mouse"] = "ackf4" /\ pc'["mouse"] = "drain"
    BY <1>13 DEF ReadAnswer, Goto, InputTypeOK
  <2>2. M' = Tail(M) /\ C' = C
    BY <1>5, <1>13, SetupStreams
  <2>3. QED
    BY <1>6, <2>1, <2>2
<1>14. QED
  BY <1>8, <1>9, <1>10, <1>11, <1>12, <1>13 DEF MouseSetup

LEMMA ReadSends ==
  ASSUME InputTypeOK, InputTypeOK', MouseSends, ReaderHasByte, ~mixed, ~mixed', MouseRead
  PROVE  MouseSends'
<1> DEFINE M == Stream("mouse")
<1>1. PICK b \in AnyByte : out = <<b>> /\ b.from = "mouse"
  BY ReadsOwn
<1>2. /\ out' = <<>> /\ queue' = queue /\ pc["mouse"] = "read" /\ pc'["mouse"] = "drain"
      /\ Registered("mouse") /\ Registered("mouse")'
  BY DEF MouseRead, Goto, Registered, InputTypeOK
<1>3. /\ M # <<>> /\ Head(M) = b /\ M[1] = b /\ M' = Tail(M)
      /\ Stream("ctl")' = Stream("ctl")
  BY <1>1, <1>2, StreamRead DEF Sources
<1>4. M \in Seq(AnyByte) /\ packet \in Seq(AnyByte) /\ moved \in Seq(Seq(AnyByte))
  <2>1. M \in Seq(Bytes("mouse")) /\ Bytes("mouse") \subseteq AnyByte
    BY StreamType, ByteTypes DEF Sources
  <2>2. QED
    BY <2>1 DEF InputTypeOK
<1>5. Movements(packet \o M) /\ \A i \in 1..Len(moved) : Whole(moved[i])
  BY <1>2 DEF MouseSends
<1> DEFINE p == Append(packet, b)
<1>6. p \in Seq(AnyByte)
  BY <1>4, SeqSteps
<1>7. IF Len(p) = 3 THEN packet' = <<>> /\ moved' = Append(moved, p)
      ELSE packet' = p /\ moved' = moved
  <2>1. packet = <<>> => Begins(b)
    <3>1. packet = <<>> => M[1].what = "b0"
      BY <1>3, <1>4, <1>5, MovementsFirst
    <3>2. QED
      BY <1>3, <3>1 DEF Begins
  <2>2. out # <<>> /\ Head(out) = b
    BY <1>1
  <2>3. (IF out = <<>> \/ (packet = <<>> /\ ~Begins(Head(out))) THEN packet
         ELSE Append(packet, Head(out))) = p
    BY <2>1, <2>2
  <2>4. QED
    BY <2>3 DEF MouseRead
<1> HIDE DEF M, p
<1>8. M' \in Seq(AnyByte) /\ <<b>> \o M' = M
  <2>1. Head(M) = b /\ Tail(M) \in Seq(AnyByte) /\ <<Head(M)>> \o Tail(M) = M
    BY <1>3, <1>4, SeqSteps, SeqEnds
  <2>2. QED
    BY <1>3, <2>1
<1>9. p \o M' = packet \o M
  <2>1. p = packet \o <<b>> /\ <<b>> \in Seq(AnyByte)
    BY <1>4, AppendIsConcat DEF p
  <2>2. (packet \o <<b>>) \o M' = packet \o (<<b>> \o M')
    BY <1>4, <1>8, <2>1, ConcatAssociative
  <2>3. QED
    BY <1>8, <2>1, <2>2
<1>10. Movements(p \o M')
  BY <1>5, <1>9
<1>11. /\ Movements(packet' \o M')
       /\ \A i \in 1..Len(moved') : Whole(moved'[i])
  <2>1. CASE Len(p) = 3
    <3>1. Whole(p) /\ Movements(M')
      BY <1>6, <1>8, <1>10, <2>1, MovementsFirst
    <3>2. packet' \o M' = M'
      BY <1>7, <1>8, <2>1, SeqEnds
    <3>3. \A i \in 1..Len(moved') : Whole(moved'[i])
      <4>1. moved' = Append(moved, p)
        BY <1>7, <2>1
      <4>2. /\ Len(moved') = Len(moved) + 1 /\ Len(moved) \in Nat
            /\ \A i \in 1..Len(moved) : moved'[i] = moved[i]
            /\ moved'[Len(moved) + 1] = p
        BY <1>4, <1>6, <4>1, AppendProperties, LenProperties
      <4>3. \A i \in 1..Len(moved') : i \in 1..Len(moved) \/ i = Len(moved) + 1
        BY <4>2
      <4>4. QED
        BY <1>5, <3>1, <4>2, <4>3
    <3>4. QED
      BY <3>1, <3>2, <3>3
  <2>2. CASE Len(p) # 3
    BY <1>5, <1>7, <1>10, <2>2
  <2>3. QED
    BY <2>1, <2>2
<1>12. QED
  BY <1>2, <1>3, <1>11 DEF MouseSends, M, Registered

LEMMA MouseSendsStep ==
  ASSUME InputTypeOK, InputTypeOK', ReaderHasByte, MouseSends, ~mixed, ~mixed', [Next]_vars
  PROVE  MouseSends'
<1>1. ASSUME UNCHANGED <<out, queue, packet, moved>>,
             pc'["mouse"] = pc["mouse"] \/ (Registered("mouse") /\ Registered("mouse")')
      PROVE  MouseSends'
  BY <1>1, StreamsKept, MouseSendsKept
<1>2. CASE UNCHANGED vars
  BY <1>1, <1>2 DEF vars
<1>3. CASE UserStep
  <2>1. ASSUME NEW k \in Keys \cup {ExtKey}, NEW what \in {"make", "break"}, NEW n \in Nat,
               Strike(k, what, n)
        PROVE  MouseSends'
    <3>1. UNCHANGED <<packet, moved, pc>>
      BY <2>1 DEF Strike
    <3>2. Stream("ctl")' = Stream("ctl") /\ Stream("mouse")' = Stream("mouse")
      BY <2>1, StrikeKeeps DEF Sources
    <3>3. QED
      BY <3>1, <3>2, MouseSendsKept
  <2>2. ASSUME NEW k \in Keys \cup {ExtKey}, Press(k) PROVE MouseSends'
    <3>1. PICK n \in Nat : n = strokes + 1
      BY DEF InputTypeOK
    <3>2. Strike(k, "make", n)
      BY <2>2, <3>1 DEF Press
    <3>3. QED
      BY <2>1, <3>2
  <2>3. ASSUME NEW k \in Keys \cup {ExtKey}, Release(k) PROVE MouseSends'
    BY <2>1, <2>3 DEF Release
  <2>4. CASE Repeat
    <3>1. /\ Strike(last, "make", down[last]) /\ last \in Keys \cup {ExtKey}
          /\ down[last] \in Nat
      BY <2>4 DEF Repeat, InputTypeOK
    <3>2. QED
      BY <2>1, <3>1
  <2>5. QED
    BY <1>3, <2>2, <2>3, <2>4, MoveSends DEF UserStep
<1>4. CASE Controller
  <2>1. PICK s \in Sources : Load(s)
    BY <1>4 DEF Controller
  <2>2. Stream("ctl")' = Stream("ctl") /\ Stream("mouse")' = Stream("mouse")
    BY <2>1, StreamLoad DEF Sources
  <2>3. /\ packet' = packet /\ moved' = moved
        /\ pc'["mouse"] = pc["mouse"] \/ (Registered("mouse") /\ Registered("mouse")')
    BY <2>1 DEF Load, DeliverIrq, Driver, Goto, Registered, InputTypeOK
  <2>4. QED
    BY <2>2, <2>3, MouseSendsKept
<1>5. CASE KbdStatus \/ KbdRecv \/ KbdReply \/ AskKey
  BY <1>1, <1>5 DEF KbdStatus, KbdRecv, KbdReply, AskKey, Goto, InputTypeOK
<1>6. CASE MouseStatus \/ MouseRecv
  BY <1>1, <1>6 DEF MouseStatus, MouseRecv, Goto, InputTypeOK, Registered
<1>7. CASE KbdRead
  <2>1. PICK b \in AnyByte : out = <<b>> /\ b.from = "kbd"
    BY <1>7, ReadsOwn
  <2>2. /\ out' = <<>> /\ queue' = queue /\ packet' = packet /\ moved' = moved
        /\ pc'["mouse"] = pc["mouse"]
    BY <1>7 DEF KbdRead, Goto, InputTypeOK
  <2>3. Stream("ctl")' = Stream("ctl") /\ Stream("mouse")' = Stream("mouse")
    BY <2>1, <2>2, StreamRead DEF Sources
  <2>4. QED
    BY <2>2, <2>3, MouseSendsKept
<1>8. QED
  BY <1>2, <1>3, <1>4, <1>5, <1>6, <1>7, SetupSends, ReadSends DEF Next, KbdStep, MouseStep

----------------------------------------------------------------------------
(* The invariant, and what it implies.                                     *)

LEMMA InputIInvInit == Init => InputIInv
<1> SUFFICES ASSUME Init PROVE InputIInv
  OBVIOUS
<1>1. CallPlaces /\ ReaderHasByte
  BY DEF Init, CallPlaces, ReaderHasByte
<1>2. \A s \in Sources : Stream(s) = <<>>
  <2>1. <<>> \o <<>> = <<>>
    <3>1. <<>> \in Seq(Nat)
      OBVIOUS
    <3>2. QED
      BY <3>1, SeqEnds
  <2>2. QED
    BY <2>1 DEF Init, Stream
<1>3. Struck = <<>> /\ Len(Struck) = 0 /\ Line = <<>> /\ Len(Line) = 0
  <2>1. <<>> \o <<>> = <<>> /\ Len(<<>>) = 0
    <3>1. <<>> \in Seq(Nat)
      OBVIOUS
    <3>2. QED
      BY <3>1, SeqEnds
  <2>2. QED
    BY <1>2, <2>1 DEF Init, Struck, Line, Sources
<1>4. Presses = {} /\ Known = {} /\ Shown = {} /\ Final = None
  BY <1>3 DEF Presses, Known, Shown, Final, Init
<1>5. KeyLine
  <2>1. PrefixesPaired
    BY <1>3 DEF PrefixesPaired, Init
  <2>2. RepeatsShown
    BY <1>4, InputAssumption DEF RepeatsShown, None
  <2>3. PressesKnown
    BY <1>4, FS_EmptySet DEF PressesKnown, Init
  <2>4. PressesOrdered
    BY <1>3, <1>4, InputAssumption DEF PressesOrdered, Init, None
  <2>5. QED
    BY <2>1, <2>2, <2>3, <2>4 DEF KeyLine
<1>6. MouseSends
  BY <1>2 DEF MouseSends, Init, Registered, Sources
<1>7. QED
  BY <1>1, <1>5, <1>6, InputTypeInit DEF InputIInv

LEMMA InputIInvStep == InputIInv /\ [Next]_vars => InputIInv'
<1> SUFFICES ASSUME InputIInv, [Next]_vars PROVE InputIInv'
  OBVIOUS
<1>1. InputTypeOK /\ CallPlaces /\ InputTypeOK' /\ CallPlaces'
  BY InputTypeStep, CallPlacesStep DEF InputIInv
<1>2. ASSUME ~mixed' PROVE ReaderHasByte' /\ KeyLine' /\ MouseSends'
  <2>1. ~mixed /\ ReaderHasByte /\ KeyLine /\ MouseSends
    BY <1>1, <1>2, MixedStays DEF InputIInv
  <2>2. QED
    BY <1>1, <1>2, <2>1, ReaderHasByteStep, KeyLineStep, MouseSendsStep
<1>3. QED
  BY <1>1, <1>2 DEF InputIInv

\* InputIInv is an invariant: the ranges, where the services are, what the
\* streams hold as long as the set-up of the mouse has not mixed up the bytes.
THEOREM InputInvCorrect == Spec => []InputIInv
<1>1. QED
  BY InputIInvInit, InputIInvStep, PTL DEF Spec

\* The ring, the packet and the buffer are never longer than they may be, and
\* a keyboard service that sleeps has no interrupt and no call waiting.
THEOREM InputOKHolds == Spec => []InputOK
<1>1. InputIInv => InputOK
  <2> SUFFICES ASSUME InputIInv PROVE InputOK
    OBVIOUS
  <2>1. Len(out) <= 1
    <3>1. out = <<>> \/ \E b \in AnyByte : out = <<b>>
      BY DEF InputIInv, InputTypeOK
    <3>2. Len(<<>>) = 0 /\ \A b : Len(<<b>>) = 1
      OBVIOUS
    <3>3. Len(out) = 0 \/ Len(out) = 1
      BY <3>1, <3>2, Zenon
    <3>4. 0 <= 1 /\ 1 <= 1
      OBVIOUS
    <3>5. QED
      BY <3>3, <3>4, Zenon
  <2>2. QED
    BY <2>1 DEF InputIInv, InputTypeOK, CallPlaces, InputOK
<1>2. QED
  BY <1>1, InputInvCorrect, PTL

\* The keyboard service never takes a byte of the mouse and the loop of the
\* mouse service nothing else, though the status and the data are read in two
\* accesses and the other service runs in between.
THEOREM BytesToOwnersHolds == Spec => BytesToOwners
<1> DEFINE A == ~mixed =>
             /\ KbdRead => \A i \in 1..Len(out) : ~Aux(out[i])
             /\ MouseRead => out # <<>> /\ Aux(Head(out))
<1>1. InputIInv /\ [Next]_vars => [A]_vars
  <2> SUFFICES ASSUME InputIInv, ~mixed
               PROVE  /\ KbdRead => \A i \in 1..Len(out) : ~Aux(out[i])
                      /\ MouseRead => out # <<>> /\ Aux(Head(out))
    OBVIOUS
  <2>1. ReaderHasByte /\ InputTypeOK
    BY DEF InputIInv
  <2>2. ASSUME KbdRead PROVE \A i \in 1..Len(out) : ~Aux(out[i])
    <3>1. out # <<>> /\ ~Aux(Head(out))
      BY <2>1, <2>2 DEF ReaderHasByte, KbdRead
    <3>2. PICK b \in AnyByte : out = <<b>>
      BY <2>1, <3>1, OutByte
    <3>3. QED
      BY <3>1, <3>2
  <2>3. MouseRead => out # <<>> /\ Aux(Head(out))
    BY <2>1 DEF ReaderHasByte, MouseRead
  <2>4. QED
    BY <2>2, <2>3
<1>2. QED
  BY <1>1, InputInvCorrect, PTL DEF Spec, BytesToOwners

\* As many characters are shown as there are different ones among them.
LEMMA ShownCount ==
  ASSUME InputTypeOK
  PROVE  IsFiniteSet(Shown) /\ Cardinality(Shown) <= Len(Line)
<1> DEFINE D == 1..Len(Line)
           f == [x \in D |-> Line[x]]
<1>1. Len(Line) \in Nat
  BY StruckFacts
<1>2. IsFiniteSet(D) /\ Cardinality(D) = Len(Line)
  <2> DEFINE n == Len(Line)
  <2>1. n \in Nat
    BY <1>1
  <2> HIDE DEF n
  <2>2. IsFiniteSet(1..n) /\ Cardinality(1..n) = n
    BY <2>1, FS_Interval
  <2>3. QED
    BY <2>2 DEF n
<1>3. f \in Surjection(D, Shown)
  BY DEF Surjection, Shown
<1>4. QED
  BY <1>2, <1>3, FS_Surjection

\* The characters go up, none is missing once all is read, and movements are
\* whole: KeysInOrder, for every user and every interleaving.
THEOREM KeysInOrderHolds == Spec => []KeysInOrder
<1>1. InputIInv => KeysInOrder
  <2> SUFFICES ASSUME InputIInv, ~mixed
               PROVE  /\ ~rolled => Increasing(Line)
                      /\ Quiet /\ ~kbd.dropped => Len(Line) >= typed
                      /\ \A i \in 1..Len(moved) : Whole(moved[i])
    BY DEF KeysInOrder
  <2>1. InputTypeOK /\ KeyLine /\ MouseSends
    BY DEF InputIInv
  <2>2. ASSUME ~rolled PROVE Increasing(Line)
    <3>1. \A x, y \in 1..Len(Line) : x < y => Line[x] < Line[y]
      BY <2>1, <2>2 DEF KeyLine, PressesOrdered
    <3>2. Len(Line) \in Nat
      BY <2>1, StruckFacts
    <3>3. ASSUME NEW i \in 1..(Len(Line) - 1) PROVE Line[i] < Line[i + 1]
      <4>1. i \in 1..Len(Line) /\ i + 1 \in 1..Len(Line) /\ i < i + 1
        BY <3>2
      <4>2. QED
        BY <3>1, <4>1
    <3>4. QED
      BY <3>3 DEF Increasing
  <2>3. ASSUME Quiet, ~kbd.dropped PROVE Len(Line) >= typed
    <3>1. Struck = <<>>
      <4>1. Stream("kbd") = queue["kbd"]
        BY <2>1, <2>3, StreamType DEF Quiet, Sources
      <4>2. QED
        BY <2>3, <4>1 DEF Quiet, Struck
    <3>2. Known = Shown
      <4>1. Presses = {}
        BY <3>1 DEF Presses
      <4>2. QED
        BY <4>1 DEF Known
    <3>3. typed <= Cardinality(Shown)
      BY <2>1, <2>3, <3>2 DEF KeyLine, PressesKnown
    <3>4. /\ Cardinality(Shown) \in Nat /\ Cardinality(Shown) <= Len(Line)
          /\ Len(Line) \in Nat /\ typed \in Nat
      BY <2>1, ShownCount, FS_CardinalityType, StruckFacts DEF InputTypeOK
    <3>5. QED
      BY <3>3, <3>4
  <2>4. QED
    BY <2>1, <2>2, <2>3 DEF MouseSends
<1>2. QED
  BY <1>1, InputInvCorrect, PTL
=============================================================================
