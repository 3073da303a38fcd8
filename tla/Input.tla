------------------------------- MODULE Input -------------------------------
(***************************************************************************)
(* Keyboard and mouse: two devices behind one controller with one output   *)
(* buffer, the keyboard and the mouse service of kernel/services.cpp which *)
(* read it, one port access per system call, and the shell, which polls    *)
(* the keyboard service for keys.  The controller, the devices and the     *)
(* user are not under src/: they are modelled as the services use them.    *)
(*                                                                         *)
(* A key press has a serial number, so that a character can be traced to   *)
(* the press it comes from.  A mouse movement is three bytes.  An access   *)
(* of a service to a port, and what it computes until the next system      *)
(* call, is one step; the services and the interrupts interleave freely.   *)
(* The user stops when bytes were mixed up: nothing is said of what follows.*)
(***************************************************************************)
EXTENDS Integers, Sequences, FiniteSets

CONSTANTS Keys,        \* keys with a character
          ExtKey,      \* a key with the prefix E0 and no character
          KBQ_CAP,     \* size of the key ring
          MaxKeys,     \* bound: what the user does with keys
          MaxMoves,    \* bound: movements of the mouse
          MaxEarly,    \* bound: the same while the mouse is set up
          MaxQueue     \* bound: bytes a keyboard keeps when a key is struck

ASSUME InputAssumption ==
  /\ KBQ_CAP \in Nat \ {0, 1} /\ MaxMoves \in Nat /\ MaxQueue \in Nat
  /\ MaxKeys \in Nat /\ MaxEarly \in 0..MaxKeys
  /\ ExtKey \notin Keys /\ "none" \notin Keys \cup {ExtKey}

VARIABLES
  down,     \* the keys held down: key -> serial number, 0 for up
  last,     \* the key that repeats, or None
  strokes,  \* key events so far
  typed,    \* presses of Keys so far
  rolled,   \* a key was released while another was held down
  queue,    \* what each device has to send: "kbd", "mouse" and "ctl"
  out,      \* the output buffer: a sequence of at most one byte
  woken,    \* irq_received of each service
  pc,       \* where each service is
  asked,    \* the shell's call has not been taken or answered
  kbd,      \* the shared page's keyboard state, and its ring
  packet,   \* the mouse service's g_pkt
  moved,    \* the packets the mouse service has used
  got,      \* what the shell has got
  mixed,    \* the mouse's set-up has taken a byte that was not for it, or
            \* that the keyboard service had seen, too
  moves     \* movements so far

user == <<down, last, strokes, typed, rolled, moves>>
vars == <<user, queue, out, woken, pc, asked, kbd, packet, moved, got, mixed>>

None == "none"
Sources == {"kbd", "mouse", "ctl"}
Aux(b) == b.from = "mouse"         \* bit 5 of the status
Driver(src) == IF src = "mouse" THEN "mouse" ELSE "keyboard"

Byte(src, what, key, n) == [from |-> src, what |-> what, key |-> key, n |-> n]

Init ==
  /\ down = [k \in Keys \cup {ExtKey} |-> 0] /\ last = None
  /\ strokes = 0 /\ typed = 0 /\ rolled = FALSE /\ moves = 0
  /\ queue = [s \in Sources |-> <<>>] /\ out = <<>>
  /\ woken = [p \in {"keyboard", "mouse"} |-> FALSE]
  /\ pc = [keyboard |-> "drain", mouse |-> "config", shell |-> "ask"]
  /\ asked = FALSE
  /\ kbd = [state |-> None, ext |-> FALSE, ring |-> <<>>, dropped |-> FALSE]
  /\ packet = <<>> /\ moved = <<>> /\ got = <<>> /\ mixed = FALSE

\* The line of a driver is masked until it has registered.
Registered(p) ==
  pc[p] \notin {"config", "getcfg", "f6", "ackf6", "f4", "ackf4"}

Goto(p, l) == pc' = [pc EXCEPT ![p] = l]

----------------------------------------------------------------------------
(* The user and the devices.                                               *)

Codes(k, what, n) ==
  IF k = ExtKey THEN <<Byte("kbd", "e0", k, n), Byte("kbd", what, k, n)>>
  ELSE <<Byte("kbd", what, k, n)>>

Strike(k, what, n) ==
  /\ strokes < (IF Registered("mouse") THEN MaxKeys ELSE MaxEarly)
  /\ Len(queue["kbd"]) < MaxQueue /\ ~mixed
  /\ strokes' = strokes + 1
  /\ queue' = [queue EXCEPT !["kbd"] = @ \o Codes(k, what, n)]
  /\ UNCHANGED <<moves, out, woken, pc, asked, kbd, packet, moved, got, mixed>>

Press(k) ==
  /\ down[k] = 0
  /\ Strike(k, "make", strokes + 1)
  /\ down' = [down EXCEPT ![k] = strokes + 1] /\ last' = k
  /\ typed' = IF k = ExtKey THEN typed ELSE typed + 1
  /\ UNCHANGED rolled

Release(k) ==
  /\ down[k] # 0
  /\ Strike(k, "break", 0)
  /\ down' = [down EXCEPT ![k] = 0]
  /\ last' = IF last = k THEN None ELSE last
  /\ rolled' = (rolled \/ \E j \in DOMAIN down \ {k} : down[j] # 0)
  /\ UNCHANGED typed

Repeat ==
  /\ last # None
  /\ Strike(last, "make", down[last])
  /\ UNCHANGED <<down, last, typed, rolled>>

\* A movement: the first of its bytes has bit 3 set.
MoveMouse ==
  /\ moves < MaxMoves /\ ~mixed
  /\ Registered("mouse") \/ pc["mouse"] = "ackf4"
  /\ moves' = moves + 1
  /\ queue' = [queue EXCEPT !["mouse"] =
                 @ \o [i \in 1..3 |-> Byte("mouse", <<"b0", "dx", "dy">>[i], None, moves + 1)]]
  /\ UNCHANGED <<down, last, strokes, typed, rolled, out, woken, pc, asked, kbd,
                 packet, moved, got, mixed>>

\* deliver_irq: a driver that is not blocked in ipc_recv never learns of it.
\* Between two steps interrupts are on, so it comes as soon as it is raised.
DeliverIrq(p) ==
  IF Registered(p) /\ pc[p] = "blocked"
  THEN woken' = [woken EXCEPT ![p] = TRUE] /\ Goto(p, "recv")
  ELSE UNCHANGED <<woken, pc>>

\* The controller takes the next byte when its buffer is empty, and raises
\* the interrupt of the device: once for a byte.
Load(src) ==
  /\ out = <<>> /\ queue[src] # <<>>
  /\ out' = <<Head(queue[src])>>
  /\ queue' = [queue EXCEPT ![src] = Tail(@)]
  /\ DeliverIrq(Driver(src))
  /\ UNCHANGED <<user, asked, kbd, packet, moved, got, mixed>>

----------------------------------------------------------------------------
(* The keyboard service.  drain is called before ipc_recv and again when a *)
(* request was taken: "drain" and "redrain".                               *)

\* Mutant: a full ring and an empty one look the same.
PushFull(q, n) == IF Len(q.ring) = KBQ_CAP THEN [q EXCEPT !.dropped = TRUE]
                  ELSE [q EXCEPT !.ring = Append(@, n)]

Push(q, n) == IF Len(q.ring) = KBQ_CAP - 1 THEN [q EXCEPT !.dropped = TRUE]
              ELSE [q EXCEPT !.ring = Append(@, n)]

\* Mutant: a key that is held down is taken again and again.
ScanRepeats(q, b) ==
  CASE b.what = "e0"    -> [q EXCEPT !.ext = TRUE]
    [] b.what = "break" -> [q EXCEPT !.state = None, !.ext = FALSE]
    [] OTHER ->
         LET pressed == [q EXCEPT !.state = b.key, !.ext = FALSE]
         IN IF ~q.ext /\ b.key \in Keys THEN Push(pressed, b.n) ELSE pressed

Scan(q, b) ==
  CASE b.what = "e0"    -> [q EXCEPT !.ext = TRUE]
    [] b.what = "break" -> [q EXCEPT !.state = None, !.ext = FALSE]
    [] b.what \notin {"e0", "break"} /\ q.state = b.key -> [q EXCEPT !.ext = FALSE]
    [] OTHER ->
         LET pressed == [q EXCEPT !.state = b.key, !.ext = FALSE]
         IN IF ~q.ext /\ b.key \in Keys THEN Push(pressed, b.n) ELSE pressed

\* Mutant: any byte is taken for one of the keyboard.
KbdStatusAnyByte ==
  /\ pc["keyboard"] \in {"drain", "redrain"}
  /\ Goto("keyboard",
          IF out # <<>> THEN IF pc["keyboard"] = "drain" THEN "read" ELSE "reread"
          ELSE IF pc["keyboard"] = "drain" THEN "recv" ELSE "reply")
  /\ UNCHANGED <<user, queue, out, woken, asked, kbd, packet, moved, got, mixed>>

\* The status: empty, or a byte of the mouse, ends the loop.
KbdStatus ==
  /\ pc["keyboard"] \in {"drain", "redrain"}
  /\ Goto("keyboard",
          IF out # <<>> /\ ~Aux(Head(out))
          THEN IF pc["keyboard"] = "drain" THEN "read" ELSE "reread"
          ELSE IF pc["keyboard"] = "drain" THEN "recv" ELSE "reply")
  /\ UNCHANGED <<user, queue, out, woken, asked, kbd, packet, moved, got, mixed>>

\* Port 0x60, whatever is in the buffer by now.
KbdRead ==
  /\ pc["keyboard"] \in {"read", "reread"}
  /\ Goto("keyboard", IF pc["keyboard"] = "read" THEN "drain" ELSE "redrain")
  /\ out' = <<>>
  /\ IF out = <<>> THEN UNCHANGED <<kbd, mixed>>
     ELSE /\ kbd' = Scan(kbd, Head(out))
          /\ mixed' = (mixed \/ Head(out).from = "ctl")
  /\ UNCHANGED <<user, queue, woken, asked, packet, moved, got>>

KbdRecv ==
  /\ pc["keyboard"] = "recv"
  /\ IF woken["keyboard"]
     THEN Goto("keyboard", "drain") /\ woken' = [woken EXCEPT !["keyboard"] = FALSE]
          /\ UNCHANGED asked
     ELSE /\ Goto("keyboard", IF asked THEN "redrain" ELSE "blocked")
          /\ asked' = FALSE
          /\ UNCHANGED woken
  /\ UNCHANGED <<user, queue, out, kbd, packet, moved, got, mixed>>

\* Mutant: no answer before there is a key.
KbdReplyWithKey ==
  /\ pc["keyboard"] = "reply" /\ kbd.ring # <<>>
  /\ pc' = [pc EXCEPT !["keyboard"] = "drain", !["shell"] = "ask"]
  /\ got' = Append(got, Head(kbd.ring))
  /\ kbd' = [kbd EXCEPT !.ring = Tail(@)]
  /\ UNCHANGED <<user, queue, out, woken, asked, packet, moved, mixed>>

\* Always an answer, 0 when there is no key.
KbdReply ==
  /\ pc["keyboard"] = "reply"
  /\ pc' = [pc EXCEPT !["keyboard"] = "drain", !["shell"] = "ask"]
  /\ IF kbd.ring = <<>> THEN UNCHANGED <<kbd, got>>
     ELSE /\ got' = Append(got, Head(kbd.ring))
          /\ kbd' = [kbd EXCEPT !.ring = Tail(@)]
  /\ UNCHANGED <<user, queue, out, woken, asked, packet, moved, mixed>>

\* get_key: the call wakes the keyboard service if it is blocked.
AskKey ==
  /\ pc["shell"] = "ask"
  /\ asked' = TRUE
  /\ pc' = [pc EXCEPT !["shell"] = "wait",
                      !["keyboard"] = IF @ = "blocked" THEN "recv" ELSE @]
  /\ UNCHANGED <<user, queue, out, woken, kbd, packet, moved, got, mixed>>

----------------------------------------------------------------------------
(* The mouse service.  While it sets the mouse up it reads port 0x60 as    *)
(* soon as the buffer is full, whoever filled it.                          *)

SendCommand(from, to, src, what) ==
  /\ pc["mouse"] = from /\ Goto("mouse", to)
  /\ queue' = [queue EXCEPT ![src] = Append(@, Byte(src, what, what, 0))]
  /\ UNCHANGED <<user, out, woken, asked, kbd, packet, moved, got, mixed>>

\* wait_out_full gives up when no answer comes any more.
ReadAnswer(from, to, src, what) ==
  /\ pc["mouse"] = from /\ Goto("mouse", to)
  /\ out # <<>> \/ \A s \in Sources : queue[s] = <<>>
  /\ out' = <<>>
  /\ mixed' = (mixed \/ out # <<Byte(src, what, what, 0)>>
                     \/ pc["keyboard"] \in {"read", "reread"})
  /\ UNCHANGED <<user, queue, woken, asked, kbd, packet, moved, got>>

MouseSetup ==
  \/ SendCommand("config", "getcfg", "ctl", "cfg") \/ ReadAnswer("getcfg", "f6", "ctl", "cfg")
  \/ SendCommand("f6", "ackf6", "mouse", "ack")    \/ ReadAnswer("ackf6", "f4", "mouse", "ack")
  \/ SendCommand("f4", "ackf4", "mouse", "ack")    \/ ReadAnswer("ackf4", "drain", "mouse", "ack")

MouseStatus ==
  /\ pc["mouse"] = "drain"
  /\ Goto("mouse", IF out # <<>> /\ Aux(Head(out)) THEN "read" ELSE "recv")
  /\ UNCHANGED <<user, queue, out, woken, asked, kbd, packet, moved, got, mixed>>

\* An ack (0xFA) has bit 3 set, too: it may begin a packet.
Begins(b) == b.what \in {"b0", "ack"}

MouseRead ==
  /\ pc["mouse"] = "read" /\ Goto("mouse", "drain")
  /\ out' = <<>>
  /\ LET p == IF out = <<>> \/ (packet = <<>> /\ ~Begins(Head(out))) THEN packet
              ELSE Append(packet, Head(out))
     IN IF Len(p) = 3 THEN packet' = <<>> /\ moved' = Append(moved, p)
        ELSE packet' = p /\ UNCHANGED moved
  /\ UNCHANGED <<user, queue, woken, asked, kbd, got, mixed>>

\* No one sends it requests: an interrupt is all that wakes it.
MouseRecv ==
  /\ pc["mouse"] = "recv"
  /\ Goto("mouse", IF woken["mouse"] THEN "drain" ELSE "blocked")
  /\ woken' = [woken EXCEPT !["mouse"] = FALSE]
  /\ UNCHANGED <<user, queue, out, asked, kbd, packet, moved, got, mixed>>

----------------------------------------------------------------------------
KbdStep == KbdStatus \/ KbdRead \/ KbdRecv \/ KbdReply
MouseStep == MouseSetup \/ MouseStatus \/ MouseRead \/ MouseRecv
Controller == \E s \in Sources : Load(s)
UserStep == \/ \E k \in Keys \cup {ExtKey} : Press(k) \/ Release(k)
            \/ Repeat
            \/ MoveMouse

Next == UserStep \/ Controller \/ KbdStep \/ AskKey \/ MouseStep

\* The services and the shell get the processor again and again, the
\* controller loads; the user need not do anything.
Fairness == /\ WF_vars(Controller) /\ WF_vars(KbdStep) /\ WF_vars(AskKey)
            /\ WF_vars(MouseStep)

Spec == Init /\ [][Next]_vars /\ Fairness

----------------------------------------------------------------------------
(* Properties.                                                             *)

InputOK ==
  /\ pc["keyboard"] \in {"drain", "redrain", "read", "reread", "recv", "blocked", "reply"}
  /\ pc["shell"] \in {"ask", "wait"}
  /\ asked => pc["shell"] = "wait"
  /\ Len(out) <= 1 /\ Len(packet) < 3 /\ Len(kbd.ring) < KBQ_CAP
  /\ strokes \in 0..MaxKeys /\ typed \in 0..strokes /\ moves \in 0..MaxMoves
  /\ pc["keyboard"] = "blocked" => ~woken["keyboard"] /\ ~asked

\* Between the look at the status and the read of the data the other service
\* runs, too: still the keyboard service never takes a byte of the mouse, and
\* the mouse service's loop takes nothing else, as long as the set-up of the
\* mouse has not mixed up the bytes.
BytesToOwners ==
  [][~mixed =>
     /\ KbdRead => \A i \in 1..Len(out) : ~Aux(out[i])
     /\ MouseRead => out # <<>> /\ Aux(Head(out))]_vars

\* The characters, in order: those the shell has, then those in the ring.
Line == got \o kbd.ring

Increasing(s) == \A i \in 1..(Len(s) - 1) : s[i] < s[i + 1]
Whole(p) == [i \in 1..3 |-> p[i].what] = <<"b0", "dx", "dy">> /\ p[1].n = p[3].n

Quiet == /\ queue["kbd"] = <<>> /\ out = <<>>
         /\ pc["keyboard"] \in {"drain", "recv", "blocked"}

\* Characters come once for each press, in the order of the presses, none is
\* made up by a key that is held down and none is lost before the ring; and
\* movements are taken whole.  Not when a byte went to the wrong reader while
\* the mouse was set up, nor, for the repeats, when a key was released while
\* another was held.
KeysInOrder ==
  ~mixed =>
    /\ ~rolled => Increasing(Line)
    /\ Quiet /\ ~kbd.dropped => Len(Line) >= typed
    /\ \A i \in 1..Len(moved) : Whole(moved[i])

\* The mouse service sleeps though the buffer holds a byte for it: it will
\* not be woken, and no other byte will come.
Wedged == pc["mouse"] = "blocked" /\ out # <<>> /\ Aux(Head(out))

\* Every key pressed reaches the shell, or the ring was full, or the mouse
\* has stopped the controller.
KeysArriveOrWedged ==
  \A n \in 1..MaxKeys :
    typed >= n ~> Len(got) >= n \/ kbd.dropped \/ mixed \/ Wedged

\* Every key pressed reaches the shell if there is room for it: the byte the
\* keyboard service leaves in the buffer is read by the mouse service
\* (violated: an interrupt that comes while it is not blocked is lost).
KeysArrive ==
  \A n \in 1..MaxKeys : typed >= n ~> Len(got) >= n \/ kbd.dropped \/ mixed

----------------------------------------------------------------------------
(* The inductive invariant behind InputOK, BytesToOwners and KeysInOrder.  *)

Bytes(src) ==
  [from : {src},
   what : CASE src = "kbd"   -> {"e0", "make", "break"}
            [] src = "mouse" -> {"b0", "dx", "dy", "ack"}
            [] src = "ctl"   -> {"cfg"},
   key  : IF src = "kbd" THEN Keys \cup {ExtKey} ELSE {None, "ack", "cfg"},
   n    : Nat]
AnyByte == UNION {Bytes(s) : s \in Sources}

KbdStates == [state : Keys \cup {ExtKey, None, "ack", "cfg"}, ext : BOOLEAN,
              ring : Seq(Nat), dropped : BOOLEAN]

InputTypeOK ==
  /\ down \in [Keys \cup {ExtKey} -> 0..strokes]
  /\ last \in Keys \cup {ExtKey, None} /\ (last # None => down[last] # 0)
  /\ strokes \in 0..MaxKeys /\ typed \in 0..strokes /\ moves \in 0..MaxMoves
  /\ rolled \in BOOLEAN /\ asked \in BOOLEAN /\ mixed \in BOOLEAN
  /\ DOMAIN queue = Sources /\ \A s \in Sources : queue[s] \in Seq(Bytes(s))
  /\ out = <<>> \/ \E b \in AnyByte : out = <<b>>
  /\ woken \in [{"keyboard", "mouse"} -> BOOLEAN]
  /\ DOMAIN pc = {"keyboard", "mouse", "shell"}
  /\ pc["keyboard"] \in {"drain", "redrain", "read", "reread", "recv", "blocked", "reply"}
  /\ pc["mouse"] \in {"config", "getcfg", "f6", "ackf6", "f4", "ackf4",
                      "drain", "read", "recv", "blocked"}
  /\ pc["shell"] \in {"ask", "wait"}
  /\ kbd \in KbdStates /\ Len(kbd.ring) < KBQ_CAP /\ got \in Seq(Nat)
  /\ packet \in Seq(AnyByte) /\ Len(packet) < 3 /\ moved \in Seq(Seq(AnyByte))
  /\ ~Registered("mouse") => strokes <= MaxEarly

\* The shell waits exactly while its call is not taken, or worked on; and a
\* keyboard service that sleeps has neither an interrupt nor a call to see.
CallPlaces ==
  /\ asked => pc["shell"] = "wait"
  /\ pc["keyboard"] \in {"redrain", "reread", "reply"} => pc["shell"] = "wait" /\ ~asked
  /\ pc["keyboard"] = "blocked" => ~woken["keyboard"] /\ ~asked

\* Who has found a byte of its own still finds it.
ReaderHasByte ==
  /\ pc["keyboard"] \in {"read", "reread"} => out # <<>> /\ ~Aux(Head(out))
  /\ pc["mouse"] = "read" => out # <<>> /\ Aux(Head(out))

\* What a device has sent and nobody has read.
Stream(src) ==
  (IF out # <<>> /\ Head(out).from = src THEN out ELSE <<>>) \o queue[src]
Struck == Stream("kbd")

Presses == {i \in 1..Len(Struck) : Struck[i].what = "make" /\ Struck[i].key \in Keys}
Shown   == {Line[x] : x \in 1..Len(Line)}
Known   == Shown \cup {Struck[i].n : i \in Presses}

\* The service will take the press at i for a repetition; and the key it
\* will take to be held down when it has read everything.
Again(i) ==
  IF i = 1 THEN kbd.state = Struck[1].key
  ELSE Struck[i - 1].what = "make" /\ Struck[i - 1].key = Struck[i].key
Final ==
  CASE Struck = <<>> -> kbd.state
    [] Struck # <<>> /\ Struck[Len(Struck)].what = "make" -> Struck[Len(Struck)].key
    [] OTHER -> None

\* A prefix is never separated from the key without a character it is for.
PrefixesPaired ==
  /\ kbd.ext => Struck # <<>> /\ Struck[1].key = ExtKey
  /\ \A i \in 1..Len(Struck) :
       Struck[i].what = "e0" => /\ i < Len(Struck) /\ Struck[i + 1].key = ExtKey
                                /\ Struck[i + 1].what # "e0"

\* What is taken for a repetition is one: of a press that was shown.
RepeatsShown ==
  /\ \A i \in Presses : Again(i) =>
       IF i = 1 THEN Struck[1].n \in Shown \/ kbd.dropped
       ELSE Struck[i].n = Struck[i - 1].n
  /\ \A k \in Keys : Final = k =>
       /\ down[k] # 0
       /\ IF Struck = <<>> THEN down[k] \in Shown \/ kbd.dropped
          ELSE Struck[Len(Struck)].n = down[k]

\* Every press is shown or still on its way.
PressesKnown ==
  /\ Known \subseteq 1..strokes
  /\ ~kbd.dropped => typed <= Cardinality(Known)

\* The serial numbers on their way go up, and are above those shown, but for
\* repetitions; and the key that repeats is the latest.
PressesOrdered ==
  /\ \A x, y \in 1..Len(Line) : x < y => Line[x] < Line[y]
  /\ \A x \in 1..Len(Line), i \in Presses :
       Line[x] <= Struck[i].n /\ (Line[x] = Struck[i].n => Again(i))
  /\ \A i, j \in Presses :
       i < j => Struck[i].n <= Struck[j].n /\ (Struck[i].n = Struck[j].n => Again(j))
  /\ last \in Keys => Final = last /\ \A n \in Known : n <= down[last]

KeyLine == /\ PrefixesPaired /\ RepeatsShown /\ PressesKnown
           /\ ~rolled => PressesOrdered

\* Whole movements, one after the other.
Movements(s) ==
  \E k \in Nat :
    /\ Len(s) = 3 * k
    /\ \A j \in 0..(k - 1) :
         /\ s[3 * j + 1].what = "b0" /\ s[3 * j + 2].what = "dx" /\ s[3 * j + 3].what = "dy"
         /\ s[3 * j + 1].n = s[3 * j + 3].n

\* What the mouse and the controller have sent, at each place of the set-up
\* and after it.
MouseSends ==
  /\ Stream("ctl") = IF pc["mouse"] = "getcfg" THEN <<Byte("ctl", "cfg", "cfg", 0)>> ELSE <<>>
  /\ pc["mouse"] \in {"config", "getcfg", "f6", "f4"} => Stream("mouse") = <<>>
  /\ pc["mouse"] \in {"ackf6", "ackf4"} =>
       /\ Stream("mouse") # <<>> /\ Head(Stream("mouse")) = Byte("mouse", "ack", "ack", 0)
       /\ Movements(Tail(Stream("mouse")))
       /\ pc["mouse"] = "ackf6" => Len(Stream("mouse")) = 1
  /\ ~Registered("mouse") => packet = <<>>
  /\ Registered("mouse") => Movements(packet \o Stream("mouse"))
  /\ \A i \in 1..Len(moved) : Whole(moved[i])

InputIInv ==
  /\ InputTypeOK /\ CallPlaces
  /\ ~mixed => ReaderHasByte /\ KeyLine /\ MouseSends
=============================================================================
