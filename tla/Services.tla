------------------------------ MODULE Services ------------------------------
(***************************************************************************)
(* The user side of the system: the shell and the programs it starts, and  *)
(* the services they call through the page that all processes share.  A    *)
(* request is filled into the page's one SEND slot and an answer comes     *)
(* back into it; a service finds its request in the one RECV slot.  The    *)
(* timer may preempt a process between any two steps here, and the timer   *)
(* service, woken by every tick, writes the SEND slot too.                 *)
(*                                                                         *)
(* The kernel's part of a call is that of Rpc.tla, which Ipc.tla           *)
(* implements, with the contents of the messages.  Deaths and restarts are *)
(* in Recovery.tla, the key ring and the mouse in Input.tla.  A text is a  *)
(* sequence of bytes: "a", or "L" and two "C" for a han.                   *)
(***************************************************************************)
EXTENDS Naturals, Sequences, SequencesExt

CONSTANTS Scripts,   \* what the user may type: sequences of keys
          Cap,       \* bytes of an IpcMsg's text, without the final 0
          LineMax,   \* size of the shell's line
          MaxArgs,   \* words of a command line
          MaxTicks   \* bound: ticks that wake the timer service

KeyNames == UNION {Range(s) : s \in Scripts}

ASSUME ServicesAssumption ==
  /\ Scripts \subseteq Seq(KeyNames)
  /\ Cap \in Nat /\ Cap >= 3
  /\ LineMax \in Nat /\ LineMax > 1
  /\ MaxArgs \in Nat /\ MaxArgs > 0
  /\ MaxTicks \in Nat

VARIABLES
  send, recv,   \* the shared page's two slots
  step,         \* how far a client is with its request
  todo,         \* the requests a client is still to make, the current first
  out, answer,  \* a client's message and its answer, in the kernel
  dest,         \* the service a client calls
  stage,        \* where a service is
  serving,      \* the client it serves
  mode, line,   \* the shell
  prog,         \* the program that runs, or None
  script,       \* what the user types,
  typed, keys,  \* how many keys of it so far, and how many were popped
  machine,      \* "on", or what the power service did to it
  asked, done,  \* what clients gave to the terminal, and what it did
  got,          \* the keys the shell has got
  ticks,        \* ticks so far
  torn          \* the timer service wrote the SEND slot while it was in use

slots   == <<send, recv>>
client  == <<step, todo, dest>>
kernel  == <<out, answer>>
service == <<stage, serving>>
shell   == <<mode, line, prog>>
world   == <<script, typed, keys, machine, asked, done, got>>
vars == <<slots, client, kernel, service, shell, world, ticks, torn>>

None    == "none"
Clients == {"shell", "prog"}
Servers == {"terminal", "keyboard", "timer", "power", "proc"}
Zero    == [v |-> "0", n |-> 0]
NoText  == [n |-> 0, bytes |-> <<>>]
Message(type, len, a, text) == [type |-> type, len |-> len, a |-> a, text |-> text]
Empty   == Message("0", 0, Zero, NoText)

----------------------------------------------------------------------------
(* The service directory: the tids are the services' names here.           *)

Directory == <<
  [name |-> <<"t", "e">>, tid |-> "terminal"],
  [name |-> <<"k", "e">>, tid |-> "keyboard"],
  [name |-> <<"t", "i">>, tid |-> "timer"],
  [name |-> <<"s", "h">>, tid |-> "shell"],
  [name |-> <<"p", "o">>, tid |-> "power"],
  [name |-> <<"p", "r">>, tid |-> "proc"],
  [name |-> <<"m", "o">>, tid |-> "mouse"]>>

NameOf(tid) == (CHOOSE e \in Range(Directory) : e.tid = tid).name

\* What was asked for is a prefix of the name stored.
NameMatch(stored, name) == IsPrefix(name, stored)

Register(dir, e) ==
  IF \E i \in DOMAIN dir : NameMatch(dir[i].name, e.name)
  THEN [dir EXCEPT ![SelectInSeq(dir, LAMBDA d : NameMatch(d.name, e.name))].tid = e.tid]
  ELSE Append(dir, e)

Registered == FoldLeft(Register, <<>>, Directory)

Lookup(name) ==
  LET i == SelectInSeq(Registered, LAMBDA e : NameMatch(e.name, name))
  IN  IF i = 0 THEN None ELSE Registered[i].tid

----------------------------------------------------------------------------
(* Requests, and what the programs ask for.                                *)

Request(to, type, bytes) == [to |-> to, type |-> type, bytes |-> bytes]
Call(to, type) == <<Request(to, type, <<>>)>>

\* Mutant: cut anywhere.
ChunkSizeAnywhere(bytes) == IF Len(bytes) <= Cap THEN Len(bytes) ELSE Cap

\* As much of the bytes as a message takes, cut before a character.
ChunkSize(bytes) ==
  IF Len(bytes) <= Cap THEN Len(bytes)
  ELSE LET cuts == {n \in 1..Cap : bytes[n + 1] # "C"}
       IN  IF cuts = {} THEN 1 ELSE Max(cuts)

Puts(bytes) ==
  LET from[i \in 1..Len(bytes) + 1] ==
        IF i > Len(bytes) THEN <<>>
        ELSE LET n == ChunkSize(SubSeq(bytes, i, Len(bytes)))
             IN  <<Request("terminal", "PUTS", SubSeq(bytes, i, i + n - 1))>> \o from[i + n]
  IN  from[1]

\* The words of a line, as many as there is room for.
Words(l) ==
  LET Read(w, c) ==
        IF c = "Space" THEN [w EXCEPT !.inside = FALSE]
        ELSE IF w.inside
        THEN [w EXCEPT !.words[Len(w.words)] = Append(@, c)]
        ELSE [inside |-> TRUE, words |-> Append(w.words, <<c>>)]
      all == FoldLeft(Read, [inside |-> FALSE, words |-> <<>>], l).words
  IN  SubSeq(all, 1, IF Len(all) < MaxArgs THEN Len(all) ELSE MaxArgs)

Han  == <<"L", "C", "C">>
Row  == <<"a">>
Bytes(word) == [i \in DOMAIN word |-> "a"]

\* The user programs of the initrd, and what each does with its arguments.
Programs == {"e", "c", "u", "p", "r", "s"}

Echo(args) ==
  FoldLeft(LAMBDA r, i : r \o (IF i > 1 THEN Puts(<<"a">>) ELSE <<>>)
                           \o Puts(Bytes(args[i])),
           <<>>, [i \in DOMAIN args |-> i]) \o Puts(<<"a">>)

Main(cmd, args) ==
  CASE cmd = "e" -> Echo(args)
    [] cmd = "c" -> Call("terminal", "CLEAR")
    [] cmd = "u" -> Call("timer", "UPTIME")
    [] cmd = "p" -> Call("proc", "PS")
    [] cmd = "r" -> Puts(Han \o Han) \o Call("power", "REBOOT") \o Puts(Han)
    [] cmd = "s" -> Puts(Han) \o Call("power", "SHUTDOWN") \o Puts(Han)

Number(a) == IF a = Zero THEN <<"0">> ELSE <<"a">>

\* What the answer to a request makes a program ask next.
After(type, a) ==
  CASE type = "UPTIME" -> Puts(Han) \o Puts(Number(a)) \o Puts(<<"a">>)
    [] type = "PS"     -> IF a.n = 0 THEN Puts(Han)
                          ELSE FoldLeft(LAMBDA r, i : r \o Puts(Row),
                                        Puts(<<"a">>), [i \in 1..a.n |-> i])
    [] OTHER           -> <<>>

----------------------------------------------------------------------------
Init ==
  /\ send = Empty /\ recv = Empty
  /\ step = [c \in Clients |-> "fill"]
  /\ todo = [shell |-> Puts(Han \o Han), prog |-> <<>>]
  /\ out = [c \in Clients |-> Empty] /\ answer = [c \in Clients |-> Empty]
  /\ dest = [c \in Clients |-> None]
  /\ stage = [s \in Servers |-> "recv"] /\ serving = [s \in Servers |-> None]
  /\ mode = "prompt" /\ line = <<>> /\ prog = None
  /\ script \in Scripts /\ typed = 0 /\ keys = 0
  /\ machine = "on" /\ asked = <<>> /\ done = <<>> /\ got = <<>>
  /\ ticks = 0 /\ torn = FALSE

----------------------------------------------------------------------------
(* A client's call: fill the slot, call, find the answer in the slot.      *)

KeyGet == Request("keyboard", "KEY_GET", <<>>)
Current(c) == IF todo[c] # <<>> THEN todo[c][1] ELSE KeyGet
WantsKey(c) == c = "shell" /\ mode = "line" /\ todo[c] = <<>>

On == machine = "on"

Go(c, s) == step' = [step EXCEPT ![c] = s]

\* The first field to be written is the type.
FillType(c) ==
  /\ On /\ step[c] = "fill" /\ (todo[c] # <<>> \/ WantsKey(c))
  /\ send' = [send EXCEPT !.type = Current(c).type]
  /\ dest' = [dest EXCEPT ![c] =
                 IF c = "shell" THEN Current(c).to ELSE Lookup(NameOf(Current(c).to))]
  /\ Go(c, "rest")
  /\ UNCHANGED <<recv, todo, kernel, service, shell, world, ticks, torn>>

\* Only a text is written over the text of the last message.
Filled(m, r, n) ==
  IF r.type = "PUTS"
  THEN Message(m.type, Len(r.bytes), Zero, [n |-> n, bytes |-> r.bytes])
  ELSE Message(m.type, 0, Zero, m.text)

ToTerminal(r, n) ==
  CASE r.type = "PUTS"  -> <<[n |-> n, bytes |-> r.bytes]>>
    [] r.type = "CLEAR" -> <<NoText>>
    [] OTHER            -> <<>>

FillRest(c) ==
  /\ On /\ step[c] = "rest"
  /\ send' = Filled(send, Current(c), Len(asked) + 1)
  /\ asked' = asked \o ToTerminal(Current(c), Len(asked) + 1)
  /\ Go(c, "call")
  /\ UNCHANGED <<recv, todo, dest, kernel, service, shell, script, typed, keys,
                 machine, done, got, ticks, torn>>

IpcCall(c) ==
  /\ On /\ step[c] = "call"
  /\ out' = [out EXCEPT ![c] = send]
  /\ Go(c, "asked")
  /\ UNCHANGED <<slots, todo, dest, answer, service, shell, world, ticks, torn>>

Return(c) ==
  /\ On /\ step[c] = "answered"
  /\ send' = answer[c]
  /\ Go(c, "read")
  /\ UNCHANGED <<recv, todo, dest, kernel, service, shell, world, ticks, torn>>

Proceed(c) ==
  /\ On /\ step[c] = "read" /\ ~WantsKey(c)
  /\ todo' = [todo EXCEPT ![c] = After(Current(c).type, send.a) \o Tail(@)]
  /\ Go(c, "fill")
  /\ UNCHANGED <<slots, dest, kernel, service, shell, world, ticks, torn>>

----------------------------------------------------------------------------
(* The shell: prompt, a line of keys, a program, and waiting for its end.  *)

ShellPuts(bytes) == todo' = [todo EXCEPT !.shell = Puts(bytes)]

Prompt ==
  /\ On /\ mode = "prompt" /\ step["shell"] = "fill" /\ todo["shell"] = <<>>
  /\ mode' = "line" /\ line' = <<>> /\ ShellPuts(<<"a">>)
  /\ UNCHANGED <<slots, step, dest, kernel, service, prog, world, ticks, torn>>

LineKey(k) ==
  \/ /\ k = "0" /\ UNCHANGED <<mode, line, todo>>
  \/ /\ k = "Enter" /\ mode' = "spawn" /\ ShellPuts(<<"a">>) /\ UNCHANGED line
  \/ /\ k = "Bksp"
     /\ line' = IF line = <<>> THEN line ELSE Front(line)
     /\ IF line = <<>> THEN UNCHANGED todo ELSE ShellPuts(<<"a", "a", "a">>)
     /\ UNCHANGED mode
  \/ /\ k \notin {"0", "Enter", "Bksp"}
     /\ IF Len(line) < LineMax - 1
        THEN line' = Append(line, k) /\ ShellPuts(<<"a">>)
        ELSE UNCHANGED <<line, todo>>
     /\ UNCHANGED mode

ReadLine ==
  /\ On /\ step["shell"] = "read" /\ WantsKey("shell")
  /\ LineKey(send.a.v)
  /\ got' = IF send.a.n = 0 THEN got ELSE Append(got, send.a.n)
  /\ Go("shell", "fill")
  /\ UNCHANGED <<slots, dest, kernel, service, prog, script, typed, keys, machine,
                 asked, done, ticks, torn>>

Spawn ==
  /\ On /\ mode = "spawn" /\ step["shell"] = "fill" /\ todo["shell"] = <<>> /\ prog = None
  /\ LET argv == Words(line) IN
     IF argv = <<>>
     THEN mode' = "prompt" /\ UNCHANGED <<prog, todo>>
     ELSE IF Len(argv[1]) = 1 /\ argv[1][1] \in Programs
     THEN /\ mode' = "wait" /\ prog' = argv[1][1]
          /\ todo' = [todo EXCEPT !.prog = Main(argv[1][1], Tail(argv))]
     ELSE /\ mode' = "prompt" /\ UNCHANGED prog
          /\ todo' = [todo EXCEPT !.shell = Puts(Han \o Han)
                        \o Puts(Bytes(argv[1])) \o Puts(<<"a">>)]
  /\ UNCHANGED <<slots, step, dest, kernel, service, line, world, ticks, torn>>

\* Mutant: it does not look at the program.
WaitNoMore == prog = None \/ prog # None

\* Sys::WAIT polls, and returns when the program is DEAD.
WaitOver == prog = None

Wait ==
  /\ On /\ mode = "wait" /\ WaitOver
  /\ mode' = "prompt"
  /\ UNCHANGED <<slots, client, kernel, service, line, prog, world, ticks, torn>>

ProgramExits ==
  /\ On /\ prog # None /\ todo["prog"] = <<>> /\ step["prog"] = "fill"
  /\ prog' = None
  /\ UNCHANGED <<slots, client, kernel, service, mode, line, world, ticks, torn>>

----------------------------------------------------------------------------
(* The services.                                                           *)

At(s, l) == stage' = [stage EXCEPT ![s] = l]

Queued(s) == {c \in Clients : step[c] = "asked" /\ dest[c] = s}

Take(s) ==
  /\ On /\ stage[s] = "recv"
  /\ \E c \in Queued(s) :
       /\ recv' = out[c]
       /\ serving' = [serving EXCEPT ![s] = c]
       /\ Go(c, "taken")
  /\ At(s, "act")
  /\ UNCHANGED <<send, todo, dest, kernel, shell, world, ticks, torn>>

IpcReply(s, m) ==
  /\ stage[s] = "reply"
  /\ answer' = [answer EXCEPT ![serving[s]] = m]
  /\ step' = [step EXCEPT ![serving[s]] = "answered"]

Reply(s) ==
  /\ On /\ IpcReply(s, IF s = "terminal" THEN recv ELSE send)
  /\ IF s = "power" /\ recv.type \in {"REBOOT", "SHUTDOWN"}
     THEN At(s, recv.type) ELSE At(s, "recv")
  /\ serving' = [serving EXCEPT ![s] = None]
  /\ UNCHANGED <<slots, todo, dest, out, shell, world, ticks, torn>>

\* Sys::PUTS prints len bytes, or up to the text's final 0.
Shown(m) == [m.text EXCEPT !.bytes = SubSeq(@, 1, IF m.len < Len(@) THEN m.len ELSE Len(@))]

\* Mutant: no answer to what it does not know.
TerminalSkips ==
  At("terminal", IF recv.type \in {"PUTS", "CLEAR"} THEN "reply" ELSE "recv")

TerminalAnswers == At("terminal", "reply")

Terminal ==
  /\ On /\ stage["terminal"] = "act"
  /\ done' = CASE recv.type = "PUTS" /\ recv.len > 0 -> Append(done, Shown(recv))
               [] recv.type = "CLEAR" -> Append(done, NoText)
               [] OTHER -> done
  /\ TerminalAnswers
  /\ UNCHANGED <<slots, client, kernel, serving, shell, script, typed, keys, machine,
                 asked, got, ticks, torn>>

\* Mutant: the key stays in the ring.
PopNot(n) == keys' = keys

Pop(n) == keys' = keys + n

Keyboard ==
  /\ On /\ stage["keyboard"] = "act"
  /\ LET pops == recv.type = "KEY_GET" /\ keys < typed IN
     /\ Pop(IF pops THEN 1 ELSE 0)
     /\ send' = Message(IF recv.type = "KEY_GET" THEN recv.type ELSE "0",
                        IF recv.type = "KEY_GET" THEN 1 ELSE 0,
                        IF pops THEN [v |-> script[keys + 1], n |-> keys + 1] ELSE Zero,
                        send.text)
  /\ At("keyboard", "reply")
  /\ UNCHANGED <<recv, client, kernel, serving, shell, script, typed, machine, asked, done,
                 got, ticks, torn>>

Power ==
  /\ On /\ stage["power"] = "act"
  /\ send' = Message(recv.type, 0,
                     IF recv.type \in {"REBOOT", "SHUTDOWN"} THEN Zero
                     ELSE [v |-> "-1", n |-> 0], send.text)
  /\ At("power", "reply")
  /\ UNCHANGED <<recv, client, kernel, serving, shell, world, ticks, torn>>

\* It answers first, lest the caller be left blocked.
PowerActs ==
  /\ On /\ stage["power"] \in {"REBOOT", "SHUTDOWN"}
  /\ machine' = IF stage["power"] = "REBOOT" THEN "reset" ELSE "off"
  /\ At("power", "recv")
  /\ UNCHANGED <<slots, client, kernel, serving, shell, script, typed, keys, asked,
                 done, got, ticks, torn>>

\* Sys::THREAD_INFO lists the threads; the clients stand for all of them.
Proc ==
  /\ On /\ stage["proc"] = "act"
  /\ send' = Message(recv.type, 0,
                     IF recv.type = "PS" THEN [v |-> "n", n |-> Cardinality(Clients)]
                     ELSE [v |-> "-1", n |-> 0], send.text)
  /\ At("proc", "reply")
  /\ UNCHANGED <<recv, client, kernel, serving, shell, world, ticks, torn>>

\* The timer service registers IRQ 0, which every tick delivers when it waits.
Tick ==
  /\ On /\ ticks < MaxTicks
  /\ stage["timer"] = "recv" /\ Queued("timer") = {}
  /\ ticks' = ticks + 1
  /\ At("timer", "act")
  /\ UNCHANGED <<slots, client, kernel, serving, shell, world, torn>>

InUse(c) == step[c] \in {"rest", "call", "read"}
Answering(s) == s # "terminal" /\ stage[s] = "reply"

\* It does not look at where it was woken from: it fills the slot and replies,
\* to nobody after a tick.
Timer ==
  /\ On /\ stage["timer"] = "act"
  /\ send' = Message(recv.type, 0,
                     IF recv.type = "UPTIME" THEN [v |-> "now", n |-> 0] ELSE Zero,
                     send.text)
  /\ At("timer", IF serving["timer"] = None THEN "recv" ELSE "reply")
  /\ torn' = (torn \/ (/\ serving["timer"] = None
                       /\ \/ \E c \in Clients : InUse(c)
                          \/ \E s \in Servers : Answering(s)))
  /\ UNCHANGED <<recv, client, kernel, serving, shell, world, ticks>>

----------------------------------------------------------------------------
Type ==
  /\ On /\ typed < Len(script)
  /\ typed' = typed + 1
  /\ UNCHANGED <<slots, client, kernel, service, shell, script, keys, machine, asked,
                 done, got, ticks, torn>>

ClientStep(c) ==
  \/ FillType(c) \/ FillRest(c) \/ IpcCall(c) \/ Return(c) \/ Proceed(c)
ShellStep == Prompt \/ ReadLine \/ Spawn \/ Wait
ServerStep(s) == Take(s) \/ Reply(s)

\* The machine has stopped.
Off == ~On /\ UNCHANGED vars

Next ==
  \/ \E c \in Clients : ClientStep(c)
  \/ ShellStep \/ ProgramExits
  \/ \E s \in Servers : ServerStep(s)
  \/ Terminal \/ Keyboard \/ Power \/ PowerActs \/ Proc \/ Timer
  \/ Type \/ Tick \/ Off

\* Every thread that is ready gets its turn (ReadyRuns of Sched.tla); nothing
\* is assumed of the user and of the ticks.
Fairness ==
  /\ \A c \in Clients : WF_vars(ClientStep(c))
  /\ \A s \in Servers : WF_vars(ServerStep(s))
  /\ WF_vars(ShellStep) /\ WF_vars(ProgramExits)
  /\ WF_vars(Terminal) /\ WF_vars(Keyboard) /\ WF_vars(Power \/ PowerActs)
  /\ WF_vars(Proc) /\ WF_vars(Timer)

Spec == Init /\ [][Next]_vars /\ Fairness

----------------------------------------------------------------------------
Increasing(s) == \A i, j \in DOMAIN s : i < j => s[i] < s[j]

\* No han is cut: a leading byte has its two following ones, and each of these
\* comes one or two after the leading one.
WholeHans(bytes) ==
  \A i \in DOMAIN bytes :
    /\ bytes[i] = "L" => i + 2 <= Len(bytes) /\ bytes[i + 1] = "C" /\ bytes[i + 2] = "C"
    /\ bytes[i] = "C" => \/ i > 1 /\ bytes[i - 1] = "L"
                         \/ i > 2 /\ bytes[i - 1] = "C" /\ bytes[i - 2] = "L"

\* Where the terminal printed a text, and did not clear the screen.
Texts == {i \in DOMAIN done : done[i] # NoText}

Typed(k) == \E i \in 1..keys : script[i] = k

\* What the services do was asked for: each text the terminal prints is one
\* that a client gave it, uncut and whole-charactered, printed once and in the
\* order of the calls, and the machine stops only as a program that the user
\* has called wanted it.  Unless the timer service wrote into a request or an answer, nothing
\* is left out either and uptime gets the time.  At stake: the slots that all
\* processes share, the chunks of a long text, the service directory.
ServedAsAsked ==
  /\ \A i, j \in Texts : i < j => done[i].n < done[j].n
  /\ \A i \in Texts : /\ done[i].n \in DOMAIN asked /\ done[i] = asked[done[i].n]
                      /\ WholeHans(done[i].bytes)
  /\ machine = "reset" => Typed("r")
  /\ machine = "off" => Typed("s")
  /\ ~torn => /\ IsPrefix(done, asked) /\ Len(asked) <= Len(done) + 1
              /\ \A i \in DOMAIN done : done[i].bytes # <<"0">>

\* The shell gets no key twice and none before an earlier one, and misses none
\* but when the timer service overwrote an answer: the ring's keys pass
\* through the same two slots as everybody's messages.
KeysInLine ==
  /\ Increasing(got)
  /\ \A i \in DOMAIN got : got[i] <= keys
  /\ ~torn => \A i \in DOMAIN got : got[i] = i

\* The one page serves one client at a time: while a client is anywhere
\* between filling its request and reading the answer no other is, and so what
\* a service reads in the RECV slot is the message it took.  This is why one
\* pair of slots can do, and it rests on the shell's waiting for its program.
PageToOneClient ==
  /\ \A c, d \in Clients : step[c] # "fill" /\ step[d] # "fill" => c = d
  /\ \A s \in Servers : serving[s] # None => recv = out[serving[s]]

\* Whatever a line says, and whatever the timer service does to a request, the
\* shell asks for a line again or the machine stops: every service answers
\* whatever reaches it.
ShellComesBack == []<>(mode = "line" \/ machine # "on")

\* services.cpp:52-55 of puts: a long text is sent in chunks so that nothing of
\* it is lost.  The terminal prints every text it was given.
NothingLeftOut == IsPrefix(done, asked)
----------------------------------------------------------------------------
(* The inductive invariant behind PageToOneClient, KeysInLine and          *)
(* ServedAsAsked.                                                          *)

ByteType    == {"a", "L", "C", "0"}
TextType    == [n : Nat, bytes : Seq(ByteType)]
AskType     == {"PUTS", "CLEAR", "UPTIME", "PS", "REBOOT", "SHUTDOWN"}
ValueType   == KeyNames \cup {"0", "-1", "n", "now"}
MessageType == [type : AskType \cup {"0", "KEY_GET"}, len : Nat,
                a : [v : ValueType, n : Nat], text : TextType]

\* Who serves what; keys are asked for by the shell alone, without a request.
ServerOf == [PUTS |-> "terminal", CLEAR |-> "terminal", UPTIME |-> "timer", PS |-> "proc",
             REBOOT |-> "power", SHUTDOWN |-> "power"]

\* Requests of these types for texts of these bytes.
Asks(types, bytes) ==
  {r \in [to : Servers, type : types, bytes : Seq(bytes)] :
     /\ r.to = ServerOf[r.type]
     /\ r.type = "PUTS" => r.bytes # <<>> /\ WholeHans(r.bytes)}
RequestType == Asks(AskType, ByteType)

ServicesTypeOK ==
  /\ send \in MessageType /\ recv \in MessageType
  /\ step \in [Clients -> {"fill", "rest", "call", "asked", "taken", "answered", "read"}]
  /\ todo \in [Clients -> Seq(RequestType)]
  /\ out \in [Clients -> MessageType] /\ answer \in [Clients -> MessageType]
  /\ dest \in [Clients -> Servers \cup {None}]
  /\ stage \in [Servers -> {"recv", "act", "reply", "REBOOT", "SHUTDOWN"}]
  /\ serving \in [Servers -> Clients \cup {None}]
  /\ mode \in {"prompt", "line", "spawn", "wait"} /\ line \in Seq(ValueType)
  /\ prog \in Programs \cup {None}
  /\ script \in Seq(KeyNames) /\ typed \in 0..Len(script) /\ keys \in 0..typed
  /\ machine \in {"on", "off", "reset"}
  /\ asked \in Seq(TextType) /\ done \in Seq(TextType) /\ got \in Seq(Nat)
  /\ ticks \in 0..MaxTicks /\ torn \in BOOLEAN

\* The program calls only while the shell waits for it, and the shell has
\* nothing to say while it waits; who is in a call has something to ask.
Turns ==
  /\ prog = None => todo["prog"] = <<>> /\ step["prog"] = "fill"
  /\ prog # None => mode = "wait"
  /\ mode = "wait" => todo["shell"] = <<>> /\ step["shell"] = "fill"
  /\ \A c \in Clients : step[c] # "fill" => todo[c] # <<>> \/ WantsKey(c)

\* A service in the middle of its work has the message of a client that
\* called it and waits; only the timer service may work for nobody.
Engaged(s) ==
  /\ serving[s] # None =>
       /\ step[serving[s]] = "taken" /\ dest[serving[s]] = s /\ recv = out[serving[s]]
       /\ stage[s] \in {"act", "reply"}
  /\ stage[s] = "reply" => serving[s] # None
  /\ stage[s] = "act" /\ s # "timer" => serving[s] # None

\* The keyboard service is called for a key and by nobody but the shell.
CallsForKeys == \A c \in Clients : step[c] # "fill" => (dest[c] = "keyboard" <=> WantsKey(c))

\* The number of the key that is on its way to the shell, or 0.
Pending ==
  IF stage["keyboard"] = "reply" THEN send.a.n
  ELSE IF ~WantsKey("shell") THEN 0
  ELSE CASE step["shell"] = "answered" -> answer["shell"].a.n
         [] step["shell"] = "read"     -> send.a.n
         [] OTHER                      -> 0

\* What is on its way comes after what the shell has; unless the timer
\* service overwrote an answer, they are all the keys that were popped.
KeysOnTheWay ==
  /\ Pending # 0 => Pending <= keys /\ \A i \in DOMAIN got : got[i] < Pending
  /\ ~torn => keys = Len(got) + (IF Pending = 0 THEN 0 ELSE 1)

\* What the user can have meant: the keys that were popped, what the services
\* answer besides, and the requests that only a typed command makes.
KnownValues == {"0", "-1", "n", "now"} \cup {script[i] : i \in 1..keys}
KnownTypes  == {t \in AskType \cup {"0", "KEY_GET"} : /\ t = "REBOOT" => Typed("r")
                                                      /\ t = "SHUTDOWN" => Typed("s")}

\* Uptime says 0 only if its answer was overwritten.
KnownBytes == IF torn THEN ByteType ELSE ByteType \ {"0"}

KnownMessage(m) == m.type \in KnownTypes /\ m.a.v \in KnownValues

NothingUnknown ==
  /\ KnownMessage(send) /\ KnownMessage(recv)
  /\ \A c \in Clients : /\ KnownMessage(out[c]) /\ KnownMessage(answer[c])
                        /\ todo[c] \in Seq(Asks(KnownTypes \cap AskType, KnownBytes))
  /\ line \in Seq(KnownValues)
  /\ stage["power"] \in {"REBOOT", "SHUTDOWN"} => stage["power"] \in KnownTypes
  /\ machine = "reset" => Typed("r")
  /\ machine = "off" => Typed("s")

\* Each text that was given to the terminal, by its number.
AskedInOrder ==
  \A i \in DOMAIN asked : asked[i] # NoText =>
    asked[i].n = i /\ asked[i].bytes \in Seq(KnownBytes) /\ WholeHans(asked[i].bytes)

\* A client's message, from the call on until the service has answered.
Sent(c) == IF step[c] = "call" THEN send ELSE out[c]
OnItsWay(c) == \/ step[c] \in {"call", "asked"}
               \/ step[c] = "taken" /\ stage["terminal"] = "act"

\* If it can print, then all of the latest text, which is still to be printed.
SentText(c) ==
  /\ step[c] \in {"call", "asked", "taken"} /\ Sent(c).len > 0 =>
       /\ Len(asked) > 0 /\ Sent(c).text = asked[Len(asked)] /\ asked[Len(asked)] # NoText
       /\ Sent(c).len = Len(Sent(c).text.bytes)
  /\ OnItsWay(c) /\ Sent(c).len > 0 => \A i \in Texts : done[i].n < Len(asked)

TextsDone ==
  /\ \A i \in Texts : done[i].n \in DOMAIN asked /\ done[i] = asked[done[i].n]
  /\ \A i, j \in Texts : i < j => done[i].n < done[j].n

\* A request goes to the service that it is for, if that has registered.
RightService == \A c \in Clients : step[c] # "fill" => dest[c] \in {Current(c).to, None}

\* While nothing was overwritten: a client's slot, message and answer are what
\* its request needs, and the terminal owes at most the latest text.
AsMeant(c) ==
  LET r == Current(c)
  IN  /\ step[c] = "rest" => send.type = r.type
      /\ step[c] \in {"call", "asked", "taken"} =>
           /\ Sent(c).type = r.type
           /\ r.type = "PUTS" => Sent(c).len = Len(r.bytes)
           /\ r.type = "CLEAR" => Len(asked) > 0 /\ asked[Len(asked)] = NoText
      /\ r.type = "UPTIME" => /\ step[c] = "answered" => answer[c].a # Zero
                              /\ step[c] = "read" => send.a # Zero

Owed == \E c \in Clients : OnItsWay(c) /\ Current(c).type \in {"PUTS", "CLEAR"}

Untorn ==
  /\ \A c \in Clients : AsMeant(c)
  /\ stage["timer"] = "reply" => send.a # Zero
  /\ IF Owed THEN Len(asked) = Len(done) + 1 /\ done = Front(asked) ELSE done = asked

PageIInv     == ServicesTypeOK /\ Turns /\ \A s \in Servers : Engaged(s)
KeysIInv     == PageIInv /\ CallsForKeys /\ KeysInLine /\ KeysOnTheWay
ServicesIInv ==
  /\ KeysIInv /\ RightService /\ NothingUnknown /\ AskedInOrder
  /\ (\A c \in Clients : SentText(c)) /\ TextsDone
  /\ ~torn => Untorn
=============================================================================
