------------------------------ MODULE HostLink ------------------------------
(***************************************************************************)
(* The character device between the host and the simulated board, and what *)
(* hangs on it: the panel that owns it, the mailboxes in the firmware's    *)
(* memory, the input queues, the touch controller and the frames shown.    *)
(*                                                                         *)
(* Two threads of QEMU run at the same time.  The main thread reads the    *)
(* inbound frames, polls the console mailbox by a timer and writes the     *)
(* guest's memory one location at a time (ops is what it still has to do   *)
(* for the frame in work).  The vCPU thread runs the firmware, and the     *)
(* helpers the translator calls for it, without the big lock.              *)
(*                                                                         *)
(* A frame of the host is a record; on the wire it is HeaderLen header     *)
(* bytes and len payload bytes, each known by its frame and its place.     *)
(* The firmware is external: a mailbox is read and answered in the order   *)
(* its flags ask for.                                                      *)
(***************************************************************************)
EXTENDS EpdPanel, TouchInput, TLC

CONSTANTS
  Cap,          \* channel -> the longest payload it accepts
  MaxFrames,    \* connection -> how many frames the host sends in it
  MaxConnections,
  Firmwares,    \* the panel and the symbols of an image, the frames the host sends it (traffic), what
                \* its display driver sends (driver: <<command, data>>), whether its board is sampled
                \* without a panel (direct), the buffer of its framebuffer object (object, or None) and
                \* how it polls the key events: "swap" (in one instruction), "load_store" or "never"
  Buffers,      \* the framebuffers the firmware may have
  Pictures      \* buffer -> what is drawn in it, a function from Cells to colours

HeaderLen == 2
None == "none"
Symbols == {"console", "debug", "touch", "buttons", "display"}

ASSUME LinkAssumption ==
  /\ "control" \in DOMAIN Cap /\ \A ch \in DOMAIN Cap : Cap[ch] \in Nat
  /\ \A w \in Firmwares : /\ w.panel \in Kinds /\ w.symbols \subseteq Symbols
                          /\ \A f \in w.traffic : /\ f.len \in Nat /\ f.ch \in DOMAIN Cap
                                                  /\ f.ch = "touch" => f.what \in Seq(Touches)
                          /\ \A t \in w.driver : /\ Len(t[2]) \in Nat /\ DOMAIN t[2] = 1 .. Len(t[2])
                                                 /\ t[1] \in Coordinates => t[2] \in Seq(Nat)
  /\ \A b \in Buffers : Pictures[b] \in [Cells -> {"white", "ink"}]

VARIABLES
  firmware,   \* chosen when the image is loaded
  connections, sent, wire,            \* the host: frames of this connection, bytes under way
  buf, header, target, filled, discard, \* inbound_*: the parser, and the rest of its chunk
  dispatched,                         \* frames handed over in this connection
  ops, work,                          \* the main thread: what is left to do, and for which frame
  mem,                                \* the firmware's mailboxes and button bytes, and what its poll
                                      \* of the events has loaded and not yet cleared (polled)
  cpu,                                \* the firmware: what it does with a mailbox
  touchQueue, buttonQueue, controller, unread,
  panel, exported, wired,               \* the panel, and the framebuffers behind it
  open,                               \* threads with a header sent and its payload not
  log                                 \* per mailbox: requests accepted, read, answered and told;
                                      \* edges: the key events the firmware has taken

inbound == <<buf, header, target, filled, discard, dispatched>>
input == <<touchQueue, buttonQueue, controller, unread>>
display == <<panel, exported, wired>>
hostVars == <<connections, sent, wire>>
linkVars == <<firmware, hostVars, inbound, ops, work, mem, cpu, input, display, open, log>>

EmptyBox == [pending |-> 0, len |-> None, data |-> None]
NoLog == [accepted |-> << >>, read |-> << >>, told |-> << >>]
Edges == {"pressed", "released"}
NoEdges == [e \in Edges |-> {}]

LinkInit ==
  /\ firmware \in Firmwares
  /\ connections = 1 /\ sent = << >> /\ wire = << >>
  /\ buf = << >> /\ header = << >> /\ target = 0 /\ filled = 0 /\ discard = 0 /\ dispatched = << >>
  /\ ops = << >> /\ work = None
  /\ mem = [console |-> EmptyBox, request |-> EmptyBox, response |-> EmptyBox,
            bits |-> {}, pressed |-> {}, released |-> {}, polled |-> NoEdges]
  /\ cpu = [at |-> "idle", box |-> None, len |-> None, data |-> None]
  /\ touchQueue = << >> /\ buttonQueue = << >>
  /\ controller = NewTouchController(IF firmware.panel = "ssd1677" THEN "ft6336u" ELSE "chsc6440")
  /\ unread = FALSE
  /\ panel = NewPanel(firmware.panel)
  /\ exported = None /\ wired = None
  /\ open = {}
  /\ log = [console |-> NoLog, debug |-> NoLog, edges |-> NoEdges]

Has(symbol) == symbol \in firmware.symbols

----------------------------------------------------------------------------
(* The host and its connection.                                            *)

Bytes(n, f) == [i \in 1 .. HeaderLen + f.len |-> [frame |-> n, at |-> i]]

HostSends(f) ==
  /\ Len(sent) < MaxFrames[connections]
  /\ sent' = Append(sent, f)
  /\ wire' = wire \o Bytes(Len(sent) + 1, f)
  /\ UNCHANGED <<firmware, connections, inbound, ops, work, mem, cpu, input, display, open, log>>

\* The connection breaks, what is under way is lost, and the next one is
\* opened: CHR_EVENT_OPENED.
ResetInboundFrame == header' = << >> /\ target' = 0 /\ filled' = 0

\* Mutant: what was left to discard outlives its connection.
ReconnectStillDiscarding ==
  /\ connections < MaxConnections /\ connections' = connections + 1
  /\ buf = << >> /\ ops = << >>
  /\ sent' = << >> /\ wire' = << >> /\ dispatched' = << >>
  /\ ResetInboundFrame
  /\ UNCHANGED <<firmware, buf, discard, ops, work, mem, cpu, input, display, open, log>>

Reconnect ==
  /\ connections < MaxConnections /\ connections' = connections + 1
  /\ buf = << >> /\ ops = << >>
  /\ sent' = << >> /\ wire' = << >> /\ dispatched' = << >>
  /\ ResetInboundFrame /\ discard' = 0
  /\ UNCHANGED <<firmware, buf, ops, work, mem, cpu, input, display, open, log>>

----------------------------------------------------------------------------
(* The parser.  One action is one turn of the loop in ssd1677_chr_read and *)
(* uc8253c_chr_read, on the part of the chunk that is left.                *)

ReadChunk ==
  /\ buf = << >> /\ ops = << >>
  /\ \E k \in 1 .. Len(wire) : buf' = SubSeq(wire, 1, k) /\ wire' = SubSeq(wire, k + 1, Len(wire))
  /\ UNCHANGED <<firmware, connections, sent, header, target, filled, discard, dispatched, ops, work, mem, cpu,
                 input, display, open, log>>

Least(a, b) == IF a < b THEN a ELSE b
Rest(k) == SubSeq(buf, k + 1, Len(buf))
Parsing == ops = << >> /\ buf # << >>
ParserOnly == UNCHANGED <<firmware, hostVars, ops, work, mem, cpu, input, display, open, log>>

DiscardTurn ==
  /\ Parsing /\ discard > 0
  /\ LET take == Least(Len(buf), discard) IN discard' = discard - take /\ buf' = Rest(take)
  /\ UNCHANGED <<header, target, filled, dispatched>> /\ ParserOnly

\* The header as it was collected: a frame's, if its bytes are one.
Noise == [ch |-> "noise", len |-> 0, what |-> None]
Decoded(h) ==
  IF \A i \in 1 .. HeaderLen : h[i] = [frame |-> h[1].frame, at |-> i] THEN sent[h[1].frame] ELSE Noise

PayloadCap(f) == Cap[IF f.ch = "console" /\ firmware.panel = "uc8253c" THEN "control" ELSE f.ch]

\* What the main thread does for a frame, location by location.
OpsFor(f) ==
  CASE f.ch = "touch" /\ f.len > 0 -> <<"touch">>
    [] f.ch = "button" /\ f.len > 0 -> <<"queue_button", "bits", "set_bits", "events", "set_events">>
    [] f.ch = "control" -> <<"header", "payload">>
    [] f.ch = "debug" /\ f.len = 0 -> <<"poll_debug">>
    [] f.ch = "debug" /\ f.len > 0 -> <<"ask_debug">>
    [] f.ch = "console" /\ firmware.panel = "ssd1677" -> <<"ask_console">>
    [] OTHER -> << >>

Dispatch(f) == dispatched' = Append(dispatched, f) /\ ops' = OpsFor(f) /\ work' = f

HeaderTurn ==
  /\ Parsing /\ discard = 0 /\ Len(header) < HeaderLen
  /\ LET take == Least(Len(buf), HeaderLen - Len(header))
         h == header \o SubSeq(buf, 1, take)
     IN /\ buf' = Rest(take)
        /\ \/ /\ Len(h) < HeaderLen
              /\ header' = h
              /\ UNCHANGED <<target, filled, discard, dispatched, ops, work>>
           \/ /\ Len(h) = HeaderLen /\ Decoded(h).len > PayloadCap(Decoded(h))
              /\ discard' = Decoded(h).len
              /\ ResetInboundFrame
              /\ UNCHANGED <<dispatched, ops, work>>
           \/ /\ Len(h) = HeaderLen /\ Decoded(h).len = 0
              /\ Dispatch(Decoded(h))
              /\ ResetInboundFrame
              /\ UNCHANGED discard
           \/ /\ Len(h) = HeaderLen /\ Decoded(h).len \in 1 .. PayloadCap(Decoded(h))
              /\ header' = h /\ target' = Decoded(h).len /\ filled' = 0
              /\ UNCHANGED <<discard, dispatched, ops, work>>
  /\ UNCHANGED <<firmware, hostVars, mem, cpu, input, display, open, log>>

PayloadTurn ==
  /\ Parsing /\ discard = 0 /\ Len(header) = HeaderLen
  /\ LET take == Least(Len(buf), target - filled)
     IN /\ buf' = Rest(take)
        /\ \/ /\ filled + take < target
              /\ filled' = filled + take
              /\ UNCHANGED <<header, target, dispatched, ops, work>>
           \/ /\ filled + take = target
              /\ Dispatch(Decoded(header))
              /\ ResetInboundFrame
  /\ UNCHANGED <<firmware, hostVars, discard, mem, cpu, input, display, open, log>>

----------------------------------------------------------------------------
(* The main thread at the guest's memory.                                  *)

Op(name) == ops # << >> /\ Head(ops) = name
Then(next) == ops' = next \o Tail(ops)
MainOnly == UNCHANGED <<firmware, hostVars, inbound, work, cpu, display>>

Write(box, field, value) == mem' = [mem EXCEPT ![box][field] = value]

\* mofeiSimulatorConsoleWrite, mofeiSimulatorPandaDebugWriteRequest: a box
\* that is not empty refuses the request; else data, length, flag.
AskAnyway(name, symbol, box, steps) ==  \* Mutant: the box is not looked at.
  /\ Op(name)
  /\ Then(IF Has(symbol) THEN steps ELSE << >>)
  /\ UNCHANGED <<mem, input, open, log>> /\ MainOnly

Ask(name, symbol, box, steps) ==
  /\ Op(name)
  /\ Then(IF Has(symbol) /\ mem[box].pending = 0 THEN steps ELSE << >>)
  /\ UNCHANGED <<mem, input, open, log>> /\ MainOnly

ConsoleSteps == <<"console_data", "console_len", "console_pending">>
RequestSteps == <<"request_data", "request_len", "request_pending">>

AskConsole == Ask("ask_console", "console", "console", ConsoleSteps)
AskDebug == Ask("ask_debug", "debug", "request", Append(RequestSteps, "poll_debug"))

Deliver(steps, box, name) ==
  \/ /\ Op(steps[1]) /\ Then(<< >>)
     /\ Write(box, "data", work.what)
     /\ UNCHANGED <<input, open, log>> /\ MainOnly
  \/ /\ Op(steps[2]) /\ Then(<< >>)
     /\ Write(box, "len", work.what)
     /\ UNCHANGED <<input, open, log>> /\ MainOnly
  \/ /\ Op(steps[3]) /\ Then(<< >>)
     /\ Write(box, "pending", 1)
     /\ log' = [log EXCEPT ![name].accepted = Append(@, work.what)]
     /\ UNCHANGED <<input, open>> /\ MainOnly

DeliverConsole == Deliver(ConsoleSteps, "console", "console")
DeliverRequest == Deliver(RequestSteps, "request", "debug")

\* console_timer_cb, when nothing else runs: the answer is printed and the
\* box is empty again.
ConsoleTimer ==
  /\ ops = << >> /\ buf = << >> /\ firmware.panel = "ssd1677" /\ Has("console")
  /\ mem.console.pending = 2
  /\ ops' = <<"print_console", "free_console">>
  /\ UNCHANGED <<mem, input, open, log>> /\ MainOnly

PrintConsole ==
  /\ Op("print_console") /\ Then(<< >>)
  /\ log' = [log EXCEPT !.console.told = Append(@, <<mem.console.len, mem.console.data>>)]
  /\ UNCHANGED <<mem, input, open>> /\ MainOnly

FreeConsole ==
  /\ Op("free_console") /\ Then(<< >>)
  /\ Write("console", "pending", 0)
  /\ UNCHANGED <<input, open, log>> /\ MainOnly

\* mofeiSimulatorPandaDebugPollResponse: the answer is copied, the box
\* freed, the copy sent.
PollDebug ==
  /\ Op("poll_debug")
  /\ Then(IF Has("debug") /\ mem.response.pending # 0 THEN <<"take_debug", "free_debug", "header", "payload">>
          ELSE << >>)
  /\ UNCHANGED <<mem, input, open, log>> /\ MainOnly

TakeDebug ==
  /\ Op("take_debug") /\ Then(<< >>)
  /\ log' = [log EXCEPT !.debug.told = Append(@, <<mem.response.len, mem.response.data>>)]
  /\ UNCHANGED <<mem, input, open>> /\ MainOnly

FreeDebug ==
  /\ Op("free_debug") /\ Then(<< >>)
  /\ Write("response", "pending", 0)
  /\ UNCHANGED <<input, open, log>> /\ MainOnly

\* ipc_send_frame: two writes.
SendHeader ==
  /\ Op("header") /\ Then(<< >>)
  /\ open' = open \cup {"main"}
  /\ UNCHANGED <<mem, input, log>> /\ MainOnly

SendPayload ==
  /\ Op("payload") /\ Then(<< >>)
  /\ open' = open \ {"main"}
  /\ UNCHANGED <<mem, input, log>> /\ MainOnly

\* ft6336u_inject_touch, chsc6440_inject_touch: queue and controller.
InjectTouches ==
  /\ Op("touch") /\ Then(<< >>)
  /\ LET heard == OfFingers(work.what)
     IN /\ touchQueue' = QueuedAll(touchQueue, heard)
        /\ controller' = InjectTouch(controller, heard)
  /\ unread' = TRUE
  /\ UNCHANGED <<mem, buttonQueue, open, log>> /\ MainOnly

\* mofeiSimulatorButtonStateWrite: the queue under its lock, then the state
\* byte and an edge byte, each read and written back.
QueueButton ==
  /\ Op("queue_button") /\ Then(<< >>)
  /\ buttonQueue' = Queued(buttonQueue, work.what)
  /\ UNCHANGED <<mem, touchQueue, controller, unread, open, log>> /\ MainOnly

EdgeOf(key) == IF key.pressed THEN "pressed" ELSE "released"
Edge == EdgeOf(work.what)

ReadBits ==
  /\ Op("bits") /\ ops' = <<"set_bits", mem.bits>> \o SubSeq(ops, 3, Len(ops))
  /\ UNCHANGED <<mem, input, open, log>> /\ MainOnly

SetBits ==
  /\ Op("set_bits") /\ ops' = SubSeq(ops, 3, Len(ops))
  /\ mem' = [mem EXCEPT !.bits = IF work.what.pressed THEN ops[2] \cup {work.what.id} ELSE ops[2] \ {work.what.id}]
  /\ UNCHANGED <<input, open, log>> /\ MainOnly

ReadEvents ==
  /\ Op("events") /\ ops' = <<"set_events", mem[Edge]>>
  /\ UNCHANGED <<mem, input, open, log>> /\ MainOnly

SetEvents ==
  /\ Op("set_events") /\ ops' = << >>
  /\ mem' = [mem EXCEPT ![Edge] = ops[2] \cup {work.what.id}]
  /\ UNCHANGED <<input, open, log>> /\ MainOnly

----------------------------------------------------------------------------
(* The vCPU thread: the firmware at its mailboxes.  It reads the length    *)
(* and the data once the flag says there is a request, and writes them     *)
(* before it raises the flag of the answer.                                *)

Cpu(at) == cpu.at = at
Goes(at) == cpu' = [cpu EXCEPT !.at = at]
CpuOnly == UNCHANGED <<firmware, hostVars, inbound, ops, work, input, display, open>>

SeesRequest(box, symbol) ==
  /\ Cpu("idle") /\ Has(symbol) /\ mem[box].pending = 1
  /\ cpu' = [cpu EXCEPT !.at = "len", !.box = box]
  /\ UNCHANGED <<mem, log>> /\ CpuOnly

ReadsLength ==
  /\ Cpu("len")
  /\ cpu' = [cpu EXCEPT !.at = "data", !.len = mem[cpu.box].len]
  /\ UNCHANGED <<mem, log>> /\ CpuOnly

LogOf(box) == IF box = "console" THEN "console" ELSE "debug"

\* The console keeps its box for the answer; the debug request is taken out.
ReadsData ==
  /\ Cpu("data")
  /\ log' = [log EXCEPT ![LogOf(cpu.box)].read = Append(@, <<cpu.len, mem[cpu.box].data>>)]
  /\ cpu' = [cpu EXCEPT !.at = IF cpu.box = "console" THEN "answer" ELSE "free", !.data = mem[cpu.box].data]
  /\ UNCHANGED mem /\ CpuOnly

FreesRequest ==
  /\ Cpu("free")
  /\ Write("request", "pending", 0)
  /\ cpu' = [cpu EXCEPT !.at = "answer", !.box = "response"]
  /\ UNCHANGED log /\ CpuOnly

\* An answer is known by the request it answers.  The firmware waits until
\* its last debug answer has been taken.
WritesAnswer ==
  /\ Cpu("answer") /\ (cpu.box = "response" => mem.response.pending = 0)
  /\ mem' = [mem EXCEPT ![cpu.box].len = cpu.len, ![cpu.box].data = cpu.data]
  /\ Goes("raise")
  /\ UNCHANGED log /\ CpuOnly

RaisesAnswer ==
  /\ Cpu("raise")
  /\ Write(cpu.box, "pending", IF cpu.box = "console" THEN 2 ELSE 1)
  /\ cpu' = [at |-> "idle", box |-> None, len |-> None, data |-> None]
  /\ UNCHANGED log /\ CpuOnly

----------------------------------------------------------------------------
(* Input read by the firmware: through the helpers from the queues, and    *)
(* from the touch controller over I2C.                                     *)

InputOnly == UNCHANGED <<firmware, hostVars, inbound, ops, work, mem, cpu, display, open, log>>

TouchRead ==
  /\ Has("touch") /\ touchQueue # << >> /\ touchQueue' = Tail(touchQueue)
  /\ UNCHANGED <<buttonQueue, controller, unread>> /\ InputOnly

ButtonRead ==
  /\ Has("buttons") /\ buttonQueue # << >> /\ buttonQueue' = Tail(buttonQueue)
  /\ UNCHANGED <<touchQueue, controller, unread>> /\ InputOnly

\* The firmware takes the latched key events and clears the byte: in one
\* instruction, or by a load and a later store.  It stores only over events
\* that it found.
Cleared(e) == [mem EXCEPT ![e] = {}]
SwapsEdges(e) ==
  /\ firmware.polls = "swap" /\ mem[e] # {}
  /\ mem' = Cleared(e)
  /\ log' = [log EXCEPT !.edges[e] = @ \cup mem[e]]
  /\ UNCHANGED cpu /\ CpuOnly

LoadsEdges(e) ==
  /\ firmware.polls = "load_store" /\ mem[e] # {} /\ mem.polled = NoEdges
  /\ mem' = [mem EXCEPT !.polled[e] = mem[e]]
  /\ UNCHANGED <<cpu, log>> /\ CpuOnly

StoresEdges(e) ==
  /\ mem.polled[e] # {}
  /\ mem' = [Cleared(e) EXCEPT !.polled = NoEdges]
  /\ log' = [log EXCEPT !.edges[e] = @ \cup mem.polled[e]]
  /\ UNCHANGED cpu /\ CpuOnly

I2cPointer ==
  /\ Has("touch") /\ controller.register # "td_status_past"
  /\ controller' = WritePointer(controller, "td_status")
  /\ UNCHANGED <<touchQueue, buttonQueue, unread>> /\ InputOnly

I2cBeginRead ==
  /\ controller.register = "td_status"
  /\ controller' = BeginRead(controller)
  /\ unread' = FALSE
  /\ UNCHANGED <<touchQueue, buttonQueue>> /\ InputOnly

I2cEndRead ==
  /\ controller.register = "td_status_past"
  /\ controller' = [EndRead(controller) EXCEPT !.register = "none"]
  /\ UNCHANGED <<touchQueue, buttonQueue, unread>> /\ InputOnly

----------------------------------------------------------------------------
(* The display driver, and the publish hook at the return of displayBuffer *)
(* (mofei_inject_framebuffer), which runs to its end without the firmware  *)
(* but writes the frame to the host in two pieces.                         *)

DisplayOnly == UNCHANGED <<firmware, hostVars, inbound, ops, work, mem, input, log>>
Pushes == cpu' = [cpu EXCEPT !.at = "publish"] /\ open' = open \cup {"vcpu"}

\* sample_guest_framebuffer reads where the last publication wired it to.
Sample(p) == IF wired = None THEN p ELSE Sampled(p, Pictures[wired])

SpiTransaction ==
  /\ Cpu("idle") /\ Has("display")
  /\ \E t \in firmware.driver :
       LET takes == Samples(panel, t[1], t[2]) /\ wired # None
       IN /\ panel' = Transaction(IF takes THEN Sample(panel) ELSE panel, t[1], t[2])
          /\ IF takes THEN Pushes ELSE UNCHANGED <<cpu, open>>
  /\ UNCHANGED <<exported, wired>> /\ DisplayOnly

ResetPin(low) ==
  /\ Cpu("idle") /\ Has("display") /\ panel.held # low
  /\ panel' = HardReset(panel, low)
  /\ UNCHANGED <<cpu, exported, wired, open>> /\ DisplayOnly

BusyTimer ==
  /\ panel.timer # "none"
  /\ panel' = BusyEnds(panel)
  /\ UNCHANGED <<cpu, exported, wired, open>> /\ DisplayOnly

Exports(b) ==
  /\ Cpu("idle") /\ Has("display") /\ b # exported
  /\ exported' = b
  /\ UNCHANGED <<cpu, panel, wired, open>> /\ DisplayOnly

\* A new pointer is taken over at each publication.  A null one falls back to
\* the framebuffer object the firmware keeps, and without one to the old.
Candidate == IF exported # None THEN exported ELSE firmware.object
WiredOnce == IF wired = None THEN Candidate ELSE wired  \* Mutant.
Rewired == IF Candidate # None THEN Candidate ELSE wired

PublishFramebuffer ==
  /\ Cpu("idle") /\ Has("display") /\ ~ firmware.direct
  /\ wired' = Rewired
  /\ IF wired' = None THEN UNCHANGED <<panel, cpu, open>>
     ELSE panel' = Sampled(panel, Pictures[wired']) /\ Pushes
  /\ UNCHANGED exported /\ DisplayOnly

\* A board without an e-paper controller of its own: the layout is read from
\* the framebuffer object, which must agree with the exported pointer.
LayoutValid == firmware.object # None /\ exported \in {None, firmware.object}

PublishDirect ==
  /\ Cpu("idle") /\ Has("display") /\ firmware.direct /\ LayoutValid
  /\ Pushes
  /\ UNCHANGED display /\ DisplayOnly

EndPublish ==
  /\ Cpu("publish") /\ Goes("idle")
  /\ open' = open \ {"vcpu"}
  /\ UNCHANGED display /\ DisplayOnly

----------------------------------------------------------------------------
MainThread ==
  \/ ReadChunk \/ DiscardTurn \/ HeaderTurn \/ PayloadTurn
  \/ AskConsole \/ AskDebug \/ DeliverConsole \/ DeliverRequest
  \/ ConsoleTimer \/ PrintConsole \/ FreeConsole \/ PollDebug \/ TakeDebug \/ FreeDebug
  \/ SendHeader \/ SendPayload
  \/ InjectTouches \/ QueueButton \/ ReadBits \/ SetBits \/ ReadEvents \/ SetEvents
  \/ BusyTimer

Firmware ==
  \/ SeesRequest("console", "console") \/ SeesRequest("request", "debug")
  \/ ReadsLength \/ ReadsData \/ FreesRequest \/ WritesAnswer \/ RaisesAnswer
  \/ TouchRead \/ ButtonRead \/ I2cPointer \/ I2cBeginRead \/ I2cEndRead
  \/ (\E e \in Edges : SwapsEdges(e) \/ LoadsEdges(e) \/ StoresEdges(e))
  \/ SpiTransaction \/ (\E low \in BOOLEAN : ResetPin(low))
  \/ (\E b \in Buffers \cup {None} : Exports(b))
  \/ PublishFramebuffer \/ PublishDirect \/ EndPublish

LinkNext == (\E f \in firmware.traffic : HostSends(f)) \/ Reconnect \/ MainThread \/ Firmware
LinkSpec == LinkInit /\ [][LinkNext]_linkVars

----------------------------------------------------------------------------
(* Properties.                                                             *)

\* Where the frames end in the stream of a connection, and which of the first
\* n are not longer than their channel allows.
Fits(f) == f.len <= PayloadCap(f)
Ends(frames) ==
  LET end[n \in 0 .. Len(frames)] == IF n = 0 THEN 0 ELSE end[n - 1] + HeaderLen + frames[n].len
  IN end
Fitting(frames) ==
  LET fit[n \in 0 .. Len(frames)] ==
        IF n = 0 THEN << >> ELSE IF Fits(frames[n]) THEN Append(fit[n - 1], frames[n]) ELSE fit[n - 1]
  IN fit

\* The frames whose last byte has been read.
Consumed == Ends(sent)[Len(sent)] - Len(wire) - Len(buf)
WholeFrames == CHOOSE n \in 0 .. Len(sent) :
                 Ends(sent)[n] <= Consumed /\ (n < Len(sent) => Ends(sent)[n + 1] > Consumed)

\* However the stream is cut into chunks, whatever was too long before and
\* however the last connection ended, the panel hands over exactly the frames
\* that have arrived whole and fit, in order.
InOrder == dispatched = Fitting(sent)[WholeFrames]

\* The two threads share the mailboxes without a lock.  The firmware reads
\* the length and the data of one accepted request, each once and in order,
\* and what the host is told is the answer to it.
Same(pairs) == [i \in DOMAIN pairs |-> pairs[i][1]]
ExchangeWhole ==
  \A box \in {"console", "debug"} :
    LET l == log[box]
    IN /\ \A i \in DOMAIN l.read : l.read[i][1] = l.read[i][2]
       /\ IsPrefix(Same(l.read), l.accepted)
       /\ IsPrefix(l.told, l.read)

\* The touches, fingers and keys of the frames handed over in the first
\* connection.
HeardIn(frames) == FlattenSeq([i \in DOMAIN frames |->
                     IF frames[i].ch = "touch" /\ frames[i].len > 0 THEN OfFingers(frames[i].what) ELSE << >>])
KeysIn(frames) == FlattenSeq([i \in DOMAIN frames |->
                    IF frames[i].ch = "button" /\ frames[i].len > 0 THEN <<frames[i].what>> ELSE << >>])
HeldKeys(keys) == {keys[i].id : i \in {j \in DOMAIN keys : keys[j].pressed /\
                                         \A l \in DOMAIN keys : l > j => keys[l].id # keys[j].id}}
EdgeKeys(keys, e) == {keys[i].id : i \in {j \in DOMAIN keys : EdgeOf(keys[j]) = e}}

\* Every press and every release of the first connection is in its byte or
\* has been taken by the firmware: "a fast down/up cannot be lost between
\* firmware polls" (the comment of mofeiSimulatorButtonStateWrite).
NoEdgeLost ==
  ops = << >> /\ connections = 1 =>
    \A e \in Edges : EdgeKeys(KeysIn(dispatched), e) \subseteq mem[e] \cup mem.polled[e] \cup log.edges[e]

\* A touch the firmware has not begun to read keeps INT low, except between
\* the two halves of a read; the FT6336U knows every finger that is down,
\* whatever frame it came in; a queue holds the latest events, in order; the
\* state byte says which keys are down; and no key event is lost on a firmware
\* that takes and clears its byte at once, although the host writes back what
\* it read before.
InputsKept ==
  /\ unread /\ controller.register # "td_status" => controller.intLow
  /\ ops = << >> /\ connections = 1 =>
       /\ IsSuffix(touchQueue, HeardIn(dispatched))
       /\ IsSuffix(buttonQueue, KeysIn(dispatched))
       /\ controller.kind = "ft6336u" =>
            controller.active = After([f \in Fingers |-> Lifted], HeardIn(dispatched))
       /\ mem.bits = HeldKeys(KeysIn(dispatched))
  /\ firmware.polls # "load_store" => NoEdgeLost

\* BUSY never stays up for lack of a timer, over resets too; the write
\* pointer, set as the display driver sets it, reaches every byte of its
\* window; and the frame published is the picture in the buffer the firmware
\* exports at that moment, not the one it exported before.
PanelInv ==
  /\ panel.busy => panel.timer # "none"
  /\ DriverSetsWindow(panel) => Walk(panel) = Window(panel)
PanelSound ==
  /\ []PanelInv
  /\ [][firmware.panel = "ssd1677" /\ ~ firmware.direct /\ exported # None /\ open' # open /\ "vcpu" \in open'
         => Pushed(panel') = Pictures[exported]]_linkVars

TypeOK ==
  /\ firmware \in Firmwares /\ TypeOfPanel(panel)
  /\ Len(header) \in 0 .. HeaderLen /\ filled \in 0 .. target /\ discard \in Nat
  /\ Len(touchQueue) <= QueueCap /\ Len(buttonQueue) <= QueueCap
  /\ exported \in Buffers \cup {None} /\ wired \in Buffers \cup {None} /\ open \subseteq {"main", "vcpu"}

=============================================================================
