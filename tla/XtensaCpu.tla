----------------------------- MODULE XtensaCpu -----------------------------
(***************************************************************************)
(* The emulated core and what the simulator does to it behind the          *)
(* firmware's back: windowed calls and returns with the overflow and       *)
(* underflow handled by the emulator, functions skipped before their       *)
(* ENTRY, patched functions that end in the safe return, the redirection   *)
(* of the scheduler start to the application, faults answered by resuming  *)
(* somewhere plausible, and interrupts.                                    *)
(*                                                                         *)
(* A program counter names what it points at and the serial number of the  *)
(* live function it belongs to: <<"body", s>> inside function s,           *)
(* <<"entry", s>> at the ENTRY s has just called, <<"stub", s>> after the   *)
(* ENTRY of a patched function, at its RETW.                               *)
(***************************************************************************)
EXTENDS XtensaWindows, Sequences, SequencesExt

CONSTANTS MaxResets,  \* bound: resets of the SoC
          Levels,     \* interrupt levels in use
          ExcmLevel,  \* the level PS.EXCM masks up to
          HookKinds,  \* how calls are skipped: "return", "helper", "task"
          Activities  \* bound: what goes on together, and how many functions
                      \* are called or skipped and interrupts raised, before and
                      \* after the application starts

ASSUME CpuAssumption ==
    /\ MaxResets \in Nat /\ ExcmLevel \in Nat \ {0}
    /\ Levels \subseteq 1..7 /\ 1 \in Levels
    /\ HookKinds \subseteq {"return", "helper", "task"}
    /\ \A a \in Activities : a.boot \in Nat /\ a.app \in Nat
    /\ \A a \in Activities : a.does \subseteq {"calls", "hooks", "faults", "interrupts", "resets",
                                            "locks", "words", "setup", "copies", "events"}
\* The stacks are deep enough for the calls: every function's frame, and below the
\* newest one the areas that the windows are saved to.  The thread's data takes one
\* place of the application's.
ASSUME StackAssumption ==
    \A a \in Activities : /\ AppTop >= FrameSize * (a.boot + 1) + 2
                         /\ AppTop >= FrameSize * (a.app + 1) + 3

VARIABLES win,         \* the register file and the stack
          pc, ps,      \* PS: [callinc, level, excm, um]
          epc,         \* EPC1.. by level; epc[1] also serves windows and exceptions
          eps,         \* EPS2.. by level
          pending,     \* INTSET & INTENABLE, by level
          run,         \* "running", "halted", "stopped"
          redirected,  \* mofei_redirected_to_app_main
          tls,         \* mofei_main_tls_base is set
          frames,      \* ghost: the live functions, outermost first
          nest,        \* ghost: the interrupts in progress, outermost first
          strayed,     \* ghost: the core resumed where no live function is
          serial, spent, resets, activity

cpuVars == <<win, pc, ps, epc, eps, pending, run, redirected, tls,
             frames, nest, strayed, serial, spent, resets, activity>>

Kernel == <<"kernel", 0>>
Halt   == <<"halt", 0>>                 \* 0x4037D000
Body(s) == <<"body", s>>
Own(s, k) == <<s, k>>                   \* what function s keeps in its quad k
Template  == [Blank EXCEPT !.val = <<0, 9>>]
Result    == <<0, 8>>

Does(what) == what \in activity.does
Allowance  == IF redirected THEN activity.app ELSE activity.boot

Spends     == spent < Allowance /\ spent' = spent + 1

Top == Last(frames)
AtRest == /\ run = "running" /\ nest = <<>> /\ ~strayed /\ frames # <<>>
          /\ pc = Body(Top.serial)

Seed(top, word) == [ret |-> word, sp |-> top, val |-> NoValue]

\* One window that owns the file, and the word its ENTRY will find in a8.
FirstWindow(c, top, word) ==
    [quad |-> [p \in 0..(Quads - 1) |->
                  IF p = 0 THEN [Blank EXCEPT !.sp = top]
                  ELSE IF p = 2 % Quads THEN [Blank EXCEPT !.ret = word] ELSE Blank],
     wb |-> 0, ws |-> {0},
     mem |-> [c.mem EXCEPT ![top - 1] = Seed(top, word)]]

\* mofei_prepare_kernel_call_frame, and what the reset of core 0 adds.
KernelWord == [inc |-> 2, pc |-> Kernel]
BootWord   == [inc |-> 2, pc |-> Halt]
NoFile     == [mem |-> [a \in Addresses |-> Blank]]

CpuInit ==
    /\ win = FirstWindow(NoFile, AppTop, KernelWord)
    /\ pc = <<"entry", 0>>
    /\ ps = [callinc |-> 2, level |-> 0, excm |-> FALSE, um |-> FALSE]
    /\ epc = [l \in Levels |-> NoPc]
    /\ eps = [l \in Levels |-> ps]
    /\ pending = {} /\ run = "running"
    /\ redirected = FALSE /\ tls = FALSE
    /\ frames = <<>> /\ nest = <<>> /\ strayed = FALSE
    /\ serial = 0 /\ spent = 0 /\ resets = 0 /\ activity \in Activities

\* Guest or host ask for a reset of the SoC; memory keeps its contents.
Reset ==
    /\ Does("resets") /\ run # "stopped" /\ resets < MaxResets
    /\ win' = FirstWindow(win, AppTop, KernelWord)
    /\ pc' = <<"entry", 0>>
    /\ ps' = [callinc |-> 2, level |-> 0, excm |-> FALSE, um |-> FALSE]
    /\ run' = "running"
    /\ redirected' = FALSE /\ tls' = FALSE
    /\ frames' = <<>> /\ nest' = <<>> /\ strayed' = FALSE
    /\ serial' = 0 /\ spent' = 0 /\ resets' = resets + 1
    /\ UNCHANGED <<epc, eps, pending, activity>>

-----------------------------------------------------------------------------
(* Windowed calls. *)

\* An instruction that touches quad n first makes room: one window is spilled and
\* the instruction starts again; the trap goes through EPC1.  A handler that has
\* saved its context may do the same.
SavedHandler == nest # <<>> /\ Last(nest).phase = "saved"
Overflow ==
    /\ Does("calls") \/ SavedHandler
    /\ AtRest \/ (run = "running" /\ SavedHandler)
    /\ \E n \in Reach : Owned(win, n) # {} /\ win' = Overflowed(win, n)
    /\ epc' = [epc EXCEPT ![1] = pc]
    /\ UNCHANGED <<pc, ps, eps, pending, run, redirected, tls,
                   frames, nest, strayed, serial, spent, resets, activity>>

\* The caller's registers above its first quad that outlive the call.
Keep(c, s, n) ==
    [c EXCEPT !.quad = [p \in DOMAIN @ |->
        LET ks == {k \in 1..(n - 1) : p = Ahead(c, k)}
        IN IF ks = {} THEN @[p] ELSE [@[p] EXCEPT !.val = Own(s, Min(ks))]]]

\* CALLn and CALLXn (gen_callw_slot), to a function, to a patched one or to
\* an address that holds no code.  xTaskCreateUniversal becomes a call of loopTask.
Call(n, kind) ==
    /\ Does("calls") /\ AtRest
    /\ Spends /\ Owned(win, n) = {}
    /\ kind = "hole" => Does("faults")
    /\ win' = Called(Keep(win, Top.serial, n), n, [inc |-> n, pc |-> pc])
    /\ ps' = [ps EXCEPT !.callinc = n]
    /\ pc' = <<kind, Top.serial>>
    /\ frames' = [frames EXCEPT ![Len(frames)].inc = n]
    /\ UNCHANGED <<epc, eps, pending, run, redirected, tls,
                   nest, strayed, serial, resets, activity>>

\* ENTRY of a function (or of a patched one, which goes straight to its RETW).
Enter ==
    /\ run = "running" /\ nest = <<>> /\ ~strayed
    /\ pc[1] \in {"entry", "patched"} /\ Owned(win, ps.callinc) = {}
    /\ LET s == serial + 1
           c == Entered(win, ps.callinc)
       IN /\ win' = [c EXCEPT !.quad[c.wb].val = Own(s, 0)]
          /\ frames' = Append(frames, [serial |-> s, base |-> c.wb, inc |-> 0,
                                       ret |-> Quad(c, 0).ret, sp |-> Quad(c, 0).sp])
          /\ serial' = s
          /\ pc' = <<IF pc[1] = "entry" THEN "body" ELSE "stub", s>>
    /\ UNCHANGED <<ps, epc, eps, pending, run, redirected, tls,
                   nest, strayed, spent, resets, activity>>

\* The outermost function never returns (app_main's simulator loop, the kernel).
Leaves == Len(frames) > 1
Left   == [Front(frames) EXCEPT ![Len(frames) - 1].inc = 0]

Underflow ==
    /\ AtRest /\ Leaves /\ LegalReturn(win) /\ CallerSaved(win)
    /\ win' = Underflowed(win, Quad(win, 0).ret.inc)
    /\ epc' = [epc EXCEPT ![1] = pc]
    /\ UNCHANGED <<pc, ps, eps, pending, run, redirected, tls,
                   frames, nest, strayed, serial, spent, resets, activity>>

Return ==
    /\ AtRest /\ Leaves /\ LegalReturn(win) /\ ~CallerSaved(win)
    /\ win' = Returned(win)
    /\ pc' = Quad(win, 0).ret.pc
    /\ frames' = Left
    /\ UNCHANGED <<ps, epc, eps, pending, run, redirected, tls,
                   nest, strayed, serial, spent, resets, activity>>

\* A patched function: its helper leaves a result in a2 (mofei_retw_success and
\* the others), mofei_retw_safe carries it to the caller.
AtStub == run = "running" /\ ~strayed /\ pc[1] = "stub"
SafeReturn ==
    /\ AtStub /\ Leaves /\ Quad(win, 0).ret.inc # 0
    /\ LET n == Quad(win, 0).ret.inc
           c == SafelyReturned(win)
       IN win' = [c EXCEPT !.quad[Ahead(c, n)].val = Result]
    /\ pc' = Quad(win, 0).ret.pc
    /\ frames' = Left
    /\ UNCHANGED <<ps, epc, eps, pending, run, redirected, tls,
                   nest, strayed, serial, spent, resets, activity>>

-----------------------------------------------------------------------------
(* Calls answered before their ENTRY. *)

\* The result goes where the caller will look for it.
ResultAt(c, n) == [c EXCEPT !.quad[Ahead(c, n)].val = Result]
\* Skipped at the callee's first instruction, the CALL has left its word.
SkippedByHelper(n) == ResultAt(Called(win, n, [inc |-> n, pc |-> pc]), n)
\* CALLX to xTaskCreatePinnedToCore also has its helper write a2 of the window.
SkippedTask(n) == [ResultAt(win, n) EXCEPT !.quad[win.wb].val = Result]
Skipped(n, kind) == CASE kind = "return" -> ResultAt(win, n)
                      [] kind = "helper" -> SkippedByHelper(n)
                      [] kind = "task"   -> SkippedTask(n)

\* The translator matches the target of the CALL, or the first instruction of the
\* function: nothing rotates.
Answered(n, kind) ==
    /\ AtRest /\ Owned(win, n) = {} /\ Spends
    /\ win' = Skipped(n, kind)
    /\ ps' = IF kind = "helper" THEN [ps EXCEPT !.callinc = n] ELSE ps
    /\ UNCHANGED <<pc, epc, eps, pending, run, redirected, tls,
                   frames, nest, strayed, serial, resets, activity>>
Hook(n, kind) == Does("hooks") /\ Answered(n, kind)

-----------------------------------------------------------------------------
(* The redirection to the application. *)

\* mofei_initialize_main_tls takes the top of the stack for the thread's data;
\* mofei_prepare_boot_firmware_frame builds the caller of app_main below it.
WithTls(c) == IF tls THEN c ELSE [c EXCEPT !.mem[AppTop - 1] = Template]
BootTopBare == AppTop                   \* the mistake: the data is not left room
BootTop    == AppTop - 1
BootFrame ==
    /\ win' = FirstWindow(WithTls(win), BootTop, BootWord)
    /\ tls' = TRUE /\ redirected' = TRUE
    /\ ps' = [ps EXCEPT !.callinc = 2, !.excm = FALSE, !.um = TRUE]
    /\ pc' = <<"entry", 0>>
    /\ frames' = <<>> /\ serial' = 0 /\ spent' = 0

\* vTaskStartScheduler and xPortStartScheduler, at their patched RETW.
SchedulerReturns ==
    /\ AtStub /\ ~redirected
    /\ BootFrame
    /\ UNCHANGED <<epc, eps, pending, run, nest, strayed, resets, activity>>

\* A second time the helper does nothing, the translated jump is taken all the same.
SchedulerAgain ==
    /\ AtStub /\ redirected
    /\ pc' = <<"entry", 0>> /\ strayed' = TRUE
    /\ UNCHANGED <<win, ps, epc, eps, pending, run, redirected, tls,
                   frames, nest, serial, spent, resets, activity>>

\* __assert_func before the scheduler has started; afterwards it returns safely.
AssertRedirect ==
    /\ AtStub /\ ~redirected /\ Does("faults")
    /\ BootFrame
    /\ UNCHANGED <<epc, eps, pending, run, nest, strayed, resets, activity>>

-----------------------------------------------------------------------------
(* Faults. *)

\* mofei_pc_is_safe_resume: somewhere in the firmware's code, but not the halt stub.
Plausible(p) == p[1] \notin {"none", "halt", "hole"}

\* An illegal instruction in the body of a function, or a fetch where there is no
\* code, is answered as a return of the function that runs: its a0 is the first candidate.
Faulty == /\ run = "running" /\ Does("faults") /\ nest = <<>> /\ ~strayed
          /\ frames # <<>> /\ pc \in {Body(Top.serial), <<"hole", Top.serial>>}
Word   == Quad(win, 0).ret
A0Serves == Word.inc # 0 /\ Plausible(Word.pc)

ResumeInCaller ==
    /\ Faulty /\ A0Serves
    /\ win' = SafelyReturned(win)
    /\ ps' = [ps EXCEPT !.excm = FALSE]
    /\ pc' = Word.pc
    /\ IF Leaves THEN frames' = Left /\ UNCHANGED strayed
                 ELSE frames' = <<>> /\ strayed' = TRUE
    /\ UNCHANGED <<epc, eps, pending, run, redirected, tls,
                   nest, serial, spent, resets, activity>>

\* Failing that, EPC1: whatever last trapped, unless it is the faulting address.
ResumeFromEpc ==
    /\ Faulty /\ ~A0Serves
    /\ Word.inc = 0 => Word = NoWord
    /\ Plausible(epc[1])
    /\ ps' = [ps EXCEPT !.excm = FALSE]
    /\ pc' = epc[1]
    /\ strayed' = (epc[1] # Body(Top.serial))
    /\ frames' = [frames EXCEPT ![Len(frames)].inc = 0]
    /\ UNCHANGED <<win, epc, eps, pending, run, redirected, tls,
                   nest, serial, spent, resets, activity>>

StopForGood ==
    /\ Faulty /\ ~A0Serves
    /\ epc[1] = pc \/ ~Plausible(epc[1]) \/ (Word.inc = 0 /\ Word # NoWord)
    /\ run' = "stopped"
    /\ UNCHANGED <<win, pc, ps, epc, eps, pending, redirected, tls,
                   frames, nest, strayed, serial, spent, resets, activity>>

-----------------------------------------------------------------------------
(* Interrupts. *)

Interrupts == Does("interrupts") /\ ~strayed
Cintlevel  == IF ps.excm /\ ps.level < ExcmLevel THEN ExcmLevel ELSE ps.level
DeliverableAtLevel(l) == l >= Cintlevel   \* the mistake: the level in progress gets in
Deliverable(l) == l > Cintlevel

Raise(l) ==
    /\ Interrupts /\ run # "stopped" /\ l \notin pending
    /\ Spends
    /\ pending' = pending \union {l}
    /\ UNCHANGED <<win, pc, ps, epc, eps, run, redirected, tls,
                   frames, nest, strayed, serial, resets, activity>>

\* Level 1 becomes an exception; the others have an EPC and an EPS of their own.
Trap(l) ==
    /\ epc' = [epc EXCEPT ![l] = pc]
    /\ eps' = IF l > 1 THEN [eps EXCEPT ![l] = ps] ELSE eps
    /\ ps' = [ps EXCEPT !.excm = TRUE, !.level = IF l > 1 THEN l ELSE @]
    /\ pc' = <<"handler", l>>
    /\ nest' = Append(nest, [level |-> l, phase |-> "raw", pc |-> pc, ps |-> ps])

Take ==
    /\ Interrupts /\ run # "stopped" /\ pending # {}
    /\ LET l == Max(pending)
       IN Deliverable(l) /\ Trap(l) /\ pending' = pending \ {l}
    /\ run' = "running"
    /\ UNCHANGED <<win, redirected, tls, frames, strayed, serial, spent, resets, activity>>

\* An exception the firmware handles itself (a system call).
Exception ==
    /\ Interrupts /\ AtRest /\ ~ps.excm
    /\ Trap(1)
    /\ UNCHANGED <<win, pending, run, redirected, tls, frames, strayed,
                   serial, spent, resets, activity>>

\* The firmware's handlers: one that calls windowed code saves what it must and
\* opens the window traps, masking its own level; before it ends it puts it back.
Handler == Last(nest)
HandlerSaves ==
    /\ Interrupts /\ nest # <<>> /\ Handler.phase = "raw" /\ Handler.level <= ExcmLevel
    /\ nest' = [nest EXCEPT ![Len(nest)].phase = "saved"]
    /\ ps' = [ps EXCEPT !.excm = FALSE, !.callinc = 1,
                        !.level = IF @ < Handler.level THEN Handler.level ELSE @]
    /\ UNCHANGED <<win, pc, epc, eps, pending, run, redirected, tls,
                   frames, strayed, serial, spent, resets, activity>>

HandlerRestores ==
    /\ Interrupts /\ SavedHandler
    /\ nest' = [nest EXCEPT ![Len(nest)].phase = "restored"]
    /\ ps' = IF Handler.level = 1 THEN [Handler.ps EXCEPT !.excm = TRUE]
             ELSE [ps EXCEPT !.excm = TRUE]
    /\ epc' = [epc EXCEPT ![Handler.level] = Handler.pc]
    /\ eps' = [eps EXCEPT ![Handler.level] = IF Handler.level = 1 THEN @ ELSE Handler.ps]
    /\ UNCHANGED <<win, pc, pending, run, redirected, tls,
                   frames, strayed, serial, spent, resets, activity>>

\* RFE and RFI.
ReturnFromInterrupt ==
    /\ Interrupts /\ nest # <<>> /\ Handler.phase # "saved"
    /\ pc' = epc[Handler.level]
    /\ ps' = IF Handler.level = 1 THEN [ps EXCEPT !.excm = FALSE] ELSE eps[Handler.level]
    /\ nest' = Front(nest)
    /\ UNCHANGED <<win, epc, eps, pending, run, redirected, tls,
                   frames, strayed, serial, spent, resets, activity>>

\* WAITI halts the core unless something is deliverable; the machine's tick
\* timer starts it again every 100 ms, interrupt or not.
Waiti ==
    /\ Interrupts /\ AtRest /\ ps.level = 0 /\ pending = {}
    /\ run' = "halted"
    /\ UNCHANGED <<win, pc, ps, epc, eps, pending, redirected, tls,
                   frames, nest, strayed, serial, spent, resets, activity>>

Tick ==
    /\ run = "halted"
    /\ run' = "running"
    /\ UNCHANGED <<win, pc, ps, epc, eps, pending, redirected, tls,
                   frames, nest, strayed, serial, spent, resets, activity>>

-----------------------------------------------------------------------------
CpuNext ==
    \/ Overflow \/ Enter \/ Underflow \/ Return \/ SafeReturn
    \/ \E n \in Reach : \/ \E kind \in {"entry", "patched", "hole"} : Call(n, kind)
                        \/ \E kind \in HookKinds : Hook(n, kind)
    \/ SchedulerReturns \/ SchedulerAgain \/ AssertRedirect
    \/ ResumeInCaller \/ ResumeFromEpc \/ StopForGood
    \/ \E l \in Levels : Raise(l)
    \/ Take \/ Exception \/ HandlerSaves \/ HandlerRestores \/ ReturnFromInterrupt
    \/ Waiti \/ Tick

-----------------------------------------------------------------------------
(* What the firmware relies on. *)

StackTop == IF tls THEN BootTop ELSE AppTop
InFile(i) == /\ frames[i].base \in win.ws
             /\ \A j \in DOMAIN frames : j > i => frames[j].base # frames[i].base
SavedBase(i)  == IF i = Len(frames) \/ InFile(i) THEN win.quad[frames[i].base]
                 ELSE Load(win, frames[i + 1].sp - 1)
SavedExtra(i, k) ==
    IF InFile(i) THEN win.quad[(frames[i].base + k) % Quads]
    ELSE Load(win, (IF i = 1 THEN StackTop ELSE frames[i - 1].sp) - Extra(frames[i].inc, k))

WholeFrame(i) ==
    LET f == frames[i]
    IN /\ SavedBase(i) = [ret |-> f.ret, sp |-> f.sp, val |-> Own(f.serial, 0)]
       /\ \A k \in 1..(f.inc - 1) : SavedExtra(i, k).val = Own(f.serial, k)

\* Where the firmware is, interrupts aside.
Point == IF nest = <<>> THEN pc ELSE nest[1].pc

\* Every live function finds its registers whole when control comes back to it,
\* in the file or in its save area, through overflows, skipped calls, safe
\* returns, interrupts and recovered faults; and control is at its newest one.
FramesKept ==
    ~strayed =>
        /\ \A i \in DOMAIN frames : WholeFrame(i)
        /\ Point[2] = IF frames = <<>> THEN 0 ELSE Top.serial

\* No frame of the application is pushed over its thread's data.
ThreadDataKept == tls => win.mem[AppTop - 1] = Template

\* Until its handler has put it aside, the context an interrupt stopped is in the
\* EPC and EPS of its level, whatever interrupts come on top.
ContextKept ==
    \A i \in DOMAIN nest :
        LET h == nest[i] IN
        h.phase # "saved" => /\ epc[h.level] = h.pc
                             /\ h.level > 1 => eps[h.level] = h.ps
=============================================================================
