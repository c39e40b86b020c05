----------------------------- MODULE Interrupts -----------------------------
(***************************************************************************)
(* How interrupts reach the handlers: the two 8259 controllers (i8259.c),  *)
(* the gates of the IDT (idt.c), the order of the set-up in entry          *)
(* (kernel.c), the entry code of the handlers (assembly_linkage.S), and    *)
(* the timer, the clock and the keyboard behind lines 0, 8 and 1.          *)
(*                                                                         *)
(* The other modules take a handler for one step, delivered fairly.  This  *)
(* one shows why they may: a handler is entered with interrupts off, ends  *)
(* its interrupt before anything turns them on, and no line stays blocked  *)
(* although the timer's handler does not return to what it interrupted.    *)
(*                                                                         *)
(* The CPU runs in one of several contexts: 0 is the boot code in entry,   *)
(* t > 0 the program of terminal t.  The stack of a context lists the      *)
(* handlers it is inside of, innermost last.                               *)
(***************************************************************************)
EXTENDS Integers, Sequences

CONSTANTS
  NT,       \* NUM_T, the terminals that are started
  Keys,     \* scan codes of the keys on the keyboard in use
  KbMax,    \* bytes the keyboard holds back (16 in the device)
  MaxNest   \* bound of the model: handlers stacked in one context

MASTER_8259_PORT == 32
SLAVE_8259_PORT  == 160
Lines   == 0 .. 15
Timer   == 0
Keyboard == 1
Cascade == 2            \* where the master sees the slave
Clock   == 8

ASSUME NTAssumption   == NT \in Nat \ {0}
ASSUME KeysAssumption == Keys \subseteq 1 .. 127
ASSUME BoundAssumption == KbMax \in Nat /\ MaxNest \in Nat \ {0}

VARIABLES
  at,              \* where entry stands
  interrupts,      \* the interrupt flag of the CPU
  masked,          \* the mask registers of both controllers
  requested,       \* lines with an edge latched and not taken yet
  serving,         \* lines taken and not ended
  running,         \* the context the CPU runs
  stack,           \* the handlers each context is inside of
  total_terminal,
  pit,             \* "bios", "waiting" (for its count) or "on"
  register_b,      \* the clock's periodic interrupt is enabled
  register_c,      \* it has raised one that nobody has read out
  kb,              \* scan codes still inside the keyboard
  port60,          \* the scan code at the port, <<>> for none
  c,               \* the variable of keyboard_handler
  flags,           \* shift_key, alt_key, ctrl_key and cap_flag
  held,            \* history: the modifier keys that are down
  caps,            \* history: Caps Lock, as its light shows it
  due              \* history: what the keys pressed so far still have to do

cpuVars  == <<running, stack, total_terminal>>
picVars  == <<masked, requested, serving>>
clkVars  == <<register_b, register_c>>
keyVars  == <<kb, port60, c, flags, held, caps, due>>
vars == <<at, interrupts, picVars, cpuVars, pit, clkVars, keyVars>>

-----------------------------------------------------------------------------
(* The 8259 controllers *)

\* The bits of a byte.
Bits(byte) == {b \in 0 .. 7 : (byte \div 2^b) % 2 = 1}

MaskFromOldMask(irq) == masked \ {irq}                      \* mutant
\* enable_irq starts again from the number of the port, not from the old mask:
\* whatever its bits leave open is open.
MaskWith(irq) ==
  IF irq < 8
    THEN (masked \ (0 .. 7)) \cup (Bits(MASTER_8259_PORT + 1) \ {irq})
    ELSE (masked \ (8 .. 15))
           \cup {8 + b : b \in Bits(SLAVE_8259_PORT + 1) \ {irq - 8}}

enable_irq(irq) == masked' = MaskWith(irq)

\* A line of the slave is served at both controllers, and send_eoi ends it at
\* both.
ServedWith(irq) == IF irq < 8 THEN {irq} ELSE {Cascade, irq}
send_eoi(irq)   == serving' = serving \ ServedWith(irq)

\* 0, 1, then the slave's eight lines in place of 2, then 3 to 7.
Before(i, j) ==
  LET Rank(k) == IF k < 8 THEN 16 * k ELSE 16 * Cascade + k
  IN  Rank(i) < Rank(j)

\* An open line gets through unless it, or one that goes before it, is served.
Deliverable ==
  {i \in requested \ masked :
     /\ i >= 8 => Cascade \notin masked \cup serving
     /\ \A j \in serving : j # i /\ ~Before(j, i)}

First(i) == i \in Deliverable /\ \A j \in Deliverable : ~Before(j, i)

-----------------------------------------------------------------------------
(* The CPU *)

Inside == stack[running]
Top == IF Inside = <<>> THEN "none" ELSE Inside[Len(Inside)]
Below == SubSeq(Inside, 1, Len(Inside) - 1)

TrapForKeyboard == (0 .. 19 \ {3, 4, 5, 15}) \cup {33, 128}  \* mutant
\* idt_init: the gates of the other kind turn interrupts off.
TrapGates == (0 .. 19 \ {3, 4, 5, 15}) \cup {128}

\* ICW2 of the two controllers.
Vector(irq) == IF irq < 8 THEN 32 + irq ELSE 40 + (irq - 8)

\* Without a gate the CPU ends in the loop of general_protection.
Handler(vector) ==
  CASE vector = 32 -> "pit"
    [] vector = 33 -> "keyboard"
    [] vector = 40 -> "rtc"
    [] OTHER       -> "stopped"

Accept(i) ==
  /\ interrupts
  /\ First(i)
  /\ Len(Inside) < MaxNest
  /\ requested' = requested \ {i}
  /\ serving' = serving \cup ServedWith(i)
  /\ interrupts' = (Vector(i) \in TrapGates)
  /\ stack' = [stack EXCEPT ![running] = Append(@, Handler(Vector(i)))]
  /\ UNCHANGED <<at, masked, running, total_terminal, pit, clkVars, keyVars>>

-----------------------------------------------------------------------------
(* entry, from i8259_init on *)

BootStep(from, to) ==
  /\ running = 0 /\ Inside = <<>>
  /\ at = from
  /\ at' = to

\* The initialization words forget every edge and every interrupt in service;
\* everything is masked when the function turns interrupts on.
i8259_init ==
  /\ BootStep("i8259_init", "enable_keyboard")
  /\ masked' = Lines
  /\ requested' = {} /\ serving' = {}
  /\ interrupts' = TRUE
  /\ UNCHANGED <<cpuVars, pit, clkVars, keyVars>>

Enable(from, to, irq) ==
  /\ BootStep(from, to)
  /\ enable_irq(irq)
  /\ UNCHANGED <<interrupts, requested, serving, cpuVars, pit, clkVars, keyVars>>

SwitchOn(from, to) ==
  /\ BootStep(from, to)
  /\ interrupts' = TRUE
  /\ UNCHANGED <<picVars, cpuVars, pit, clkVars, keyVars>>

\* The screens are cleared with interrupts on; then, with interrupts off, bit 6
\* of register B lets the clock interrupt.
EnablePeriodic ==
  /\ BootStep("clear", "rtc_open")
  /\ interrupts' = FALSE
  /\ register_b' = TRUE
  /\ UNCHANGED <<picVars, cpuVars, pit, register_c, keyVars>>

\* pit_init opens the line first.  The chip then stops until the bytes of its
\* count are written; a tick that waited for the line is taken before that.
PitMode ==
  /\ BootStep("pit_mode", "pit_count")
  /\ Timer \notin requested
  /\ pit' = "waiting"
  /\ UNCHANGED <<interrupts, picVars, cpuVars, clkVars, keyVars>>

PitCount ==
  /\ BootStep("pit_count", "sti")
  /\ pit' = "on"
  /\ UNCHANGED <<interrupts, picVars, cpuVars, clkVars, keyVars>>

\* The first rtc_open sets the rate and ends with sti, so that pit_init runs with
\* interrupts on.
entry ==
  \/ i8259_init
  \/ Enable("enable_keyboard", "clear", Keyboard)
  \/ EnablePeriodic
  \/ SwitchOn("rtc_open", "enable_clock")
  \/ Enable("enable_clock", "pit_init", Clock)
  \/ Enable("pit_init", "pit_mode", Timer)
  \/ PitMode
  \/ PitCount
  \/ SwitchOn("sti", "hlt")

-----------------------------------------------------------------------------
(* The timer's handler *)

LeaveAs(frame) == Append(Below, frame)

NoEoiYet == UNCHANGED serving                               \* mutant
\* The interrupt is ended before anything else: the first ticks start a shell
\* from inside the handler and never come back.
PitEoi == send_eoi(Timer)

\* The code that the first tick interrupts is never resumed.
PitStartsShell ==
  /\ Top = "pit" /\ total_terminal < NT
  /\ PitEoi
  /\ total_terminal' = total_terminal + 1
  /\ running' = total_terminal + 1
  /\ stack' = [stack EXCEPT
       ![running] = LeaveAs(IF running = 0 THEN "abandoned" ELSE "pit_return"),
       ![total_terminal + 1] = <<"execute">>]
  /\ UNCHANGED <<at, interrupts, masked, requested, pit, clkVars, keyVars>>

CountEveryTick == total_terminal + 1                        \* mutant
AllStarted == NT + 1

\* The tick after the last shell returns, the later ones go on in the context of
\* the next terminal.
PitSwitches ==
  /\ Top = "pit" /\ total_terminal >= NT
  /\ PitEoi
  /\ total_terminal' = AllStarted
  /\ running' = IF total_terminal = NT THEN running ELSE (running % NT) + 1
  /\ stack' = [stack EXCEPT ![running] = LeaveAs("pit_return")]
  /\ UNCHANGED <<at, interrupts, masked, requested, pit, clkVars, keyVars>>

\* sti holds interrupts off for one more instruction, the iret; and execute turns
\* interrupts on before it enters the shell (sys_calls.c:196).
LeavePit ==
  /\ Top \in {"pit_return", "execute"}
  /\ stack' = [stack EXCEPT ![running] = Below]
  /\ interrupts' = TRUE
  /\ UNCHANGED <<at, picVars, running, total_terminal, pit, clkVars, keyVars>>

-----------------------------------------------------------------------------
(* The clock's handler *)

\* rtc_interrupt turns interrupts on again; its entry code pops the registers
\* and returns with interrupts on.
rtc_interrupt ==
  /\ Top = "rtc"
  /\ register_c' = FALSE
  /\ send_eoi(Clock)
  /\ interrupts' = TRUE
  /\ stack' = [stack EXCEPT ![running] = LeaveAs("rtc_return")]
  /\ UNCHANGED <<at, masked, requested, running, total_terminal, pit,
                 register_b, keyVars>>

RtcReturns ==
  /\ Top = "rtc_return"
  /\ stack' = [stack EXCEPT ![running] = Below]
  /\ UNCHANGED <<at, interrupts, picVars, running, total_terminal, pit,
                 clkVars, keyVars>>

-----------------------------------------------------------------------------
(* The keyboard's handler *)

Shifts     == {42, 54}        \* SHIFT_PRESSED1, SHIFT_PRESSED2
ALT        == 56
CAPS       == 58
CTRL       == 29
L          == 38
FnKeys     == 59 .. 61        \* _F1, _F2, _F3
SPACE      == 57
BACKSPACE  == 14
ENTER      == 28
Released(k) == k + 128
Modifiers  == Shifts \cup {ALT, CTRL}

\* Q to P, A to L and Z to M; the places of char_list that hold '\0'.
Letters  == 16 .. 25 \cup 30 .. 38 \cup 44 .. 50
NoChar   == {1, 14, 15, 28, 29, 42}
CharKeys == 1 .. 53 \ NoChar

OneShiftEnds(f, k) ==                                       \* mutant
  k \in Shifts \/ (f.shift_key /\ k # Released(54))
ShiftAfter(f, k) ==
  k \in Shifts \/ (f.shift_key /\ k \notin {Released(s) : s \in Shifts})

\* What the two chains of tests make of the flags.
FlagsAfter(f, k) ==
  [shift_key |-> ShiftAfter(f, k),
   alt_key   |-> k = ALT \/ (f.alt_key /\ k # Released(ALT)),
   ctrl_key  |-> k = CTRL \/ (f.ctrl_key /\ k # Released(CTRL)),
   cap_flag  |-> f.cap_flag # (k = CAPS)]

\* The table a character is taken from.
Upper(f, k) ==
  IF k \in Letters THEN f.cap_flag # f.shift_key
                   ELSE f.shift_key /\ ~f.cap_flag

\* What keyboard_handler does with a scan code once the flags are set; what the
\* effects do to the line and the display is in Terminal and Screen.
Nothing == <<"nothing">>
Effect(f, k) ==
  CASE k = L /\ f.ctrl_key               -> <<"clear">>
    [] k \in FnKeys /\ f.alt_key         -> <<"switch", k>>
    [] k \in {SPACE, BACKSPACE, ENTER}   -> <<"edit", k>>
    [] k \in CharKeys /\ ~(k = L /\ f.ctrl_key) -> <<"type", k, Upper(f, k)>>
    [] OTHER                             -> Nothing

\* inb: the port gives the byte away, and the keyboard may put the next there.
ReadPort ==
  /\ Top = "keyboard"
  /\ c' = port60
  /\ port60' = <<>>
  /\ stack' = [stack EXCEPT ![running] = LeaveAs("decode")]
  /\ UNCHANGED <<at, interrupts, picVars, running, total_terminal, pit,
                 clkVars, kb, flags, held, caps, due>>

\* The rest of the handler, its entry code and the iret.
keyboard_handler ==
  /\ Top = "decode"
  /\ send_eoi(Keyboard)
  /\ c' = <<>>
  /\ c # <<>>
  /\ flags' = FlagsAfter(flags, c[1])
  /\ due' = IF Effect(flags', c[1]) = Nothing \/ due = <<>>
              THEN due ELSE Tail(due)
  /\ stack' = [stack EXCEPT ![running] = Below]
  /\ interrupts' = TRUE
  /\ UNCHANGED <<at, masked, requested, running, total_terminal, pit, clkVars,
                 kb, port60, held, caps>>

-----------------------------------------------------------------------------
(* A system call that runs between cli and sti, or cli and its iret *)

InProgram == running > 0 /\ Inside = <<>>

Cli ==
  /\ InProgram /\ interrupts
  /\ interrupts' = FALSE
  /\ UNCHANGED <<at, picVars, cpuVars, pit, clkVars, keyVars>>

Sti ==
  /\ InProgram /\ ~interrupts
  /\ interrupts' = TRUE
  /\ UNCHANGED <<at, picVars, cpuVars, pit, clkVars, keyVars>>

-----------------------------------------------------------------------------
(* The devices *)

Raise(irq) == requested' = requested \cup {irq}

\* A period of the timer (50 ms; 55 ms as the BIOS left it) is longer than its
\* handler, and long enough to take what waited at the open lines.
PitEdge ==
  /\ pit # "waiting"
  /\ Top \notin {"pit", "execute", "pit_return"}
  /\ requested \subseteq masked \ {Timer}
  /\ Raise(Timer)
  /\ UNCHANGED <<at, interrupts, masked, serving, cpuVars, pit, clkVars, keyVars>>

\* The clock raises its line again only after register C was read; its period
\* (1 ms) is longer than its handler.
ClockEdge ==
  /\ register_b
  /\ ~register_c
  /\ Top \notin {"rtc", "rtc_return"}
  /\ register_c' = TRUE
  /\ Raise(Clock)
  /\ UNCHANGED <<at, interrupts, masked, serving, cpuVars, pit, register_b,
                 keyVars>>

\* The keyboard puts its next byte at the port and raises its line.
KeyEdge ==
  /\ kb # <<>>
  /\ port60 = <<>>
  /\ port60' = <<Head(kb)>>
  /\ kb' = Tail(kb)
  /\ Raise(Keyboard)
  /\ UNCHANGED <<at, interrupts, masked, serving, cpuVars, pit, clkVars, c,
                 flags, held, caps, due>>

\* What a key means, by the keys that are down (h) and the light (on).
Wanted(h, on, k) ==
  CASE k \in CharKeys /\ ~(k = L /\ CTRL \in h) ->
         <<"type", k, (h \cap Shifts # {}) # (on /\ k \in Letters)>>
    [] k = L /\ CTRL \in h             -> <<"clear">>
    [] k \in FnKeys /\ ALT \in h       -> <<"switch", k>>
    [] k \in {SPACE, BACKSPACE, ENTER} -> <<"edit", k>>
    [] OTHER                           -> Nothing

\* One shift key at a time, and none together with Caps Lock for a key that is
\* not a letter, for which the code takes the lower character.
Careful(h, on, k) ==
  /\ k \in Shifts => h \cap Shifts = {}
  /\ on /\ k \notin Letters => h \cap Shifts = {}

\* Keys come in bursts of at most KbMax bytes, and a burst takes longer than the
\* handler.  None comes before i8259_init, which would forget its edge.
KeyboardReady ==
  /\ at # "i8259_init"
  /\ Len(kb) < KbMax
  /\ Keyboard \notin requested \cup serving

Press(k) ==
  /\ KeyboardReady
  /\ Careful(held, caps, k)
  /\ kb' = Append(kb, k)
  /\ LET effect == Wanted(held, caps, k) IN
       due' = IF effect = Nothing THEN due ELSE Append(due, effect)
  /\ held' = held \cup ({k} \cap Modifiers)
  /\ caps' = IF k = CAPS THEN ~caps ELSE caps
  /\ UNCHANGED <<at, interrupts, picVars, cpuVars, pit, clkVars, port60, c,
                 flags>>

\* Other keys are released without any effect.
Release(k) ==
  /\ KeyboardReady
  /\ k \in held
  /\ kb' = Append(kb, Released(k))
  /\ held' = held \ {k}
  /\ UNCHANGED <<at, interrupts, picVars, cpuVars, pit, clkVars, port60, c,
                 flags, caps, due>>

-----------------------------------------------------------------------------
Init ==
  /\ at = "i8259_init"
  /\ interrupts = FALSE
  /\ masked = {}
  /\ requested \in SUBSET {Timer}
  /\ serving = {}
  /\ running = 0
  /\ stack = [t \in 0 .. NT |-> <<>>]
  /\ total_terminal = 0
  /\ pit = "bios"
  /\ register_b = FALSE
  /\ register_c = FALSE
  /\ kb = <<>> /\ port60 = <<>> /\ c = <<>>
  /\ flags = [shift_key |-> FALSE, alt_key |-> FALSE, ctrl_key |-> FALSE,
              cap_flag |-> FALSE]
  /\ held = {} /\ caps = FALSE
  /\ due = <<>>

Handlers ==
  \/ PitStartsShell \/ PitSwitches \/ LeavePit
  \/ rtc_interrupt \/ RtcReturns
  \/ ReadPort \/ keyboard_handler

Next ==
  \/ \E i \in Lines : Accept(i)
  \/ entry
  \/ Handlers
  \/ Cli \/ Sti
  \/ PitEdge \/ ClockEdge \/ KeyEdge
  \/ \E k \in Keys : Press(k) \/ Release(k)

Spec == Init /\ [][Next]_vars

\* The crystals do not stop, the keyboard gives its bytes, the CPU does not
\* stop, a section under cli ends; and the devices are slow enough to leave time
\* for each other's handlers and for the code that they interrupt.
FairSpec ==
  /\ Spec
  /\ SF_vars(entry) /\ WF_vars(Handlers) /\ WF_vars(Sti)
  /\ \A n \in 1 .. MaxNest : SF_vars(Len(Inside) = n /\ RtcReturns)
  /\ SF_vars(PitEdge) /\ WF_vars(ClockEdge) /\ WF_vars(KeyEdge)
  /\ \A i \in {Timer, Keyboard, Clock} : SF_vars(Accept(i))

-----------------------------------------------------------------------------
(* Properties *)

Frames == {"pit", "pit_return", "execute", "abandoned", "rtc", "rtc_return",
           "keyboard", "decode", "stopped"}
Flags == [shift_key : BOOLEAN, alt_key : BOOLEAN, ctrl_key : BOOLEAN,
          cap_flag : BOOLEAN]
Bytes == 0 .. 255

\* Every variable keeps its range, and no line but those of the three devices
\* and the cascade is ever raised or served.
TypeOK ==
  /\ at \in {"i8259_init", "enable_keyboard", "clear", "rtc_open",
             "enable_clock", "pit_init", "pit_mode", "pit_count", "sti", "hlt"}
  /\ interrupts \in BOOLEAN
  /\ masked \subseteq Lines
  /\ requested \subseteq {Timer, Keyboard, Clock}
  /\ serving \subseteq {Timer, Keyboard, Cascade, Clock}
  /\ running \in 0 .. NT
  /\ stack \in [0 .. NT -> Seq(Frames)]
  /\ total_terminal \in 0 .. NT + 1
  /\ pit \in {"bios", "waiting", "on"}
  /\ register_b \in BOOLEAN /\ register_c \in BOOLEAN
  /\ kb \in Seq(Bytes) /\ port60 \in Seq(Bytes) /\ c \in Seq(Bytes)
  /\ flags \in Flags
  /\ held \subseteq Modifiers /\ caps \in BOOLEAN

\* Whenever interrupts are on, no line is still in service at either
\* controller: however the handlers are nested, left by execute or switched
\* away from, none keeps a line blocked.
NothingLeftInService == interrupts => serving = {}

\* The body of a handler is never interrupted or switched away from, and every
\* context but the running one stands where the timer's handler left it: what
\* makes a handler one step for everybody else.
Bodies == {"pit", "execute", "rtc", "keyboard", "decode"}
HandlersRunAlone ==
  \A t \in 0 .. NT :
    LET s == stack[t] IN
      /\ \A n \in 1 .. Len(s) :
           s[n] \in Bodies => t = running /\ n = Len(s) /\ ~interrupts
      /\ 0 < t /\ t <= total_terminal /\ t # running
           => s # <<>> /\ s[Len(s)] = "pit_return"

\* The bytes on their way to the handler.
InTransit == c \o port60 \o kb

\* Handling the bytes on their way, from the flags as they are, does exactly
\* what the keys pressed were meant to do: no byte is lost, doubled or handled
\* out of turn, and the flags fit the byte and not the moment.
Replay(bytes) ==
  LET after[n \in 0 .. Len(bytes)] ==
        IF n = 0 THEN flags ELSE FlagsAfter(after[n-1], bytes[n])
      effects[n \in 0 .. Len(bytes)] ==
        IF n = 0 THEN <<>>
        ELSE IF Effect(after[n], bytes[n]) = Nothing THEN effects[n-1]
        ELSE Append(effects[n-1], Effect(after[n], bytes[n]))
  IN  effects[Len(bytes)]
KeysDoWhatWasMeant == Replay(InTransit) = due

\* The timer and the clock go on for ever, whichever of them came first while
\* the system was set up, and a key waits only until its handler has a turn.
NoLineStarves ==
  /\ []<>(Timer \in serving)
  /\ []<>(Clock \in serving)
  /\ Keyboard \in requested \ masked ~> Keyboard \in serving

=============================================================================
