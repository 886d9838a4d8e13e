---------------------------- MODULE DoubleBuffer ----------------------------
(***************************************************************************)
(* 29doublebuff/03double_buff_interrupt: an application (fbapp.c) draws    *)
(* into the buffer that is not displayed and swaps the two with an ioctl;  *)
(* the frame buffer driver (test.c) changes the controller's addresses,    *)
(* outside of the time when pixels are transferred: in that time it waits  *)
(* for the interrupt at the end of the frame.                              *)
(*                                                                         *)
(* Three parties run at once: the application inside or outside of the     *)
(* driver, the interrupt handler, on another core perhaps, and the LCD     *)
(* controller, which reads the addresses when a transfer begins.  No time  *)
(* is modelled: a process may be late by a frame.  The framework lets one  *)
(* process at a time into the driver.                                      *)
(***************************************************************************)
EXTENDS Naturals

CONSTANT MaxSignals  \* signals the application gets while it sleeps

ASSUME MaxSignalsAssumption == MaxSignals \in Nat

Buffers == {0, 1}
Phases  == <<"vsync", "back", "active", "front">>  \* VIDCON1[14:13]

VARIABLES
  phase,    \* what the controller does, an index of Phases
  shown,    \* first and last address of the frame it displays, as buffers
  add0, add1,  \* VIDW00ADD0B0 and VIDW00ADD1B0
  irqOn,    \* VIDINTCON0[12]: the frame interrupt is enabled
  pending,  \* VIDINTCON1[1]: it happened
  wait_condition,
  pc,       \* the application, in doublebuff_test and in ldm_pandisplay
  hpc,      \* pandisplay_handler
  front,    \* the application's front_buff
  signals,
  mishaps   \* history of this call of ldm_pandisplay

lcdVars == <<phase, shown>>
regVars == <<add0, add1, irqOn, pending>>
vars == <<lcdVars, regVars, wait_condition, pc, hpc, front, signals, mishaps>>

Back == 1 - front
Transferring == Phases[phase] = "active"

Init == /\ phase = 1
        /\ shown = <<0, 0>>
        /\ add0 = 0 /\ add1 = 0
        /\ irqOn = FALSE /\ pending = FALSE
        /\ wait_condition = FALSE
        /\ pc = "draw" /\ hpc = "idle"
        /\ front = 0
        /\ signals = 0
        /\ mishaps = {}

Goes(from, to) == pc = from /\ pc' = to
HandlerGoes(from, to) == hpc = from /\ hpc' = to

-----------------------------------------------------------------------------
(* The application *)

\* The new frame is drawn in the back buffer; swap, and call the driver.
AppSwap == /\ Goes("draw", "check")
           /\ front' = Back
           /\ UNCHANGED <<lcdVars, regVars, wait_condition, hpc, signals, mishaps>>

\* What the new back buffer shows of an older frame is cleared.
AppClear == /\ Goes("clear", "draw")
            /\ UNCHANGED <<lcdVars, regVars, wait_condition, hpc, front, signals, mishaps>>

-----------------------------------------------------------------------------
(* ldm_pandisplay *)

\* Mutant of PanCheck: it waits outside of the transfer, not during it.
PanCheckNot == /\ Goes("check", IF Transferring THEN "addr0" ELSE "enable")
               /\ mishaps' = IF irqOn THEN mishaps \intersect {"signal"} ELSE {}
               /\ UNCHANGED <<lcdVars, regVars, wait_condition, hpc, front, signals>>

PanCheck == /\ Goes("check", IF Transferring THEN "enable" ELSE "addr0")
            /\ mishaps' = IF irqOn THEN mishaps \intersect {"signal"} ELSE {}
            /\ UNCHANGED <<lcdVars, regVars, wait_condition, hpc, front, signals>>

\* The handler of an earlier frame may still be running.
PanEnable == /\ Goes("enable", "reset")
             /\ irqOn' = TRUE
             /\ mishaps' = IF hpc # "idle" THEN mishaps \union {"raced"} ELSE mishaps
             /\ UNCHANGED <<lcdVars, add0, add1, pending, wait_condition, hpc, front, signals>>

PanReset == /\ Goes("reset", "test")
            /\ wait_condition' = FALSE
            /\ UNCHANGED <<lcdVars, regVars, hpc, front, signals, mishaps>>

\* wait_event_interruptible: a test, and sleep, with no wakeup lost in between.
WaitTest == /\ Goes("test", IF wait_condition THEN "addr0" ELSE "asleep")
            /\ UNCHANGED <<lcdVars, regVars, wait_condition, hpc, front, signals, mishaps>>

\* It returns -ERESTARTSYS, which nobody looks at.
WaitSignalled == /\ Goes("asleep", "addr0")
                 /\ signals < MaxSignals
                 /\ signals' = signals + 1
                 /\ mishaps' = mishaps \union {"signal"}
                 /\ UNCHANGED <<lcdVars, regVars, wait_condition, hpc, front>>

PanStart == /\ Goes("addr0", "addr1")
            /\ add0' = front
            /\ UNCHANGED <<lcdVars, add1, irqOn, pending, wait_condition, hpc, front, signals, mishaps>>

PanEnd == /\ Goes("addr1", "clear")
          /\ add1' = front
          /\ UNCHANGED <<lcdVars, add0, irqOn, pending, wait_condition, hpc, front, signals, mishaps>>

-----------------------------------------------------------------------------
(* pandisplay_handler *)

HandlerStart == /\ HandlerGoes("idle", "set")
                /\ irqOn /\ pending
                /\ UNCHANGED <<lcdVars, regVars, wait_condition, pc, front, signals, mishaps>>

\* Between the enabling and the reset the application undoes what is set here.
HandlerSet == /\ HandlerGoes("set", "wake")
              /\ wait_condition' = TRUE
              /\ mishaps' = IF pc = "reset" THEN mishaps \union {"raced"} ELSE mishaps
              /\ UNCHANGED <<lcdVars, regVars, pc, front, signals>>

\* Mutant of HandlerWake: the condition is set and nobody woken.
HandlerNoWake == /\ HandlerGoes("wake", "disable")
                 /\ UNCHANGED <<lcdVars, regVars, wait_condition, pc, front, signals, mishaps>>

HandlerWake == /\ HandlerGoes("wake", "disable")
               /\ pc' = IF pc = "asleep" THEN "test" ELSE pc
               /\ UNCHANGED <<lcdVars, regVars, wait_condition, front, signals, mishaps>>

\* Mutant of HandlerDisable: the interrupt stays enabled.
HandlerKeep == /\ HandlerGoes("disable", "clear")
               /\ UNCHANGED <<lcdVars, regVars, wait_condition, pc, front, signals, mishaps>>

HandlerDisable == /\ HandlerGoes("disable", "clear")
                  /\ irqOn' = FALSE
                  /\ UNCHANGED <<lcdVars, add0, add1, pending, wait_condition, pc, front, signals, mishaps>>

HandlerClear == /\ HandlerGoes("clear", "idle")
                /\ pending' = FALSE
                /\ UNCHANGED <<lcdVars, add0, add1, irqOn, wait_condition, pc, front, signals, mishaps>>

-----------------------------------------------------------------------------
(* The LCD controller *)

\* The application saw that it may write, or the frame it waits for has ended,
\* and the addresses are not written yet.
Writing == \/ pc \in {"addr0", "addr1"}
           \/ pc \in {"reset", "test", "asleep"} /\ pending
           \/ pc \in {"test", "asleep"} /\ wait_condition

BeginTransfer == /\ Phases[phase] = "back"
                 /\ phase' = phase + 1
                 /\ shown' = <<add0, add1>>
                 /\ mishaps' = IF Writing THEN mishaps \union {"late"} ELSE mishaps
                 /\ UNCHANGED <<regVars, wait_condition, pc, hpc, front, signals>>

\* The front porch begins: the place where the interrupt is set up to come.
EndTransfer == /\ Transferring
               /\ phase' = phase + 1
               /\ pending' = (pending \/ irqOn)
               /\ UNCHANGED <<shown, add0, add1, irqOn, wait_condition, pc, hpc, front, signals, mishaps>>

NextPorch == /\ Phases[phase] \in {"vsync", "front"}
             /\ phase' = IF Phases[phase] = "front" THEN 1 ELSE phase + 1
             /\ UNCHANGED <<shown, regVars, wait_condition, pc, hpc, front, signals, mishaps>>

AppStep == AppSwap \/ AppClear
PanStep == PanCheck \/ PanEnable \/ PanReset \/ WaitTest \/ PanStart \/ PanEnd
HandlerStep == HandlerStart \/ HandlerSet \/ HandlerWake \/ HandlerDisable \/ HandlerClear
LcdStep == BeginTransfer \/ EndTransfer \/ NextPorch

Next == AppStep \/ PanStep \/ WaitSignalled \/ HandlerStep \/ LcdStep

Spec == Init /\ [][Next]_vars

(* The application, the handler and the controller all run; a signal is     *)
(* never owed.                                                              *)
FairSpec == /\ Spec
            /\ WF_vars(AppStep \/ PanStep)
            /\ WF_vars(HandlerStep)
            /\ WF_vars(LcdStep)

-----------------------------------------------------------------------------
(* Properties *)

TypeOK ==
  /\ phase \in 1..4
  /\ shown \in Buffers \X Buffers
  /\ add0 \in Buffers /\ add1 \in Buffers
  /\ irqOn \in BOOLEAN /\ pending \in BOOLEAN
  /\ wait_condition \in BOOLEAN
  /\ pc \in {"draw", "check", "enable", "reset", "test", "asleep", "addr0", "addr1", "clear"}
  /\ hpc \in {"idle", "set", "wake", "disable", "clear"}
  /\ front \in Buffers
  /\ signals \in 0..MaxSignals
  /\ mishaps \subseteq {"late", "raced", "signal"}

(* While the application draws, what the controller transfers is the other  *)
(* buffer, from its first to its last line: the flicker that fbapp.c:161    *)
(* removes.  There are three exceptions: the next transfer began before     *)
(* the addresses were written, a signal ended the wait, or the application  *)
(* met the handler of an earlier frame.                                     *)
FlickerFree ==
  pc \in {"draw", "clear"} /\ Transferring /\ mishaps = {} => shown = <<front, front>>

(* The interrupt is enabled only while somebody waits for it or is being    *)
(* woken: no frame ends in an interrupt nobody asked for, but one that is   *)
(* left over from a wait that a signal ended.                               *)
IrqOnlyWhileNeeded ==
  irqOn => \/ pc \in {"reset", "test", "asleep"}
           \/ hpc \in {"set", "wake", "disable"}
           \/ "signal" \in mishaps

(* The ioctl comes back, although the condition is reset after the          *)
(* interrupt was enabled, unless a handler ran in between or was still      *)
(* running: then its wakeup is lost.                                        *)
PanReturns == pc = "check" ~> (pc = "clear" \/ "raced" \in mishaps)
=============================================================================
