-------------------------- MODULE DoubleBufferProofs --------------------------
(***************************************************************************)
(* Proofs about DoubleBuffer, for any number of signals, and any order in  *)
(* which application, interrupt handler and controller run.                *)
(*                                                                         *)
(* Addresses says which buffer each register holds where the application   *)
(* is.  Wakeups is what the driver relies on without saying so: the        *)
(* condition is true in the wait, or the interrupt pending, only when a    *)
(* frame has ended since the check, so that nothing is transferred; it is  *)
(* false for a call that met a mishap, which is why the three are named.   *)
(***************************************************************************)
EXTENDS DoubleBuffer, TLAPS

Waiting == {"test", "asleep"}

(* Both registers hold the front buffer, except in the exchange.             *)
Addresses ==
  /\ pc \in {"draw", "clear"} => add0 = front /\ add1 = front
  /\ pc = "addr1" => add0 = front

(* An interrupt that happened is enabled, or is being cleared; a wait whose  *)
(* condition is true still has its handler, or no interrupt any more.        *)
Interrupts ==
  /\ pending => irqOn \/ hpc = "clear"
  /\ pc \in Waiting /\ wait_condition /\ irqOn => hpc \in {"wake", "disable"}

(* Without a mishap, what lets the application write means that no frame is  *)
(* being transferred, and a handler that runs is that of this wait.          *)
Wakeups ==
  mishaps = {} =>
    /\ pc \in {"addr0", "addr1"} => ~Transferring
    /\ pc \in Waiting \cup {"reset"} /\ pending => ~Transferring
    /\ pc \in Waiting /\ wait_condition => ~Transferring
    /\ pc \in Waiting \cup {"reset"} /\ hpc = "set" => pending
    /\ pc \in Waiting /\ hpc \in {"wake", "disable", "clear"} => wait_condition
    /\ pc = "reset" => hpc \in {"idle", "set"}

Inv == TypeOK /\ Addresses /\ Interrupts /\ IrqOnlyWhileNeeded /\ Wakeups /\ FlickerFree

(* The phases by number.                                                     *)

-----------------------------------------------------------------------------
(* The phases by number.                                                     *)
LEMMA PhaseNumbers ==
  ASSUME NEW p \in 1..4
  PROVE  /\ Phases[p] = "active" <=> p = 3
         /\ Phases[p] = "back" <=> p = 2
         /\ Phases[p] = "front" <=> p = 4
         /\ Phases[p] = "vsync" <=> p = 1
BY DEF Phases

(* The buffers change their roles.                                           *)
LEMMA AppSwapStep == ASSUME Inv, AppSwap PROVE Inv'
<1> USE DEF AppSwap, Goes, HandlerGoes, lcdVars, regVars
<1>1. TypeOK'
  BY DEF Inv, TypeOK, Buffers, Back
<1>2. Addresses'
  BY DEF Inv, TypeOK, Addresses, Back, Buffers
<1>3. Interrupts'
  BY DEF Inv, TypeOK, Interrupts, IrqOnlyWhileNeeded, Waiting
<1>4. IrqOnlyWhileNeeded'
  BY DEF Inv, TypeOK, Interrupts, IrqOnlyWhileNeeded, Waiting
<1>5. Wakeups'
  BY <1>1, PhaseNumbers DEF Inv, TypeOK, Interrupts, IrqOnlyWhileNeeded, Wakeups, Waiting, Transferring, Writing
<1>6. FlickerFree'
  BY <1>1, PhaseNumbers DEF Inv, TypeOK, Addresses, Wakeups, FlickerFree, Transferring, Writing
<1> QED BY <1>1, <1>2, <1>3, <1>4, <1>5, <1>6 DEF Inv

(* The old frame is cleared.                                                 *)
LEMMA AppClearStep == ASSUME Inv, AppClear PROVE Inv'
<1> USE DEF AppClear, Goes, HandlerGoes, lcdVars, regVars
<1>1. TypeOK'
  BY DEF Inv, TypeOK, Buffers, Back
<1>2. Addresses'
  BY DEF Inv, TypeOK, Addresses, Back, Buffers
<1>3. Interrupts'
  BY DEF Inv, TypeOK, Interrupts, IrqOnlyWhileNeeded, Waiting
<1>4. IrqOnlyWhileNeeded'
  BY DEF Inv, TypeOK, Interrupts, IrqOnlyWhileNeeded, Waiting
<1>5. Wakeups'
  BY <1>1, PhaseNumbers DEF Inv, TypeOK, Interrupts, IrqOnlyWhileNeeded, Wakeups, Waiting, Transferring, Writing
<1>6. FlickerFree'
  BY <1>1, PhaseNumbers DEF Inv, TypeOK, Addresses, Wakeups, FlickerFree, Transferring, Writing
<1> QED BY <1>1, <1>2, <1>3, <1>4, <1>5, <1>6 DEF Inv

(* The check: nothing is transferred, or the driver is going to wait.        *)
LEMMA PanCheckStep == ASSUME Inv, PanCheck PROVE Inv'
<1> USE DEF PanCheck, Goes, HandlerGoes, lcdVars, regVars
<1>1. TypeOK'
  BY DEF Inv, TypeOK, Buffers, Back
<1>2. Addresses'
  BY DEF Inv, TypeOK, Addresses, Back, Buffers
<1>3. Interrupts'
  BY DEF Inv, TypeOK, Interrupts, IrqOnlyWhileNeeded, Waiting
<1>4. IrqOnlyWhileNeeded'
  BY DEF Inv, TypeOK, Interrupts, IrqOnlyWhileNeeded, Waiting
<1>5. Wakeups'
  BY <1>1, PhaseNumbers DEF Inv, TypeOK, Interrupts, IrqOnlyWhileNeeded, Wakeups, Waiting, Transferring, Writing
<1>6. FlickerFree'
  BY <1>1, PhaseNumbers DEF Inv, TypeOK, Addresses, Wakeups, FlickerFree, Transferring, Writing
<1> QED BY <1>1, <1>2, <1>3, <1>4, <1>5, <1>6 DEF Inv

(* Nothing is pending when the interrupt is enabled, but what an earlier call left. *)
LEMMA PanEnableStep == ASSUME Inv, PanEnable PROVE Inv'
<1> USE DEF PanEnable, Goes, HandlerGoes, lcdVars, regVars
<1>1. TypeOK'
  BY DEF Inv, TypeOK, Buffers, Back
<1>2. Addresses'
  BY DEF Inv, TypeOK, Addresses, Back, Buffers
<1>3. Interrupts'
  BY DEF Inv, TypeOK, Interrupts, IrqOnlyWhileNeeded, Waiting
<1>4. IrqOnlyWhileNeeded'
  BY DEF Inv, TypeOK, Interrupts, IrqOnlyWhileNeeded, Waiting
<1>5. Wakeups'
  BY <1>1, PhaseNumbers DEF Inv, TypeOK, Interrupts, IrqOnlyWhileNeeded, Wakeups, Waiting, Transferring, Writing
<1>6. FlickerFree'
  BY <1>1, PhaseNumbers DEF Inv, TypeOK, Addresses, Wakeups, FlickerFree, Transferring, Writing
<1> QED BY <1>1, <1>2, <1>3, <1>4, <1>5, <1>6 DEF Inv

(* The condition is reset.                                                   *)
LEMMA PanResetStep == ASSUME Inv, PanReset PROVE Inv'
<1> USE DEF PanReset, Goes, HandlerGoes, lcdVars, regVars
<1>1. TypeOK'
  BY DEF Inv, TypeOK, Buffers, Back
<1>2. Addresses'
  BY DEF Inv, TypeOK, Addresses, Back, Buffers
<1>3. Interrupts'
  BY DEF Inv, TypeOK, Interrupts, IrqOnlyWhileNeeded, Waiting
<1>4. IrqOnlyWhileNeeded'
  BY DEF Inv, TypeOK, Interrupts, IrqOnlyWhileNeeded, Waiting
<1>5. Wakeups'
  BY <1>1, PhaseNumbers DEF Inv, TypeOK, Interrupts, IrqOnlyWhileNeeded, Wakeups, Waiting, Transferring, Writing
<1>6. FlickerFree'
  BY <1>1, PhaseNumbers DEF Inv, TypeOK, Addresses, Wakeups, FlickerFree, Transferring, Writing
<1> QED BY <1>1, <1>2, <1>3, <1>4, <1>5, <1>6 DEF Inv

(* The wait is over only if the condition is true.                           *)
LEMMA WaitTestStep == ASSUME Inv, WaitTest PROVE Inv'
<1> USE DEF WaitTest, Goes, HandlerGoes, lcdVars, regVars
<1>1. TypeOK'
  BY DEF Inv, TypeOK, Buffers, Back
<1>2. Addresses'
  BY DEF Inv, TypeOK, Addresses, Back, Buffers
<1>3. Interrupts'
  BY DEF Inv, TypeOK, Interrupts, IrqOnlyWhileNeeded, Waiting
<1>4. IrqOnlyWhileNeeded'
  BY DEF Inv, TypeOK, Interrupts, IrqOnlyWhileNeeded, Waiting
<1>5. Wakeups'
  BY <1>1, PhaseNumbers DEF Inv, TypeOK, Interrupts, IrqOnlyWhileNeeded, Wakeups, Waiting, Transferring, Writing
<1>6. FlickerFree'
  BY <1>1, PhaseNumbers DEF Inv, TypeOK, Addresses, Wakeups, FlickerFree, Transferring, Writing
<1> QED BY <1>1, <1>2, <1>3, <1>4, <1>5, <1>6 DEF Inv

(* A signal ends the wait, and is noted.                                     *)
LEMMA WaitSignalledStep == ASSUME Inv, WaitSignalled PROVE Inv'
<1> USE DEF WaitSignalled, Goes, HandlerGoes, lcdVars, regVars
<1>1. TypeOK'
  BY MaxSignalsAssumption DEF Inv, TypeOK, Buffers, Back
<1>2. Addresses'
  BY DEF Inv, TypeOK, Addresses, Back, Buffers
<1>3. Interrupts'
  BY DEF Inv, TypeOK, Interrupts, IrqOnlyWhileNeeded, Waiting
<1>4. IrqOnlyWhileNeeded'
  BY DEF Inv, TypeOK, Interrupts, IrqOnlyWhileNeeded, Waiting
<1>5. Wakeups'
  BY <1>1, PhaseNumbers DEF Inv, TypeOK, Interrupts, IrqOnlyWhileNeeded, Wakeups, Waiting, Transferring, Writing
<1>6. FlickerFree'
  BY <1>1, PhaseNumbers DEF Inv, TypeOK, Addresses, Wakeups, FlickerFree, Transferring, Writing
<1> QED BY <1>1, <1>2, <1>3, <1>4, <1>5, <1>6 DEF Inv

(* The registers are written outside of a transfer, or a mishap is noted.    *)
LEMMA PanStartStep == ASSUME Inv, PanStart PROVE Inv'
<1> USE DEF PanStart, Goes, HandlerGoes, lcdVars, regVars
<1>1. TypeOK'
  BY DEF Inv, TypeOK, Buffers, Back
<1>2. Addresses'
  BY DEF Inv, TypeOK, Addresses, Back, Buffers
<1>3. Interrupts'
  BY DEF Inv, TypeOK, Interrupts, IrqOnlyWhileNeeded, Waiting
<1>4. IrqOnlyWhileNeeded'
  BY DEF Inv, TypeOK, Interrupts, IrqOnlyWhileNeeded, Waiting
<1>5. Wakeups'
  BY <1>1, PhaseNumbers DEF Inv, TypeOK, Interrupts, IrqOnlyWhileNeeded, Wakeups, Waiting, Transferring, Writing
<1>6. FlickerFree'
  BY <1>1, PhaseNumbers DEF Inv, TypeOK, Addresses, Wakeups, FlickerFree, Transferring, Writing
<1> QED BY <1>1, <1>2, <1>3, <1>4, <1>5, <1>6 DEF Inv

(* The second register.                                                      *)
LEMMA PanEndStep == ASSUME Inv, PanEnd PROVE Inv'
<1> USE DEF PanEnd, Goes, HandlerGoes, lcdVars, regVars
<1>1. TypeOK'
  BY DEF Inv, TypeOK, Buffers, Back
<1>2. Addresses'
  BY DEF Inv, TypeOK, Addresses, Back, Buffers
<1>3. Interrupts'
  BY DEF Inv, TypeOK, Interrupts, IrqOnlyWhileNeeded, Waiting
<1>4. IrqOnlyWhileNeeded'
  BY DEF Inv, TypeOK, Interrupts, IrqOnlyWhileNeeded, Waiting
<1>5. Wakeups'
  BY <1>1, PhaseNumbers DEF Inv, TypeOK, Interrupts, IrqOnlyWhileNeeded, Wakeups, Waiting, Transferring, Writing
<1>6. FlickerFree'
  BY <1>1, PhaseNumbers DEF Inv, TypeOK, Addresses, Wakeups, FlickerFree, Transferring, Writing
<1> QED BY <1>1, <1>2, <1>3, <1>4, <1>5, <1>6 DEF Inv

(* The handler starts on an interrupt that is pending.                       *)
LEMMA HandlerStartStep == ASSUME Inv, HandlerStart PROVE Inv'
<1> USE DEF HandlerStart, Goes, HandlerGoes, lcdVars, regVars
<1>1. TypeOK'
  BY DEF Inv, TypeOK, Buffers, Back
<1>2. Addresses'
  BY DEF Inv, TypeOK, Addresses, Back, Buffers
<1>3. Interrupts'
  BY DEF Inv, TypeOK, Interrupts, IrqOnlyWhileNeeded, Waiting
<1>4. IrqOnlyWhileNeeded'
  BY DEF Inv, TypeOK, Interrupts, IrqOnlyWhileNeeded, Waiting
<1>5. Wakeups'
  BY <1>1, PhaseNumbers DEF Inv, TypeOK, Interrupts, IrqOnlyWhileNeeded, Wakeups, Waiting, Transferring, Writing
<1>6. FlickerFree'
  BY <1>1, PhaseNumbers DEF Inv, TypeOK, Addresses, Wakeups, FlickerFree, Transferring, Writing
<1> QED BY <1>1, <1>2, <1>3, <1>4, <1>5, <1>6 DEF Inv

(* Its condition is true while the frame's interrupt is pending.             *)
LEMMA HandlerSetStep == ASSUME Inv, HandlerSet PROVE Inv'
<1> USE DEF HandlerSet, Goes, HandlerGoes, lcdVars, regVars
<1>1. TypeOK'
  BY DEF Inv, TypeOK, Buffers, Back
<1>2. Addresses'
  BY DEF Inv, TypeOK, Addresses, Back, Buffers
<1>3. Interrupts'
  BY DEF Inv, TypeOK, Interrupts, IrqOnlyWhileNeeded, Waiting
<1>4. IrqOnlyWhileNeeded'
  BY DEF Inv, TypeOK, Interrupts, IrqOnlyWhileNeeded, Waiting
<1>5. Wakeups'
  BY <1>1, PhaseNumbers DEF Inv, TypeOK, Interrupts, IrqOnlyWhileNeeded, Wakeups, Waiting, Transferring, Writing
<1>6. FlickerFree'
  BY <1>1, PhaseNumbers DEF Inv, TypeOK, Addresses, Wakeups, FlickerFree, Transferring, Writing
<1> QED BY <1>1, <1>2, <1>3, <1>4, <1>5, <1>6 DEF Inv

(* The application that sleeps is woken.                                     *)
LEMMA HandlerWakeStep == ASSUME Inv, HandlerWake PROVE Inv'
<1> USE DEF HandlerWake, Goes, HandlerGoes, lcdVars, regVars
<1>1. TypeOK'
  BY DEF Inv, TypeOK, Buffers, Back
<1>2. Addresses'
  BY DEF Inv, TypeOK, Addresses, Back, Buffers
<1>3. Interrupts'
  BY DEF Inv, TypeOK, Interrupts, IrqOnlyWhileNeeded, Waiting
<1>4. IrqOnlyWhileNeeded'
  BY DEF Inv, TypeOK, Interrupts, IrqOnlyWhileNeeded, Waiting
<1>5. Wakeups'
  BY <1>1, PhaseNumbers DEF Inv, TypeOK, Interrupts, IrqOnlyWhileNeeded, Wakeups, Waiting, Transferring, Writing
<1>6. FlickerFree'
  BY <1>1, PhaseNumbers DEF Inv, TypeOK, Addresses, Wakeups, FlickerFree, Transferring, Writing
<1> QED BY <1>1, <1>2, <1>3, <1>4, <1>5, <1>6 DEF Inv

(* Nobody needs the interrupt now.                                           *)
LEMMA HandlerDisableStep == ASSUME Inv, HandlerDisable PROVE Inv'
<1> USE DEF HandlerDisable, Goes, HandlerGoes, lcdVars, regVars
<1>1. TypeOK'
  BY DEF Inv, TypeOK, Buffers, Back
<1>2. Addresses'
  BY DEF Inv, TypeOK, Addresses, Back, Buffers
<1>3. Interrupts'
  BY DEF Inv, TypeOK, Interrupts, IrqOnlyWhileNeeded, Waiting
<1>4. IrqOnlyWhileNeeded'
  BY DEF Inv, TypeOK, Interrupts, IrqOnlyWhileNeeded, Waiting
<1>5. Wakeups'
  BY <1>1, PhaseNumbers DEF Inv, TypeOK, Interrupts, IrqOnlyWhileNeeded, Wakeups, Waiting, Transferring, Writing
<1>6. FlickerFree'
  BY <1>1, PhaseNumbers DEF Inv, TypeOK, Addresses, Wakeups, FlickerFree, Transferring, Writing
<1> QED BY <1>1, <1>2, <1>3, <1>4, <1>5, <1>6 DEF Inv

(* It is no longer pending.                                                  *)
LEMMA HandlerClearStep == ASSUME Inv, HandlerClear PROVE Inv'
<1> USE DEF HandlerClear, Goes, HandlerGoes, lcdVars, regVars
<1>1. TypeOK'
  BY DEF Inv, TypeOK, Buffers, Back
<1>2. Addresses'
  BY DEF Inv, TypeOK, Addresses, Back, Buffers
<1>3. Interrupts'
  BY DEF Inv, TypeOK, Interrupts, IrqOnlyWhileNeeded, Waiting
<1>4. IrqOnlyWhileNeeded'
  BY DEF Inv, TypeOK, Interrupts, IrqOnlyWhileNeeded, Waiting
<1>5. Wakeups'
  BY <1>1, PhaseNumbers DEF Inv, TypeOK, Interrupts, IrqOnlyWhileNeeded, Wakeups, Waiting, Transferring, Writing
<1>6. FlickerFree'
  BY <1>1, PhaseNumbers DEF Inv, TypeOK, Addresses, Wakeups, FlickerFree, Transferring, Writing
<1> QED BY <1>1, <1>2, <1>3, <1>4, <1>5, <1>6 DEF Inv

(* A transfer that begins while the application may write is a mishap.       *)
LEMMA BeginTransferStep == ASSUME Inv, BeginTransfer PROVE Inv'
<1> USE DEF BeginTransfer, Goes, HandlerGoes, lcdVars, regVars
<1>1. TypeOK'
  BY PhaseNumbers DEF Inv, TypeOK, Buffers, Transferring
<1>2. Addresses'
  BY DEF Inv, TypeOK, Addresses, Back, Buffers
<1>3. Interrupts'
  BY DEF Inv, TypeOK, Interrupts, IrqOnlyWhileNeeded, Waiting
<1>4. IrqOnlyWhileNeeded'
  BY DEF Inv, TypeOK, Interrupts, IrqOnlyWhileNeeded, Waiting
<1>5. Wakeups'
  BY <1>1, PhaseNumbers DEF Inv, TypeOK, Interrupts, IrqOnlyWhileNeeded, Wakeups, Waiting, Transferring, Writing
<1>6. FlickerFree'
  BY <1>1, PhaseNumbers DEF Inv, TypeOK, Addresses, Wakeups, FlickerFree, Transferring, Writing
<1> QED BY <1>1, <1>2, <1>3, <1>4, <1>5, <1>6 DEF Inv

(* The frame's end is what the application waits for.                        *)
LEMMA EndTransferStep == ASSUME Inv, EndTransfer PROVE Inv'
<1> USE DEF EndTransfer, Goes, HandlerGoes, lcdVars, regVars
<1>1. TypeOK'
  BY PhaseNumbers DEF Inv, TypeOK, Buffers, Transferring
<1>2. Addresses'
  BY DEF Inv, TypeOK, Addresses, Back, Buffers
<1>3. Interrupts'
  BY DEF Inv, TypeOK, Interrupts, IrqOnlyWhileNeeded, Waiting
<1>4. IrqOnlyWhileNeeded'
  BY DEF Inv, TypeOK, Interrupts, IrqOnlyWhileNeeded, Waiting
<1>5. Wakeups'
  BY <1>1, PhaseNumbers DEF Inv, TypeOK, Interrupts, IrqOnlyWhileNeeded, Wakeups, Waiting, Transferring, Writing
<1>6. FlickerFree'
  BY <1>1, PhaseNumbers DEF Inv, TypeOK, Addresses, Wakeups, FlickerFree, Transferring, Writing
<1> QED BY <1>1, <1>2, <1>3, <1>4, <1>5, <1>6 DEF Inv

(* Between two transfers.                                                    *)
LEMMA NextPorchStep == ASSUME Inv, NextPorch PROVE Inv'
<1> USE DEF NextPorch, Goes, HandlerGoes, lcdVars, regVars
<1>1. TypeOK'
  BY PhaseNumbers DEF Inv, TypeOK, Buffers, Transferring
<1>2. Addresses'
  BY DEF Inv, TypeOK, Addresses, Back, Buffers
<1>3. Interrupts'
  BY DEF Inv, TypeOK, Interrupts, IrqOnlyWhileNeeded, Waiting
<1>4. IrqOnlyWhileNeeded'
  BY DEF Inv, TypeOK, Interrupts, IrqOnlyWhileNeeded, Waiting
<1>5. Wakeups'
  BY <1>1, PhaseNumbers DEF Inv, TypeOK, Interrupts, IrqOnlyWhileNeeded, Wakeups, Waiting, Transferring, Writing
<1>6. FlickerFree'
  BY <1>1, PhaseNumbers DEF Inv, TypeOK, Addresses, Wakeups, FlickerFree, Transferring, Writing
<1> QED BY <1>1, <1>2, <1>3, <1>4, <1>5, <1>6 DEF Inv

-----------------------------------------------------------------------------
(* Theorems.                                                                 *)

(* Initially the first buffer is shown and the interrupt disabled.           *)
LEMMA InitInv == Init => Inv
<1> SUFFICES ASSUME Init PROVE Inv
  OBVIOUS
<1>1. TypeOK
  <2>1. 0 \in 0..MaxSignals /\ 1 \in 1..4 /\ <<0, 0>> \in Buffers \X Buffers
    BY MaxSignalsAssumption DEF Buffers
  <2> QED BY <2>1 DEF Init, TypeOK, Buffers
<1>2. Addresses /\ Interrupts /\ IrqOnlyWhileNeeded /\ Wakeups
  BY DEF Init, Addresses, Interrupts, IrqOnlyWhileNeeded, Wakeups, Waiting
<1>3. FlickerFree
  BY PhaseNumbers DEF Init, FlickerFree, Transferring
<1> QED BY <1>1, <1>2, <1>3 DEF Inv

(* Every step keeps the invariant.                                           *)
LEMMA NextInv == Inv /\ [Next]_vars => Inv'
<1> SUFFICES ASSUME Inv, [Next]_vars PROVE Inv'
  OBVIOUS
<1>1. CASE UNCHANGED vars
  BY <1>1 DEF vars, lcdVars, regVars, Inv, TypeOK, Addresses, Interrupts, IrqOnlyWhileNeeded,
              Wakeups, FlickerFree, Transferring
<1>2. CASE AppStep \/ PanStep \/ WaitSignalled
  BY <1>2, AppSwapStep, AppClearStep, PanCheckStep, PanEnableStep, PanResetStep, WaitTestStep,
     WaitSignalledStep, PanStartStep, PanEndStep DEF AppStep, PanStep
<1>3. CASE HandlerStep \/ LcdStep
  BY <1>3, HandlerStartStep, HandlerSetStep, HandlerWakeStep, HandlerDisableStep,
     HandlerClearStep, BeginTransferStep, EndTransferStep, NextPorchStep DEF HandlerStep, LcdStep
<1> QED BY <1>1, <1>2, <1>3 DEF Next

(* For any number of signals and any order of the three parties: while the   *)
(* application draws into one buffer the controller shows the other, from    *)
(* its first to its last line, unless one of the three mishaps happened.     *)
THEOREM NoFlicker == Spec => []FlickerFree
<1>1. Inv => FlickerFree
  BY DEF Inv
<1> QED BY <1>1, InitInv, NextInv, PTL DEF Spec

(* ... and the frame interrupt is enabled only while somebody waits for it   *)
(* or is being woken, or after a wait that a signal ended.                   *)
THEOREM IrqIsDisabledAgain == Spec => []IrqOnlyWhileNeeded
<1>1. Inv => IrqOnlyWhileNeeded
  BY DEF Inv
<1> QED BY <1>1, InitInv, NextInv, PTL DEF Spec
=============================================================================
