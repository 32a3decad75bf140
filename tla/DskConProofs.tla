----------------------------- MODULE DskConProofs -----------------------------
(* What dskcon_processSector() keeps, for any drives, tracks, sectors and       *)
(* requests, any number of retries and faults and any delay of the motors.      *)
EXTENDS DskCon, TLAPS

-----------------------------------------------------------------------------
(* The shapes of the stack. *)

LEMMA Pushed ==
    /\ \A x, s : Push(x, s).top = x /\ Push(x, s).below = s
    /\ \A x : Retries(x).retries = x /\ Return(x).to = x /\ Flag(x).flag = x
BY DEF Push, Retries, Return, Flag

LEMMA CallShape ==
    /\ \A n \in 1..RetryCount : Push(Retries(n), Caller) \in CallStacks
    /\ \A s \in CallStacks : s.top.retries \in 1..RetryCount /\ s.below = Caller
<1>1. \A n \in 1..RetryCount : Push(Retries(n), Caller) \in CallStacks
  BY DEF CallStacks
<1>2. ASSUME NEW s \in CallStacks
      PROVE  s.top.retries \in 1..RetryCount /\ s.below = Caller
  <2>1. PICK n \in 1..RetryCount : s = Push(Retries(n), Caller)
    BY DEF CallStacks
  <2> QED BY <2>1, Pushed
<1> QED BY <1>1, <1>2

LEMMA CommandShape ==
    /\ \A s \in CallStacks : Push(Return("LD7A0"), s) \in CommandStacks
    /\ \A s \in CommandStacks : s.top = Return("LD7A0") /\ s.below \in CallStacks
<1>1. \A s \in CallStacks : Push(Return("LD7A0"), s) \in CommandStacks
  BY DEF CommandStacks
<1>2. ASSUME NEW s \in CommandStacks
      PROVE  s.top = Return("LD7A0") /\ s.below \in CallStacks
  <2>1. PICK t \in CallStacks : s = Push(Return("LD7A0"), t)
    BY DEF CommandStacks
  <2> QED BY <2>1, Pushed
<1> QED BY <1>1, <1>2

LEMMA RestoreShape ==
    /\ \A s \in CommandStacks : s \in RestoreStacks
    /\ \A s \in CallStacks : Push(Return("line 133"), s) \in RestoreStacks
    /\ \A s \in RestoreStacks :
           /\ s.top \in {Return("LD7A0"), Return("line 133")}
           /\ s.below \in CallStacks
<1>1. \A s \in CommandStacks : s \in RestoreStacks
  BY DEF RestoreStacks
<1>2. ASSUME NEW s \in CallStacks PROVE Push(Return("line 133"), s) \in RestoreStacks
  BY DEF RestoreStacks
<1>3. ASSUME NEW s \in RestoreStacks
      PROVE  /\ s.top \in {Return("LD7A0"), Return("line 133")}
             /\ s.below \in CallStacks
  <2>1. CASE s \in CommandStacks
    BY <2>1, CommandShape
  <2>2. CASE s \notin CommandStacks
    <3>1. PICK t \in CallStacks : s = Push(Return("line 133"), t)
      BY <2>2 DEF RestoreStacks
    <3> QED BY <3>1, Pushed
  <2> QED BY <2>1, <2>2
<1> QED BY <1>1, <1>2, <1>3

LEMMA FlagShape ==
    /\ \A s \in CommandStacks, f \in {Read, Write} : Push(Flag(f), s) \in FlagStacks
    /\ \A s \in FlagStacks :
           /\ s.top \in {Flag(Read), Flag(Write)}
           /\ s.below \in CommandStacks
<1>1. ASSUME NEW s \in CommandStacks, NEW f \in {Read, Write}
      PROVE  Push(Flag(f), s) \in FlagStacks
  BY DEF FlagStacks
<1>2. ASSUME NEW s \in FlagStacks
      PROVE  s.top \in {Flag(Read), Flag(Write)} /\ s.below \in CommandStacks
  <2>1. PICK f \in {Read, Write}, t \in CommandStacks : s = Push(Flag(f), t)
    BY DEF FlagStacks
  <2> QED BY <2>1, Pushed
<1> QED BY <1>1, <1>2

LEMMA WaitShape ==
    /\ \A s \in CallStacks : Push(Return("line 107"), s) \in WaitStacks
    /\ \A s \in RestoreStacks : Push(Return("line 149"), s) \in WaitStacks
    /\ \A s \in FlagStacks : Push(Return("line 202"), s) \in WaitStacks
    /\ \A s \in WaitStacks :
           \/ s.top = Return("line 107") /\ s.below \in CallStacks
           \/ s.top = Return("line 149") /\ s.below \in RestoreStacks
           \/ s.top = Return("line 202") /\ s.below \in FlagStacks
<1>1. ASSUME NEW s \in CallStacks PROVE Push(Return("line 107"), s) \in WaitStacks
  BY DEF WaitStacks
<1>2. ASSUME NEW s \in RestoreStacks PROVE Push(Return("line 149"), s) \in WaitStacks
  BY DEF WaitStacks
<1>3. ASSUME NEW s \in FlagStacks PROVE Push(Return("line 202"), s) \in WaitStacks
  BY DEF WaitStacks
<1>4. ASSUME NEW s \in WaitStacks
      PROVE  \/ s.top = Return("line 107") /\ s.below \in CallStacks
             \/ s.top = Return("line 149") /\ s.below \in RestoreStacks
             \/ s.top = Return("line 202") /\ s.below \in FlagStacks
  <2>1. CASE \E t \in CallStacks : s = Push(Return("line 107"), t)
    <3>1. PICK t \in CallStacks : s = Push(Return("line 107"), t)
      BY <2>1
    <3> QED BY <3>1, Pushed
  <2>2. CASE \E t \in RestoreStacks : s = Push(Return("line 149"), t)
    <3>1. PICK t \in RestoreStacks : s = Push(Return("line 149"), t)
      BY <2>2
    <3> QED BY <3>1, Pushed
  <2>3. CASE \E t \in FlagStacks : s = Push(Return("line 202"), t)
    <3>1. PICK t \in FlagStacks : s = Push(Return("line 202"), t)
      BY <2>3
    <3> QED BY <3>1, Pushed
  <2> QED BY <2>1, <2>2, <2>3 DEF WaitStacks
<1> QED BY <1>1, <1>2, <1>3, <1>4

-----------------------------------------------------------------------------
(* Where the processor is, what is on the stack there, and the NMI flag. *)

Control == pc \in Labels /\ StackDiscipline /\ (NMIFLG <=> pc \in Armed)

LEMMA OneLess == \A n \in 1..RetryCount : n # 1 => n - 1 \in 1..RetryCount
BY CountsAssumption

LEMMA CallControl ==
    ASSUME Control, pc \notin Armed, UNCHANGED NMIFLG, pc' \in OfCall, stack' \in CallStacks
    PROVE  Control'
BY DEF Control, StackDiscipline, OfCaller, OfCall, OfCommand, OfRestore, OfTransfer,
       OfWait, Labels, Armed

LEMMA RestoreControl ==
    ASSUME Control, pc \notin Armed, UNCHANGED NMIFLG, pc' \in OfRestore,
           stack' \in RestoreStacks
    PROVE  Control'
BY DEF Control, StackDiscipline, OfCaller, OfCall, OfCommand, OfRestore, OfTransfer,
       OfWait, Labels, Armed

LEMMA TransferControl ==
    ASSUME Control, pc \notin Armed, UNCHANGED NMIFLG, pc' \in OfTransfer,
           stack' \in FlagStacks
    PROVE  Control'
BY DEF Control, StackDiscipline, OfCaller, OfCall, OfCommand, OfRestore, OfTransfer,
       OfWait, Labels, Armed

LEMMA WaitControl ==
    ASSUME Control, pc \notin Armed, UNCHANGED NMIFLG, pc' \in OfWait,
           stack' \in WaitStacks
    PROVE  Control'
BY DEF Control, StackDiscipline, OfCaller, OfCall, OfCommand, OfRestore, OfTransfer,
       OfWait, Labels, Armed

\* A return from LD7D1.
LEMMA WaitReturn ==
    ASSUME Control, pc \notin Armed, UNCHANGED NMIFLG, Rts(stack), stack \in WaitStacks
    PROVE  Control'
<1>1. CASE stack.top = Return("line 107") /\ stack.below \in CallStacks
  <2>1. pc' = "line 107" /\ stack' \in CallStacks
    BY <1>1, Pushed DEF Rts
  <2>2. pc' \in OfCall
    BY <2>1 DEF OfCall
  <2> QED BY <2>1, <2>2, CallControl
<1>2. CASE stack.top = Return("line 149") /\ stack.below \in RestoreStacks
  <2>1. pc' \in OfRestore /\ stack' \in RestoreStacks
    BY <1>2, Pushed DEF Rts, OfRestore
  <2> QED BY <2>1, RestoreControl
<1>3. CASE stack.top = Return("line 202") /\ stack.below \in FlagStacks
  <2>1. pc' \in OfTransfer /\ stack' \in FlagStacks
    BY <1>3, Pushed DEF Rts, OfTransfer
  <2> QED BY <2>1, TransferControl
<1> QED BY <1>1, <1>2, <1>3, WaitShape

\* A return to LD7A0 or, from LD7B8, to line 133.
LEMMA CommandReturn ==
    ASSUME Control, pc \notin Armed, UNCHANGED NMIFLG, NEW s \in RestoreStacks, Rts(s)
    PROVE  Control'
<1>1. pc' \in {"LD7A0", "line 133"} /\ stack' \in CallStacks
  BY RestoreShape, Pushed DEF Rts
<1>2. pc' \in OfCall
  BY <1>1 DEF OfCall
<1> QED BY <1>1, <1>2, CallControl

LEMMA ControlOfInterrupts ==
    ASSUME Control, NmiService \/ IrqService \/ Controller PROVE Control'
<1> USE DEF Control, StackDiscipline, OfCaller, OfCall, OfCommand, OfRestore, OfTransfer,
            OfWait, Labels, Armed
<1>1. CASE NmiService
  BY <1>1 DEF NmiService
<1>2. CASE IrqService
  BY <1>2 DEF IrqService
<1>3. CASE Controller
  <2>1. UNCHANGED <<pc, stack, NMIFLG>>
    BY <1>3 DEF Controller, FdcRestores, FdcSeeks, FdcAsksForData, FdcFindsNoRecord,
                FdcTransfers, FdcLosesData, program
  <2> QED BY <2>1
<1> QED BY <1>1, <1>2, <1>3

LEMMA ControlOfCaller ==
    ASSUME Control, (\E r \in Requests : Call(r)) \/ DskconInit \/ DskconShutdown
    PROVE  Control'
<1> USE DEF Control, StackDiscipline, OfCaller, OfCall, OfCommand, OfRestore, OfTransfer,
            OfWait, Labels, Armed
<1>1. CASE \E r \in Requests : Call(r)
  BY <1>1, CallShape, CountsAssumption DEF Call, Entered
<1>2. CASE DskconInit
  BY <1>2 DEF DskconInit
<1>3. CASE DskconShutdown
  BY <1>3 DEF DskconShutdown
<1> QED BY <1>1, <1>2, <1>3

LEMMA ControlOfProcessor == ASSUME Control, Processor PROVE Control'
<1> USE DEF Control, StackDiscipline, OfCaller, OfCall, OfCommand, OfRestore, OfTransfer,
            OfWait, Labels, Armed, At, Goto, Bsr
<1>1. CASE LD765 \/ ReadImage \/ LD77E \/ ProgramDSKREG \/ LA7D1 \/ NotReadyAtFirst
            \/ Retry
  <2>1. pc \in OfCall /\ pc' \in OfCall
    BY <1>1 DEF LD765, ReadImage, LD77E, ProgramDSKREG, LA7D1, NotReadyAtFirst, Retry
  <2>2. UNCHANGED <<stack, NMIFLG>>
    BY <1>1 DEF LD765, ReadImage, LD77E, ProgramDSKREG, LA7D1, NotReadyAtFirst, Retry
  <2> QED BY <2>1, <2>2, CallControl
<1>2. CASE LD792
  BY <1>2, WaitShape DEF LD792
<1>3. CASE Dispatch
  BY <1>3, CommandShape, RestoreShape DEF Dispatch
<1>4. CASE LD7A0
  <2>1. stack.top.retries \in 1..RetryCount /\ stack.below = Caller
    BY <1>4, CallShape DEF LD7A0
  <2>2. CASE DCSTA = {} \/ stack.top.retries = 1
    BY <1>4, <2>1, <2>2 DEF LD7A0
  <2>3. CASE ~(DCSTA = {} \/ stack.top.retries = 1)
    <3>1. stack.top.retries - 1 \in 1..RetryCount
      BY <2>1, <2>3, OneLess
    <3>2. stack' \in RestoreStacks /\ pc' = "LD7B8"
      BY <1>4, <2>1, <2>3, <3>1, CallShape, RestoreShape DEF LD7A0
    <3> QED BY <1>4, <3>2 DEF LD7A0
  <2> QED BY <2>2, <2>3
<1>5. CASE LD7B1
  BY <1>5 DEF LD7B1
<1>6. CASE LD7B8
  BY <1>6, WaitShape DEF LD7B8
<1>7. CASE Restored
  BY <1>7, CommandReturn DEF Restored
<1>8. CASE NotBusy
  BY <1>8, WaitReturn DEF NotBusy
<1>9. CASE TimeOut
  BY <1>9 DEF TimeOut
<1>10. CASE LD7DF
  BY <1>10, WaitReturn, CommandReturn, RestoreShape DEF LD7DF
<1>11. CASE LD7F8
  BY <1>11, FlagShape, WaitShape DEF LD7F8, Transfer
<1>12. CASE LD7FB
  BY <1>12, FlagShape, WaitShape DEF LD7FB, Transfer
<1>13. CASE SeekTimedOut
  BY <1>13, FlagShape, CommandReturn, RestoreShape DEF SeekTimedOut
<1>14. CASE Sought
  BY <1>14, FlagShape, CommandReturn, RestoreShape DEF Sought
<1>15. CASE LD82C
  BY <1>15, FlagShape DEF LD82C
<1>16. CASE ArmNMI \/ SendTransfer \/ DataAskedFor \/ NoDataAskedFor
  BY <1>16 DEF ArmNMI, SendTransfer, DataAskedFor, NoDataAskedFor
<1>17. CASE LD863
  <2>1. ~NMIFLG'
    BY <1>17, Zenon DEF LD863
  <2> QED BY <1>17, <2>1 DEF LD863
<1>19. CASE Unmask
  BY <1>19 DEF Unmask
<1>18. CASE LD88B
  BY <1>18, CommandReturn, RestoreShape DEF LD88B
<1> QED
  BY <1>1, <1>2, <1>3, <1>4, <1>5, <1>6, <1>7, <1>8, <1>9, <1>10, <1>11, <1>12, <1>13,
     <1>14, <1>15, <1>16, <1>17, <1>18, <1>19 DEF Processor

LEMMA ControlAtFirst == ASSUME Init PROVE Control
BY DEF Init, Control, StackDiscipline, OfCaller, OfCall, OfCommand, OfRestore, OfTransfer,
       OfWait, Labels, Armed

LEMMA ControlKept == ASSUME Control, [Next]_vars PROVE Control'
<1>1. CASE UNCHANGED vars
  BY <1>1 DEF vars, program, Control, StackDiscipline
<1> QED BY <1>1, ControlOfInterrupts, ControlOfCaller, ControlOfProcessor DEF Next

\* The processor is at a label of the routine with a stack that fits, and the
\* flag of the NMI is set at the labels of a transfer.
THEOREM ControlAlways == Spec => []Control
BY ControlAtFirst, ControlKept, PTL DEF Spec

\* dskcon_processSector() pulls from the stack what it pushed, on each way
\* through it, after a time out and out of the loop that the NMI ends, for any
\* number of retries.
THEOREM StackIsDisciplined == Spec => []StackDiscipline
<1>1. Control => StackDiscipline
  BY DEF Control
<1> QED BY <1>1, ControlAlways, PTL

-----------------------------------------------------------------------------
(* The interrupts in a call. *)

Masked == (pc # "idle" => installed) /\ (pc \in Armed \ {"line 221"} => irqMask)

\* The steps of the processor that neither arm the NMI nor go on with a transfer.
LEMMA MaskedElsewhere ==
    ASSUME Control, Control', Masked, pc # "idle", pc \notin Armed, UNCHANGED <<NMIFLG, installed>>
    PROVE  Masked'
<1>1. pc' \notin Armed
  BY DEF Control
<1> QED BY <1>1 DEF Masked

LEMMA MaskedInTransfer ==
    ASSUME Masked, DataAskedFor \/ NoDataAskedFor
    PROVE  Masked'
<1>1. pc \in {"LD877", "LD85B"} /\ pc' \in Armed \ {"line 221"}
  BY DEF DataAskedFor, NoDataAskedFor, At, Goto, Armed
<1>2. UNCHANGED <<irqMask, installed>>
  BY DEF DataAskedFor, NoDataAskedFor, memory
<1> QED BY <1>1, <1>2 DEF Masked, Armed

LEMMA MaskedByProcessor == ASSUME Control, Control', Masked, Processor PROVE Masked'
<1> USE DEF At, memory
<1>1. CASE LD765 \/ ReadImage \/ LD77E \/ ProgramDSKREG \/ LA7D1 \/ LD792 \/ NotReadyAtFirst
            \/ Dispatch \/ LD7A0 \/ Retry \/ LD7B1 \/ LD7B8
  <2>1. pc # "idle" /\ pc \notin Armed /\ UNCHANGED <<NMIFLG, installed>>
    BY <1>1 DEF LD765, ReadImage, LD77E, ProgramDSKREG, LA7D1, LD792, NotReadyAtFirst,
                Dispatch, LD7A0, Retry, LD7B1, LD7B8, Armed
  <2> QED BY <2>1, MaskedElsewhere
<1>2. CASE Restored \/ NotBusy \/ TimeOut \/ LD7DF \/ LD7F8 \/ LD7FB \/ SeekTimedOut \/ Sought
            \/ LD82C \/ Unmask \/ LD88B
  <2>1. pc # "idle" /\ pc \notin Armed /\ UNCHANGED <<NMIFLG, installed>>
    BY <1>2 DEF Restored, NotBusy, TimeOut, LD7DF, LD7F8, LD7FB, Transfer, SeekTimedOut,
                Sought, LD82C, Unmask, LD88B, Armed
  <2> QED BY <2>1, MaskedElsewhere
<1>3. CASE ArmNMI
  BY <1>3 DEF ArmNMI, Masked, Goto
<1>4. CASE SendTransfer
  <2>1. irqMask' /\ UNCHANGED installed /\ pc # "idle"
    BY <1>4 DEF SendTransfer
  <2> QED BY <2>1 DEF Masked
<1>5. CASE DataAskedFor \/ NoDataAskedFor
  BY <1>5, MaskedInTransfer
<1>6. CASE LD863
  BY <1>6 DEF LD863, Masked, Goto, Armed
<1> QED BY <1>1, <1>2, <1>3, <1>4, <1>5, <1>6 DEF Processor

LEMMA MaskedKept == ASSUME Control, Control', Masked, [Next]_vars PROVE Masked'
<1>1. CASE UNCHANGED vars
  BY <1>1 DEF vars, program, Masked
<1>2. CASE Controller \/ IrqService
  BY <1>2 DEF Controller, FdcRestores, FdcSeeks, FdcAsksForData, FdcFindsNoRecord,
              FdcTransfers, FdcLosesData, IrqService, program, Masked
<1>3. CASE NmiService
  <2>1. pc' \notin Armed
    BY <1>3 DEF NmiService, Control
  <2>2. UNCHANGED installed /\ (pc = "idle" => pc' = "idle")
    BY <1>3 DEF NmiService, Control, Armed, memory
  <2> QED BY <2>1, <2>2 DEF Masked
<1>4. CASE \E r \in Requests : Call(r)
  BY <1>4 DEF Call, Entered, Masked, Armed
<1>5. CASE DskconInit \/ DskconShutdown
  <2>1. pc' = "idle"
    BY <1>5 DEF DskconInit, DskconShutdown
  <2> QED BY <2>1 DEF Masked, Armed
<1> QED BY <1>1, <1>2, <1>3, <1>4, <1>5, MaskedByProcessor DEF Next

\* A call runs with the handlers in place, and the wait for a transfer with the
\* timer interrupt masked.
THEOREM MaskedAlways == Spec => []Masked
<1>1. Init => Masked
  BY DEF Init, Masked, Armed
<1> QED BY <1>1, ControlAlways, MaskedKept, PTL DEF Spec

\* The NMI is armed exactly in the wait for a transfer, with the handlers in
\* place and, from the command on, with the other interrupts masked.
THEOREM NmiIsOnlyInTransfer == Spec => []NmiOnlyInTransfer
<1>1. Control /\ Masked => NmiOnlyInTransfer
  BY DEF Control, Masked, NmiOnlyInTransfer, Armed
<1> QED BY <1>1, ControlAlways, MaskedAlways, PTL

-----------------------------------------------------------------------------
(* The registers, the memory and the controller. *)

Statuses == A \subseteq StatusBits /\ status \subseteq StatusBits /\ DCSTA \subseteq StatusBits

LEMMA StatusesKept == ASSUME Statuses, [Next]_vars PROVE Statuses'
<1> USE DEF Statuses
<1>1. CASE UNCHANGED vars
  BY <1>1 DEF vars, program, device, registers
<1>2. CASE Controller
  <2>1. status' \subseteq StatusBits
    BY <1>2 DEF Controller, FdcRestores, FdcSeeks, FdcAsksForData, FdcFindsNoRecord,
                FdcTransfers, FdcLosesData, Done, StatusBits, LostData, CRCError, SeekError
  <2>2. UNCHANGED <<A, DCSTA>>
    BY <1>2 DEF Controller, FdcRestores, FdcSeeks, FdcAsksForData, FdcFindsNoRecord,
                FdcTransfers, FdcLosesData, program, registers
  <2> QED BY <2>1, <2>2
<1>3. CASE NmiService \/ IrqService \/ (\E r \in Requests : Call(r)) \/ DskconShutdown
  BY <1>3 DEF NmiService, IrqService, Call, DskconShutdown, fdc, registers, device
<1>4. CASE DskconInit
  BY <1>4 DEF DskconInit, registers, device
<1>5. CASE Processor
  <2> USE DEF StatusBits, NotReady, registers, device, fdc
  <2>1. CASE LD765 \/ ReadImage \/ LD77E \/ ProgramDSKREG \/ LA7D1 \/ NotReadyAtFirst
              \/ Retry \/ LD792 \/ LD7A0 \/ LD7B1 \/ TimeOut \/ SeekTimedOut
    BY <2>1 DEF LD765, ReadImage, LD77E, ProgramDSKREG, LA7D1, NotReadyAtFirst, Retry,
                LD792, LD7A0, LD7B1, TimeOut, SeekTimedOut
  <2>2. CASE Dispatch \/ LD7B8 \/ Restored \/ NotBusy \/ LD7DF
    BY <2>2 DEF Dispatch, LD7B8, Restored, NotBusy, LD7DF, Send
  <2>3. CASE LD7F8 \/ LD7FB
    BY <2>3 DEF LD7F8, LD7FB, Transfer, Send
  <2>4. CASE Sought \/ LD82C \/ SendTransfer \/ LD88B
    BY <2>4 DEF Sought, LD82C, SendTransfer, LD88B, Send
  <2>5. CASE ArmNMI \/ DataAskedFor \/ NoDataAskedFor \/ LD863 \/ Unmask
    BY <2>5 DEF ArmNMI, DataAskedFor, NoDataAskedFor, LD863, Unmask
  <2> QED BY <1>5, <2>1, <2>2, <2>3, <2>4, <2>5 DEF Processor
<1> QED BY <1>1, <1>2, <1>3, <1>4, <1>5 DEF Next

RequestOK == request \in Requests \cup {NoRequest}

LEMMA RequestParts ==
    ASSUME RequestOK
    PROVE  /\ request.op \in 0..3
           /\ request.drive \in Drives /\ request.track \in Tracks
           /\ request.sector \in Sectors \cup {0}
           /\ request.op \in {Read, Write} => Asked \in Places
<1>1. CASE request \in Requests
  BY <1>1, RequestsAssumption DEF Asked, Places
<1>2. CASE request = NoRequest
  BY <1>2, DrivesAssumption, TracksAssumption DEF NoRequest, Restore, Read, Write, Tracks
<1> QED BY <1>1, <1>2 DEF RequestOK

Images == [drive : Drives \cup {NoDrive}, motor : BOOLEAN]

MemoryOK ==
    /\ RequestOK
    /\ image \in Images /\ DRGRAM \in Images /\ DSKREG \in Images
    /\ RDYTMR \in 0..MotorDelay
    /\ DR0TRK \in [Drives -> Tracks]

LEMMA MemoryKept == ASSUME MemoryOK, [Next]_vars PROVE MemoryOK'
<1> USE DEF MemoryOK, RequestOK, memory, drives, device, program
<1>0. Off \in Images /\ 0 \in Tracks
  BY TracksAssumption DEF Off, Motors, Images, Tracks
<1>1. CASE UNCHANGED vars
  BY <1>1 DEF vars, registers
<1>2. CASE Controller \/ NmiService \/ DskconShutdown
  BY <1>2 DEF Controller, FdcRestores, FdcSeeks, FdcAsksForData, FdcFindsNoRecord,
              FdcTransfers, FdcLosesData, NmiService, DskconShutdown, registers
<1>3. CASE IrqService
  BY <1>3, <1>0, CountsAssumption DEF IrqService, registers
<1>4. CASE \E r \in Requests : Call(r)
  BY <1>4 DEF Call, registers
<1>5. CASE DskconInit
  BY <1>5, <1>0, CountsAssumption DEF DskconInit, registers
<1>6. CASE Processor
  <2>1. CASE ReadImage
    <3>1. image' \in Images
      BY <2>1, RequestParts DEF ReadImage, Motors, DCDRV, Images
    <3> QED BY <2>1, <3>1 DEF ReadImage
  <2>2. CASE LD77E
    <3>1. DRGRAM' \in Images
      BY <2>2 DEF LD77E, Images
    <3> QED BY <2>2, <3>1 DEF LD77E, registers
  <2>3. CASE LD765 \/ LD7B1
    <3>1. RDYTMR' \in 0..MotorDelay
      <4>1. RDYTMR' = 0 \/ RDYTMR' = MotorDelay
        BY <2>3, Zenon DEF LD765, LD7B1
      <4> QED BY <4>1, CountsAssumption
    <3>2. UNCHANGED <<request, image, DRGRAM, DSKREG, DR0TRK>>
      BY <2>3 DEF LD765, LD7B1, registers
    <3> QED BY <3>1, <3>2
  <2>9. CASE ProgramDSKREG
    BY <2>9 DEF ProgramDSKREG, registers
  <2>4. CASE LA7D1 \/ NotReadyAtFirst \/ Retry \/ LD792 \/ LD7A0 \/ TimeOut \/ SeekTimedOut
    BY <2>4 DEF LA7D1, NotReadyAtFirst, Retry, LD792, LD7A0, TimeOut, SeekTimedOut, registers
  <2>5. CASE LD7B8
    BY <2>5, <1>0 DEF LD7B8, registers
  <2>6. CASE LD7F8 \/ LD7FB
    BY <2>6, RequestParts DEF LD7F8, LD7FB, Transfer, registers
  <2>7. CASE Dispatch \/ Restored \/ NotBusy \/ LD7DF \/ Sought \/ LD82C \/ LD88B
    BY <2>7 DEF Dispatch, Restored, NotBusy, LD7DF, Sought, LD82C, LD88B, registers
  <2>8. CASE ArmNMI \/ SendTransfer \/ DataAskedFor \/ NoDataAskedFor \/ LD863 \/ Unmask
    BY <2>8 DEF ArmNMI, SendTransfer, DataAskedFor, NoDataAskedFor, LD863, Unmask, registers
  <2> QED BY <1>6, <2>1, <2>2, <2>3, <2>4, <2>5, <2>6, <2>7, <2>8, <2>9 DEF Processor
<1> QED BY <1>1, <1>2, <1>3, <1>4, <1>5, <1>6 DEF Next

DeviceOK ==
    /\ command \in {"none", "restore", "seek", "read", "write"}
    /\ trackReg \in Tracks /\ dataReg \in Tracks /\ sectorReg \in Sectors \cup {0}
    /\ head \in [Drives -> Tracks]
    /\ faults \in 0..(MaxFaults + 1)
    /\ B \in {Restore, Read, Write}
    /\ drq => command \in {"read", "write"}

LEMMA ClippedTrack == ASSUME NEW t \in Int PROVE Clipped(t) \in Tracks
BY TracksAssumption DEF Clipped, Tracks

LEMMA SentKeeps ==
    ASSUME DeviceOK, NEW c \in {"restore", "seek", "read", "write"}, Send(c)
    PROVE  /\ command' = c /\ faults' \in 0..(MaxFaults + 1)
           /\ ~drq'
<1>1. ~drq'
  BY Zenon DEF Send
<1> QED BY <1>1, CountsAssumption DEF Send, DeviceOK

LEMMA DeviceKept == ASSUME DeviceOK, MemoryOK, Control, [Next]_vars PROVE DeviceOK'
<1> USE DEF DeviceOK, device, fdc, drives, registers
<1>0. 0 \in Tracks /\ Tracks \subseteq Int /\ 0 \in 0..(MaxFaults + 1) /\ 1 \in 0..(MaxFaults + 1)
  BY TracksAssumption, CountsAssumption DEF Tracks
<1>1. CASE UNCHANGED vars
  BY <1>1 DEF vars, program
<1>2. CASE Controller
  <2> USE DEF program
  <2>1. CASE FdcRestores \/ FdcSeeks
    <3>1. head' \in [Drives -> Tracks]
      <4>1. \E t \in Tracks : MoveHead(t)
        <5>1. CASE FdcRestores
          BY <5>1, <1>0 DEF FdcRestores
        <5>2. CASE FdcSeeks
          <6>1. \/ MoveHead(Clipped(head[DSKREG.drive] + dataReg - trackReg))
                \/ \E t \in Tracks : MoveHead(t)
            BY <5>2 DEF FdcSeeks
          <6>2. head[DSKREG.drive] \in Int
            <7>1. DSKREG.drive \in Drives
              BY <5>2 DEF FdcSeeks, Ready, MemoryOK, Images
            <7> QED BY <7>1, <1>0
          <6>3. Clipped(head[DSKREG.drive] + dataReg - trackReg) \in Tracks
            BY <6>2, <1>0, ClippedTrack
          <6> QED BY <6>1, <6>3
        <5> QED BY <2>1, <5>1, <5>2
      <4> QED BY <4>1 DEF MoveHead
    <3>2. faults' \in 0..(MaxFaults + 1)
      BY <2>1, CountsAssumption DEF FdcRestores, FdcSeeks, Fails
    <3>3. trackReg' \in Tracks
      BY <2>1, <1>0 DEF FdcRestores, FdcSeeks
    <3>4. command' = "none" /\ UNCHANGED <<dataReg, sectorReg, B>>
      BY <2>1 DEF FdcRestores, FdcSeeks, Done
    <3>5. ~drq'
      BY <2>1, Zenon DEF FdcRestores, FdcSeeks, Done
    <3> QED BY <3>1, <3>2, <3>3, <3>4, <3>5
  <2>2. CASE FdcAsksForData
    BY <2>2 DEF FdcAsksForData
  <2>3. CASE FdcFindsNoRecord \/ FdcTransfers \/ FdcLosesData
    <3>1. faults' \in 0..(MaxFaults + 1)
      <4>1. UNCHANGED faults \/ Fails
        BY <2>3 DEF FdcFindsNoRecord, FdcTransfers, FdcLosesData
      <4> QED BY <4>1, CountsAssumption DEF Fails
    <3>2. command' = "none" /\ UNCHANGED <<head, trackReg, dataReg, sectorReg, B>>
      BY <2>3 DEF FdcFindsNoRecord, FdcTransfers, FdcLosesData, Done
    <3>3. ~drq'
      BY <2>3, Zenon DEF FdcFindsNoRecord, FdcTransfers, FdcLosesData, Done
    <3> QED BY <3>1, <3>2, <3>3
  <2> QED BY <1>2, <2>1, <2>2, <2>3 DEF Controller
<1>3. CASE NmiService \/ IrqService \/ DskconInit \/ DskconShutdown
  BY <1>3 DEF NmiService, IrqService, DskconInit, DskconShutdown
<1>4. CASE \E r \in Requests : Call(r)
  BY <1>4, <1>0 DEF Call
<1>5. CASE Processor
  <2> DEFINE Kept == UNCHANGED <<command, trackReg, dataReg, sectorReg, head, faults, B, drq>>
  <2>0. ASSUME Kept PROVE DeviceOK'
    BY <2>0
  <2> HIDE DEF DeviceOK
  <2>1. CASE LD765 \/ LD77E \/ NotReadyAtFirst \/ Retry \/ LD792 \/ LD7A0 \/ LD7B1
              \/ TimeOut \/ SeekTimedOut
    BY <2>0, <2>1 DEF LD765, LD77E, NotReadyAtFirst, Retry, LD792, LD7A0, LD7B1, TimeOut,
                      SeekTimedOut
  <2>9. CASE ReadImage \/ ProgramDSKREG \/ LA7D1
    BY <2>0, <2>9 DEF ReadImage, ProgramDSKREG, LA7D1
  <2>2. CASE LD7B8
    BY <2>2, SentKeeps DEF LD7B8, DeviceOK
  <2>3. CASE LD7F8 \/ LD7FB
    <3>1. /\ trackReg' = DR0TRK[DCDRV]
          /\ UNCHANGED <<sectorReg, head, B>>
          /\ \/ UNCHANGED <<command, drq, faults, dataReg>>
             \/ Send("seek") /\ dataReg' = request.track
      BY <2>3 DEF LD7F8, LD7FB, Transfer
    <3>2. trackReg' \in Tracks /\ request.track \in Tracks
      BY <3>1, RequestParts DEF MemoryOK, DCDRV
    <3> QED BY <3>1, <3>2, SentKeeps DEF DeviceOK
  <2>4. CASE Dispatch \/ Restored \/ NotBusy \/ Sought \/ LD88B
    <3>1. Kept
      BY <2>4 DEF Dispatch, Restored, NotBusy, Sought, LD88B
    <3> QED BY <2>0, <3>1
  <2>5. CASE LD7DF
    <3>1. ~drq'
      BY <2>5, Zenon DEF LD7DF
    <3> QED BY <2>5, <3>1 DEF LD7DF, DeviceOK
  <2>6. CASE LD82C
    <3>1. stack \in FlagStacks
      BY <2>6 DEF LD82C, At, Control, StackDiscipline, OfTransfer
    <3>2. B' \in {Read, Write} /\ sectorReg' \in Sectors \cup {0}
      BY <2>6, <3>1, FlagShape, Pushed, RequestParts DEF LD82C, MemoryOK
    <3> QED BY <2>6, <3>2 DEF LD82C, DeviceOK
  <2>7. CASE SendTransfer
    <3>1. \E c \in {"read", "write"} : Send(c)
      BY <2>7 DEF SendTransfer
    <3> QED BY <2>7, <3>1, SentKeeps DEF SendTransfer, DeviceOK
  <2>8. CASE ArmNMI \/ DataAskedFor \/ NoDataAskedFor \/ LD863 \/ Unmask
    <3>1. Kept
      BY <2>8 DEF ArmNMI, DataAskedFor, NoDataAskedFor, LD863, Unmask
    <3> QED BY <2>0, <3>1
  <2> QED BY <1>5, <2>1, <2>2, <2>3, <2>4, <2>5, <2>6, <2>7, <2>8, <2>9 DEF Processor
<1> QED BY <1>1, <1>2, <1>3, <1>4, <1>5 DEF Next

Kinds == Statuses /\ MemoryOK /\ DeviceOK

\* Statuses, images, tracks and the request keep their types.
THEOREM KindsAlways == Spec => []Kinds
<1>1. Init => Kinds
  <2> SUFFICES ASSUME Init PROVE Kinds
    OBVIOUS
  <2>1. Statuses
    BY DEF Init, Statuses
  <2>2. MemoryOK
    <3>1. PICK on \in BOOLEAN : DSKREG = Motors(IF on THEN 0 ELSE NoDrive, on)
      BY DEF Init
    <3>2. DSKREG \in Images /\ Off \in Images
      BY <3>1, DrivesAssumption DEF Motors, Images, Off
    <3>3. DR0TRK \in [Drives -> Tracks] /\ RDYTMR \in 0..MotorDelay
      BY TracksAssumption, CountsAssumption DEF Init, Tracks
    <3> QED BY <3>2, <3>3 DEF Init, MemoryOK, RequestOK
  <2>3. ~drq /\ command \in {"none", "restore"}
    BY Zenon DEF Init
  <2>4. DeviceOK
    BY <2>3, TracksAssumption, CountsAssumption DEF Init, DeviceOK, Tracks
  <2> QED BY <2>1, <2>2, <2>4 DEF Kinds
<1>2. Control /\ Kinds /\ [Next]_vars => Kinds'
  BY StatusesKept, MemoryKept, DeviceKept DEF Kinds
<1> QED BY <1>1, <1>2, ControlAlways, PTL DEF Spec

-----------------------------------------------------------------------------
(* The motors. *)

\* Before the routine has seen to the motors: up to LD77E it does not know that
\* the timer interrupt has stopped them, if it has.
Early == {"idle", "LD765", "line 88", "LD77E"}
Turning == DSKREG = Motors(DCDRV, TRUE) /\ DRGRAM = DSKREG /\ atSpeed

MotorsOK ==
    /\ pc \notin {"idle", "LD765"} => RDYTMR = 0
    /\ installed /\ pc = "idle" /\ DRGRAM.motor => RDYTMR > 0
    /\ pc \in Early /\ DRGRAM.motor => DSKREG = DRGRAM /\ atSpeed
    /\ pc = "LD77E" => image = Motors(DCDRV, DRGRAM.motor)
    /\ pc = "line 101" =>
           /\ DRGRAM = Motors(DCDRV, TRUE)
           /\ image.motor => DSKREG.motor /\ atSpeed
    /\ pc = "LA7D1" => DSKREG = Motors(DCDRV, TRUE) /\ DRGRAM = DSKREG
    /\ pc \notin Early \cup {"line 101", "LA7D1"} => Turning

LEMMA MotorParts ==
    /\ \A d, on : Motors(d, on).drive = d /\ Motors(d, on).motor = on
    /\ ~Off.motor
BY DEF Motors, Off

\* The labels that RTS leads to, and that of the other way of line 202.
ReturnLabels == {"line 107", "line 133", "line 149", "line 202", "LD7A0", "LD82C"}

LEMMA ReturnsThere ==
    ASSUME Control, Restored \/ NotBusy \/ LD7DF \/ SeekTimedOut \/ Sought \/ LD88B
    PROVE  pc' \in ReturnLabels
<1> USE DEF ReturnLabels, Control, StackDiscipline, OfCommand, OfRestore, OfTransfer, OfWait,
            At, Goto
<1>1. ASSUME NEW s \in RestoreStacks, Rts(s) PROVE pc' \in ReturnLabels
  <2>1. pc' \in {"LD7A0", "line 133"}
    BY <1>1, RestoreShape, Pushed DEF Rts
  <2> QED BY <2>1
<1>2. ASSUME stack \in WaitStacks, Rts(stack) PROVE pc' \in ReturnLabels
  <2>1. pc' \in {"line 107", "line 149", "line 202"}
    BY <1>2, WaitShape, Pushed DEF Rts
  <2> QED BY <2>1
<1>3. CASE Restored
  BY <1>3, <1>1 DEF Restored
<1>4. CASE NotBusy
  BY <1>4, <1>2 DEF NotBusy
<1>5. CASE LD7DF
  BY <1>5, <1>1, <1>2, RestoreShape DEF LD7DF
<1>6. CASE SeekTimedOut
  BY <1>6, <1>1, FlagShape, RestoreShape DEF SeekTimedOut
<1>7. CASE Sought
  BY <1>7, <1>1, FlagShape, RestoreShape DEF Sought
<1>8. CASE LD88B
  BY <1>8, <1>1, RestoreShape DEF LD88B
<1> QED BY <1>3, <1>4, <1>5, <1>6, <1>7, <1>8

\* What the motors do not depend on, and the later steps leave alone.
motors == <<RDYTMR, DRGRAM, DSKREG, atSpeed, request>>

LEMMA MotorsLater ==
    ASSUME MotorsOK, UNCHANGED motors, pc \notin Early \cup {"line 101", "LA7D1"},
           pc' \notin Early \cup {"line 101", "LA7D1"} \/ pc' = "LD765"
    PROVE  MotorsOK'
BY DEF MotorsOK, motors, Early, Turning, DCDRV

LEMMA MotorsByProcessor ==
    ASSUME Control, MemoryOK, MotorsOK, Processor
    PROVE  MotorsOK'
<1> USE DEF At, Goto, Bsr, memory, drives, device, Early
<1>1. CASE LD765
  BY <1>1 DEF LD765, MotorsOK
<1>2. CASE ReadImage
  BY <1>2, MotorParts DEF ReadImage, MotorsOK, DCDRV
<1>3. CASE LD77E
  <2>1. DRGRAM.motor \in BOOLEAN
    BY DEF MemoryOK, Images
  <2>2. image = Motors(DCDRV, DRGRAM.motor) /\ RDYTMR = 0
    BY <1>3 DEF LD77E, MotorsOK
  <2>3. pc' = "line 101" /\ UNCHANGED <<image, request, RDYTMR, DSKREG, atSpeed>>
    BY <1>3 DEF LD77E, registers
  <2>4. DRGRAM' = Motors(DCDRV', TRUE)
    BY <1>3, <2>2, <2>3 DEF LD77E, Motors, DCDRV
  <2>5. image'.motor => DSKREG'.motor /\ atSpeed'
    <3> SUFFICES ASSUME image.motor PROVE DSKREG.motor /\ atSpeed
      BY <2>3
    <3>1. DRGRAM.motor
      BY <2>2, MotorParts, Zenon
    <3>2. DSKREG = DRGRAM /\ atSpeed
      BY <1>3, <3>1 DEF LD77E, MotorsOK
    <3> QED BY <3>1, <3>2
  <2> QED BY <2>2, <2>3, <2>4, <2>5 DEF MotorsOK
<1>4. CASE ProgramDSKREG
  <2>1. DRGRAM = Motors(DCDRV, TRUE) /\ RDYTMR = 0
        /\ (image.motor => DSKREG.motor /\ atSpeed)
    BY <1>4 DEF ProgramDSKREG, MotorsOK
  <2>2. DSKREG' = Motors(DCDRV', TRUE) /\ DRGRAM' = DSKREG' /\ RDYTMR' = 0
    BY <1>4, <2>1 DEF ProgramDSKREG, DCDRV
  <2>3. image.motor => atSpeed'
    BY <1>4, <2>1 DEF ProgramDSKREG
  <2>4. (pc' = "LD792" /\ image.motor) \/ pc' = "LA7D1"
    BY <1>4 DEF ProgramDSKREG
  <2> QED BY <2>2, <2>3, <2>4 DEF MotorsOK, Turning
<1>5. CASE LA7D1
  <2>1. DSKREG = Motors(DCDRV, TRUE) /\ DRGRAM = DSKREG /\ RDYTMR = 0
    BY <1>5 DEF LA7D1, MotorsOK
  <2>2. atSpeed'
    BY <1>5, <2>1, MotorParts DEF LA7D1
  <2>3. pc' = "LD792" /\ UNCHANGED <<DSKREG, DRGRAM, RDYTMR, request>>
    BY <1>5 DEF LA7D1
  <2> QED BY <2>1, <2>2, <2>3 DEF MotorsOK, Turning, DCDRV
<1>6. CASE LD7B1
  <2>1. RDYTMR' > 0
    BY <1>6, CountsAssumption DEF LD7B1
  <2>2. Turning /\ pc' = "idle" /\ UNCHANGED <<DRGRAM, DSKREG, atSpeed>>
    BY <1>6 DEF LD7B1, MotorsOK
  <2> QED BY <2>1, <2>2 DEF MotorsOK, Turning
<1>7. CASE LD792 \/ NotReadyAtFirst \/ Dispatch \/ LD7A0 \/ Retry \/ LD7B8 \/ TimeOut
  <2>1. UNCHANGED motors
    BY <1>7 DEF LD792, NotReadyAtFirst, Dispatch, LD7A0, Retry, LD7B8, TimeOut, motors
  <2>2. /\ pc \notin Early \cup {"line 101", "LA7D1"}
        /\ pc' \notin Early \cup {"line 101", "LA7D1"} \/ pc' = "LD765"
    BY <1>7 DEF LD792, NotReadyAtFirst, Dispatch, LD7A0, Retry, LD7B8, TimeOut
  <2> QED BY <2>1, <2>2, MotorsLater
<1>8. CASE Restored \/ NotBusy \/ LD7DF \/ SeekTimedOut \/ Sought \/ LD88B
  <2>1. UNCHANGED motors
    BY <1>8 DEF Restored, NotBusy, LD7DF, SeekTimedOut, Sought, LD88B, motors
  <2>2. /\ pc \notin Early \cup {"line 101", "LA7D1"}
        /\ pc' \notin Early \cup {"line 101", "LA7D1"} \/ pc' = "LD765"
    BY <1>8, ReturnsThere DEF Restored, NotBusy, LD7DF, SeekTimedOut, Sought, LD88B,
                              ReturnLabels
  <2> QED BY <2>1, <2>2, MotorsLater
<1>9. CASE LD7F8 \/ LD7FB \/ LD82C
  <2>1. UNCHANGED motors
    BY <1>9 DEF LD7F8, LD7FB, LD82C, Transfer, motors
  <2>2. /\ pc \notin Early \cup {"line 101", "LA7D1"}
        /\ pc' \notin Early \cup {"line 101", "LA7D1"} \/ pc' = "LD765"
    BY <1>9 DEF LD7F8, LD7FB, LD82C, Transfer
  <2> QED BY <2>1, <2>2, MotorsLater
<1>10. CASE ArmNMI \/ SendTransfer \/ DataAskedFor \/ NoDataAskedFor \/ LD863 \/ Unmask
  <2>1. UNCHANGED motors
    BY <1>10 DEF ArmNMI, SendTransfer, DataAskedFor, NoDataAskedFor, LD863, Unmask, motors
  <2>2. /\ pc \notin Early \cup {"line 101", "LA7D1"}
        /\ pc' \notin Early \cup {"line 101", "LA7D1"} \/ pc' = "LD765"
    BY <1>10 DEF ArmNMI, SendTransfer, DataAskedFor, NoDataAskedFor, LD863, Unmask
  <2> QED BY <2>1, <2>2, MotorsLater
<1> QED
  BY <1>1, <1>2, <1>3, <1>4, <1>5, <1>6, <1>7, <1>8, <1>9, <1>10 DEF Processor

LEMMA MotorsKept == ASSUME Control, MemoryOK, MotorsOK, [Next]_vars PROVE MotorsOK'
<1>1. CASE UNCHANGED vars
  BY <1>1 DEF vars, program, device, registers, MotorsOK, Turning, DCDRV
<1>2. CASE Controller
  <2>1. UNCHANGED motors /\ UNCHANGED <<pc, image, installed>>
    BY <1>2 DEF Controller, FdcRestores, FdcSeeks, FdcAsksForData, FdcFindsNoRecord,
                FdcTransfers, FdcLosesData, program, drives, registers, motors
  <2> QED BY <2>1 DEF motors, MotorsOK, Turning, DCDRV
<1>3. CASE NmiService
  <2>1. UNCHANGED motors /\ UNCHANGED <<image, installed>>
    BY <1>3 DEF NmiService, memory, drives, registers, motors
  <2>2. \/ pc' = pc
        \/ pc \notin Early \cup {"line 101", "LA7D1"} /\ pc' = "LD88B"
    <3>1. CASE NMIFLG
      <4>1. pc \in Armed /\ pc' = "LD88B"
        BY <1>3, <3>1 DEF NmiService, Control
      <4>2. pc \notin Early \cup {"line 101", "LA7D1"}
        BY <4>1 DEF Armed, Early
      <4> QED BY <4>1, <4>2
    <3>2. CASE ~NMIFLG
      BY <1>3, <3>2 DEF NmiService
    <3> QED BY <3>1, <3>2
  <2>3. CASE pc' = pc
    BY <2>1, <2>3 DEF motors, MotorsOK, Turning, DCDRV
  <2>4. CASE pc' # pc
    BY <2>1, <2>2, <2>4, MotorsLater DEF Early
  <2> QED BY <2>3, <2>4
<1>4. CASE IrqService
  <2>1. /\ UNCHANGED <<pc, image, installed, request>>
        /\ RDYTMR > 0 /\ RDYTMR' = RDYTMR - 1
        /\ \/ RDYTMR' = 0 /\ DRGRAM' = Off
           \/ RDYTMR' # 0 /\ UNCHANGED <<DRGRAM, DSKREG, atSpeed>>
    BY <1>4 DEF IrqService, registers
  <2>3. pc \in {"idle", "LD765"}
    <3>1. RDYTMR # 0
      BY <2>1
    <3> QED BY <3>1 DEF MotorsOK
  <2>4. CASE RDYTMR' = 0
    <3>1. ~DRGRAM'.motor
      BY <2>1, <2>4, MotorParts
    <3> QED BY <2>1, <2>3, <2>4, <3>1 DEF MotorsOK, Early
  <2>5. CASE RDYTMR' # 0
    <3>1. RDYTMR' > 0
      BY <2>1, <2>5, CountsAssumption DEF MemoryOK
    <3>2. UNCHANGED <<pc, image, request, DRGRAM, DSKREG, atSpeed>>
      BY <2>1, <2>5
    <3>3. pc' \in Early /\ DRGRAM'.motor => DSKREG' = DRGRAM' /\ atSpeed'
      BY <3>2 DEF MotorsOK
    <3> QED BY <2>3, <3>1, <3>2, <3>3 DEF MotorsOK, Early
  <2> QED BY <2>4, <2>5
<1>5. CASE \E r \in Requests : Call(r)
  BY <1>5 DEF Call, Entered, MotorsOK, Early, drives, registers
<1>6. CASE DskconInit
  <2>1. pc' = "idle" /\ DRGRAM' = Off
    BY <1>6 DEF DskconInit
  <2> QED BY <2>1, MotorParts DEF MotorsOK, Early
<1>7. CASE DskconShutdown
  <2>1. pc = "idle" /\ pc' = "idle" /\ UNCHANGED motors /\ ~installed'
    BY <1>7, Zenon DEF DskconShutdown, HandlersOut, motors, device
  <2> QED BY <2>1 DEF MotorsOK, motors, Early
<1> QED BY <1>1, <1>2, <1>3, <1>4, <1>5, <1>6, <1>7, MotorsByProcessor DEF Next

\* The image of the control register, the register and the timer agree at every
\* label, wherever the timer interrupt comes.
THEOREM MotorsAlways == Spec => []MotorsOK
<1>1. Init => MotorsOK
  BY MotorParts DEF Init, MotorsOK, Early
<1>2. Kinds => MemoryOK
  BY DEF Kinds
<1> QED BY <1>1, <1>2, ControlAlways, KindsAlways, MotorsKept, PTL DEF Spec

\* A controller at work in a call has the motors at their speed and the drive of
\* the request selected, whenever the timer interrupt comes.
THEOREM MotorIsAtSpeed == Spec => []MotorAtSpeed
<1>1. MemoryOK /\ MotorsOK => MotorAtSpeed
  <2> SUFFICES ASSUME MemoryOK, MotorsOK, InTransfer PROVE Ready /\ Turning
    BY DEF MotorAtSpeed, Turning
  <2>1. Turning
    BY DEF InTransfer, MotorsOK, Early
  <2>2. DCDRV \in Drives
    BY RequestParts DEF MemoryOK, DCDRV
  <2>3. DSKREG.motor /\ DSKREG.drive = DCDRV
    BY <2>1, MotorParts, Zenon DEF Turning
  <2> QED BY <2>1, <2>2, <2>3, DrivesAssumption DEF Ready, Turning
<1>2. Kinds => MemoryOK
  BY DEF Kinds
<1> QED BY <1>1, <1>2, KindsAlways, MotorsAlways, PTL

\* Motors that a call has left on run under the timer that will stop them, and
\* no call goes on under a timer.
THEOREM TimerWillStopMotor == Spec => []TimerStopsMotor
<1>1. MotorsOK => TimerStopsMotor
  BY DEF MotorsOK, TimerStopsMotor
<1> QED BY <1>1, MotorsAlways, PTL

-----------------------------------------------------------------------------
(* The program and the controller speak of the same sector. *)

Transferred == request.op \in {Read, Write} => buffer = disk[Asked]
Transferring == {"LD877", "LD85B", "LD881", "LD86B", "LD863", "line 234"}
Addressed == {"line 220", "line 221"} \cup Transferring
Resting == {"line 107", "LD7A0", "line 133", "LD7B1", "LD7B8", "line 149", "LD7F8",
            "LD7FB", "line 202", "LD82C", "line 220", "line 221", "LD88B"}

\* The controller is at rest where the program knows that it is.
Quiet ==
    /\ pc \in Resting => command = "none" /\ ~nmi
    /\ nmi => command = "none"

\* What is on the stack says what was asked for.
RestoreAsked(s) == s.top = Return("LD7A0") => request.op = Restore
FlagAsked(s) == s.top.flag = request.op
StackAgrees ==
    /\ pc \in OfRestore => RestoreAsked(stack)
    /\ pc \in OfTransfer => FlagAsked(stack)
    /\ pc \in OfWait =>
           /\ stack.top = Return("line 149") => RestoreAsked(stack.below)
           /\ stack.top = Return("line 202") => FlagAsked(stack.below)
    /\ pc = "LD7F8" => request.op = Read
    /\ pc = "LD7FB" => request.op = Write

\* The registers of the controller hold the track and the sector asked for.
Seeking ==
    pc = "LD7D3" /\ stack.top = Return("line 202") =>
        /\ dataReg = request.track
        /\ command \in {"none", "seek"}
        /\ command = "none" => trackReg = request.track
OnTrack ==
    /\ pc = "line 202" /\ Z => trackReg = request.track
    /\ pc = "LD82C" => trackReg = request.track
    /\ pc \in Addressed =>
           /\ trackReg = request.track /\ sectorReg = request.sector
           /\ B = request.op /\ B \in {Read, Write}
    /\ pc \in Transferring => command \in {"none", IF B = Read THEN "read" ELSE "write"}

\* A status without errors means that the transfer took place.
Answers ==
    /\ pc \in {"line 107", "line 133", "line 202"} /\ ~Z => DCSTA # {}
    /\ pc \in {"LD7A0", "LD7B1"} /\ DCSTA = {} => Transferred
    /\ pc \in Transferring \cup {"LD88B"} /\ command = "none"
       /\ status \ {1, 2, NotReady} = {} => Transferred

Agreement == Quiet /\ StackAgrees /\ Seeking /\ OnTrack /\ Answers

LEMMA ReturnsDiffer == \A a, b : Return(a) = Return(b) => a = b
<1> SUFFICES ASSUME NEW a, NEW b, Return(a) = Return(b) PROVE a = b
  OBVIOUS
<1>1. Return(a).to = a /\ Return(b).to = b
  BY Pushed
<1> QED BY <1>1

\* What has to hold at the label that a step leads to.
Plain == {"idle", "LD765", "line 88", "LD77E", "line 101", "LD792", "LA7D1"}

LEMMA ToPlain ==
    ASSUME pc' \in Plain, nmi' => command' = "none"
    PROVE  Agreement'
<1> USE DEF Plain, Resting, OfRestore, OfTransfer, OfWait, Addressed, Transferring
<1>1. Quiet' /\ StackAgrees'
  BY DEF Quiet, StackAgrees
<1>2. Seeking' /\ OnTrack' /\ Answers'
  BY DEF Seeking, OnTrack, Answers
<1> QED BY <1>1, <1>2 DEF Agreement

LEMMA ToAnswer ==
    ASSUME pc' \in {"line 107", "line 133", "LD7A0", "LD7B1"},
           command' = "none", ~nmi',
           pc' \in {"line 107", "line 133"} => Z' \/ DCSTA' # {},
           pc' \in {"LD7A0", "LD7B1"} /\ DCSTA' = {} => Transferred'
    PROVE  Agreement'
<1> USE DEF Resting, OfRestore, OfTransfer, OfWait, Addressed, Transferring
<1>1. Quiet' /\ StackAgrees'
  BY DEF Quiet, StackAgrees
<1>2. Seeking' /\ OnTrack'
  BY DEF Seeking, OnTrack
<1>3. Answers'
  BY DEF Answers
<1> QED BY <1>1, <1>2, <1>3 DEF Agreement

LEMMA ToRestore ==
    ASSUME pc' \in OfRestore, command' = "none", ~nmi',
           stack'.top = Return("LD7A0") => request'.op = Restore
    PROVE  Agreement'
<1> USE DEF Resting, OfRestore, OfTransfer, OfWait, Addressed, Transferring
<1>1. Quiet' /\ StackAgrees'
  BY DEF Quiet, StackAgrees, RestoreAsked
<1>2. Seeking' /\ OnTrack' /\ Answers'
  BY DEF Seeking, OnTrack, Answers
<1> QED BY <1>1, <1>2 DEF Agreement

LEMMA ToCommand ==
    ASSUME command' = "none", ~nmi',
           \/ pc' = "LD7F8" /\ request'.op = Read
           \/ pc' = "LD7FB" /\ request'.op = Write
    PROVE  Agreement'
<1> USE DEF Resting, OfRestore, OfTransfer, OfWait, Addressed, Transferring
<1>1. Quiet' /\ StackAgrees'
  BY DEF Quiet, StackAgrees
<1>2. Seeking' /\ OnTrack' /\ Answers'
  BY DEF Seeking, OnTrack, Answers
<1> QED BY <1>1, <1>2 DEF Agreement

LEMMA ToTransfer ==
    ASSUME pc' \in OfTransfer, command' = "none", ~nmi', stack'.top.flag = request'.op,
           pc' = "LD82C" \/ Z' => trackReg' = request'.track,
           pc' = "line 202" => Z' \/ DCSTA' # {}
    PROVE  Agreement'
<1> USE DEF Resting, OfRestore, OfTransfer, OfWait, Addressed, Transferring
<1>1. Quiet' /\ StackAgrees'
  BY DEF Quiet, StackAgrees, FlagAsked
<1>2. Seeking' /\ OnTrack'
  BY DEF Seeking, OnTrack
<1>3. Answers'
  BY DEF Answers
<1> QED BY <1>1, <1>2, <1>3 DEF Agreement

LEMMA ToWait ==
    ASSUME pc' \in OfWait, nmi' => command' = "none",
           stack'.top = Return("line 149") =>
               (stack'.below.top = Return("LD7A0") => request'.op = Restore),
           stack'.top = Return("line 202") => stack'.below.top.flag = request'.op,
           Seeking'
    PROVE  Agreement'
<1> USE DEF Resting, OfRestore, OfTransfer, OfWait, Addressed, Transferring
<1>1. Quiet' /\ StackAgrees'
  BY DEF Quiet, StackAgrees, FlagAsked, RestoreAsked
<1>2. OnTrack' /\ Answers'
  BY DEF OnTrack, Answers
<1> QED BY <1>1, <1>2 DEF Agreement

\* On the way from LD82C to the end of the transfer.
InPlace ==
    /\ trackReg = request.track /\ sectorReg = request.sector
    /\ B = request.op /\ B \in {Read, Write}

LEMMA ToAddressed ==
    ASSUME pc' \in {"line 220", "line 221"}, command' = "none", ~nmi', InPlace'
    PROVE  Agreement'
<1> USE DEF Resting, OfRestore, OfTransfer, OfWait, Addressed, Transferring
<1>1. Quiet' /\ StackAgrees'
  BY DEF Quiet, StackAgrees
<1>2. Seeking' /\ OnTrack' /\ Answers'
  BY DEF Seeking, OnTrack, Answers, InPlace
<1> QED BY <1>1, <1>2 DEF Agreement

LEMMA ToTransferring ==
    ASSUME pc' \in Transferring, nmi' => command' = "none", InPlace',
           command' \in {"none", IF B' = Read THEN "read" ELSE "write"},
           command' = "none" /\ status' \ {1, 2, NotReady} = {} => Transferred'
    PROVE  Agreement'
<1> USE DEF Resting, OfRestore, OfTransfer, OfWait, Addressed, Transferring
<1>1. Quiet' /\ StackAgrees'
  BY DEF Quiet, StackAgrees
<1>2. Seeking' /\ OnTrack'
  BY DEF Seeking, OnTrack, InPlace
<1>3. Answers'
  BY DEF Answers
<1> QED BY <1>1, <1>2, <1>3 DEF Agreement

LEMMA ToLD88B ==
    ASSUME pc' = "LD88B", ~nmi', command' = "none",
           status' \ {1, 2, NotReady} = {} => Transferred'
    PROVE  Agreement'
<1> USE DEF Resting, OfRestore, OfTransfer, OfWait, Addressed, Transferring
<1>1. Quiet' /\ StackAgrees'
  BY DEF Quiet, StackAgrees
<1>2. Seeking' /\ OnTrack' /\ Answers'
  BY DEF Seeking, OnTrack, Answers
<1> QED BY <1>1, <1>2 DEF Agreement

\* Where RTS leads to.
LEMMA WaitReturns ==
    ASSUME stack \in WaitStacks, Rts(stack)
    PROVE  \/ pc' = "line 107"
           \/ pc' = "line 149" /\ stack.top = Return("line 149") /\ stack' = stack.below
           \/ pc' = "line 202" /\ stack.top = Return("line 202") /\ stack' = stack.below
<1>1. pc' = stack.top.to /\ stack' = stack.below
  BY DEF Rts
<1>2. CASE stack.top = Return("line 107")
  BY <1>1, <1>2, Pushed
<1>3. CASE stack.top = Return("line 149")
  BY <1>1, <1>3, Pushed
<1>4. CASE stack.top = Return("line 202")
  BY <1>1, <1>4, Pushed
<1> QED BY <1>2, <1>3, <1>4, WaitShape

LEMMA RestoreReturns ==
    ASSUME NEW s \in RestoreStacks, Rts(s)
    PROVE  (pc' = "LD7A0" /\ s.top = Return("LD7A0")) \/ pc' = "line 133"
BY RestoreShape, Pushed DEF Rts

LEMMA CommandReturns == ASSUME NEW s \in CommandStacks, Rts(s) PROVE pc' = "LD7A0"
BY CommandShape, Pushed DEF Rts

LEMMA NoNmi == ASSUME Processor PROVE ~nmi /\ ~nmi'
<1> USE DEF At, device, fdc
<1>1. CASE LD765 \/ ReadImage \/ LD77E \/ ProgramDSKREG \/ LA7D1 \/ LD792 \/ NotReadyAtFirst
            \/ Dispatch \/ LD7A0 \/ Retry \/ LD7B1 \/ LD7B8 \/ Restored \/ NotBusy
  <2>1. UNCHANGED nmi
    BY <1>1 DEF LD765, ReadImage, LD77E, ProgramDSKREG, LA7D1, LD792, NotReadyAtFirst,
                Dispatch, LD7A0, Retry, LD7B1, LD7B8, Restored, NotBusy
  <2>2. ~nmi
    BY <1>1, Zenon DEF LD765, ReadImage, LD77E, ProgramDSKREG, LA7D1, LD792, NotReadyAtFirst,
                Dispatch, LD7A0, Retry, LD7B1, LD7B8, Restored, NotBusy
  <2> QED BY <2>1, <2>2
<1>2. CASE TimeOut \/ LD7DF \/ LD7F8 \/ LD7FB \/ SeekTimedOut \/ Sought \/ LD82C
            \/ ArmNMI \/ SendTransfer \/ DataAskedFor \/ NoDataAskedFor \/ LD863 \/ Unmask
            \/ LD88B
  <2>1. UNCHANGED nmi
    BY <1>2 DEF TimeOut, LD7DF, LD7F8, LD7FB, Transfer, SeekTimedOut, Sought, LD82C,
                ArmNMI, SendTransfer, DataAskedFor, NoDataAskedFor, LD863, Unmask, LD88B
  <2>2. ~nmi
    BY <1>2, Zenon DEF TimeOut, LD7DF, LD7F8, LD7FB, Transfer, SeekTimedOut, Sought, LD82C,
                ArmNMI, SendTransfer, DataAskedFor, NoDataAskedFor, LD863, Unmask, LD88B
  <2> QED BY <2>1, <2>2
<1> QED BY <1>1, <1>2 DEF Processor

LEMMA AgreementInCall ==
    ASSUME Agreement, ~nmi',
           \/ LD765 \/ ReadImage \/ LD77E \/ ProgramDSKREG \/ LA7D1 \/ LD792
           \/ NotReadyAtFirst \/ Dispatch \/ LD7A0 \/ Retry \/ LD7B1
    PROVE  Agreement'
<1> USE DEF At, Goto, Bsr, device, fdc, memory
<1>1. CASE LD765 \/ ReadImage \/ LD77E \/ ProgramDSKREG \/ LA7D1 \/ LD7B1
  <2>1. pc' \in Plain
    BY <1>1 DEF LD765, ReadImage, LD77E, ProgramDSKREG, LA7D1, LD7B1, Plain
  <2> QED BY <2>1, ToPlain
<1>2. CASE LD792
  <2>1. pc' = "LD7D3" /\ stack'.top = Return("line 107")
    BY <1>2, Pushed DEF LD792
  <2>2. stack'.top # Return("line 149") /\ stack'.top # Return("line 202")
    BY <2>1, ReturnsDiffer
  <2> QED BY <2>1, <2>2, ToWait DEF OfWait, Seeking
<1>3. CASE NotReadyAtFirst
  BY <1>3, ToAnswer DEF NotReadyAtFirst, Agreement, Quiet, Resting, Answers
<1>4. CASE Dispatch
  <2>1. command' = "none" /\ UNCHANGED request
    BY <1>4 DEF Dispatch, Agreement, Quiet, Resting
  <2>2. CASE request.op = Restore /\ Bsr("LD7B8", "LD7A0")
    BY <2>1, <2>2, ToRestore DEF OfRestore
  <2>3. CASE request.op = Read /\ Bsr("LD7F8", "LD7A0")
    BY <2>1, <2>3, ToCommand
  <2>4. CASE request.op = Write /\ Bsr("LD7FB", "LD7A0")
    BY <2>1, <2>4, ToCommand
  <2>5. CASE request.op \notin {Restore, Read, Write} /\ Goto("LD7A0")
    BY <2>1, <2>5, ToAnswer DEF Transferred
  <2> QED BY <1>4, <2>2, <2>3, <2>4, <2>5 DEF Dispatch
<1>5. CASE LD7A0
  <2>1. command' = "none" /\ UNCHANGED <<request, buffer, disk, DCSTA>>
    BY <1>5 DEF LD7A0, Agreement, Quiet, Resting
  <2>2. CASE pc' = "LD7B1"
    <3>1. DCSTA' = {} => Transferred'
      BY <1>5, <2>1 DEF LD7A0, Agreement, Answers, Transferred, Asked
    <3> QED BY <2>1, <2>2, <3>1, ToAnswer
  <2>3. CASE pc' = "LD7B8" /\ stack'.top = Return("line 133")
    BY <2>1, <2>3, ReturnsDiffer, ToRestore DEF OfRestore
  <2>4. \/ pc' = "LD7B1"
        \/ pc' = "LD7B8" /\ \E s : stack' = Push(Return("line 133"), s)
    BY <1>5, Zenon DEF LD7A0
  <2> QED BY <2>2, <2>3, <2>4, Pushed
<1>6. CASE Retry
  <2>1. CASE pc' = "LD765"
    BY <2>1, ToPlain DEF Plain
  <2>2. CASE ~Z /\ pc' = "LD7A0"
    BY <1>6, <2>2, ToAnswer DEF Retry, Agreement, Quiet, Resting, Answers
  <2> QED BY <1>6, <2>1, <2>2 DEF Retry
<1> QED BY <1>1, <1>2, <1>3, <1>4, <1>5, <1>6

LEMMA AgreementInRestore ==
    ASSUME Control, Agreement, ~nmi', LD7B8 \/ Restored
    PROVE  Agreement'
<1> USE DEF At, Bsr, device
<1>1. CASE LD7B8
  <2>1. pc' = "LD7D3" /\ stack'.top = Return("line 149") /\ stack'.below = stack
    BY <1>1, Pushed DEF LD7B8
  <2>2. stack'.top # Return("line 202")
    BY <2>1, ReturnsDiffer
  <2>3. stack.top = Return("LD7A0") => request'.op = Restore
    BY <1>1 DEF LD7B8, Agreement, StackAgrees, OfRestore, RestoreAsked
  <2> QED BY <2>1, <2>2, <2>3, ToWait DEF OfWait, Seeking
<1>2. CASE Restored
  <2>1. stack \in RestoreStacks
    BY <1>2 DEF Restored, Control, StackDiscipline, OfRestore
  <2>2. command' = "none" /\ UNCHANGED request
    BY <1>2 DEF Restored, Agreement, Quiet, Resting, memory
  <2>3. Z' <=> DCSTA' = {}
    BY <1>2, Zenon DEF Restored
  <2>4. CASE pc' = "LD7A0" /\ stack.top = Return("LD7A0")
    <3>1. request'.op = Restore
      BY <1>2, <2>2, <2>4 DEF Restored, Agreement, StackAgrees, OfRestore, RestoreAsked
    <3> QED BY <2>2, <2>4, <3>1, ToAnswer DEF Transferred, Restore, Read, Write
  <2>5. CASE pc' = "line 133"
    BY <2>2, <2>3, <2>5, ToAnswer
  <2> QED BY <1>2, <2>1, <2>4, <2>5, RestoreReturns DEF Restored
<1> QED BY <1>1, <1>2

\* A return from LD7D1, with what it leaves in the zero flag and in DCSTA.
LEMMA AgreementAfterWait ==
    ASSUME Agreement, ~nmi', pc \in OfWait, stack \in WaitStacks, Rts(stack),
           command' = "none", UNCHANGED request, Z' \/ DCSTA' # {},
           Z' => trackReg' = trackReg /\ pc = "LD7D3" /\ command = "none"
    PROVE  Agreement'
<1>1. CASE pc' = "line 107"
  BY <1>1, ToAnswer
<1>2. CASE pc' = "line 149" /\ stack.top = Return("line 149") /\ stack' = stack.below
  <2>1. stack'.top = Return("LD7A0") => request'.op = Restore
    BY <1>2 DEF Agreement, StackAgrees, RestoreAsked
  <2> QED BY <1>2, <2>1, ToRestore DEF OfRestore
<1>3. CASE pc' = "line 202" /\ stack.top = Return("line 202") /\ stack' = stack.below
  <2>1. stack'.top.flag = request'.op
    BY <1>3 DEF Agreement, StackAgrees, FlagAsked
  <2>2. Z' => trackReg' = request'.track
    BY <1>3 DEF Agreement, Seeking
  <2> QED BY <1>3, <2>1, <2>2, ToTransfer DEF OfTransfer
<1> QED BY <1>1, <1>2, <1>3, WaitReturns

LEMMA AgreementInWait ==
    ASSUME Control, Agreement, ~nmi', NotBusy \/ TimeOut \/ LD7DF
    PROVE  Agreement'
<1> USE DEF At, Goto, device, memory, OfWait
<1>1. CASE NotBusy
  <2>1. stack \in WaitStacks /\ pc = "LD7D3"
    BY <1>1 DEF NotBusy, Control, StackDiscipline
  <2>2. command = "none" /\ Rts(stack) /\ UNCHANGED <<command, request, trackReg>>
    BY <1>1 DEF NotBusy
  <2>3. Z'
    BY <1>1, Zenon DEF NotBusy
  <2> QED BY <2>1, <2>2, <2>3, AgreementAfterWait
<1>2. CASE TimeOut
  <2>1. pc \in OfWait /\ pc' = "LD7DF" /\ UNCHANGED <<stack, request, command>>
    BY <1>2 DEF TimeOut
  <2>2. Seeking'
    BY <2>1 DEF Seeking
  <2> QED BY <2>1, <2>2, ToWait DEF Agreement, StackAgrees, RestoreAsked, FlagAsked
<1>3. CASE LD7DF
  <2>1. DCSTA' # {} /\ command' = "none" /\ Rts(stack) /\ UNCHANGED request
    BY <1>3 DEF LD7DF
  <2>2. ~Z'
    BY <1>3, Zenon DEF LD7DF
  <2>3. CASE stack \in WaitStacks
    BY <1>3, <2>1, <2>2, <2>3, AgreementAfterWait DEF LD7DF
  <2>4. CASE stack \in CommandStacks
    BY <2>1, <2>4, CommandReturns, ToAnswer
  <2> QED BY <1>3, <2>3, <2>4 DEF LD7DF, Control, StackDiscipline
<1> QED BY <1>1, <1>2, <1>3

LEMMA AgreementInSeek ==
    ASSUME Control, Agreement, ~nmi', LD7F8 \/ LD7FB \/ SeekTimedOut \/ Sought
    PROVE  Agreement'
<1> USE DEF At, Goto, device, memory
<1>1. ASSUME NEW label \in {"LD7F8", "LD7FB"}, NEW op \in {Read, Write}, Transfer(label, op),
             request.op = op, command = "none"
      PROVE  Agreement'
  <2>1. UNCHANGED request
    BY <1>1 DEF Transfer
  <2>2. CASE /\ DR0TRK[DCDRV] = request.track
             /\ pc' = "LD82C"
             /\ stack' = Push(Flag(op), stack)
             /\ UNCHANGED <<dataReg, DR0TRK, command, drq, status, late, faults>>
    <3>1. trackReg' = request'.track /\ stack'.top.flag = request'.op /\ command' = "none"
      BY <1>1, <2>1, <2>2, Pushed DEF Transfer
    <3> QED BY <2>2, <3>1, ToTransfer DEF OfTransfer
  <2>3. CASE /\ dataReg' = request.track
             /\ Send("seek")
             /\ pc' = "LD7D3"
             /\ stack' = Push(Return("line 202"), Push(Flag(op), stack))
    <3>7. stack' = Push(Return("line 202"), Push(Flag(op), stack))
      BY <2>3, Zenon
    <3>4. stack'.top = Return("line 202") /\ stack'.below = Push(Flag(op), stack)
      BY <3>7, Pushed, Zenon
    <3>5. stack'.below.top.flag = request'.op
      <4>1. stack'.below.top.flag = op
        <5>1. Push(Flag(op), stack).top = Flag(op) /\ Flag(op).flag = op
          BY Pushed
        <5> QED BY <3>4, <5>1
      <4> QED BY <1>1, <2>1, <4>1
    <3>6. command' = "seek"
      BY <2>3, Zenon DEF Send
    <3>1. /\ stack'.top = Return("line 202") /\ stack'.below.top.flag = request'.op
          /\ command' = "seek"
      BY <3>4, <3>5, <3>6
    <3>2. Seeking'
      BY <2>1, <2>3, <3>1 DEF Seeking
    <3>3. stack'.top # Return("line 149")
      BY <3>1, ReturnsDiffer
    <3> QED BY <2>3, <3>1, <3>2, <3>3, ToWait DEF OfWait
  <2> QED BY <1>1, <2>2, <2>3 DEF Transfer
<1>2. CASE LD7F8
  <2>1. request.op = Read /\ command = "none"
    BY <1>2 DEF LD7F8, Transfer, Agreement, StackAgrees, Quiet, Resting
  <2> QED BY <1>1, <1>2, <2>1 DEF LD7F8
<1>3. CASE LD7FB
  <2>1. request.op = Write /\ command = "none"
    BY <1>3 DEF LD7FB, Transfer, Agreement, StackAgrees, Quiet, Resting
  <2> QED BY <1>1, <1>3, <2>1 DEF LD7FB
<1>4. CASE SeekTimedOut
  <2>1. command' = "none" /\ DCSTA' # {}
    BY <1>4 DEF SeekTimedOut, Agreement, Quiet, Resting, Answers
  <2>2. stack.below \in CommandStacks
    BY <1>4, FlagShape DEF SeekTimedOut, Control, StackDiscipline, OfTransfer
  <2>3. pc' = "LD7A0"
    BY <1>4, <2>2, CommandReturns DEF SeekTimedOut
  <2> QED BY <2>1, <2>3, ToAnswer
<1>5. CASE Sought
  <2>1. command' = "none" /\ trackReg = request.track /\ UNCHANGED <<trackReg, request>>
    BY <1>5 DEF Sought, Agreement, Quiet, Resting, OnTrack
  <2>2. CASE A' = {}
    <3>1. pc' = "LD82C" /\ UNCHANGED stack
      BY <1>5, <2>2, Zenon DEF Sought
    <3>2. stack.top.flag = request.op
      BY <1>5 DEF Sought, Agreement, StackAgrees, OfTransfer, FlagAsked
    <3> QED BY <2>1, <3>1, <3>2, ToTransfer DEF OfTransfer
  <2>3. CASE A' # {}
    <3>1. stack.below \in CommandStacks
      BY <1>5, FlagShape DEF Sought, Control, StackDiscipline, OfTransfer
    <3>3. Rts(stack.below) /\ DCSTA' = A'
      BY <1>5, <2>3, Zenon DEF Sought
    <3>2. pc' = "LD7A0" /\ DCSTA' # {}
      BY <2>3, <3>1, <3>3, CommandReturns
    <3> QED BY <2>1, <3>2, ToAnswer
  <2> QED BY <2>2, <2>3
<1> QED BY <1>2, <1>3, <1>4, <1>5

LEMMA AgreementInTransfer ==
    ASSUME Control, Agreement, ~nmi, ~nmi',
           \/ LD82C \/ ArmNMI \/ SendTransfer \/ DataAskedFor \/ NoDataAskedFor \/ LD863
           \/ Unmask \/ LD88B
    PROVE  Agreement'
<1> USE DEF At, Goto, device, memory, fdc, registers
<1>0. ASSUME pc \in Addressed, UNCHANGED <<trackReg, sectorReg, B, request>>
      PROVE  InPlace'
  BY <1>0 DEF Agreement, OnTrack, InPlace
<1>1. CASE LD82C
  <2>1. trackReg = request.track /\ command = "none" /\ stack.top.flag = request.op
    BY <1>1 DEF LD82C, Agreement, Quiet, Resting, OnTrack, StackAgrees, OfTransfer, FlagAsked
  <2>2. stack.top.flag \in {Read, Write}
    BY <1>1, FlagShape, Pushed DEF LD82C, Control, StackDiscipline, OfTransfer
  <2>3. InPlace' /\ command' = "none" /\ pc' = "line 220"
    BY <1>1, <2>1, <2>2 DEF LD82C, InPlace
  <2> QED BY <2>3, ToAddressed
<1>2. CASE ArmNMI
  <2>1. pc = "line 220" /\ pc' = "line 221" /\ UNCHANGED <<command, trackReg, sectorReg, B, request>>
    BY <1>2 DEF ArmNMI
  <2>2. InPlace' /\ command' = "none"
    BY <1>0, <2>1 DEF Addressed, Agreement, Quiet, Resting
  <2> QED BY <2>1, <2>2, ToAddressed
<1>3. CASE SendTransfer
  <2>1. /\ pc = "line 221" /\ pc' \in {"LD877", "LD85B"}
        /\ UNCHANGED <<trackReg, sectorReg, B, request>>
        /\ command' = IF B = Read THEN "read" ELSE "write"
    BY <1>3 DEF SendTransfer, Send
  <2>2. InPlace' /\ command' # "none"
    BY <1>0, <2>1 DEF Addressed
  <2> QED BY <2>1, <2>2, ToTransferring DEF Transferring
<1>4. CASE DataAskedFor \/ NoDataAskedFor \/ LD863
  <2>1. pc \in Transferring /\ pc' \in Transferring
    BY <1>4 DEF DataAskedFor, NoDataAskedFor, LD863, Transferring
  <2>2. UNCHANGED <<command, trackReg, sectorReg, B, request, status, buffer, disk>>
    BY <1>4 DEF DataAskedFor, NoDataAskedFor, LD863
  <2>3. InPlace'
    BY <1>0, <2>1, <2>2 DEF Addressed
  <2>4. command \in {"none", IF B = Read THEN "read" ELSE "write"}
    BY <2>1 DEF Agreement, OnTrack
  <2>5. command' = "none" /\ status' \ {1, 2, NotReady} = {} => Transferred'
    BY <2>1, <2>2 DEF Agreement, Answers, Transferred, Asked
  <2> QED BY <2>1, <2>2, <2>3, <2>4, <2>5, ToTransferring
<1>5. CASE Unmask
  <2>1. pc' = "LD7DF" /\ UNCHANGED stack
    BY <1>5 DEF Unmask
  <2>2. stack.top = Return("LD7A0")
    BY <1>5, CommandShape DEF Unmask, Control, StackDiscipline, OfCommand
  <2>3. stack'.top # Return("line 149") /\ stack'.top # Return("line 202")
    BY <2>1, <2>2, ReturnsDiffer
  <2> QED BY <2>1, <2>3, ToWait DEF OfWait, Seeking
<1>6. CASE LD88B
  <2>1. command' = "none" /\ UNCHANGED <<request, buffer, disk>>
    BY <1>6 DEF LD88B, Agreement, Quiet, Resting
  <2>2. stack \in CommandStacks
    BY <1>6 DEF LD88B, Control, StackDiscipline, OfCommand
  <2>3. pc' = "LD7A0"
    BY <1>6, <2>2, CommandReturns DEF LD88B
  <2>4. command = "none" /\ DCSTA' = status \ {1, 2, NotReady}
    BY <1>6 DEF LD88B, Agreement, Quiet, Resting
  <2>5. DCSTA' = {} => Transferred'
    BY <1>6, <2>1, <2>4 DEF LD88B, Agreement, Answers, Transferred, Asked
  <2> QED BY <2>1, <2>3, <2>5, ToAnswer
<1> QED BY <1>1, <1>2, <1>3, <1>4, <1>5, <1>6

LEMMA AgreementByProcessor ==
    ASSUME Control, Agreement, Processor
    PROVE  Agreement'
BY NoNmi, AgreementInCall, AgreementInRestore, AgreementInWait, AgreementInSeek,
   AgreementInTransfer DEF Processor

ContentsOK == buffer \in Values /\ disk \in [Places -> Values]

LEMMA TransferStep ==
    ASSUME MemoryOK, DeviceOK, MotorsOK, Agreement, ContentsOK, FdcTransfers
    PROVE  /\ Agreement' /\ ContentsOK'
           /\ \/ request.op = Read /\ UNCHANGED disk
              \/ /\ request.op = Write /\ UNCHANGED buffer
                 /\ \E v \in Values : disk' = [disk EXCEPT ![Asked] = v]
<1>1. pc \in {"LD86B", "LD881"} /\ UNCHANGED <<pc, request, trackReg, sectorReg, B>>
  BY DEF FdcTransfers, registers
<1>2. InPlace /\ InPlace'
  BY <1>1 DEF Agreement, OnTrack, Addressed, Transferring, InPlace
<1>3. command = IF request.op = Read THEN "read" ELSE "write"
  <2>1. command \in {"read", "write"}
    BY DEF FdcTransfers, DeviceOK
  <2> QED BY <1>1, <1>2, <2>1 DEF Agreement, OnTrack, Transferring, InPlace
<1>4. Place = Asked
  <2>1. DSKREG.drive = DCDRV
    BY <1>1, MotorParts DEF MotorsOK, Early, Turning
  <2> QED BY <1>2, <2>1 DEF Place, Asked, InPlace, DCDRV
<1>5. Place \in Places /\ disk[Place] \in Values /\ Torn \in Values
  BY <1>2, <1>4, RequestParts DEF MemoryOK, InPlace, ContentsOK, Values
<1>6. command' = "none"
  BY DEF FdcTransfers, Done
<1>7. Moved(TRUE) \/ (Moved(FALSE) /\ status' \ {1, 2, NotReady} # {})
  <2>1. \/ Moved(TRUE)
        \/ Moved(FALSE) /\ \E e \in {CRCError, LostData} : status' = {e}
    BY DEF FdcTransfers, Done
  <2>2. ASSUME NEW e \in {CRCError, LostData} PROVE {e} \ {1, 2, NotReady} # {}
    BY DEF CRCError, LostData, NotReady
  <2> QED BY <2>1, <2>2
<1>8. CASE command = "read"
  <2>1. request.op = Read /\ UNCHANGED disk /\ buffer' \in {disk[Place], Torn}
    BY <1>2, <1>3, <1>7, <1>8 DEF Moved, InPlace
  <2>2. ContentsOK'
    BY <1>5, <2>1 DEF ContentsOK
  <2>3. Moved(TRUE) => Transferred'
    BY <1>1, <1>4, <1>8, <2>1 DEF Moved, Transferred, Asked
  <2>4. status' \ {1, 2, NotReady} = {} => Transferred'
    BY <1>7, <2>3
  <2>5. Agreement'
    BY <1>1, <1>2, <1>6, <2>4, ToTransferring DEF Transferring
  <2> QED BY <2>1, <2>2, <2>5
<1>9. CASE command = "write"
  <2>1. PICK v \in Values : disk' = [disk EXCEPT ![Place] = v]
    BY <1>5, <1>7, <1>9 DEF Moved, ContentsOK
  <2>2. request.op = Write /\ UNCHANGED buffer
    BY <1>2, <1>3, <1>7, <1>9 DEF Moved, InPlace
  <2>3. ContentsOK'
    BY <1>5, <2>1, <2>2 DEF ContentsOK
  <2>4. Moved(TRUE) => Transferred'
    <3> SUFFICES ASSUME Moved(TRUE) PROVE Transferred'
      OBVIOUS
    <3>1. disk' = [disk EXCEPT ![Place] = buffer]
      BY <1>9 DEF Moved
    <3>2. disk'[Place] = buffer
      BY <1>5, <3>1 DEF ContentsOK
    <3> QED BY <1>1, <1>4, <2>2, <3>2 DEF Transferred, Asked
  <2>5. status' \ {1, 2, NotReady} = {} => Transferred'
    BY <1>7, <2>4
  <2>6. Agreement'
    BY <1>1, <1>2, <1>6, <2>5, ToTransferring DEF Transferring
  <2> QED BY <1>4, <2>1, <2>2, <2>3, <2>6
<1> QED BY <1>3, <1>8, <1>9

LEMMA AgreementUntouched ==
    ASSUME Agreement, nmi' => nmi,
           UNCHANGED <<pc, stack, request, B, Z, DCSTA, buffer, disk, command, status,
                       trackReg, dataReg, sectorReg>>
    PROVE  Agreement'
<1>1. Quiet' /\ StackAgrees'
  BY DEF Agreement, Quiet, StackAgrees, RestoreAsked, FlagAsked
<1>2. Seeking' /\ OnTrack'
  BY DEF Agreement, Seeking, OnTrack
<1>3. Answers'
  BY DEF Agreement, Answers, Transferred, Asked
<1> QED BY <1>1, <1>2, <1>3 DEF Agreement

LEMMA AgreementByController ==
    ASSUME MemoryOK, DeviceOK, MotorsOK, Agreement, ContentsOK, Controller
    PROVE  Agreement'
<1>1. CASE FdcTransfers
  BY <1>1, TransferStep
<1>2. CASE FdcAsksForData
  <2>1. UNCHANGED <<pc, stack, request, B, Z, DCSTA, buffer, disk, command, status,
                    trackReg, dataReg, sectorReg, nmi>>
    BY <1>2 DEF FdcAsksForData, program, drives
  <2> QED BY <2>1, AgreementUntouched
<1>3. CASE FdcLosesData
  <2>1. /\ pc \in Transferring /\ command' = "none" /\ status' = {LostData}
        /\ UNCHANGED <<pc, request, B, trackReg, sectorReg>>
    BY <1>3 DEF FdcLosesData, Done, program, Transferring
  <2>2. status' \ {1, 2, NotReady} # {}
    BY <2>1 DEF LostData, NotReady
  <2>3. InPlace'
    BY <2>1 DEF Agreement, OnTrack, InPlace, Addressed
  <2> QED BY <2>1, <2>2, <2>3, ToTransferring
<1>4. CASE FdcFindsNoRecord
  <2>1. /\ command \in {"read", "write"} /\ command' = "none" /\ status' = {SeekError}
        /\ UNCHANGED <<pc, stack, request, B, Z, DCSTA, trackReg, dataReg, sectorReg>>
    BY <1>4 DEF FdcFindsNoRecord, Done, program
  <2>2. status' \ {1, 2, NotReady} # {}
    BY <2>1 DEF SeekError, NotReady
  <2>3. pc \notin Resting
    BY <2>1 DEF Agreement, Quiet
  <2>4. Quiet' /\ StackAgrees'
    BY <2>1, <2>3 DEF Agreement, Quiet, StackAgrees, RestoreAsked, FlagAsked
  <2>5. Seeking' /\ OnTrack'
    BY <2>1 DEF Agreement, Seeking, OnTrack
  <2>6. Answers'
    BY <2>1, <2>2, <2>3 DEF Answers, Resting
  <2> QED BY <2>4, <2>5, <2>6 DEF Agreement
<1>5. CASE FdcRestores \/ FdcSeeks
  <2>1. /\ command \in {"restore", "seek"} /\ command' = "none"
        /\ UNCHANGED <<pc, stack, request, B, Z, DCSTA, dataReg, sectorReg>>
        /\ command = "seek" => trackReg' = dataReg
    BY <1>5 DEF FdcRestores, FdcSeeks, Done, program
  <2>2. pc \notin Resting
    BY <2>1 DEF Agreement, Quiet
  <2>3. pc \notin Transferring
    BY <2>1 DEF Agreement, OnTrack
  <2>4. Quiet' /\ StackAgrees'
    BY <2>1, <2>2 DEF Agreement, Quiet, StackAgrees, RestoreAsked, FlagAsked
  <2>5. Seeking'
    BY <2>1 DEF Agreement, Seeking
  <2>6. OnTrack' /\ Answers'
    BY <2>1, <2>2, <2>3 DEF OnTrack, Answers, Resting, Addressed
  <2> QED BY <2>4, <2>5, <2>6 DEF Agreement
<1> QED BY <1>1, <1>2, <1>3, <1>4, <1>5 DEF Controller

LEMMA AgreementKept ==
    ASSUME Control, MemoryOK, DeviceOK, MotorsOK, Agreement, ContentsOK, [Next]_vars
    PROVE  Agreement'
<1>2. CASE UNCHANGED vars
  BY <1>2, AgreementUntouched DEF vars, program, device
<1>3. CASE IrqService
  <2>1. UNCHANGED <<pc, stack, request, B, Z, DCSTA, buffer, disk, command, status,
                    trackReg, dataReg, sectorReg, nmi>>
    BY <1>3 DEF IrqService, registers, fdc
  <2> QED BY <2>1, AgreementUntouched
<1>4. CASE NmiService
  <2>1. ~nmi' /\ nmi
    BY <1>4, Zenon DEF NmiService
  <2>2. UNCHANGED <<stack, request, B, Z, DCSTA, buffer, disk, command, status,
                    trackReg, dataReg, sectorReg>>
    BY <1>4 DEF NmiService, registers, memory, drives
  <2>3. CASE ~NMIFLG
    <3>1. UNCHANGED pc
      BY <1>4, <2>3 DEF NmiService
    <3> QED BY <2>1, <2>2, <3>1, AgreementUntouched
  <2>4. CASE NMIFLG
    <3>1. pc' = "LD88B" /\ pc \in Armed
      BY <1>4, <2>4 DEF NmiService, Control
    <3>2. command = "none" /\ pc \notin Resting
      BY <2>1 DEF Agreement, Quiet
    <3>3. pc \in Transferring
      BY <3>1, <3>2 DEF Armed, Resting, Transferring
    <3>4. status' \ {1, 2, NotReady} = {} => Transferred'
      BY <2>2, <3>2, <3>3 DEF Agreement, Answers, Transferred, Asked
    <3> QED BY <2>1, <2>2, <3>1, <3>2, <3>4, ToLD88B
  <2> QED BY <2>3, <2>4
<1>5. CASE \E r \in Requests : Call(r)
  BY <1>5, ToPlain DEF Call, Entered, fdc, Plain, Agreement, Quiet
<1>6. CASE DskconInit \/ DskconShutdown
  <2>1. pc' = "idle" /\ UNCHANGED <<nmi, command>>
    BY <1>6 DEF DskconInit, DskconShutdown, device
  <2> QED BY <2>1, ToPlain DEF Plain, Agreement, Quiet
<1> QED
  BY <1>2, <1>3, <1>4, <1>5, <1>6, AgreementByProcessor, AgreementByController DEF Next

LEMMA Untouched ==
    ASSUME \/ Processor \/ NmiService \/ IrqService \/ DskconInit \/ DskconShutdown
           \/ FdcRestores \/ FdcSeeks \/ FdcAsksForData \/ FdcFindsNoRecord \/ FdcLosesData
    PROVE  UNCHANGED <<buffer, disk>>
<1> USE DEF memory, device, drives
<1>1. CASE NmiService \/ IrqService \/ DskconInit \/ DskconShutdown
  BY <1>1 DEF NmiService, IrqService, DskconInit, DskconShutdown
<1>2. CASE FdcRestores \/ FdcSeeks \/ FdcAsksForData \/ FdcFindsNoRecord \/ FdcLosesData
  BY <1>2 DEF FdcRestores, FdcSeeks, FdcAsksForData, FdcFindsNoRecord, FdcLosesData, program
<1>3. CASE LD765 \/ ReadImage \/ LD77E \/ ProgramDSKREG \/ LA7D1 \/ LD792 \/ NotReadyAtFirst
            \/ Dispatch \/ LD7A0 \/ Retry \/ LD7B1 \/ LD7B8 \/ Restored \/ NotBusy
  BY <1>3 DEF LD765, ReadImage, LD77E, ProgramDSKREG, LA7D1, LD792, NotReadyAtFirst,
              Dispatch, LD7A0, Retry, LD7B1, LD7B8, Restored, NotBusy
<1>4. CASE TimeOut \/ LD7DF \/ LD7F8 \/ LD7FB \/ SeekTimedOut \/ Sought \/ LD82C
            \/ ArmNMI \/ SendTransfer \/ DataAskedFor \/ NoDataAskedFor \/ LD863 \/ Unmask
            \/ LD88B
  BY <1>4 DEF TimeOut, LD7DF, LD7F8, LD7FB, Transfer, SeekTimedOut, Sought, LD82C,
              ArmNMI, SendTransfer, DataAskedFor, NoDataAskedFor, LD863, Unmask, LD88B
<1> QED BY <1>1, <1>2, <1>3, <1>4 DEF Processor

LEMMA ContentsKept ==
    ASSUME MemoryOK, DeviceOK, MotorsOK, Agreement, ContentsOK, [Next]_vars
    PROVE  ContentsOK'
<1>1. CASE UNCHANGED vars
  BY <1>1 DEF vars, program, device, ContentsOK
<1>2. CASE FdcTransfers
  BY <1>2, TransferStep
<1>3. CASE \E r \in Requests : Call(r)
  <2>1. UNCHANGED disk /\ buffer' \in WriteData \cup {Blank}
    BY <1>3 DEF Call, drives
  <2> QED BY <2>1 DEF ContentsOK, Values
<1>4. CASE UNCHANGED <<buffer, disk>>
  BY <1>4 DEF ContentsOK
<1> QED BY <1>1, <1>2, <1>3, <1>4, Untouched DEF Next, Controller

Everything == Kinds /\ MotorsOK /\ Agreement /\ ContentsOK

\* What the program has on its stack and in its registers, what the controller
\* has in its own and what the caller has asked for agree at every label.
THEOREM EverythingAlways == Spec => []Everything
<1>1. Init => Agreement /\ ContentsOK
  <2> SUFFICES ASSUME Init PROVE Agreement /\ ContentsOK
    OBVIOUS
  <2>1. pc = "idle" /\ ~nmi
    BY Zenon DEF Init
  <2>2. Quiet /\ StackAgrees
    BY <2>1 DEF Quiet, StackAgrees, Resting, OfRestore, OfTransfer, OfWait
  <2>3. Seeking /\ OnTrack /\ Answers
    BY <2>1 DEF Seeking, OnTrack, Answers, Addressed, Transferring
  <2>4. ContentsOK
    <3>1. Contents \in [Places -> Values]
      BY ContentsAssumption DEF Values
    <3> QED BY <3>1 DEF Init, ContentsOK, Values
  <2> QED BY <2>2, <2>3, <2>4 DEF Agreement
<1>2. Control /\ Kinds /\ MotorsOK /\ (Agreement /\ ContentsOK) /\ [Next]_vars
          => (Agreement /\ ContentsOK)'
  BY AgreementKept, ContentsKept DEF Kinds
<1> QED BY <1>1, <1>2, ControlAlways, KindsAlways, MotorsAlways, PTL DEF Spec, Everything

-----------------------------------------------------------------------------
(* dskcon_processSector() keeps what it promises. *)

\* A step within a call that moves no data is none of the store's.
LEMMA WithinCall ==
    ASSUME pc # "idle", pc' # "idle", UNCHANGED <<request, buffer, disk>>
    PROVE  UNCHANGED Store!storeVars
BY DEF Store!storeVars

LEMMA ProcessorIsStore ==
    ASSUME Control, Everything, Processor
    PROVE  [Store!StoreNext]_(Store!storeVars)
<1>0. UNCHANGED <<buffer, disk>>
  BY Untouched
<1> USE DEF At, Goto, Bsr, memory
<1>1. CASE LD7B1
  <2>1. pc = "LD7B1" /\ pc' = "idle" /\ UNCHANGED <<request, DCSTA>>
    BY <1>1 DEF LD7B1
  <2>2. DCSTA = {} => Store!Transferred
    BY <2>1 DEF Everything, Agreement, Answers, Transferred, Store!Transferred,
                Store!Address, Asked
  <2>3. Store!Answer(DCSTA = {})
    BY <1>0, <2>1, <2>2 DEF Store!Answer
  <2> QED BY <2>3 DEF Store!StoreNext
<1>2. CASE LD765 \/ ReadImage \/ LD77E \/ ProgramDSKREG \/ LA7D1 \/ LD792 \/ NotReadyAtFirst
            \/ Dispatch \/ LD7A0 \/ Retry \/ LD7B8 \/ TimeOut
  <2>1. pc # "idle" /\ pc' # "idle" /\ UNCHANGED request
    BY <1>2 DEF LD765, ReadImage, LD77E, ProgramDSKREG, LA7D1, LD792, NotReadyAtFirst,
                Dispatch, LD7A0, Retry, LD7B8, TimeOut
  <2> QED BY <1>0, <2>1, WithinCall
<1>3. CASE Restored \/ NotBusy \/ LD7DF \/ SeekTimedOut \/ Sought \/ LD88B
  <2>1. pc # "idle" /\ UNCHANGED request
    BY <1>3 DEF Restored, NotBusy, LD7DF, SeekTimedOut, Sought, LD88B
  <2>2. pc' # "idle"
    BY <1>3, ReturnsThere DEF ReturnLabels
  <2> QED BY <1>0, <2>1, <2>2, WithinCall
<1>4. CASE LD7F8 \/ LD7FB \/ LD82C \/ ArmNMI \/ SendTransfer \/ DataAskedFor
            \/ NoDataAskedFor \/ LD863 \/ Unmask
  <2>1. pc # "idle" /\ pc' # "idle" /\ UNCHANGED request
    BY <1>4 DEF LD7F8, LD7FB, Transfer, LD82C, ArmNMI, SendTransfer, DataAskedFor,
                NoDataAskedFor, LD863, Unmask
  <2> QED BY <1>0, <2>1, WithinCall
<1> QED BY <1>1, <1>2, <1>3, <1>4 DEF Processor

LEMMA ControllerIsStore ==
    ASSUME Everything, Controller
    PROVE  [Store!StoreNext]_(Store!storeVars)
<1>1. CASE FdcTransfers
  <2>1. /\ pc \in {"LD86B", "LD881"} /\ UNCHANGED <<pc, request>>
        /\ \/ request.op = Read /\ UNCHANGED disk
           \/ /\ request.op = Write /\ UNCHANGED buffer
              /\ \E v \in Values : disk' = [disk EXCEPT ![Asked] = v]
    BY <1>1, TransferStep DEF FdcTransfers, Everything, Kinds
  <2>2. buffer' \in Values
    BY <1>1, TransferStep DEF Everything, Kinds, ContentsOK
  <2>3. pc # "idle" /\ pc' # "idle"
    BY <2>1
  <2>4. Store!Attempt
    BY <2>1, <2>2, <2>3 DEF Store!Attempt, Store!Address, Asked
  <2> QED BY <2>4 DEF Store!StoreNext
<1>2. CASE FdcRestores \/ FdcSeeks \/ FdcAsksForData \/ FdcFindsNoRecord \/ FdcLosesData
  <2>1. UNCHANGED <<buffer, disk>>
    BY <1>2, Untouched
  <2>2. UNCHANGED <<pc, request, DCSTA>>
    BY <1>2 DEF FdcRestores, FdcSeeks, FdcAsksForData, FdcFindsNoRecord, FdcLosesData, program
  <2> QED BY <2>1, <2>2 DEF Store!storeVars
<1> QED BY <1>1, <1>2 DEF Controller

LEMMA StepIsStore ==
    ASSUME Control, Everything, [Next]_vars
    PROVE  [Store!StoreNext]_(Store!storeVars)
<1>1. CASE UNCHANGED vars
  BY <1>1 DEF vars, program, device, Store!storeVars
<1>2. CASE NmiService
  <2>1. UNCHANGED <<request, buffer, disk, DCSTA>>
    BY <1>2 DEF NmiService, memory, drives
  <2>2. CASE NMIFLG
    <3>1. pc # "idle" /\ pc' # "idle"
      BY <1>2, <2>2 DEF NmiService, Control, Armed
    <3> QED BY <2>1, <3>1, WithinCall
  <2>3. CASE ~NMIFLG
    <3>1. UNCHANGED pc
      BY <1>2, <2>3 DEF NmiService
    <3> QED BY <2>1, <3>1 DEF Store!storeVars
  <2> QED BY <2>2, <2>3
<1>3. CASE IrqService \/ DskconShutdown
  <2>1. UNCHANGED <<pc, request, buffer, disk, DCSTA>>
    BY <1>3 DEF IrqService, DskconShutdown, device
  <2> QED BY <2>1 DEF Store!storeVars
<1>4. CASE DskconInit
  <2>1. pc = "idle" /\ UNCHANGED <<pc, buffer, disk>> /\ request' = NoRequest /\ DCSTA' = {}
    BY <1>4 DEF DskconInit, device
  <2>2. Store!Reset
    BY <2>1 DEF Store!Reset
  <2> QED BY <2>2 DEF Store!StoreNext
<1>5. CASE \E r \in Requests : Call(r)
  <2>1. PICK r \in Requests : Call(r)
    BY <1>5
  <2>2. pc = "idle" /\ pc' = "LD765" /\ request' = r /\ UNCHANGED disk
    BY <2>1 DEF Call, Entered, drives
  <2>3. buffer' \in IF r.op = Write THEN WriteData ELSE {Blank}
    BY <2>1, Zenon DEF Call
  <2>4. Store!Start(r)
    BY <2>2, <2>3 DEF Store!Start
  <2> QED BY <2>4 DEF Store!StoreNext
<1> QED BY <1>1, <1>2, <1>3, <1>4, <1>5, ProcessorIsStore, ControllerIsStore DEF Next

\* What a caller is told is true: a sector that is said to be read is in the
\* buffer, one that is said to be written is on the disk, and no other sector is
\* touched, for any drives and sectors, any faults, and whatever comes in between.
THEOREM KeepsThePromise == Spec => IsSectorStore
<1>1. Init => Store!StoreInit
  BY DEF Init, Store!StoreInit
<1>2. Control /\ Everything /\ [Next]_vars => [Store!StoreNext]_(Store!storeVars)
  BY StepIsStore
<1> QED BY <1>1, <1>2, ControlAlways, EverythingAlways, PTL
        DEF Spec, IsSectorStore, Store!StoreSpec

-----------------------------------------------------------------------------
(* The types. *)

Booleans ==
    /\ Z \in BOOLEAN /\ irqMask \in BOOLEAN /\ installed \in BOOLEAN /\ NMIFLG \in BOOLEAN
    /\ atSpeed \in BOOLEAN /\ late \in BOOLEAN /\ drq \in BOOLEAN /\ nmi \in BOOLEAN

LEMMA BooleansKept == ASSUME MemoryOK, Booleans, [Next]_vars PROVE Booleans'
<1> USE DEF memory, device, drives, registers, fdc
<1>0. DSKREG.motor \in BOOLEAN
  BY DEF MemoryOK, Images
<1>1. CASE UNCHANGED vars
  BY <1>1 DEF vars, program, Booleans
<1>2. CASE Controller
  <2>1. UNCHANGED <<Z, irqMask, installed, NMIFLG, atSpeed>>
    BY <1>2 DEF Controller, FdcRestores, FdcSeeks, FdcAsksForData, FdcFindsNoRecord,
                FdcTransfers, FdcLosesData, program
  <2>2. \/ late' = FALSE /\ drq' = FALSE /\ nmi' = TRUE
        \/ drq' = TRUE /\ UNCHANGED <<late, nmi>>
    BY <1>2 DEF Controller, FdcRestores, FdcSeeks, FdcAsksForData, FdcFindsNoRecord,
                FdcTransfers, FdcLosesData, Done
  <2> QED BY <2>1, <2>2 DEF Booleans
<1>3. CASE NmiService
  BY <1>3 DEF NmiService, Booleans
<1>4. CASE IrqService
  <2>1. /\ UNCHANGED <<Z, irqMask, installed, NMIFLG, late, drq, nmi>>
        /\ UNCHANGED atSpeed \/ atSpeed' = FALSE
    BY <1>4 DEF IrqService
  <2> QED BY <2>1 DEF Booleans
<1>5. CASE (\E r \in Requests : Call(r))
  BY <1>5 DEF Call, Booleans
<1>6. CASE DskconInit \/ DskconShutdown
  BY <1>6 DEF DskconInit, DskconShutdown, HandlersIn, HandlersOut, Booleans
<1>7. CASE Processor
  <2>1. CASE LD765 \/ ReadImage \/ LD77E \/ LD792 \/ NotReadyAtFirst \/ Dispatch \/ LD7A0
              \/ Retry \/ LD7B1 \/ TimeOut \/ SeekTimedOut \/ DataAskedFor \/ NoDataAskedFor
    <3>1. UNCHANGED <<Z, irqMask, installed, NMIFLG, atSpeed, late, drq, nmi>>
      BY <2>1 DEF LD765, ReadImage, LD77E, LD792, NotReadyAtFirst, Dispatch, LD7A0, Retry,
                  LD7B1, TimeOut, SeekTimedOut, DataAskedFor, NoDataAskedFor
    <3> QED BY <3>1 DEF Booleans
  <2>2. CASE ProgramDSKREG \/ LA7D1
    <3>1. UNCHANGED <<Z, irqMask, installed, NMIFLG, late, drq, nmi>>
      BY <2>2 DEF ProgramDSKREG, LA7D1
    <3>2. atSpeed' = (atSpeed /\ DSKREG.motor) \/ atSpeed' = DSKREG.motor
      BY <2>2, Zenon DEF ProgramDSKREG, LA7D1
    <3>3. atSpeed' \in BOOLEAN
      BY <1>0, <3>2, Zenon
    <3> QED BY <3>1, <3>3 DEF Booleans
  <2>3. CASE Restored \/ Sought \/ LD88B
    <3>1. UNCHANGED <<installed, NMIFLG, atSpeed, late, drq, nmi>>
      BY <2>3 DEF Restored, Sought, LD88B
    <3>2. Z' \in BOOLEAN
      BY <2>3, Zenon DEF Restored, Sought, LD88B
    <3>3. irqMask' = irqMask \/ irqMask' = FALSE
      BY <2>3, Zenon DEF Restored, Sought, LD88B
    <3> QED BY <3>1, <3>2, <3>3 DEF Booleans
  <2>4. CASE NotBusy
    BY <2>4 DEF NotBusy, Booleans
  <2>5. CASE LD7DF
    BY <2>5 DEF LD7DF, Booleans
  <2>6. CASE LD7B8 \/ LD7F8 \/ LD7FB \/ SendTransfer
    <3>1. UNCHANGED <<Z, installed, NMIFLG, atSpeed, nmi>>
      BY <2>6 DEF LD7B8, LD7F8, LD7FB, Transfer, SendTransfer
    <3>2. irqMask' = irqMask \/ irqMask' = TRUE
      BY <2>6, Zenon DEF LD7B8, LD7F8, LD7FB, Transfer, SendTransfer
    <3>3. UNCHANGED <<late, drq>> \/ \E c : Send(c)
      BY <2>6 DEF LD7B8, LD7F8, LD7FB, Transfer, SendTransfer
    <3>4. UNCHANGED <<late, drq>> \/ (late' \in BOOLEAN /\ drq' = FALSE)
      BY <3>3 DEF Send
    <3> QED BY <3>1, <3>2, <3>4 DEF Booleans
  <2>7. CASE LD82C
    BY <2>7 DEF LD82C, Booleans
  <2>8. CASE ArmNMI \/ LD863 \/ Unmask
    <3>1. UNCHANGED <<Z, installed, atSpeed, late, drq, nmi>>
      BY <2>8 DEF ArmNMI, LD863, Unmask
    <3>2. NMIFLG' = NMIFLG \/ NMIFLG' = ~NMIFLG \/ NMIFLG' = FALSE
      BY <2>8, Zenon DEF ArmNMI, LD863, Unmask
    <3>3. irqMask' = irqMask \/ irqMask' = FALSE
      BY <2>8, Zenon DEF ArmNMI, LD863, Unmask
    <3> QED BY <3>1, <3>2, <3>3, Zenon DEF Booleans
  <2> QED BY <1>7, <2>1, <2>2, <2>3, <2>4, <2>5, <2>6, <2>7, <2>8 DEF Processor
<1> QED BY <1>1, <1>2, <1>3, <1>4, <1>5, <1>6, <1>7 DEF Next

\* The flags are flags.
THEOREM BooleansAlways == Spec => []Booleans
<1>1. Init => Booleans
  <2> SUFFICES ASSUME Init PROVE Booleans
    OBVIOUS
  <2>1. atSpeed \in BOOLEAN /\ late \in BOOLEAN
    BY Zenon DEF Init
  <2> QED BY <2>1 DEF Init, Booleans
<1>2. Kinds => MemoryOK
  BY DEF Kinds
<1> QED BY <1>1, <1>2, KindsAlways, BooleansKept, PTL DEF Spec

\* Every variable of the program and of the controller has its type.
THEOREM TypeCorrect == Spec => []TypeOK
<1>1. ASSUME Control PROVE pc \in Labels /\ stack \in Stacks
  <2>1. pc \in Labels /\ StackDiscipline
    BY <1>1 DEF Control
  <2>2. CommandStacks \subseteq RestoreStacks
    BY DEF RestoreStacks
  <2>3. stack \in {Caller} \cup CallStacks \cup RestoreStacks \cup FlagStacks \cup WaitStacks
    BY <2>1, <2>2 DEF StackDiscipline, Labels
  <2> QED BY <2>1, <2>3 DEF Stacks
<1>2. Control /\ Everything /\ Booleans => TypeOK
  BY <1>1 DEF TypeOK, Everything, Kinds, Statuses, MemoryOK, DeviceOK, RequestOK, Images,
              Booleans, ContentsOK
<1> QED BY <1>2, ControlAlways, EverythingAlways, BooleansAlways, PTL

-----------------------------------------------------------------------------
(* The retries and the faults that they mask. *)

CallStack(n) == Push(Retries(n), Caller)

\* The attempts that are left, with the one in progress.
Left(n) ==
    /\ pc \in OfCall => stack = CallStack(n)
    /\ pc \in OfCommand \cup OfRestore => stack.below = CallStack(n)
    /\ pc \in OfTransfer => stack.below.below = CallStack(n)
    /\ pc \in OfWait =>
           /\ stack.top \in {Return("line 107"), Return("LD7A0")} => stack.below = CallStack(n)
           /\ stack.top = Return("line 149") => stack.below.below = CallStack(n)
           /\ stack.top = Return("line 202") => stack.below.below.below = CallStack(n)

\* Every attempt but the first and the one in progress has cost a fault.
Owing(n) == faults + n >= RetryCount - 1
Paid(n) == faults + n >= RetryCount

\* Where the routine is on its way to the wait for a command, it knows where the
\* head of the drive is.
Before == {"LD765", "line 88", "LD77E", "line 101", "LA7D1", "LD792"}
Aligned == head[DCDRV] = DR0TRK[DCDRV]
Idle == command = "none"

MovesOn ==
    /\ stack.top = Return("line 107") => Idle /\ Aligned
    /\ stack.top = Return("line 149") =>
           /\ DR0TRK[DCDRV] = 0
           /\ \/ command = "restore"
              \/ Idle /\ status = {} /\ head[DCDRV] = 0
    /\ stack.top = Return("line 202") =>
           \/ command = "seek" /\ head[DCDRV] = trackReg
           \/ Idle /\ status = {} /\ head[DCDRV] = request.track

\* An attempt that the controller has not failed, and that will succeed unless
\* it does.
Succeeding ==
    /\ pc # "LD7B8" => ~late
    /\ pc \notin {"LD7DF", "LD863", "line 234"}
    /\ pc \in Before => Idle
    /\ pc \in Before \cup {"line 107", "line 133", "line 149", "LD7F8", "LD7FB"} => Aligned
    /\ pc \in {"line 107", "line 133", "line 202"} => Z
    /\ pc \in {"line 149", "line 202"} => A = {}
    /\ pc = "LD7A0" => DCSTA = {}
    /\ pc = "LD7D3" => MovesOn
    /\ pc \in {"line 202", "LD82C", "line 220", "line 221"} \cup Transferring =>
           head[DCDRV] = request.track
    /\ pc \in Transferring \cup {"LD88B"} /\ Idle => status = {}

Budget ==
    /\ pc \notin OfCaller =>
           /\ request \in Requests
           /\ \E n \in 1..RetryCount : Left(n) /\ Owing(n) /\ (Paid(n) \/ Succeeding)
    /\ pc \in OfCaller /\ DCSTA # {} => faults >= RetryCount - 1

LEMMA LeftThere ==
    ASSUME NEW n,
           \/ pc' \in OfCall /\ stack' = CallStack(n)
           \/ pc' \in OfCommand \cup OfRestore /\ stack'.below = CallStack(n)
           \/ pc' \in OfTransfer /\ stack'.below.below = CallStack(n)
    PROVE  Left(n)'
BY DEF Left, OfCall, OfCommand, OfRestore, OfTransfer, OfWait

LEMMA LeftInWait ==
    ASSUME NEW n, pc' \in OfWait,
           \/ /\ stack'.top \in {Return("line 107"), Return("LD7A0")}
              /\ stack'.below = CallStack(n)
           \/ stack'.top = Return("line 149") /\ stack'.below.below = CallStack(n)
           \/ stack'.top = Return("line 202") /\ stack'.below.below.below = CallStack(n)
    PROVE  Left(n)'
BY ReturnsDiffer DEF Left, OfCall, OfCommand, OfRestore, OfTransfer, OfWait

\* A return to LD7A0 or to line 133.
LEMMA LeftAfterCommand ==
    ASSUME NEW n, NEW s \in RestoreStacks, Rts(s), s.below = CallStack(n)
    PROVE  Left(n)'
<1>1. pc' \in OfCall
  BY RestoreReturns DEF OfCall
<1>2. stack' = CallStack(n)
  BY DEF Rts
<1> QED BY <1>1, <1>2, LeftThere

\* A return from LD7D1.
LEMMA LeftAfterWait ==
    ASSUME NEW n, Left(n), pc \in OfWait, stack \in WaitStacks, Rts(stack)
    PROVE  Left(n)'
<1>0. stack' = stack.below /\ pc' = stack.top.to
  BY DEF Rts
<1>1. CASE stack.top = Return("line 107")
  <2>1. pc' = "line 107" /\ stack' = CallStack(n)
    BY <1>0, <1>1, Pushed DEF Left
  <2> QED BY <2>1, LeftThere DEF OfCall
<1>2. CASE stack.top = Return("line 149")
  <2>1. pc' = "line 149" /\ stack'.below = CallStack(n)
    BY <1>0, <1>2, Pushed DEF Left
  <2> QED BY <2>1, LeftThere DEF OfRestore
<1>3. CASE stack.top = Return("line 202")
  <2>1. pc' = "line 202" /\ stack'.below.below = CallStack(n)
    BY <1>0, <1>3, Pushed DEF Left
  <2> QED BY <2>1, LeftThere DEF OfTransfer
<1> QED BY <1>1, <1>2, <1>3, WaitShape

LEMMA LeftByProcessor ==
    ASSUME Control, Processor, ~LD7A0, ~LD7B1, NEW n, Left(n)
    PROVE  Left(n)'
<1> USE DEF At, Goto, Bsr
<1>1. CASE LD765 \/ ReadImage \/ LD77E \/ ProgramDSKREG \/ LA7D1 \/ NotReadyAtFirst \/ Retry
  <2>1. pc \in OfCall /\ pc' \in OfCall /\ UNCHANGED stack
    BY <1>1 DEF LD765, ReadImage, LD77E, ProgramDSKREG, LA7D1, NotReadyAtFirst, Retry, OfCall
  <2> QED BY <2>1, LeftThere DEF Left
<1>2. CASE LD792
  <2>1. stack = CallStack(n)
    BY <1>2 DEF LD792, Left, OfCall
  <2>2. pc' \in OfWait /\ stack'.top = Return("line 107") /\ stack'.below = CallStack(n)
    BY <1>2, <2>1, Pushed DEF LD792, OfWait
  <2> QED BY <2>2, LeftInWait
<1>3. CASE Dispatch
  <2>1. stack = CallStack(n)
    BY <1>3 DEF Dispatch, Left, OfCall
  <2>2. \/ pc' = "LD7A0" /\ UNCHANGED stack
        \/ pc' \in {"LD7B8", "LD7F8", "LD7FB"} /\ stack' = Push(Return("LD7A0"), stack)
    BY <1>3 DEF Dispatch
  <2>3. CASE pc' = "LD7A0" /\ UNCHANGED stack
    <3>1. pc' \in OfCall /\ stack' = CallStack(n)
      BY <2>1, <2>3 DEF OfCall
    <3> QED BY <3>1, LeftThere
  <2>4. CASE /\ pc' \in {"LD7B8", "LD7F8", "LD7FB"}
             /\ stack' = Push(Return("LD7A0"), stack)
    <3>1. pc' \in OfCommand \cup OfRestore
      BY <2>4 DEF OfCommand, OfRestore
    <3>2. stack'.below = CallStack(n)
      BY <2>1, <2>4, Pushed
    <3> QED BY <3>1, <3>2, LeftThere
  <2> QED BY <2>2, <2>3, <2>4
<1>4. CASE LD7B8
  <2>1. stack.below = CallStack(n)
    BY <1>4 DEF LD7B8, Left, OfRestore
  <2>2. pc' = "LD7D3" /\ stack'.top = Return("line 149") /\ stack'.below = stack
    BY <1>4, Pushed DEF LD7B8
  <2>3. pc' \in OfWait /\ stack'.below.below = CallStack(n)
    BY <2>1, <2>2 DEF OfWait
  <2> QED BY <2>2, <2>3, LeftInWait
<1>5. CASE Restored
  <2>1. stack \in RestoreStacks /\ stack.below = CallStack(n)
    BY <1>5 DEF Restored, Control, StackDiscipline, Left, OfRestore
  <2> QED BY <1>5, <2>1, LeftAfterCommand DEF Restored
<1>6. CASE NotBusy \/ TimeOut \/ LD7DF
  <2>1. CASE TimeOut
    <3>1. pc \in OfWait /\ pc' \in OfWait /\ UNCHANGED stack
      BY <2>1 DEF TimeOut, OfWait
    <3> QED BY <3>1 DEF Left, OfCall, OfCommand, OfRestore, OfTransfer, OfWait
  <2>2. CASE stack \in WaitStacks /\ (NotBusy \/ LD7DF)
    BY <2>2, LeftAfterWait DEF NotBusy, LD7DF, OfWait
  <2>3. CASE stack \in CommandStacks /\ LD7DF
    <3>1. stack.below = CallStack(n)
      BY <2>3, CommandShape DEF LD7DF, Left, OfWait
    <3> QED BY <2>3, <3>1, LeftAfterCommand, RestoreShape DEF LD7DF
  <2> QED BY <1>6, <2>1, <2>2, <2>3 DEF NotBusy, LD7DF, Control, StackDiscipline, OfWait
<1>7. CASE LD7F8 \/ LD7FB
  <2>1. pc \in OfCommand
    BY <1>7 DEF LD7F8, LD7FB, Transfer, OfCommand
  <2>2. stack.below = CallStack(n)
    BY <2>1 DEF Left
  <2>3. PICK op : \/ pc' = "LD82C" /\ stack' = Push(Flag(op), stack)
                  \/ pc' = "LD7D3" /\ stack' = Push(Return("line 202"), Push(Flag(op), stack))
    BY <1>7 DEF LD7F8, LD7FB, Transfer
  <2>4. CASE pc' = "LD82C" /\ stack' = Push(Flag(op), stack)
    <3>1. pc' \in OfTransfer /\ stack'.below = stack
      BY <2>4, Pushed DEF OfTransfer
    <3>2. stack'.below.below = CallStack(n)
      BY <2>2, <3>1
    <3> QED BY <3>1, <3>2, LeftThere
  <2>5. CASE pc' = "LD7D3" /\ stack' = Push(Return("line 202"), Push(Flag(op), stack))
    <3>1. pc' \in OfWait
      BY <2>5 DEF OfWait
    <3>2. stack'.top = Return("line 202") /\ stack'.below = Push(Flag(op), stack)
      BY <2>5, Pushed, Zenon
    <3>3. Push(Flag(op), stack).below = stack
      BY Pushed
    <3>4. stack'.below.below.below = CallStack(n)
      BY <2>2, <3>2, <3>3
    <3> QED BY <3>1, <3>2, <3>4, LeftInWait
  <2> QED BY <2>3, <2>4, <2>5
<1>8. CASE SeekTimedOut \/ Sought
  <2>1. pc = "line 202"
    BY <1>8 DEF SeekTimedOut, Sought
  <2>2. stack.below.below = CallStack(n) /\ stack \in FlagStacks
    BY <2>1 DEF Left, OfTransfer, Control, StackDiscipline
  <2>3. stack.below \in RestoreStacks
    BY <2>2, FlagShape, RestoreShape
  <2>4. Rts(stack.below) \/ (pc' = "LD82C" /\ UNCHANGED stack)
    BY <1>8, Zenon DEF SeekTimedOut, Sought
  <2> QED BY <2>2, <2>3, <2>4, LeftAfterCommand, LeftThere DEF OfTransfer
<1>9. CASE LD82C
  <2>1. stack.below.below = CallStack(n)
    BY <1>9 DEF LD82C, Left, OfTransfer
  <2>2. pc' = "line 220" /\ stack' = stack.below
    BY <1>9 DEF LD82C
  <2> QED BY <2>1, <2>2, LeftThere DEF OfCommand
<1>10. CASE ArmNMI \/ SendTransfer \/ DataAskedFor \/ NoDataAskedFor \/ LD863 \/ Unmask
  <2>1. /\ pc \in OfCommand /\ UNCHANGED stack
        /\ pc' \in OfCommand \/ pc' = "LD7DF"
    BY <1>10 DEF ArmNMI, SendTransfer, DataAskedFor, NoDataAskedFor, LD863, Unmask, OfCommand
  <2>2. stack.below = CallStack(n) /\ stack.top = Return("LD7A0")
    BY <2>1, CommandShape DEF Left, Control, StackDiscipline
  <2>3. CASE pc' \in OfCommand
    BY <2>1, <2>2, <2>3, LeftThere
  <2>4. CASE pc' = "LD7DF"
    <3>1. pc' \in OfWait
      BY <2>4 DEF OfWait
    <3> QED BY <2>1, <2>2, <3>1, LeftInWait
  <2> QED BY <2>1, <2>3, <2>4
<1>11. CASE LD88B
  <2>1. pc \in OfCommand
    BY <1>11 DEF LD88B, OfCommand
  <2>2. stack.below = CallStack(n) /\ stack \in RestoreStacks
    BY <2>1, RestoreShape DEF Left, Control, StackDiscipline
  <2> QED BY <1>11, <2>2, LeftAfterCommand DEF LD88B
<1> QED
  BY <1>1, <1>2, <1>3, <1>4, <1>5, <1>6, <1>7, <1>8, <1>9, <1>10, <1>11
     DEF Processor

LEMMA FaultsGrow ==
    ASSUME Kinds, [Next]_vars, \A r \in Requests : ~Call(r)
    PROVE  faults' \in Int /\ faults' >= faults
<1>0. faults \in Int
  BY DEF Kinds, DeviceOK
<1>1. UNCHANGED faults \/ Fails \/ \E c : Send(c)
  <2> USE DEF device, drives
  <2>1. CASE UNCHANGED vars
    BY <2>1 DEF vars
  <2>2. CASE Controller
    BY <2>2 DEF Controller, FdcRestores, FdcSeeks, FdcAsksForData, FdcFindsNoRecord,
                FdcTransfers, FdcLosesData
  <2>3. CASE NmiService \/ IrqService \/ DskconInit \/ DskconShutdown
    BY <2>3 DEF NmiService, IrqService, DskconInit, DskconShutdown
  <2>4. CASE LD765 \/ ReadImage \/ LD77E \/ ProgramDSKREG \/ LA7D1 \/ LD792
              \/ NotReadyAtFirst \/ Dispatch \/ LD7A0 \/ Retry \/ LD7B1 \/ LD7B8
              \/ Restored \/ NotBusy
    BY <2>4 DEF LD765, ReadImage, LD77E, ProgramDSKREG, LA7D1, LD792, NotReadyAtFirst,
                Dispatch, LD7A0, Retry, LD7B1, LD7B8, Restored, NotBusy
  <2>5. CASE TimeOut \/ LD7DF \/ LD7F8 \/ LD7FB \/ SeekTimedOut \/ Sought \/ LD82C
              \/ ArmNMI \/ SendTransfer \/ DataAskedFor \/ NoDataAskedFor \/ LD863 \/ Unmask
              \/ LD88B
    BY <2>5 DEF TimeOut, LD7DF, LD7F8, LD7FB, Transfer, SeekTimedOut, Sought, LD82C,
                ArmNMI, SendTransfer, DataAskedFor, NoDataAskedFor, LD863, Unmask, LD88B
  <2> QED BY <2>1, <2>2, <2>3, <2>4, <2>5 DEF Next, Processor
<1>2. faults' = faults \/ faults' = faults + 1
  BY <1>1 DEF Fails, Send
<1> QED BY <1>0, <1>2

LEMMA Sums ==
    ASSUME NEW f \in Int, NEW g \in Int, NEW m \in Int, NEW k \in Int, g >= f
    PROVE  /\ f + m >= k => g + m >= k
           /\ f + m >= k - 1 => g + m >= k - 1
           /\ f + m >= k - 1 /\ g > f => g + m >= k
OBVIOUS

LEMMA Costs ==
    ASSUME NEW n \in 1..RetryCount, faults \in Int, faults' \in Int, faults' >= faults
    PROVE  /\ Owing(n) => Owing(n)'
           /\ Paid(n) => Paid(n)'
           /\ Owing(n) /\ faults' > faults => Paid(n)'
<1>1. n \in Int /\ RetryCount \in Int
  BY CountsAssumption
<1> QED BY <1>1, Sums DEF Owing, Paid

Costly == faults' > faults

\* A drive that is ready is late at the cost of a fault only.
LEMMA SentInTime ==
    ASSUME Kinds, Ready, NEW c, Send(c)
    PROVE  Costly \/ (~late' /\ command' = c /\ status' = {})
<1>1. faults \in Int
  BY DEF Kinds, DeviceOK
<1>2. CASE late'
  BY <1>1, <1>2 DEF Send, Costly
<1>3. CASE ~late'
  BY <1>3, Zenon DEF Send
<1> QED BY <1>2, <1>3

LEMMA ReadyInTransfer == ASSUME Kinds, MotorsOK, InTransfer PROVE Ready
<1>1. Turning
  BY DEF InTransfer, MotorsOK, Early
<1>2. DCDRV \in Drives
  BY RequestParts DEF Kinds, MemoryOK, DCDRV
<1>3. DSKREG.motor /\ DSKREG.drive = DCDRV
  BY <1>1, MotorParts, Zenon DEF Turning
<1> QED BY <1>1, <1>2, <1>3, DrivesAssumption DEF Ready, Turning

LEMMA SucceedingInCall ==
    ASSUME Control, Agreement, Succeeding,
           LD765 \/ ReadImage \/ LD77E \/ ProgramDSKREG \/ LA7D1 \/ LD792 \/ Retry
    PROVE  Succeeding'
<1> USE DEF At, Goto, Bsr, memory, device, drives, fdc, registers
<1>1. CASE LD765 \/ ReadImage \/ LD77E \/ ProgramDSKREG \/ LA7D1
  <2>1. pc \in Before /\ pc' \in Before /\ UNCHANGED <<late, command, head, DR0TRK, request>>
    BY <1>1 DEF LD765, ReadImage, LD77E, ProgramDSKREG, LA7D1, Before
  <2> QED BY <2>1 DEF Succeeding, Before, Idle, Aligned, DCDRV, Transferring
<1>2. CASE LD792
  <2>1. pc \in Before /\ pc' = "LD7D3" /\ UNCHANGED <<late, command, head, DR0TRK, request>>
    BY <1>2 DEF LD792, Before
  <2>2. stack'.top = Return("line 107")
    BY <1>2, Pushed DEF LD792
  <2>3. stack'.top # Return("line 149") /\ stack'.top # Return("line 202")
    BY <2>2, ReturnsDiffer
  <2>4. Idle' /\ Aligned'
    BY <2>1 DEF Succeeding, Idle, Aligned, DCDRV
  <2>5. MovesOn'
    BY <2>3, <2>4 DEF MovesOn
  <2> QED BY <2>1, <2>5 DEF Succeeding, Before, Transferring
<1>3. CASE Retry
  <2>1. pc = "line 133" /\ UNCHANGED <<late, command, head, DR0TRK, request>>
    BY <1>3 DEF Retry
  <2>2. Z /\ Aligned /\ Idle
    BY <2>1 DEF Succeeding, Agreement, Quiet, Resting, Idle
  <2>3. pc' = "LD765"
    BY <1>3, <2>2 DEF Retry
  <2> QED BY <2>1, <2>2, <2>3 DEF Succeeding, Before, Idle, Aligned, DCDRV, Transferring
<1> QED BY <1>1, <1>2, <1>3

LEMMA SucceedingInDispatch ==
    ASSUME Control, Agreement, Succeeding, NotReadyAtFirst \/ Dispatch
    PROVE  Succeeding'
<1> USE DEF At, Goto, Bsr, memory, device, registers
<1>1. Z /\ pc = "line 107"
  BY DEF Succeeding, NotReadyAtFirst, Dispatch
<1>2. /\ UNCHANGED <<late, command, head, DR0TRK, request>>
      /\ DCSTA' = {} /\ pc' \in {"LD7A0", "LD7B8", "LD7F8", "LD7FB"}
  BY <1>1 DEF NotReadyAtFirst, Dispatch
<1> QED BY <1>1, <1>2 DEF Succeeding, Before, Idle, Aligned, DCDRV, Transferring

LEMMA SucceedingInRestore ==
    ASSUME Control, Kinds, MotorsOK, Agreement, LD7B8 \/ (Succeeding /\ Restored)
    PROVE  Succeeding' \/ Costly
<1> USE DEF At, Bsr, device
<1>1. CASE LD7B8
  <2>1. pc = "LD7B8" /\ pc' = "LD7D3" /\ Send("restore") /\ UNCHANGED request
    BY <1>1 DEF LD7B8
  <2>2. Ready
    BY <2>1, ReadyInTransfer DEF InTransfer
  <2>3. stack'.top = Return("line 149")
    BY <1>1, Pushed DEF LD7B8
  <2>4. stack'.top # Return("line 107") /\ stack'.top # Return("line 202")
    BY <2>3, ReturnsDiffer
  <2>5. DR0TRK'[DCDRV'] = 0
    BY <1>1, RequestParts DEF LD7B8, Kinds, MemoryOK, DCDRV
  <2>6. CASE ~late' /\ command' = "restore"
    <3>1. MovesOn'
      BY <2>4, <2>5, <2>6 DEF MovesOn
    <3> QED BY <2>1, <2>6, <3>1 DEF Succeeding, Before, Transferring
  <2> QED BY <2>1, <2>2, <2>6, SentInTime
<1>2. CASE Succeeding /\ Restored
  <2>1. pc = "line 149" /\ UNCHANGED <<late, command, head, DR0TRK, request>>
    BY <1>2 DEF Restored, memory
  <2>2. A = {} /\ Aligned
    BY <1>2, <2>1 DEF Succeeding
  <2>3. A' = {} /\ DCSTA' = {}
    BY <1>2, <2>2 DEF Restored
  <2>4. Z'
    BY <1>2, <2>3, Zenon DEF Restored
  <2>5. stack \in RestoreStacks
    BY <2>1 DEF Control, StackDiscipline, OfRestore
  <2>6. pc' \in {"LD7A0", "line 133"}
    BY <1>2, <2>5, RestoreReturns DEF Restored
  <2> QED BY <1>2, <2>1, <2>2, <2>3, <2>4, <2>6
          DEF Succeeding, Before, Aligned, DCDRV, Transferring
<1> QED BY <1>1, <1>2

LEMMA SucceedingInWait ==
    ASSUME Control, Agreement, Succeeding, NotBusy \/ TimeOut \/ LD7DF
    PROVE  Succeeding'
<1> USE DEF At, device, memory
<1>1. NotBusy
  BY DEF TimeOut, LD7DF, Succeeding
<1>2. /\ pc = "LD7D3" /\ Idle /\ A' = status /\ Rts(stack)
      /\ UNCHANGED <<late, command, head, trackReg, DR0TRK, request>>
  BY <1>1 DEF NotBusy, Idle
<1>3. Z'
  BY <1>1, Zenon DEF NotBusy
<1>4. stack \in WaitStacks
  BY <1>2 DEF Control, StackDiscipline
<1>5. MovesOn
  BY <1>2 DEF Succeeding
<1>6. CASE stack.top = Return("line 107")
  <2>1. pc' = "line 107" /\ Aligned
    BY <1>2, <1>5, <1>6, Pushed DEF Rts, MovesOn
  <2> QED BY <1>2, <1>3, <2>1 DEF Succeeding, Before, Aligned, DCDRV, Transferring
<1>7. CASE stack.top = Return("line 149")
  <2>1. pc' = "line 149"
    BY <1>2, <1>7, Pushed DEF Rts
  <2>2. status = {} /\ Aligned
    BY <1>2, <1>5, <1>7 DEF MovesOn, Idle, Aligned
  <2> QED BY <1>2, <1>3, <2>1, <2>2 DEF Succeeding, Before, Aligned, DCDRV, Transferring
<1>8. CASE stack.top = Return("line 202")
  <2>1. pc' = "line 202"
    BY <1>2, <1>8, Pushed DEF Rts
  <2>2. status = {} /\ head[DCDRV] = request.track
    BY <1>2, <1>5, <1>8 DEF MovesOn, Idle
  <2> QED BY <1>2, <1>3, <2>1, <2>2 DEF Succeeding, Before, DCDRV, Transferring
<1> QED BY <1>4, <1>6, <1>7, <1>8, WaitShape

LEMMA SucceedingInSeek ==
    ASSUME Control, Kinds, MotorsOK, Agreement, Succeeding,
           LD7F8 \/ LD7FB \/ SeekTimedOut \/ Sought
    PROVE  Succeeding' \/ Costly
<1> USE DEF At, Goto, device, memory
<1>1. CASE LD7F8 \/ LD7FB
  <2>1. PICK op : \/ Transfer("LD7F8", op) \/ Transfer("LD7FB", op)
    BY <1>1 DEF LD7F8, LD7FB
  <2>2. /\ pc \in {"LD7F8", "LD7FB"} /\ UNCHANGED <<head, request>>
        /\ trackReg' = DR0TRK[DCDRV]
    BY <2>1 DEF Transfer, drives
  <2>3. Aligned /\ Ready /\ ~late
    BY <2>2, ReadyInTransfer DEF Succeeding, InTransfer
  <2>4. CASE DR0TRK[DCDRV] = request.track /\ pc' = "LD82C" /\ UNCHANGED late
    <3>1. head'[DCDRV'] = request'.track
      BY <2>2, <2>3, <2>4 DEF Aligned, DCDRV
    <3> QED BY <2>3, <2>4, <3>1 DEF Succeeding, Before, Transferring
  <2>5. CASE /\ Send("seek") /\ pc' = "LD7D3"
             /\ stack' = Push(Return("line 202"), Push(Flag(op), stack))
    <3>1. stack'.top = Return("line 202")
      BY <2>5, Pushed
    <3>2. stack'.top # Return("line 149") /\ stack'.top # Return("line 107")
      BY <3>1, ReturnsDiffer
    <3>3. head'[DCDRV'] = trackReg'
      BY <2>2, <2>3 DEF Aligned, DCDRV
    <3>4. CASE ~late' /\ command' = "seek"
      <4>1. MovesOn'
        BY <3>2, <3>3, <3>4 DEF MovesOn
      <4> QED BY <2>5, <3>4, <4>1 DEF Succeeding, Before, Transferring
    <3> QED BY <2>3, <2>5, <3>4, SentInTime
  <2> QED BY <2>1, <2>4, <2>5 DEF Transfer
<1>2. CASE SeekTimedOut \/ Sought
  <2>1. pc = "line 202" /\ Z /\ A = {} /\ Sought /\ UNCHANGED <<late, head, request>>
    BY <1>2 DEF SeekTimedOut, Sought, Succeeding
  <2>2. A' = {}
    BY <2>1 DEF Sought
  <2>3. pc' = "LD82C"
    BY <2>1, <2>2 DEF Sought
  <2> QED BY <2>1, <2>3 DEF Succeeding, Before, DCDRV, Transferring
<1> QED BY <1>1, <1>2

LEMMA SucceedingInTransfer ==
    ASSUME Control, Kinds, MotorsOK, Agreement, Succeeding,
           \/ LD82C \/ ArmNMI \/ SendTransfer \/ DataAskedFor \/ NoDataAskedFor \/ LD863
           \/ Unmask \/ LD88B
    PROVE  Succeeding' \/ Costly
<1> USE DEF At, Goto, device, memory, drives
<1>1. CASE LD82C \/ ArmNMI
  <2>1. /\ pc \in {"LD82C", "line 220"} /\ pc' \in {"line 220", "line 221"}
        /\ UNCHANGED <<late, head, request>>
    BY <1>1 DEF LD82C, ArmNMI
  <2> QED BY <2>1 DEF Succeeding, Before, DCDRV, Transferring
<1>2. CASE SendTransfer
  <2>1. /\ pc = "line 221" /\ pc' \in {"LD877", "LD85B"}
        /\ UNCHANGED <<head, request>>
        /\ \E c \in {"read", "write"} : Send(c)
    BY <1>2 DEF SendTransfer
  <2>2. Ready
    BY <2>1, ReadyInTransfer DEF InTransfer
  <2>3. PICK c \in {"read", "write"} : Send(c)
    BY <2>1
  <2>4. CASE ~late' /\ command' = c
    BY <2>1, <2>4 DEF Succeeding, Before, DCDRV, Transferring, Idle
  <2> QED BY <2>2, <2>3, <2>4, SentInTime
<1>3. CASE DataAskedFor \/ NoDataAskedFor
  <2>1. DataAskedFor
    BY <1>3 DEF NoDataAskedFor, Succeeding
  <2>2. /\ pc \in {"LD877", "LD85B"} /\ pc' \in {"LD881", "LD86B"}
        /\ UNCHANGED <<late, head, request, command, status>>
    BY <2>1 DEF DataAskedFor
  <2> QED BY <2>2 DEF Succeeding, Before, DCDRV, Transferring, Idle
<1>4. CASE LD863 \/ Unmask
  BY <1>4 DEF LD863, Unmask, Succeeding
<1>5. CASE LD88B
  <2>1. pc = "LD88B" /\ UNCHANGED <<late, head, request>> /\ Rts(stack)
    BY <1>5 DEF LD88B
  <2>2. status = {}
    BY <2>1 DEF Succeeding, Agreement, Quiet, Resting, Idle
  <2>3. DCSTA' = {}
    BY <1>5, <2>2 DEF LD88B
  <2>4. pc' = "LD7A0"
    BY <2>1, CommandReturns DEF Control, StackDiscipline, OfCommand
  <2> QED BY <2>1, <2>3, <2>4 DEF Succeeding, Before, Transferring
<1> QED BY <1>1, <1>2, <1>3, <1>4, <1>5

LEMMA SucceedingUntouched ==
    ASSUME Succeeding,
           UNCHANGED <<pc, stack, A, Z, request, DCSTA, DR0TRK, command, late, status,
                       trackReg, head>>
    PROVE  Succeeding'
<1>1. Idle' = Idle /\ Aligned' = Aligned /\ MovesOn' = MovesOn
  BY DEF Idle, Aligned, MovesOn, DCDRV
<1> QED BY <1>1 DEF Succeeding, DCDRV

\* Where a command may be at work.
LEMMA AtWork ==
    ASSUME Control, Agreement, Succeeding, pc \notin OfCaller, command # "none"
    PROVE  \/ pc \in Transferring /\ command \in {"read", "write"}
           \/ /\ pc = "LD7D3"
              /\ \/ stack.top = Return("line 149") /\ command = "restore"
                 \/ stack.top = Return("line 202") /\ command = "seek"
<1>1. pc \notin Resting
  BY DEF Agreement, Quiet
<1>2. pc \notin Before \cup {"LD7DF"}
  BY DEF Succeeding, Idle
<1>3. pc \in Transferring \cup {"LD7D3"}
  BY <1>1, <1>2 DEF Control, Labels, OfCaller, OfCall, OfCommand, OfRestore, OfTransfer, OfWait,
                    Resting, Before, Transferring
<1>4. CASE pc \in Transferring
  BY <1>4 DEF Agreement, OnTrack
<1>5. CASE pc = "LD7D3"
  <2>1. stack \in WaitStacks /\ MovesOn
    BY <1>5 DEF Control, StackDiscipline, Succeeding
  <2> QED BY <1>5, <2>1, WaitShape DEF MovesOn, Idle
<1> QED BY <1>3, <1>4, <1>5

LEMMA SelectedDrive ==
    ASSUME Kinds, MotorsOK, pc = "LD7D3" \/ pc \in Transferring
    PROVE  /\ DSKREG.drive = DCDRV /\ DCDRV \in Drives
           /\ head \in [Drives -> Tracks]
<1>1. Turning
  BY DEF MotorsOK, Early, Transferring
<1>2. DCDRV \in Drives
  BY RequestParts DEF Kinds, MemoryOK, DCDRV
<1> QED BY <1>1, <1>2, MotorParts, Zenon DEF Turning, Kinds, DeviceOK

LEMMA FailureCosts == ASSUME Kinds, Succeeding, pc # "LD7B8", Fails PROVE Costly
<1>1. faults \in Int
  BY DEF Kinds, DeviceOK
<1>2. ~late
  BY DEF Succeeding
<1>3. faults' = faults + 1
  BY <1>2 DEF Fails
<1> QED BY <1>1, <1>3 DEF Costly

LEMMA StepsOut == ASSUME NEW t \in Tracks, NEW u \in Tracks PROVE Clipped(u + t - u) = t
<1>1. u + t - u = t /\ t \in 0..MaxTrack
  BY TracksAssumption DEF Tracks
<1>2. Clipped(t) = t
  BY <1>1, TracksAssumption DEF Clipped
<1> QED BY <1>1, <1>2

LEMMA SucceedingInMove ==
    ASSUME Control, Kinds, MotorsOK, Agreement, Succeeding, pc \notin OfCaller,
           FdcRestores \/ FdcSeeks
    PROVE  Succeeding' \/ Costly
<1>0. command \in {"restore", "seek"}
  BY DEF FdcRestores, FdcSeeks
<1>1. pc = "LD7D3"
  BY <1>0, AtWork
<1>2. DSKREG.drive = DCDRV /\ DCDRV \in Drives /\ head \in [Drives -> Tracks]
  BY <1>1, SelectedDrive
<1>3. UNCHANGED <<pc, stack, request, DR0TRK>>
  BY DEF FdcRestores, FdcSeeks, program
<1>4. MovesOn
  BY <1>1 DEF Succeeding
<1>5. ASSUME NEW t \in Tracks, MoveHead(t), Done({}), MovesOn' PROVE Succeeding'
  <2>1. ~late'
    BY <1>5, Zenon DEF Done
  <2> QED BY <1>1, <1>3, <1>5, <2>1 DEF Succeeding, Before, Transferring
<1>6. CASE FdcRestores
  <2>1. stack.top = Return("line 149")
    BY <1>1, <1>6, AtWork DEF FdcRestores, Transferring
  <2>2. CASE MoveHead(0) /\ Done({})
    <3>1. head'[DCDRV'] = 0 /\ command' = "none" /\ status' = {}
      BY <1>2, <1>3, <2>2 DEF MoveHead, Done, DCDRV
    <3>2. DR0TRK'[DCDRV'] = 0
      BY <1>3, <1>4, <2>1 DEF MovesOn, DCDRV
    <3>3. stack'.top # Return("line 107") /\ stack'.top # Return("line 202")
      BY <1>3, <2>1, ReturnsDiffer
    <3>4. MovesOn'
      BY <3>1, <3>2, <3>3 DEF MovesOn, Idle
    <3> QED BY <1>5, <2>2, <3>4, TracksAssumption DEF Tracks
  <2> QED BY <1>1, <1>6, <2>2, FailureCosts DEF FdcRestores
<1>7. CASE FdcSeeks
  <2>1. stack.top = Return("line 202") /\ command = "seek"
    BY <1>1, <1>7, AtWork DEF FdcSeeks, Transferring
  <2>2. head[DCDRV] = trackReg /\ dataReg = request.track /\ trackReg' = dataReg
    BY <1>1, <1>4, <1>7, <2>1 DEF MovesOn, Idle, Agreement, Seeking, FdcSeeks
  <2>3. trackReg \in Tracks /\ dataReg \in Tracks
    BY DEF Kinds, DeviceOK
  <2>4. Clipped(head[DSKREG.drive] + dataReg - trackReg) = dataReg
    BY <1>2, <2>2, <2>3, StepsOut
  <2>5. CASE MoveHead(dataReg) /\ Done({})
    <3>1. head'[DCDRV'] = request'.track /\ command' = "none" /\ status' = {}
      BY <1>2, <1>3, <2>2, <2>5 DEF MoveHead, Done, DCDRV
    <3>2. stack'.top # Return("line 107") /\ stack'.top # Return("line 149")
      BY <1>3, <2>1, ReturnsDiffer
    <3>3. MovesOn'
      BY <3>1, <3>2 DEF MovesOn, Idle
    <3> QED BY <1>5, <2>3, <2>5, <3>3
  <2>6. (MoveHead(dataReg) /\ Done({})) \/ Fails
    BY <1>7, <2>4 DEF FdcSeeks
  <2> QED BY <1>1, <2>5, <2>6, FailureCosts
<1> QED BY <1>6, <1>7

LEMMA SucceedingInData ==
    ASSUME Control, Kinds, MotorsOK, Agreement, Succeeding, pc \notin OfCaller,
           request \in Requests,
           FdcAsksForData \/ FdcFindsNoRecord \/ FdcTransfers \/ FdcLosesData
    PROVE  Succeeding' \/ Costly
<1>1. CASE FdcAsksForData
  <2>1. UNCHANGED <<pc, stack, A, Z, request, DCSTA, DR0TRK, command, late, status,
                    trackReg, head>>
    BY <1>1 DEF FdcAsksForData, program, drives, registers
  <2> QED BY <2>1, SucceedingUntouched
<1>2. CASE FdcFindsNoRecord
  <2>1. pc \in Transferring
    BY <1>2, AtWork DEF FdcFindsNoRecord
  <2>2. DSKREG.drive = DCDRV
    BY <2>1, SelectedDrive
  <2>3. trackReg = request.track /\ sectorReg = request.sector
    BY <2>1 DEF Agreement, OnTrack, Addressed
  <2>4. head[DCDRV] = request.track
    BY <2>1 DEF Succeeding
  <2>5. request.sector \in Sectors
    BY RequestsAssumption
  <2>6. UnderHead
    BY <2>2, <2>3, <2>4, <2>5 DEF UnderHead
  <2>7. Fails
    BY <1>2, <2>6 DEF FdcFindsNoRecord
  <2> QED BY <2>1, <2>7, FailureCosts DEF Transferring
<1>3. CASE FdcTransfers
  <2>1. pc \in {"LD86B", "LD881"} /\ UNCHANGED <<pc, request, head>>
    BY <1>3 DEF FdcTransfers
  <2>2. Fails \/ Done({})
    BY <1>3 DEF FdcTransfers
  <2>3. CASE Done({})
    <3>1. status' = {}
      BY <2>3 DEF Done
    <3>2. ~late'
      BY <2>3, Zenon DEF Done
    <3>3. head'[DCDRV'] = request'.track
      BY <2>1 DEF Succeeding, Transferring, DCDRV
    <3> QED BY <2>1, <3>1, <3>2, <3>3 DEF Succeeding, Before, Transferring
  <2> QED BY <2>1, <2>2, <2>3, FailureCosts
<1>4. CASE FdcLosesData
  BY <1>4 DEF FdcLosesData, Succeeding
<1> QED BY <1>1, <1>2, <1>3, <1>4

LEMMA SucceedingInNmi ==
    ASSUME Control, Agreement, Succeeding, NmiService
    PROVE  Succeeding'
<1>1. UNCHANGED <<stack, A, Z, request, DCSTA, DR0TRK, command, late, status, trackReg, head>>
  BY DEF NmiService, registers, memory, drives
<1>2. CASE ~NMIFLG
  <2>1. UNCHANGED pc
    BY <1>2 DEF NmiService
  <2> QED BY <1>1, <2>1, SucceedingUntouched
<1>3. CASE NMIFLG
  <2>1. pc' = "LD88B" /\ pc \in Armed /\ nmi
    BY <1>3 DEF NmiService, Control
  <2>2. command = "none" /\ pc \in Transferring
    BY <2>1 DEF Agreement, Quiet, Armed, Resting, Transferring
  <2>3. status = {}
    BY <2>2 DEF Succeeding, Idle
  <2>4. ~late
    BY <2>2 DEF Succeeding, Transferring
  <2> QED BY <1>1, <2>1, <2>3, <2>4 DEF Succeeding, Before, Transferring
<1> QED BY <1>2, <1>3

\* Within a call, an attempt goes on, unless it fails at the cost of a fault.
LEMMA SucceedingKept ==
    ASSUME Control, Kinds, MotorsOK, Agreement, Succeeding, pc \notin OfCaller, ~LD7A0,
           request \in Requests, Processor \/ Controller \/ NmiService \/ IrqService
    PROVE  Succeeding' \/ Costly
<1>1. CASE IrqService
  <2>1. UNCHANGED <<pc, stack, A, Z, request, DCSTA, DR0TRK, command, late, status,
                    trackReg, head>>
    BY <1>1 DEF IrqService, registers, fdc
  <2> QED BY <2>1, SucceedingUntouched
<1>2. CASE Controller
  BY <1>2, SucceedingInMove, SucceedingInData DEF Controller
<1>3. ~LD7B1
  BY DEF LD7B1, At, OfCaller
<1>4. CASE Processor
  BY <1>3, <1>4, SucceedingInCall, SucceedingInDispatch, SucceedingInRestore, SucceedingInWait,
     SucceedingInSeek, SucceedingInTransfer DEF Processor
<1> QED BY <1>1, <1>2, <1>4, SucceedingInNmi

\* What may still be lost at the end of a call.
Excused == DCSTA # {} => faults >= RetryCount - 1

LEMMA ExcusedKept ==
    ASSUME Excused, faults \in Int, faults' \in Int, faults' >= faults, UNCHANGED DCSTA
    PROVE  Excused'
<1>1. RetryCount - 1 \in Int
  BY CountsAssumption
<1>2. \A f, g, k \in Int : g >= f /\ f >= k => g >= k
  OBVIOUS
<1> QED BY <1>1, <1>2 DEF Excused

LEMMA Attempts ==
    ASSUME faults \in Nat
    PROVE  /\ RetryCount \in 1..RetryCount /\ Owing(RetryCount) /\ Paid(RetryCount)
           /\ Paid(1) => faults >= RetryCount - 1
           /\ \A n \in 1..RetryCount : n # 1 =>
                  n - 1 \in 1..RetryCount /\ (Paid(n) => Owing(n - 1))
<1>1. RetryCount \in Nat \ {0}
  BY CountsAssumption
<1>2. RetryCount \in 1..RetryCount /\ Owing(RetryCount) /\ Paid(RetryCount)
  BY <1>1 DEF Owing, Paid
<1>3. Paid(1) => faults >= RetryCount - 1
  BY <1>1 DEF Paid
<1>4. ASSUME NEW n \in 1..RetryCount, n # 1
      PROVE  n - 1 \in 1..RetryCount /\ (Paid(n) => Owing(n - 1))
  BY <1>1, <1>4 DEF Paid, Owing
<1> QED BY <1>2, <1>3, <1>4

LEMMA BudgetAtCall ==
    ASSUME Control, Kinds', NEW r \in Requests, Call(r)
    PROVE  Budget'
<1>1. faults' \in Nat
  <2>1. faults' = 0 \/ faults' = 1
    BY DEF Call
  <2> QED BY <2>1
<1>2. /\ RetryCount \in 1..RetryCount
      /\ Owing(RetryCount)' /\ Paid(RetryCount)'
  <2>1. RetryCount \in Nat \ {0}
    BY CountsAssumption
  <2>2. \A f \in Nat, k \in Nat \ {0} : k \in 1..k /\ f + k >= k - 1 /\ f + k >= k
    OBVIOUS
  <2> QED BY <1>1, <2>1, <2>2 DEF Owing, Paid
<1>3. stack = Caller /\ pc' = "LD765" /\ request' = r
  <2>1. pc = "idle" /\ pc' = "LD765" /\ request' = r
    BY DEF Call, Entered
  <2> QED BY <2>1 DEF Control, StackDiscipline, OfCaller
<1>4. stack' = CallStack(RetryCount)
  BY <1>3 DEF Call, Entered, CallStack
<1>5. Left(RetryCount)'
  BY <1>3, <1>4, LeftThere DEF OfCall
<1> QED BY <1>2, <1>3, <1>5 DEF Budget, OfCaller

LEMMA BudgetAtLD7A0 ==
    ASSUME Control, Kinds, Budget, LD7A0
    PROVE  Budget'
<1>1. /\ pc = "LD7A0" /\ faults \in Nat
      /\ UNCHANGED <<faults, DCSTA, request, late>>
  <2>1. pc = "LD7A0" /\ UNCHANGED <<faults, DCSTA, request, late>>
    BY DEF LD7A0, At, device, memory
  <2>2. faults \in Nat
    BY CountsAssumption DEF Kinds, DeviceOK
  <2> QED BY <2>1, <2>2
<1>2. PICK n \in 1..RetryCount : Left(n) /\ Owing(n) /\ (Paid(n) \/ Succeeding)
  BY <1>1 DEF Budget, OfCaller
<1>3. stack = CallStack(n)
  BY <1>1, <1>2 DEF Left, OfCall
<1>4. stack.top.retries = n /\ stack.below = Caller
  BY <1>3, Pushed DEF CallStack
<1>5. request \in Requests
  BY <1>1 DEF Budget, OfCaller
<1>6. CASE DCSTA = {}
  <2>1. pc' = "LD7B1"
    BY <1>6 DEF LD7A0
  <2> QED BY <1>1, <1>6, <2>1 DEF Budget, OfCaller
<1>7. CASE DCSTA # {}
  <2>1. Paid(n)
    BY <1>1, <1>2, <1>7 DEF Succeeding
  <2>2. CASE n = 1
    <3>1. pc' = "LD7B1"
      BY <1>4, <2>2 DEF LD7A0
    <3>2. faults >= RetryCount - 1
      BY <1>1, <2>1, <2>2, Attempts
    <3> QED BY <1>1, <3>1, <3>2 DEF Budget, OfCaller
  <2>3. CASE n # 1
    <3>1. /\ pc' = "LD7B8"
          /\ stack' = Push(Return("line 133"), Push(Retries(n - 1), Caller))
      BY <1>4, <1>7, <2>3 DEF LD7A0
    <3>2. n - 1 \in 1..RetryCount /\ Owing(n - 1)
      BY <1>1, <2>1, <2>3, Attempts
    <3>3. Left(n - 1)'
      <4>1. stack'.below = CallStack(n - 1)
        BY <3>1, Pushed DEF CallStack
      <4> DEFINE m == n - 1
      <4>2. stack'.below = CallStack(m)
        BY <4>1
      <4> HIDE DEF m
      <4>3. Left(m)'
        BY <3>1, <4>2, LeftThere DEF OfRestore
      <4> QED BY <4>3 DEF m
    <3>4. Owing(n - 1)'
      BY <1>1, <3>2 DEF Owing
    <3>5. Succeeding'
      BY <3>1 DEF Succeeding, Before, Transferring
    <3> QED BY <1>1, <1>5, <3>1, <3>2, <3>3, <3>4, <3>5 DEF Budget, OfCaller
  <2> QED BY <2>2, <2>3
<1> QED BY <1>6, <1>7

\* The rest of a call: nothing is pulled from under what is on the stack.
LEMMA LeftKept ==
    ASSUME Control, pc \notin OfCaller, ~LD7A0,
           Processor \/ Controller \/ NmiService \/ IrqService,
           NEW n, Left(n)
    PROVE  Left(n)'
<1>1. CASE Processor
  <2>1. ~LD7B1
    BY DEF LD7B1, At, OfCaller
  <2> QED BY <1>1, <2>1, LeftByProcessor
<1>2. CASE Controller \/ IrqService \/ (NmiService /\ ~NMIFLG)
  <2>1. UNCHANGED <<pc, stack>>
    BY <1>2 DEF Controller, FdcRestores, FdcSeeks, FdcAsksForData, FdcFindsNoRecord,
                FdcTransfers, FdcLosesData, IrqService, NmiService, program
  <2> QED BY <2>1 DEF Left
<1>3. CASE NmiService /\ NMIFLG
  <2>1. pc \in Armed /\ pc' = "LD88B" /\ UNCHANGED stack
    BY <1>3 DEF NmiService, Control
  <2>2. pc \in OfCommand /\ pc' \in OfCommand
    BY <2>1 DEF Armed, OfCommand
  <2> QED BY <2>1, <2>2, LeftThere DEF Left
<1> QED BY <1>1, <1>2, <1>3

LEMMA StillInCall ==
    ASSUME Control, Control', pc \notin OfCaller, ~LD7A0,
           Processor \/ Controller \/ NmiService \/ IrqService
    PROVE  pc' \notin OfCaller /\ UNCHANGED request
<1> USE DEF At, Goto, Bsr, memory, OfCaller
<1>1. CASE Controller \/ IrqService
  BY <1>1 DEF Controller, FdcRestores, FdcSeeks, FdcAsksForData, FdcFindsNoRecord,
              FdcTransfers, FdcLosesData, IrqService, program
<1>2. CASE NmiService
  BY <1>2 DEF NmiService
<1>3. CASE Restored \/ NotBusy \/ LD7DF \/ SeekTimedOut \/ Sought \/ LD88B
  <2>1. UNCHANGED request
    BY <1>3 DEF Restored, NotBusy, LD7DF, SeekTimedOut, Sought, LD88B
  <2> QED BY <1>3, <2>1, ReturnsThere DEF ReturnLabels
<1>4. CASE LD765 \/ ReadImage \/ LD77E \/ ProgramDSKREG \/ LA7D1 \/ LD792 \/ NotReadyAtFirst
            \/ Dispatch \/ Retry \/ LD7B8 \/ TimeOut
  BY <1>4 DEF LD765, ReadImage, LD77E, ProgramDSKREG, LA7D1, LD792, NotReadyAtFirst,
              Dispatch, Retry, LD7B8, TimeOut
<1>5. CASE LD7F8 \/ LD7FB \/ LD82C \/ ArmNMI \/ SendTransfer \/ DataAskedFor
            \/ NoDataAskedFor \/ LD863 \/ Unmask
  BY <1>5 DEF LD7F8, LD7FB, Transfer, LD82C, ArmNMI, SendTransfer, DataAskedFor,
              NoDataAskedFor, LD863, Unmask
<1>6. ~LD7B1
  BY DEF LD7B1
<1> QED BY <1>1, <1>2, <1>3, <1>4, <1>5, <1>6 DEF Processor

LEMMA BudgetInCall ==
    ASSUME Control, Control', Everything, Everything', Budget, [Next]_vars,
           pc \notin OfCaller, ~LD7A0,
           Processor \/ Controller \/ NmiService \/ IrqService
    PROVE  Budget'
<1>1. Kinds /\ MotorsOK /\ Agreement
  BY DEF Everything
<1>2. \A r \in Requests : ~Call(r)
  BY DEF Call, OfCaller
<1>3. faults \in Int /\ faults' \in Int /\ faults' >= faults
  <2>1. faults \in Int
    BY <1>1 DEF Kinds, DeviceOK
  <2> QED BY <1>1, <1>2, <2>1, FaultsGrow
<1>4. /\ request \in Requests
      /\ \E n \in 1..RetryCount : Left(n) /\ Owing(n) /\ (Paid(n) \/ Succeeding)
  BY DEF Budget
<1>5. PICK n \in 1..RetryCount : Left(n) /\ Owing(n) /\ (Paid(n) \/ Succeeding)
  BY <1>4
<1>6. Left(n)' /\ Owing(n)'
  BY <1>3, <1>5, LeftKept, Costs
<1>7. Paid(n)' \/ Succeeding'
  <2>1. CASE Paid(n)
    BY <1>3, <2>1, Costs
  <2>2. CASE Succeeding
    <3>1. Succeeding' \/ Costly
      BY <1>1, <1>4, <2>2, SucceedingKept
    <3> QED BY <1>3, <1>5, <3>1, Costs DEF Costly
  <2> QED BY <1>5, <2>1, <2>2
<1>8. pc' \notin OfCaller /\ UNCHANGED request
  BY StillInCall
<1> QED BY <1>4, <1>6, <1>7, <1>8 DEF Budget

\* Back at the stack of the caller, one step is left.
LEMMA LastOfCall == ASSUME pc \in OfCaller, Processor PROVE LD7B1
<1>1. pc \in {"idle", "LD7B1"}
  BY DEF OfCaller
<1>2. ~(LD765 \/ ReadImage \/ LD77E \/ ProgramDSKREG \/ LA7D1 \/ LD792 \/ NotReadyAtFirst
        \/ Dispatch \/ LD7A0 \/ Retry \/ LD7B8 \/ Restored \/ NotBusy)
  BY <1>1 DEF LD765, ReadImage, LD77E, ProgramDSKREG, LA7D1, LD792, NotReadyAtFirst,
              Dispatch, LD7A0, Retry, LD7B8, Restored, NotBusy, At
<1>3. ~(TimeOut \/ LD7DF \/ LD7F8 \/ LD7FB \/ SeekTimedOut \/ Sought \/ LD82C \/ ArmNMI
        \/ SendTransfer \/ DataAskedFor \/ NoDataAskedFor \/ LD863 \/ Unmask \/ LD88B)
  BY <1>1 DEF TimeOut, LD7DF, LD7F8, LD7FB, Transfer, SeekTimedOut, Sought, LD82C, ArmNMI,
              SendTransfer, DataAskedFor, NoDataAskedFor, LD863, Unmask, LD88B, At
<1> QED BY <1>2, <1>3 DEF Processor

LEMMA BudgetKept ==
    ASSUME Control, Control', Everything, Everything', Budget, [Next]_vars
    PROVE  Budget'
<1>0. Kinds /\ Kinds' /\ faults \in Int
  BY DEF Everything, Kinds, DeviceOK
<1>1. CASE UNCHANGED vars
  <2>1. UNCHANGED <<pc, stack, A, Z, request, DCSTA, DR0TRK, command, late, status,
                    trackReg, head, faults>>
    BY <1>1 DEF vars, program, device
  <2>2. \A n \in 1..RetryCount :
            Left(n)' = Left(n) /\ Owing(n)' = Owing(n) /\ Paid(n)' = Paid(n)
    BY <2>1 DEF Left, Owing, Paid
  <2>3. Succeeding => Succeeding'
    BY <2>1, SucceedingUntouched
  <2> QED BY <2>1, <2>2, <2>3 DEF Budget
<1>2. CASE \E r \in Requests : Call(r)
  BY <1>0, <1>2, BudgetAtCall
<1>3. CASE LD7A0
  BY <1>0, <1>3, BudgetAtLD7A0
<1>4. CASE DskconInit
  BY <1>4 DEF DskconInit, Budget, OfCaller
<1>5. CASE /\ pc \in OfCaller /\ \A r \in Requests : ~Call(r)
           /\ DskconShutdown \/ Processor \/ Controller \/ NmiService \/ IrqService
  <2>1. pc \in OfCaller
    BY <1>5
  <2>2. pc' \in OfCaller /\ UNCHANGED DCSTA
    <3>1. CASE DskconShutdown
      BY <3>1 DEF DskconShutdown, OfCaller
    <3>2. CASE Controller \/ IrqService
      BY <2>1, <3>2 DEF Controller, FdcRestores, FdcSeeks, FdcAsksForData, FdcFindsNoRecord,
                        FdcTransfers, FdcLosesData, IrqService, program
    <3>3. CASE NmiService
      <4>1. ~NMIFLG
        BY <2>1 DEF Control, Armed, OfCaller
      <4> QED BY <2>1, <3>3, <4>1 DEF NmiService
    <3>4. CASE Processor
      <4>1. LD7B1
        BY <2>1, <3>4, LastOfCall
      <4> QED BY <4>1 DEF LD7B1, Goto, OfCaller
    <3> QED BY <1>5, <3>1, <3>2, <3>3, <3>4
  <2>3. faults' \in Int /\ faults' >= faults
    BY <1>0, <1>5, FaultsGrow
  <2>4. Excused
    BY <2>1 DEF Budget, Excused
  <2>5. Excused'
    BY <1>0, <2>2, <2>3, <2>4, ExcusedKept
  <2> QED BY <2>2, <2>5 DEF Budget, Excused
<1>6. CASE pc \notin OfCaller /\ ~LD7A0 /\ (Processor \/ Controller \/ NmiService \/ IrqService)
  BY <1>6, BudgetInCall
<1>7. DskconShutdown => pc \in OfCaller
  BY DEF DskconShutdown, OfCaller
<1> QED BY <1>1, <1>2, <1>3, <1>4, <1>5, <1>6, <1>7 DEF Next

\* Every attempt that is over has cost a fault, except that the first may have
\* been lost to a head that was not where the routine believed.
THEOREM BudgetAlways == Spec => []Budget
<1>1. Init => Budget
  BY DEF Init, Budget, OfCaller
<1> QED BY <1>1, ControlAlways, EverythingAlways, BudgetKept, PTL DEF Spec

\* A call ends with success as long as the controller has not failed more often
\* than the retries allow for, for any number of retries and faults and wherever
\* another program has left the heads.
THEOREM RetriesSuffice == Spec => []RetriesMaskFaults
<1>1. Kinds /\ Budget => RetriesMaskFaults
  <2> SUFFICES ASSUME Kinds, Budget, pc = "idle", faults <= RetryCount - 2, DCSTA # {}
               PROVE  FALSE
    BY DEF RetriesMaskFaults
  <2>1. faults >= RetryCount - 1
    BY DEF Budget, OfCaller
  <2>2. faults \in Int /\ RetryCount \in Int
    BY CountsAssumption DEF Kinds, DeviceOK
  <2>3. \A f, k \in Int : ~(f <= k - 2 /\ f >= k - 1)
    OBVIOUS
  <2> QED BY <2>1, <2>2, <2>3
<1>2. Everything => Kinds
  BY DEF Everything
<1> QED BY <1>1, <1>2, BudgetAlways, EverythingAlways, PTL

===============================================================================
