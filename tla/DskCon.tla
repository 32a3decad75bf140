-------------------------------- MODULE DskCon --------------------------------
(* dskcon_processSector() of src/cmoc/src/stdlib/dskcon-standalone.c: a sector *)
(* of a floppy disk is read or written by a 6809 that polls a 1793 controller, *)
(* while a 60 Hz interrupt counts down to the stop of the motors and the       *)
(* controller ends a transfer by an NMI that takes the program out of an       *)
(* endless loop.                                                               *)
(*                                                                             *)
(* A step of the processor is a piece of the routine between two points where  *)
(* an interrupt can make a difference; pc is the label it has reached, or the  *)
(* line where it has none. The wait loops have no counters: they run out only  *)
(* on a command of the controller that is late. Precompensation, density and   *)
(* the HALT line are left out.                                                 *)
EXTENDS Integers

CONSTANTS
    Drives,
    MaxTrack,    \* the innermost track
    Sectors,
    Requests,    \* what the callers ask for
    RetryCount,  \* 5
    MotorDelay,  \* 120 sixtieths of a second
    MaxFaults,   \* the bound on the faults of a controller in a call
    WriteData,   \* what the callers write
    Contents,    \* the value of each sector at first
    Blank,       \* what a buffer holds before a read
    Torn,        \* what a failed transfer leaves
    NoDrive

Tracks == 0..MaxTrack
Places == Drives \X Tracks \X Sectors
Values == WriteData \cup {Contents[p] : p \in Places} \cup {Blank, Torn}

\* The operation codes.
Restore == 0
Read == 2
Write == 3

\* The bits of the status register and of DCSTA.
LostData == 4
CRCError == 8
SeekError == 16    \* after a read or write: record not found
NotReady == 128
StatusBits == {LostData, CRCError, SeekError, 32, 64, NotReady}

ASSUME DrivesAssumption == NoDrive \notin Drives /\ 0 \in Drives
ASSUME TracksAssumption == MaxTrack \in Nat
ASSUME CountsAssumption ==
    /\ RetryCount \in Nat \ {0}
    /\ MotorDelay \in Nat \ {0}
    /\ MaxFaults \in Nat
ASSUME RequestsAssumption ==
    Requests \subseteq [op : 0..3, drive : Drives, track : Tracks, sector : Sectors]
ASSUME ContentsAssumption == Contents = [p \in Places |-> Contents[p]]

VARIABLES
    \* the program
    pc,         \* where the processor is in dskcon_processSector(), or "idle"
    stack,      \* what the routine has on the stack
    A, Z,       \* the status bits in the accumulator, and the zero flag
    B,          \* the read or write command that was pulled from the stack
    image,      \* the partial image of DSKREG in the accumulator
    irqMask,    \* interrupts are masked
    installed,  \* dskcon_init() was called, dskcon_shutdown() was not since
    request,    \* DCOPC, DCDRV, DCTRK and DCSEC
    DCSTA,      \* the status that the caller gets
    RDYTMR,     \* the timer of the motors
    DRGRAM,     \* the image in memory of the control register
    DR0TRK,     \* the track where the head of each drive is thought to be
    NMIFLG,     \* the NMI is to leave the transfer loop
    buffer,     \* the sector in memory
    \* the controller and the drives
    DSKREG,     \* the control register: drive selected, motors on
    atSpeed,    \* the motors have come up to speed
    command,    \* the command being executed, or "none"
    late,       \* it is not answered in time
    drq,        \* it asks for data
    status,     \* the errors of the last command
    trackReg, dataReg, sectorReg,
    nmi,        \* an NMI is pending
    head,       \* where the head of each drive is
    disk,       \* the value of each sector
    faults      \* the faults of the controller in the current call

program == <<pc, stack, A, Z, B, image, irqMask, installed, request, DCSTA,
             RDYTMR, DRGRAM, DR0TRK, NMIFLG, buffer>>
device == <<DSKREG, atSpeed, command, late, drq, status, trackReg, dataReg,
            sectorReg, nmi, head, disk, faults>>
vars == <<program, device>>

registers == <<A, Z, B, image>>
fdc == <<command, late, drq, status, trackReg, dataReg, sectorReg, nmi>>
drives == <<DSKREG, atSpeed, head, disk>>
memory == <<installed, request, RDYTMR, DRGRAM, DR0TRK, buffer>>

DCDRV == request.drive
Asked == <<request.drive, request.track, request.sector>>
NoRequest == [op |-> Restore, drive |-> 0, track |-> 0, sector |-> 0]

Motors(d, on) == [drive |-> d, motor |-> on]
Off == Motors(NoDrive, FALSE)

\* ---------------------------------------------------------------------------
\* The controller. A command is answered only by a drive that is selected and
\* whose motor has come up to speed; a command may then fail, or be late, and
\* each of these is a fault of the controller.

Ready == DSKREG.drive # NoDrive /\ DSKREG.motor /\ atSpeed

\* STA FDCREG
Send(c) ==
    /\ command' = c
    /\ drq' = FALSE
    /\ status' = {}
    /\ late' \in BOOLEAN
    /\ IF Ready THEN /\ late' => faults < MaxFaults
                     /\ faults' = IF late' THEN faults + 1 ELSE faults
                ELSE late' /\ UNCHANGED faults

Fails ==
    \/ late /\ UNCHANGED faults
    \/ ~late /\ faults < MaxFaults /\ faults' = faults + 1

Done(errors) ==
    /\ command' = "none"
    /\ late' = FALSE
    /\ drq' = FALSE
    /\ status' = errors
    /\ nmi' = TRUE

MoveHead(t) == head' = [head EXCEPT ![DSKREG.drive] = t]

Clipped(t) == IF t < 0 THEN 0 ELSE IF t > MaxTrack THEN MaxTrack ELSE t

FdcRestores ==
    /\ command = "restore" /\ Ready
    /\ \/ MoveHead(0) /\ trackReg' = 0 /\ Done({}) /\ UNCHANGED faults
       \/ /\ Fails /\ Done({SeekError})
          /\ \E t \in Tracks : MoveHead(t)
          /\ UNCHANGED trackReg
    /\ UNCHANGED <<program, DSKREG, atSpeed, disk, dataReg, sectorReg>>

\* The controller steps as many times as its registers differ by, then compares
\* the track that it finds under the head.
FdcSeeks ==
    /\ command = "seek" /\ Ready
    /\ trackReg' = dataReg
    /\ \/ LET t == Clipped(head[DSKREG.drive] + dataReg - trackReg) IN
          /\ MoveHead(t)
          /\ Done(IF t = dataReg THEN {} ELSE {SeekError})
          /\ UNCHANGED faults
       \/ /\ Fails
          /\ \E t \in Tracks, e \in {SeekError, CRCError} : MoveHead(t) /\ Done({e})
    /\ UNCHANGED <<program, DSKREG, atSpeed, disk, dataReg, sectorReg>>

UnderHead ==
    head[DSKREG.drive] = trackReg /\ sectorReg \in Sectors

FdcAsksForData ==
    /\ command \in {"read", "write"} /\ ~drq /\ Ready
    /\ UnderHead
    /\ drq' = TRUE
    /\ UNCHANGED <<program, drives, command, late, status, trackReg, dataReg,
                   sectorReg, nmi, faults>>

FdcFindsNoRecord ==
    /\ command \in {"read", "write"} /\ ~drq /\ Ready
    /\ IF UnderHead THEN Fails ELSE UNCHANGED faults
    /\ Done({SeekError})
    /\ UNCHANGED <<program, drives, trackReg, dataReg, sectorReg>>

\* The loop LD86B or LD881 moves the bytes until the controller ends it.
Place == <<DSKREG.drive, trackReg, sectorReg>>

Moved(ended) ==
    IF command = "read"
    THEN buffer' = (IF ended THEN disk[Place] ELSE Torn) /\ UNCHANGED disk
    ELSE /\ disk' = [disk EXCEPT ![Place] = IF ended THEN buffer ELSE Torn]
         /\ UNCHANGED buffer

FdcTransfers ==
    /\ drq /\ pc \in {"LD86B", "LD881"}
    /\ \/ Moved(TRUE) /\ Done({}) /\ UNCHANGED faults
       \/ Moved(FALSE) /\ Fails /\ \E e \in {CRCError, LostData} : Done({e})
    /\ UNCHANGED <<pc, stack, registers, irqMask, installed, request, DCSTA, RDYTMR,
                   DRGRAM, DR0TRK, NMIFLG, DSKREG, atSpeed, head, trackReg, dataReg,
                   sectorReg>>

\* The program has given up waiting for a byte that the controller asks for.
FdcLosesData ==
    /\ drq /\ pc \in {"LD863", "line 234"}
    /\ Done({LostData})
    /\ UNCHANGED <<program, drives, trackReg, dataReg, sectorReg, faults>>

\* ---------------------------------------------------------------------------
\* The interrupts.

\* dskcon_nmiService(): the return address on the stack becomes LD88B.
NmiService ==
    /\ nmi
    /\ nmi' = FALSE
    /\ pc' = IF NMIFLG THEN "LD88B" ELSE pc
    /\ NMIFLG' = FALSE
    /\ UNCHANGED <<stack, registers, irqMask, DCSTA, memory, drives, faults, command,
                   late, drq, status, trackReg, dataReg, sectorReg>>

\* A 60 Hz interrupt reaches dskcon_irqService().
IrqTaken == installed /\ ~irqMask /\ ~nmi

\* A slip: the image in memory keeps the motors on.
IrqServiceKeepsImage ==
    /\ IrqTaken
    /\ RDYTMR > 0
    /\ RDYTMR' = RDYTMR - 1
    /\ IF RDYTMR' = 0
       THEN DSKREG' = Off /\ atSpeed' = FALSE
       ELSE UNCHANGED <<DSKREG, atSpeed>>
    /\ UNCHANGED <<pc, stack, registers, irqMask, installed, request, DCSTA, DR0TRK,
                   DRGRAM, NMIFLG, buffer, fdc, head, disk, faults>>

\* dskcon_irqService()
IrqService ==
    /\ IrqTaken
    /\ RDYTMR > 0
    /\ RDYTMR' = RDYTMR - 1
    /\ IF RDYTMR' = 0
       THEN DRGRAM' = Off /\ DSKREG' = Off /\ atSpeed' = FALSE
       ELSE UNCHANGED <<DRGRAM, DSKREG, atSpeed>>
    /\ UNCHANGED <<pc, stack, registers, irqMask, installed, request, DCSTA, DR0TRK,
                   NMIFLG, buffer, fdc, head, disk, faults>>

\* ---------------------------------------------------------------------------
\* The processor.

At(label) == pc = label /\ ~nmi

Goto(label) == pc' = label /\ UNCHANGED stack

\* The bytes and addresses that are pushed.
Retries(n) == [retries |-> n]
Return(label) == [to |-> label]
Flag(op) == [flag |-> op]

\* What the caller has on the stack stays below everything else.
Caller == [bottom |-> "caller"]
Push(x, s) == [top |-> x, below |-> s]

\* BSR label, where the routine goes on at back.
Bsr(label, back) == pc' = label /\ stack' = Push(Return(back), stack)

\* RTS, with s on the stack.
Rts(s) == pc' = s.top.to /\ stack' = s.below

Entered == pc' = "LD765" /\ stack' = Push(Retries(RetryCount), stack)

\* A call of dskcon_processSector() with the request in DCOPC, DCDRV, DCTRK and
\* DCSEC.
Call(r) ==
    /\ pc = "idle" /\ installed
    /\ request' = r
    /\ buffer' \in IF r.op = Write THEN WriteData ELSE {Blank}
    /\ Entered
    /\ faults' = IF command = "none" THEN 0 ELSE 1
    /\ UNCHANGED <<registers, irqMask, installed, DCSTA, RDYTMR, DRGRAM, DR0TRK,
                   NMIFLG, drives, fdc>>

\* A slip: the timer goes on.
LD765WithTimer ==
    /\ At("LD765")
    /\ Goto("line 88")
    /\ UNCHANGED <<registers, irqMask, DCSTA, NMIFLG, memory, device>>

LD765 ==
    /\ At("LD765")
    /\ RDYTMR' = 0
    /\ Goto("line 88")
    /\ UNCHANGED <<registers, irqMask, installed, request, DCSTA, DRGRAM, DR0TRK,
                   NMIFLG, buffer, device>>

ReadImage ==
    /\ At("line 88")
    /\ image' = Motors(DCDRV, DRGRAM.motor)
    /\ Goto("LD77E")
    /\ UNCHANGED <<A, Z, B, irqMask, DCSTA, NMIFLG, memory, device>>

LD77E ==
    /\ At("LD77E")
    /\ DRGRAM' = [image EXCEPT !.motor = TRUE]
    /\ Goto("line 101")
    /\ UNCHANGED <<registers, irqMask, installed, request, DCSTA, RDYTMR, DR0TRK,
                   NMIFLG, buffer, device>>

ProgramDSKREG ==
    /\ At("line 101")
    /\ DSKREG' = DRGRAM
    /\ atSpeed' = (atSpeed /\ DSKREG.motor)
    /\ Goto(IF image.motor THEN "LD792" ELSE "LA7D1")
    /\ UNCHANGED <<registers, irqMask, DCSTA, NMIFLG, memory, fdc, head, disk, faults>>

\* The two delays are as long as the motors need.
LA7D1 ==
    /\ At("LA7D1")
    /\ atSpeed' = DSKREG.motor
    /\ Goto("LD792")
    /\ UNCHANGED <<registers, irqMask, DCSTA, NMIFLG, memory, DSKREG, fdc, head, disk,
                   faults>>

LD792 ==
    /\ At("LD792")
    /\ Bsr("LD7D3", "line 107")
    /\ UNCHANGED <<registers, irqMask, DCSTA, NMIFLG, memory, device>>

NotReadyAtFirst ==
    /\ At("line 107") /\ ~Z
    /\ Goto("LD7A0")
    /\ UNCHANGED <<registers, irqMask, DCSTA, NMIFLG, memory, device>>

Dispatch ==
    /\ At("line 107") /\ Z
    /\ DCSTA' = {}
    /\ \/ request.op = Restore /\ Bsr("LD7B8", "LD7A0")
       \/ request.op = Read /\ Bsr("LD7F8", "LD7A0")
       \/ request.op = Write /\ Bsr("LD7FB", "LD7A0")
       \/ request.op \notin {Restore, Read, Write} /\ Goto("LD7A0")
    /\ UNCHANGED <<registers, irqMask, NMIFLG, memory, device>>

\* Slips: the last retry is counted as one more, and the retry count is not
\* pushed again.
LD7A0OnceMore ==
    /\ At("LD7A0")
    /\ LET n == stack.top.retries IN
       IF DCSTA = {} \/ n = 0
       THEN pc' = "LD7B1" /\ stack' = stack.below
       ELSE /\ pc' = "LD7B8"
            /\ stack' = Push(Return("line 133"), Push(Retries(n - 1), stack.below))
    /\ UNCHANGED <<registers, irqMask, DCSTA, NMIFLG, memory, device>>

LD7A0WithoutPush ==
    /\ At("LD7A0")
    /\ LET n == stack.top.retries IN
       IF DCSTA = {} \/ n = 1
       THEN pc' = "LD7B1" /\ stack' = stack.below
       ELSE pc' = "LD7B8" /\ stack' = Push(Return("line 133"), stack.below)
    /\ UNCHANGED <<registers, irqMask, DCSTA, NMIFLG, memory, device>>

LD7A0 ==
    /\ At("LD7A0")
    /\ LET n == stack.top.retries IN
       IF DCSTA = {} \/ n = 1
       THEN pc' = "LD7B1" /\ stack' = stack.below
       ELSE /\ pc' = "LD7B8"
            /\ stack' = Push(Return("line 133"), Push(Retries(n - 1), stack.below))
    /\ UNCHANGED <<registers, irqMask, DCSTA, NMIFLG, memory, device>>

Retry ==
    /\ At("line 133")
    /\ Goto(IF Z THEN "LD765" ELSE "LD7A0")
    /\ UNCHANGED <<registers, irqMask, DCSTA, NMIFLG, memory, device>>

\* A slip: the timer is not started.
LD7B1WithoutTimer ==
    /\ At("LD7B1")
    /\ Goto("idle")
    /\ UNCHANGED <<registers, irqMask, DCSTA, NMIFLG, memory, device>>

LD7B1 ==
    /\ At("LD7B1")
    /\ RDYTMR' = MotorDelay
    /\ Goto("idle")
    /\ UNCHANGED <<registers, irqMask, installed, request, DCSTA, DRGRAM, DR0TRK,
                   NMIFLG, buffer, device>>

\* A slip: the track of the drive is not reset.
LD7B8KeepsTrack ==
    /\ At("LD7B8")
    /\ Send("restore")
    /\ Bsr("LD7D3", "line 149")
    /\ UNCHANGED <<registers, irqMask, DCSTA, NMIFLG, memory, drives, trackReg, dataReg,
                   sectorReg, nmi>>

\* Restore the head to track 0.
LD7B8 ==
    /\ At("LD7B8")
    /\ DR0TRK' = [DR0TRK EXCEPT ![DCDRV] = 0]
    /\ Send("restore")
    /\ Bsr("LD7D3", "line 149")
    /\ UNCHANGED <<registers, irqMask, installed, request, DCSTA, RDYTMR, DRGRAM,
                   NMIFLG, buffer, drives, trackReg, dataReg, sectorReg, nmi>>

Restored ==
    /\ At("line 149")
    /\ A' = A \cap {SeekError}
    /\ DCSTA' = A'
    /\ Z' = (A' = {})
    /\ Rts(stack)
    /\ UNCHANGED <<B, image, irqMask, NMIFLG, memory, device>>

\* Wait for the controller.
NotBusy ==
    /\ At("LD7D3") /\ command = "none"
    /\ A' = status
    /\ Z' = TRUE
    /\ Rts(stack)
    /\ UNCHANGED <<B, image, irqMask, DCSTA, NMIFLG, memory, device>>

TimeOut ==
    /\ At("LD7D3") /\ late
    /\ Goto("LD7DF")
    /\ UNCHANGED <<registers, irqMask, DCSTA, NMIFLG, memory, device>>

\* Force an interrupt: the controller drops its command and raises none.
LD7DF ==
    /\ At("LD7DF")
    /\ command' = "none" /\ late' = FALSE /\ drq' = FALSE /\ status' = {}
    /\ A' = {NotReady} /\ Z' = FALSE
    /\ DCSTA' = {NotReady}
    /\ Rts(stack)
    /\ UNCHANGED <<B, image, irqMask, NMIFLG, memory, drives, trackReg, dataReg,
                   sectorReg, nmi, faults>>

\* Read or write a sector: put the head on its track.
Transfer(label, op) ==
    /\ At(label)
    /\ trackReg' = DR0TRK[DCDRV]
    /\ \/ /\ DR0TRK[DCDRV] = request.track
          /\ pc' = "LD82C"
          /\ stack' = Push(Flag(op), stack)
          /\ UNCHANGED <<dataReg, DR0TRK, command, drq, status, late, faults>>
       \/ /\ DR0TRK[DCDRV] # request.track
          /\ dataReg' = request.track
          /\ DR0TRK' = [DR0TRK EXCEPT ![DCDRV] = request.track]
          /\ Send("seek")
          /\ pc' = "LD7D3"
          /\ stack' = Push(Return("line 202"), Push(Flag(op), stack))
    /\ UNCHANGED <<registers, irqMask, installed, request, DCSTA, RDYTMR, DRGRAM,
                   NMIFLG, buffer, drives, sectorReg, nmi>>

LD7F8 == Transfer("LD7F8", Read)
LD7FB == Transfer("LD7FB", Write)

\* The instruction at LD82A pulls the flag and returns.
SeekTimedOut ==
    /\ At("line 202") /\ ~Z
    /\ Rts(stack.below)
    /\ UNCHANGED <<registers, irqMask, DCSTA, NMIFLG, memory, device>>

Sought ==
    /\ At("line 202") /\ Z
    /\ A' = A \cap {SeekError, CRCError}
    /\ Z' = (A' = {})
    /\ IF A' = {} THEN Goto("LD82C") /\ UNCHANGED DCSTA
                  ELSE Rts(stack.below) /\ DCSTA' = A'
    /\ UNCHANGED <<B, image, irqMask, NMIFLG, memory, device>>

LD82C ==
    /\ At("LD82C")
    /\ sectorReg' = request.sector
    /\ B' = stack.top.flag
    /\ pc' = "line 220" /\ stack' = stack.below
    /\ UNCHANGED <<A, Z, image, irqMask, DCSTA, NMIFLG, memory, drives, command, late,
                   drq, status, trackReg, dataReg, nmi, faults>>

\* COM NMIFLG
ArmNMI ==
    /\ At("line 220")
    /\ NMIFLG' = ~NMIFLG
    /\ Goto("line 221")
    /\ UNCHANGED <<registers, irqMask, DCSTA, memory, device>>

SendTransfer ==
    /\ At("line 221")
    /\ irqMask' = TRUE
    /\ Send(IF B = Read THEN "read" ELSE "write")
    /\ Goto(IF B = Read THEN "LD877" ELSE "LD85B")
    /\ UNCHANGED <<registers, DCSTA, NMIFLG, memory, drives, trackReg, dataReg,
                   sectorReg, nmi>>

DataAskedFor ==
    /\ At("LD877") \/ At("LD85B")
    /\ drq
    /\ Goto(IF pc = "LD877" THEN "LD881" ELSE "LD86B")
    /\ UNCHANGED <<registers, irqMask, DCSTA, NMIFLG, memory, device>>

\* A slip: the loop does not count.
NoDataAskedForEver ==
    /\ At("LD877") \/ At("LD85B")
    /\ late
    /\ UNCHANGED vars

NoDataAskedFor ==
    /\ At("LD877") \/ At("LD85B")
    /\ late
    /\ Goto("LD863")
    /\ UNCHANGED <<registers, irqMask, DCSTA, NMIFLG, memory, device>>

\* A slip: the flag stays set.
LD863KeepsFlag ==
    /\ At("LD863")
    /\ Goto("line 234")
    /\ UNCHANGED <<registers, irqMask, DCSTA, NMIFLG, memory, device>>

LD863 ==
    /\ At("LD863")
    /\ NMIFLG' = FALSE
    /\ Goto("line 234")
    /\ UNCHANGED <<registers, irqMask, DCSTA, memory, device>>

Unmask ==
    /\ At("line 234")
    /\ irqMask' = FALSE
    /\ Goto("LD7DF")
    /\ UNCHANGED <<registers, DCSTA, NMIFLG, memory, device>>

\* A slip: the mask is $74.
LD88BMasksCRC ==
    /\ At("LD88B")
    /\ irqMask' = FALSE
    /\ A' = status \ {1, 2, CRCError, NotReady}
    /\ DCSTA' = A'
    /\ Z' = (A' = {})
    /\ Rts(stack)
    /\ UNCHANGED <<B, image, NMIFLG, memory, device>>

LD88B ==
    /\ At("LD88B")
    /\ irqMask' = FALSE
    /\ A' = status \ {1, 2, NotReady}
    /\ DCSTA' = A'
    /\ Z' = (A' = {})
    /\ Rts(stack)
    /\ UNCHANGED <<B, image, NMIFLG, memory, device>>

\* ---------------------------------------------------------------------------
\* The program around the calls, as readDECBFile() is.

HandlersIn == ~installed /\ installed' = TRUE /\ irqMask' = FALSE
HandlersOut == installed /\ installed' = FALSE /\ irqMask' = TRUE

DskconInit ==
    /\ pc = "idle" /\ HandlersIn
    /\ request' = NoRequest /\ DCSTA' = {}
    /\ RDYTMR' = 0 /\ DRGRAM' = Off /\ NMIFLG' = FALSE
    /\ DR0TRK' = [d \in Drives |-> 0]
    /\ UNCHANGED <<pc, stack, registers, buffer, device>>

DskconShutdown ==
    /\ pc = "idle" /\ HandlersOut
    /\ UNCHANGED <<pc, stack, registers, request, DCSTA, RDYTMR, DRGRAM, DR0TRK,
                   NMIFLG, buffer, device>>

\* Before dskcon_init(), another program has moved the heads, perhaps left the
\* motors on and perhaps a command that is not finished.
Init ==
    /\ pc = "idle" /\ stack = Caller
    /\ A = {} /\ Z = FALSE /\ B = Restore /\ image = Off
    /\ irqMask = TRUE /\ installed = FALSE
    /\ request = NoRequest /\ DCSTA = {} /\ RDYTMR = 0 /\ DRGRAM = Off
    /\ DR0TRK = [d \in Drives |-> 0] /\ NMIFLG = FALSE /\ buffer = Blank
    /\ \E on \in BOOLEAN : DSKREG = Motors(IF on THEN 0 ELSE NoDrive, on) /\ atSpeed = on
    /\ command \in {"none", "restore"} /\ late = (command = "restore")
    /\ drq = FALSE /\ status = {} /\ nmi = FALSE
    /\ trackReg = 0 /\ dataReg = 0 /\ sectorReg = 0
    /\ head \in [Drives -> Tracks]
    /\ disk = Contents
    /\ faults = 0

Processor ==
    \/ LD765 \/ ReadImage \/ LD77E \/ ProgramDSKREG \/ LA7D1 \/ LD792
    \/ NotReadyAtFirst \/ Dispatch \/ LD7A0 \/ Retry \/ LD7B1
    \/ LD7B8 \/ Restored \/ NotBusy \/ TimeOut \/ LD7DF
    \/ LD7F8 \/ LD7FB \/ SeekTimedOut \/ Sought
    \/ LD82C \/ ArmNMI \/ SendTransfer \/ DataAskedFor \/ NoDataAskedFor
    \/ LD863 \/ Unmask \/ LD88B

Controller ==
    \/ FdcRestores \/ FdcSeeks \/ FdcAsksForData \/ FdcFindsNoRecord \/ FdcTransfers
    \/ FdcLosesData

Next ==
    \/ Processor \/ Controller \/ NmiService \/ IrqService
    \/ \E r \in Requests : Call(r)
    \/ DskconInit \/ DskconShutdown

Punctual == Controller /\ (late => drq)

\* The processor runs, interrupts are taken, a controller that is not late
\* answers and a transfer that began ends. A caller need not call.
Fairness ==
    /\ WF_vars(Processor) /\ WF_vars(NmiService) /\ WF_vars(IrqService)
    /\ WF_vars(Punctual)

Spec == Init /\ [][Next]_vars /\ Fairness

\* ---------------------------------------------------------------------------
\* Properties.

\* The labels, by what the routine has on the stack there.
OfCaller == {"idle", "LD7B1"}
OfCall == {"LD765", "line 88", "LD77E", "line 101", "LA7D1", "LD792", "line 107",
           "LD7A0", "line 133"}
OfCommand == {"LD7F8", "LD7FB", "line 220", "line 221", "LD877", "LD85B", "LD881",
              "LD86B", "LD863", "line 234", "LD88B"}
OfRestore == {"LD7B8", "line 149"}
OfTransfer == {"LD82C", "line 202"}
OfWait == {"LD7D3", "LD7DF"}
Labels == OfCaller \cup OfCall \cup OfCommand \cup OfRestore \cup OfTransfer \cup OfWait

CallStacks == {Push(Retries(n), Caller) : n \in 1..RetryCount}
CommandStacks == {Push(Return("LD7A0"), s) : s \in CallStacks}
RestoreStacks == CommandStacks \cup {Push(Return("line 133"), s) : s \in CallStacks}
FlagStacks == {Push(Flag(f), s) : f \in {Read, Write}, s \in CommandStacks}
WaitStacks ==
    {Push(Return("line 107"), s) : s \in CallStacks}
    \cup {Push(Return("line 149"), s) : s \in RestoreStacks}
    \cup {Push(Return("line 202"), s) : s \in FlagStacks}
Stacks == {Caller} \cup CallStacks \cup RestoreStacks \cup FlagStacks \cup WaitStacks

\* Every variable has its type.
TypeOK ==
    /\ pc \in Labels /\ stack \in Stacks
    /\ A \subseteq StatusBits /\ Z \in BOOLEAN /\ B \in {Restore, Read, Write}
    /\ image \in [drive : Drives \cup {NoDrive}, motor : BOOLEAN]
    /\ irqMask \in BOOLEAN /\ installed \in BOOLEAN
    /\ request \in Requests \cup {NoRequest}
    /\ DCSTA \subseteq StatusBits
    /\ RDYTMR \in 0..MotorDelay
    /\ DRGRAM \in [drive : Drives \cup {NoDrive}, motor : BOOLEAN]
    /\ DR0TRK \in [Drives -> Tracks]
    /\ NMIFLG \in BOOLEAN /\ buffer \in Values
    /\ DSKREG \in [drive : Drives \cup {NoDrive}, motor : BOOLEAN]
    /\ atSpeed \in BOOLEAN
    /\ command \in {"none", "restore", "seek", "read", "write"}
    /\ late \in BOOLEAN /\ drq \in BOOLEAN /\ nmi \in BOOLEAN
    /\ status \subseteq StatusBits
    /\ trackReg \in Tracks /\ dataReg \in Tracks /\ sectorReg \in Sectors \cup {0}
    /\ head \in [Drives -> Tracks] /\ disk \in [Places -> Values]
    /\ faults \in 0..(MaxFaults + 1)

\* dskcon_processSector() pulls what it pushed, on each of its ways and also
\* where the NMI takes it out of a loop: a retry count where it expects one,
\* the flag of the command where it expects that, and return addresses of its
\* own, so that it always gets back to its caller.
StackDiscipline ==
    /\ pc \in OfCaller => stack = Caller
    /\ pc \in OfCall => stack \in CallStacks
    /\ pc \in OfCommand => stack \in CommandStacks
    /\ pc \in OfRestore => stack \in RestoreStacks
    /\ pc \in OfTransfer => stack \in FlagStacks
    /\ pc \in OfWait => stack \in WaitStacks \cup CommandStacks
    /\ pc = "LD7D3" => stack \in WaitStacks

\* The NMI leaves the loop of a transfer and nothing else: NMIFLG, which the code
\* inverts where it means to set it, is set exactly from there to the end of the
\* wait, in a call and with the other interrupts masked.
Armed == {"line 221", "LD877", "LD85B", "LD881", "LD86B", "LD863"}
NmiOnlyInTransfer ==
    /\ NMIFLG <=> pc \in Armed
    /\ NMIFLG => installed
    /\ pc \in Armed \ {"line 221"} => irqMask

\* A controller at work in a call has the motors running at their speed and the
\* drive of the request selected, though the timer interrupt may stop the motors
\* at any time between two calls and in the first instructions of one.
InTransfer == pc \in {"LD7B8", "line 149", "LD7F8", "LD7FB", "line 202", "LD82C",
                      "line 220", "line 221", "LD877", "LD85B", "LD881", "LD86B"}
MotorAtSpeed ==
    InTransfer => Ready /\ DSKREG = Motors(DCDRV, TRUE) /\ DRGRAM = DSKREG

\* Between two calls the motors that a call has started run only as long as the
\* timer that will stop them does, and no call runs under a timer.
TimerStopsMotor ==
    /\ installed /\ pc = "idle" /\ DRGRAM.motor => RDYTMR > 0
    /\ pc \notin {"idle", "LD765"} => RDYTMR = 0

\* A call ends with success as long as the controller has not failed more often
\* than the retries allow for, one of which is spent where DR0TRK is wrong since
\* another program has moved the head.
RetriesMaskFaults ==
    pc = "idle" /\ faults <= RetryCount - 2 => DCSTA = {}

\* A sector that is said to be read is in the buffer, one that is said to be
\* written is on the disk, and no other sector is touched.
Store == INSTANCE SectorStore
            WITH pending <- pc # "idle", ok <- pc = "idle" /\ DCSTA = {}
IsSectorStore == Store!StoreSpec

\* Every call returns to its caller, whatever the controller does.
CallEnds == pc # "idle" ~> pc = "idle"

\* Motors that a call has started stop, unless there is another call.
MotorStops ==
    installed /\ pc = "idle" /\ DRGRAM.motor
        ~> ~DSKREG.motor \/ pc # "idle" \/ ~installed
===============================================================================
