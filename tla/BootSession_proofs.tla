------------------------- MODULE BootSession_proofs -------------------------
(***************************************************************************)
(* Proofs about BootSession, for every set of configurations, machines and *)
(* file numbers and for every bound.                                       *)
(***************************************************************************)
EXTENDS BootSession, TLAPS

(* The boots already made and those that are owed stay within MaxBoots;    *)
(* this is what keeps the boot numbers, and so the buffers, typed.         *)
BootsBounded == boots + Owed <= MaxBoots

TypeInv == TypeOK /\ BootsBounded

(* The part of TypeOK about the screen.                                    *)
ScreenTyped ==
    /\ hw \in Depths /\ saved \in Depths \cup {NotSaved}
    /\ original \in Depths \cup {NotSaved, NotMain, NotRead} /\ lost \subseteq Losses

(* A stack frame that is changed in one field is still a stack frame.      *)
LEMMA TopType ==
    ASSUME TypeOK
    PROVE  /\ Top \in Frame
           /\ MainFrame \in Frame
           /\ \A n \in 0 .. MaxBoots : NewFrame(n) \in Frame
           /\ \A i \in 0 .. MaxDepth : frame[i] \in Frame
  <1>1. Top \in Frame /\ \A i \in 0 .. MaxDepth : frame[i] \in Frame
    BY DEF TypeOK, Top
  <1>2. MainFrame \in Frame
    BY BoundsAssumption DEF MainFrame, Frame
  <1>3. ASSUME NEW n \in 0 .. MaxBoots
        PROVE  NewFrame(n) \in Frame
    BY <1>2 DEF NewFrame, Frame, Phases
  <1> QED
    BY <1>1, <1>2, <1>3

(* Putting a frame on top leaves a stack of frames.                        *)
LEMMA SetTopType ==
    ASSUME TypeOK, NEW f \in Frame, SetTop(f)
    PROVE  frame' \in [0 .. MaxDepth -> Frame]
  BY DEF TypeOK, SetTop

(* Going to another phase leaves a stack of frames.                        *)
LEMMA GoToType ==
    ASSUME TypeOK, NEW pc \in Phases, GoTo(pc)
    PROVE  frame' \in [0 .. MaxDepth -> Frame]
  <1>1. [Top EXCEPT !.pc = pc, !.st = "event", !.in = "copyunix"] \in Frame
    BY TopType DEF Frame
  <1> QED
    BY <1>1, SetTopType DEF GoTo

(* Marking the boots on a stack as stopped leaves a stack of frames.       *)
LEMMA HaltedType ==
    ASSUME TypeOK, NEW f \in [0 .. MaxDepth -> Frame]
    PROVE  Halted(f) \in [0 .. MaxDepth -> Frame]
  <1>1. ASSUME NEW i \in 0 .. MaxDepth
        PROVE  [f[i] EXCEPT !.stopped = TRUE] \in Frame
    BY DEF Frame
  <1> QED
    BY <1>1 DEF Halted

(* MainEvent's return leaves a stack of frames.                            *)
LEMMA ResumeType ==
    ASSUME TypeOK, NEW f \in [0 .. MaxDepth -> Frame]
    PROVE  Resume(f) \in [0 .. MaxDepth -> Frame]
  <1>1. depth \in 0 .. MaxDepth
    BY DEF TypeOK
  <1>2. f[depth] \in Frame
    BY <1>1
  <1>3. \A g \in Frame : \A s \in {"event", "check"} : [g EXCEPT !.st = s] \in Frame
    BY DEF Frame
  <1> QED
    BY <1>1, <1>2, <1>3 DEF Resume

(* Returning from a load_and_boot leaves a stack of frames.                *)
LEMMA ReturnFromType ==
    ASSUME TypeOK, NEW d \in 1 .. depth, ReturnFrom(d)
    PROVE  /\ frame' \in [0 .. MaxDepth -> Frame]
           /\ depth' \in 0 .. MaxDepth
  <1>1. [frame[0] EXCEPT !.st = "event"] \in Frame
    BY TopType, BoundsAssumption DEF Frame
  <1> QED
    BY <1>1, TopType, BoundsAssumption DEF ReturnFrom, TypeOK

(* What StopRun leaves is typed.                                           *)
LEMMA StopRunType ==
    ASSUME TypeOK, NEW fd, StopRun(fd)
    PROVE  /\ running' = FALSE /\ timer' = FALSE /\ log' = FALSE
           /\ files' \subseteq Locations \X Fds
           /\ ScreenTyped'
           /\ vbl' = vbl
  <1>1. ScreenTyped /\ ScreenTyped'
    BY DEF TypeOK, StopRun, RestoreDepth, ScreenTyped, screenVars
  <1> QED
    BY <1>1 DEF TypeOK, StopRun, FilesAfterClose

(* The type invariant, with BootsBounded, holds initially.                 *)
LEMMA InitType == Init => TypeInv
  <1> SUFFICES ASSUME Init PROVE TypeInv
    OBVIOUS
  <1>1. MainFrame \in Frame
    BY BoundsAssumption DEF MainFrame, Frame
  <1>2. frame \in [0 .. MaxDepth -> Frame]
    BY <1>1 DEF Init
  <1>3. BootsBounded
    BY BoundsAssumption DEF Init, BootsBounded, Owed
  <1>4. booter_files \in Seq(Fds)
    BY DEF Init
  <1> QED
    BY <1>2, <1>3, <1>4, ConfigsAssumption, MachinesAssumption, BoundsAssumption
    DEF Init, TypeInv, TypeOK, MachineType

(* Stopping the run and leaving copyunix keeps the types.                  *)
LEMMA CopyunixReturnsType ==
    ASSUME TypeInv, depth > 0, CopyunixReturns, KeepBuffer \/ DisposeBuffer, UNCHANGED machine
    PROVE  TypeInv'
  <1>1. depth \in 1 .. depth
    BY DEF TypeInv, TypeOK
  <1>2. /\ frame' \in [0 .. MaxDepth -> Frame]
        /\ depth' \in 0 .. MaxDepth
    BY <1>1, ReturnFromType DEF CopyunixReturns, TypeInv
  <1>3. /\ running' = FALSE /\ timer' = FALSE /\ log' = FALSE
        /\ files' \subseteq Locations \X Fds
        /\ ScreenTyped'
        /\ vbl' = vbl
    BY StopRunType DEF CopyunixReturns, TypeInv
  <1>4. /\ live' \subseteq 0 .. MaxBoots /\ loaded' \subseteq 0 .. MaxBoots
        /\ boot_buffer' \in 0 .. MaxBoots
    BY DEF KeepBuffer, DisposeBuffer, memVars, TypeInv, TypeOK
  <1>5. boots' = boots /\ startboot' = startboot /\ timer' = FALSE
    BY <1>3 DEF CopyunixReturns
  <1>6. BootsBounded'
    BY <1>5, BoundsAssumption DEF TypeInv, TypeOK, BootsBounded, Owed
  <1> QED
    BY <1>2, <1>3, <1>4, <1>6 DEF CopyunixReturns, session, ScreenTyped, TypeInv, TypeOK

(* MainEvent keeps the types: the user's events.                           *)
LEMMA UserEventType ==
    ASSUME TypeInv, UserEvent
    PROVE  TypeInv'
  <1> USE DEF session, bootVars, callVars, fileVars, memVars, machVars, screenVars, ScreenTyped
  <1>1. Resume(frame) \in [0 .. MaxDepth -> Frame]
    BY ResumeType DEF TypeInv, TypeOK
  <1>2. CASE StopBoot
    <2>1. frame' \in [0 .. MaxDepth -> Frame]
      BY <1>2, HaltedType, ResumeType DEF StopBoot, TypeInv, TypeOK
    <2>2. /\ running' = FALSE /\ timer' = FALSE /\ log' = FALSE
          /\ files' \subseteq Locations \X Fds
          /\ ScreenTyped'
          /\ vbl' = vbl
      BY <1>2, StopRunType DEF StopBoot, TypeInv
    <2>3. BootsBounded'
      <3>1. boots' = boots /\ startboot' = startboot /\ timer' = FALSE
        BY <1>2, <2>2 DEF StopBoot
      <3> QED
        BY <3>1, BoundsAssumption DEF TypeInv, TypeOK, BootsBounded, Owed
    <2> QED
      BY <1>2, <2>1, <2>2, <2>3 DEF StopBoot, TypeInv, TypeOK
  <1>3. CASE BootNow
    <2>1. cfg' \in ConfigType
      BY <1>3, ConfigsAssumption DEF BootNow, TypeInv, TypeOK
    <2>2. BootsBounded'
      <3>1. boots' = boots /\ startboot' = TRUE /\ timer' = timer
        BY <1>3 DEF BootNow
      <3>2. startboot \/ boots + Owed < MaxBoots
        BY <1>3 DEF BootNow
      <3> QED
        BY <3>1, <3>2, BoundsAssumption DEF TypeInv, TypeOK, BootsBounded, Owed
    <2> QED
      BY <1>1, <1>3, <2>1, <2>2 DEF BootNow, TypeInv, TypeOK
  <1>4. CASE OpenBoot
    <2>1. BootsBounded'
      <3>1. boots' = boots /\ startboot' = TRUE /\ timer' = timer
        BY <1>4 DEF OpenBoot
      <3>2. startboot \/ boots + Owed < MaxBoots
        BY <1>4 DEF OpenBoot
      <3> QED
        BY <3>1, <3>2, BoundsAssumption DEF TypeInv, TypeOK, BootsBounded, Owed
    <2> QED
      BY <1>1, <1>4, <2>1 DEF OpenBoot, TypeInv, TypeOK
  <1>5. CASE OpenDialog
    BY <1>1, <1>5 DEF OpenDialog, TypeInv, TypeOK, BootsBounded, Owed
  <1>6. CASE DialogHit
    BY <1>1, <1>6, ConfigsAssumption DEF DialogHit, TypeInv, TypeOK, BootsBounded, Owed
  <1>7. CASE Quit
    BY <1>7 DEF Quit, TypeInv, TypeOK, BootsBounded, Owed
  <1> QED
    BY <1>2, <1>3, <1>4, <1>5, <1>6, <1>7 DEF UserEvent

(* Starting a boot keeps the types: one boot that was owed is made.        *)
LEMMA LoadAndBootType ==
    ASSUME TypeInv, NEW resume \in {"check", "recheck"}, LoadAndBoot(resume),
           \/ timer /\ timer' = FALSE
           \/ startboot /\ timer' = timer
    PROVE  TypeInv'
  <1>1. boots' = boots + 1 /\ startboot' = FALSE /\ timer' \in BOOLEAN
    BY DEF LoadAndBoot, TypeInv, TypeOK
  <1>2. boots + 1 \in 0 .. MaxBoots /\ BootsBounded'
    BY <1>1, BoundsAssumption DEF TypeInv, TypeOK, BootsBounded, Owed
  <1>3. [frame[depth] EXCEPT !.st = resume] \in Frame
    BY SMTT(30) DEF TypeInv, TypeOK, Frame
  <1>4. NewFrame(boots + 1) \in Frame
    BY <1>2, TopType DEF TypeInv
  <1>5. depth + 1 \in 0 .. MaxDepth
    BY BoundsAssumption DEF LoadAndBoot, TypeInv, TypeOK
  <1>6. frame' \in [0 .. MaxDepth -> Frame]
    BY <1>3, <1>4, <1>5 DEF LoadAndBoot, TypeInv, TypeOK
  <1> QED
    BY <1>1, <1>2, <1>5, <1>6
    DEF LoadAndBoot, TypeInv, TypeOK, session, fileVars, memVars, screenVars

(* Every step that only moves the frame on top keeps the types.            *)
LEMMA FrameOnlyType ==
    ASSUME TypeInv, frame' \in [0 .. MaxDepth -> Frame],
           UNCHANGED <<bootVars, callVars, fileVars, memVars, machVars, session>>
    PROVE  TypeInv'
  BY DEF TypeInv, TypeOK, BootsBounded, Owed,
         bootVars, callVars, fileVars, memVars, machVars, screenVars, session
(* EVENT_CHECK keeps the types.                                            *)
LEMMA CheckType ==
    ASSUME TypeInv, Poll \/ Check
    PROVE  TypeInv'
  <1> USE DEF session, bootVars, callVars, fileVars, memVars, machVars, screenVars, ScreenTyped
  <1>1. CASE Poll
    <2>1. \A w \in {"copyunix", "ufs"} :
             [Top EXCEPT !.st = "event", !.in = w] \in Frame
      BY TopType DEF TypeInv, Frame
    <2> QED
      BY <1>1, <2>1, SetTopType, FrameOnlyType DEF Poll, TypeInv
  <1>2. CASE CheckPasses
    <2>1. [Top EXCEPT !.st = "work"] \in Frame
      BY TopType DEF TypeInv, Frame
    <2> QED
      BY <1>2, <2>1, SetTopType, FrameOnlyType DEF CheckPasses, TypeInv
  <1>3. CASE CheckCleansUp
    BY <1>3, CopyunixReturnsType DEF CheckCleansUp, CopyunixReturns, InBoot
  <1>4. CASE CheckJumps
    <2>1. /\ frame' \in [0 .. MaxDepth -> Frame]
          /\ depth' \in 0 .. MaxDepth
      BY <1>4, ReturnFromType DEF CheckJumps, TypeInv
    <2>2. files' \subseteq Locations \X Fds
      BY <1>4 DEF CheckJumps, FilesAfterClose, TypeInv, TypeOK
    <2> QED
      BY <1>4, <2>1, <2>2 DEF CheckJumps, TypeInv, TypeOK, BootsBounded, Owed
  <1> QED
    BY <1>1, <1>2, <1>3, <1>4 DEF Check

(* A boot whose kernel_open fails keeps the types.                         *)
LEMMA OpenReturnsErrorType ==
    ASSUME TypeInv, depth > 0, OpenReturnsError, UNCHANGED booter_files
    PROVE  TypeInv'
  <1>1. depth \in 1 .. depth
    BY DEF TypeInv, TypeOK
  <1>2. /\ frame' \in [0 .. MaxDepth -> Frame]
        /\ depth' \in 0 .. MaxDepth
    BY <1>1, ReturnFromType DEF OpenReturnsError, TypeInv
  <1>3. /\ running' = FALSE /\ timer' = FALSE /\ log' = FALSE
        /\ files' \subseteq Locations \X Fds
        /\ ScreenTyped'
        /\ vbl' = vbl
    BY StopRunType DEF OpenReturnsError, TypeInv
  <1>4. boots' = boots /\ startboot' = startboot /\ timer' = FALSE
    BY <1>3 DEF OpenReturnsError
  <1>5. BootsBounded'
    BY <1>4, BoundsAssumption DEF TypeInv, TypeOK, BootsBounded, Owed
  <1> QED
    BY <1>2, <1>3, <1>5 DEF OpenReturnsError, session, memVars, ScreenTyped, TypeInv, TypeOK

(* Opening a kernel keeps the types: every descriptor handed out is one.   *)
LEMMA OpenType ==
    ASSUME TypeInv, OpenFails \/ BootOpen \/ SlotInitFails \/ ReadHeader
    PROVE  TypeInv'
  <1> USE DEF session, bootVars, callVars, fileVars, memVars, machVars, screenVars, ScreenTyped
  <1>1. CASE OpenFails
    BY <1>1, OpenReturnsErrorType DEF OpenFails, At, InBoot
  <1>2. CASE SlotInitFails
    BY <1>2, OpenReturnsErrorType DEF SlotInitFails, At, InBoot
  <1>3. CASE BootOpen
    <2>1. PICK fd \in NextFds(cfg.kernelLoc) :
             /\ files' = files \cup {<<cfg.kernelLoc, fd>>}
             /\ OpenInSlot(fd) \/ OpenWithoutSlot(fd)
      BY <1>3 DEF BootOpen
    <2>2. cfg.kernelLoc \in Locations
      BY DEF TypeInv, TypeOK, ConfigType
    <2>3. fd \in Fds
      BY <2>1, <2>2, BoundsAssumption DEF NextFds, Fds, Locations
    <2>4. files' \subseteq Locations \X Fds
      BY <2>1, <2>2, <2>3 DEF TypeInv, TypeOK
    <2>5. CASE OpenInSlot(fd)
      <3>1. booter_files' \in Seq(Fds)
        BY <2>3, <2>5 DEF OpenInSlot, TypeInv, TypeOK
      <3>2. [Top EXCEPT !.pc = "header", !.io = fd] \in Frame
        BY <2>3, TopType DEF TypeInv, Frame, Phases
      <3>3. frame' \in [0 .. MaxDepth -> Frame]
        BY <2>5, <3>2, SetTopType DEF OpenInSlot, TypeInv
      <3> QED
        BY ZenonT(40), <1>3, <2>4, <2>5, <3>1, <3>3
        DEF BootOpen, OpenInSlot, TypeInv, TypeOK, BootsBounded, Owed
    <2>6. CASE OpenWithoutSlot(fd)
      <3>1. [Top EXCEPT !.pc = "count", !.st = "event", !.in = "copyunix", !.io = fd]
               \in Frame
        BY <2>3, TopType DEF TypeInv, Frame, Phases
      <3>2. frame' \in [0 .. MaxDepth -> Frame]
        BY <2>6, <3>1, SetTopType DEF OpenWithoutSlot, TypeInv
      <3> QED
        BY <1>3, <2>3, <2>4, <2>6, <3>2
        DEF BootOpen, OpenWithoutSlot, TypeInv, TypeOK, BootsBounded, Owed
    <2> QED
      BY <2>1, <2>5, <2>6
  <1>4. CASE ReadHeader
    <2>1. Top.io \in Fds \cup {-1}
      BY TopType DEF TypeInv, Frame
    <2>2. frame' \in [0 .. MaxDepth -> Frame]
      BY <1>4, GoToType DEF ReadHeader, TypeInv, Phases
    <2> QED
      BY <1>4, <2>1, <2>2 DEF ReadHeader, TypeInv, TypeOK, BootsBounded, Owed
  <1> QED
    BY <1>1, <1>2, <1>3, <1>4
(* copyunix up to the patched kernel keeps the types.                      *)
LEMMA LoadType ==
    ASSUME TypeInv,
           \/ CountKernel \/ CountFails \/ AllocBuffer \/ AllocFails
           \/ LoadKernel \/ LoadFails \/ PatchKernel
    PROVE  TypeInv'
  <1> USE DEF session, bootVars, callVars, fileVars, memVars, machVars, screenVars, ScreenTyped
  <1>1. CASE CountKernel
    BY <1>1, GoToType, FrameOnlyType DEF CountKernel, Phases, TypeInv
  <1>2. CASE CountFails \/ AllocFails \/ LoadFails
    BY <1>2, CopyunixReturnsType
    DEF CountFails, AllocFails, LoadFails, At, InBoot, CopyunixReturns
  <1>3. CASE AllocBuffer
    <2>1. Top.boot \in 0 .. MaxBoots
      BY TopType DEF TypeInv, Frame
    <2>2. [Top EXCEPT !.pc = "load", !.st = "event", !.in = "copyunix", !.buf = Top.boot]
             \in Frame
      BY <2>1, TopType DEF TypeInv, Frame, Phases
    <2>3. frame' \in [0 .. MaxDepth -> Frame]
      BY <1>3, <2>2, SetTopType DEF AllocBuffer, TypeInv
    <2> QED
      BY <1>3, <2>1, <2>3 DEF AllocBuffer, TypeInv, TypeOK, BootsBounded, Owed
  <1>4. CASE LoadKernel
    <2>1. Top.buf \in 0 .. MaxBoots
      BY TopType DEF TypeInv, Frame
    <2>2. frame' \in [0 .. MaxDepth -> Frame]
      BY <1>4, GoToType DEF LoadKernel, TypeInv, Phases
    <2> QED
      BY ZenonT(40), <1>4, <2>1, <2>2 DEF LoadKernel, TypeInv, TypeOK, BootsBounded, Owed
  <1>5. CASE PatchKernel
    <2>1. Top.buf \in 0 .. MaxBoots
      BY TopType DEF TypeInv, Frame
    <2>2. frame' \in [0 .. MaxDepth -> Frame]
      BY <1>5, GoToType DEF PatchKernel, TypeInv, Phases
    <2> QED
      BY <1>5, <2>1, <2>2 DEF PatchKernel, TypeInv, TypeOK, BootsBounded, Owed
  <1> QED
    BY <1>1, <1>2, <1>3, <1>4, <1>5

(* A video error keeps the types.                                          *)
LEMMA VideoErrorType ==
    ASSUME TypeOK, NEW f \in [0 .. MaxDepth -> Frame],
           VideoError(f) \/ (UNCHANGED running /\ frame' = f)
    PROVE  running' \in BOOLEAN /\ frame' \in [0 .. MaxDepth -> Frame]
  BY HaltedType DEF VideoError, TypeOK

(* copyunix from the monitor change to the kernel keeps the types.         *)
LEMMA EnterType ==
    ASSUME TypeInv,
           \/ ChangeMonitor \/ VideoInfo \/ Confirm \/ ConfirmCancelled
           \/ CloseLog \/ AbortOnPPC \/ TurnOffInterrupts \/ EnterKernel
           \/ ShutDwnStartReturns
    PROVE  TypeInv'
  <1> USE DEF session, bootVars, callVars, fileVars, memVars, machVars, screenVars, ScreenTyped
  <1>1. CASE ChangeMonitor
    <2>1. frame' \in [0 .. MaxDepth -> Frame]
      BY <1>1, GoToType DEF ChangeMonitor, TypeInv, Phases
    <2>2. ScreenTyped'
      BY <1>1 DEF ChangeMonitor, MonitorChange, SaveDepth, Depths, MachineType, TypeInv, TypeOK
    <2> QED
      BY <1>1, <2>1, <2>2 DEF ChangeMonitor, TypeInv, TypeOK, BootsBounded, Owed
  <1>2. CASE VideoInfo
    <2>1. [Top EXCEPT !.pc = "confirm"] \in Frame
      BY TopType DEF TypeInv, Frame, Phases
    <2>2. [frame EXCEPT ![depth].pc = "confirm"] \in [0 .. MaxDepth -> Frame]
      BY <2>1 DEF Top, TypeInv, TypeOK
    <2>3. running' \in BOOLEAN /\ frame' \in [0 .. MaxDepth -> Frame]
      BY <1>2, <2>2, VideoErrorType DEF VideoInfo, TypeInv
    <2> QED
      BY <1>2, <2>3 DEF VideoInfo, TypeInv, TypeOK, BootsBounded, Owed
  <1>3. CASE Confirm
    BY <1>3, GoToType, FrameOnlyType DEF Confirm, Phases, TypeInv
  <1>4. CASE ConfirmCancelled \/ ShutDwnStartReturns
    BY <1>4, CopyunixReturnsType
    DEF ConfirmCancelled, ShutDwnStartReturns, At, InBoot, CopyunixReturns
  <1>5. CASE CloseLog
    <2>1. frame' \in [0 .. MaxDepth -> Frame]
      BY <1>5, GoToType DEF CloseLog, TypeInv, Phases
    <2> QED
      BY ZenonT(40), <1>5, <2>1 DEF CloseLog, TypeInv, TypeOK, BootsBounded, Owed
  <1>6. CASE AbortOnPPC
    <2>1. depth \in 1 .. depth
      BY <1>6 DEF AbortOnPPC, At, InBoot, TypeInv, TypeOK
    <2>2. /\ frame' \in [0 .. MaxDepth -> Frame]
          /\ depth' \in 0 .. MaxDepth
      BY <1>6, <2>1, ReturnFromType DEF AbortOnPPC, TypeInv
    <2>3. files' \subseteq Locations \X Fds
      BY <1>6 DEF AbortOnPPC, TypeInv, TypeOK
    <2>4. ScreenTyped'
      BY <1>6 DEF AbortOnPPC, RestoreDepth, TypeInv, TypeOK
    <2>5. boots' = boots /\ startboot' = startboot /\ timer' = FALSE
      BY <1>6 DEF AbortOnPPC
    <2>6. BootsBounded'
      BY <2>5, BoundsAssumption DEF TypeInv, TypeOK, BootsBounded, Owed
    <2> QED
      BY <1>6, <2>2, <2>3, <2>4, <2>6 DEF AbortOnPPC, KeepBuffer, TypeInv, TypeOK
  <1>7. CASE TurnOffInterrupts
    <2>1. [Top EXCEPT !.pc = "last", !.st = "event", !.in = "copyunix"] \in Frame
      BY TopType DEF TypeInv, Frame, Phases
    <2>2. [frame EXCEPT ![depth].pc = "last", ![depth].st = "event",
                        ![depth].in = "copyunix"] \in [0 .. MaxDepth -> Frame]
      BY <2>1 DEF Top, TypeInv, TypeOK
    <2>3. running' \in BOOLEAN /\ frame' \in [0 .. MaxDepth -> Frame]
      BY <1>7, <2>2, VideoErrorType DEF TurnOffInterrupts, TypeInv
    <2>4. vbl' \in {"on", "off", "error"}
      BY <1>7 DEF TurnOffInterrupts, TypeInv, TypeOK
    <2> QED
      BY <1>7, <2>3, <2>4 DEF TurnOffInterrupts, TypeInv, TypeOK, BootsBounded, Owed
  <1>8. CASE EnterKernel
    BY <1>8 DEF EnterKernel, TypeInv, TypeOK, BootsBounded, Owed
  <1> QED
    BY <1>1, <1>2, <1>3, <1>4, <1>5, <1>6, <1>7, <1>8

(* TypeInv is inductive: one case per handler.                             *)
LEMMA NextType == TypeInv /\ [Next]_vars => TypeInv'
  <1> SUFFICES ASSUME TypeInv, [Next]_vars PROVE TypeInv'
    OBVIOUS
  <1>1. CASE UserEvent
    BY <1>1, UserEventType
  <1>2. CASE TimerBoot
    BY <1>2, LoadAndBootType DEF TimerBoot
  <1>3. CASE StartBoot
    BY <1>3, LoadAndBootType DEF StartBoot
  <1>4. CASE NullEvent
    <2>1. Resume(frame) \in [0 .. MaxDepth -> Frame]
      BY ResumeType DEF TypeInv, TypeOK
    <2> QED
      BY <1>4, <2>1, FrameOnlyType DEF NullEvent
  <1>5. CASE Poll \/ Check
    BY <1>5, CheckType
  <1>6. CASE Work
    BY <1>6, OpenType, LoadType, EnterType DEF Work
  <1>7. CASE Ended \/ UNCHANGED vars
    <2>1. UNCHANGED vars
      BY <1>7 DEF Ended
    <2> QED
      BY <2>1 DEF vars, session, bootVars, callVars, fileVars, memVars, machVars, screenVars,
                  TypeInv, TypeOK, BootsBounded, Owed
  <1> QED
    BY <1>1, <1>2, <1>3, <1>4, <1>5, <1>6, <1>7 DEF Next, MainEvent, SystemEvent

(* Every variable keeps its type, whatever the configurations, the machine *)
(* and the bounds: the boot numbers and the call depth in particular.      *)
THEOREM TypeCorrect == Spec => []TypeOK
  <1>1. Spec => []TypeInv
    BY InitType, NextType, PTL DEF Spec
  <1>2. TypeInv => TypeOK
    BY DEF TypeInv
  <1> QED
    BY <1>1, <1>2, PTL
-----------------------------------------------------------------------------
(* The inductive invariant of the safety theorems.  Each part is a fact    *)
(* the handlers rely on without testing it.                                *)

ReadingPcs == {"open", "header", "count", "load"}
LatePcs    == {"monitor", "video", "confirm", "closelog", "interrupts", "last"}

(* The flags: a running boot is the one on top, it has not been stopped    *)
(* and no other is requested.                                              *)
RunningInv == running => /\ depth > 0 /\ ~startboot
                         /\ ~Top.stopped /\ Top.st # "recheck"

(* A boot on top that is not running is on its way out: after a video      *)
(* error it reaches one of the two last event checks, after Stop it is     *)
(* back from MainEvent already.                                            *)
StoppedInv ==
    depth > 0 /\ ~running =>
        /\ Top.stopped
        /\ Top.st = "work"  => Top.pc = "confirm"
        /\ Top.st = "event" => Top.pc \in {"closelog", "last"}
        /\ Top.st = "recheck" => depth = 1 /\ ~timer
        /\ startboot => Top.st \in {"check", "recheck"}

(* Where a frame polls from: read_ufs.c polls only while the kernel is     *)
(* read, and no boot is nested in the calls that jump to bootenv.          *)
PollInv ==
    /\ depth > 0 => Top.pc # "main"
    /\ depth > 0 /\ Top.pc \notin {"closelog", "interrupts", "last"} => bootenv = depth
    /\ depth > 0 /\ Top.in = "ufs" => Top.pc \in ReadingPcs
    /\ depth > 0 /\ Top.st = "recheck" => Top.pc \in {"closelog", "last"}

(* Two boots at most; the outer one waits in one of its last two event     *)
(* checks and is doomed.                                                   *)
NestingInv ==
    /\ depth <= 2
    /\ depth = 2 => /\ ~timer
                    /\ frame[1].stopped /\ frame[1].in = "copyunix"
                    /\ frame[1].pc \in {"closelog", "last"}
                    /\ frame[1].st \in {"check", "recheck"}

(* The log file outlives `running' only between a video error and          *)
(* CloseLogFile; past that call a running boot has none.                   *)
LogInv ==
    /\ log /\ ~running => depth > 0 /\ Top.pc \in {"confirm", "closelog"}
    /\ running /\ Top.pc \in {"interrupts", "last"} => ~log

(* While the boot on top runs, its buffer is allocated from the allocation *)
(* on, filled from the load on, and the one shutdownProc will use.         *)
BufferInv ==
    running =>
        /\ Top.pc \in {"load", "patch"} \cup LatePcs => Top.buf \in live
        /\ Top.pc \in {"patch"} \cup LatePcs => Top.buf \in loaded
        /\ Top.pc \in LatePcs => boot_buffer = Top.buf

(* The kernel is entered from a running boot's last phase.                 *)
KernelInv == outcome = "kernel" => running /\ Top.pc = "last"

SessionInv == /\ TypeInv /\ RunningInv /\ StoppedInv /\ PollInv
              /\ NestingInv /\ LogInv /\ BufferInv /\ KernelInv
(* A step that ends with no boot on the stack, not running, keeps it.      *)
LEMMA IdleStep ==
    ASSUME TypeInv', depth' = 0, ~running', ~log', outcome' # "kernel"
    PROVE  SessionInv'
  BY DEF SessionInv, RunningInv, StoppedInv, PollInv, NestingInv, LogInv,
         BufferInv, KernelInv

(* Replacing the top frame leaves the others alone.                        *)
LEMMA SetTopFrame ==
    ASSUME TypeOK, NEW f, SetTop(f), depth' = depth
    PROVE  /\ Top' = f
           /\ \A i \in 0 .. MaxDepth : i # depth => frame'[i] = frame[i]
  BY DEF TypeOK, SetTop, Top

(* A step that moves the boot on top keeps the invariant, when it keeps    *)
(* what the boot relies on: its buffer, the log, where it may poll from.   *)
LEMMA TopStep ==
    ASSUME SessionInv, TypeInv', depth > 0, outcome' = "none",
           UNCHANGED <<depth, bootenv, running, timer>>,
           NEW f, SetTop(f),
           f.stopped = Top.stopped, f.pc # "main",
           f.pc \notin {"closelog", "interrupts", "last"}
              => Top.pc \notin {"closelog", "interrupts", "last"},
           f.in = "ufs" => f.pc \in ReadingPcs,
           \/ running /\ f.st # "recheck" /\ ~startboot'
           \/ f.st = "check" /\ (running => ~startboot')
           \/ f.st = "event" /\ f.pc = "closelog" /\ ~startboot',
           LogInv', BufferInv'
    PROVE  SessionInv'
  <1>1. /\ Top' = f
        /\ \A i \in 0 .. MaxDepth : i # depth => frame'[i] = frame[i]
    BY SetTopFrame DEF SessionInv, TypeInv
  <1>2. depth \in 0 .. MaxDepth /\ MaxDepth \in Nat
    BY BoundsAssumption DEF SessionInv, TypeInv, TypeOK
  <1>3. RunningInv'
    BY <1>1 DEF SessionInv, RunningInv
  <1>4. StoppedInv'
    BY <1>1 DEF SessionInv, StoppedInv
  <1>5. PollInv'
    BY <1>1 DEF SessionInv, PollInv
  <1>6. NestingInv'
    <2>1. depth = 2 => frame'[1] = frame[1]
      BY <1>1, <1>2
    <2> QED
      BY <2>1 DEF SessionInv, NestingInv
  <1> QED
    BY <1>3, <1>4, <1>5, <1>6 DEF SessionInv, KernelInv

(* load_and_boot returns with the run stopped: the boot below, if there is *)
(* one, was doomed already.                                                *)
LEMMA ReturnStep ==
    ASSUME SessionInv, TypeInv', depth > 0, ReturnFrom(depth), outcome' = "none",
           ~running', ~log', ~timer' \/ timer' = timer
    PROVE  SessionInv'
  <1>1. depth \in 0 .. MaxDepth /\ MaxDepth \in Nat /\ depth <= 2
    BY BoundsAssumption DEF SessionInv, TypeInv, TypeOK, NestingInv
  <1>2. CASE depth = 1
    BY <1>2, IdleStep DEF ReturnFrom
  <1>3. CASE depth = 2
    <2>1. depth' = 1 /\ frame'[1] = frame[1] /\ Top' = frame[1]
      BY <1>1, <1>3 DEF ReturnFrom, Top
    <2>2. /\ ~timer
          /\ frame[1].stopped /\ frame[1].in = "copyunix"
          /\ frame[1].pc \in {"closelog", "last"}
          /\ frame[1].st \in {"check", "recheck"}
      BY <1>3 DEF SessionInv, NestingInv
    <2>3. RunningInv' /\ BufferInv' /\ KernelInv' /\ LogInv'
      BY DEF RunningInv, BufferInv, KernelInv, LogInv
    <2>4. StoppedInv'
      BY <2>1, <2>2 DEF StoppedInv
    <2>5. PollInv'
      BY <2>1, <2>2 DEF PollInv
    <2>6. NestingInv'
      BY <2>1 DEF NestingInv
    <2> QED
      BY <2>3, <2>4, <2>5, <2>6 DEF SessionInv
  <1> QED
    BY <1>1, <1>2, <1>3

(* A new boot: on an idle session, or once on top of a boot that a video   *)
(* error has doomed.                                                       *)
LEMMA BootStep ==
    ASSUME SessionInv, TypeInv', TimerBoot \/ StartBoot
    PROVE  SessionInv'
  <1>1. PICK resume \in {"check", "recheck"} :
           /\ LoadAndBoot(resume)
           /\ outcome = "none" /\ ~running
           /\ Top.st \in {"event", "recheck"}
           /\ timer' = FALSE \/ (timer' = timer /\ startboot)
           /\ Top.st = "event" \/ (timer' = timer /\ startboot)
    BY DEF TimerBoot, StartBoot, InMainEvent
  <1>2. depth \in 0 .. MaxDepth /\ MaxDepth \in Nat /\ depth <= 2 /\ depth < MaxDepth
    BY <1>1, BoundsAssumption DEF SessionInv, TypeInv, TypeOK, NestingInv, LoadAndBoot
  <1>3. depth > 0 => /\ depth = 1 /\ ~timer' /\ Top.stopped
                     /\ Top.pc \in {"closelog", "last"} /\ Top.in = "copyunix"
    <2> SUFFICES ASSUME depth > 0
                 PROVE  /\ depth = 1 /\ ~timer' /\ Top.stopped
                        /\ Top.pc \in {"closelog", "last"} /\ Top.in = "copyunix"
      OBVIOUS
    <2>1. Top.stopped /\ Top.pc \in {"closelog", "last"}
      BY <1>1 DEF SessionInv, StoppedInv, PollInv
    <2>2. Top.in = "copyunix"
      <3>1. Top.in \in {"copyunix", "ufs"}
        BY TopType DEF SessionInv, TypeInv, Frame
      <3> QED
        BY <2>1, <3>1 DEF SessionInv, PollInv, ReadingPcs
    <2>3. CASE Top.st = "recheck"
      BY <1>1, <2>1, <2>2, <2>3 DEF SessionInv, StoppedInv
    <2>4. CASE Top.st = "event"
      <3>1. ~startboot
        BY <1>1, <2>4 DEF SessionInv, StoppedInv
      <3>2. timer /\ ~timer'
        BY <2>4, <3>1 DEF TimerBoot, StartBoot
      <3>3. depth = 1
        BY <1>2, <3>2 DEF SessionInv, NestingInv
      <3> QED
        BY <2>1, <2>2, <3>2, <3>3
    <2> QED
      BY <1>1, <2>3, <2>4
  <1>4. /\ running' = TRUE /\ startboot' = FALSE /\ outcome' = "none"
        /\ depth' = depth + 1 /\ bootenv' = depth + 1
    BY <1>1 DEF LoadAndBoot, session
  <1>5. Top' = NewFrame(boots + 1)
    BY <1>1, <1>2 DEF LoadAndBoot, Top, SessionInv, TypeInv, TypeOK
  <1>6. /\ Top'.pc = "open" /\ Top'.st = "work" /\ Top'.in = "copyunix"
        /\ Top'.stopped = FALSE
    BY <1>5 DEF NewFrame, MainFrame
  <1>7. depth = 1 => frame'[1] = [frame[1] EXCEPT !.st = resume]
    <2> SUFFICES ASSUME depth = 1 PROVE frame'[1] = [frame[1] EXCEPT !.st = resume]
      OBVIOUS
    <2>1. frame' = [frame EXCEPT ![1].st = resume, ![2] = NewFrame(boots + 1)]
      BY <1>1 DEF LoadAndBoot
    <2>2. frame \in [0 .. MaxDepth -> Frame] /\ 1 \in 0 .. MaxDepth /\ 2 \in 0 .. MaxDepth
      BY <1>2 DEF SessionInv, TypeInv, TypeOK
    <2> QED
      BY <2>1, <2>2
  <1>8. NestingInv'
    <2>1. depth = 1 => /\ frame'[1].stopped /\ frame'[1].in = "copyunix"
                       /\ frame'[1].pc \in {"closelog", "last"}
                       /\ frame'[1].st = resume
      <3> SUFFICES ASSUME depth = 1
                   PROVE  /\ frame'[1].stopped /\ frame'[1].in = "copyunix"
                          /\ frame'[1].pc \in {"closelog", "last"}
                          /\ frame'[1].st = resume
        OBVIOUS
      <3>1. Top = frame[1] /\ frame[1] \in Frame
        BY TopType DEF Top, SessionInv, TypeInv
      <3>2. frame'[1] = [frame[1] EXCEPT !.st = resume]
        BY <1>7
      <3> QED
        BY <1>3, <3>1, <3>2 DEF Frame
    <2> QED
      BY <1>1, <1>2, <1>3, <1>4, <2>1 DEF NestingInv
  <1>9. RunningInv' /\ StoppedInv' /\ PollInv'
    BY <1>2, <1>4, <1>6 DEF RunningInv, StoppedInv, PollInv, ReadingPcs
  <1>10. LogInv' /\ BufferInv' /\ KernelInv'
    BY <1>4, <1>6 DEF LogInv, BufferInv, KernelInv, LatePcs
  <1> QED
    BY <1>8, <1>9, <1>10 DEF SessionInv
(* A step of MainEvent or of EVENT_CHECK that leaves the phase alone keeps *)
(* the invariant.                                                          *)
LEMMA SamePhaseStep ==
    ASSUME SessionInv, TypeInv', depth > 0, outcome' = "none",
           UNCHANGED <<depth, bootenv, running, timer, log, memVars>>,
           NEW f, SetTop(f),
           f.pc = Top.pc, f.buf = Top.buf, f.stopped = Top.stopped,
           f.in = "ufs" => f.pc \in ReadingPcs,
           \/ running /\ f.st # "recheck" /\ ~startboot'
           \/ f.st = "check" /\ (running => ~startboot')
    PROVE  SessionInv'
  <1>1. Top' = f
    BY SetTopFrame DEF SessionInv, TypeInv
  <1>2. LogInv' /\ BufferInv'
    BY <1>1 DEF SessionInv, LogInv, BufferInv, memVars
  <1>3. f.pc # "main"
    BY DEF SessionInv, PollInv
  <1> QED
    BY <1>2, <1>3, TopStep

(* MainEvent handles an event for the boot on top and returns.             *)
LEMMA ResumeStep ==
    ASSUME SessionInv, TypeInv', frame' = Resume(frame), outcome' = "none",
           UNCHANGED <<depth, bootenv, running, timer, log, memVars>>,
           running => ~startboot'
    PROVE  SessionInv'
  <1>1. CASE depth = 0
    BY <1>1, IdleStep DEF SessionInv, RunningInv, LogInv
  <1>2. CASE depth # 0
    <2>1. depth > 0
      BY <1>2 DEF SessionInv, TypeInv, TypeOK
    <2>2. Top \in Frame
      BY TopType DEF SessionInv, TypeInv
    <2>3. SetTop([Top EXCEPT !.st = "check"])
      BY <1>2 DEF Resume, SetTop, Top
    <2>4. /\ [Top EXCEPT !.st = "check"].pc = Top.pc
          /\ [Top EXCEPT !.st = "check"].buf = Top.buf
          /\ [Top EXCEPT !.st = "check"].stopped = Top.stopped
          /\ [Top EXCEPT !.st = "check"].in = Top.in
          /\ [Top EXCEPT !.st = "check"].st = "check"
      BY <2>2 DEF Frame
    <2>5. Top.in = "ufs" => Top.pc \in ReadingPcs
      BY <2>1 DEF SessionInv, PollInv
    <2> QED
      BY <2>1, <2>3, <2>4, <2>5, SamePhaseStep
  <1> QED
    BY <1>1, <1>2

(* MainEvent's other ways keep the invariant: Stop, and quitting.          *)
LEMMA UserStep ==
    ASSUME SessionInv, TypeInv', UserEvent \/ NullEvent
    PROVE  SessionInv'
  <1>1. CASE StopBoot
    <2>1. /\ ~running' /\ ~timer' /\ ~log' /\ outcome' = "none"
          /\ frame' = Resume(Halted(frame))
          /\ UNCHANGED <<depth, bootenv, startboot>>
      BY <1>1 DEF StopBoot, StopRun, InMainEvent, callVars, session
    <2>2. CASE depth = 0
      BY <2>1, <2>2, IdleStep
    <2>3. CASE depth # 0
      <3>1. /\ depth \in 1 .. MaxDepth /\ depth \in 0 .. MaxDepth
            /\ MaxDepth \in Nat /\ depth <= 2
        BY <2>3, BoundsAssumption DEF SessionInv, TypeInv, TypeOK, NestingInv
      <3>2. /\ \A i \in 0 .. MaxDepth : frame[i] \in Frame
            /\ Top = frame[depth]
        BY TopType DEF SessionInv, TypeInv, Top
      <3>3. \A i \in 1 .. depth : Halted(frame)[i] = [frame[i] EXCEPT !.stopped = TRUE]
        BY <3>1 DEF Halted
      <3>4. Halted(frame) \in [0 .. MaxDepth -> Frame]
        BY HaltedType DEF SessionInv, TypeInv, TypeOK
      <3>5. /\ Top' = [Halted(frame)[depth] EXCEPT !.st = "check"]
            /\ depth = 2 => frame'[1] = Halted(frame)[1]
        BY <2>1, <2>3, <3>1, <3>4 DEF Resume, Top
      <3>6. /\ Top'.stopped /\ Top'.st = "check"
            /\ Top'.pc = Top.pc /\ Top'.in = Top.in
        <4>1. Top \in Frame /\ Halted(frame)[depth] = [Top EXCEPT !.stopped = TRUE]
          BY <3>1, <3>2, <3>3
        <4>2. Top' = [Top EXCEPT !.stopped = TRUE, !.st = "check"]
          BY <3>5, <4>1 DEF Frame
        <4> QED
          BY <4>1, <4>2 DEF Frame
      <3>7. depth = 2 => /\ frame'[1].stopped
                         /\ frame'[1].in = frame[1].in
                         /\ frame'[1].pc = frame[1].pc
                         /\ frame'[1].st = frame[1].st
        BY <3>1, <3>2, <3>3, <3>5 DEF Frame
      <3>8. RunningInv' /\ StoppedInv' /\ BufferInv' /\ LogInv' /\ KernelInv'
        BY <2>1, <3>6 DEF RunningInv, StoppedInv, BufferInv, LogInv, KernelInv
      <3>9. PollInv'
        BY <2>1, <3>6 DEF SessionInv, PollInv
      <3>10. NestingInv'
        BY <2>1, <3>7 DEF SessionInv, NestingInv
      <3> QED
        BY <3>8, <3>9, <3>10 DEF SessionInv
    <2> QED
      BY <2>2, <2>3
  <1>2. CASE BootNow \/ OpenBoot
    <2>1. ~running
      BY <1>2 DEF BootNow, OpenBoot, Idle
    <2> QED
      BY <1>2, <2>1, ResumeStep
      DEF BootNow, OpenBoot, InMainEvent, session, callVars, machVars, screenVars
  <1>3. CASE OpenDialog \/ DialogHit \/ NullEvent
    <2>1. running => ~startboot
      BY DEF SessionInv, RunningInv
    <2> QED
      BY <1>3, <2>1, ResumeStep
      DEF OpenDialog, DialogHit, NullEvent, InMainEvent,
          bootVars, callVars, machVars, screenVars, session
  <1>4. CASE Quit
    <2>1. /\ outcome' = "quit"
          /\ UNCHANGED <<frame, depth, bootenv, running, startboot, timer, log,
                         live, loaded, boot_buffer>>
      BY <1>4 DEF Quit, bootVars, callVars, memVars, machVars, screenVars
    <2>2. Top' = Top
      BY <2>1 DEF Top
    <2> QED
      BY <2>1, <2>2 DEF SessionInv, RunningInv, StoppedInv, PollInv, NestingInv,
                        LogInv, BufferInv, KernelInv
  <1> QED
    BY <1>1, <1>2, <1>3, <1>4 DEF UserEvent

(* EVENT_CHECK, passed or failed, keeps the invariant.                     *)
LEMMA CheckStep ==
    ASSUME SessionInv, TypeInv', Poll \/ Check
    PROVE  SessionInv'
  <1>1. Top \in Frame
    BY TopType DEF SessionInv, TypeInv
  <1>2. running => ~startboot
    BY DEF SessionInv, RunningInv
  <1>3. CASE Poll
    <2>1. PICK w \in {"copyunix", "ufs"} :
             /\ SetTop([Top EXCEPT !.st = "event", !.in = w])
             /\ w = "ufs" => Top.pc \in ReadingPcs
      BY <1>3 DEF Poll, UfsReads, ReadingPcs
    <2>2. running
      <3>1. Top.pc # "confirm"
        BY <1>3 DEF Poll, PollsAgain, UfsReads
      <3> QED
        BY <1>3, <3>1 DEF Poll, InBoot, SessionInv, StoppedInv
    <2> DEFINE f == [Top EXCEPT !.st = "event", !.in = w]
    <2>3. /\ f.pc = Top.pc /\ f.buf = Top.buf /\ f.stopped = Top.stopped
          /\ f.in = w /\ f.st = "event"
      BY <1>1 DEF Frame
    <2>4. /\ depth > 0 /\ outcome' = "none"
          /\ UNCHANGED <<depth, bootenv, running, timer, log, memVars, startboot>>
      BY <1>3 DEF Poll, InBoot, bootVars, callVars, machVars, screenVars, session
    <2> HIDE DEF f
    <2>5. SetTop(f)
      BY <2>1 DEF f
    <2> QED
      BY <1>2, <2>1, <2>2, <2>3, <2>4, <2>5, SamePhaseStep
  <1>4. CASE CheckPasses
    <2> DEFINE f == [Top EXCEPT !.st = "work"]
    <2>1. /\ f.pc = Top.pc /\ f.buf = Top.buf /\ f.stopped = Top.stopped
          /\ f.in = Top.in /\ f.st = "work"
      BY <1>1 DEF Frame
    <2>2. /\ depth > 0 /\ outcome' = "none" /\ running
          /\ UNCHANGED <<depth, bootenv, running, timer, log, memVars, startboot>>
      BY <1>4 DEF CheckPasses, InBoot, bootVars, callVars, machVars, screenVars, session
    <2>3. SetTop(f)
      BY <1>4 DEF CheckPasses
    <2>4. Top.in = "ufs" => Top.pc \in ReadingPcs
      BY <2>2 DEF SessionInv, PollInv
    <2> HIDE DEF f
    <2> QED
      BY <1>2, <2>1, <2>2, <2>3, <2>4, SamePhaseStep
  <1>5. CASE CheckCleansUp
    BY <1>5, ReturnStep
    DEF CheckCleansUp, CopyunixReturns, StopRun, InBoot, session
  <1>6. CASE CheckJumps
    <2>1. depth > 0 /\ Top.pc \in ReadingPcs /\ ~running
      BY <1>6 DEF CheckJumps, InBoot, SessionInv, PollInv
    <2>2. bootenv = depth
      BY <2>1 DEF SessionInv, PollInv, ReadingPcs
    <2>3. ~log
      BY <2>1 DEF SessionInv, LogInv, ReadingPcs
    <2> QED
      BY <1>6, <2>1, <2>2, <2>3, ReturnStep
      DEF CheckJumps, InBoot, bootVars, machVars, screenVars, session
  <1> QED
    BY <1>3, <1>4, <1>5, <1>6 DEF Check
(* A boot with a phase to run is running, except at the pause alert.       *)
LEMMA WorkRuns ==
    ASSUME SessionInv, NEW pc, At(pc), pc # "confirm"
    PROVE  depth > 0 /\ running /\ ~startboot /\ outcome = "none"
  BY DEF SessionInv, StoppedInv, RunningInv, At, InBoot

(* A phase of a running boot ends and the next begins.                     *)
LEMMA PhaseStep ==
    ASSUME SessionInv, TypeInv', depth > 0, running, ~startboot, outcome' = "none",
           UNCHANGED <<depth, bootenv, running, startboot, timer>>,
           NEW f, SetTop(f),
           f.stopped = Top.stopped, f.pc # "main", f.st # "recheck",
           f.in = "ufs" => f.pc \in ReadingPcs,
           f.pc \notin {"closelog", "interrupts", "last"}
              => Top.pc \notin {"closelog", "interrupts", "last"},
           f.pc \in {"interrupts", "last"} => ~log',
           f.pc \in {"load", "patch"} \cup LatePcs => f.buf \in live',
           f.pc \in {"patch"} \cup LatePcs => f.buf \in loaded',
           f.pc \in LatePcs => boot_buffer' = f.buf
    PROVE  SessionInv'
  <1>1. Top' = f
    BY SetTopFrame DEF SessionInv, TypeInv
  <1>2. LogInv' /\ BufferInv'
    BY <1>1 DEF LogInv, BufferInv
  <1> QED
    BY <1>2, TopStep

(* GoTo keeps everything but the phase and the position.                   *)
LEMMA GoToFields ==
    ASSUME TypeOK, NEW pc, GoTo(pc)
    PROVE  \E f : /\ SetTop(f)
                  /\ f.pc = pc /\ f.st = "event" /\ f.in = "copyunix"
                  /\ f.buf = Top.buf /\ f.stopped = Top.stopped
  <1> DEFINE f == [Top EXCEPT !.pc = pc, !.st = "event", !.in = "copyunix"]
  <1>1. /\ f.pc = pc /\ f.st = "event" /\ f.in = "copyunix"
        /\ f.buf = Top.buf /\ f.stopped = Top.stopped
    BY TopType DEF Frame
  <1>2. SetTop(f)
    BY DEF GoTo
  <1> QED
    BY <1>1, <1>2

(* Opening the kernel, or failing to, keeps the invariant.                 *)
LEMMA OpenStep ==
    ASSUME SessionInv, TypeInv', OpenFails \/ BootOpen \/ SlotInitFails \/ ReadHeader
    PROVE  SessionInv'
  <1>1. Top \in Frame /\ TypeOK
    BY TopType DEF SessionInv, TypeInv
  <1>2. CASE OpenFails \/ SlotInitFails
    BY <1>2, ReturnStep
    DEF OpenFails, SlotInitFails, OpenReturnsError, StopRun, At, InBoot, session
  <1>3. CASE BootOpen
    <2>1. /\ depth > 0 /\ running /\ ~startboot /\ outcome' = "none"
          /\ Top.pc = "open"
          /\ UNCHANGED <<depth, bootenv, running, startboot, timer>>
      BY <1>3, WorkRuns DEF BootOpen, At, InBoot, bootVars, callVars, session
    <2>2. PICK fd : OpenInSlot(fd) \/ OpenWithoutSlot(fd)
      BY <1>3 DEF BootOpen
    <2>3. CASE OpenInSlot(fd)
      <3> DEFINE f == [Top EXCEPT !.pc = "header", !.io = fd]
      <3>1. /\ f.pc = "header" /\ f.st = Top.st /\ f.in = Top.in
            /\ f.stopped = Top.stopped
        BY <1>1 DEF Frame
      <3>2. SetTop(f) /\ Top.st = "work"
        BY <1>3, <2>3 DEF OpenInSlot, BootOpen, At
      <3> HIDE DEF f
      <3> QED
        BY <2>1, <3>1, <3>2, PhaseStep DEF ReadingPcs, LatePcs
    <2>4. CASE OpenWithoutSlot(fd)
      <3> DEFINE f == [Top EXCEPT !.pc = "count", !.st = "event", !.in = "copyunix", !.io = fd]
      <3>1. /\ f.pc = "count" /\ f.st = "event" /\ f.in = "copyunix"
            /\ f.stopped = Top.stopped
        BY <1>1 DEF Frame
      <3>2. SetTop(f)
        BY <2>4 DEF OpenWithoutSlot
      <3> HIDE DEF f
      <3> QED
        BY <2>1, <3>1, <3>2, PhaseStep DEF ReadingPcs, LatePcs
    <2> QED
      BY <2>2, <2>3, <2>4
  <1>4. CASE ReadHeader
    <2>1. /\ depth > 0 /\ running /\ ~startboot /\ outcome' = "none"
          /\ Top.pc = "header"
          /\ UNCHANGED <<depth, bootenv, running, startboot, timer>>
      BY <1>4, WorkRuns DEF ReadHeader, At, InBoot, bootVars, callVars, session
    <2>2. PICK f : /\ SetTop(f) /\ f.pc = "count" /\ f.st = "event"
                   /\ f.in = "copyunix" /\ f.stopped = Top.stopped
      BY <1>1, <1>4, GoToFields DEF ReadHeader
    <2> QED
      BY <2>1, <2>2, PhaseStep DEF LatePcs
  <1> QED
    BY <1>2, <1>3, <1>4

(* Loading and patching the kernel keeps the invariant.                    *)
LEMMA LoadStep ==
    ASSUME SessionInv, TypeInv',
           \/ CountKernel \/ CountFails \/ AllocBuffer \/ AllocFails
           \/ LoadKernel \/ LoadFails \/ PatchKernel
    PROVE  SessionInv'
  <1>1. Top \in Frame /\ TypeOK
    BY TopType DEF SessionInv, TypeInv
  <1>2. CASE CountFails \/ AllocFails \/ LoadFails
    BY <1>2, ReturnStep
    DEF CountFails, AllocFails, LoadFails, CopyunixReturns, StopRun, At, InBoot, session
  <1>3. CASE CountKernel
    <2>1. /\ depth > 0 /\ running /\ ~startboot /\ outcome' = "none"
          /\ Top.pc = "count"
          /\ UNCHANGED <<depth, bootenv, running, startboot, timer>>
      BY <1>3, WorkRuns DEF CountKernel, At, InBoot, bootVars, callVars, session
    <2>2. PICK f : /\ SetTop(f) /\ f.pc = "alloc" /\ f.st = "event"
                   /\ f.in = "copyunix" /\ f.stopped = Top.stopped
      BY <1>1, <1>3, GoToFields DEF CountKernel
    <2> QED
      BY <2>1, <2>2, PhaseStep DEF LatePcs
  <1>4. CASE AllocBuffer
    <2>1. /\ depth > 0 /\ running /\ ~startboot /\ outcome' = "none"
          /\ Top.pc = "alloc" /\ live' = live \cup {Top.boot}
          /\ UNCHANGED <<depth, bootenv, running, startboot, timer>>
      BY <1>4, WorkRuns DEF AllocBuffer, At, InBoot, bootVars, callVars, session
    <2> DEFINE f == [Top EXCEPT !.pc = "load", !.st = "event", !.in = "copyunix",
                                !.buf = Top.boot]
    <2>2. /\ f.pc = "load" /\ f.st = "event" /\ f.in = "copyunix"
          /\ f.buf = Top.boot /\ f.stopped = Top.stopped
      BY <1>1 DEF Frame
    <2>3. SetTop(f)
      BY <1>4 DEF AllocBuffer
    <2> HIDE DEF f
    <2> QED
      BY <2>1, <2>2, <2>3, PhaseStep DEF LatePcs
  <1>5. CASE LoadKernel
    <2>1. /\ depth > 0 /\ running /\ ~startboot /\ outcome' = "none"
          /\ Top.pc = "load" /\ loaded' = loaded \cup {Top.buf} /\ live' = live
          /\ UNCHANGED <<depth, bootenv, running, startboot, timer>>
      BY <1>5, WorkRuns DEF LoadKernel, At, InBoot, bootVars, callVars, session
    <2>2. PICK f : /\ SetTop(f) /\ f.pc = "patch" /\ f.st = "event"
                   /\ f.in = "copyunix" /\ f.buf = Top.buf /\ f.stopped = Top.stopped
      BY <1>1, <1>5, GoToFields DEF LoadKernel
    <2>3. Top.buf \in live
      BY <2>1 DEF SessionInv, BufferInv
    <2> QED
      BY <2>1, <2>2, <2>3, PhaseStep DEF LatePcs
  <1>6. CASE PatchKernel
    <2>1. /\ depth > 0 /\ running /\ ~startboot /\ outcome' = "none"
          /\ Top.pc = "patch" /\ boot_buffer' = Top.buf
          /\ UNCHANGED <<live, loaded, depth, bootenv, running, startboot, timer>>
      BY <1>6, WorkRuns DEF PatchKernel, At, InBoot, bootVars, callVars, session
    <2>2. PICK f : /\ SetTop(f) /\ f.pc = "monitor" /\ f.st = "event"
                   /\ f.in = "copyunix" /\ f.buf = Top.buf /\ f.stopped = Top.stopped
      BY <1>1, <1>6, GoToFields DEF PatchKernel
    <2>3. Top.buf \in live /\ Top.buf \in loaded
      BY <2>1 DEF SessionInv, BufferInv
    <2> QED
      BY <2>1, <2>2, <2>3, PhaseStep
  <1> QED
    BY <1>2, <1>3, <1>4, <1>5, <1>6

(* A video error that aborts leaves a doomed boot on top.                  *)
LEMMA VideoErrorStep ==
    ASSUME SessionInv, TypeInv', depth > 0, ~running', outcome' = "none",
           UNCHANGED <<depth, bootenv, timer, log>>,
           startboot' = startboot, ~startboot,
           NEW f \in Frame,
           \/ f.pc = "confirm" /\ f.st = "work" /\ Top.pc = "video"
           \/ f.pc = "last" /\ f.st = "event" /\ ~log,
           f.in = "ufs" => f.pc \in ReadingPcs,
           frame' = Halted([frame EXCEPT ![depth] = f])
    PROVE  SessionInv'
  <1>1. /\ depth \in 1 .. MaxDepth /\ depth \in 0 .. MaxDepth
        /\ MaxDepth \in Nat /\ depth <= 2
        /\ frame \in [0 .. MaxDepth -> Frame]
    BY BoundsAssumption DEF SessionInv, TypeInv, TypeOK, NestingInv
  <1>2. Top' = [f EXCEPT !.stopped = TRUE]
    BY <1>1 DEF Halted, Top
  <1>3. /\ Top'.stopped /\ Top'.pc = f.pc /\ Top'.st = f.st /\ Top'.in = f.in
    BY <1>2 DEF Frame
  <1>4. depth = 2 => frame'[1] = [frame[1] EXCEPT !.stopped = TRUE]
    <2> SUFFICES ASSUME depth = 2 PROVE frame'[1] = [frame[1] EXCEPT !.stopped = TRUE]
      OBVIOUS
    <2>1. 1 \in 0 .. MaxDepth /\ 1 \in 1 .. depth /\ [frame EXCEPT ![depth] = f][1] = frame[1]
      BY <1>1
    <2> QED
      BY <2>1 DEF Halted
  <1>5. NestingInv'
    <2>1. depth = 2 => /\ frame'[1].stopped
                       /\ frame'[1].in = frame[1].in
                       /\ frame'[1].pc = frame[1].pc
                       /\ frame'[1].st = frame[1].st
      BY <1>1, <1>4 DEF Frame
    <2> QED
      BY <2>1 DEF SessionInv, NestingInv
  <1>6. RunningInv' /\ BufferInv' /\ KernelInv'
    BY DEF RunningInv, BufferInv, KernelInv
  <1>7. StoppedInv' /\ LogInv'
    BY <1>3 DEF StoppedInv, LogInv
  <1>8. PollInv'
    BY <1>3 DEF SessionInv, PollInv
  <1> QED
    BY <1>5, <1>6, <1>7, <1>8 DEF SessionInv
(* The last phases, up to the kernel, keep the invariant.                  *)
LEMMA EnterStep ==
    ASSUME SessionInv, TypeInv',
           \/ ChangeMonitor \/ VideoInfo \/ Confirm \/ ConfirmCancelled
           \/ CloseLog \/ AbortOnPPC \/ TurnOffInterrupts \/ EnterKernel
           \/ ShutDwnStartReturns
    PROVE  SessionInv'
  <1>1. Top \in Frame /\ TypeOK /\ frame \in [0 .. MaxDepth -> Frame]
    BY TopType DEF SessionInv, TypeInv, TypeOK
  <1>2. running => /\ Top.pc \in LatePcs => Top.buf \in live /\ Top.buf \in loaded
                   /\ Top.pc \in LatePcs => boot_buffer = Top.buf
                   /\ Top.pc = "monitor" => Top.buf \in live /\ Top.buf \in loaded
    BY DEF SessionInv, BufferInv, LatePcs
  <1>3. CASE ChangeMonitor
    <2>1. /\ depth > 0 /\ running /\ ~startboot /\ outcome' = "none"
          /\ Top.pc = "monitor"
          /\ UNCHANGED <<memVars, depth, bootenv, running, startboot, timer>>
      BY <1>3, WorkRuns DEF ChangeMonitor, At, InBoot, bootVars, callVars, session
    <2>2. PICK f : /\ SetTop(f) /\ f.pc = "video" /\ f.st = "event"
                   /\ f.in = "copyunix" /\ f.buf = Top.buf /\ f.stopped = Top.stopped
      BY <1>1, <1>3, GoToFields DEF ChangeMonitor
    <2> QED
      BY <1>2, <2>1, <2>2, PhaseStep DEF memVars, LatePcs
  <1>4. CASE VideoInfo
    <2>1. /\ depth > 0 /\ running /\ ~startboot /\ outcome' = "none"
          /\ Top.pc = "video" /\ Top.st = "work"
          /\ UNCHANGED <<memVars, depth, bootenv, startboot, timer, log>>
      BY <1>4, WorkRuns DEF VideoInfo, At, InBoot, callVars, machVars, screenVars, session
    <2> DEFINE f == [Top EXCEPT !.pc = "confirm"]
               next == [frame EXCEPT ![depth].pc = "confirm"]
    <2>2. /\ f \in Frame /\ next = [frame EXCEPT ![depth] = f]
          /\ f.pc = "confirm" /\ f.st = "work" /\ f.in = Top.in
          /\ f.buf = Top.buf /\ f.stopped = Top.stopped
      BY <1>1, <2>1 DEF Frame, Phases, Top
    <2>3. f.in # "ufs"
      BY <2>1, <2>2 DEF SessionInv, PollInv, ReadingPcs
    <2>4. \/ UNCHANGED running /\ frame' = next
          \/ running' = FALSE /\ frame' = Halted(next)
      BY <1>4 DEF VideoInfo, VideoError
    <2>5. CASE UNCHANGED running /\ frame' = next
      <3>1. SetTop(f)
        BY <2>2, <2>5 DEF SetTop
      <3> HIDE DEF f, next
      <3> QED
        BY <1>2, <2>1, <2>2, <2>3, <2>5, <3>1, PhaseStep DEF memVars, LatePcs
    <2>6. CASE running' = FALSE /\ frame' = Halted(next)
      <3> HIDE DEF f, next
      <3> QED
        BY <2>1, <2>2, <2>3, <2>6, VideoErrorStep
    <2> QED
      BY <2>4, <2>5, <2>6
  <1>5. CASE Confirm
    <2>1. /\ depth > 0 /\ ~startboot /\ outcome' = "none"
          /\ Top.pc = "confirm" /\ Top.st = "work"
          /\ UNCHANGED <<memVars, depth, bootenv, running, startboot, timer, log>>
      BY <1>5 DEF Confirm, At, InBoot, bootVars, callVars, machVars, screenVars, session,
                  SessionInv, RunningInv, StoppedInv
    <2>2. PICK f : /\ SetTop(f) /\ f.pc = "closelog" /\ f.st = "event"
                   /\ f.in = "copyunix" /\ f.buf = Top.buf /\ f.stopped = Top.stopped
      BY <1>1, <1>5, GoToFields DEF Confirm
    <2>3. Top' = f
      BY <1>1, <2>1, <2>2, SetTopFrame
    <2>4. LogInv' /\ BufferInv'
      BY <1>2, <2>1, <2>2, <2>3 DEF LogInv, BufferInv, memVars, LatePcs
    <2> QED
      BY <2>1, <2>2, <2>4, TopStep
  <1>6. CASE ConfirmCancelled \/ ShutDwnStartReturns
    BY <1>6, ReturnStep
    DEF ConfirmCancelled, ShutDwnStartReturns, CopyunixReturns, StopRun, At, InBoot, session
  <1>7. CASE CloseLog
    <2>1. /\ depth > 0 /\ running /\ ~startboot /\ outcome' = "none"
          /\ Top.pc = "closelog" /\ ~log'
          /\ UNCHANGED <<memVars, depth, bootenv, running, startboot, timer>>
      BY <1>7, WorkRuns DEF CloseLog, At, InBoot, bootVars, callVars, session
    <2>2. PICK f : /\ SetTop(f) /\ f.pc = "interrupts" /\ f.st = "event"
                   /\ f.in = "copyunix" /\ f.buf = Top.buf /\ f.stopped = Top.stopped
      BY <1>1, <1>7, GoToFields DEF CloseLog
    <2> QED
      BY <1>2, <2>1, <2>2, PhaseStep DEF memVars, LatePcs
  <1>8. CASE AbortOnPPC
    BY <1>8, ReturnStep DEF AbortOnPPC, At, InBoot, session
  <1>9. CASE TurnOffInterrupts
    <2>1. /\ depth > 0 /\ running /\ ~startboot /\ outcome' = "none"
          /\ Top.pc = "interrupts"
          /\ UNCHANGED <<memVars, depth, bootenv, startboot, timer, log>>
      BY <1>9, WorkRuns DEF TurnOffInterrupts, At, InBoot, callVars, session
    <2> DEFINE f == [Top EXCEPT !.pc = "last", !.st = "event", !.in = "copyunix"]
               next == [frame EXCEPT ![depth].pc = "last", ![depth].st = "event",
                                     ![depth].in = "copyunix"]
    <2>2. /\ f \in Frame /\ next = [frame EXCEPT ![depth] = f]
          /\ f.pc = "last" /\ f.st = "event" /\ f.in = "copyunix"
          /\ f.buf = Top.buf /\ f.stopped = Top.stopped
      BY <1>1, <2>1 DEF Frame, Phases, Top
    <2>3. ~log
      BY <2>1 DEF SessionInv, LogInv
    <2>4. \/ UNCHANGED running /\ frame' = next
          \/ running' = FALSE /\ frame' = Halted(next)
      BY <1>9 DEF TurnOffInterrupts, VideoError
    <2>5. CASE UNCHANGED running /\ frame' = next
      <3>1. SetTop(f)
        BY <2>2, <2>5 DEF SetTop
      <3> HIDE DEF f, next
      <3> QED
        BY <1>2, <2>1, <2>2, <2>3, <2>5, <3>1, PhaseStep DEF memVars, LatePcs
    <2>6. CASE running' = FALSE /\ frame' = Halted(next)
      <3> HIDE DEF f, next
      <3> QED
        BY <2>1, <2>2, <2>3, <2>6, VideoErrorStep
    <2> QED
      BY <2>4, <2>5, <2>6
  <1>10. CASE EnterKernel
    <2>1. /\ running /\ Top.pc = "last"
          /\ UNCHANGED <<frame, depth, bootenv, running, startboot, timer, log,
                         live, loaded, boot_buffer>>
      BY <1>10, WorkRuns DEF EnterKernel, At, bootVars, callVars, memVars, machVars, screenVars
    <2>2. Top' = Top
      BY <2>1 DEF Top
    <2> QED
      BY <2>1, <2>2 DEF SessionInv, RunningInv, StoppedInv, PollInv, NestingInv,
                        LogInv, BufferInv, KernelInv
  <1> QED
    BY <1>3, <1>4, <1>5, <1>6, <1>7, <1>8, <1>9, <1>10

(* SessionInv holds initially and is kept by every step.                   *)
LEMMA InitSession == Init => SessionInv
  BY InitType
  DEF Init, SessionInv, RunningInv, StoppedInv, PollInv, NestingInv, LogInv,
      BufferInv, KernelInv

LEMMA NextSession == SessionInv /\ [Next]_vars => SessionInv'
  <1> SUFFICES ASSUME SessionInv, [Next]_vars PROVE SessionInv'
    OBVIOUS
  <1>1. TypeInv'
    BY NextType DEF SessionInv
  <1>2. CASE UserEvent \/ NullEvent
    BY <1>1, <1>2, UserStep
  <1>3. CASE TimerBoot \/ StartBoot
    BY <1>1, <1>3, BootStep
  <1>4. CASE Poll \/ Check
    BY <1>1, <1>4, CheckStep
  <1>5. CASE Work
    BY <1>1, <1>5, OpenStep, LoadStep, EnterStep DEF Work
  <1>6. CASE Ended \/ UNCHANGED vars
    <2>1. UNCHANGED vars
      BY <1>6 DEF Ended
    <2>2. UNCHANGED <<frame, depth, bootenv, running, startboot, timer, log,
                      live, loaded, boot_buffer, outcome>>
      BY <2>1 DEF vars, bootVars, callVars, memVars, machVars, screenVars, session
    <2>3. Top' = Top
      BY <2>2 DEF Top
    <2> QED
      BY <1>1, <2>2, <2>3
      DEF SessionInv, RunningInv, StoppedInv, PollInv, NestingInv, LogInv,
          BufferInv, KernelInv
  <1> QED
    BY <1>2, <1>3, <1>4, <1>5, <1>6 DEF Next, MainEvent, SystemEvent

LEMMA SessionCorrect == Spec => []SessionInv
  BY InitSession, NextSession, PTL DEF Spec

(* The kernel is entered only by the running boot on top of the stack, with*)
(* its own, filled buffer and the log file closed.                         *)
THEOREM KernelEntryCorrect == Spec => []KernelEntrySafe
  <1>1. SessionInv => KernelEntrySafe
    BY DEF SessionInv, KernelInv, BufferInv, LogInv, LatePcs, KernelEntrySafe
  <1> QED
    BY <1>1, SessionCorrect, PTL

(* A boot that was stopped never enters the kernel.                        *)
THEOREM StopCorrect == Spec => []StopHonoured
  <1>1. SessionInv => StopHonoured
    BY DEF SessionInv, KernelInv, RunningInv, StopHonoured
  <1> QED
    BY <1>1, SessionCorrect, PTL

(* However many boots the stack has room for, at most two are on it, the   *)
(* outer one doomed, and a longjmp always lands in the boot that reads.    *)
THEOREM StackCorrect == Spec => []StackDiscipline
  <1>1. SessionInv => StackDiscipline
    <2> SUFFICES ASSUME SessionInv PROVE StackDiscipline
      OBVIOUS
    <2>1. InBoot /\ Top.in = "ufs" => bootenv = depth
      BY DEF SessionInv, PollInv, InBoot, ReadingPcs
    <2> QED
      BY <2>1 DEF SessionInv, NestingInv, StackDiscipline
  <1> QED
    BY <1>1, SessionCorrect, PTL

(* A session without a boot is not running and has no log file open.       *)
THEOREM IdleCorrect == Spec => []IdleIsQuiet
  <1>1. SessionInv => IdleIsQuiet
    BY DEF SessionInv, RunningInv, LogInv, IdleIsQuiet
  <1> QED
    BY <1>1, SessionCorrect, PTL
-----------------------------------------------------------------------------
(* What the boots on the stack own.  The frames number their boots, each   *)
(* differently, and a buffer bears the number of the boot that allocated   *)
(* it; before the allocation there is none.                                *)

UnallocatedPcs == {"open", "header", "count", "alloc"}
EarlyPcs       == UnallocatedPcs \cup {"load", "patch", "monitor"}
NoUfs          == \A c \in Configs : c.kernelLoc # "NetBSDPart"
Leakless       == ~machine.onPPC /\ ~machine.shutDwnReturns /\ NoUfs

NumbersInv ==
    /\ \A i \in 1 .. depth :
         /\ frame[i].boot \in 1 .. boots /\ frame[i].buf \in {0, frame[i].boot}
         /\ frame[i].pc \in UnallocatedPcs => frame[i].buf = 0
    /\ \A i, j \in 1 .. depth : i # j => frame[i].boot # frame[j].boot
ConfigInv ==
    /\ cfg \in Configs
    /\ NoUfs => \A i \in 1 .. depth : frame[i].in = "copyunix"
OwnedInv == SessionInv /\ NumbersInv /\ ConfigInv /\ BuffersOwned

(* A stack on which no boot allocates, ends or goes back, and none polls   *)
(* from read_ufs.c but on UFS.                                             *)
SameBoots(f) ==
    \A i \in 1 .. depth :
        /\ f[i].buf = frame[i].buf /\ f[i].boot = frame[i].boot
        /\ f[i].pc \in UnallocatedPcs => frame[i].pc \in UnallocatedPcs
        /\ f[i].pc \in EarlyPcs => frame[i].pc \in EarlyPcs
        /\ f[i].in = frame[i].in \/ f[i].in = "copyunix" \/ cfg.kernelLoc = "NetBSDPart"

(* MainEvent's return, Stop and a change of the top frame leave such a     *)
(* stack.                                                                  *)
LEMMA ResumeSame ==
    ASSUME TypeOK, NEW f \in [0 .. MaxDepth -> Frame], SameBoots(f)
    PROVE  SameBoots(Resume(f))
  <1>1. depth \in 0 .. MaxDepth /\ MaxDepth \in Nat
    BY BoundsAssumption DEF TypeOK
  <1>2. \A g \in Frame : \A s : LET h == [g EXCEPT !.st = s]
                               IN  h.buf = g.buf /\ h.boot = g.boot /\ h.pc = g.pc /\ h.in = g.in
    BY DEF Frame
  <1>3. ASSUME NEW i \in 1 .. depth
        PROVE  /\ Resume(f)[i].buf = f[i].buf /\ Resume(f)[i].boot = f[i].boot
               /\ Resume(f)[i].pc = f[i].pc /\ Resume(f)[i].in = f[i].in
    <2>1. i \in 0 .. MaxDepth /\ f[i] \in Frame
      BY <1>1
    <2>2. CASE i = depth
      BY <1>2, <2>1, <2>2 DEF Resume
    <2>3. CASE i # depth
      BY <2>1, <2>3 DEF Resume
    <2> QED
      BY <2>2, <2>3
  <1> QED
    BY <1>3 DEF SameBoots

LEMMA HaltedSame ==
    ASSUME TypeOK, NEW f \in [0 .. MaxDepth -> Frame], SameBoots(f)
    PROVE  SameBoots(Halted(f))
  <1>1. depth \in 0 .. MaxDepth /\ MaxDepth \in Nat
    BY BoundsAssumption DEF TypeOK
  <1>2. \A g \in Frame : LET h == [g EXCEPT !.stopped = TRUE]
                         IN  h.buf = g.buf /\ h.boot = g.boot /\ h.pc = g.pc /\ h.in = g.in
    BY DEF Frame
  <1>3. ASSUME NEW i \in 1 .. depth
        PROVE  /\ Halted(f)[i].buf = f[i].buf /\ Halted(f)[i].boot = f[i].boot
               /\ Halted(f)[i].pc = f[i].pc /\ Halted(f)[i].in = f[i].in
    <2>1. i \in 0 .. MaxDepth /\ f[i] \in Frame
      BY <1>1
    <2>2. Halted(f)[i] = [f[i] EXCEPT !.stopped = TRUE]
      BY <2>1 DEF Halted
    <2> QED
      BY <1>2, <2>1, <2>2
  <1> QED
    BY <1>3 DEF SameBoots

LEMMA TopSame ==
    ASSUME TypeOK, depth > 0, NEW f,
           f.buf = Top.buf, f.boot = Top.boot,
           f.pc \in UnallocatedPcs => Top.pc \in UnallocatedPcs,
           f.pc \in EarlyPcs => Top.pc \in EarlyPcs,
           f.in = Top.in \/ f.in = "copyunix" \/ cfg.kernelLoc = "NetBSDPart"
    PROVE  SameBoots([frame EXCEPT ![depth] = f])
  <1>1. /\ depth \in 1 .. MaxDepth /\ MaxDepth \in Nat
        /\ frame \in [0 .. MaxDepth -> Frame] /\ Top = frame[depth]
    BY BoundsAssumption DEF TypeOK, Top
  <1>2. \A i \in 1 .. depth :
          [frame EXCEPT ![depth] = f][i] = IF i = depth THEN f ELSE frame[i]
    BY <1>1
  <1> QED
    BY <1>1, <1>2 DEF SameBoots

(* The top frame with another phase, position or descriptor.               *)
LEMMA TopFields ==
    ASSUME NEW g \in Frame, NEW pc, NEW st, NEW in, NEW io
    PROVE  /\ LET h == [g EXCEPT !.pc = pc, !.st = st, !.in = in, !.io = io]
              IN  h.buf = g.buf /\ h.boot = g.boot /\ h.pc = pc /\ h.in = in
           /\ LET h == [g EXCEPT !.pc = pc, !.st = st, !.in = in]
              IN  h.buf = g.buf /\ h.boot = g.boot /\ h.pc = pc /\ h.in = in
           /\ LET h == [g EXCEPT !.pc = pc, !.io = io]
              IN  h.buf = g.buf /\ h.boot = g.boot /\ h.pc = pc /\ h.in = g.in
           /\ LET h == [g EXCEPT !.st = st, !.in = in]
              IN  h.buf = g.buf /\ h.boot = g.boot /\ h.pc = g.pc /\ h.in = in
           /\ LET h == [g EXCEPT !.st = st]
              IN  h.buf = g.buf /\ h.boot = g.boot /\ h.pc = g.pc /\ h.in = g.in
           /\ LET h == [g EXCEPT !.pc = pc]
              IN  h.buf = g.buf /\ h.boot = g.boot /\ h.pc = pc /\ h.in = g.in
  BY DEF Frame

(* How a step treats the stack: it leaves the boots as they are, a boot    *)
(* allocates, a boot begins, or the one on top returns.                    *)
Stays    == depth' = depth /\ boots' = boots /\ live' = live /\ SameBoots(frame')
Returned ==
    /\ depth > 0 /\ boots' = boots /\ ReturnFrom(depth)
    /\ \/ live' = live \ {Top.buf}
       \/ live' = live /\ Top.pc \in UnallocatedPcs
       \/ live' = live /\ (machine.onPPC \/ machine.shutDwnReturns \/ Top.in = "ufs")

LEMMA UserStays ==
    ASSUME SessionInv, UserEvent \/ NullEvent
    PROVE  Stays
  <1>1. TypeOK /\ frame \in [0 .. MaxDepth -> Frame]
    BY DEF SessionInv, TypeInv, TypeOK
  <1>2. SameBoots(frame)
    BY DEF SameBoots
  <1>3. SameBoots(Resume(frame)) /\ SameBoots(Resume(Halted(frame)))
    BY <1>1, <1>2, ResumeSame, HaltedSame, HaltedType
  <1>4. depth' = depth /\ boots' = boots /\ live' = live
    BY DEF UserEvent, StopBoot, BootNow, OpenBoot, OpenDialog, DialogHit, Quit, NullEvent,
           callVars, memVars
  <1>5. frame' \in {frame, Resume(frame), Resume(Halted(frame))}
    BY DEF UserEvent, StopBoot, BootNow, OpenBoot, OpenDialog, DialogHit, Quit, NullEvent
  <1> QED
    BY <1>2, <1>3, <1>4, <1>5 DEF Stays

LEMMA CheckStack ==
    ASSUME SessionInv, Poll \/ Check
    PROVE  Stays \/ Returned
  <1>1. TypeOK /\ Top \in Frame
    BY TopType DEF SessionInv, TypeInv
  <1>2. depth > 0
    BY DEF Poll, Check, CheckPasses, CheckCleansUp, CheckJumps, InBoot
  <1>3. CASE Poll
    <2>1. PICK w :
            /\ frame' = [frame EXCEPT ![depth] = [Top EXCEPT !.st = "event", !.in = w]]
            /\ w = "copyunix" \/ cfg.kernelLoc = "NetBSDPart"
      BY <1>3 DEF Poll, SetTop
    <2> DEFINE f == [Top EXCEPT !.st = "event", !.in = w]
    <2>2. f.buf = Top.buf /\ f.boot = Top.boot /\ f.pc = Top.pc /\ f.in = w
      BY <1>1, TopFields
    <2> HIDE DEF f
    <2>3. SameBoots([frame EXCEPT ![depth] = f])
      BY <1>1, <1>2, <2>1, <2>2, TopSame
    <2>4. frame' = [frame EXCEPT ![depth] = f]
      BY <2>1 DEF f
    <2>5. depth' = depth /\ boots' = boots /\ live' = live
      BY <1>3 DEF Poll, callVars, memVars
    <2> QED
      BY <2>3, <2>4, <2>5 DEF Stays
  <1>4. CASE CheckPasses
    <2> DEFINE f == [Top EXCEPT !.st = "work"]
    <2>1. f.buf = Top.buf /\ f.boot = Top.boot /\ f.pc = Top.pc /\ f.in = Top.in
      BY <1>1, TopFields
    <2>2. frame' = [frame EXCEPT ![depth] = f]
      BY <1>4 DEF CheckPasses, SetTop
    <2> HIDE DEF f
    <2>3. SameBoots([frame EXCEPT ![depth] = f])
      BY <1>1, <1>2, <2>1, TopSame
    <2>4. depth' = depth /\ boots' = boots /\ live' = live
      BY <1>4 DEF CheckPasses, callVars, memVars
    <2> QED
      BY <2>2, <2>3, <2>4 DEF Stays
  <1>5. CASE CheckCleansUp
    BY <1>2, <1>5 DEF CheckCleansUp, DisposeBuffer, CopyunixReturns, Returned
  <1>6. CASE CheckJumps
    <2>1. Top.in = "ufs" /\ bootenv = depth
      BY <1>2, <1>6 DEF CheckJumps, SessionInv, PollInv, ReadingPcs
    <2> QED
      BY <1>2, <1>6, <2>1 DEF CheckJumps, memVars, Returned
  <1> QED
    BY <1>3, <1>4, <1>5, <1>6 DEF Check

LEMMA GoToSame ==
    ASSUME TypeOK, depth > 0, NEW pc, GoTo(pc),
           pc \in UnallocatedPcs => Top.pc \in UnallocatedPcs,
           pc \in EarlyPcs => Top.pc \in EarlyPcs
    PROVE  SameBoots(frame')
  <1> DEFINE f == [Top EXCEPT !.pc = pc, !.st = "event", !.in = "copyunix"]
  <1>1. f.buf = Top.buf /\ f.boot = Top.boot /\ f.pc = pc /\ f.in = "copyunix"
    BY TopType, TopFields
  <1>2. frame' = [frame EXCEPT ![depth] = f]
    BY DEF GoTo, SetTop
  <1> HIDE DEF f
  <1> QED
    BY <1>1, <1>2, TopSame

LEMMA WorkStack ==
    ASSUME SessionInv, Work, ~AllocBuffer
    PROVE  Stays \/ Returned
  <1>1. TypeOK /\ Top \in Frame /\ frame \in [0 .. MaxDepth -> Frame]
    BY TopType DEF SessionInv, TypeInv, TypeOK
  <1>2. depth > 0
    BY DEF Work, OpenFails, BootOpen, SlotInitFails, ReadHeader, CountKernel, CountFails,
           AllocFails, LoadKernel, LoadFails, PatchKernel, ChangeMonitor, VideoInfo, Confirm,
           ConfirmCancelled, CloseLog, AbortOnPPC, TurnOffInterrupts, EnterKernel,
           ShutDwnStartReturns, At, InBoot
  <1>3. CASE OpenFails \/ SlotInitFails
    BY <1>2, <1>3 DEF OpenFails, SlotInitFails, At, OpenReturnsError, memVars, Returned,
                      UnallocatedPcs
  <1>4. CASE CountFails \/ AllocFails
    BY <1>2, <1>4 DEF CountFails, AllocFails, At, CopyunixReturns, KeepBuffer, memVars, Returned,
                      UnallocatedPcs
  <1>5. CASE LoadFails \/ ConfirmCancelled
    BY <1>2, <1>5 DEF LoadFails, ConfirmCancelled, CopyunixReturns, DisposeBuffer, Returned
  <1>6. CASE AbortOnPPC
    BY <1>2, <1>6 DEF AbortOnPPC, KeepBuffer, memVars, Returned
  <1>7. CASE ShutDwnStartReturns
    BY <1>2, <1>7 DEF ShutDwnStartReturns, CopyunixReturns, KeepBuffer, memVars, Returned
  <1>8. CASE EnterKernel
    BY <1>8 DEF EnterKernel, callVars, memVars, Stays, SameBoots
  <1>9. CASE BootOpen
    <2>1. Top.pc = "open" /\ depth' = depth /\ boots' = boots /\ live' = live
      BY <1>9 DEF BootOpen, At, callVars, memVars
    <2>2. PICK fd : OpenInSlot(fd) \/ OpenWithoutSlot(fd)
      BY <1>9 DEF BootOpen
    <2>3. CASE OpenInSlot(fd)
      <3> DEFINE f == [Top EXCEPT !.pc = "header", !.io = fd]
      <3>1. f.buf = Top.buf /\ f.boot = Top.boot /\ f.pc = "header" /\ f.in = Top.in
        BY <1>1, TopFields
      <3>2. frame' = [frame EXCEPT ![depth] = f]
        BY <2>3 DEF OpenInSlot, SetTop
      <3> HIDE DEF f
      <3> QED
        BY <1>1, <1>2, <2>1, <3>1, <3>2, TopSame DEF Stays, UnallocatedPcs, EarlyPcs
    <2>4. CASE OpenWithoutSlot(fd)
      <3> DEFINE f == [Top EXCEPT !.pc = "count", !.st = "event", !.in = "copyunix", !.io = fd]
      <3>1. f.buf = Top.buf /\ f.boot = Top.boot /\ f.pc = "count" /\ f.in = "copyunix"
        BY <1>1, TopFields
      <3>2. frame' = [frame EXCEPT ![depth] = f]
        BY <2>4 DEF OpenWithoutSlot, SetTop
      <3> HIDE DEF f
      <3> QED
        BY <1>1, <1>2, <2>1, <3>1, <3>2, TopSame DEF Stays, UnallocatedPcs, EarlyPcs
    <2> QED
      BY <2>2, <2>3, <2>4
  <1>10. CASE ReadHeader \/ CountKernel \/ LoadKernel \/ PatchKernel \/ ChangeMonitor \/ Confirm
              \/ CloseLog
    <2>1. depth' = depth /\ boots' = boots /\ live' = live
      BY <1>10 DEF ReadHeader, CountKernel, LoadKernel, PatchKernel, ChangeMonitor, Confirm,
                   CloseLog, callVars, memVars
    <2>2. PICK pc : /\ GoTo(pc)
                    /\ pc \in UnallocatedPcs => Top.pc \in UnallocatedPcs
                    /\ pc \in EarlyPcs => Top.pc \in EarlyPcs
      BY <1>10 DEF ReadHeader, CountKernel, LoadKernel, PatchKernel, ChangeMonitor, Confirm,
                   CloseLog, At, UnallocatedPcs, EarlyPcs
    <2> QED
      BY <1>1, <1>2, <2>1, <2>2, GoToSame DEF Stays
  <1>11. CASE VideoInfo
    <2> DEFINE f == [Top EXCEPT !.pc = "confirm"]
               next == [frame EXCEPT ![depth].pc = "confirm"]
    <2>1. f.buf = Top.buf /\ f.boot = Top.boot /\ f.pc = "confirm" /\ f.in = Top.in
      BY <1>1, TopFields
    <2>2. next = [frame EXCEPT ![depth] = f] /\ f \in Frame
      BY <1>1 DEF Top, Frame, Phases
    <2>3. frame' = next \/ frame' = Halted(next)
      BY <1>11 DEF VideoInfo, VideoError
    <2>4. depth' = depth /\ boots' = boots /\ live' = live
      BY <1>11 DEF VideoInfo, callVars, memVars
    <2> HIDE DEF f, next
    <2>5. next \in [0 .. MaxDepth -> Frame]
      BY <1>1, <2>2
    <2>6. SameBoots(next)
      BY <1>1, <1>2, <2>1, <2>2, TopSame DEF UnallocatedPcs, EarlyPcs
    <2> QED
      BY <1>1, <2>3, <2>4, <2>5, <2>6, HaltedSame DEF Stays
  <1>12. CASE TurnOffInterrupts
    <2> DEFINE f == [Top EXCEPT !.pc = "last", !.st = "event", !.in = "copyunix"]
               next == [frame EXCEPT ![depth].pc = "last", ![depth].st = "event",
                                     ![depth].in = "copyunix"]
    <2>1. f.buf = Top.buf /\ f.boot = Top.boot /\ f.pc = "last" /\ f.in = "copyunix"
      BY <1>1, TopFields
    <2>2. next = [frame EXCEPT ![depth] = f] /\ f \in Frame
      BY <1>1, <1>2 DEF Top, Frame, Phases, TypeOK
    <2>3. frame' = next \/ frame' = Halted(next)
      BY <1>12 DEF TurnOffInterrupts, VideoError
    <2>4. depth' = depth /\ boots' = boots /\ live' = live
      BY <1>12 DEF TurnOffInterrupts, callVars, memVars
    <2> HIDE DEF f, next
    <2>5. next \in [0 .. MaxDepth -> Frame]
      BY <1>1, <2>2
    <2>6. SameBoots(next)
      BY <1>1, <1>2, <2>1, <2>2, TopSame DEF UnallocatedPcs, EarlyPcs
    <2> QED
      BY <1>1, <2>3, <2>4, <2>5, <2>6, HaltedSame DEF Stays
  <1> QED
    BY <1>3, <1>4, <1>5, <1>6, <1>7, <1>8, <1>9, <1>10, <1>11, <1>12 DEF Work

LEMMA StackStep ==
    ASSUME SessionInv, [Next]_vars
    PROVE  \/ Stays
           \/ AllocBuffer
           \/ ~running /\ \E resume \in {"check", "recheck"} : LoadAndBoot(resume)
           \/ Returned
  <1>1. CASE UserEvent \/ NullEvent
    BY <1>1, UserStays
  <1>2. CASE TimerBoot \/ StartBoot
    BY <1>2 DEF TimerBoot, StartBoot
  <1>3. CASE Poll \/ Check
    BY <1>3, CheckStack
  <1>4. CASE Work
    BY <1>4, WorkStack
  <1>5. CASE Ended \/ UNCHANGED vars
    BY <1>5 DEF Ended, vars, callVars, memVars, Stays, SameBoots
  <1> QED
    BY <1>1, <1>2, <1>3, <1>4, <1>5 DEF Next, MainEvent, SystemEvent

(* The boot that allocates owns the buffer it allocates.                   *)
LEMMA AllocFrame ==
    ASSUME TypeOK, AllocBuffer
    PROVE  \E f : /\ frame' = [frame EXCEPT ![depth] = f]
                  /\ f.buf = Top.boot /\ f.boot = Top.boot /\ f.pc = "load" /\ f.in = "copyunix"
  <1> DEFINE f == [Top EXCEPT !.pc = "load", !.st = "event", !.in = "copyunix", !.buf = Top.boot]
  <1>1. Top \in Frame
    BY TopType
  <1>2. f.buf = Top.boot /\ f.boot = Top.boot /\ f.pc = "load" /\ f.in = "copyunix"
    BY <1>1 DEF Frame
  <1>3. frame' = [frame EXCEPT ![depth] = f]
    BY DEF AllocBuffer, SetTop
  <1> HIDE DEF f
  <1> QED
    BY <1>2, <1>3

(* A new boot leaves those below it as they are, but for where they resume.*)
LEMMA NewBoot ==
    ASSUME TypeOK, NEW resume, LoadAndBoot(resume)
    PROVE  /\ depth' = depth + 1 /\ boots' = boots + 1 /\ live' = live
           /\ frame'[depth + 1] = NewFrame(boots + 1)
           /\ \A i \in 1 .. depth :
                /\ frame'[i].buf = frame[i].buf /\ frame'[i].boot = frame[i].boot
                /\ frame'[i].pc = frame[i].pc /\ frame'[i].in = frame[i].in
  <1>1. /\ depth \in 0 .. MaxDepth /\ MaxDepth \in Nat /\ depth < MaxDepth
        /\ frame \in [0 .. MaxDepth -> Frame]
    BY BoundsAssumption DEF TypeOK, LoadAndBoot
  <1>2. /\ depth' = depth + 1 /\ boots' = boots + 1 /\ live' = live
        /\ frame' = [frame EXCEPT ![depth].st = resume, ![depth + 1] = NewFrame(boots + 1)]
    BY DEF LoadAndBoot, memVars
  <1> DEFINE g == [frame EXCEPT ![depth].st = resume]
  <1>3. frame' = [g EXCEPT ![depth + 1] = NewFrame(boots + 1)] /\ DOMAIN g = 0 .. MaxDepth
    BY <1>1, <1>2
  <1>4. \A i \in 0 .. MaxDepth : /\ g[i].buf = frame[i].buf /\ g[i].boot = frame[i].boot
                                 /\ g[i].pc = frame[i].pc /\ g[i].in = frame[i].in
    <2> TAKE i \in 0 .. MaxDepth
    <2>1. frame[i] \in Frame
      BY <1>1
    <2>2. g[i] = IF i = depth THEN [frame[i] EXCEPT !.st = resume] ELSE frame[i]
      BY <1>1
    <2> HIDE DEF g
    <2>3. LET h == [frame[i] EXCEPT !.st = resume]
          IN  /\ h.buf = frame[i].buf /\ h.boot = frame[i].boot
              /\ h.pc = frame[i].pc /\ h.in = frame[i].in
      BY <2>1, TopFields
    <2> QED
      BY <2>2, <2>3
  <1> HIDE DEF g
  <1>5. depth + 1 \in 0 .. MaxDepth
    BY <1>1
  <1>6. frame'[depth + 1] = NewFrame(boots + 1)
    BY <1>3, <1>5
  <1>7. \A i \in 1 .. depth : frame'[i] = g[i] /\ i \in 0 .. MaxDepth
    BY <1>1, <1>3
  <1> QED
    BY <1>2, <1>4, <1>6, <1>7

LEMMA ReturnKeeps ==
    ASSUME TypeOK, depth > 0, ReturnFrom(depth)
    PROVE  depth' = depth - 1 /\ \A i \in 1 .. depth - 1 : frame'[i] = frame[i]
  <1>1. depth \in 1 .. MaxDepth /\ MaxDepth \in Nat
    BY BoundsAssumption DEF TypeOK
  <1> QED
    BY <1>1 DEF ReturnFrom

(* No two boots on the stack have the same number.                         *)
LEMMA NumbersStep ==
    ASSUME SessionInv, NumbersInv, [Next]_vars
    PROVE  NumbersInv'
  <1>1. TypeOK /\ depth \in Nat /\ boots \in Nat
    BY BoundsAssumption DEF SessionInv, TypeInv, TypeOK
  <1>2. CASE Stays
    BY <1>2 DEF Stays, SameBoots, NumbersInv
  <1>3. CASE AllocBuffer
    <2>1. /\ depth' = depth /\ boots' = boots /\ depth \in 1 .. MaxDepth
          /\ frame \in [0 .. MaxDepth -> Frame] /\ Top = frame[depth]
      BY <1>1, <1>3 DEF AllocBuffer, At, InBoot, callVars, TypeOK, Top
    <2>2. PICK f : /\ frame' = [frame EXCEPT ![depth] = f]
                   /\ f.buf = Top.boot /\ f.boot = Top.boot /\ f.pc = "load"
      BY <1>1, <1>3, AllocFrame
    <2>3. \A i \in 1 .. depth : frame'[i] = IF i = depth THEN f ELSE frame[i]
      BY <2>1, <2>2
    <2>4. \A i \in 1 .. depth : frame'[i].boot = frame[i].boot
      BY <2>1, <2>2, <2>3
    <2>5. \A i \in 1 .. depth :
            /\ frame'[i].buf \in {0, frame[i].boot}
            /\ frame'[i].pc \in UnallocatedPcs => frame'[i].buf = 0
      BY <2>1, <2>2, <2>3 DEF NumbersInv, UnallocatedPcs
    <2> QED
      BY <2>1, <2>4, <2>5 DEF NumbersInv
  <1>4. ASSUME NEW resume, LoadAndBoot(resume)
        PROVE  NumbersInv'
    <2>1. /\ depth' = depth + 1 /\ boots' = boots + 1
          /\ frame'[depth + 1] = NewFrame(boots + 1)
          /\ \A i \in 1 .. depth :
               /\ frame'[i].buf = frame[i].buf /\ frame'[i].boot = frame[i].boot
               /\ frame'[i].pc = frame[i].pc
      BY <1>1, <1>4, NewBoot
    <2>2. frame'[depth + 1].boot = boots + 1 /\ frame'[depth + 1].buf = 0
      BY <2>1 DEF NewFrame, MainFrame
    <2>3. \A i \in 1 .. depth + 1 : i \in 1 .. depth \/ i = depth + 1
      BY <1>1
    <2>4. \A i \in 1 .. depth : frame[i].boot \in 1 .. boots /\ frame[i].boot # boots + 1
      BY <1>1 DEF NumbersInv
    <2>5. ASSUME NEW i \in 1 .. depth + 1
          PROVE  /\ frame'[i].boot \in 1 .. boots + 1 /\ frame'[i].buf \in {0, frame'[i].boot}
                 /\ frame'[i].pc \in UnallocatedPcs => frame'[i].buf = 0
      <3>1. CASE i \in 1 .. depth
        BY <1>1, <2>1, <2>4, <3>1 DEF NumbersInv
      <3>2. CASE i = depth + 1
        BY <1>1, <2>2, <3>2
      <3> QED
        BY <2>3, <3>1, <3>2
    <2>6. ASSUME NEW i \in 1 .. depth + 1, NEW j \in 1 .. depth + 1, i # j
          PROVE  frame'[i].boot # frame'[j].boot
      <3>1. CASE i \in 1 .. depth /\ j \in 1 .. depth
        BY <2>1, <2>6, <3>1 DEF NumbersInv
      <3>2. CASE i = depth + 1
        BY <2>1, <2>2, <2>3, <2>4, <2>6, <3>2
      <3>3. CASE j = depth + 1
        BY <2>1, <2>2, <2>3, <2>4, <2>6, <3>3
      <3> QED
        BY <2>3, <3>1, <3>2, <3>3
    <2> QED
      BY <2>1, <2>5, <2>6 DEF NumbersInv
  <1>5. CASE Returned
    <2>1. /\ depth' = depth - 1 /\ \A i \in 1 .. depth - 1 : frame'[i] = frame[i]
          /\ boots' = boots /\ \A i \in 1 .. depth - 1 : i \in 1 .. depth
      BY <1>1, <1>5, ReturnKeeps DEF Returned
    <2> QED
      BY <2>1 DEF NumbersInv
  <1> QED
    BY <1>2, <1>3, <1>4, <1>5, StackStep

(* The configuration stays one of those a session can meet, and without a  *)
(* UFS partition no boot ever polls from read_ufs.c.                       *)
LEMMA ConfigStep ==
    ASSUME SessionInv, ConfigInv, [Next]_vars
    PROVE  ConfigInv'
  <1>1. TypeOK /\ depth \in Nat
    BY BoundsAssumption DEF SessionInv, TypeInv, TypeOK
  <1>2. cfg' \in Configs
    BY DEF ConfigInv, Next, MainEvent, UserEvent, SystemEvent, Check, Work, Ended, vars, bootVars,
           StopBoot, BootNow, OpenBoot, OpenDialog, DialogHit, Quit, TimerBoot, StartBoot,
           LoadAndBoot, NullEvent, Poll, CheckPasses, CheckCleansUp, CheckJumps, CopyunixReturns,
           OpenFails, OpenReturnsError, BootOpen, SlotInitFails, ReadHeader, CountKernel,
           CountFails, AllocBuffer, AllocFails, LoadKernel, LoadFails, PatchKernel, ChangeMonitor,
           VideoInfo, Confirm, ConfirmCancelled, CloseLog, AbortOnPPC, TurnOffInterrupts,
           EnterKernel, ShutDwnStartReturns
  <1>3. SUFFICES ASSUME NoUfs
                 PROVE  \A i \in 1 .. depth' : frame'[i].in = "copyunix"
    BY <1>2 DEF ConfigInv
  <1>4. \A i \in 1 .. depth : frame[i].in = "copyunix"
    BY <1>3 DEF ConfigInv
  <1>5. CASE Stays
    BY <1>3, <1>4, <1>5 DEF Stays, SameBoots, ConfigInv, NoUfs
  <1>6. CASE AllocBuffer
    <2>1. depth' = depth /\ depth \in 1 .. MaxDepth /\ frame \in [0 .. MaxDepth -> Frame]
      BY <1>1, <1>6 DEF AllocBuffer, At, InBoot, callVars, TypeOK
    <2>2. PICK f : frame' = [frame EXCEPT ![depth] = f] /\ f.in = "copyunix"
      BY <1>1, <1>6, AllocFrame
    <2>3. \A i \in 1 .. depth : frame'[i] = IF i = depth THEN f ELSE frame[i]
      BY <2>1, <2>2
    <2> QED
      BY <1>4, <2>1, <2>2, <2>3
  <1>7. ASSUME NEW resume, LoadAndBoot(resume)
        PROVE  \A i \in 1 .. depth' : frame'[i].in = "copyunix"
    <2>1. /\ depth' = depth + 1 /\ frame'[depth + 1] = NewFrame(boots + 1)
          /\ \A i \in 1 .. depth : frame'[i].in = frame[i].in
      BY <1>1, <1>7, NewBoot
    <2>2. frame'[depth + 1].in = "copyunix"
      BY <2>1 DEF NewFrame, MainFrame
    <2>3. \A i \in 1 .. depth + 1 : i \in 1 .. depth \/ i = depth + 1
      BY <1>1
    <2> QED
      BY <1>4, <2>1, <2>2, <2>3
  <1>8. CASE Returned
    <2>1. depth' = depth - 1 /\ \A i \in 1 .. depth - 1 : frame'[i] = frame[i] /\ i \in 1 .. depth
      BY <1>1, <1>8, ReturnKeeps DEF Returned
    <2> QED
      BY <1>4, <2>1
  <1> QED
    BY <1>5, <1>6, <1>7, <1>8, StackStep

(* Each buffer on the heap is that of a boot on the stack.                 *)
LEMMA OwnedStep ==
    ASSUME OwnedInv, [Next]_vars
    PROVE  BuffersOwned'
  <1>1. /\ TypeOK /\ SessionInv /\ NumbersInv /\ ConfigInv
        /\ depth \in Nat /\ boots \in Nat
    BY BoundsAssumption DEF OwnedInv, SessionInv, TypeInv, TypeOK
  <1>2. machine' = machine
    BY DEF Next, MainEvent, UserEvent, SystemEvent, Check, Work, Ended, vars, session,
           StopBoot, BootNow, OpenBoot, OpenDialog, DialogHit, Quit, TimerBoot, StartBoot,
           LoadAndBoot, NullEvent, Poll, CheckPasses, CheckCleansUp, CheckJumps, CopyunixReturns,
           OpenFails, OpenReturnsError, BootOpen, SlotInitFails, ReadHeader, CountKernel,
           CountFails, AllocBuffer, AllocFails, LoadKernel, LoadFails, PatchKernel, ChangeMonitor,
           VideoInfo, Confirm, ConfirmCancelled, CloseLog, AbortOnPPC, TurnOffInterrupts,
           EnterKernel, ShutDwnStartReturns
  <1> SUFFICES ASSUME Leakless
               PROVE  live' = {frame'[i].buf : i \in 1 .. depth'} \ {0}
    BY <1>2 DEF BuffersOwned, Leakless, NoUfs
  <1>3. live = {frame[i].buf : i \in 1 .. depth} \ {0}
    BY DEF OwnedInv, BuffersOwned, Leakless, NoUfs
  <1>4. CASE Stays
    BY <1>3, <1>4 DEF Stays, SameBoots
  <1>5. CASE AllocBuffer
    <2>1. /\ depth' = depth /\ depth \in 1 .. depth /\ depth \in 1 .. MaxDepth
          /\ frame \in [0 .. MaxDepth -> Frame] /\ Top = frame[depth]
          /\ Top.pc = "alloc" /\ live' = live \cup {Top.boot}
      BY <1>1, <1>5 DEF AllocBuffer, At, InBoot, callVars, TypeOK, Top
    <2>2. PICK f : frame' = [frame EXCEPT ![depth] = f] /\ f.buf = Top.boot
      BY <1>1, <1>5, AllocFrame
    <2>3. \A i \in 1 .. depth : frame'[i] = IF i = depth THEN f ELSE frame[i]
      BY <2>1, <2>2
    <2>4. frame[depth].buf = 0 /\ Top.boot # 0
      BY <1>1, <2>1 DEF NumbersInv, UnallocatedPcs
    <2>5. \A i \in 1 .. depth : frame'[i].buf = IF i = depth THEN Top.boot ELSE frame[i].buf
      BY <2>2, <2>3
    <2> QED
      BY <1>3, <2>1, <2>4, <2>5
  <1>6. ASSUME NEW resume, LoadAndBoot(resume)
        PROVE  live' = {frame'[i].buf : i \in 1 .. depth'} \ {0}
    <2>1. /\ depth' = depth + 1 /\ live' = live
          /\ frame'[depth + 1] = NewFrame(boots + 1)
          /\ \A i \in 1 .. depth : frame'[i].buf = frame[i].buf
      BY <1>1, <1>6, NewBoot
    <2>2. frame'[depth + 1].buf = 0
      BY <2>1 DEF NewFrame, MainFrame
    <2>3. /\ \A i \in 1 .. depth + 1 : i \in 1 .. depth \/ i = depth + 1
          /\ \A i \in 1 .. depth : i \in 1 .. depth + 1
      BY <1>1
    <2> QED
      BY <1>3, <2>1, <2>2, <2>3
  <1>7. CASE Returned
    <2>1. /\ depth' = depth - 1 /\ \A i \in 1 .. depth - 1 : frame'[i] = frame[i]
          /\ depth \in 1 .. depth /\ Top = frame[depth]
      BY <1>1, <1>7, ReturnKeeps DEF Returned, Top
    <2>2. /\ \A i \in 1 .. depth : i \in 1 .. depth - 1 \/ i = depth
          /\ \A i \in 1 .. depth - 1 : i \in 1 .. depth /\ i # depth
      BY <1>1
    <2>3. {frame'[i].buf : i \in 1 .. depth'} = {frame[i].buf : i \in 1 .. depth - 1}
      BY <2>1
    <2>4. \A i \in 1 .. depth - 1 : frame[i].buf # 0 => frame[i].buf # Top.buf
      <3> TAKE i \in 1 .. depth - 1
      <3>1. frame[i].boot # Top.boot
        BY <1>1, <2>1, <2>2 DEF NumbersInv
      <3>2. frame[i].buf \in {0, frame[i].boot} /\ Top.buf \in {0, Top.boot}
        BY <1>1, <2>1, <2>2 DEF NumbersInv
      <3> QED
        BY <3>1, <3>2
    <2>5. {frame[i].buf : i \in 1 .. depth - 1} \ {0} = live \ {Top.buf}
      BY <1>3, <2>1, <2>2, <2>4
    <2>6. Top.in # "ufs"
      BY <1>1, <2>1 DEF ConfigInv, Leakless
    <2>7. CASE live' = live \ {Top.buf}
      BY <2>3, <2>5, <2>7
    <2>8. CASE live' = live /\ Top.pc \in UnallocatedPcs
      <3>1. Top.buf = 0
        BY <1>1, <2>1, <2>8 DEF NumbersInv
      <3>2. live \ {Top.buf} = live
        BY <1>3, <3>1
      <3> QED
        BY <2>3, <2>5, <2>8, <3>2
    <2> QED
      BY <1>7, <2>6, <2>7, <2>8 DEF Returned, Leakless
  <1> QED
    BY <1>1, <1>4, <1>5, <1>6, <1>7, StackStep

(* With no UFS partition, on a 68k machine whose ShutDwnStart does not     *)
(* return, no boot leaks its kernel buffer or loses it to another: however *)
(* boots are stopped, fail or are nested in one another, the buffers on    *)
(* the heap are those of the boots on the stack.                           *)
THEOREM BuffersCorrect == Spec => []BuffersOwned
  <1>1. Init => NumbersInv /\ ConfigInv /\ BuffersOwned
    BY DEF Init, NumbersInv, ConfigInv, BuffersOwned
  <1>2. Spec => [](NumbersInv /\ ConfigInv /\ BuffersOwned)
    BY <1>1, SessionCorrect, NumbersStep, ConfigStep, OwnedStep, PTL DEF Spec, OwnedInv
  <1> QED
    BY <1>2, PTL
-----------------------------------------------------------------------------
(* The descriptors that are recorded in a slot, of files that are not on   *)
(* UFS, are above zero, so StopRun closes them.                            *)
SlotsInv    == NoUfs => \A i \in 1 .. Len(booter_files) : booter_files[i] > 0
ReleasedInv == SlotsInv /\ FilesReleased

(* How the stack gets lower.                                               *)
LEMMA ReturnKinds ==
    ASSUME SessionInv, [Next]_vars, depth' # depth
    PROVE  \/ ~running /\ \E resume \in {"check", "recheck"} : LoadAndBoot(resume)
           \/ /\ depth > 0
              /\ \/ CopyunixReturns
                 \/ OpenReturnsError /\ UNCHANGED booter_files
                 \/ AbortOnPPC
                 \/ CheckJumps
  <1>1. CASE TimerBoot \/ StartBoot
    BY <1>1 DEF TimerBoot, StartBoot
  <1>2. CASE CheckCleansUp \/ CheckJumps
    BY <1>2 DEF CheckCleansUp, CheckJumps, InBoot
  <1>3. CASE OpenFails \/ SlotInitFails
    BY <1>3 DEF OpenFails, SlotInitFails, At, InBoot
  <1>4. CASE CountFails \/ AllocFails \/ LoadFails \/ ConfirmCancelled \/ AbortOnPPC
             \/ ShutDwnStartReturns
    BY <1>4 DEF CountFails, AllocFails, LoadFails, ConfirmCancelled, AbortOnPPC,
                ShutDwnStartReturns, At, InBoot
  <1> QED
    BY <1>1, <1>2, <1>3, <1>4
    DEF Next, MainEvent, UserEvent, SystemEvent, Check, Work, Ended, vars, callVars,
        StopBoot, BootNow, OpenBoot, OpenDialog, DialogHit, Quit, NullEvent, Poll, CheckPasses,
        BootOpen, ReadHeader, CountKernel, AllocBuffer, LoadKernel, PatchKernel, ChangeMonitor,
        VideoInfo, Confirm, CloseLog, TurnOffInterrupts, EnterKernel

(* What main's loop does without a boot opens and closes nothing.          *)
LEMMA IdleFiles ==
    ASSUME SessionInv, [Next]_vars, depth = 0, depth' = 0
    PROVE  UNCHANGED <<kern_fd, files, booter_files>>
  <1>1. ~(Poll \/ Check \/ Work)
    BY DEF Poll, Check, CheckPasses, CheckCleansUp, CheckJumps, Work, OpenFails, BootOpen,
           SlotInitFails, ReadHeader, CountKernel, CountFails, AllocBuffer, AllocFails,
           LoadKernel, LoadFails, PatchKernel, ChangeMonitor, VideoInfo, Confirm,
           ConfirmCancelled, CloseLog, AbortOnPPC, TurnOffInterrupts, EnterKernel,
           ShutDwnStartReturns, At, InBoot
  <1>2. CASE StopBoot
    <2>1. ~(-1 > 0)
      OBVIOUS
    <2> QED
      BY <1>2, <2>1 DEF StopBoot, StopRun
  <1>3. CASE BootNow \/ OpenBoot \/ OpenDialog \/ DialogHit \/ Quit \/ NullEvent
    BY <1>3 DEF BootNow, OpenBoot, OpenDialog, DialogHit, Quit, NullEvent, fileVars
  <1>4. CASE TimerBoot \/ StartBoot
    BY <1>4 DEF TimerBoot, StartBoot, LoadAndBoot, fileVars
  <1>5. CASE UNCHANGED vars
    BY <1>5 DEF vars, fileVars
  <1> QED
    BY <1>1, <1>2, <1>3, <1>4, <1>5 DEF Next, MainEvent, UserEvent, SystemEvent, Ended

LEMMA SlotsStep ==
    ASSUME SessionInv, ConfigInv, SlotsInv, [Next]_vars
    PROVE  SlotsInv'
  <1>1. CASE BootOpen
    <2> SUFFICES ASSUME NoUfs, NEW i \in 1 .. Len(booter_files')
                 PROVE  booter_files'[i] > 0
      BY DEF SlotsInv
    <2>1. PICK fd \in NextFds(cfg.kernelLoc) : OpenInSlot(fd) \/ OpenWithoutSlot(fd)
      BY <1>1 DEF BootOpen
    <2>2. cfg.kernelLoc \in {"MacOSPart", "NetBoot"}
      BY DEF ConfigInv, SessionInv, TypeInv, TypeOK, ConfigType, Locations, NoUfs
    <2>3. fd \in Nat /\ fd > 0
      BY <2>1, <2>2, RefNumsAssumption DEF NextFds, NetBootFd
    <2>4. booter_files \in Seq(Fds) /\ \A j \in 1 .. Len(booter_files) : booter_files[j] > 0
      BY DEF SlotsInv, SessionInv, TypeInv, TypeOK
    <2>5. booter_files' = Append(booter_files, fd) \/ booter_files' = booter_files
      BY <2>1 DEF OpenInSlot, OpenWithoutSlot
    <2>6. CASE booter_files' = booter_files
      BY <2>4, <2>6
    <2>7. CASE booter_files' = Append(booter_files, fd)
      <3> DEFINE N == Len(booter_files)
      <3>1. /\ N \in Nat /\ Len(Append(booter_files, fd)) = N + 1
            /\ \A j \in 1 .. N : Append(booter_files, fd)[j] = booter_files[j]
            /\ Append(booter_files, fd)[N + 1] = fd
        BY <2>4
      <3> HIDE DEF N
      <3>2. i \in 1 .. N \/ i = N + 1
        BY <2>7, <3>1
      <3> QED
        BY <2>3, <2>4, <2>7, <3>1, <3>2 DEF N
    <2> QED
      BY <2>5, <2>6, <2>7
  <1>2. CASE ~BootOpen
    <2>1. booter_files' = booter_files
      BY <1>2
      DEF Next, MainEvent, UserEvent, SystemEvent, Check, Work, Ended, vars, fileVars,
          StopBoot, BootNow, OpenBoot, OpenDialog, DialogHit, Quit, TimerBoot, StartBoot,
          LoadAndBoot, NullEvent, Poll, CheckPasses, CheckCleansUp, CheckJumps, CopyunixReturns,
          OpenFails, OpenReturnsError, SlotInitFails, ReadHeader, CountKernel,
          CountFails, AllocBuffer, AllocFails, LoadKernel, LoadFails, PatchKernel, ChangeMonitor,
          VideoInfo, Confirm, ConfirmCancelled, CloseLog, AbortOnPPC, TurnOffInterrupts,
          EnterKernel, ShutDwnStartReturns
    <2> QED
      BY <2>1 DEF SlotsInv
  <1> QED
    BY <1>1, <1>2

LEMMA FilesStep ==
    ASSUME SessionInv, ConfigInv, ConfigInv', ReleasedInv, [Next]_vars
    PROVE  FilesReleased'
  <1> SUFFICES ASSUME \A c, d \in Configs : c.kernelLoc = d.kernelLoc, NoUfs,
                      depth' = 0, HasSlot(kern_fd)'
               PROVE  (BackEndFile(kern_fd) \notin files)'
    BY DEF FilesReleased, NoUfs
  <1>1. cfg'.kernelLoc = cfg.kernelLoc
    BY DEF ConfigInv
  <1>2. CASE depth = 0
    <2>1. kern_fd' = kern_fd /\ files' = files /\ booter_files' = booter_files
      BY <1>2, IdleFiles
    <2>2. HasSlot(kern_fd)
      BY <2>1 DEF HasSlot
    <2>3. BackEndFile(kern_fd) \notin files
      BY <1>2, <2>2 DEF ReleasedInv, FilesReleased, NoUfs
    <2> QED
      BY <1>1, <2>1, <2>3 DEF BackEndFile
  <1>3. CASE depth # 0
    <2>1. depth \in Nat /\ depth > 0
      BY <1>3, BoundsAssumption DEF SessionInv, TypeInv, TypeOK
    <2>2. ASSUME NEW resume, LoadAndBoot(resume)
          PROVE  FALSE
      BY <2>1, <2>2 DEF LoadAndBoot
    <2>3. CASE OpenReturnsError /\ UNCHANGED booter_files
      <3>1. kern_fd' = -1 /\ booter_files' = booter_files
        BY <2>3 DEF OpenReturnsError
      <3>2. PICK i \in 1 .. Len(booter_files) : booter_files[i] = -1
        BY <3>1 DEF HasSlot
      <3>3. booter_files[i] > 0
        BY DEF ReleasedInv, SlotsInv
      <3> QED
        BY <3>2, <3>3
    <2>4. CASE CopyunixReturns \/ AbortOnPPC
      <3>1. kern_fd' = kern_fd /\ booter_files' = booter_files
        BY <2>4 DEF CopyunixReturns, AbortOnPPC
      <3>2. HasSlot(kern_fd)
        BY <3>1 DEF HasSlot
      <3>3. kern_fd > 0
        BY <3>2 DEF HasSlot, ReleasedInv, SlotsInv
      <3>4. FilesAfterClose(kern_fd) = files \ {BackEndFile(kern_fd)}
        BY <3>2 DEF FilesAfterClose
      <3>5. files' \subseteq FilesAfterClose(kern_fd)
        BY <2>4, <3>3 DEF CopyunixReturns, StopRun, AbortOnPPC
      <3>6. BackEndFile(kern_fd)' = BackEndFile(kern_fd)
        BY <1>1, <3>1 DEF BackEndFile
      <3> QED
        BY <3>4, <3>5, <3>6
    <2>5. CASE CheckJumps
      <3>1. depth \in 1 .. depth /\ Top = frame[depth] /\ Top.in = "ufs"
        BY <2>1, <2>5 DEF CheckJumps, Top
      <3> QED
        BY <3>1 DEF ConfigInv
    <2> QED
      BY <1>3, <2>2, <2>3, <2>4, <2>5, ReturnKinds
  <1> QED
    BY <1>2, <1>3

(* When the location does not change under the boot and is not UFS, the    *)
(* kernel that was opened last is closed once no boot is on the stack,     *)
(* provided that a slot names it: however that boot, and the boots nested  *)
(* in it, ended.                                                           *)
THEOREM FilesCorrect == Spec => []FilesReleased
  <1>1. Init => ConfigInv /\ ReleasedInv
    BY DEF Init, ConfigInv, ReleasedInv, SlotsInv, FilesReleased, HasSlot
  <1>2. SessionInv /\ ConfigInv /\ ReleasedInv /\ [Next]_vars => ConfigInv' /\ ReleasedInv'
    BY ConfigStep, SlotsStep, FilesStep DEF ReleasedInv
  <1>3. ReleasedInv => FilesReleased
    BY DEF ReleasedInv
  <1> QED
    BY <1>1, <1>2, <1>3, SessionCorrect, PTL DEF Spec
-----------------------------------------------------------------------------
(* The screen.  A setting is kept only while a boot that went past the     *)
(* change of the monitor is at the bottom of the stack, if no              *)
(* configuration changes under it; and what is kept, or else what the      *)
(* screen shows, is the user's depth, but for what SaveDepth mistakes and  *)
(* what MonitorChange lost.                                                *)
SameMonitor == \A c, d \in Configs : c.monitor = d.monitor
Kept        == saved # NotSaved \/ original # NotSaved
BoundInv    == SameMonitor /\ Kept => /\ cfg.monitor
                                      /\ depth > 0 /\ frame[1].pc \notin EarlyPcs
UserDepth   == machine.depth \notin {OddDepth, 32} /\ lost = {}
DepthInv    ==
    UserDepth => IF saved = NotSaved
                 THEN hw = machine.depth /\ original = NotSaved
                 ELSE /\ saved = machine.depth
                      /\ original \in {NotSaved, NotMain, machine.depth}
ScreenInv   == machine \in Machines /\ BoundInv /\ DepthInv

(* How a step treats the screen: it stops the boot and restores it, or the *)
(* boot changes it, or it leaves it as it is.                              *)
LEMMA ScreenKinds ==
    ASSUME [Next]_vars
    PROVE  /\ machine' = machine
           /\ \/ IF cfg.monitor THEN RestoreDepth ELSE UNCHANGED screenVars
              \/ ChangeMonitor
              \/ UNCHANGED screenVars
  <1> USE DEF session, machVars
  <1>1. CASE UserEvent \/ NullEvent
    BY <1>1 DEF UserEvent, StopBoot, StopRun, BootNow, OpenBoot, OpenDialog, DialogHit, Quit,
                NullEvent
  <1>2. CASE TimerBoot \/ StartBoot
    BY <1>2 DEF TimerBoot, StartBoot, LoadAndBoot
  <1>3. CASE Poll \/ CheckPasses \/ CheckJumps
    BY <1>3 DEF Poll, CheckPasses, CheckJumps
  <1>4. CASE CheckCleansUp \/ OpenFails \/ SlotInitFails \/ CountFails \/ AllocFails \/ LoadFails
             \/ ConfirmCancelled \/ AbortOnPPC \/ ShutDwnStartReturns
    BY <1>4 DEF CheckCleansUp, OpenFails, SlotInitFails, CountFails, AllocFails, LoadFails,
                ConfirmCancelled, AbortOnPPC, ShutDwnStartReturns, CopyunixReturns,
                OpenReturnsError, StopRun
  <1>5. CASE BootOpen \/ ReadHeader \/ CountKernel \/ AllocBuffer \/ LoadKernel \/ PatchKernel
             \/ ChangeMonitor \/ Confirm \/ CloseLog \/ EnterKernel
    BY <1>5 DEF BootOpen, ReadHeader, CountKernel, AllocBuffer, LoadKernel, PatchKernel,
                ChangeMonitor, Confirm, CloseLog, EnterKernel
  <1>6. CASE VideoInfo \/ TurnOffInterrupts
    BY <1>6 DEF VideoInfo, TurnOffInterrupts
  <1>7. CASE UNCHANGED vars
    BY <1>7 DEF vars
  <1> QED
    BY <1>1, <1>2, <1>3, <1>4, <1>5, <1>6, <1>7
    DEF Next, MainEvent, SystemEvent, Check, Work, Ended

(* RestoreDepth gives the user's depth back, and keeps nothing.            *)
LEMMA RestoreStep ==
    ASSUME DepthInv, RestoreDepth, machine' = machine, machine \in Machines
    PROVE  ~Kept' /\ DepthInv'
  <1>1. saved' = NotSaved /\ original' = NotSaved /\ lost' = lost
    BY DEF RestoreDepth
  <1>2. ASSUME UserDepth PROVE hw' = machine.depth
    <2>1. machine.depth \in Depths /\ HasDepth(machine.depth)
      BY <1>2, MachinesAssumption DEF UserDepth, HasDepth, MachineType
    <2>2. NotSaved \notin Depths /\ NotMain \notin Depths
      BY DEF Depths, OddDepth, NotSaved, NotMain
    <2>3. CASE saved = NotSaved
      BY <1>2, <2>2, <2>3 DEF DepthInv, RestoreDepth
    <2>4. CASE saved # NotSaved
      <3>1. saved = machine.depth /\ original \in {NotSaved, NotMain, machine.depth}
        BY <1>2, <2>4 DEF DepthInv
      <3>2. NotRead \notin {NotSaved, NotMain}
        BY DEF NotSaved, NotMain, NotRead
      <3> QED
        BY <2>1, <2>2, <2>4, <3>1, <3>2 DEF RestoreDepth
    <2> QED
      BY <2>3, <2>4
  <1> QED
    BY <1>1, <1>2 DEF Kept, DepthInv, UserDepth

(* MonitorChange keeps the user's depth, or is on record as having lost it.*)
LEMMA ChangeStep ==
    ASSUME DepthInv, MonitorChange, machine' = machine, machine \in Machines
    PROVE  DepthInv'
  <1> SUFFICES ASSUME UserDepth'
               PROVE  IF saved' = NotSaved
                      THEN hw' = machine.depth /\ original' = NotSaved
                      ELSE /\ saved' = machine.depth
                           /\ original' \in {NotSaved, NotMain, machine.depth}
    BY DEF DepthInv
  <1>1. lost' = lost \cup {how \in Losses : \/ how = "overwritten" /\ saved # NotSaved
                                            \/ how = "unread" /\ original' = NotRead}
    BY DEF MonitorChange
  <1>2. UserDepth /\ saved = NotSaved /\ original' # NotRead
    BY <1>1 DEF UserDepth, Losses
  <1>3. hw = machine.depth /\ original = NotSaved
    BY <1>2 DEF DepthInv
  <1>4. saved' = machine.depth
    BY <1>2, <1>3 DEF MonitorChange, SaveDepth, UserDepth
  <1>5. machine.depth # NotSaved
    BY MachinesAssumption DEF MachineType, Depths, OddDepth, NotSaved
  <1> QED
    BY <1>2, <1>3, <1>4, <1>5 DEF MonitorChange

(* The boot at the bottom of the stack does not go back before the change  *)
(* of the monitor, and a longjmp does not take it away after it.           *)
LEMMA BottomStep ==
    ASSUME SessionInv, [Next]_vars, depth > 0, frame[1].pc \notin EarlyPcs,
           UNCHANGED screenVars, Kept,
           ~CopyunixReturns, ~OpenReturnsError, ~AbortOnPPC
    PROVE  depth' > 0 /\ frame'[1].pc \notin EarlyPcs
  <1>1. /\ TypeOK /\ depth \in 1 .. MaxDepth /\ MaxDepth \in Nat /\ depth <= 2
        /\ frame \in [0 .. MaxDepth -> Frame] /\ 1 \in 0 .. MaxDepth
    BY BoundsAssumption DEF SessionInv, TypeInv, TypeOK, NestingInv
  <1>2. CASE Stays
    <2>1. depth' = depth /\ 1 \in 1 .. depth /\ SameBoots(frame')
      BY <1>1, <1>2 DEF Stays
    <2> QED
      BY <2>1 DEF SameBoots
  <1>3. CASE AllocBuffer
    <2>1. depth' = depth /\ Top.pc \in EarlyPcs
      BY <1>3 DEF AllocBuffer, At, callVars, EarlyPcs, UnallocatedPcs
    <2>2. depth # 1
      BY <2>1 DEF Top
    <2>3. PICK f : frame' = [frame EXCEPT ![depth] = f]
      BY <1>1, <1>3, AllocFrame
    <2>4. frame'[1] = frame[1]
      BY <1>1, <2>2, <2>3
    <2> QED
      BY <2>1, <2>4
  <1>4. CASE \E resume \in {"check", "recheck"} : LoadAndBoot(resume)
    <2>1. PICK resume \in {"check", "recheck"} : LoadAndBoot(resume)
      BY <1>4
    <2>2. depth' = depth + 1
      BY <2>1 DEF LoadAndBoot
    <2>3. frame' = [frame EXCEPT ![depth].st = resume, ![depth + 1] = NewFrame(boots + 1)]
      BY <2>1 DEF LoadAndBoot
    <2>4. frame[1] \in Frame /\ depth + 1 # 1
      BY <1>1
    <2>5. frame'[1] = frame[1] \/ frame'[1] = [frame[1] EXCEPT !.st = resume]
      BY <1>1, <2>3, <2>4
    <2>6. frame'[1].pc = frame[1].pc
      BY <2>4, <2>5 DEF Frame
    <2> QED
      BY <1>1, <2>2, <2>6
  <1>5. CASE CheckJumps
    <2>1. Top.in = "ufs" /\ ReturnFrom(bootenv)
      BY <1>5 DEF CheckJumps
    <2>2. Top.pc \in ReadingPcs
      BY <1>1, <2>1 DEF SessionInv, PollInv
    <2>3. bootenv = depth /\ Top.pc \in EarlyPcs
      BY <1>1, <2>2 DEF SessionInv, PollInv, ReadingPcs, EarlyPcs, UnallocatedPcs
    <2>4. depth = 2
      BY <1>1, <2>3 DEF Top
    <2> QED
      BY <1>1, <2>1, <2>3, <2>4 DEF ReturnFrom
  <1>6. CASE Returned
    <2>1. depth' # depth
      BY <1>1, <1>6 DEF Returned, ReturnFrom
    <2> QED
      BY <1>4, <1>5, <2>1, ReturnKinds
  <1> QED
    BY <1>2, <1>3, <1>4, <1>6, StackStep

(* Changing the monitor leaves the boot past that phase.                   *)
LEMMA ChangedStep ==
    ASSUME SessionInv, ChangeMonitor
    PROVE  depth' > 0 /\ frame'[1].pc \notin EarlyPcs
  <1>1. TypeOK /\ depth' = depth /\ depth \in 1 .. 2 /\ 1 \in 0 .. MaxDepth
    BY BoundsAssumption DEF SessionInv, TypeInv, TypeOK, NestingInv, ChangeMonitor, callVars,
                            At, InBoot
  <1>2. PICK f : SetTop(f) /\ f.pc = "video"
    BY <1>1, GoToFields DEF ChangeMonitor
  <1>3. /\ Top' = f
        /\ \A i \in 0 .. MaxDepth : i # depth => frame'[i] = frame[i]
    BY <1>1, <1>2, SetTopFrame
  <1>4. CASE depth = 1
    BY <1>1, <1>2, <1>3, <1>4 DEF Top, EarlyPcs, UnallocatedPcs
  <1>5. CASE depth = 2
    <2>1. frame'[1] = frame[1] /\ frame[1].pc \in {"closelog", "last"}
      BY <1>1, <1>3, <1>5 DEF SessionInv, NestingInv
    <2> QED
      BY <1>1, <2>1 DEF EarlyPcs, UnallocatedPcs
  <1> QED
    BY <1>1, <1>4, <1>5

LEMMA ScreenStep ==
    ASSUME SessionInv, ConfigInv, ConfigInv', ScreenInv, [Next]_vars
    PROVE  ScreenInv'
  <1>1. machine' = machine /\ machine \in Machines
    BY ScreenKinds DEF ScreenInv
  <1>2. SameMonitor => cfg'.monitor = cfg.monitor
    BY DEF SameMonitor, ConfigInv
  <1>3. DepthInv'
    <2>1. CASE UNCHANGED screenVars
      BY <1>1, <2>1 DEF screenVars, ScreenInv, DepthInv, UserDepth
    <2>2. CASE RestoreDepth
      BY <1>1, <2>2, RestoreStep DEF ScreenInv
    <2>3. CASE MonitorChange
      BY <1>1, <2>3, ChangeStep DEF ScreenInv
    <2> QED
      BY <2>1, <2>2, <2>3, ScreenKinds DEF ChangeMonitor
  <1>4. BoundInv'
    <2> SUFFICES ASSUME SameMonitor, Kept'
                 PROVE  cfg.monitor /\ depth' > 0 /\ frame'[1].pc \notin EarlyPcs
      BY <1>2 DEF BoundInv, SameMonitor
    <2>1. Kept => cfg.monitor /\ depth > 0 /\ frame[1].pc \notin EarlyPcs
      BY DEF ScreenInv, BoundInv
    <2>2. CASE cfg.monitor /\ RestoreDepth
      BY <1>1, <2>2, RestoreStep DEF ScreenInv
    <2>3. CASE ChangeMonitor /\ cfg.monitor
      BY <2>3, ChangedStep
    <2>4. CASE UNCHANGED screenVars
      <3>1. Kept
        BY <2>4 DEF Kept, screenVars
      <3>2. cfg.monitor
        BY <2>1, <3>1
      <3>3. ~RestoreDepth
        BY <3>1, <2>4 DEF RestoreDepth, Kept, screenVars
      <3>4. ~CopyunixReturns /\ ~OpenReturnsError /\ ~AbortOnPPC
        BY <3>2, <3>3 DEF CopyunixReturns, OpenReturnsError, StopRun, AbortOnPPC
      <3> QED
        BY <2>1, <2>4, <3>1, <3>2, <3>4, BottomStep
    <2> QED
      BY <2>2, <2>3, <2>4, ScreenKinds DEF ChangeMonitor
  <1> QED
    BY <1>1, <1>3, <1>4 DEF ScreenInv

(* When the monitor option does not change under the boot, nothing is kept *)
(* once no boot is on the stack: whether it failed, was stopped, ended in  *)
(* a longjmp or came back from ShutDwnStart.  The main screen has the      *)
(* user's depth then, except for millions and modes SaveDepth does not     *)
(* know, and once a second MonitorChange wrote over what the first kept,   *)
(* or could not read what the Display Manager would have to set again.     *)
THEOREM MonitorCorrect == Spec => []MonitorRestored
  <1>1. Init => ConfigInv /\ ScreenInv
    BY DEF Init, ConfigInv, ScreenInv, BoundInv, Kept, DepthInv
  <1>2. SessionInv /\ ScreenInv => MonitorRestored
    BY DEF ScreenInv, BoundInv, SameMonitor, Kept, DepthInv, UserDepth, MonitorRestored
  <1> QED
    BY <1>1, <1>2, SessionCorrect, ConfigStep, ScreenStep, PTL DEF Spec
=============================================================================
