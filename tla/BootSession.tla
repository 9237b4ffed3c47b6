---------------------------- MODULE BootSession ----------------------------
(***************************************************************************)
(* One session of the Booter: the cooperative event loop of main.c, the    *)
(* boot it runs (load_and_boot, then copyunix), and the EVENT_CHECKs by    *)
(* which a boot polls that same event loop.  There is one thread; what     *)
(* interleaves is the user's events with the phases of a boot, because     *)
(* every EVENT_CHECK calls MainEvent and MainEvent can stop the boot,      *)
(* change its configuration, or start another boot on top of it.           *)
(*                                                                         *)
(* frame[0] is main's loop; frame[1..depth] are the load_and_boot calls on *)
(* the C stack, innermost last.  A frame is between two EVENT_CHECKs       *)
(* ("work"), in MainEvent's WaitNextEvent ("event"), suspended at main.c   *)
(* line 263 and due to run line 266 ("recheck"), or back from MainEvent    *)
(* and about to test `running' ("check").                                  *)
(***************************************************************************)
EXTENDS Integers, Sequences, FiniteSets

CONSTANTS
    Configs,            \* the user_configuration records a session can meet
    Machines,           \* the machines it may run on
    RefNums,            \* file reference numbers the File Manager hands out
    MaxBooterFiles,     \* MAX_BOOTER_FILES of gzip.c
    MaxUfsFds,          \* size of fdtable in read_ufs.c
    MaxBoots,           \* bound: calls of load_and_boot in a session
    MaxDepth            \* bound: load_and_boot calls on the stack

Locations == {"NetBSDPart", "MacOSPart", "NetBoot"}
NetBootFd == 42         \* kFooFileID

(* The fields of currentConfiguration that steer a boot; `monitor' is      *)
(* MonitorDepth || setToGreys || MonitorSize.                              *)
ConfigType == [kernelLoc : Locations, monitor : BOOLEAN, LogToFile : BOOLEAN,
               AbortNonFatal : BOOLEAN, PauseBeforeBoot : BOOLEAN,
               NoDisableVBLs : BOOLEAN]

(* Depths of a screen; OddDepth stands for every mode SaveDepth does not   *)
(* know.  NotSaved, NotMain and NotRead are no depths: nothing was kept,   *)
(* it is of another screen, or the Display Manager did not tell.           *)
OddDepth == -1
Depths   == {OddDepth, 1, 2, 4, 8, 16, 32}
NotSaved == 0
NotMain  == -2
NotRead  == -3
Losses   == {"overwritten", "unread"}

(* RunningOnPPC (), whether ShutDwnStart can return (copy_and_boot.c line  *)
(* 648 says it should not), the depths of the main screen, and the one the *)
(* user has set.                                                           *)
MachineType == [onPPC : BOOLEAN, shutDwnReturns : BOOLEAN, depths : SUBSET Depths,
                depth : Depths]

ASSUME ConfigsAssumption == Configs # {} /\ Configs \subseteq ConfigType
ASSUME MachinesAssumption == \A m \in Machines : m \in MachineType /\ m.depth \in m.depths
ASSUME RefNumsAssumption == RefNums \subseteq Nat \ {0}
ASSUME BoundsAssumption  == /\ MaxBooterFiles \in Nat /\ MaxUfsFds \in Nat
                            /\ MaxBoots \in Nat       /\ MaxDepth \in Nat

VARIABLES
    machine,            \* fixed for the session
    running, startboot, \* the two flags other files see
    timer,              \* time_boot_start # 0: autoboot is armed
    cfg,                \* currentConfiguration
    dialog,             \* some options dialog is open
    frame, depth,       \* the C stack
    bootenv,            \* depth of the frame whose setjmp filled bootenv
    kern_fd,            \* main.c's static descriptor
    files,              \* <<location, fd>> pairs the back ends hold open
    booter_files,       \* gzip.c's slots, in the order they were taken
    live, loaded,       \* kernel buffers allocated / filled by LOAD_KERNEL
    boot_buffer,        \* buffer the shutdown procedure will copy from
    hw,                 \* depth of the main screen
    saved,              \* currentDepth while savedDepth is set, or NotSaved
    original,           \* originalRec while gotVideoSetting is set, or NotSaved
    lost,               \* history: how MonitorChange lost the setting to restore
    log,                \* fileref # 0
    vbl,                \* the cards' vertical blanking interrupts
    boots,              \* load_and_boot calls so far
    outcome             \* "none", or how the session ended

bootVars == <<running, startboot, timer, cfg, dialog>>
fileVars == <<kern_fd, files, booter_files>>
memVars  == <<live, loaded, boot_buffer>>
screenVars == <<hw, saved, original, lost>>
machVars == <<screenVars, log, vbl>>
callVars == <<depth, bootenv, boots>>
session  == <<machine, outcome>>
vars     == <<bootVars, frame, callVars, fileVars, memVars, machVars, session>>

Phases   == {"open", "header", "count", "alloc", "load", "patch", "monitor",
             "video", "confirm", "closelog", "interrupts", "last"}
Fds      == RefNums \cup (0 .. MaxUfsFds) \cup {NetBootFd}

(* A stack frame: phase, position in the event check, whose EVENT_CHECK    *)
(* (copyunix's CLEANUP or the empty one of read_ufs.c), kernel buffer (0   *)
(* is NULL), descriptor and number of the boot; `stopped' is a history     *)
(* field, true once `running' went false while the frame was on the stack. *)
Frame == [pc : Phases \cup {"main"}, st : {"work", "event", "recheck", "check"},
          in : {"copyunix", "ufs"}, buf : 0 .. MaxBoots, io : Fds \cup {-1},
          boot : 0 .. MaxBoots, stopped : BOOLEAN]

MainFrame == [pc |-> "main", st |-> "event", in |-> "copyunix", buf |-> 0,
              io |-> -1, boot |-> 0, stopped |-> FALSE]
NewFrame(n) == [MainFrame EXCEPT !.pc = "open", !.st = "work", !.boot = n]

Top    == frame[depth]
InBoot == outcome = "none" /\ depth > 0
At(pc) == InBoot /\ Top.pc = pc /\ Top.st = "work"

SetTop(f) == frame' = [frame EXCEPT ![depth] = f]
(* The next phase begins with the EVENT_CHECKs that precede it. *)
GoTo(pc)  == SetTop([Top EXCEPT !.pc = pc, !.st = "event", !.in = "copyunix"])
(* Every boot on the stack sees `running' go false. *)
Halted(f) == [i \in 0 .. MaxDepth |->
                 IF i \in 1 .. depth THEN [f[i] EXCEPT !.stopped = TRUE] ELSE f[i]]
-----------------------------------------------------------------------------
(* Files: every call is dispatched on the location configured NOW.         *)

HasSlot(fd) == \E i \in 1 .. Len(booter_files) : booter_files[i] = fd
BackEndFile(fd) == <<cfg.kernelLoc, IF cfg.kernelLoc = "NetBoot" THEN NetBootFd ELSE fd>>
Readable(fd) == HasSlot(fd) /\ BackEndFile(fd) \in files
\* Defect: the slot is released, the back end's file is not.
FilesAfterCloseOmitted(fd) == files

FilesAfterClose(fd) == IF HasSlot(fd) THEN files \ {BackEndFile(fd)} ELSE files

(* ufs_open takes the lowest unused descriptor, the File Manager any.      *)
NextFds(loc) ==
    CASE loc = "NetBSDPart" -> {i \in 0 .. MaxUfsFds - 1 :
                                   /\ <<loc, i>> \notin files
                                   /\ \A j \in 0 .. i - 1 : <<loc, j>> \in files}
      [] loc = "MacOSPart"  -> {i \in RefNums : <<loc, i>> \notin files}
      [] loc = "NetBoot"    -> {NetBootFd}
-----------------------------------------------------------------------------
(* StopRun (fd), and the ways out of a boot that end in it.                *)

\* Defect: the savedDepth test is dropped.
RestoreDepthUntested ==
    /\ hw' = saved /\ saved' = NotSaved /\ original' = NotSaved /\ UNCHANGED lost
\* Defect: nothing is put back.
RestoreDepthOmitted == UNCHANGED screenVars

HasDepth(bits) == bits \in machine.depths \ {OddDepth}
(* The depth first, if the screen has it; not reliably in a resolution     *)
(* that is still the boot's.  Then what the Display Manager was asked.     *)
RestoreDepth ==
    /\ hw' \in IF original \in Depths THEN {original}
               ELSE IF saved = NotSaved \/ ~HasDepth(saved) THEN {hw}
               ELSE IF original = NotRead THEN {hw, saved} ELSE {saved}
    /\ saved' = NotSaved /\ original' = NotSaved
    /\ UNCHANGED lost

\* Defect: CloseLogFile is dropped.
StopRunKeepsLog(fd) ==
    /\ running' = FALSE /\ timer' = FALSE
    /\ files' = IF fd > 0 THEN FilesAfterClose(fd) ELSE files
    /\ IF cfg.monitor THEN RestoreDepth ELSE UNCHANGED screenVars
    /\ UNCHANGED <<log, vbl>>

StopRun(fd) ==
    /\ running' = FALSE /\ timer' = FALSE /\ log' = FALSE
    /\ files' = IF fd > 0 THEN FilesAfterClose(fd) ELSE files
    /\ IF cfg.monitor THEN RestoreDepth ELSE UNCHANGED screenVars
    /\ UNCHANGED vbl

(* load_and_boot number d returns: its frame and those above it are gone.  *)
ReturnFrom(d) ==
    /\ depth' = d - 1
    /\ frame' = [i \in 0 .. MaxDepth |->
                    IF i >= d THEN MainFrame
                    ELSE IF i = 0 /\ frame[0].st = "check"
                    THEN [frame[0] EXCEPT !.st = "event"] ELSE frame[i]]

(* copyunix returns and load_and_boot runs its last line, StopRun (kern_fd).*)
(* A BootError on the way has stopped the run already: stopping it again   *)
(* with -1 first changes nothing.                                          *)
CopyunixReturns == /\ StopRun(kern_fd) /\ ReturnFrom(depth)
                   /\ UNCHANGED <<startboot, cfg, dialog, bootenv, boots,
                                  kern_fd, booter_files, session>>

KeepBuffer    == UNCHANGED memVars
\* Defect: CLEANUP only returns.
DisposeBufferOmitted == KeepBuffer

DisposeBuffer == /\ live' = live \ {Top.buf} /\ loaded' = loaded \ {Top.buf}
                 /\ UNCHANGED boot_buffer
-----------------------------------------------------------------------------
Init ==
    /\ machine \in Machines
    /\ running = FALSE /\ startboot = FALSE
    /\ timer \in {b \in BOOLEAN : b => MaxBoots > 0}   \* AutoBoot
    /\ cfg \in Configs /\ dialog = FALSE
    /\ frame = [i \in 0 .. MaxDepth |-> MainFrame] /\ depth = 0
    /\ bootenv = 0 /\ boots = 0
    /\ kern_fd = -1 /\ files = {} /\ booter_files = <<>>
    /\ live = {} /\ loaded = {} /\ boot_buffer = 0
    /\ hw = machine.depth /\ saved = NotSaved /\ original = NotSaved /\ lost = {}
    /\ log = FALSE /\ vbl = "on"
    /\ outcome = "none"
-----------------------------------------------------------------------------
(* MainEvent, called by main's loop or by an EVENT_CHECK.                  *)

InMainEvent == outcome = "none" /\ Top.st = "event"
Idle == ~running /\ ~timer      \* MaintainMenus enables the options items

(* MainEvent returns 1; main's loop calls it again, a boot tests running.  *)
Resume(f) == [f EXCEPT ![depth].st = IF depth = 0 THEN "event" ELSE "check"]

StopBoot ==                     \* the menu item is never disabled
    /\ InMainEvent
    /\ StopRun(-1)
    /\ frame' = Resume(Halted(frame))
    /\ UNCHANGED <<startboot, cfg, dialog, callVars, kern_fd, booter_files, memVars, session>>

(* Boots still owed to the timer or to an earlier request. *)
Owed == (IF timer THEN 1 ELSE 0) + (IF startboot THEN 1 ELSE 0)

BootNow ==                      \* GetAllOptions reads the dialogs that are open
    /\ InMainEvent /\ ~running
    /\ startboot \/ boots + Owed < MaxBoots
    /\ startboot' = TRUE
    /\ IF dialog THEN cfg' \in Configs ELSE UNCHANGED cfg
    /\ frame' = Resume(frame)
    /\ UNCHANGED <<running, timer, dialog, callVars, fileVars, memVars, machVars, session>>

OpenBoot ==                     \* Open...: sets MacKernel, not kernelLoc
    /\ InMainEvent /\ Idle
    /\ startboot \/ boots + Owed < MaxBoots
    /\ startboot' = TRUE
    /\ frame' = Resume(frame)
    /\ UNCHANGED <<running, timer, cfg, dialog, callVars, fileVars, memVars, machVars, session>>

OpenDialog ==
    /\ InMainEvent /\ Idle
    /\ dialog' = TRUE
    /\ frame' = Resume(frame)
    /\ UNCHANGED <<running, startboot, timer, cfg, callVars, fileVars, memVars, machVars, session>>

DialogHit ==                    \* modeless: an open dialog takes events mid-boot
    /\ InMainEvent /\ dialog
    /\ cfg' \in Configs
    /\ dialog' \in BOOLEAN
    /\ frame' = Resume(frame)
    /\ UNCHANGED <<running, startboot, timer, callVars, fileVars, memVars, machVars, session>>

Quit ==
    /\ InMainEvent
    /\ outcome' = "quit"
    /\ UNCHANGED <<machine, bootVars, frame, callVars, fileVars, memVars, machVars>>

(* load_and_boot up to kernel_open; the caller resumes at `resume'.        *)
LoadAndBoot(resume) ==
    /\ depth < MaxDepth
    /\ running' = TRUE /\ startboot' = FALSE
    /\ depth' = depth + 1 /\ bootenv' = depth + 1 /\ boots' = boots + 1
    /\ frame' = [frame EXCEPT ![depth].st = resume, ![depth + 1] = NewFrame(boots + 1)]
    \* OpenLogFile; a log left open cannot be opened again, and fileref is zeroed
    /\ IF cfg.LogToFile THEN log' \in {FALSE, ~log} ELSE UNCHANGED log
    /\ UNCHANGED <<cfg, dialog, fileVars, memVars, screenVars, vbl, session>>

\* Defect: time_boot_start is not reset before the boot.
TimerBootStaysArmed == InMainEvent /\ timer /\ ~running /\ UNCHANGED timer /\ LoadAndBoot("recheck")
\* Defect: the test of `running' is inverted.
TimerBootInverted == InMainEvent /\ timer /\ running /\ timer' = FALSE /\ LoadAndBoot("recheck")

TimerBoot ==                    \* a null event after the autoboot time-out
    /\ InMainEvent /\ timer /\ ~running
    /\ timer' = FALSE
    /\ LoadAndBoot("recheck")

StartBoot ==
    /\ outcome = "none" /\ Top.st \in {"event", "recheck"}
    /\ ~running /\ startboot
    /\ UNCHANGED timer
    /\ LoadAndBoot("check")

\* Defect: a running boot waits for a real event.
NullEventOnlyIdle ==
    /\ outcome = "none" /\ Top.st \in {"event", "recheck"}
    /\ ~running /\ ~startboot
    /\ frame' = Resume(frame)
    /\ UNCHANGED <<bootVars, callVars, fileVars, memVars, machVars, session>>

NullEvent ==
    /\ outcome = "none" /\ Top.st \in {"event", "recheck"}
    /\ running \/ ~startboot
    /\ frame' = Resume(frame)
    /\ UNCHANGED <<bootVars, callVars, fileVars, memVars, machVars, session>>

UserEvent == StopBoot \/ BootNow \/ OpenBoot \/ OpenDialog \/ DialogHit \/ Quit
SystemEvent == TimerBoot \/ StartBoot \/ NullEvent
MainEvent == UserEvent \/ SystemEvent
-----------------------------------------------------------------------------
(* EVENT_CHECK: call MainEvent, then test running.                         *)

(* Phases between whose parts copyunix polls again. *)
PollsAgain == {"alloc", "load", "patch", "monitor", "video", "last"}
(* Calls that read the kernel, polling from read_ufs.c when it is on UFS.  *)
UfsReads == \/ Top.pc \in {"open", "header"}
            \/ Top.pc \in {"count", "load"} /\ Readable(Top.io)

Poll ==
    /\ InBoot /\ Top.st = "work"
    /\ \/ Top.pc \in PollsAgain
          /\ SetTop([Top EXCEPT !.st = "event", !.in = "copyunix"])
       \/ cfg.kernelLoc = "NetBSDPart" /\ UfsReads
          /\ SetTop([Top EXCEPT !.st = "event", !.in = "ufs"])
    /\ UNCHANGED <<bootVars, callVars, fileVars, memVars, machVars, session>>

\* Defect: EVENT_CHECK forgets to test running.
CheckPassesUntested ==
    /\ InBoot /\ Top.st = "check"
    /\ SetTop([Top EXCEPT !.st = "work"])
    /\ UNCHANGED <<bootVars, callVars, fileVars, memVars, machVars, session>>

CheckPasses ==
    /\ InBoot /\ Top.st = "check" /\ running
    /\ SetTop([Top EXCEPT !.st = "work"])
    /\ UNCHANGED <<bootVars, callVars, fileVars, memVars, machVars, session>>

CheckCleansUp ==                \* copyunix's CLEANUP disposes the buffer and returns
    /\ InBoot /\ Top.st = "check" /\ ~running /\ Top.in = "copyunix"
    /\ DisposeBuffer
    /\ CopyunixReturns

CheckJumps ==                   \* read_ufs.c's CLEANUP is empty: longjmp (bootenv, 1)
    /\ InBoot /\ Top.st = "check" /\ ~running /\ Top.in = "ufs"
    /\ bootenv \in 1 .. depth
    /\ files' = IF kern_fd >= 0 THEN FilesAfterClose(kern_fd) ELSE files
    /\ ReturnFrom(bootenv)
    /\ UNCHANGED <<bootVars, bootenv, boots, kern_fd, booter_files, memVars, machVars, session>>
-----------------------------------------------------------------------------
(* kernel_open, called by load_and_boot.                                   *)

OpenReturnsError ==             \* kern_fd = -1, StopRun (-1), return
    /\ kern_fd' = -1
    /\ StopRun(-1) /\ ReturnFrom(depth)
    /\ UNCHANGED <<startboot, cfg, dialog, bootenv, boots, memVars, session>>

OpenFails == At("open") /\ OpenReturnsError /\ UNCHANGED booter_files

(* The back end opened the file as fd; gzboot_open looks for a free slot.  *)
OpenInSlot(fd) ==
    /\ Len(booter_files) < MaxBooterFiles
    /\ booter_files' = Append(booter_files, fd)
    /\ SetTop([Top EXCEPT !.pc = "header", !.io = fd])
    /\ UNCHANGED kern_fd

OpenWithoutSlot(fd) ==          \* both slots were used before: none is recorded
    /\ Len(booter_files) >= MaxBooterFiles
    /\ kern_fd' = fd
    /\ SetTop([Top EXCEPT !.pc = "count", !.st = "event", !.in = "copyunix", !.io = fd])
    /\ UNCHANGED booter_files

BootOpen ==
    /\ At("open")
    /\ \E fd \in NextFds(cfg.kernelLoc) :
         /\ files' = files \cup {<<cfg.kernelLoc, fd>>}
         /\ OpenInSlot(fd) \/ OpenWithoutSlot(fd)
    /\ UNCHANGED <<bootVars, callVars, memVars, machVars, session>>

SlotInitFails ==                \* fd = -1, and gzboot_close (-1) finds no slot
    /\ At("header") /\ OpenReturnsError /\ UNCHANGED booter_files

ReadHeader ==
    /\ At("header")
    /\ kern_fd' = Top.io
    /\ GoTo("count")
    /\ UNCHANGED <<bootVars, callVars, files, booter_files, memVars, machVars, session>>
-----------------------------------------------------------------------------
(* copyunix, phase by phase.                                               *)

CountKernel ==                  \* kernel_parse (io, COUNT_KERNEL)
    /\ At("count") /\ Readable(Top.io)
    /\ GoTo("alloc")
    /\ UNCHANGED <<bootVars, callVars, fileVars, memVars, machVars, session>>

CountFails == At("count") /\ KeepBuffer /\ CopyunixReturns

AllocBuffer ==
    /\ At("alloc")
    /\ live' = live \cup {Top.boot}
    /\ SetTop([Top EXCEPT !.pc = "load", !.st = "event", !.in = "copyunix", !.buf = Top.boot])
    /\ UNCHANGED <<bootVars, callVars, fileVars, loaded, boot_buffer, machVars, session>>

AllocFails == At("alloc") /\ KeepBuffer /\ CopyunixReturns

\* Defect: the result of kernel_parse (io, LOAD_KERNEL) is ignored.
LoadKernelUnchecked ==
    /\ At("load")
    /\ loaded' \in {loaded, loaded \cup {Top.buf}}
    /\ GoTo("patch")
    /\ UNCHANGED <<bootVars, callVars, fileVars, live, boot_buffer, machVars, session>>

LoadKernel ==                   \* kernel_parse (io, LOAD_KERNEL)
    /\ At("load") /\ Readable(Top.io)
    /\ loaded' = loaded \cup {Top.buf}
    /\ GoTo("patch")
    /\ UNCHANGED <<bootVars, callVars, fileVars, live, boot_buffer, machVars, session>>

LoadFails == At("load") /\ DisposeBuffer /\ CopyunixReturns

PatchKernel ==                  \* boothowto, envbuf, copycode, the globals it will use
    /\ At("patch")
    /\ boot_buffer' = Top.buf
    /\ GoTo("monitor")
    /\ UNCHANGED <<bootVars, callVars, fileVars, live, loaded, machVars, session>>

(* SaveDepth keeps millions as thousands.  If there is a size, the setting *)
(* of the screen it was found for is kept too.  The screen gets any depth. *)
SaveDepth == saved' = IF hw = 32 THEN 16 ELSE hw
MonitorChange ==
    /\ SaveDepth
    /\ original' \in {original, hw, NotMain, NotRead}
    /\ hw' \in machine.depths
    /\ lost' = lost \cup {how \in Losses : \/ how = "overwritten" /\ saved # NotSaved
                                           \/ how = "unread" /\ original' = NotRead}

ChangeMonitor ==
    /\ At("monitor")
    /\ IF cfg.monitor THEN MonitorChange ELSE UNCHANGED screenVars
    /\ GoTo("video")
    /\ UNCHANGED <<bootVars, callVars, fileVars, memVars, log, vbl, session>>

(* A video call fails: with AbortNonFatal it clears `running' and nothing else. *)
VideoError(f) ==
    IF cfg.AbortNonFatal THEN running' = FALSE /\ frame' = Halted(f)
                         ELSE UNCHANGED running /\ frame' = f

VideoInfo ==                    \* SetupEnv, set_video_info; no EVENT_CHECK follows
    /\ At("video")
    /\ LET next == [frame EXCEPT ![depth].pc = "confirm"]
       IN  (UNCHANGED running /\ frame' = next) \/ VideoError(next)
    /\ UNCHANGED <<startboot, timer, cfg, dialog, callVars, fileVars, memVars, machVars, session>>

Confirm ==
    /\ At("confirm")
    /\ GoTo("closelog")
    /\ UNCHANGED <<bootVars, callVars, fileVars, memVars, machVars, session>>

ConfirmCancelled == At("confirm") /\ cfg.PauseBeforeBoot /\ DisposeBuffer /\ CopyunixReturns

CloseLog ==
    /\ At("closelog")
    /\ log' = FALSE
    /\ GoTo("interrupts")
    /\ UNCHANGED <<bootVars, callVars, fileVars, memVars, screenVars, vbl, session>>

AbortOnPPC ==                   \* StopRun (io), then return: the buffer stays allocated
    /\ At("interrupts") /\ machine.onPPC
    /\ KeepBuffer
    /\ running' = FALSE /\ timer' = FALSE /\ log' = FALSE
    /\ files' = {x \in files : \A fd \in {Top.io, kern_fd} :
                                  fd > 0 => x \in FilesAfterClose(fd)}
    /\ IF cfg.monitor THEN RestoreDepth ELSE UNCHANGED screenVars
    /\ ReturnFrom(depth)
    /\ UNCHANGED <<startboot, cfg, dialog, bootenv, boots, kern_fd, booter_files, vbl, session>>

TurnOffInterrupts ==
    /\ At("interrupts") /\ ~machine.onPPC
    /\ LET next == [frame EXCEPT ![depth].pc = "last", ![depth].st = "event",
                                 ![depth].in = "copyunix"]
       IN  \/ /\ vbl' = IF cfg.NoDisableVBLs THEN vbl ELSE "off"
              /\ UNCHANGED running /\ frame' = next
           \/ /\ ~cfg.NoDisableVBLs /\ vbl' = "error"
              /\ VideoError(next)
    /\ UNCHANGED <<startboot, timer, cfg, dialog, callVars, fileVars, memVars,
                   screenVars, log, session>>

EnterKernel ==                  \* ShutDwnStart runs shutdownProc, which jumps to copycode
    /\ At("last")
    /\ outcome' = "kernel"
    /\ UNCHANGED <<machine, bootVars, frame, callVars, fileVars, memVars, machVars>>

ShutDwnStartReturns == At("last") /\ machine.shutDwnReturns /\ KeepBuffer /\ CopyunixReturns

Work == \/ OpenFails \/ BootOpen \/ SlotInitFails \/ ReadHeader
        \/ CountKernel \/ CountFails \/ AllocBuffer \/ AllocFails
        \/ LoadKernel \/ LoadFails \/ PatchKernel \/ ChangeMonitor
        \/ VideoInfo \/ Confirm \/ ConfirmCancelled \/ CloseLog \/ AbortOnPPC
        \/ TurnOffInterrupts \/ EnterKernel \/ ShutDwnStartReturns

Check == CheckPasses \/ CheckCleansUp \/ CheckJumps
Ended == outcome # "none" /\ UNCHANGED vars

Next == MainEvent \/ Poll \/ Check \/ Work \/ Ended
Spec == Init /\ [][Next]_vars

(* Inside a boot WaitNextEvent times out with a null event when the user   *)
(* does nothing, so MainEvent returns; a phase has finitely many           *)
(* EVENT_CHECKs (hence strong fairness of Work past Poll); and an idle     *)
(* loop eventually sees the null event that starts a boot.                 *)
FairSpec == /\ Spec
            /\ WF_vars(depth > 0 /\ SystemEvent)
            /\ WF_vars(Check) /\ SF_vars(Work)
            /\ WF_vars(TimerBoot) /\ WF_vars(StartBoot)
-----------------------------------------------------------------------------
(* Every variable has its type, and the call depth stays within its bound. *)
TypeOK ==
    /\ machine \in MachineType
    /\ running \in BOOLEAN /\ startboot \in BOOLEAN /\ timer \in BOOLEAN
    /\ cfg \in ConfigType /\ dialog \in BOOLEAN
    /\ depth \in 0 .. MaxDepth /\ frame \in [0 .. MaxDepth -> Frame]
    /\ bootenv \in 0 .. MaxDepth /\ boots \in 0 .. MaxBoots
    /\ kern_fd \in Fds \cup {-1} /\ files \subseteq Locations \X Fds
    /\ booter_files \in Seq(Fds)
    /\ live \subseteq 0 .. MaxBoots /\ loaded \subseteq 0 .. MaxBoots
    /\ boot_buffer \in 0 .. MaxBoots
    /\ hw \in Depths /\ saved \in Depths \cup {NotSaved}
    /\ original \in Depths \cup {NotSaved, NotMain, NotRead} /\ lost \subseteq Losses
    /\ log \in BOOLEAN /\ vbl \in {"on", "off", "error"}
    /\ outcome \in {"none", "kernel", "quit"}

(* The kernel is only entered by the boot on top of the stack, while it is *)
(* running, with boot_buffer (which shutdownProc passes to copycode) its   *)
(* own buffer, still allocated and filled by kernel_parse, and with the    *)
(* log file closed (copyunix lines 282-654).                               *)
KernelEntrySafe ==
    outcome = "kernel" => /\ running /\ ~log
                          /\ boot_buffer = Top.buf
                          /\ boot_buffer \in live \cap loaded

(* A boot that was stopped, by the user or by AbortNonFatal, never enters  *)
(* the kernel, whatever other boots ran meanwhile (EVENT_CHECK).           *)
StopHonoured == outcome = "kernel" => ~Top.stopped

(* A boot is started on top of another only by the autoboot timer, once,   *)
(* out of the last two EVENT_CHECKs of a boot that is already doomed; so   *)
(* at most two are on the stack, and a longjmp from read_ufs.c always      *)
(* finds bootenv filled by the boot that is reading, never by a frame that *)
(* has returned (main.c 101, event_check.h 14).                            *)
StackDiscipline ==
    /\ depth <= 2
    /\ depth = 2 => /\ ~timer
                    /\ frame[1].stopped /\ frame[1].in = "copyunix"
                    /\ frame[1].pc \in {"closelog", "last"}
    /\ InBoot /\ Top.in = "ufs" => bootenv = depth

(* With no boot on the stack the session is not running (so a boot can be  *)
(* started and the menus are enabled) and the log file is closed, however  *)
(* the last boot ended: StopRun, BootError, CLEANUP or longjmp.            *)
IdleIsQuiet == depth = 0 => ~running /\ ~log

(* A buffer is allocated exactly while the boot that owns it is on the     *)
(* stack, so nothing is leaked: for kernels that are not read from UFS, on *)
(* a 68k machine whose ShutDwnStart does not return (copyunix CLEANUP).    *)
BuffersOwned ==
    /\ ~machine.onPPC /\ ~machine.shutDwnReturns
    /\ \A c \in Configs : c.kernelLoc # "NetBSDPart"
    => live = {frame[i].buf : i \in 1 .. depth} \ {0}

(* With no boot on the stack the last kernel that was opened is closed,    *)
(* when the location cannot change under the boot, is not UFS (whose       *)
(* descriptor 0 StopRun never closes), and gzip.c has a slot that names it *)
(* (main.c StopRun, gzboot_close).  A file whose slot could not be         *)
(* initialised is left open by gzboot_open and has no kern_fd.             *)
FilesReleased ==
    /\ \A c, d \in Configs : c.kernelLoc = d.kernelLoc
    /\ \A c \in Configs : c.kernelLoc # "NetBSDPart"
    /\ depth = 0 /\ HasSlot(kern_fd)
    => BackEndFile(kern_fd) \notin files

(* With no boot on the stack nothing is kept for a later boot to restore,  *)
(* and the main screen has the depth the user had, when the option that    *)
(* changes it cannot change under the boot (Monitors.c, StopRun).  Except  *)
(* for millions and modes SaveDepth does not know, which it cannot give    *)
(* back; and once MonitorChange has lost the setting: it was called in a   *)
(* boot inside one that had not restored its own, or could not read what   *)
(* the Display Manager would have to set again.                            *)
MonitorRestored ==
    /\ \A c, d \in Configs : c.monitor = d.monitor
    /\ depth = 0
    => /\ saved = NotSaved /\ original = NotSaved
       /\ machine.depth \notin {OddDepth, 32} /\ lost = {} => hw = machine.depth

(* A boot that is on the stack ends: it returns to main's loop, enters the *)
(* kernel, or the user quits.                                              *)
BootEnds == depth > 0 ~> depth = 0 \/ outcome # "none"

(* An armed autoboot fires or is called off.                               *)
AutobootDecided == timer ~> ~timer \/ outcome # "none"
=============================================================================
