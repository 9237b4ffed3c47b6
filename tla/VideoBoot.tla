----------------------------- MODULE VideoBoot -----------------------------
(***************************************************************************)
(* The screen during a boot: Monitors.c changes it and keeps what it was,  *)
(* videoaddr.c and videocard.c tell the kernel what there is and turn the  *)
(* cards' interrupts off, and a boot that is stopped at an EVENT_CHECK     *)
(* between those steps sets the screen back.                               *)
(***************************************************************************)
EXTENDS VideoRequest, VideoCards, FiniteSets, SequencesExt

CONSTANTS
    Machines,           \* see VideoRequest and VideoCards; kernel says which
                        \* of the symbols "cnt" and "vec" the kernel has
    Configs,            \* what the user may have configured
    MaxBoots            \* bound: boots in a session

Sizes == [m_640x480 |-> <<640, 480>>, m_800x600 |-> <<800, 600>>,
          m_832x624 |-> <<832, 624>>, m_1024x768 |-> <<1024, 768>>,
          m_1152x870 |-> <<1152, 870>>]
ModeType   == [mode : Nat \ {0}, bits : Nat \ {0}, h : Nat, v : Nat,
               valid : BOOLEAN, safe : BOOLEAN, readable : BOOLEAN]
ScreenType == [modes : Seq(ModeType), known : BOOLEAN, listed : BOOLEAN, inSlot : BOOLEAN,
               aware : BOOLEAN, reports : BOOLEAN]
ASSUME MachinesAssumption ==
    \A m \in Machines : /\ m.screen \in Seq(ScreenType) /\ m.dm \in Nat
                        /\ m.main \in DOMAIN m.screen \cup {Nil}
                        /\ DOMAIN m.card = 9 .. 14 /\ \A s \in 9 .. 14 : DOMAIN m.card[s] \subseteq Nat
ASSUME ConfigsAssumption ==
    /\ Configs # {}
    /\ \A c \in Configs : /\ c.setToGreys \in BOOLEAN /\ c.MonitorDepth \in Nat
                          /\ c.MonitorSize \in DOMAIN Sizes \cup {"none"}
ASSUME BoundsAssumption  == MaxBoots \in Nat

VARIABLES
    machine,            \* fixed for the session
    cfg,                \* currentConfiguration
    screens,            \* what each screen shows
    savedDepth, currentDepth, currentModeGreys,     \* Monitors.c
    gotVideoSetting, originalRec,                   \* Monitors.c
    video,              \* the globals of videoaddr.c
    told,               \* cards the kernel is told of, <<>> where it is not
    off,                \* slots whose interrupts are off
    running, pc, boots,
    user,               \* history: screens when the boot began
    sound               \* history: every device set was one, and was known

saved == <<savedDepth, currentDepth, currentModeGreys, gotVideoSetting, originalRec>>
vars  == <<machine, cfg, screens, saved, video, told, off, running, pc, boots,
           user, sound>>

main      == machine.main
Settings  == [mode : 1 .. 4, bits : {1, 8, 16, 32}, mono : BOOLEAN]
NoRequest == Request(0, 0, 0, {})
NoVideo   == [device |-> Nil, hacked |-> FALSE, depth |-> 0, width |-> 0, height |-> 0]

(* Any mode the screen has; greys end where thousands of colours begin.    *)
Init ==
    /\ machine \in Machines /\ cfg = CHOOSE c \in Configs : TRUE    \* Boot chooses
    /\ screens \in [DOMAIN machine.screen -> Settings]
    /\ \A i \in DOMAIN screens :
         /\ HasDepth(machine, screens, i, screens[i].bits)
         /\ screens[i].bits = 1 => screens[i].mono
         /\ screens[i].bits > 8 => ~screens[i].mono
    /\ savedDepth = FALSE /\ currentDepth = 0 /\ currentModeGreys = FALSE
    /\ gotVideoSetting = FALSE /\ originalRec = NoRequest
    /\ video = NoVideo /\ told = <<>> /\ off = {} /\ running = FALSE /\ pc = "idle"
    /\ boots = 0 /\ user = screens /\ sound = TRUE

Configured(c) == c.MonitorDepth # 0 \/ c.setToGreys \/ c.MonitorSize # "none"

Boot ==
    /\ pc = "idle" /\ boots < MaxBoots
    /\ cfg' \in Configs /\ boots' = boots + 1 /\ running' = TRUE
    /\ Configured(cfg') => main # Nil   \* a machine with no screen is not asked to change it
    /\ user' = screens
    /\ pc' = IF Configured(cfg') THEN "monitor" ELSE "address"
    /\ UNCHANGED <<machine, screens, saved, video, told, off, sound>>
-----------------------------------------------------------------------------
(* Monitors.c.                                                             *)

(* Millions are kept as thousands.                                         *)
SavedBits(bits) == IF bits = 32 THEN 16 ELSE bits
SaveDepth ==
    /\ currentModeGreys' = screens[main].mono
    /\ currentDepth' = SavedBits(screens[main].bits) /\ savedDepth' = TRUE

GetDisplayMgrVers == machine.dm
(* Greys ask for a monochrome device; without them the device is left.     *)
SetMain(shown, bits, greys) ==
    SetDepth(machine, shown, main, bits, greys \/ shown[main].mono)
GreyDepth(depth, greys) == IF greys /\ depth > 8 THEN 8 ELSE depth

(* Set the mode found and, if it is not confirmed, what was there before.  *)
Resized(r, original, hit) ==
    LET set == RVSetVideoRequest(machine, screens, r)
    IN  IF RVConfirmVideoRequest(r, hit) THEN set
        ELSE RVSetVideoRequest(machine, set, original)
ChangeSize(depth, size) ==
    \E r \in {RVRequestVideoSetting(machine,
                  Request(depth, Sizes[size][1], Sizes[size][2], {"AllValidModes"}))},
       hit \in ConfirmAlertFilter, junk \in BOOLEAN :
      LET asked    == IF r.screenDevice = Nil THEN [r EXCEPT !.notSafe = junk] ELSE r
          original == RVGetCurrentVideoSetting(machine, screens, r.screenDevice)
          resized  == Resized(asked, original, hit)
      IN  /\ originalRec' = original /\ gotVideoSetting' = TRUE
          /\ sound' = (sound /\ original.displayMode # NoMode)
          /\ screens' = IF cfg.setToGreys
                        THEN SetMain(resized, GreyDepth(depth, TRUE), TRUE) ELSE resized

MonitorChange ==
    /\ pc = "monitor" /\ pc' = "address"
    /\ SaveDepth
    /\ LET depth == IF cfg.MonitorDepth = 0 THEN SavedBits(screens[main].bits)
                    ELSE cfg.MonitorDepth
       IN  IF cfg.MonitorSize # "none" /\ GetDisplayMgrVers > 1
           THEN ChangeSize(depth, cfg.MonitorSize)
           ELSE /\ screens' = SetMain(screens, GreyDepth(depth, cfg.setToGreys), cfg.setToGreys)
                /\ UNCHANGED <<gotVideoSetting, originalRec, sound>>
    /\ UNCHANGED <<machine, cfg, video, told, off, running, boots, user>>

\* Defect: only the depth is set back.
DepthRestored ==
    IF savedDepth THEN SetMain(screens, currentDepth, currentModeGreys) ELSE screens
RestoreDepthOnly == /\ screens' = DepthRestored
                    /\ savedDepth' = FALSE /\ gotVideoSetting' = FALSE
                    /\ UNCHANGED <<currentDepth, currentModeGreys, originalRec>>
RestoreDepth ==
    /\ screens' = IF gotVideoSetting
                  THEN RVSetVideoRequest(machine, DepthRestored, originalRec)
                  ELSE DepthRestored
    /\ savedDepth' = FALSE /\ gotVideoSetting' = FALSE
    /\ UNCHANGED <<currentDepth, currentModeGreys, originalRec>>
-----------------------------------------------------------------------------
(* What the kernel is told.                                                *)

Timing(i, mode) == CHOOSE m \in {machine.screen[i].modes[k] : k \in DOMAIN machine.screen[i].modes} :
                       m.mode = mode
VideoOf(i) == LET m == Timing(i, screens[i].mode)
              IN  [device |-> i, hacked |-> FALSE, depth |-> screens[i].bits,
                   width |-> m.h, height |-> m.v]
getVideoAddress ==
    /\ pc = "address" /\ pc' = "info"
    /\ video' = [IF main = Nil THEN NoVideo ELSE VideoOf(main)
                 EXCEPT !.hacked = cfg.VideoHack]
    /\ UNCHANGED <<machine, cfg, screens, saved, told, off, running, boots, user, sound>>

(* A walk that meets an error clears `running' if that is configured.      *)
Walked(vinfo) == running' = (running /\ ~(vinfo.fatal /\ cfg.AbortNonFatal))

SetVideoInfo(vinfo) ==
    /\ Walked(vinfo)
    /\ told' = IF vinfo.err # NoError THEN <<>>
               ELSE [cnt |-> Len(vinfo.cards),
                     vec |-> IF "vec" \in machine.kernel THEN vinfo.cards ELSE <<>>]
set_video_info ==
    /\ pc = "info" /\ pc' = "off"
    /\ IF "cnt" \notin machine.kernel THEN told' = <<>> /\ UNCHANGED running
       ELSE SetVideoInfo(video_call(machine.card, machine.driver, "add_card", NoCards(off)))
    /\ UNCHANGED <<machine, cfg, screens, saved, video, off, boots, user, sound>>

TurnedOff(vinfo) == Walked(vinfo) /\ off' = vinfo.off
turn_off_interrupts ==
    /\ pc = "off" /\ running /\ pc' = "last"
    /\ IF cfg.NoDisableVBLs THEN UNCHANGED <<off, running>>
       ELSE TurnedOff(video_call(machine.card, machine.driver, "vbl_off", NoCards(off)))
    /\ UNCHANGED <<machine, cfg, screens, saved, video, told, boots, user, sound>>

EnterKernel == /\ pc = "last" /\ running /\ pc' = "kernel"
               /\ UNCHANGED <<machine, cfg, screens, saved, video, told, off, running, boots,
                              user, sound>>

(* The user, or an error before it, stops the boot at an EVENT_CHECK.      *)
StopRun == /\ pc \in {"monitor", "address", "info", "off", "last"}
           /\ pc' = "idle" /\ running' = FALSE
           /\ told' = <<>>     \* the kernel read is disposed
           /\ IF Configured(cfg) THEN RestoreDepth ELSE UNCHANGED <<screens, saved>>
           /\ UNCHANGED <<machine, cfg, video, off, boots, user, sound>>

Over == /\ pc = "kernel" \/ (pc = "idle" /\ boots = MaxBoots)
        /\ UNCHANGED vars

Next == \/ Boot \/ MonitorChange \/ getVideoAddress \/ set_video_info
        \/ turn_off_interrupts \/ EnterKernel \/ StopRun \/ Over
Spec == Init /\ [][Next]_vars
-----------------------------------------------------------------------------
(* The modes of the size asked for that screen i offers to a search.       *)
Offered(s, m) == m.valid /\ (s.listed \/ (s.inSlot /\ m.readable))
OfSize(i) == {m \in ToSet(machine.screen[i].modes) :
                 /\ machine.screen[i].known /\ Offered(machine.screen[i], m)
                 /\ <<m.h, m.v>> = Sizes[cfg.MonitorSize]}

(* Of those of the main screen, the ones of the depth asked for, or, if    *)
(* none was, of the depth it had; all of them if there is no such one, and *)
(* if it had millions (Monitors.c line 48 asks for thousands).             *)
WantedDepth == IF cfg.MonitorDepth = 0 THEN user[main].bits ELSE cfg.MonitorDepth
Wanted ==
    LET exact == {m \in OfSize(main) : m.bits = WantedDepth}
    IN  IF exact = {} \/ (cfg.MonitorDepth = 0 /\ WantedDepth = 32) THEN OfSize(main)
        ELSE exact
MainShows(shown) == /\ screens[main].mode = shown.mode
                    /\ cfg.setToGreys \/ screens[main].bits = shown.bits

(* Whatever the order in which the screens list their modes: when the main *)
(* screen offers the size asked for, and no other one does, the main one   *)
(* is set to a mode of that size, of the depth asked for if it is offered  *)
(* in that size (greys may take another depth), or, if that mode is not    *)
(* safe, shows what it did; the others show what they did.  Nothing is     *)
(* promised of a size the main screen does not offer, and of one that      *)
(* another screen does: the search takes the nearest mode of any screen    *)
(* (RequestVideo.c line 583); nor of a driver that cannot switch modes.    *)
SizeAsAsked ==
    /\ pc = "address" /\ gotVideoSetting /\ machine.slotManager
    /\ machine.screen[main].aware /\ OfSize(main) # {}
    /\ \A i \in DOMAIN screens \ {main} : OfSize(i) = {}
    => /\ \A i \in DOMAIN screens \ {main} : screens[i] = user[i]
       /\ \E m \in Wanted : MainShows(m) \/ (~m.safe /\ MainShows(user[main]))

(* When no boot runs every screen has the timing and the depth it had      *)
(* before: also if the change was not confirmed, took another screen than  *)
(* the main one, or could only be made in part.  Except for millions on    *)
(* the main screen, which become thousands or, if it has none, are not set *)
(* back (Monitors.c line 48), and that nothing is promised if the search   *)
(* had no result or it could not be read what the screen showed.           *)
MonitorRestored ==
    (pc = "idle" /\ sound) => \A i \in DOMAIN screens :
        /\ screens[i].mode = user[i].mode
        /\ \/ screens[i].bits = user[i].bits
           \/ i = main /\ user[i].bits = 32

(* Slots with a card, and slots that cannot be read.                       *)
FirstIs(s, kind) ==
    /\ 1 \in DOMAIN machine.card[s]
    /\ \E id \in DOMAIN machine.card[s] :
         /\ machine.card[s][id] = kind
         /\ \A k \in DOMAIN machine.card[s] :
              k < id => machine.card[s][k] \notin {"video", "error"}
CardSlots == {s \in DOMAIN machine.card : FirstIs(s, "video")}
Unread    == {s \in DOMAIN machine.card : FirstIs(s, "error")}
Failing   == Unread \cup {s \in CardSlots : machine.driver[s] # "ok"}

(* When the kernel is entered, what it is told of the screen is what the   *)
(* main screen shows after all changes; it is told of every card once, in  *)
(* the order of the slots, or of none, and of none only if a slot cannot   *)
(* be read or there are MAX_CARDS; every card before the first that fails  *)
(* has its interrupts off; and with AbortNonFatal no slot failed.          *)
KernelToldRight ==
    pc = "kernel" =>
        /\ main # Nil => video = [VideoOf(main) EXCEPT !.hacked = cfg.VideoHack]
        /\ "cnt" \in machine.kernel =>
             IF told = <<>> THEN Unread # {} \/ CardSlots = DOMAIN machine.card
             ELSE /\ told.cnt = Cardinality(CardSlots)
                  /\ "vec" \in machine.kernel =>
                       /\ {c.slot : c \in ToSet(told.vec)} = CardSlots
                       /\ \A i, j \in DOMAIN told.vec :
                            i < j => told.vec[i].slot < told.vec[j].slot
        /\ ~cfg.NoDisableVBLs =>
             /\ \A s \in CardSlots : (\A f \in Failing : s < f) => s \in off
             /\ cfg.AbortNonFatal => Failing = {}
=============================================================================
